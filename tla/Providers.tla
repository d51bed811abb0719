----------------------------- MODULE Providers -----------------------------
(***************************************************************************)
(* What the providers (crates/providers) do besides translating: say what  *)
(* they are capable of, list an upstream's models at boot, and pass a      *)
(* client's bytes through to an upstream that speaks the client's own      *)
(* protocol.                                                               *)
(***************************************************************************)
EXTENDS Plugins

(* The constructors: default_headers that are no HTTP headers are an error *)
(* for every kind that has them; otherwise the provider's capabilities, of *)
(* which admission asks for vision only.                                   *)
Constructed(u, vision) == IF u.headers_valid THEN {[vision |-> vision]} ELSE {}

AnthropicProvider_new(u) == Constructed(u, TRUE)
OpenAiCompatibleProvider_new(u) == Constructed(u, TRUE)
GeminiProvider_new(u) == Constructed(u, TRUE)
DeepseekProvider_new(u) == Constructed(u, FALSE)
GlmProvider_new(u) == Constructed(u, TRUE)
CopilotProvider_spawn == {[vision |-> TRUE]}

new_provider(u) ==
    CASE u.kind = "Anthropic" -> AnthropicProvider_new(u)
      [] u.kind = "OpenAiCompatible" -> OpenAiCompatibleProvider_new(u)
      [] u.kind = "Gemini" -> GeminiProvider_new(u)
      [] u.kind = "Deepseek" -> DeepseekProvider_new(u)
      [] u.kind = "Glm" -> GlmProvider_new(u)
      [] u.kind = "GithubCopilot" -> CopilotProvider_spawn
-----------------------------------------------------------------------------
(* How an upstream answers GET /models: not at all, with an error status,  *)
(* with a body that is no JSON or breaks off, with JSON that lacks the     *)
(* array, or with a list of names.  "tokenless": Copilot has no token to   *)
(* ask with.                                                               *)
Unheard == [what |-> "unreachable", names |-> {}]
ListingReplies == {"tokenless", "unreachable", "refused", "unreadable", "shapeless", "listing"}

(* list_models returns models, None or an error.                           *)
Listing(tag, names) == [tag |-> tag, names |-> names]
SomeOrNone(names) == Listing(IF names = {} THEN "none" ELSE "models", names)

(* OpenAI-compatible upstreams, and in the same words Anthropic, DeepSeek  *)
(* and GLM.                                                                *)
DataModels(reply) ==
    IF reply.what \in {"unreachable", "unreadable"} THEN Listing("error", {})
    ELSE IF reply.what = "listing" THEN SomeOrNone(reply.names)
    ELSE Listing("none", {})

(* Gemini's names start with "models/"; one that does not is left out.     *)
GeminiModels(reply) ==
    LET prefixed == {n \in reply.names : Head(n) = "models/"}
    IN  DataModels([reply EXCEPT !.names = {Tail(n) : n \in prefixed}])

(* Copilot needs a token, and reports a refusal or a missing array.        *)
parse_models_response(reply) ==
    IF reply.what # "listing" THEN Listing("error", {}) ELSE SomeOrNone(reply.names)

list_models(kind, reply) ==
    CASE kind = "Gemini" -> GeminiModels(reply)
      [] kind = "GithubCopilot" -> parse_models_response(reply)
      [] OTHER -> DataModels(reply)

(* The discovery of AppState::build: a provider without models is skipped. *)
Discovered(cfg, built, replies) ==
    LET reply(u) == IF u \in DOMAIN replies THEN replies[u] ELSE Unheard
        result(u) == list_models(cfg.upstreams[u].kind, reply(u))
    IN  [u \in {u \in built : result(u).tag = "models"} |-> result(u).names]
-----------------------------------------------------------------------------
(* proxy_raw: the client protocols a kind of provider passes through.      *)
PassesThrough(kind) ==
    CASE kind = "Anthropic" -> {"AnthropicMessages"}
      [] kind \in {"OpenAiCompatible", "GithubCopilot"} -> {"OpenAiResponses"}
      [] OTHER -> {}

(* Its results: it declines, fails before anything is sent (Copilot, for   *)
(* want of a token), fails afterwards, or has the upstream's answer.       *)
ProxyResults(kind, frontend) ==
    IF frontend \notin PassesThrough(kind) THEN {"declined"}
    ELSE {"failed", "proxied"} \cup (IF kind = "GithubCopilot" THEN {"unsent"} ELSE {})
=============================================================================
