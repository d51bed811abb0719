------------------------------ MODULE Pipeline ------------------------------
(***************************************************************************)
(* The gateway from its configuration file to one request's answer: boot   *)
(* (validate, build the providers, the plugin registry and the router,     *)
(* discover the models), then `dispatch` (crates/gateway/src/pipeline.rs): *)
(* decode, authenticate, route, the H2 and H3 hooks, the second route      *)
(* lookup, admission, raw passthrough or the resilient caller, the H5 hook *)
(* on every event and the H7 hook at the end. The client can go away at    *)
(* every await. Buckets, breakers and retries are modelled in Resilience:  *)
(* here admission and the caller are their possible answers.               *)
(***************************************************************************)
EXTENDS Providers

CONSTANTS Configs,     \* the configuration files considered
          Inbound,     \* the requests a client may send
          \* ([frontend, model, key, body, stream, size])
          Catalogues,  \* what the upstreams may answer to model discovery
          MaxEvents    \* bound on the events of an upstream stream

ASSUME EventsAssumption == MaxEvents \in Nat
ASSUME InboundAssumption ==
    \A r \in Inbound : /\ r.frontend \in FrontendKind /\ r.stream \in BOOLEAN
                       /\ r.body \in {"good", "undecodable", "modelless"}
                       /\ r.size \in [text : Nat, images : Nat, max_tokens : SUBSET Nat]
                       /\ \A m, n \in r.size.max_tokens : m = n
ASSUME ConfigsAssumption == \A c \in Configs : Schema(c)

VARIABLES cfg,        \* the configuration file
          gateway,    \* boot, refused, panicked or serving
          providers,  \* the upstreams whose provider could be built
          index,      \* the ModelIndex
          req         \* the request in the pipeline

vars == <<cfg, gateway, providers, index, req>>
core == <<cfg, gateway, providers, index>>

(* canon: the canonical request; finished: plugins that returned a value   *)
(* in time; mutated: passthrough_blocked_by_plugin_mutation; sent: the     *)
(* forms in which the request went upstream; buf: the event in the H5      *)
(* chain, each copy with the plugins that processed it; delivered: the     *)
(* same for the events the client got.                                     *)
NoRequest ==
    [pc |-> "idle", in |-> {}, canon |-> [own |-> "client", edits |-> {}], finished |-> {},
     mutated |-> FALSE, at |-> 1, route |-> {}, entry |-> {}, chain |-> << >>, admitted |-> FALSE,
     sent |-> {}, events |-> 0, buf |-> << >>, delivered |-> {},
     h7 |-> 0, outcome |-> "none"]

Init ==
    /\ cfg \in Configs
    /\ gateway = "boot"
    /\ providers = {} /\ index = << >>
    /\ req = NoRequest
-----------------------------------------------------------------------------
(* AppState::build: a provider that cannot be built is only logged.        *)
BuildFails(built) == RegistryBuildErrors(cfg, built) # {}

(* StaticRouter::from_config expects both halves of the singular form.     *)
RouterPanics == \E r \in RoutesOf(cfg) :
                   r.upstreams = << >> /\ (r.upstream = {} \/ r.upstream_model = {})

Refuse ==
    /\ gateway = "boot"
    /\ Problems(cfg) # {}
    /\ gateway' = "refused"
    /\ UNCHANGED <<cfg, providers, index, req>>

(* The HTTP client of any of these may still fail to build.                *)
Buildable == {u \in DOMAIN cfg.upstreams : new_provider(cfg.upstreams[u]) # {}}

Boot ==
    /\ gateway = "boot"
    /\ Problems(cfg) = {}
    /\ \E built \in SUBSET Buildable, catalogue \in Catalogues :
          LET found == Discovered(cfg, built, catalogue)
          IN  /\ gateway' = IF BuildFails(built) THEN "refused"
                            ELSE IF RouterPanics THEN "panicked"
                            ELSE IF validate_with_index(cfg, found) # {} THEN "refused"
                            ELSE "serving"
              /\ providers' = built
              /\ index' = found
    /\ UNCHANGED <<cfg, req>>
-----------------------------------------------------------------------------
The == CHOOSE r \in req.in : TRUE
HookPlan == Plan(cfg, The.frontend, The.model)
TryProxyRaw == The.frontend # "OpenAiChat"

At(pc) == gateway = "serving" /\ req.pc = pc /\ UNCHANGED core
Goto(pc) == req' = [req EXCEPT !.pc = pc, !.at = 1]
Answer(outcome) == req' = [req EXCEPT !.pc = "done", !.outcome = outcome]

(* A request arrives. On the passthrough endpoints only its model is read, *)
(* elsewhere it is decoded, before anyone asks who sent it.                *)
Arrive ==
    /\ At("idle")
    /\ \E r \in Inbound : req' = [req EXCEPT !.in = {r}, !.pc = "open"]

(* decode_or_dump: when the body could be dumped, any decode error becomes *)
(* InvalidBody; otherwise it stays what it was.                            *)
DecodeFailures == {"InvalidBody", "Unsupported"}

Open ==
    /\ At("open")
    /\ IF TryProxyRaw
       THEN IF The.body = "modelless" THEN Answer("InvalidBody") ELSE Goto("auth")
       ELSE IF The.body # "good" THEN \E o \in DecodeFailures : Answer(o) ELSE Goto("auth")

(* Mutant of Authorised: any key will do.                                  *)
AuthorisedByAnyKey(key) == ~cfg.auth.enabled \/ ~cfg.auth.required \/ key # "none"

(* The hash of a presented key, in lower case.                             *)
hash_key(key) == [hash |-> "lower", of |-> key]

(* check_auth: an unknown key is as good as none.                          *)
Authorised(key) ==
    \/ ~cfg.auth.enabled
    \/ ~cfg.auth.required
    \/ key # "none" /\ hash_key(key) \in cfg.auth.keys

CheckAuth ==
    /\ At("auth")
    /\ IF Authorised(The.key) THEN Goto("route") ELSE Answer("Unauthorized")

ResolveRoute ==
    /\ At("route")
    /\ LET found == Resolve(cfg, index, The.frontend, The.model)
       IN  IF found = {} THEN Answer("NoRoute")
           ELSE \E r \in found :
                  req' = [req EXCEPT !.pc = "decode", !.route = {r.at}, !.chain = r.chain]

Decode ==
    /\ At("decode")
    /\ IF TryProxyRaw /\ The.body # "good" THEN \E o \in DecodeFailures : Answer(o)
       ELSE Goto("on_decoded_request")
-----------------------------------------------------------------------------
(* run_pre_admission_hook: the hook's plugins one by one, each at its own  *)
(* await. The comparison that blocks passthrough is per hook.              *)
After == [on_decoded_request |-> "on_resolved", on_resolved |-> "entry"]

(* Mutant of Mutates: only the identity of the request is compared.        *)
MutatesOwnOnly(before, after) == TryProxyRaw /\ after.own # before.own

Mutates(before, after) == TryProxyRaw /\ after # before

(* PluginFailed { aborted } tells an abort from the other failures.        *)
PluginFailure(ending) == IF ending = "aborted" THEN "PluginAborted" ELSE "PluginFailed"

WalkHook(hook) ==
    /\ At(hook)
    /\ req.at <= Len(HookPlan[hook])
    /\ LET p == HookPlan[hook][req.at]
       IN  \E ending \in Endings : \E copy \in Copies(req.canon, p) :
              LET w == Walked(req.canon, copy, ending, cfg.plugins[p].on_error)
              IN  IF w.outcome = "propagate" THEN Answer(PluginFailure(ending))
                  ELSE req' = [req EXCEPT !.at = @ + 1, !.canon = w.req,
                                 !.mutated = @ \/ Mutates(req.canon, w.req),
                                 !.finished = IF w.outcome = "success" THEN @ \cup {p} ELSE @]

EndHook(hook) ==
    /\ At(hook)
    /\ req.at > Len(HookPlan[hook])
    /\ Goto(After[hook])

FindEntry ==
    /\ At("entry")
    /\ LET entry == find_route_entry(cfg, The.frontend, The.model)
       IN  IF entry = {} THEN Answer("NoRoute")
           ELSE req' = [req EXCEPT !.pc = "admit", !.entry = entry]

(* What is priced is the request as the plugins have left it: an edit may  *)
(* have made its text shorter or longer.                                   *)
Sizes ==
    {[The.size EXCEPT !.text = text] :
        text \in IF req.canon.edits = {} THEN {The.size.text} ELSE {r.size.text : r \in Inbound}}

(* Admission::admit: the buckets and the breakers by their answers (see    *)
(* Resilience), the cost filter, and a provider for every target it keeps, *)
(* one with vision if the request has an image.                            *)
Sighted(provider) == \E p \in new_provider(cfg.upstreams[provider]) : p.vision
check_capability(t) ==
    IF t.provider \notin providers THEN "UnknownProvider"
    ELSE IF The.size.images > 0 /\ ~Sighted(t.provider) THEN "CapabilityMismatch"
    ELSE "ok"

AdmissionAnswers(chain) ==
    LET failing == {i \in DOMAIN chain : check_capability(chain[i]) # "ok"}
    IN  {"RateLimited"} \cup IF chain = << >> THEN {"NoEligibleUpstream"}
                             ELSE IF failing # {} THEN {check_capability(chain[Min(failing)])}
                             ELSE {"AllBreakersOpen", "ok"}

Admit ==
    /\ At("admit")
    /\ \E size \in Sizes, at \in req.entry :
          LET chain == filter_chain(cfg, cfg.routes[at], req.chain, size, The.frontend)
          IN  \E answer \in AdmissionAnswers(chain) :
                 IF answer # "ok" THEN Answer(answer)
                 ELSE req' = [req EXCEPT !.pc = "ticket", !.admitted = TRUE, !.chain = chain]
-----------------------------------------------------------------------------
(* Raw passthrough of the client's bytes to the head of the chain, which   *)
(* may decline (Ok(None)), fail or answer; the ticket is kept for the      *)
(* canonical call in the first two cases.                                  *)
HeadKind == cfg.upstreams[Head(req.chain).provider].kind

Passthrough ==
    /\ At("ticket")
    /\ TryProxyRaw /\ ~req.mutated
    /\ \E result \in ProxyResults(HeadKind, The.frontend) :
          LET sent == IF result \in {"failed", "proxied"} THEN {"raw"} ELSE {}
          IN  IF result = "proxied"
              THEN req' = [req EXCEPT !.pc = "done", !.sent = @ \cup sent, !.outcome = "Proxied"]
              ELSE req' = [req EXCEPT !.pc = "complete", !.sent = @ \cup sent]

SkipPassthrough ==
    /\ At("ticket")
    /\ ~TryProxyRaw \/ req.mutated
    /\ Goto("complete")

(* ResilientCaller::complete: calls, and then a stream or an error.        *)
Call ==
    /\ At("complete")
    /\ req' = [req EXCEPT !.pc = "calling", !.sent = @ \cup {"canonical"}]

ResilienceErrors == {"NoUpstreamSucceeded", "TerminalUpstream"}

Complete ==
    /\ At("calling")
    /\ Goto("events") \/ \E error \in ResilienceErrors : Answer(error)
-----------------------------------------------------------------------------
(* The answer's events, each sent through the H5 plugins (wrap_stream).    *)
NextEvent ==
    /\ At("events")
    /\ req.events < MaxEvents
    /\ req' = [req EXCEPT !.pc = "on_stream_event", !.at = 1, !.events = @ + 1, !.buf = <<{}>>]

(* A plugin may keep an event, drop it or make two of it.                  *)
StreamEndings == {"keep", "drop", "split", "failed", "timeout", "aborted"}
AsEnding(e) == IF e \in {"keep", "drop", "split"} THEN "value" ELSE e

Processed(e, p, ending, outcome) ==
    IF outcome # "success" THEN <<e>>
    ELSE IF ending = "keep" THEN <<e \cup {p}>>
    ELSE IF ending = "drop" THEN << >>
    ELSE <<e \cup {p}, e \cup {p}>>

(* A failure that propagates replaces the event by one Error event, and    *)
(* the stream goes on with the next upstream event.                        *)
WalkEvent ==
    /\ At("on_stream_event")
    /\ req.at <= Len(HookPlan["on_stream_event"])
    /\ LET p == HookPlan["on_stream_event"][req.at]
           on_error == cfg.plugins[p].on_error
       IN  \E endings \in [DOMAIN req.buf -> StreamEndings] :
              LET outcome(i) == InvokeOutcome(AsEnding(endings[i]), on_error)
              IN  IF \E i \in DOMAIN req.buf : outcome(i) = "propagate"
                  THEN IF The.stream
                       THEN req' = [req EXCEPT !.pc = "events", !.buf = << >>]
                       ELSE Answer("ErrorEvent")
                  ELSE req' = [req EXCEPT !.at = @ + 1,
                          !.buf = FlattenSeq([i \in DOMAIN req.buf |->
                                     Processed(req.buf[i], p, endings[i], outcome(i))])]

(* The event goes to the encoder and the client, or into collect_stream.   *)
Deliver ==
    /\ At("on_stream_event")
    /\ req.at > Len(HookPlan["on_stream_event"])
    /\ req' = [req EXCEPT !.pc = "events", !.buf = << >>,
                 !.delivered = @ \cup {req.buf[i] : i \in DOMAIN req.buf}]

(* A transport error or an Error event of the upstream ends a unary answer *)
(* (collect_stream); in a stream it is passed on.                          *)
UpstreamError ==
    /\ At("events")
    /\ ~The.stream
    /\ \E error \in {"StreamDecode", "ErrorEvent"} : Answer(error)

(* The end of the upstream stream. A unary answer runs H7 and is encoded,  *)
(* which can fail; a streamed body is dropped, and its guard runs H7.      *)
EndOfStream ==
    /\ At("events")
    /\ \E outcome \in IF The.stream THEN {"Streamed"} ELSE {"Unary", "FrontendEncode"} :
          req' = [req EXCEPT !.pc = "done", !.h7 = @ + 1, !.outcome = outcome]

(* Mutant of ClientLeaves: the guard of a streamed body does nothing.      *)
ClientLeavesUnguarded ==
    /\ gateway = "serving" /\ UNCHANGED core
    /\ req.pc \in {"on_decoded_request", "on_resolved", "ticket", "complete", "calling", "events",
                   "on_stream_event"}
    /\ Answer("Cancelled")

(* The client goes away while the handler awaits, or while its body is     *)
(* streamed: dropping the body runs H7.                                    *)
ClientLeaves ==
    /\ gateway = "serving" /\ UNCHANGED core
    /\ \/ /\ req.pc \in {"on_decoded_request", "on_resolved", "ticket", "complete", "calling"}
          /\ Answer("Cancelled")
       \/ /\ req.pc \in {"events", "on_stream_event"}
          /\ req' = [req EXCEPT !.pc = "done", !.outcome = "Cancelled",
                                !.h7 = IF The.stream THEN @ + 1 ELSE @]
-----------------------------------------------------------------------------
Quiescent ==
    /\ gateway \in {"refused", "panicked"} \/ req.pc = "done"
    /\ UNCHANGED vars

Next ==
    \/ Refuse \/ Boot
    \/ Arrive \/ Open \/ CheckAuth \/ ResolveRoute \/ Decode
    \/ \E hook \in {"on_decoded_request", "on_resolved"} : WalkHook(hook) \/ EndHook(hook)
    \/ FindEntry \/ Admit \/ Passthrough \/ SkipPassthrough \/ Call \/ Complete
    \/ NextEvent \/ WalkEvent \/ Deliver \/ UpstreamError \/ EndOfStream
    \/ ClientLeaves
    \/ Quiescent

Spec == Init /\ [][Next]_vars
-----------------------------------------------------------------------------
(* Mutant of Status: an answer that cannot be encoded is a 400, as in the  *)
(* hint that labels the span.                                              *)
StatusAsHinted(outcome) ==
    IF outcome = "FrontendEncode" THEN 400
    ELSE IF outcome \in {"NoUpstreamSucceeded", "TerminalUpstream"} THEN 503
    ELSE IF outcome = "Unauthorized" THEN 401 ELSE 200

(* IntoResponse for HandlerError: the status the client gets. A terminal   *)
(* upstream error keeps the upstream's status, and the Error event of a    *)
(* unary answer is an upstream error with status 200.                      *)
Status(outcome) ==
    CASE outcome \in {"InvalidBody", "CapabilityMismatch", "PluginAborted"} -> 400
      [] outcome = "Unsupported" -> 422
      [] outcome = "Unauthorized" -> 401
      [] outcome = "NoRoute" -> 404
      [] outcome = "RateLimited" -> 429
      [] outcome \in {"NoUpstreamSucceeded", "AllBreakersOpen", "NoEligibleUpstream"} -> 503
      [] outcome \in {"UnknownProvider", "PluginFailed"} -> 502
      [] outcome \in {"FrontendEncode", "StreamDecode"} -> 500
      [] outcome \in {"ErrorEvent", "Proxied", "Streamed", "Unary", "Cancelled", "none"} -> 200
      [] outcome = "TerminalUpstream" -> 0
-----------------------------------------------------------------------------
(* What the counted parts of a request can cost at an upstream's prices:   *)
(* its text, an image at its vendor's worst case, all output asked for.    *)
Bill(c, size) ==
    (size.text + size.images * select_image_estimator[The.frontend]) * c.input
    + (IF size.max_tokens = {} THEN 4096 ELSE Max(size.max_tokens)) * c.output

(* A route table in which both lookups mean the same entry: no prefix      *)
(* patterns, which find_route_entry does not know, and no two routes with  *)
(* the same pattern for two spellings of one frontend, of which the router *)
(* takes the last and find_route_entry the first.                          *)
Plain(c) ==
    /\ \A i \in DOMAIN c.routes : c.routes[i].model.kind # "prefix"
    /\ \A i, j \in DOMAIN c.routes :
          /\ SpelledFrontend[c.routes[i].frontend] = SpelledFrontend[c.routes[j].frontend]
          /\ c.routes[i].model = c.routes[j].model
          => c.routes[i].frontend = c.routes[j].frontend

(* Nothing goes upstream for a request unless, under the configuration, it *)
(* carried one of the keys (where keys are required), the router resolved  *)
(* it, an entry was found and admission said yes; and it can only go to    *)
(* providers the resolved route names and boot has built, none of them     *)
(* blind to its image, below the tier the entry asks for or, for what the  *)
(* estimate counts of an unedited request, dearer than the entry's cap. In *)
(* a plain table that entry is the route itself.                           *)
CallNeedsGates ==
    req.sent # {} =>
        /\ cfg.auth.enabled /\ cfg.auth.required => \E k \in cfg.auth.keys : k.of = The.key
        /\ req.admitted /\ req.chain # << >>
        /\ \E route \in req.route, at \in req.entry :
              /\ Plain(cfg) => at = route
              /\ \A t \in Range(req.chain) :
                    /\ t.provider \in Referenced(cfg.routes[route]) \cap providers
                    /\ The.size.images > 0 => Sighted(t.provider)
                    /\ \A tier \in cfg.routes[at].min_tier :
                          TierRank[cfg.upstreams[t.provider].tier] >= TierRank[tier]
                    /\ req.canon.edits = {} =>
                          \A cap \in cfg.routes[at].max_cost_usd,
                             c \in cfg.upstreams[t.provider].cost : Bill(c, The.size) <= cap

(* What goes upstream is the client's request and the finished edits of    *)
(* plugins, no less and no more: the client's bytes only if no plugin has  *)
(* changed the decoded request, never a changed identity, and nothing of a *)
(* plugin that failed or ran out of time half-way.                         *)
EditsHonoured ==
    req.sent # {} =>
        /\ req.canon.own = "client"
        /\ req.canon.edits \subseteq req.finished
        /\ "raw" \in req.sent => req.canon.edits = {}

(* Every event the client gets was processed, to the end, by every H5      *)
(* plugin of its route whose on_error is `fail`, whatever failed or timed  *)
(* out around it.                                                          *)
FailPluginsSeeAll ==
    \A e \in req.delivered : \A p \in Range(HookPlan["on_stream_event"]) :
        cfg.plugins[p].on_error = "fail" => p \in e

(* The H7 hook runs exactly once for a request whose answer was being      *)
(* served: when a unary answer is complete, or when a streamed body ends   *)
(* or its client leaves; and not at all for any other request.             *)
H7Once ==
    [][req.pc # "done" /\ req'.pc = "done" =>
         req'.h7 = IF /\ req.pc \in {"events", "on_stream_event"}
                      /\ The.stream \/ req'.outcome \in {"Unary", "FrontendEncode"}
                   THEN 1 ELSE 0]_vars

(* A configuration that boots serves: the router has not panicked over it, *)
(* every alias the catalogue offers to a frontend resolves there and has   *)
(* an entry, and a provider is missing only if building it failed, or if   *)
(* the route uses the alias "copilot", under which none is registered.     *)
AcceptedConfigServes ==
    /\ gateway # "panicked"
    /\ gateway = "serving" =>
          \A listed \in list_catalog(cfg, index) : \A f \in listed.frontends :
              /\ Resolve(cfg, index, f, listed.id) # {}
              /\ find_route_entry(cfg, f, listed.id) # {}
    /\ req.outcome = "UnknownProvider" =>
          \E t \in Range(req.chain) :
              t.provider = "copilot" \/ t.provider \in DOMAIN cfg.upstreams \ providers

(* A 4xx of the gateway's own means that no upstream has been asked: the   *)
(* client may correct the request and send it again.                       *)
RefusedUncalled ==
    Status(req.outcome) \in 400..499 => req.sent = {}

(* docs/configuration.md: a prefix pattern matches like any other. The     *)
(* entry that governs a request is the one of the route it resolved to.    *)
RouteEntryFound ==
    /\ req.entry # {} => req.entry = req.route
    /\ req.outcome = "NoRoute" => req.route = {}
=============================================================================
