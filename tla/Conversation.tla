---------------------------- MODULE Conversation ----------------------------
(***************************************************************************)
(* A conversation through the gateway.  The gateway keeps nothing between  *)
(* requests: the client sends its whole history every turn, the frontend   *)
(* decodes it, the provider builds the upstream request from it, and what  *)
(* the model answers comes back in the client's dialect and is part of the *)
(* next history.  Every text, image and tool output has a number of its    *)
(* own, every tool call the id the upstream (or, for Gemini, the gateway)  *)
(* gave it.                                                                *)
(***************************************************************************)
EXTENDS RequestDecoders, RequestBuilders

CONSTANTS
    Pairs,      \* <<client dialect, provider, endpoints its model advertises, if any>>
    EchoIds,    \* does a Responses client send the ids of output items back?
    Options,    \* the requests' options, records like Nothing
    MaxSaid,    \* bound: numbers given to contents and calls
    MaxBatch,   \* bound: messages and batches of answers between two requests
    MaxTurns    \* bound: requests

VARIABLES
    pair,       \* the conversation's member of Pairs
    system,     \* the client's system prompt
    history,    \* the client's history, in its dialect
    pending,    \* the calls the client has not answered, in order
    transcript, \* what was really said, block by block, whatever the dialect
    said,       \* numbers given so far
    batch,      \* additions to the history since the last answer
    turns,      \* requests so far
    stage,      \* where the current request is
    options,    \* what it asks for, in the client's words, and its route's policy
    req,        \* its canonical form
    sent,       \* what was sent upstream
    reply       \* what the model answered

client == pair[1]
provider == pair[2]

\* The API a model of GitHub Copilot is called over: the client's own, unless
\* the model has only the other.
decide_use_responses_api ==
    LET natural_responses == client = "responses"
        Supports(endpoint) == \E eps \in pair[3] : endpoint \in eps
    IN IF pair[3] = {} THEN natural_responses
       ELSE IF natural_responses THEN Supports("/responses") \/ ~Supports("/chat/completions")
       ELSE ~Supports("/chat/completions") /\ Supports("/responses")

\* The wire the provider's request is built for.
upstream ==
    IF provider # "github_copilot" THEN provider
    ELSE IF decide_use_responses_api THEN "responses" ELSE "openai_compatible"

talk == <<system, history, pending, transcript>>
call == <<options, req, sent, reply>>
vars == <<pair, talk, said, batch, turns, stage, call>>

\* The options of a request: the word for the effort, the anthropic-beta
\* header, the tools and the tool choice of the client; the route's policy and
\* what the model advertises.
Nothing == [effort |-> {}, beta |-> {}, tools |-> FALSE, builtin |-> FALSE,
            choice |-> [type |-> "absent", name |-> ""],
            policy |-> [default |-> {}, mapping |-> <<>>, beta |-> {}], advertised |-> {}]

\* The tool choices a client can write; "sometimes" is a mode nobody knows.
ChoiceTypes ==
    [anthropic |-> {"absent", "auto", "any", "none", "tool"},
     chat |-> {"absent", "auto", "required", "none", "function", "sometimes"},
     responses |-> {"absent", "auto", "required", "none", "function", "sometimes"}]

\* capture_anthropic_headers: only the Anthropic handler asks for it.
CapturedBeta == IF client = "anthropic" THEN options.beta ELSE {}

EffortBeta == \E v \in ResolveBeta(CapturedBeta, options.policy) : "effort-2025-11-24" \in v

\* What sets an upstream apart: the effort beta, or that it accepts xhigh.
Flag == IF upstream = "anthropic" THEN EffortBeta ELSE provider = "github_copilot"

Unsent == [messages |-> <<>>, effort |-> {}, choice |-> {}]

-----------------------------------------------------------------------------
\* The client's own format of what it says.

SystemText(n) == [kind |-> "System", n |-> n]

Block(type, n, source) == [type |-> type, n |-> n, source |-> source]

\* A message of text and images in the client's dialect.
Saying(role, content) ==
    CASE client = "anthropic" -> [role |-> role, content |-> content]
      [] client = "chat" -> [role |-> role, content |-> content, tool_calls |-> <<>>,
                             tool_call_id |-> {}]
      [] client = "responses" -> [type |-> "message", role |-> role, content |-> content]

\* The results of the calls the model made, with their numbers from `first`.
Answering(calls, first) ==
    LET n(k) == first + k - 1
    IN CASE client = "anthropic" ->
              <<[role |-> "user", content |->
                   [k \in DOMAIN calls |->
                        [type |-> "tool_result", id |-> calls[k].id, n |-> n(k)]]]>>
         [] client = "chat" ->
              [k \in DOMAIN calls |->
                 [role |-> "tool", content |-> <<Block("text", n(k), "none")>>,
                  tool_calls |-> <<>>, tool_call_id |-> {calls[k].id}]]
         [] client = "responses" ->
              [k \in DOMAIN calls |->
                 [type |-> "function_call_output", call_id |-> calls[k].id, n |-> n(k)]]

-----------------------------------------------------------------------------
\* What the encoders make of an answer, as the client stores it.

AnthropicReply(content) ==
    LET block(b) == CASE b.kind = "Text" -> Block("text", b.n, "none")
                      [] b.kind = "Reasoning" -> Block("thinking", b.n, "none")
                      [] b.kind = "ToolCall" ->
                            [type |-> "tool_use", id |-> b.id, name |-> b.name]
    IN <<[role |-> "assistant", content |-> Each(content, block)]>>

\* The chat encoder has no place for reasoning in a message's content.
ChatReply(content) ==
    LET text(b) == Block("text", b.n, "none")
        tool(b) == [id |-> b.id, name |-> b.name]
    IN <<[role |-> "assistant", content |-> Each(OfKind(content, {"Text"}), text),
          tool_calls |-> Each(OfKind(content, {"ToolCall"}), tool), tool_call_id |-> {}]>>

\* A function_call item has the id of its place in the output, fc_<index>, and
\* the call's own id as call_id.
ResponsesReply(content) ==
    [k \in DOMAIN content |->
        LET b == content[k]
        IN CASE b.kind = "Text" ->
                  [type |-> "message", role |-> "assistant",
                   content |-> <<Block("text", b.n, "none")>>]
             [] b.kind = "Reasoning" -> [type |-> "reasoning", n |-> b.n]
             [] b.kind = "ToolCall" ->
                  [type |-> "function_call", id |-> IF EchoIds THEN {<<"fc", k - 1>>} ELSE {},
                   call_id |-> b.id, name |-> b.name]]

InDialect(content) ==
    CASE client = "anthropic" -> AnthropicReply(content)
      [] client = "chat" -> ChatReply(content)
      [] client = "responses" -> ResponsesReply(content)

-----------------------------------------------------------------------------
Init ==
    /\ pair \in Pairs
    /\ system \in {<<>>} \cup (IF client = "chat" THEN {} ELSE {<<Block("text", 0, "none")>>})
    /\ history = <<>> /\ pending = <<>>
    /\ transcript = Each(system, LAMBDA b : SystemText(b.n))
    /\ said = 0 /\ batch = 0 /\ turns = 0 /\ stage = "compose"
    /\ options = Nothing /\ req = InvalidBody /\ sent = Unsent /\ reply = <<>>

\* The client puts msgs in its history, which say these blocks.
Add(msgs, blocks) ==
    /\ stage = "compose"
    /\ said + Len(blocks) <= MaxSaid /\ batch < MaxBatch
    /\ batch' = batch + 1
    /\ history' = history \o msgs
    /\ transcript' = transcript \o blocks
    /\ said' = said + Len(blocks)
    /\ UNCHANGED <<pair, system, turns, stage, call>>

\* The user says something, in one message of text, or text and an image.
Say ==
    /\ pending = <<>>
    /\ \/ Add(<<Saying("user", <<Block("text", said + 1, "none")>>)>>, <<Text(said + 1)>>)
       \/ \E source \in {"Url", "Base64"} :
            Add(<<Saying("user", <<Block("text", said + 1, "none"),
                                   Block("image", said + 2, source)>>)>>,
                <<Text(said + 1), Image(said + 2, source)>>)
    /\ UNCHANGED pending

\* A system or developer message in the history.
Instruct ==
    /\ \E role \in {"system"} \cup (IF client = "anthropic" THEN {} ELSE {"developer"}) :
            Add(<<Saying(role, <<Block("text", said + 1, "none")>>)>>, <<SystemText(said + 1)>>)
    /\ UNCHANGED pending

\* A message whose role the dialect does not know.
SayNonsense ==
    /\ Add(<<Saying("nobody", <<Block("text", said + 1, "none")>>)>>, <<Text(said + 1)>>)
    /\ UNCHANGED pending

\* The client answers every pending call; in the Anthropic dialect the user
\* may say something in the same message.
Answer ==
    LET results == [k \in DOMAIN pending |-> ToolResult(pending[k].id, said + k)]
        msgs == Answering(pending, said + 1)
        next == said + Len(pending) + 1
    IN /\ pending # <<>>
       /\ \/ Add(msgs, results)
          \/ /\ client = "anthropic"
             /\ Add([msgs EXCEPT ![1].content = Append(@, Block("text", next, "none"))],
                    Append(results, Text(next)))
       /\ pending' = <<>>

Submit ==
    /\ stage = "compose" /\ history # <<>> /\ pending = <<>>
    /\ turns < MaxTurns
    /\ turns' = turns + 1
    /\ stage' = "submitted"
    /\ \E o \in Options :
            /\ o.choice.type \in ChoiceTypes[client]
            /\ o.builtin => client = "responses"
            /\ options' = o
    /\ UNCHANGED <<pair, talk, said, batch, req, sent, reply>>

\* The frontend decodes; an unreadable body is answered with an error.
DecodeRequest ==
    /\ stage = "submitted"
    /\ req' = Decode(client, [system |-> system, history |-> history, effort |-> options.effort,
                             tools |-> options.tools, builtin |-> options.builtin,
                             choice |-> options.choice])
    /\ stage' = IF req'.ok THEN "decoded" ELSE "refused"
    /\ UNCHANGED <<pair, talk, said, batch, turns, options, sent, reply>>

BuildRequest ==
    /\ stage = "decoded"
    /\ sent' = [messages |-> Build(upstream, req),
                effort |-> BuildReasoning(upstream,
                                          ResolveEffort(req.asks.effort, options.policy),
                                          req.asks.budget_tokens, options.advertised, Flag),
                choice |-> BuildToolChoice(upstream, req.asks)]
    /\ stage' = "sent"
    /\ UNCHANGED <<pair, talk, said, batch, turns, options, req, reply>>

\* The model answers with text, after thinking or not, and with calls.
Reply ==
    /\ stage = "sent" /\ said + 3 <= MaxSaid
    /\ LET id(k) == <<"call", said + k>>
       IN \/ reply' = <<Reasoning(said + 1), Text(said + 2)>> /\ said' = said + 2
          \/ \E g \in {"f", "g"} :
                /\ reply' = <<Text(said + 1), ToolCall(id(2), "f"), ToolCall(id(3), g)>>
                /\ said' = said + 3
    /\ stage' = "replied"
    /\ UNCHANGED <<pair, talk, batch, turns, options, req, sent>>

Deliver ==
    /\ stage = "replied"
    /\ history' = history \o InDialect(reply)
    /\ transcript' = transcript \o reply
    /\ pending' = OfKind(reply, {"ToolCall"})
    /\ stage' = "compose" /\ batch' = 0
    /\ options' = Nothing /\ req' = InvalidBody /\ sent' = Unsent /\ reply' = <<>>
    /\ UNCHANGED <<pair, system, said, turns>>

\* The client was refused, or the bounds are reached.
Quiescent ==
    /\ \/ stage = "refused"
       \/ stage = "compose" /\ (turns = MaxTurns \/ batch = MaxBatch)
       \/ stage \in {"sent", "compose"} /\ said + 3 > MaxSaid
    /\ UNCHANGED vars

Next ==
    Say \/ Instruct \/ SayNonsense \/ Answer \/ Submit \/ DecodeRequest \/ BuildRequest
        \/ Reply \/ Deliver \/ Quiescent

Spec == Init /\ [][Next]_vars

-----------------------------------------------------------------------------
\* What the upstream is told, against what was said.

SystemRoles == {"system", "developer", "instructions", "systemInstruction"}

Upstreamed == stage \in {"sent", "replied"}

\* The parts sent outside, and inside, the system instructions.
SentParts == FlattenSeq([k \in DOMAIN sent.messages |->
    IF sent.messages[k].role \in SystemRoles THEN <<>> ELSE sent.messages[k].parts])
SentSystem == FlattenSeq([k \in DOMAIN sent.messages |->
    IF sent.messages[k].role \in SystemRoles THEN sent.messages[k].parts ELSE <<>>])

Numbers(blocks, kind) == Each(OfKind(blocks, {kind}), LAMBDA b : b.n)

(* Whatever the two dialects, every text and image the user and the model   *)
(* said so far reaches the upstream once and in order, and so does every    *)
(* system text, ahead of the conversation or in it: decoding a history and  *)
(* building the upstream request from it loses and doubles nothing.         *)
ContentKept ==
    Upstreamed =>
        /\ Numbers(SentParts, "Text") = Numbers(transcript, "Text")
        /\ Numbers(SentParts, "Image") = Numbers(transcript, "Image")
        /\ Numbers(SentSystem, "Text") = Numbers(transcript, "System")

(* Every call the model made and every result the client gave reaches the   *)
(* upstream, once and in order.                                             *)
ToolResultsKept ==
    LET names(blocks) == Each(OfKind(blocks, {"ToolCall"}), LAMBDA b : b.name)
    IN Upstreamed =>
        /\ Numbers(SentParts, "ToolResult") = Numbers(transcript, "ToolResult")
        /\ names(SentParts) = names(transcript)

(* A result that is sent upstream follows the call it answers, and is tied  *)
(* to that call the way the upstream does it: by the id the call has in the *)
(* same request, or for Gemini by the name of the function that was called. *)
ToolPairing ==
    LET answered(n) == CHOOSE c \in ToSet(OfKind(transcript, {"ToolCall"})) :
                          ToolResult(c.id, n) \in ToSet(transcript)
        tie(c) == IF upstream = "gemini" THEN c.name ELSE c.id
    IN \A k \in DOMAIN SentParts :
          SentParts[k].kind = "ToolResult" =>
            \E j \in 1..(k - 1) :
                /\ SentParts[j].kind = "ToolCall"
                /\ SentParts[j].name = answered(SentParts[k].n).name
                /\ SentParts[k].id = tie(SentParts[j])
                /\ \A i \in 1..(k - 1) :
                     (SentParts[i].kind = "ToolCall" /\ tie(SentParts[i]) = SentParts[k].id)
                        => SentParts[i].name = SentParts[j].name

\* The efforts by the words the APIs have for them.
Words == [Minimal |-> {"none", "minimal"}, Low |-> {"low"}, Medium |-> {"medium", "default"},
          High |-> {"high"}, Xhigh |-> {"xhigh", "x-high", "extra_high"}, Max |-> {"max"}]
Tiers(words) == {k \in DOMAIN Efforts : Words[Efforts[k]] \cap words # {}}

\* The tier to be used: the client's or else the route's, after its mapping.
Wanted ==
    LET first == {k \in DOMAIN Efforts : Efforts[k] \in options.policy.default}
        mapping == options.policy.mapping
        rules(k) == {j \in DOMAIN mapping : mapping[j].match = Efforts[k]}
        mapped(k) == IF rules(k) = {} THEN k
                     ELSE Rank(mapping[CHOOSE j \in rules(k) : \A i \in rules(k) : j <= i].set)
    IN {mapped(k) : k \in IF Tiers(options.effort) # {} THEN Tiers(options.effort) ELSE first}

\* What a tool choice on any wire says of the next answer.
MustCall(c) ==
    CASE c.type \in {"tool", "function"} -> {c.name}
      [] c.type \in {"any", "required"} -> {"f", "g"}
      [] c.type = "none" -> {}
      [] OTHER -> {"f", "g", "or text"}

(* What the client asks for, in the words of its dialect, is what the       *)
(* upstream is told in those of its own.  Some effort is sent if and only   *)
(* if the client or the route wants one (GLM: thinking stays on).  Where    *)
(* the wire has levels, the one sent is advertised if any known one is,     *)
(* none advertised lies between it and the one wanted, and it is stronger   *)
(* than that only if all advertised are; with nothing advertised it is      *)
(* weaker only above high.  Asking for less never sends more.  A tool       *)
(* choice goes with the tools and says the same (Gemini has none), and a    *)
(* Copilot model is called over an API it advertises, if it advertises one  *)
(* of the two.                                                              *)
OptionsHonoured ==
    LET advertised == Tiers(options.advertised)
        Leveled(level, w) ==
            /\ advertised # {} =>
                 /\ level \in advertised
                 /\ \A a \in advertised : ~(level < a /\ a <= w)
                 /\ level > w => \A a \in advertised : a >= level
            /\ advertised = {} => level <= w /\ (level < w => level >= Rank("High"))
    IN Upstreamed =>
        /\ Wanted = {} => sent.effort = IF upstream = "glm" THEN {1} ELSE {}
        /\ \A w \in Wanted :
             \E level \in sent.effort :
                /\ sent.effort = {level}
                /\ upstream \in {"openai_compatible", "deepseek", "responses"} => Leveled(level, w)
                /\ \A k \in 1..w :
                     BuildEffort(upstream, Efforts[k], options.advertised, Flag) <= level
        /\ (options.tools /\ upstream # "gemini") =>
              MustCall(options.choice) =
                 UNION {MustCall(c) : c \in IF sent.choice = {} THEN {Nothing.choice} ELSE sent.choice}
        /\ provider = "github_copilot" =>
              \A eps \in pair[3] :
                 (eps \cap {"/chat/completions", "/responses"} # {}) =>
                    (IF upstream = "responses" THEN "/responses" ELSE "/chat/completions") \in eps
=============================================================================
