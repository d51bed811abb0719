-------------------------- MODULE CanonicalRequest --------------------------
(***************************************************************************)
(* The canonical request (crates/core: request, message, content, tool,    *)
(* policy) that every frontend decodes to and every provider builds its    *)
(* upstream request from.  A text, an image or a tool's output is a number *)
(* the client gave it, so that a property can follow it; tool call ids are *)
(* whatever values the two sides use.                                      *)
(***************************************************************************)
EXTENDS Integers, Sequences, SequencesExt

\* ContentBlock.  Image sources: "Url", "Base64" or "ProviderFileId".
Text(n) == [kind |-> "Text", n |-> n]
Image(n, source) == [kind |-> "Image", n |-> n, source |-> source]
ToolCall(id, name) == [kind |-> "ToolCall", id |-> id, name |-> name]
ToolResult(id, n) == [kind |-> "ToolResult", id |-> id, n |-> n]
Reasoning(n) == [kind |-> "Reasoning", n |-> n]
Unsupported(n) == [kind |-> "Unsupported", n |-> n]

OfKind(content, kinds) == SelectSeq(content, LAMBDA b : b.kind \in kinds)
Each(content, F(_)) == [k \in DOMAIN content |-> F(content[k])]

\* Message and SystemInstruction; source says where a system text came from.
Message(role, content, source) == [role |-> role, content |-> content, source |-> source]

\* tool_choice; name is the function's, for Specific.
ToolChoice(kind, name) == [kind |-> kind, name |-> name]

\* asks holds what a request asks for besides the conversation.
Request(system, messages, asks) ==
    [ok |-> TRUE, system |-> system, messages |-> messages, asks |-> asks]
InvalidBody == [ok |-> FALSE]

\* Reading a history: system messages ahead of the first other message are
\* system instructions, later ones keep their place (prelude_phase).
Reader(system) == [system |-> system, messages |-> <<>>, prelude |-> TRUE, bad |-> FALSE]

Place(r, msg) ==
    IF msg.role = "System" /\ r.prelude
    THEN [r EXCEPT !.system = Append(@, msg)]
    ELSE [r EXCEPT !.messages = Append(@, msg), !.prelude = @ /\ msg.role = "System"]

Refuse(r) == [r EXCEPT !.bad = TRUE]

Finished(r, asks) == IF r.bad THEN InvalidBody ELSE Request(r.system, r.messages, asks)

-----------------------------------------------------------------------------
\* ReasoningEffort, in its derived order.
Efforts == <<"Minimal", "Low", "Medium", "High", "Xhigh", "Max">>
Rank(effort) == CHOOSE k \in DOMAIN Efforts : Efforts[k] = effort

\* The effort a word stands for, if any.  An Option is a set.
ParseEffort(word) ==
    CASE word \in {"minimal", "none"} -> {"Minimal"}
      [] word = "low" -> {"Low"}
      [] word \in {"medium", "default"} -> {"Medium"}
      [] word = "high" -> {"High"}
      [] word \in {"xhigh", "x-high", "extra_high"} -> {"Xhigh"}
      [] word = "max" -> {"Max"}
      [] OTHER -> {}

\* The efforts that the words a model advertises stand for; the others are ignored.
Parsed(words) == UNION {ParseEffort(w) : w \in words}

\* Mutant: clamp to the weakest advertised effort.
ClampToWeakest(effort, advertised) ==
    {a \in Parsed(advertised) : \A b \in Parsed(advertised) : Rank(a) <= Rank(b)}

\* clamp_to_advertised: the strongest advertised effort that is not above
\* the one asked for, else the weakest advertised one.  The model's own word
\* for it is what is sent; here it is the effort the word stands for.
ClampToAdvertised(effort, advertised) ==
    LET parsed == Parsed(advertised)
        below == {a \in parsed : Rank(a) <= Rank(effort)}
    IN IF below # {} THEN {a \in below : \A b \in below : Rank(b) <= Rank(a)}
       ELSE {a \in parsed : \A b \in parsed : Rank(a) <= Rank(b)}

\* RoutePolicy::resolve: the request's effort, else the route's default, then
\* the first mapping rule that matches.
ResolveEffort(asked, policy) ==
    LET chosen == IF asked # {} THEN asked ELSE policy.default
        rule(e) == SelectSeq(policy.mapping, LAMBDA r : r.match = e)
    IN {IF rule(e) = <<>> THEN e ELSE Head(rule(e)).set : e \in chosen}

\* ... and the client's anthropic-beta header, else the route's, each a set of
\* betas.
ResolveBeta(inbound, policy) == IF inbound # {} THEN inbound ELSE policy.beta
=============================================================================
