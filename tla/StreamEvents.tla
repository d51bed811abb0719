---------------------------- MODULE StreamEvents ----------------------------
(***************************************************************************)
(* The canonical stream vocabulary (crates/core/src/stream.rs, usage.rs),  *)
(* and the accumulator the parsers fill: a parser state `st` and the       *)
(* events `out` one input has produced so far.  The texts themselves are   *)
(* left out; an Option is a set with at most one member.                   *)
(***************************************************************************)
EXTENDS Integers, Sequences, SequencesExt, FiniteSets

NoIndex == -1

ContentBlockKind == {"Text", "ToolCall", "Reasoning", "RedactedReasoning"}
StopReason == {"EndTurn", "MaxTokens", "ToolUse", "StopSequence", "ContentFilter", "Other"}

Plain(name) == [ev |-> name, index |-> NoIndex]
BlockEvent(name, i) == [ev |-> name, index |-> i]
ContentBlockStart(i, k) == [ev |-> "ContentBlockStart", index |-> i, kind |-> k]
ContentBlockStop(i) == BlockEvent("ContentBlockStop", i)
ResponseStart == Plain("ResponseStart")
MessageStart == Plain("MessageStart")
MessageStop(reason) == [ev |-> "MessageStop", index |-> NoIndex, stop |-> reason]
ResponseStop(u) == [ev |-> "ResponseStop", index |-> NoIndex, usage |-> u]
UsageDelta(n) == [ev |-> "UsageDelta", index |-> NoIndex, usage |-> {n}]
StreamErr == Plain("Err")            \* Err(StreamError): transport or decode
ErrorEvent == Plain("Error")         \* StreamEvent::Error: the upstream said so

DeltaOf == [Text |-> "TextDelta", Reasoning |-> "ReasoningDelta",
            ToolCall |-> "ToolCallArgumentsDelta"]

\* StopReason::from_provider_string; strings it does not know become Other.
FromProviderString(s) ==
    CASE s \in {"end_turn", "stop"} -> "EndTurn"
      [] s \in {"max_tokens", "length"} -> "MaxTokens"
      [] s \in {"tool_use", "tool_calls"} -> "ToolUse"
      [] s = "stop_sequence" -> "StopSequence"
      [] s = "content_filter" -> "ContentFilter"
      [] OTHER -> "Other"

\* Maps (HashMap): a key inserted or removed; two records side by side.
Insert(f, x, v) == [y \in DOMAIN f \cup {x} |-> IF y = x THEN v ELSE f[y]]
Without(f, x) == [y \in DOMAIN f \ {x} |-> f[y]]
Join(f, g) == [x \in DOMAIN f \cup DOMAIN g |-> IF x \in DOMAIN f THEN f[x] ELSE g[x]]

\* The numbers of a set in ascending order (collect and sort_unstable).
Ascending(S) ==
    CHOOSE s \in [1 .. Cardinality(S) -> S] : \A i, j \in DOMAIN s : i < j => s[i] < s[j]

\* Closing a tool block: ToolCallStop comes before ContentBlockStop (rule 4).
CloseTool(i) == <<BlockEvent("ToolCallStop", i), ContentBlockStop(i)>>
CloseTools(indices) == FlattenSeq([k \in DOMAIN indices |-> CloseTool(indices[k])])

\* What an encoder puts on the client's wire: a named frame, the item it
\* belongs to, and for the frames that end a message the reason and usage.
Frame(name, i) == [fr |-> name, item |-> i]
StopFrame(name, reason) == [fr |-> name, item |-> NoIndex, reason |-> reason]
UsageFrame(name, n) == [fr |-> name, item |-> NoIndex, usage |-> n]

\* UsageDelta adds up; a ResponseStop that carries usage replaces the sum.
AddUsage(tokens, e) == tokens + (CHOOSE n \in e.usage : TRUE)
FinalUsage(tokens, e) == IF e.usage = {} THEN tokens ELSE CHOOSE n \in e.usage : TRUE

Start(s) == [st |-> s, out |-> <<>>]
Say(a, events) == [a EXCEPT !.out = @ \o events]
When(cond, a, b) == IF cond THEN a ELSE b

\* The envelope flags the OpenAI-shaped parsers share: what has been emitted.
NoEnvelope ==
    [response_start |-> FALSE, message_start |-> FALSE,
     message_stop |-> FALSE, response_stop |-> FALSE, completed |-> FALSE]

\* Emit an envelope event once.
Ensure(a, flag, event) ==
    IF a.st[flag] THEN a
    ELSE [st |-> [a.st EXCEPT ![flag] = TRUE], out |-> Append(a.out, event)]

EnsureMessageStart(a) == Ensure(a, "message_start", MessageStart)
=============================================================================
