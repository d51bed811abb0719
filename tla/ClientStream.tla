---------------------------- MODULE ClientStream ----------------------------
(***************************************************************************)
(* What a streaming client relies on, whatever the wire dialect: the       *)
(* response begins once, an item (a content block of Anthropic, an output  *)
(* item of OpenAI Responses, a tool call of OpenAI Chat) is announced      *)
(* before its fragments and, in the dialects that say so, closed once and  *)
(* before the response finishes, and nothing follows the finish.  Module   *)
(* Streaming shows that the encoders implement it.                         *)
(***************************************************************************)
EXTENDS StreamEvents

CONSTANTS Item,          \* item numbers on the wire
          Closing        \* dialects that close their items explicitly

VARIABLES dialect,       \* the frontend the client spoke to
          view           \* what the client has seen

Blank == [begun |-> FALSE, open |-> {}, closed |-> {}, finished |-> FALSE,
          errored |-> FALSE, reason |-> "none", usage |-> {},
          last |-> "none", at |-> NoIndex, tick |-> FALSE]

Notice(v, f) ==
    CASE f.fr = "begin"  -> [v EXCEPT !.begun = TRUE]
      [] f.fr = "open"   -> [v EXCEPT !.open = @ \cup {f.item}]
      [] f.fr = "close"  -> [v EXCEPT !.open = @ \ {f.item}, !.closed = @ \cup {f.item}]
      [] f.fr = "stop"   -> [v EXCEPT !.reason = f.reason]
      [] f.fr = "usage"  -> [v EXCEPT !.usage = {f.usage}]
      [] f.fr = "finish" -> [v EXCEPT !.finished = TRUE]
      [] f.fr = "error"  -> [v EXCEPT !.errored = TRUE]
      [] OTHER -> v

See(v, f) == [Notice(v, f) EXCEPT !.last = f.fr, !.at = f.item, !.tick = ~@]

Show(name, i) == UNCHANGED dialect /\ view' = See(view, Frame(name, i))

Live == view.begun /\ ~view.finished

Begin == ~view.begun /\ ~view.finished /\ Show("begin", NoIndex)
Open(i) == Live /\ i \notin view.open \cup view.closed /\ Show("open", i)
ItemDelta(i) == Live /\ i \in view.open /\ Show("delta", i)
Content == Live /\ dialect \notin Closing /\ Show("content", NoIndex)
Part(i) == Live /\ i \in view.open /\ Show("part", i)
Close(i) == Live /\ dialect \in Closing /\ i \in view.open /\ Show("close", i)
Ping == Live /\ Show("ping", NoIndex)

\* The reason is told once; what it and the counts are is the encoder's matter.
Reason ==
    /\ Live /\ view.reason = "none"
    /\ UNCHANGED dialect
    /\ view' = See(view, StopFrame("stop", view'.reason))

Usage ==
    /\ Live /\ view.usage = {}
    /\ UNCHANGED dialect
    /\ \E n \in view'.usage : view' = See(view, UsageFrame("usage", n))

Finish ==
    /\ ~view.finished
    /\ view.begun \/ view.errored
    /\ dialect \in Closing => view.open = {}
    /\ Show("finish", NoIndex)

Fail == ~view.finished /\ Show("error", NoIndex)

\* A response that failed may stop anywhere, but not go on past its finish.
AfterError == view.errored /\ ~view.finished /\ view'.errored /\ UNCHANGED dialect

Init == view = Blank

Next ==
    \/ Begin \/ Content \/ Ping \/ Reason \/ Usage \/ Finish \/ Fail \/ AfterError
    \/ \E i \in Item : Open(i) \/ ItemDelta(i) \/ Part(i) \/ Close(i)

Spec == Init /\ [][Next]_<<dialect, view>>
=============================================================================
