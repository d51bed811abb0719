-------------------------- MODULE StreamLifecycle --------------------------
(***************************************************************************)
(* The contract every canonical stream keeps: the events a provider parser *)
(* may emit, in the order the repository's validator accepts them          *)
(* (crates/protocol-tests/src/lifecycle.rs, under its default strict       *)
(* rules).  This is the abstract specification of a stream; module         *)
(* Streaming shows that the parsers implement it.                          *)
(***************************************************************************)
EXTENDS StreamEvents, FiniteSets

CONSTANT Index           \* block indices (u32 in the code)

VARIABLE life            \* ValidatorState, and whether the stream has ended

Deltas == [TextDelta |-> "Text", ReasoningDelta |-> "Reasoning",
           ToolCallStart |-> "ToolCall", ToolCallArgumentsDelta |-> "ToolCall",
           ToolCallStop |-> "ToolCall"]

Event ==
    {ContentBlockStart(i, k) : i \in Index, k \in ContentBlockKind}
    \cup {BlockEvent(name, i) : name \in DOMAIN Deltas \cup {"ContentBlockStop"}, i \in Index}
    \cup {Plain(name) : name \in {"ResponseStart", "MessageStart", "MessageStop",
                                  "ResponseStop", "UsageDelta", "Error", "Err"}}

Fresh ==
    [seen |-> {}, open |-> {}, tool_stopped |-> {}, closed |-> {},
     error |-> FALSE, ended |-> FALSE,
     last |-> "none", at |-> NoIndex, tick |-> FALSE]

OpenIndices(l) == {b[1] : b \in l.open}
KindOf(l, i) == {b[2] : b \in {c \in l.open : c[1] = i}}

\* What the validator remembers of an event, whether the event was allowed
\* or not.  `seen` holds the envelope events so far; the name and index of
\* the last event, and a bit every event flips, make each event a step.
Remember(l, e) ==
    CASE e.ev \in {"Error", "Err"} -> [l EXCEPT !.error = TRUE]
      [] e.ev \in {"ResponseStart", "MessageStart", "MessageStop", "ResponseStop"} ->
            [l EXCEPT !.seen = @ \cup {e.ev}]
      [] e.ev = "ContentBlockStart" -> [l EXCEPT !.open = @ \cup {<<e.index, e.kind>>}]
      [] e.ev = "ContentBlockStop" ->
            [l EXCEPT !.open = {b \in @ : b[1] # e.index},
                      !.tool_stopped = @ \ {e.index},
                      !.closed = @ \cup {e.index}]
      [] e.ev = "ToolCallStop" -> [l EXCEPT !.tool_stopped = @ \cup {e.index}]
      [] OTHER -> l

Record(l, e) == [Remember(l, e) EXCEPT !.last = e.ev, !.at = e.index, !.tick = ~@]

End(l) == [l EXCEPT !.ended = TRUE]

-----------------------------------------------------------------------------
\* The rules, numbered as in the validator.

\* 1a, 1b: an index is opened once; 1c: only an open block is closed.
IndexRule(l, e) ==
    /\ e.ev = "ContentBlockStart" => e.index \notin OpenIndices(l) \cup l.closed
    /\ e.ev = "ContentBlockStop" => e.index \in OpenIndices(l)

\* 2: ResponseStop comes after MessageStop.
StopOrder(l, e) == e.ev = "ResponseStop" => "MessageStop" \in l.seen

\* 3: only usage, raw events and ResponseStop follow MessageStop.
AfterMessageStop(l, e) ==
    "MessageStop" \in l.seen =>
        e.ev \in {"ResponseStart", "MessageStop", "ResponseStop", "UsageDelta"}

\* 4: a tool block closes after its ToolCallStop.
ToolStopped(l, e) ==
    e.ev = "ContentBlockStop" /\ KindOf(l, e.index) = {"ToolCall"}
        => e.index \in l.tool_stopped

\* 5: a delta belongs to an open block of its kind.
DeltaKind(l, e) == e.ev \in DOMAIN Deltas => KindOf(l, e.index) = {Deltas[e.ev]}

\* 6: blocks come after MessageStart.
StartOrder(l, e) == e.ev = "ContentBlockStart" => "MessageStart" \in l.seen

\* 7: each start and stop of the envelope happens once.
SingleStart(l, e) == e.ev \notin l.seen

\* 8: nothing follows ResponseStop.
ResponseStopLast(l, e) == "ResponseStop" \notin l.seen \/ e.ev = "ResponseStart"

\* 1d, of a stream that has ended: every opened block has been closed.
AllClosed(l) == l.open = {}

Legal(l, e) ==
    \/ e.ev \in {"Error", "Err"}
    \/ /\ IndexRule(l, e) /\ StopOrder(l, e) /\ AfterMessageStop(l, e)
       /\ ToolStopped(l, e) /\ DeltaKind(l, e) /\ StartOrder(l, e)
       /\ SingleStart(l, e) /\ ResponseStopLast(l, e)

-----------------------------------------------------------------------------
Init == life = Fresh

Emit == \E e \in Event : Legal(life, e) /\ life' = Record(life, e)

\* After an error validation stops: the parser may wind down as it likes.
WindDown == life.error /\ life'.error

Finish == life' = End(life)

Next == Emit \/ WindDown \/ Finish

Spec == Init /\ [][Next]_life
=============================================================================
