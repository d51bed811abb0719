---------------------------- MODULE PiiScrubber ----------------------------
(***************************************************************************)
(* plugins/src/builtin/pii_scrubber.rs on the answer (H5): text is held in *)
(* a buffer of the request, one for text and one for reasoning, until an   *)
(* event of another kind comes or the buffer outgrows FlushThreshold; then *)
(* all of it, or all but the last MaxPatternTail bytes, is scrubbed and    *)
(* sent on.  Text is a sequence of bytes; a rule replaces two adjacent     *)
(* bytes by one that is in no pattern.                                     *)
(***************************************************************************)
EXTENDS Naturals, Sequences, SequencesExt

CONSTANTS MaxPatternTail,   \* MAX_PATTERN_TAIL, 64
          FlushThreshold,   \* FLUSH_THRESHOLD, 256
          Rules             \* outbound rules, in order: [pattern, replacement]

ASSUME WindowAssumption == /\ MaxPatternTail \in Nat /\ FlushThreshold \in Nat
                           /\ MaxPatternTail < FlushThreshold

(* Bytes that continue a UTF-8 character.                                  *)
Continuation == {"e2"}

EmptyBuffer == [TextDelta |-> << >>, ReasoningDelta |-> << >>]

(* regex.replace_all, from left to right.                                  *)
Replaced(text, rule) ==
    FoldLeft(LAMBDA done, byte :
                 IF done # << >> /\ <<Last(done), byte>> = rule.pattern
                 THEN Append(Front(done), rule.replacement) ELSE Append(done, byte),
             << >>, text)

apply_rules(text) == FoldLeft(Replaced, text, Rules)

floor_char_boundary(text, i) ==
    IF i >= Len(text) THEN Len(text)
    ELSE CHOOSE k \in 0..i : /\ k = 0 \/ text[k + 1] \notin Continuation
                             /\ \A n \in (k + 1)..i : text[n + 1] \in Continuation

(* flush_safe_prefix: where the buffer is split.                           *)
SplitAt(text) ==
    floor_char_boundary(text, IF Len(text) > MaxPatternTail THEN Len(text) - MaxPatternTail ELSE 0)

Delta(name, index, text) == [ev |-> name, index |-> index, text |-> text]
Unless(text, events) == IF text = << >> THEN << >> ELSE events

(* Mutant of Grow: the part that is kept is sent as well.                  *)
GrowTwice(buf, event) ==
    LET whole == buf[event.ev] \o event.text
    IN  IF Len(whole) <= FlushThreshold
        THEN [buf |-> [buf EXCEPT ![event.ev] = whole], out |-> << >>]
        ELSE [buf |-> [buf EXCEPT ![event.ev] = SubSeq(whole, SplitAt(whole) + 1, Len(whole))],
              out |-> <<Delta(event.ev, event.index, apply_rules(whole))>>]

(* on_stream_event for a delta, of text or of reasoning.                   *)
Grow(buf, event) ==
    LET whole == buf[event.ev] \o event.text
        split == SplitAt(whole)
        emitted == apply_rules(SubSeq(whole, 1, split))
    IN  IF Len(whole) <= FlushThreshold
        THEN [buf |-> [buf EXCEPT ![event.ev] = whole], out |-> << >>]
        ELSE [buf |-> [buf EXCEPT ![event.ev] = SubSeq(whole, split + 1, Len(whole))],
              out |-> Unless(emitted, <<Delta(event.ev, event.index, emitted)>>)]

(* index_from_event: events of a block have an index, the others do not.   *)
NoIndex == 99
index_from_event(event) == IF event.index = NoIndex THEN 0 ELSE event.index

(* on_stream_event for any other event: both buffers go first, under the   *)
(* index of that event.                                                    *)
Flush(buf, event) ==
    LET flushed(name) == Unless(apply_rules(buf[name]),
                             <<Delta(name, index_from_event(event), apply_rules(buf[name]))>>)
    IN  [buf |-> EmptyBuffer,
         out |-> flushed("TextDelta") \o flushed("ReasoningDelta") \o <<event>>]

on_stream_event(buf, event) ==
    IF event.ev \in DOMAIN EmptyBuffer THEN Grow(buf, event) ELSE Flush(buf, event)
=============================================================================
