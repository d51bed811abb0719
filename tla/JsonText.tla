------------------------------ MODULE JsonText ------------------------------
(***************************************************************************)
(* JSON handled as bytes, without parsing: the scanner that cuts a Gemini  *)
(* stream into objects, and the rewrite of the model of an Anthropic body. *)
(***************************************************************************)
EXTENDS Naturals, Sequences, SequencesExt, FiniteSetsExt
-----------------------------------------------------------------------------
(* providers/src/gemini/stream.rs, Scanner: cuts the JSON array a Gemini   *)
(* stream consists of into its objects, byte by byte, whatever the chunks  *)
(* in which the bytes come.  A byte is one of the structural characters    *)
(* ("quote" and "backslash" spelled out) or a plain letter.                *)

Whitespace == {"space", "newline"}

NewScanner ==
    [buf |-> << >>, started |-> FALSE, finished |-> FALSE, depth |-> 0, in_string |-> FALSE,
     escape_pending |-> FALSE, out |-> << >>]

Emit(s, item) == [s EXCEPT !.out = Append(@, item)]
DecodeError == [kind |-> "error", bytes |-> << >>]
Framed(bytes) == [kind |-> "object", bytes |-> bytes]

(* Mutant of InString: the byte after a backslash is read like any other.  *)
InStringNoEscape(s, byte) ==
    IF byte = "quote" THEN [s EXCEPT !.in_string = FALSE] ELSE s

InString(s, byte) ==
    IF s.escape_pending THEN [s EXCEPT !.escape_pending = FALSE]
    ELSE IF byte = "backslash" THEN [s EXCEPT !.escape_pending = TRUE]
    ELSE IF byte = "quote" THEN [s EXCEPT !.in_string = FALSE]
    ELSE s

(* Inside an object; the brace that closes it emits what was buffered.     *)
InObject(s, byte) ==
    IF byte = "quote" THEN [s EXCEPT !.in_string = TRUE]
    ELSE IF byte = "{" THEN [s EXCEPT !.depth = @ + 1]
    ELSE IF byte = "}" /\ s.depth = 1
         THEN [Emit(s, Framed(s.buf)) EXCEPT !.depth = 0, !.buf = << >>]
    ELSE IF byte = "}" THEN [s EXCEPT !.depth = @ - 1]
    ELSE s

(* Before the array only whitespace is allowed, between objects also the   *)
(* comma; a stray byte there is reported and passed over.                  *)
BeforeArray(s, byte) ==
    IF byte \in Whitespace THEN s
    ELSE IF byte = "[" THEN [s EXCEPT !.started = TRUE]
    ELSE [Emit(s, DecodeError) EXCEPT !.finished = TRUE]

BetweenObjects(s, byte) ==
    IF byte = "{" THEN [s EXCEPT !.depth = 1, !.buf = <<byte>>]
    ELSE IF byte = "]" THEN [s EXCEPT !.finished = TRUE]
    ELSE IF byte \in Whitespace \cup {","} THEN s
    ELSE Emit(s, DecodeError)

ScanByte(s, byte) ==
    LET inside == [s EXCEPT !.buf = Append(@, byte)]
    IN  IF s.finished THEN s
        ELSE IF ~s.started THEN BeforeArray(s, byte)
        ELSE IF s.depth = 0 THEN BetweenObjects(s, byte)
        ELSE IF s.in_string THEN InString(inside, byte)
        ELSE InObject(inside, byte)

(* feed: `out` is what this chunk makes available.                         *)
feed(s, chunk) == FoldLeft(ScanByte, [s EXCEPT !.out = << >>], chunk)

(* finalize: an array that ended in the middle of an object.               *)
finalize(s) == s.depth > 0 \/ s.in_string

-----------------------------------------------------------------------------
(* providers/src/anthropic/passthrough.rs: the client's request body goes  *)
(* upstream as it came, except that the value of its top-level "model"     *)
(* (here the key "m") is replaced by the route's model.  The value is      *)
(* found by a scan of the bytes; where the scan gives up, the whole body   *)
(* is parsed and printed again.  Positions count from 1; 0 is None.        *)

Digits == {"1"}
ByteAt(body, i) == IF i \in DOMAIN body THEN body[i] ELSE "eof"

(* The first position from i on where there is no byte of `bytes`.         *)
Past(body, i, bytes) ==
    IF ByteAt(body, i) \notin bytes THEN i
    ELSE Min({j \in i..(Len(body) + 1) : ByteAt(body, j) \notin bytes})
skip_whitespace(body, i) == Past(body, i, Whitespace)

(* Mutant of scan_string_end: a backslash is read like any other byte.     *)
ScanStringEndNoEscape(body, start) ==
    LET ends == {j \in start..Len(body) : body[j] = "quote"}
    IN  IF ends = {} THEN 0 ELSE Min(ends)

(* The closing quote: the first one with an even number of backslashes     *)
(* directly before it.                                                     *)
scan_string_end(body, start) ==
    LET escapes(j) == Max({n \in 0..(j - start) : \A k \in (j - n)..(j - 1) : body[k] = "backslash"})
        ends == {j \in start..Len(body) : body[j] = "quote" /\ escapes(j) % 2 = 0}
    IN  IF ends = {} THEN 0 ELSE Min(ends)

RECURSIVE ScanBalanced(_, _, _, _)
ScanBalanced(body, i, pair, depth) ==
    LET byte == ByteAt(body, i)
        end == scan_string_end(body, i + 1)
    IN  CASE byte = "eof" -> 0
          [] byte = pair[1] -> ScanBalanced(body, i + 1, pair, depth + 1)
          [] byte = pair[2] -> IF depth = 1 THEN i + 1 ELSE ScanBalanced(body, i + 1, pair, depth - 1)
          [] byte = "quote" -> IF end = 0 THEN 0 ELSE ScanBalanced(body, end + 1, pair, depth)
          [] OTHER -> ScanBalanced(body, i + 1, pair, depth)

scan_value_end(body, i) ==
    LET byte == ByteAt(body, i)
        end == scan_string_end(body, i + 1)
    IN  CASE byte = "quote" -> IF end = 0 THEN 0 ELSE end + 1
          [] byte = "{" -> ScanBalanced(body, i, <<"{", "}">>, 0)
          [] byte = "[" -> ScanBalanced(body, i, <<"[", "]">>, 0)
          [] byte \in {"t", "n"} -> i + 4
          [] byte = "f" -> i + 5
          [] byte \in Digits -> Past(body, i, Digits)
          [] OTHER -> 0

(* find_top_level_string_value_span from member to member.                 *)
RECURSIVE FindSpan(_, _)
FindSpan(body, i) ==
    LET key == skip_whitespace(body, i)
        key_end == scan_string_end(body, key + 1)
        colon == skip_whitespace(body, key_end + 1)
        value == skip_whitespace(body, colon + 1)
        value_end == scan_value_end(body, value)
        next == skip_whitespace(body, value_end)
    IN  IF ByteAt(body, key) # "quote" \/ key_end = 0 \/ ByteAt(body, colon) # ":" \/ value_end = 0
        THEN << >>
        ELSE IF SubSeq(body, key + 1, key_end - 1) = <<"m">>
        THEN IF ByteAt(body, value) = "quote" THEN <<value, value_end>> ELSE << >>
        ELSE IF ByteAt(body, next) = "," THEN FindSpan(body, next + 1) ELSE << >>

find_top_level_string_value_span(body) ==
    LET brace == skip_whitespace(body, 1)
    IN  IF ByteAt(body, brace) = "{" THEN FindSpan(body, brace + 1) ELSE << >>

(* rewrite_model, with the result of the round trip through serde_json.    *)
rewrite_model(body, upstream_model, reprinted) ==
    LET span == find_top_level_string_value_span(body)
    IN  IF {"quote", "backslash"} \cap ToSet(upstream_model) # {} \/ span = << >> THEN reprinted
        ELSE SubSeq(body, 1, span[1] - 1) \o <<"quote">> \o upstream_model \o <<"quote">>
             \o SubSeq(body, span[2], Len(body))
=============================================================================
