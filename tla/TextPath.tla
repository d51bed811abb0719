------------------------------ MODULE TextPath ------------------------------
(***************************************************************************)
(* What becomes of the text of one streamed request on a Gemini route with *)
(* the built-in plugins: prompt_compressor shortens the conversation (H2), *)
(* the upstream answers with a JSON array that arrives in chunks of any    *)
(* size and may break off, the scanner cuts it into objects, the parser    *)
(* turns each into a text or reasoning delta of an open block, and         *)
(* pii_scrubber holds and scrubs the deltas (H5) on their way to the       *)
(* client.  On an Anthropic route the client's bytes go through instead.   *)
(***************************************************************************)
EXTENDS PromptCompressor, PiiScrubber, JsonText

CONSTANTS Requests,   \* [messages, strategy, answer, members]: the conversation, the
                      \* compressor's strategy, the parts [kind, text] of the upstream's
                      \* answer; or the members [key, value] of a body passed through
          UpstreamModels,   \* model names a route may have, as bytes
          MaxChunk    \* bound on the bytes of a chunk

VARIABLES messages, strategy, prompt,   \* H2: prompt is an Option
          answer, pos, scanner,         \* the bytes, and how many have come
          framed,                       \* objects the scanner has emitted
          path,                         \* parser, scrubber and client
          members, proxied              \* the client's body, and [model, bytes] sent on

vars == <<messages, strategy, prompt, answer, pos, scanner, framed, path, members, proxied>>
-----------------------------------------------------------------------------
(* The wire: a part is an object with one string, a thought one level      *)
(* deeper; quotes and backslashes in the string are escaped.  An answer    *)
(* may also be malformed: a part that is no response object, a stray byte  *)
(* between objects, or a byte in front of the array.                       *)
Escaped(text) ==
    FlattenSeq([i \in DOMAIN text |->
        IF text[i] \in {"quote", "backslash"} THEN <<"backslash", text[i]>> ELSE <<text[i]>>])
Quoted(text) == <<"{", "quote">> \o Escaped(text) \o <<"quote", "}">>
Encoded(part) ==
    CASE part.kind = "TextDelta" -> Quoted(part.text)
      [] part.kind = "ReasoningDelta" -> <<"{">> \o Quoted(part.text) \o <<"}">>
      [] part.kind = "Unreadable" -> <<"{">> \o part.text \o <<"}">>
      [] part.kind \in {"Stray", "Preamble"} -> part.text

Parts(kinds) == {i \in DOMAIN answer : answer[i].kind \in kinds}

Separator == <<",", "newline">>
Joined(parts) ==
    FlattenSeq([i \in DOMAIN parts |-> IF i = 1 THEN parts[i] ELSE Separator \o parts[i]])
Wire(parts) ==
    (IF Parts({"Preamble"}) # {} THEN Encoded(parts[1]) ELSE << >>)
    \o <<"space", "[">>
    \o Joined([i \in DOMAIN parts |-> Encoded(parts[i])])
    \o <<"]", "newline">>

(* A client's body, with whitespace or, as serde_json prints it, without.  *)
Member(m) == <<"quote">> \o m.key \o <<"quote", "space", ":", "space">> \o m.value
Body(ms) == <<"newline", "{">> \o Joined([i \in DOMAIN ms |-> Member(ms[i])]) \o <<"}">>

WithModel(ms, model) ==
    [i \in DOMAIN ms |->
        IF ms[i].key = <<"m">> THEN [ms[i] EXCEPT !.value = <<"quote">> \o Escaped(model) \o <<"quote">>]
        ELSE ms[i]]
Reprinted(ms, model) == SelectSeq(Body(WithModel(ms, model)), LAMBDA byte : byte \notin Whitespace)
-----------------------------------------------------------------------------
(* The parser's open block and, behind it, the scrubber and the client:    *)
(* said is the text of every block as the parser emits it.                 *)
NewPath ==
    [open |-> {}, said |-> << >>, buf |-> EmptyBuffer, heard |-> << >>, errors |-> 0,
     ended |-> FALSE]

(* wrap_stream: one event through the scrubber.                            *)
Through(p, event) ==
    LET r == on_stream_event(p.buf, event)
    IN  [p EXCEPT !.buf = r.buf, !.heard = @ \o r.out]

Stopped(p) ==
    LET closed == FoldSet(LAMBDA i, q : Through(q, Delta("ContentBlockStop", i, << >>)), p, p.open)
    IN  [closed EXCEPT !.open = {}]

(* ensure_text_block, ensure_reasoning_block: index i is said[i + 1].      *)
Opened(p, kind) ==
    IF \E i \in p.open : p.said[i + 1].kind = kind THEN p
    ELSE LET i == Len(p.said)
         IN  [Through(Stopped(p), Delta("ContentBlockStart", i, << >>))
                 EXCEPT !.open = {i}, !.said = Append(@, [kind |-> kind, text |-> << >>])]

Told(p, part) ==
    LET q == Opened(p, part.kind)
        i == CHOOSE x \in q.open : TRUE
    IN  Through([q EXCEPT !.said[i + 1].text = @ \o part.text], Delta(part.kind, i, part.text))

(* serde_json on what the scanner framed.                                  *)
Received(p, item) ==
    IF \E k \in Parts(DOMAIN EmptyBuffer) : Framed(Encoded(answer[k])) = item
    THEN Told(p, CHOOSE part \in ToSet(answer) : Framed(Encoded(part)) = item)
    ELSE [p EXCEPT !.errors = @ + 1]

(* StreamState::finalize, if there was any object, with the error of a     *)
(* broken transport or of an unterminated object before it; errors pass by *)
(* the plugins.                                                            *)
Finished(p, failures) ==
    LET q == [p EXCEPT !.errors = @ + failures, !.ended = TRUE]
    IN  IF p.said = << >> THEN q
        ELSE Through(Stopped(q), Delta("MessageStop", NoIndex, << >>))
-----------------------------------------------------------------------------
Init ==
    /\ \E r \in Requests : /\ messages = r.messages /\ strategy = r.strategy
                           /\ answer = r.answer /\ members = r.members
    /\ prompt = {}
    /\ pos = 0 /\ scanner = NewScanner /\ framed = << >> /\ path = NewPath
    /\ proxied = {}

(* H2. When the hook runs out of time its copy of the request is dropped.  *)
Compress ==
    /\ prompt = {} /\ members = << >>
    /\ \E made \in Prompts(strategy, messages) \cup {messages} : prompt' = {made}
    /\ UNCHANGED <<messages, strategy, answer, pos, scanner, framed, path, members, proxied>>

(* proxy_raw: the upstream's bytes then pass by everything above.          *)
ProxyRaw ==
    /\ members # << >> /\ proxied = {}
    /\ \E model \in UpstreamModels :
          proxied' = {[model |-> model,
                       bytes |-> rewrite_model(Body(members), model, Reprinted(members, model))]}
    /\ path' = [path EXCEPT !.ended = TRUE]
    /\ UNCHANGED <<messages, strategy, prompt, answer, pos, scanner, framed, members>>

Chunk ==
    /\ prompt # {} /\ ~path.ended
    /\ \E n \in 1..MaxChunk :
          /\ pos + n <= Len(Wire(answer))
          /\ scanner' = feed(scanner, SubSeq(Wire(answer), pos + 1, pos + n))
          /\ pos' = pos + n
    /\ framed' = framed \o scanner'.out
    /\ path' = FoldLeft(Received, path, scanner'.out)
    /\ UNCHANGED <<messages, strategy, prompt, answer, members, proxied>>

(* The body ends, complete or not, with or without a transport error.      *)
End ==
    /\ prompt # {} /\ ~path.ended
    /\ \E broken \in {0, 1} :
          path' = Finished(path, broken + (IF finalize(scanner) THEN 1 ELSE 0))
    /\ UNCHANGED <<messages, strategy, prompt, answer, pos, scanner, framed, members, proxied>>

Quiescent == path.ended /\ UNCHANGED vars

Next == Compress \/ ProxyRaw \/ Chunk \/ End \/ Quiescent

Spec == Init /\ [][Next]_vars
-----------------------------------------------------------------------------
Kept == CHOOSE p \in prompt : TRUE

(* The prompt is a suffix of the conversation, perhaps behind a summary:   *)
(* the last keep_last_n turns are all there, no more was dropped than the  *)
(* token target asks for, and a tool message still has the call it         *)
(* answers, which an upstream would reject without it.                     *)
TurnsKept ==
    prompt # {} =>
        LET tail == IF Head(Kept) = Summary THEN Tail(Kept) ELSE Kept
            dropped == Len(messages) - Len(tail)
            users == {i \in DOMAIN messages : messages[i].role = "User"}
        IN  /\ dropped >= 0 /\ tail = From(messages, dropped + 1)
            /\ \A i \in users :
                  Cardinality({j \in users : j >= i}) <= strategy.keep_last_n => i > dropped
            /\ dropped > 0 /\ strategy.type = "truncate_to_tokens" =>
                  \A i \in users : i <= dropped =>
                      count_messages_tokens(From(messages, i)) > strategy.target_tokens
            /\ \A i \in DOMAIN tail : tail[i].role = "Tool" =>
                  \A id \in tail[i].results : \E j \in 1..(i - 1) : id \in tail[j].calls

(* However the bytes are cut, the scanner has emitted exactly the objects  *)
(* that have come whole, in order, with one error for every stray byte     *)
(* (into_response_stream: "Output items correspond 1:1 to the JSON objects *)
(* in the upstream array"); a body that is no array is one error.  The     *)
(* client is told of each failure, and of an object that is cut short, and *)
(* of nothing else unless the transport broke.                             *)
ScannerExact ==
    LET lengths == [i \in DOMAIN answer |-> Len(Encoded(answer[i]))]
        ends == [i \in DOMAIN answer |-> 2 * i + FoldLeft(+, 0, SubSeq(lengths, 1, i))]
        whole == {i \in DOMAIN answer : ends[i] <= pos}
        inside == {i \in DOMAIN answer : ends[i] - lengths[i] < pos /\ pos < ends[i]}
        bad == Cardinality(whole \cap Parts({"Stray", "Unreadable"}))
    IN  IF Parts({"Preamble"}) # {} THEN pos > 0 => framed = <<DecodeError>>
        ELSE /\ framed = [i \in whole |-> IF answer[i].kind = "Stray" THEN DecodeError
                                          ELSE Framed(Encoded(answer[i]))]
             /\ ~path.ended => path.errors = bad
             /\ path.ended => path.errors - bad - Cardinality(inside) \in {0, 1}

(* What an upstream gets of a passed-through body is the client's body,    *)
(* byte for byte, with the route's model in the place of the client's (the *)
(* same "model" at another depth or inside a string left alone); if that   *)
(* name needs escaping, the same members with it.                          *)
RewriteExact ==
    \A p \in proxied :
        p.bytes = IF Escaped(p.model) = p.model THEN Body(WithModel(members, p.model))
                  ELSE Reprinted(members, p.model)

(* The text of block i as the client has it.                               *)
Heard(i) ==
    LET mine == SelectSeq(path.heard, LAMBDA e : e.index = i /\ e.ev = path.said[i + 1].kind)
    IN  FlattenSeq([n \in DOMAIN mine |-> mine[n].text])

(* A scrubbed text with the patterns put back.                             *)
Unscrubbed(text) ==
    FoldLeft(LAMBDA t, rule : FlattenSeq([i \in DOMAIN t |->
                 IF t[i] = rule.replacement THEN rule.pattern ELSE <<t[i]>>]),
             text, Reverse(Rules))

(* The scrubber loses, repeats, reorders and mislabels nothing: of every   *)
(* block the client has what was said, scrubbed, up to what is held; no    *)
(* character is cut in two; and a block that never outgrew the buffer is   *)
(* scrubbed as if it had come in one piece.                                *)
ScrubExact ==
    \A i \in 0..(Len(path.said) - 1) :
        LET block == path.said[i + 1]
            held == IF i \in path.open THEN path.buf[block.kind] ELSE << >>
        IN  /\ Unscrubbed(Heard(i)) \o held = block.text
            /\ \A n \in DOMAIN path.heard : path.heard[n].text # << >> =>
                  Head(path.heard[n].text) \notin Continuation
            /\ i \notin path.open /\ Len(block.text) <= FlushThreshold =>
                  Heard(i) = apply_rules(block.text)

(* docs: matches that span deltas get caught. No text the client has of a  *)
(* block contains a pattern.                                               *)
MatchesCaught ==
    \A i \in 0..(Len(path.said) - 1), rule \in ToSet(Rules) :
        \A n \in 1..(Len(Heard(i)) - 1) : SubSeq(Heard(i), n, n + 1) # rule.pattern
=============================================================================
