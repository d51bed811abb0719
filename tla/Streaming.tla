----------------------------- MODULE Streaming -----------------------------
(***************************************************************************)
(* One response on its way from the upstream to the client.  The HTTP body *)
(* is pulled: the encoder's queue is written out first, then the parser's  *)
(* queue is handed to the encoder event by event, and only when both are   *)
(* empty is the upstream asked for more.  Init picks the provider, the     *)
(* frontend and whether the client asked for a stream; a unary answer goes *)
(* through collect_stream and encode_unary instead of a stream encoder.    *)
(***************************************************************************)
EXTENDS ChatParsers, EventParsers, StreamEncoders, UnaryResponse, FiniteSets

CONSTANTS Providers,       \* the upstream dialects of this instance
          Frontends,       \* the client dialects
          MaxIndex,        \* largest block index an upstream uses
          MaxTokens,       \* largest token count an upstream reports
          TextAfterTools   \* whether a chat upstream sends text after tool calls

ASSUME StreamingAssumption ==
    /\ Providers \subseteq {"chat", "deepseek", "responses", "anthropic", "gemini"}
    /\ Frontends \subseteq {"anthropic", "chat", "responses"}
    /\ MaxIndex \in Nat /\ MaxTokens \in Nat \ {0} /\ TextAfterTools \in BOOLEAN

VARIABLES
    provider, frontend, streamed,   \* what this request is
    up,          \* the upstream's side: phase, what it has open, tokens and
                 \* reason told
    parser,      \* the parser's state
    events,      \* canonical events parsed and not yet pulled
    encoder,     \* the encoder's (or the collector's) state
    frames,      \* frames encoded and not yet written
    life,        \* what the events pulled so far amount to (StreamLifecycle)
    view,        \* what the client has seen (ClientStream)
    ended,       \* the response body is complete
    asked,       \* a unary answer: the blocks of the upstream's body ...
    answer       \* ... and the body the client gets

vars == <<provider, frontend, streamed, up, parser, events, encoder, frames,
          life, view, ended, asked, answer>>
request == <<provider, frontend, streamed>>

Indices == 0 .. MaxIndex
ToolIndices == {0, 1}
TokenCounts == 1 .. MaxTokens
BlockIndices == 0 .. (2 * MaxIndex + 4)

Lifecycle == INSTANCE StreamLifecycle WITH Index <- BlockIndices
Client == INSTANCE ClientStream WITH Item <- BlockIndices, dialect <- frontend,
                                     Closing <- {"anthropic", "responses"}

-----------------------------------------------------------------------------
\* The upstream.  What it may send next keeps to its API, and it may fail or
\* vanish at any point.  phase: "idle" (nothing sent), "live", "closing"
\* (message_delta sent), "stopped" (through) and "gone".

\* The first delta names the role.
NoChoice == [role |-> up.phase = "idle", text |-> FALSE, reasoning |-> FALSE, tools |-> {}, finish |-> {}]
Chunk(choices, usage) == [kind |-> "chunk", choices |-> choices, usage |-> usage]
OneChoice(c) == Chunk({<<c>>}, {})

\* The first delta of a tool call carries its id, the later ones do not.
ToolDeltaNow(i) == [index |-> i, id |-> i \notin up.open, args |-> i \in up.open]

UsageNow == {{}} \cup {{n} : n \in {m \in TokenCounts : up.tokens = 0}}

\* The reasons the APIs give; any of them may end a response that called a
\* tool, and the last of each is one the program does not know.
ChatReasons == {"stop", "length", "tool_calls", "content_filter", "function_call"}
AnthropicReasons == {"end_turn", "max_tokens", "tool_use", "stop_sequence", "pause_turn"}
GeminiReasons == {"STOP", "MAX_TOKENS", "SAFETY", "OTHER"}

\* A chat-completions stream: text, then tool calls, one finish, usage once.
ChatOffers ==
    LET quiet == up.open = {} \/ TextAfterTools
        roomy == provider = "chat" \/ parser.next_index < MaxIndex
        content == {[NoChoice EXCEPT !.text = TRUE]}
                   \cup (IF provider = "deepseek"
                         THEN {[NoChoice EXCEPT !.reasoning = TRUE],
                               [NoChoice EXCEPT !.reasoning = TRUE, !.text = TRUE]}
                         ELSE {})
        calls == {[NoChoice EXCEPT !.tools = {<<ToolDeltaNow(i)>>}] : i \in ToolIndices}
                 \cup (IF up.open = {}
                       THEN {[NoChoice EXCEPT !.text = roomy,
                                              !.tools = {<<ToolDeltaNow(0), ToolDeltaNow(1)>>}]}
                       ELSE {})
    IN IF up.phase \in {"idle", "live"}
       THEN {OneChoice(NoChoice)}
            \cup {OneChoice(c) : c \in {x \in content : quiet /\ roomy}}
            \cup {OneChoice(c) : c \in calls}
            \cup {Chunk({<<[NoChoice EXCEPT !.finish = {r}]>>}, u) : r \in ChatReasons, u \in UsageNow}
            \cup {[kind |-> "done"]}
       ELSE {Chunk(cs, u) : cs \in {{}, {<<>>}}, u \in UsageNow} \cup {[kind |-> "done"]}

\* Responses API: items are added in index order, get deltas and are done.
ResponsesOffers ==
    IF up.phase = "idle" THEN {[kind |-> "created"]}
    ELSE IF up.phase = "stopped" THEN {[kind |-> "other"]}
    ELSE {[kind |-> "created"], [kind |-> "failed"]}
         \cup {[kind |-> "item_added", index |-> up.next, item |-> t] :
                  t \in {x \in {"message", "function_call", "reasoning"} : up.next <= MaxIndex}}
         \cup {[kind |-> "text_delta", index |-> i] :
                  i \in {j \in DOMAIN up.open : up.open[j] = "message"}}
         \cup {[kind |-> "args_delta", index |-> i] :
                  i \in {j \in DOMAIN up.open : up.open[j] = "function_call"}}
         \cup {[kind |-> "item_done", index |-> i, item |-> up.open[i]] : i \in DOMAIN up.open}
         \cup {[kind |-> "completed", status |-> t, usage |-> u] :
                  t \in {x \in {"completed", "incomplete"} : DOMAIN up.open = {}}, u \in UsageNow}

\* Messages API: one block at a time, message_delta, message_stop.
AnthropicOffers ==
    IF up.phase = "idle" THEN {[kind |-> "message_start", usage |-> u] : u \in UsageNow}
    ELSE IF up.phase = "stopped" THEN {[kind |-> "other"]}
    ELSE IF up.phase = "closing" THEN {[kind |-> "message_stop"]}
    ELSE IF DOMAIN up.open # {}
    THEN {[kind |-> "block_stop", index |-> i] : i \in DOMAIN up.open}
         \cup {[kind |-> "block_delta", index |-> i, block |-> up.open[i]] :
                  i \in {j \in DOMAIN up.open : up.open[j] # "RedactedReasoning"}}
    ELSE {[kind |-> "block_start", index |-> up.next, block |-> b, text |-> t] :
             b \in {k \in ContentBlockKind : up.next <= MaxIndex}, t \in BOOLEAN}
         \cup {[kind |-> "message_delta", reason |-> {r}, usage |-> {n}] :
                 r \in AnthropicReasons, n \in {m \in TokenCounts : m >= up.tokens}}

\* GenerateContent: parts in any order, a finish reason in the last response.
GeminiOffers ==
    LET parts == {<<>>, <<"text">>, <<"thought">>, <<"call">>, <<"media">>,
                  <<"text", "call">>, <<"thought", "text">>}
        room(p) == parser.next_block + Len(p) <= MaxIndex + 1
    IN {[kind |-> "response", parts |-> p, finish |-> f, usage |-> u, candidate |-> c] :
           p \in {q \in parts : room(q)}, f \in {{}} \cup {{r} : r \in GeminiReasons},
           u \in {{}} \cup {{n} : n \in {m \in TokenCounts : m >= up.tokens}}, c \in BOOLEAN}

Offers ==
    CASE provider \in {"chat", "deepseek"} -> ChatOffers
      [] provider = "responses" -> ResponsesOffers
      [] provider = "anthropic" -> AnthropicOffers
      [] provider = "gemini" -> GeminiOffers

Faults == {[kind |-> "broken"], [kind |-> "garbage"]}
          \cup (IF provider = "gemini" THEN {} ELSE {[kind |-> "error"]})

ToolsIn(in) ==
    UNION {{d.index : d \in ToSet(t)} : t \in UNION {c.tools : c \in ToSet(
        IF in.choices = {} THEN <<>> ELSE CHOOSE x \in in.choices : TRUE)}}

Finishing(in) ==
    \/ in.kind \in {"done", "completed", "failed", "message_stop"}
    \/ in.kind = "chunk" /\ \E cs \in in.choices : \E c \in ToSet(cs) : c.finish # {}
    \/ in.kind = "response" /\ in.candidate /\ in.finish # {}

Told(in) == IF in.kind \in {"chunk", "completed", "message_start", "message_delta", "response"}
            THEN in.usage ELSE {}

ReasonIn(in) ==
    CASE in.kind = "chunk" -> UNION {c.finish : c \in UNION {ToSet(cs) : cs \in in.choices}}
      [] in.kind = "message_delta" -> in.reason
      [] in.kind = "response" /\ in.candidate -> in.finish
      [] OTHER -> {}

\* What a finish reason says, in whichever dialect: the response was cut
\* short, was filtered, waits for its tools, or is complete. A reason the
\* program does not know counts as complete.
Means(reason) ==
    CASE reason \in {"length", "max_tokens", "MAX_TOKENS"} -> "cut"
      [] reason \in {"content_filter", "SAFETY"} -> "filtered"
      [] reason \in {"tool_calls", "tool_use"} -> "tools"
      [] OTHER -> "end"

\* How the upstream's own side moves on.
Follow(in) ==
    [phase |-> CASE Finishing(in) -> "stopped"
                 [] in.kind = "message_delta" -> "closing"
                 [] OTHER -> IF up.phase = "idle" THEN "live" ELSE up.phase,
     open |-> CASE in.kind = "chunk" -> up.open \cup ToolsIn(in)
                [] in.kind = "item_added" -> Insert(up.open, in.index, in.item)
                [] in.kind = "block_start" -> Insert(up.open, in.index, in.block)
                [] in.kind \in {"item_done", "block_stop"} -> Without(up.open, in.index)
                [] OTHER -> up.open,
     next |-> IF in.kind \in {"item_added", "block_start"} THEN up.next + 1 ELSE up.next,
     tokens |-> IF Told(in) = {} THEN up.tokens ELSE CHOOSE n \in Told(in) : TRUE,
     called |-> \/ up.called
                \/ in.kind = "block_start" /\ in.block = "ToolCall"
                \/ in.kind = "chunk" /\ ToolsIn(in) # {}
                \/ in.kind = "item_added" /\ in.item = "function_call"
                \/ in.kind = "response" /\ in.candidate /\ "call" \in ToSet(in.parts),
     reason |-> IF ReasonIn(in) = {} THEN up.reason ELSE Means(CHOOSE r \in ReasonIn(in) : TRUE),
     reasoned |-> up.reasoned \/ (Finishing(in) /\ in.kind \notin {"done", "failed"})]

-----------------------------------------------------------------------------
Orders == {<<1, 2>>, <<2, 1>>}      \* the orders a HashSet of two may drain in

Parse(in) ==
    CASE provider = "chat" -> {ChatInput(parser, in, order) : order \in Orders}
      [] provider = "deepseek" -> {DeepSeekInput(parser, in)}
      [] provider = "responses" -> {ResponsesInput(parser, in)}
      [] provider = "anthropic" -> {AnthropicInput(parser, in)}
      [] provider = "gemini" -> {GeminiInput(parser, in)}

ParserInit(p) ==
    CASE p = "chat" -> ChatInit
      [] p = "deepseek" -> DeepSeekInit
      [] p = "responses" -> ResponsesInit
      [] p = "anthropic" -> AnthropicInit
      [] p = "gemini" -> GeminiInit

EncoderInit(f, s) ==
    CASE ~s -> CollectorInit
      [] s /\ f = "anthropic" -> AnthropicEncoderInit
      [] s /\ f = "chat" -> ChatEncoderInit
      [] s /\ f = "responses" -> ResponsesEncoderInit

Handle(e) ==
    CASE ~streamed -> Start(Collect(encoder, e))
      [] streamed /\ frontend = "anthropic" -> AnthropicHandle(encoder, e)
      [] streamed /\ frontend = "chat" -> ChatHandle(encoder, e)
      [] streamed /\ frontend = "responses" -> ResponsesHandle(encoder, e)

Init ==
    /\ provider \in Providers /\ frontend \in Frontends /\ streamed \in BOOLEAN
    /\ up = [phase |-> "idle", open |-> IF provider \in {"chat", "deepseek"} THEN {} ELSE <<>>,
             next |-> 0, tokens |-> 0, called |-> FALSE, reason |-> "none", reasoned |-> FALSE]
    /\ parser = ParserInit(provider)
    /\ encoder = EncoderInit(frontend, streamed)
    /\ events = <<>> /\ frames = <<>>
    /\ life = Lifecycle!Fresh /\ view = Client!Blank
    /\ ended = FALSE /\ asked = <<>> /\ answer = <<>>

Polling == ~ended /\ frames = <<>> /\ events = <<>> /\ ~encoder.done

\* The Responses parser also serves unary requests: the upstream is always
\* asked for a stream there.
Piecemeal == streamed \/ provider = "responses"

Feed(in) ==
    /\ \E r \in Parse(in) : parser' = r.st /\ events' = r.out
    /\ UNCHANGED <<request, encoder, frames, life, view, ended, asked, answer>>

\* The upstream sends its next piece.
Arrive ==
    /\ Polling /\ Piecemeal /\ up.phase # "gone"
    /\ \E in \in Offers : Feed(in) /\ up' = Follow(in)

\* A transport error, an undecodable piece or an error the upstream reports;
\* the source may still go on after it.
Fail ==
    /\ Polling /\ Piecemeal /\ up.phase # "gone" /\ ~life.error
    /\ \E in \in Faults : Feed(in) /\ UNCHANGED up

\* The source ends, whether or not the upstream was through.
Eof ==
    /\ Polling /\ Piecemeal /\ up.phase # "gone"
    /\ Feed([kind |-> "eof"])
    /\ up' = [up EXCEPT !.phase = "gone"]

\* The bodies a unary upstream sends.
Shapes ==
    CASE provider = "chat" -> {<<>>, <<"text">>, <<"empty", "call">>, <<"text", "call", "call">>}
      [] provider = "deepseek" -> {<<"thought", "text">>, <<"thought", "empty", "call">>}
      [] provider = "anthropic" ->
            {<<>>, <<"empty">>, <<"thought", "text", "call">>, <<"text", "call", "text">>,
             <<"redacted", "call">>}
      [] provider = "gemini" ->
            {<<>>, <<"text", "text", "call">>, <<"thought", "text">>, <<"media", "text", "call">>}

Bodies ==
    {[kind |-> "body", blocks |-> b, stop |-> r, usage |-> u] :
        b \in Shapes, r \in {"EndTurn", "ToolUse", "MaxTokens"}, u \in {{}} \cup {{n} : n \in TokenCounts}}
    \cup {[kind |-> "garbage"], [kind |-> "error"]}

Answer ==
    /\ Polling /\ ~Piecemeal /\ up.phase = "idle"
    /\ \E body \in Bodies :
          /\ events' = UnaryEvents(provider, body)
          /\ asked' = IF body.kind = "body" THEN body.blocks ELSE <<>>
          /\ up' = [up EXCEPT !.phase = "gone",
                              !.tokens = IF body.kind = "body" /\ body.usage # {}
                                         THEN CHOOSE n \in body.usage : TRUE ELSE 0]
    /\ UNCHANGED <<request, parser, encoder, frames, life, view, ended, answer>>

\* The encoder pulls one event.
Pull ==
    /\ ~ended /\ frames = <<>> /\ events # <<>> /\ ~encoder.done
    /\ LET e == Head(events)
           r == Handle(e)
       IN /\ life' = Lifecycle!Record(life, e)
          /\ encoder' = r.st /\ frames' = r.out
          /\ events' = Tail(events)
    /\ UNCHANGED <<request, up, parser, view, ended, asked, answer>>

\* The body pulls one frame and writes it.
Write ==
    /\ frames # <<>>
    /\ view' = Client!See(view, Head(frames))
    /\ frames' = Tail(frames)
    /\ UNCHANGED <<request, up, parser, events, encoder, life, ended, asked, answer>>

\* Mutant: an exhausted source leaves the body pending until the encoder is
\* done, which a dead upstream never brings about.
EndWhenDone ==
    /\ ~ended /\ frames = <<>>
    /\ encoder.done \/ (events = <<>> /\ up.phase = "gone")
    /\ ended' = encoder.done
    /\ UNCHANGED <<request, up, parser, events, encoder, frames, life, view, asked, answer>>

\* The source is exhausted or the encoder is done: the body ends.  Only in
\* the first case has the canonical stream itself come to its end.
End ==
    /\ ~ended /\ frames = <<>>
    /\ encoder.done \/ (events = <<>> /\ up.phase = "gone")
    /\ ended' = TRUE
    /\ life' = IF encoder.done THEN life ELSE Lifecycle!End(life)
    /\ answer' = IF streamed \/ encoder.failed THEN <<>>
                 ELSE UnaryBody(frontend, encoder.content)
    /\ UNCHANGED <<request, up, parser, events, encoder, frames, view, asked>>

Quiescent == ended /\ UNCHANGED vars

Next == Arrive \/ Fail \/ Eof \/ Answer \/ Pull \/ Write \/ End \/ Quiescent

\* The server keeps polling the body while the client reads it.
Fairness == WF_vars(Pull) /\ WF_vars(Write) /\ WF_vars(End)

Spec == Init /\ [][Next]_vars /\ Fairness

-----------------------------------------------------------------------------

\* Whatever the provider, and wherever the upstream fails or vanishes, the
\* events pulled from its parser are a canonical stream: rules 1a to 8 of
\* the validator (protocol-tests/src/lifecycle.rs) hold of every one.
LifecycleKept == Lifecycle!Spec

\* Whatever the provider and the dialect, the client sees items announced
\* before their fragments, each once and closed once, and nothing after the
\* finish (the *EncoderStream state machines over what the parsers emit).
ClientKept == Client!Spec

\* The drain tails (`finalize` of the chat, DeepSeek, Responses and Gemini
\* parsers): a source that ends early leaves no block open, and a client
\* that was sent the beginning of a response is sent an end or an error.
\* The Anthropic parser has no tail, so there it takes the message_stop.
DrainTail ==
    ended /\ (provider # "anthropic" \/ up.reasoned) =>
        /\ life.ended => life.error \/ Lifecycle!AllClosed(life)
        /\ streamed /\ view.begun => view.finished \/ view.errored

\* The counts a client is told are the upstream's last ones: deltas are not
\* added to cumulative totals (merge_usage, the encoders' ResponseStop).
UsageExact ==
    view.usage # {} /\ ~view.errored => view.usage = {up.tokens}

ReasonDue ==
    /\ streamed /\ view.finished /\ ~view.errored /\ up.reasoned
    /\ provider # "responses" /\ frontend # "responses"

\* Agents loop on the stop reason: the client is told, in its own dialect,
\* what the upstream's reason says (from_provider_string and its sisters,
\* through the parser, the canonical stop and the encoder), whatever blocks
\* the response had and however they were closed. Only Gemini, which has no
\* reason for tools, is overruled: there a response that called one waits
\* for its tools, even if it was cut short or filtered, against the table at
\* gemini/response.rs:26-32, which upgrades STOP only.  (The Responses API
\* has a status and no reason.)
ReasonKept ==
    ReasonDue => Means(view.reason) =
                     IF provider = "gemini" /\ up.called THEN "tools" ELSE up.reason

Runs(blocks) == MergeParts(Keep(blocks, {"text", "call"}))

\* A unary answer has every text and every call of the upstream's body, in
\* order; Chat lists the calls after the text (parse_unary, collect_stream,
\* encode_unary).
UnaryComplete ==
    ended /\ ~Piecemeal /\ ~encoder.failed =>
        IF frontend = "chat" THEN answer = ChatBody(Runs(asked))
        ELSE Runs(answer) = Runs(asked)

\* Once the upstream is gone the response body comes to its end.
BodyEnds == up.phase = "gone" ~> ended
=============================================================================
