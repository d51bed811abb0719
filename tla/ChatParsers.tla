---------------------------- MODULE ChatParsers -----------------------------
(***************************************************************************)
(* The two parsers of chat-completion SSE streams: the OpenAI one and the  *)
(* one of DeepSeek and GLM, whose chunks also carry reasoning.             *)
(***************************************************************************)
EXTENDS StreamEvents
-----------------------------------------------------------------------------
(* providers/src/oai_chat_wire/chat_sse_parser.rs: the OpenAI Chat SSE     *)
(* stream, as its ParserState translates it.  A chunk is                   *)
(*   [choices : Option of a sequence of choices, usage : Option of tokens] *)
(* and a choice [role, text, tools, finish], where tools is an Option of a *)
(* sequence of [index, id, args] deltas and finish an Option of a reason.  *)

ChatInit == Join(NoEnvelope, [text_open |-> FALSE, open_tools |-> {}])

\* text_block_open: the text block always has index 0.
CloseText(a) ==
    IF a.st.text_open
    THEN [st |-> [a.st EXCEPT !.text_open = FALSE],
          out |-> Append(a.out, ContentBlockStop(0))]
    ELSE a

\* Mutant: tool blocks are closed without their ToolCallStop.
DrainToolsUnstopped(a, order) ==
    [st |-> [a.st EXCEPT !.open_tools = {}],
     out |-> a.out \o SetToSeq({ContentBlockStop(i) : i \in a.st.open_tools})]

\* open_tool_blocks.drain(): a HashSet, so in any order.
DrainTools(a, order) ==
    [st |-> [a.st EXCEPT !.open_tools = {}],
     out |-> a.out \o FlattenSeq([k \in DOMAIN order |->
                        When(order[k] \in a.st.open_tools, CloseTool(order[k]), <<>>)])]

\* The envelope from wherever it stands to its end.
Wrap(a, order) ==
    LET opened  == EnsureMessageStart(a)
        drained == DrainTools(CloseText(opened), order)
        stopped == Ensure(drained, "message_stop", MessageStop("EndTurn"))
    IN Ensure(stopped, "response_stop", ResponseStop({}))

HandleDone(s, order) ==
    LET a == Wrap(Ensure(Start(s), "response_start", ResponseStart), order)
    IN [a EXCEPT !.st.completed = TRUE]

\* Mutant: no drain tail after EOF.
ChatFinalizeNothing(s, order) == Start(s)

\* After EOF: nothing when the envelope is complete or never began.
ChatFinalize(s, order) ==
    IF s.response_stop \/ ~s.response_start THEN Start(s) ELSE Wrap(Start(s), order)

ChatTransportError(s) ==
    IF s.completed THEN Start(s) ELSE Say(Start(s), <<StreamErr>>)

ContentDelta(a) ==
    LET b == EnsureMessageStart(a)
        c == IF b.st.text_open THEN b
             ELSE [st |-> [b.st EXCEPT !.text_open = TRUE],
                   out |-> Append(b.out, ContentBlockStart(0, "Text"))]
    IN Say(c, <<BlockEvent("TextDelta", 0)>>)

\* One tool_calls delta; tool indices are offset by one, text has index 0.
ToolDelta(a, tc) ==
    LET i == tc.index + 1
        fresh == tc.id /\ i \notin a.st.open_tools
    IN [st |-> [a.st EXCEPT !.open_tools = IF tc.id THEN @ \cup {i} ELSE @],
        out |-> a.out
                \o When(fresh, <<ContentBlockStart(i, "ToolCall")>>, <<>>)
                \o When(tc.id, <<BlockEvent("ToolCallStart", i)>>, <<>>)
                \o When(tc.args, <<BlockEvent("ToolCallArgumentsDelta", i)>>, <<>>)]

ToolDeltas(a, tools) == FoldLeft(ToolDelta, CloseText(EnsureMessageStart(a)), tools)

FinishReason(a, reason, order) ==
    LET b == DrainTools(CloseText(a), order)
        c == Ensure(b, "message_stop", MessageStop(FromProviderString(reason)))
    IN [c EXCEPT !.st.completed = TRUE]

Choice(a, c, order) ==
    LET b == When(c.role, EnsureMessageStart(a), a)
        d == When(c.text, ContentDelta(b), b)
        e == IF c.tools = {} THEN d ELSE ToolDeltas(d, CHOOSE t \in c.tools : TRUE)
    IN IF c.finish = {} THEN e
       ELSE FinishReason(e, CHOOSE r \in c.finish : TRUE, order)

SayUsage(a, usage) ==
    Say(a, SetToSeq({UsageDelta(n) : n \in usage}))

ChatChunk(s, c, order) ==
    LET a == Ensure(Start(s), "response_start", ResponseStart)
        each(b, choice) == Choice(b, choice, order)
        done == IF c.choices = {} THEN a
                ELSE FoldLeft(each, a, CHOOSE cs \in c.choices : TRUE)
    IN SayUsage(done, c.usage)

\* handle_event and poll_next: what one item of the SSE source does.
ChatInput(s, in, order) ==
    CASE in.kind = "chunk" -> ChatChunk(s, in, order)
      [] in.kind = "done" -> HandleDone(s, order)
      [] in.kind = "error" -> Say(Start(s), <<ErrorEvent>>)
      [] in.kind = "garbage" -> Say(Start(s), <<StreamErr>>)
      [] in.kind = "broken" -> ChatTransportError(s)
      [] in.kind = "eof" -> ChatFinalize(s, order)

-----------------------------------------------------------------------------
(* providers/src/deepseek/response.rs with the ReasoningInterleaver of     *)
(* oai_chat_wire/interleaved_reasoning.rs; GLM uses the same parser.  A    *)
(* chunk is one of the chat parser's whose choices also have `reasoning`. *)

\* in_block: the interleaver's State, Idle or <<kind, index>>; open_tools maps
\* the upstream's tool index to the block index allocated for it.
DeepSeekInit == Join(NoEnvelope, [in_block |-> {}, next_index |-> 0, open_tools |-> <<>>])

\* ReasoningInterleaver::flush.
Flush(a) ==
    [st |-> [a.st EXCEPT !.in_block = {}],
     out |-> a.out \o SetToSeq({ContentBlockStop(b[2]) : b \in a.st.in_block})]

\* open_new_block.
OpenNewBlock(a, kind) ==
    [st |-> [a.st EXCEPT !.in_block = {<<kind, a.st.next_index>>}, !.next_index = @ + 1],
     out |-> Append(a.out, ContentBlockStart(a.st.next_index, kind))]

\* ReasoningInterleaver::push: a switch of kind closes one block and opens
\* the next.
Push(a, kind) ==
    LET b == IF \E x \in a.st.in_block : x[1] = kind THEN a ELSE OpenNewBlock(Flush(a), kind)
        i == (CHOOSE x \in b.st.in_block : TRUE)[2]
    IN Say(b, <<BlockEvent(DeltaOf[kind], i)>>)

\* drain_open_tool_blocks: sorted, unlike the chat parser's drain.
DrainOpenToolBlocks(a) ==
    LET indices == {a.st.open_tools[p] : p \in DOMAIN a.st.open_tools}
    IN [st |-> [a.st EXCEPT !.open_tools = <<>>],
        out |-> a.out \o CloseTools(Ascending(indices))]

EndEnvelope(a) ==
    LET b == DrainOpenToolBlocks(Flush(EnsureMessageStart(a)))
        c == Ensure(b, "message_stop", MessageStop("EndTurn"))
    IN Ensure(c, "response_stop", ResponseStop({}))

DeepSeekDone(s) ==
    LET a == EndEnvelope(Ensure(Start(s), "response_start", ResponseStart))
    IN [a EXCEPT !.st.completed = TRUE]

DeepSeekFinalize(s) ==
    IF s.response_stop \/ ~s.response_start THEN Start(s) ELSE EndEnvelope(Start(s))

\* A tool delta: a provider index seen first gets the next index after the
\* interleaver's blocks and the tool blocks open now.
DeepSeekTool(a, tc) ==
    LET known == tc.index \in DOMAIN a.st.open_tools
        allocated == a.st.next_index + Cardinality(DOMAIN a.st.open_tools)
        i == IF known THEN a.st.open_tools[tc.index] ELSE allocated
    IN [st |-> [a.st EXCEPT !.open_tools = Insert(@, tc.index, i)],
        out |-> a.out
                \o When(known, <<>>, <<ContentBlockStart(i, "ToolCall")>>)
                \o When(tc.id, <<BlockEvent("ToolCallStart", i)>>, <<>>)
                \o When(tc.args, <<BlockEvent("ToolCallArgumentsDelta", i)>>, <<>>)]

\* finish_reason: unlike the chat parser, MessageStop is not guarded by
\* emitted_message_stop here.
DeepSeekFinish(a, reason) ==
    LET b == DrainOpenToolBlocks(Flush(a))
    IN [st |-> [b.st EXCEPT !.message_stop = TRUE, !.completed = TRUE],
        out |-> Append(b.out, MessageStop(FromProviderString(reason)))]

DeepSeekChoice(a, c) ==
    LET b == When(c.role, EnsureMessageStart(a), a)
        d == When(c.reasoning, Push(EnsureMessageStart(b), "Reasoning"), b)
        e == When(c.text, Push(EnsureMessageStart(d), "Text"), d)
        f == IF c.tools = {} THEN e
             ELSE FoldLeft(DeepSeekTool, Flush(EnsureMessageStart(e)),
                           CHOOSE t \in c.tools : TRUE)
    IN IF c.finish = {} THEN f ELSE DeepSeekFinish(f, CHOOSE r \in c.finish : TRUE)

DeepSeekChunk(s, c) ==
    LET a == Ensure(Start(s), "response_start", ResponseStart)
        b == IF c.choices = {} THEN a
             ELSE FoldLeft(DeepSeekChoice, a, CHOOSE cs \in c.choices : TRUE)
    IN Say(b, SetToSeq({UsageDelta(n) : n \in c.usage}))

DeepSeekInput(s, in) ==
    CASE in.kind = "chunk" -> DeepSeekChunk(s, in)
      [] in.kind = "done" -> DeepSeekDone(s)
      [] in.kind = "error" -> Say(Start(s), <<ErrorEvent>>)
      [] in.kind = "garbage" -> Say(Start(s), <<StreamErr>>)
      [] in.kind = "broken" -> When(s.completed, Start(s), Say(Start(s), <<StreamErr>>))
      [] in.kind = "eof" -> DeepSeekFinalize(s)
=============================================================================
