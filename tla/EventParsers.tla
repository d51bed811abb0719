---------------------------- MODULE EventParsers ----------------------------
(***************************************************************************)
(* The parsers of upstream streams whose inputs are whole messages: the    *)
(* events of the Anthropic Messages API and of the OpenAI Responses API,   *)
(* and the GenerateContent responses of Gemini.                            *)
(***************************************************************************)
EXTENDS StreamEvents
-----------------------------------------------------------------------------
(* providers/src/anthropic/response.rs: the Messages API events, block by  *)
(* block.  The stream has no drain tail: what the upstream leaves open     *)
(* stays open.  `tokens` is the usage merged so far.                       *)

AnthropicInit == [stop |-> {}, tokens |-> {}, open_tools |-> {}, completed |-> FALSE]

\* Mutant: cumulative counts are added up.
MergeUsageSum(acc, n) == IF acc = {} THEN {n} ELSE {a + n : a \in acc}

\* merge_usage: the counts are cumulative, so the larger one wins.
MergeUsage(acc, n) ==
    IF acc = {} THEN {n} ELSE {IF n > a THEN n ELSE a : a \in acc}

TakeUsage(a, usage) ==
    IF usage = {} THEN a
    ELSE LET n == CHOOSE m \in usage : TRUE
         IN [st |-> [a.st EXCEPT !.tokens = MergeUsage(@, n)],
             out |-> Append(a.out, UsageDelta(n))]

\* content_block_start; `text` says whether it carries a first fragment.
BlockStart(s, in) ==
    LET head == <<ContentBlockStart(in.index, in.block)>>
    IN CASE in.block = "ToolCall" ->
              [st |-> [s EXCEPT !.open_tools = @ \cup {in.index}],
               out |-> Append(head, BlockEvent("ToolCallStart", in.index))]
         [] in.block \in {"Text", "Reasoning"} /\ in.text ->
              Say(Start(s), Append(head, BlockEvent(DeltaOf[in.block], in.index)))
         [] OTHER -> Say(Start(s), head)

\* content_block_stop; a tool block gets its ToolCallStop first.
BlockStop(s, in) ==
    [st |-> [s EXCEPT !.open_tools = @ \ {in.index}],
     out |-> IF in.index \in s.open_tools THEN CloseTool(in.index)
             ELSE <<ContentBlockStop(in.index)>>]

\* stop_reason_from_anthropic.
FromAnthropic(reason) ==
    CASE reason = "end_turn" -> "EndTurn"
      [] reason = "max_tokens" -> "MaxTokens"
      [] reason = "tool_use" -> "ToolUse"
      [] reason = "stop_sequence" -> "StopSequence"
      [] reason = "content_filter" -> "ContentFilter"
      [] OTHER -> "Other"

MessageDelta(s, in) ==
    TakeUsage(Start([s EXCEPT !.stop = IF in.reason = {} THEN @
                                       ELSE {FromAnthropic(r) : r \in in.reason}]),
              in.usage)

MessageEnd(s) ==
    [st |-> [s EXCEPT !.stop = {}, !.tokens = {}, !.completed = TRUE],
     out |-> <<MessageStop(IF s.stop = {} THEN "EndTurn" ELSE CHOOSE r \in s.stop : TRUE),
               ResponseStop(IF s.tokens = {} THEN {0} ELSE s.tokens)>>]

AnthropicInput(s, in) ==
    CASE in.kind = "message_start" ->
            TakeUsage(Say(Start(s), <<ResponseStart, MessageStart>>), in.usage)
      [] in.kind = "block_start" -> BlockStart(s, in)
      [] in.kind = "block_delta" ->
            Say(Start(s), <<BlockEvent(DeltaOf[in.block], in.index)>>)
      [] in.kind = "block_stop" -> BlockStop(s, in)
      [] in.kind = "message_delta" -> MessageDelta(s, in)
      [] in.kind = "message_stop" -> MessageEnd(s)
      [] in.kind = "error" -> Say(Start(s), <<ErrorEvent>>)
      [] in.kind = "garbage" -> Say(Start(s), <<StreamErr>>)
      [] in.kind = "broken" -> When(s.completed, Start(s), Say(Start(s), <<StreamErr>>))
      [] in.kind \in {"other", "eof"} -> Start(s)      \* ping, signature_delta

-----------------------------------------------------------------------------
(* providers/src/openai_compatible/responses_api/parse_stream.rs: the      *)
(* events of the OpenAI Responses API.  An input names the SSE event; the  *)
(* events the parser ignores are the kind "other".                         *)

ResponsesInit == Join(NoEnvelope, [open_blocks |-> <<>>])   \* output index -> kind

KindOfItem == [message |-> "Text", function_call |-> "ToolCall"]

\* response.output_item.added.  Items of another type open no block.
OutputItemAdded(s, in) ==
    LET a == EnsureMessageStart(Start(s))
    IN IF in.item \notin DOMAIN KindOfItem THEN a
       ELSE [st |-> [a.st EXCEPT !.open_blocks = Insert(@, in.index, KindOfItem[in.item])],
             out |-> Append(a.out, ContentBlockStart(in.index, KindOfItem[in.item]))
                     \o When(in.item = "function_call",
                             <<BlockEvent("ToolCallStart", in.index)>>, <<>>)]

CloseBlock(i, kind) ==
    IF kind = "ToolCall" THEN CloseTool(i) ELSE <<ContentBlockStop(i)>>

\* response.output_item.done closes what the item's type says.
OutputItemDone(s, in) ==
    IF in.item \notin DOMAIN KindOfItem THEN Start(s)
    ELSE [st |-> [s EXCEPT !.open_blocks = Without(@, in.index)],
          out |-> CloseBlock(in.index, KindOfItem[in.item])]

\* response.completed: "incomplete" becomes ContentFilter, all else EndTurn.
Completed(s, in) ==
    [st |-> [s EXCEPT !.completed = TRUE, !.message_stop = TRUE, !.response_stop = TRUE],
     out |-> <<MessageStop(IF in.status = "incomplete" THEN "ContentFilter" ELSE "EndTurn"),
               ResponseStop(in.usage)>>]

\* The drain tail closes orphaned blocks in index order.
ResponsesFinalize(s) ==
    LET a == EnsureMessageStart(Start(s))
        orphaned == Ascending(DOMAIN s.open_blocks)
        closed == [st |-> [a.st EXCEPT !.open_blocks = <<>>],
                   out |-> a.out \o FlattenSeq([k \in DOMAIN orphaned |->
                                     CloseBlock(orphaned[k], s.open_blocks[orphaned[k]])])]
        stopped == Ensure(closed, "message_stop", MessageStop("EndTurn"))
    IN IF s.response_stop \/ ~s.response_start THEN Start(s)
       ELSE Ensure(stopped, "response_stop", ResponseStop({}))

ResponsesInput(s, in) ==
    CASE in.kind = "created" -> Ensure(Start(s), "response_start", ResponseStart)
      [] in.kind = "item_added" -> OutputItemAdded(s, in)
      [] in.kind = "text_delta" -> Say(Start(s), <<BlockEvent("TextDelta", in.index)>>)
      [] in.kind = "args_delta" ->
            Say(Start(s), <<BlockEvent("ToolCallArgumentsDelta", in.index)>>)
      [] in.kind = "item_done" -> OutputItemDone(s, in)
      [] in.kind = "completed" -> Completed(s, in)
      [] in.kind = "failed" ->
            [st |-> [s EXCEPT !.completed = TRUE], out |-> <<ErrorEvent>>]
      [] in.kind = "error" -> Say(Start(s), <<ErrorEvent>>)
      [] in.kind = "garbage" -> Say(Start(s), <<StreamErr>>)
      [] in.kind = "broken" -> When(s.completed, Start(s), Say(Start(s), <<StreamErr>>))
      [] in.kind = "eof" -> ResponsesFinalize(s)
      [] in.kind = "other" -> Start(s)
-----------------------------------------------------------------------------
(* providers/src/gemini/response.rs, StreamState: one GenerateContent      *)
(* response per input, [parts, finish, usage, candidate]; a part is        *)
(* "text", "thought", "call" or "media".  Text and thought parts run on in *)
(* an open block, a function call is a whole block of its own.             *)

GeminiInit ==
    [started |-> FALSE, stopped |-> FALSE, next_block |-> 0, open_block |-> {},
     has_tool_call |-> FALSE, last_usage |-> {}]

CloseOpenBlock(a) ==
    [st |-> [a.st EXCEPT !.open_block = {}],
     out |-> a.out \o SetToSeq({ContentBlockStop(b[2]) : b \in a.st.open_block})]

\* ensure_text_block / ensure_reasoning_block.
EnsureBlock(a, kind) ==
    IF \E b \in a.st.open_block : b[1] = kind THEN a
    ELSE LET c == CloseOpenBlock(a)
         IN [st |-> [c.st EXCEPT !.open_block = {<<kind, c.st.next_block>>},
                                 !.next_block = @ + 1],
             out |-> Append(c.out, ContentBlockStart(c.st.next_block, kind))]

EmitToolCall(a) ==
    LET i == a.st.next_block
    IN [st |-> [a.st EXCEPT !.has_tool_call = TRUE, !.next_block = @ + 1],
        out |-> a.out \o <<ContentBlockStart(i, "ToolCall"), BlockEvent("ToolCallStart", i),
                           BlockEvent("ToolCallArgumentsDelta", i)>> \o CloseTool(i)]

Fragment(a, kind) ==
    LET b == EnsureBlock(a, kind)
    IN Say(b, <<BlockEvent(DeltaOf[kind], (CHOOSE x \in b.st.open_block : TRUE)[2])>>)

\* handle_part; inline and file data are dropped in a stream.
HandlePart(a, part) ==
    CASE part = "call" -> EmitToolCall(CloseOpenBlock(a))
      [] part = "thought" -> Fragment(a, "Reasoning")
      [] part = "text" -> Fragment(a, "Text")
      [] part = "media" -> a

\* Mutant: the tool call does not change the reason.
MapFinishReasonPlain(reason, has_tool_call) ==
    IF reason = "MAX_TOKENS" THEN "MaxTokens" ELSE "EndTurn"

\* map_finish_reason: a tool call upgrades every reason.
MapFinishReason(reason, has_tool_call) ==
    IF has_tool_call THEN "ToolUse"
    ELSE CASE reason = "STOP" -> "EndTurn"
           [] reason = "MAX_TOKENS" -> "MaxTokens"
           [] reason \in {"SAFETY", "RECITATION"} -> "ContentFilter"
           [] reason = "none" -> "EndTurn"
           [] OTHER -> "Other"

Stop(a, reason) ==
    LET b == CloseOpenBlock(a)
    IN [st |-> [b.st EXCEPT !.stopped = TRUE, !.last_usage = {}],
        out |-> b.out \o <<MessageStop(reason), ResponseStop(b.st.last_usage)>>]

\* StreamState::handle.
GeminiResponse(s, in) ==
    LET began == IF s.started THEN Start(s)
                 ELSE [st |-> [s EXCEPT !.started = TRUE],
                       out |-> <<ResponseStart, MessageStart>>]
        told == [began EXCEPT !.st.last_usage = IF in.usage = {} THEN @ ELSE in.usage]
        done == FoldLeft(HandlePart, told, in.parts)
    IN CASE s.stopped -> Start(s)
         [] ~s.stopped /\ ~in.candidate -> told
         [] ~s.stopped /\ in.candidate /\ in.finish = {} -> done
         [] ~s.stopped /\ in.candidate /\ in.finish # {} ->
              Stop(done, MapFinishReason(CHOOSE r \in in.finish : TRUE,
                                         done.st.has_tool_call))

GeminiFinalize(s) ==
    IF ~s.started \/ s.stopped THEN Start(s)
    ELSE Stop(Start(s), IF s.has_tool_call THEN "ToolUse" ELSE "EndTurn")

GeminiInput(s, in) ==
    CASE in.kind = "response" -> GeminiResponse(s, in)
      [] in.kind \in {"garbage", "broken"} -> Say(Start(s), <<StreamErr>>)
      [] in.kind = "eof" -> GeminiFinalize(s)
=============================================================================
