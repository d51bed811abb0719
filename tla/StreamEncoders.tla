--------------------------- MODULE StreamEncoders ---------------------------
(***************************************************************************)
(* The three client encoders: each takes canonical events one at a time to *)
(* the frames of its protocol.  `done` is what `handle` returns: the body  *)
(* ends after this event's frames.                                         *)
(***************************************************************************)
EXTENDS StreamEvents

(* frontends/src/anthropic_messages/encode_stream.rs: Messages SSE frames. *)
(* block_kinds is written and never read, so it is left out.               *)
AnthropicEncoderInit == [tokens |-> 0, pending_stop |-> {}, done |-> FALSE]

\* Mutant: a tool block is announced by its start and by ToolCallStart.
BlockFramesTwice(e) ==
    IF e.ev \in {"ContentBlockStart", "ToolCallStart"} THEN <<Frame("open", e.index)>> ELSE <<>>

\* A tool block is announced by ToolCallStart, which carries its id and name.
BlockFrames(e) ==
    CASE e.ev = "ContentBlockStart" /\ e.kind = "ToolCall" -> <<>>
      [] e.ev = "ContentBlockStart" /\ e.kind # "ToolCall" -> <<Frame("open", e.index)>>
      [] e.ev = "ToolCallStart" -> <<Frame("open", e.index)>>
      [] e.ev \in {"TextDelta", "ReasoningDelta", "ToolCallArgumentsDelta"} ->
            <<Frame("delta", e.index)>>
      [] e.ev = "ContentBlockStop" -> <<Frame("close", e.index)>>
      [] OTHER -> <<>>

\* stop_reason_to_anthropic.
ToAnthropic(reason) ==
    CASE reason = "MaxTokens" -> "max_tokens"
      [] reason = "ToolUse" -> "tool_use"
      [] reason = "StopSequence" -> "stop_sequence"
      [] reason = "ContentFilter" -> "content_filter"
      [] OTHER -> "end_turn"

\* MessageStop only remembers the reason: message_delta waits for the final
\* usage, and without a reason ResponseStop says nothing.
EndOfMessage(s, e) ==
    LET n == FinalUsage(s.tokens, e)
    IN IF s.pending_stop = {} THEN Start([s EXCEPT !.tokens = n])
       ELSE [st |-> [s EXCEPT !.tokens = n, !.pending_stop = {}, !.done = TRUE],
             out |-> <<StopFrame("stop", ToAnthropic(CHOOSE r \in s.pending_stop : TRUE)),
                       UsageFrame("usage", n), Frame("finish", NoIndex)>>]

AnthropicHandle(s, e) ==
    CASE e.ev = "ResponseStart" ->
            Say(Start(s), <<Frame("begin", NoIndex), Frame("ping", NoIndex)>>)
      [] e.ev \in {"Err", "Error"} -> Say(Start(s), <<Frame("error", NoIndex)>>)
      [] e.ev = "UsageDelta" -> Start([s EXCEPT !.tokens = AddUsage(@, e)])
      [] e.ev = "MessageStop" -> Start([s EXCEPT !.pending_stop = {e.stop}])
      [] e.ev = "ResponseStop" -> EndOfMessage(s, e)
      [] OTHER -> Say(Start(s), BlockFrames(e))
-----------------------------------------------------------------------------
(* frontends/src/openai_chat/encode_stream.rs: chat.completion.chunk       *)
(* frames.  Reasoning and usage deltas have no frame of their own; block   *)
(* starts and stops have none either.                                      *)
ChatEncoderInit == [done |-> FALSE]

\* finish_reason_from_canonical.
FinishReasonOf(reason) ==
    CASE reason = "MaxTokens" -> "length"
      [] reason = "ToolUse" -> "tool_calls"
      [] reason = "ContentFilter" -> "content_filter"
      [] OTHER -> "stop"

ChatFrames(e) ==
    CASE e.ev = "ResponseStart" -> <<Frame("begin", NoIndex)>>
      [] e.ev = "ToolCallStart" -> <<Frame("open", e.index)>>
      [] e.ev = "TextDelta" -> <<Frame("content", NoIndex)>>
      [] e.ev = "ToolCallArgumentsDelta" -> <<Frame("delta", e.index)>>
      [] e.ev = "MessageStop" -> <<StopFrame("stop", FinishReasonOf(e.stop))>>
      [] e.ev = "Error" -> <<Frame("error", NoIndex)>>
      [] e.ev = "Err" -> <<Frame("error", NoIndex), Frame("finish", NoIndex)>>
      [] e.ev = "ResponseStop" ->
            Append(SetToSeq({UsageFrame("usage", n) : n \in e.usage}),
                   Frame("finish", NoIndex))
      [] OTHER -> <<>>

ChatHandle(s, e) ==
    [st |-> [s EXCEPT !.done = @ \/ e.ev \in {"Err", "ResponseStop"}],
     out |-> ChatFrames(e)]
-----------------------------------------------------------------------------
(* frontends/src/openai_responses/encode_stream.rs: Responses API events.  *)
(* Items are numbered by output_index as they are added; `output` maps a   *)
(* canonical index to its item, and `buffered` says which buffer (text,    *)
(* reasoning, tool arguments) each open item has.                          *)
ResponsesEncoderInit ==
    [output_index |-> 0, output |-> <<>>, buffered |-> <<>>,
     final_status |-> {}, tokens |-> 0, done |-> FALSE]

\* next_output_index, and the maps keyed by it.
AddItem(s, i, buf) ==
    [s EXCEPT !.output_index = @ + 1,
              !.output = Insert(@, i, s.output_index),
              !.buffered = Insert(@, s.output_index, buf)]

\* A text block announces its item and its content part, a reasoning block
\* its item; a tool block waits for ToolCallStart.
ItemStart(s, e) ==
    LET oi == s.output_index
    IN CASE e.ev = "ToolCallStart" ->
              [st |-> AddItem(s, e.index, "args"), out |-> <<Frame("open", oi)>>]
         [] e.ev = "ContentBlockStart" /\ e.kind = "Text" ->
              [st |-> AddItem(s, e.index, "text"),
               out |-> <<Frame("open", oi), Frame("part", oi)>>]
         [] e.ev = "ContentBlockStart" /\ e.kind = "Reasoning" ->
              [st |-> AddItem(s, e.index, "reasoning"), out |-> <<Frame("open", oi)>>]
         [] OTHER -> Start(s)

\* A fragment for an index with no item is an encode error.
ItemDelta(s, e) ==
    IF e.index \in DOMAIN s.output
    THEN Say(Start(s), <<Frame("delta", s.output[e.index])>>)
    ELSE Say(Start(s), <<Frame("encode_error", NoIndex)>>)

\* ToolCallStop completes the function call item; its index stays mapped
\* until ContentBlockStop.
ToolDone(s, e) ==
    IF e.index \notin DOMAIN s.output THEN Say(Start(s), <<Frame("encode_error", NoIndex)>>)
    ELSE LET oi == s.output[e.index]
         IN [st |-> [s EXCEPT !.buffered = When(oi \in DOMAIN @ /\ @[oi] = "args",
                                                Without(@, oi), @)],
             out |-> <<Frame("part", oi), Frame("close", oi)>>]

\* ContentBlockStop completes whatever the item still has buffered.
ItemDone(s, e) ==
    IF e.index \notin DOMAIN s.output THEN Start(s)
    ELSE LET oi == s.output[e.index]
             buf == IF oi \in DOMAIN s.buffered THEN s.buffered[oi] ELSE "none"
         IN [st |-> [s EXCEPT !.output = Without(@, e.index),
                              !.buffered = When(buf \in {"text", "reasoning"},
                                                Without(@, oi), @)],
             out |-> CASE buf = "text" ->
                            <<Frame("part", oi), Frame("part", oi), Frame("close", oi)>>
                       [] buf = "reasoning" -> <<Frame("part", oi), Frame("close", oi)>>
                       [] OTHER -> <<>>]

\* status_from_stop_reason.
StatusOf(reason) == IF reason = "ContentFilter" THEN "incomplete" ELSE "completed"

ResponseCompleted(s, e) ==
    LET n == FinalUsage(s.tokens, e)
        status == IF s.final_status = {} THEN "completed"
                  ELSE CHOOSE x \in s.final_status : TRUE
    IN [st |-> [s EXCEPT !.tokens = n, !.done = TRUE],
        out |-> <<StopFrame("stop", status), UsageFrame("usage", n),
                  Frame("finish", NoIndex)>>]

ResponsesHandle(s, e) ==
    CASE e.ev = "ResponseStart" -> Say(Start(s), <<Frame("begin", NoIndex)>>)
      [] e.ev \in {"Err", "Error"} -> Say(Start(s), <<Frame("error", NoIndex)>>)
      [] e.ev \in {"ContentBlockStart", "ToolCallStart"} -> ItemStart(s, e)
      [] e.ev \in {"TextDelta", "ReasoningDelta", "ToolCallArgumentsDelta"} -> ItemDelta(s, e)
      [] e.ev = "ToolCallStop" -> ToolDone(s, e)
      [] e.ev = "ContentBlockStop" -> ItemDone(s, e)
      [] e.ev = "UsageDelta" -> Start([s EXCEPT !.tokens = AddUsage(@, e)])
      [] e.ev = "MessageStop" -> Start([s EXCEPT !.final_status = {StatusOf(e.stop)}])
      [] e.ev = "ResponseStop" -> ResponseCompleted(s, e)
      [] OTHER -> Start(s)
=============================================================================
