--------------------------- MODULE UnaryResponse ---------------------------
(***************************************************************************)
(* The non-streaming path.  A provider's parse_unary turns one response    *)
(* body into canonical events; collect_stream (gateway/src/handlers/mod.rs)*)
(* gathers them into a CanonicalResponse, which the frontend's             *)
(* encode_unary writes out.  A body is [blocks, stop, usage], its blocks   *)
(* the parts of the upstream message in order: "text", "empty" (an empty   *)
(* text), "thought", "redacted", "call" or "media".                        *)
(***************************************************************************)
EXTENDS StreamEvents

WholeCall(i) ==
    <<ContentBlockStart(i, "ToolCall"), BlockEvent("ToolCallStart", i),
      BlockEvent("ToolCallArgumentsDelta", i)>> \o CloseTool(i)

WholeBlock(i, kind, deltas) ==
    <<ContentBlockStart(i, kind)>> \o deltas \o <<ContentBlockStop(i)>>

BlockEvents(i, block) ==
    CASE block = "text" -> WholeBlock(i, "Text", <<BlockEvent("TextDelta", i)>>)
      [] block = "empty" -> WholeBlock(i, "Text", <<>>)
      [] block = "thought" -> WholeBlock(i, "Reasoning", <<BlockEvent("ReasoningDelta", i)>>)
      [] block = "redacted" -> WholeBlock(i, "RedactedReasoning", <<>>)
      [] block = "call" -> WholeCall(i)
      [] block = "media" -> <<>>

Numbered(blocks) == FlattenSeq([k \in DOMAIN blocks |-> BlockEvents(k - 1, blocks[k])])

Envelope(events, before, body) ==
    <<ResponseStart, MessageStart>> \o before \o events
        \o <<MessageStop(body.stop), ResponseStop(body.usage)>>

\* The blocks of some kinds, in order.
Keep(blocks, kinds) ==
    FlattenSeq([k \in DOMAIN blocks |-> When(blocks[k] \in kinds, <<blocks[k]>>, <<>>)])

\* chat_unary_parser: an empty text takes no index.
ChatUnary(body) == Envelope(Numbered(Keep(body.blocks, {"text", "thought", "call"})), <<>>, body)

\* deepseek parse_unary: the same, and reasoning_content is not read.
DeepSeekUnary(body) ==
    Envelope(Numbered(Keep(body.blocks, {"text", "call"})), <<>>, body)

\* anthropic: a block per index; usage also goes ahead as a delta.
AnthropicUnary(body) ==
    Envelope(Numbered(body.blocks), SetToSeq({UsageDelta(n) : n \in body.usage}), body)

\* gemini candidate_to_blocks: consecutive parts of a kind run together.
MergeParts(blocks) ==
    LET joins(k) == k > 1 /\ blocks[k] \in {"text", "thought"} /\ blocks[k - 1] = blocks[k]
    IN FlattenSeq([k \in DOMAIN blocks |-> When(joins(k), <<>>, <<blocks[k]>>)])

\* gemini parse_unary: a function call upgrades the reason to ToolUse.
GeminiCanonical(body) ==
    [body EXCEPT !.blocks = MergeParts(@),
                 !.stop = IF \E k \in DOMAIN body.blocks : body.blocks[k] = "call"
                          THEN "ToolUse" ELSE @]

\* canonical_response_to_events: media keeps its index, without events.
CanonicalResponseToEvents(response) == Envelope(Numbered(response.blocks), <<>>, response)

UnaryEvents(provider, body) ==
    CASE body.kind = "error" -> <<ErrorEvent>>
      [] body.kind = "garbage" -> <<StreamErr>>
      [] body.kind = "body" ->
            CASE provider = "chat" -> ChatUnary(body)
              [] provider = "deepseek" -> DeepSeekUnary(body)
              [] provider = "anthropic" -> AnthropicUnary(body)
              [] provider = "gemini" -> CanonicalResponseToEvents(GeminiCanonical(body))

-----------------------------------------------------------------------------
\* collect_stream.  Text and tool calls become content when their block
\* stops; reasoning is not collected.
CollectorInit ==
    [text |-> {}, tools |-> {}, content |-> <<>>, stop |-> "EndTurn", usage |-> {},
     failed |-> FALSE, done |-> FALSE]

\* Mutant: a tool call is collected when it stops and again with its block.
CollectTwice(s, e) ==
    CASE e.ev = "ToolCallStart" -> [s EXCEPT !.tools = @ \cup {e.index}]
      [] e.ev \in {"ToolCallStop", "ContentBlockStop"} /\ e.index \in s.tools ->
            [s EXCEPT !.content = Append(@, "call")]
      [] OTHER -> s

Collect(s, e) ==
    CASE e.ev = "TextDelta" -> [s EXCEPT !.text = @ \cup {e.index}]
      [] e.ev = "ToolCallStart" -> [s EXCEPT !.tools = @ \cup {e.index}]
      [] e.ev = "ContentBlockStop" ->
            [s EXCEPT !.text = @ \ {e.index}, !.tools = @ \ {e.index},
                      !.content = @ \o When(e.index \in s.text, <<"text">>, <<>>)
                                    \o When(e.index \in s.tools, <<"call">>, <<>>)]
      [] e.ev = "MessageStop" -> [s EXCEPT !.stop = e.stop]
      [] e.ev \in {"UsageDelta", "ResponseStop"} /\ e.usage # {} -> [s EXCEPT !.usage = e.usage]
      [] e.ev \in {"Err", "Error"} -> [s EXCEPT !.failed = TRUE, !.done = TRUE]
      [] OTHER -> s

-----------------------------------------------------------------------------
\* encode_unary.  Anthropic keeps the blocks as they are.
AnthropicBody(content) == content

\* OpenAI Chat joins the texts into one field and lists the calls after it.
ChatBody(content) ==
    When("text" \in ToSet(content), <<"text">>, <<>>)
        \o Keep(content, {"call"})

\* OpenAI Responses joins the texts between two calls into one message.
ResponsesBody(content) ==
    LET keep(acc, b) == IF b = "text" /\ acc # <<>> /\ Last(acc) = "text"
                        THEN acc ELSE Append(acc, b)
    IN FoldLeft(keep, <<>>, content)

UnaryBody(frontend, content) ==
    CASE frontend = "anthropic" -> AnthropicBody(content)
      [] frontend = "chat" -> ChatBody(content)
      [] frontend = "responses" -> ResponsesBody(content)
=============================================================================
