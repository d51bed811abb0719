-------------------------- MODULE RequestDecoders --------------------------
(***************************************************************************)
(* The three frontends' decoders: a client's history, in its dialect, and  *)
(* what it asks for, to the canonical request.                             *)
(***************************************************************************)
EXTENDS CanonicalRequest

\* image_url_to_binary_source: an inline or remote image; other urls are kept
\* as Unsupported.
ImageUrl(part) ==
    IF part.source \in {"Url", "Base64"} THEN Image(part.n, part.source) ELSE Unsupported(part.n)

\* A word for the effort that is no effort is as good as none, and no decoder
\* reads a token budget: budget_tokens is None in all three.
Asks(body, choice, builtin) ==
    [effort |-> Parsed(body.effort), budget_tokens |-> {}, tool_choice |-> choice,
     tools |-> body.tools, builtin_tools |-> builtin]

-----------------------------------------------------------------------------
\* Anthropic Messages: [role, content], where content is blocks.

\* inbound_block_to_canonical.
AnthropicBlock(b) ==
    CASE b.type = "text" -> Text(b.n)
      [] b.type = "image" ->
            IF b.source = "Unknown" THEN Unsupported(b.n) ELSE Image(b.n, b.source)
      [] b.type = "tool_use" -> ToolCall(b.id, b.name)
      [] b.type = "tool_result" -> ToolResult(b.id, b.n)
      [] b.type = "thinking" -> Reasoning(b.n)

RoleFromAnthropic == [user |-> "User", assistant |-> "Assistant", system |-> "System"]

\* A tool result stays in the user's message.
AnthropicMessage(r, m) ==
    IF m.role \notin DOMAIN RoleFromAnthropic THEN Refuse(r)
    ELSE Place(r, Message(RoleFromAnthropic[m.role], Each(m.content, AnthropicBlock),
                          "AnthropicSystem"))

AnthropicChoice(c) ==
    CASE c.type \in {"absent", "auto"} -> ToolChoice("Auto", "")
      [] c.type = "any" -> ToolChoice("Required", "")
      [] c.type = "none" -> ToolChoice("None", "")
      [] c.type = "tool" -> ToolChoice("Specific", c.name)

AnthropicDecode(req) ==
    LET top == IF req.system = <<>> THEN <<>>
               ELSE <<Message("System", Each(req.system, AnthropicBlock), "AnthropicSystem")>>
    IN Finished(FoldLeft(AnthropicMessage, Reader(top), req.history),
                Asks(req, AnthropicChoice(req.choice), FALSE))

-----------------------------------------------------------------------------
\* OpenAI Chat: [role, content, tool_calls, tool_call_id], content is parts.

ChatPart(p) == IF p.type = "text" THEN Text(p.n) ELSE ImageUrl(p)

RoleToCanonical == [user |-> "User", assistant |-> "Assistant", tool |-> "Tool",
                    system |-> "System", developer |-> "System"]

SourceOf(role) == IF role = "developer" THEN "OpenAiDeveloper" ELSE "OpenAiSystem"

\* A tool message needs its tool_call_id, and only its first part is kept.
ChatToolMessage(r, m) ==
    IF m.tool_call_id = {} THEN Refuse(r)
    ELSE LET id == CHOOSE i \in m.tool_call_id : TRUE
             output == IF m.content = <<>> THEN 0 ELSE m.content[1].n
         IN Place(r, Message("Tool", <<ToolResult(id, output)>>, "none"))

ChatMessage(r, m) ==
    LET call(tc) == ToolCall(tc.id, tc.name)
        content == Each(m.content, ChatPart)
    IN CASE m.role \notin DOMAIN RoleToCanonical -> Refuse(r)
         [] m.role = "tool" -> ChatToolMessage(r, m)
         [] m.role \in {"system", "developer"} ->
              Place(r, Message("System", content, SourceOf(m.role)))
         [] m.role \in {"user", "assistant"} ->
              Place(r, Message(RoleToCanonical[m.role],
                               content \o Each(m.tool_calls, call), "none"))

\* A mode that is not known is auto.
ModeOrFunction(c) ==
    CASE c.type = "function" -> ToolChoice("Specific", c.name)
      [] c.type = "none" -> ToolChoice("None", "")
      [] c.type = "required" -> ToolChoice("Required", "")
      [] OTHER -> ToolChoice("Auto", "")

ChatDecode(req) ==
    Finished(FoldLeft(ChatMessage, Reader(<<>>), req.history),
             Asks(req, ModeOrFunction(req.choice), FALSE))

-----------------------------------------------------------------------------
\* OpenAI Responses: instructions, and a list of typed input items.

\* decode_message_content: parts of an unknown type are dropped.
ResponsesContent(parts) ==
    LET known == SelectSeq(parts, LAMBDA p : p.type \in {"text", "image"})
    IN Each(known, ChatPart)

ResponsesMessage(r, item) ==
    LET content == ResponsesContent(item.content)
    IN CASE item.role \in {"system", "developer"} ->
              Place(r, Message("System", content, SourceOf(item.role)))
         [] item.role \in {"user", "assistant"} ->
              Place(r, Message(RoleToCanonical[item.role], content, "none"))
         [] OTHER -> Refuse(r)

\* A function call's id is the item's own id and only without one its call_id;
\* an output always names the call_id.
ResponsesCall(item) ==
    ToolCall(IF item.id = {} THEN item.call_id ELSE CHOOSE i \in item.id : TRUE, item.name)

\* Reasoning joins the assistant message ahead of it, or makes one.
ResponsesReasoning(r, item) ==
    LET block == Reasoning(item.n)
        last == Len(r.messages)
    IN IF last > 0 /\ r.messages[last].role = "Assistant"
       THEN [r EXCEPT !.messages[last].content = Append(@, block), !.prelude = FALSE]
       ELSE Place(r, Message("Assistant", <<block>>, "none"))

ResponsesItem(r, item) ==
    CASE item.type = "message" -> ResponsesMessage(r, item)
      [] item.type = "function_call" ->
            Place(r, Message("Assistant", <<ResponsesCall(item)>>, "none"))
      [] item.type = "function_call_output" ->
            Place(r, Message("Tool", <<ToolResult(item.call_id, item.n)>>, "none"))
      [] item.type = "reasoning" -> ResponsesReasoning(r, item)
      [] item.type = "other" -> [r EXCEPT !.prelude = FALSE]

ResponsesDecode(req) ==
    LET top == IF req.system = <<>> THEN <<>>
               ELSE <<Message("System", ResponsesContent(req.system), "OpenAiSystem")>>
    IN Finished(FoldLeft(ResponsesItem, Reader(top), req.history),
                Asks(req, ModeOrFunction(req.choice), req.builtin))

Decode(dialect, req) ==
    CASE dialect = "anthropic" -> AnthropicDecode(req)
      [] dialect = "chat" -> ChatDecode(req)
      [] dialect = "responses" -> ResponsesDecode(req)
=============================================================================
