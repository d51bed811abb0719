-------------------------- MODULE RequestBuilders --------------------------
(***************************************************************************)
(* The providers' request builders: the canonical request to what is sent  *)
(* upstream, a sequence of [role, parts] messages.  A part is a canonical  *)
(* block that the upstream's format has a place for; texts that the code   *)
(* joins into one string stay a run of parts.                              *)
(***************************************************************************)
EXTENDS CanonicalRequest

Outgoing(role, parts) == [role |-> role, parts |-> parts]
Unless(empty, msg) == IF empty = <<>> THEN <<>> ELSE <<msg>>
Flat(seq, F(_)) == FlattenSeq(Each(seq, F))

\* Image parts: a provider's own file id has no form on the OpenAI and
\* Anthropic wires and is dropped.
Portable(content) ==
    SelectSeq(content, LAMBDA b : b.kind = "Image" => b.source # "ProviderFileId")

-----------------------------------------------------------------------------
\* OpenAI chat wire (canonical_to_chat::build).

ChatRole(m) ==
    CASE m.role = "User" -> "user"
      [] m.role = "Assistant" -> "assistant"
      [] m.role = "Tool" -> "tool"
      [] m.role = "System" -> IF m.source = "OpenAiDeveloper" THEN "developer" ELSE "system"

\* build_content_value: text and images; everything else has no part.
ContentValue(content) == Portable(OfKind(content, {"Text", "Image"}))

\* Mutants: a message with tool results loses its text; only the first of
\* several results is sent.
ChatMessagesResultsOnly(m) ==
    LET results == OfKind(m.content, {"ToolResult"})
        tool(b) == Outgoing("tool", <<b>>)
    IN IF results # <<>> THEN Each(results, tool)
       ELSE <<Outgoing(ChatRole(m), ContentValue(m.content) \o OfKind(m.content, {"ToolCall"}))>>
ChatMessagesFirstResult(m) ==
    LET results == OfKind(m.content, {"ToolResult"})
        rest == SelectSeq(m.content, LAMBDA b : b.kind \in {"Text", "Image", "ToolCall"})
    IN IF results # <<>>
       THEN <<Outgoing("tool", <<Head(results)>>)>> \o Unless(rest, Outgoing(ChatRole(m), rest))
       ELSE <<Outgoing(ChatRole(m), rest)>>

\* One canonical message: its tool results become tool messages of their own,
\* ahead of what else it says; with tool calls only the text is kept.
ChatMessages(m) ==
    LET results == OfKind(m.content, {"ToolResult"})
        calls == OfKind(m.content, {"ToolCall"})
        tool(b) == Outgoing("tool", <<b>>)
        rest == ContentValue(m.content)
    IN CASE results # <<>> ->
              Each(results, tool)
                \o (IF m.role = "Tool" THEN <<>> ELSE Unless(rest, Outgoing(ChatRole(m), rest)))
         [] results = <<>> /\ calls # <<>> ->
              <<Outgoing(ChatRole(m), OfKind(m.content, {"Text"}) \o calls)>>
         [] OTHER -> <<Outgoing(ChatRole(m), rest)>>

ChatBuild(req) ==
    LET instruction(s) == Outgoing(ChatRole(s), OfKind(s.content, {"Text"}))
    IN Each(req.system, instruction) \o Flat(req.messages, ChatMessages)

-----------------------------------------------------------------------------
\* OpenAI Responses API (responses_api::encode_request::build).

\* A message is one input item, or an item per text and call; only messages
\* of role Tool yield function_call_output items.
InputItems(m) ==
    LET results == OfKind(m.content, {"ToolResult"})
        calls == OfKind(m.content, {"ToolCall"})
        texts == OfKind(m.content, {"Text"})
        item(role, b) == Outgoing(role, <<b>>)
        output(b) == item("function_call_output", b)
        call(b) == item("function_call", b)
    IN CASE m.role = "System" -> <<>>
         [] m.role = "Tool" -> Each(results, output)
         [] m.role \in {"User", "Assistant"} /\ calls # <<>> ->
              Unless(texts, Outgoing(ChatRole(m), texts)) \o Each(calls, call)
         [] OTHER -> <<Outgoing(ChatRole(m), ContentValue(m.content))>>

\* instructions: the system texts, then those from the middle of the
\* conversation, whose place is lost.
Instructions(req) ==
    LET texts(m) == IF m.role = "System" THEN OfKind(m.content, {"Text"}) ELSE <<>>
    IN Flat(req.system, texts) \o Flat(req.messages, texts)

ResponsesBuild(req) ==
    Unless(Instructions(req), Outgoing("instructions", Instructions(req)))
        \o Flat(req.messages, InputItems)

-----------------------------------------------------------------------------
\* Anthropic Messages (anthropic::request::build).

RoleToAnthropic ==
    [User |-> "user", Assistant |-> "assistant", Tool |-> "user", System |-> "system"]

\* content_block_to_outgoing: Unsupported blocks are skipped.
AnthropicParts(content) == Portable(SelectSeq(content, LAMBDA b : b.kind # "Unsupported"))

\* build_system: one field; all its blocks when any is more than plain text.
AnthropicSystem(system) ==
    LET blocks(s) == AnthropicParts(s.content)
    IN Unless(Flat(system, blocks), Outgoing("system", Flat(system, blocks)))

AnthropicBuild(req) ==
    LET message(m) == Outgoing(RoleToAnthropic[m.role], AnthropicParts(m.content))
    IN AnthropicSystem(req.system) \o Each(req.messages, message)

-----------------------------------------------------------------------------
\* Gemini (gemini::request::build).

\* collect_tool_call_names: a function response names the function, not the
\* call; with no call of that id in the history the id stands in.
NamesById(req) ==
    LET calls(m) == OfKind(m.content, {"ToolCall"})
    IN {<<c.id, c.name>> : c \in ToSet(Flat(req.messages, calls))}

\* Mutant: a function response is named after the call's id.
FunctionNameIsId(req, id) == id

FunctionName(req, id) ==
    LET named == {p \in NamesById(req) : p[1] = id}
    IN IF named = {} THEN id ELSE (CHOOSE p \in named : TRUE)[2]

\* block_to_part: a call is sent without its id.
GeminiPart(req, b) ==
    CASE b.kind = "ToolResult" -> [b EXCEPT !.id = FunctionName(req, b.id)]
      [] b.kind = "ToolCall" -> ToolCall("none", b.name)
      [] OTHER -> b

RoleToGemini == [User |-> "user", Assistant |-> "model", Tool |-> "function"]

\* The blocks a Part has a field for.
GeminiParts(m) == OfKind(m.content, {"Text", "Image", "ToolCall", "ToolResult", "Reasoning"})

\* build_contents: system messages and messages without parts are skipped.
GeminiContents(req) ==
    LET parts(m) == GeminiParts(m)
        part(b) == GeminiPart(req, b)
        content(m) == IF m.role = "System" THEN <<>>
                      ELSE Unless(parts(m), Outgoing(RoleToGemini[m.role], Each(parts(m), part)))
    IN Flat(req.messages, content)

\* build_system_instruction: as for Responses, the place of a later one is lost.
SystemInstruction(req) ==
    Unless(Instructions(req), Outgoing("systemInstruction", Instructions(req)))

GeminiBuild(req) == SystemInstruction(req) \o GeminiContents(req)

-----------------------------------------------------------------------------
Build(upstream, req) ==
    CASE upstream \in {"openai_compatible", "deepseek", "glm"} -> ChatBuild(req)
      [] upstream = "responses" -> ResponsesBuild(req)
      [] upstream = "anthropic" -> AnthropicBuild(req)
      [] upstream = "gemini" -> GeminiBuild(req)

-----------------------------------------------------------------------------
\* Reasoning effort on each wire, as a number that grows with the effort.

\* effort_for_chat; xhigh only where the provider says it accepts it.
EffortForChat(effort, accepts_xhigh) ==
    IF Rank(effort) >= Rank("Xhigh")
    THEN Rank(IF accepts_xhigh THEN "Xhigh" ELSE "High") ELSE Rank(effort)

\* effort_wire_string: what the model advertises goes first.
EffortWire(effort, advertised, accepts_xhigh) ==
    LET clamped == ClampToAdvertised(effort, advertised)
    IN IF clamped # {} THEN Rank(CHOOSE e \in clamped : TRUE)
       ELSE EffortForChat(effort, accepts_xhigh)

\* The Responses API has no xhigh unless the model advertises it.
ResponsesEffort(effort, advertised) == EffortWire(effort, advertised, FALSE)

\* GLM: thinking is off or on, and on when nothing is asked for.
GlmThinking(efforts) == IF efforts = {"Minimal"} THEN 0 ELSE 1

\* anthropic build_reasoning_blocks: effort levels under the effort beta,
\* else a thinking budget.
AnthropicEffort(effort, effort_beta) ==
    IF effort_beta THEN Rank(IF effort = "Minimal" THEN "Low" ELSE effort)
    ELSE [Minimal |-> 128, Low |-> 512, Medium |-> 2048, High |-> 8192,
          Xhigh |-> 16384, Max |-> 16384][effort]

GeminiBudget(effort) ==
    [Minimal |-> 128, Low |-> 256, Medium |-> 1024, High |-> 4096,
     Xhigh |-> 16384, Max |-> 24576][effort]

BuildEffort(upstream, effort, advertised, flag) ==
    CASE upstream \in {"openai_compatible", "deepseek"} -> EffortWire(effort, advertised, flag)
      [] upstream = "responses" -> ResponsesEffort(effort, advertised)
      [] upstream = "glm" -> GlmThinking({effort})
      [] upstream = "anthropic" -> AnthropicEffort(effort, flag)
      [] upstream = "gemini" -> GeminiBudget(effort)

\* A token budget of the request's goes before the effort's, where the wire
\* has budgets; under the effort beta it only says that there is to be thinking.
BuildReasoning(upstream, efforts, budget, advertised, flag) ==
    IF upstream = "glm" THEN {GlmThinking(efforts)}
    ELSE IF budget # {} /\ (upstream = "gemini" \/ (upstream = "anthropic" /\ ~flag)) THEN budget
    ELSE LET default == IF upstream = "anthropic" /\ budget # {} THEN {"High"} ELSE {}
         IN {BuildEffort(upstream, e, advertised, flag) :
                e \in IF efforts = {} THEN default ELSE efforts}

-----------------------------------------------------------------------------
\* A tool choice on the wire: [type, name], the name that of a function.

OpenAiChoice(c) ==
    [type |-> [Auto |-> "auto", None |-> "none", Required |-> "required",
               Specific |-> "function"][c.kind],
     name |-> c.name]

\* build_tool_choice: auto is left out.
AnthropicToolChoice(c) ==
    IF c.kind = "Auto" THEN {}
    ELSE {[type |-> [None |-> "none", Required |-> "any", Specific |-> "tool"][c.kind],
           name |-> c.name]}

\* Chat sends a choice only with tools, Responses also counts built-in tools,
\* Anthropic sends any choice but auto, and Gemini sends none.
BuildToolChoice(upstream, asks) ==
    CASE upstream \in {"openai_compatible", "deepseek", "glm"} ->
            IF asks.tools THEN {OpenAiChoice(asks.tool_choice)} ELSE {}
      [] upstream = "responses" ->
            IF asks.tools \/ asks.builtin_tools THEN {OpenAiChoice(asks.tool_choice)} ELSE {}
      [] upstream = "anthropic" -> AnthropicToolChoice(asks.tool_choice)
      [] upstream = "gemini" -> {}
=============================================================================
