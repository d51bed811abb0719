--------------------------- MODULE MCConversation ---------------------------
(* Every client dialect with every upstream; the options are a few requests *)
(* that differ in effort, policy, advertised efforts and tool choice.       *)
EXTENDS Conversation

\* What a Copilot model may advertise; ws: is a transport of its own.
ChatOnly == {{"/chat/completions"}}
ResponsesOnly == {{"/responses", "ws:/responses"}}
Either == {{"/responses", "/chat/completions"}}
Sockets == {{"ws:/responses"}}

\* The upstreams that share the chat wire differ only in the effort.
Plain == {"anthropic", "chat", "responses"}
            \X {"openai_compatible", "deepseek", "glm", "anthropic", "gemini"} \X {{}}

\* Not with ResponsesOnly: over the Responses API the tool results of an
\* Anthropic client are lost (see the README).
MCPairs ==
    Plain \cup {<<"anthropic", "github_copilot", Either>>,
               <<"chat", "github_copilot", {}>>, <<"chat", "github_copilot", ResponsesOnly>>,
               <<"responses", "github_copilot", {}>>, <<"responses", "github_copilot", ChatOnly>>,
               <<"responses", "github_copilot", Sockets>>}

\* Efforts above and below what is advertised, words that mean nothing, the
\* effort beta from the client, from the route, and overruled; each dialect
\* has the tool choices it can write.
MCOptions ==
    LET policy == [default |-> {"Medium"}, mapping |-> <<[match |-> "Max", set |-> "Xhigh"]>>,
                   beta |-> {{"effort-2025-11-24"}}]
        choice(type) == [type |-> type, name |-> IF type \in {"tool", "function"} THEN "g" ELSE ""]
    IN {Nothing}
       \cup {[Nothing EXCEPT !.effort = {"low"}, !.advertised = {"medium", "high"}, !.tools = TRUE,
                             !.choice = choice(t)] : t \in {"any", "required"}}
       \cup {[Nothing EXCEPT !.effort = {"high"}, !.advertised = {"low", "default", "max"},
                             !.builtin = TRUE, !.choice = choice("required")],
             [Nothing EXCEPT !.effort = {"max"}, !.policy = policy, !.advertised = {"turbo"},
                             !.tools = TRUE, !.choice = choice("none")],
             [Nothing EXCEPT !.effort = {"extra_high"}, !.policy = policy, !.beta = {{"context-1m"}}]}
       \cup {[Nothing EXCEPT !.effort = {"none"}, !.beta = {{"context-1m", "effort-2025-11-24"}},
                             !.tools = TRUE, !.choice = choice(t)] : t \in {"tool", "function"}}
       \cup {[Nothing EXCEPT !.effort = {"ultra"}, !.policy = policy, !.tools = TRUE,
                             !.choice = choice(t)] : t \in {"auto", "sometimes"}}
=============================================================================
