----------------------------- MODULE MCTextPath -----------------------------
(***************************************************************************)
(* TextPath with a window of four bytes of which two are kept, one rule    *)
(* ("ab" becomes "#"), and answers of two or three parts with quotes,      *)
(* backslashes, braces and a two-byte character (e1 e2) in their strings,  *)
(* some of them malformed.                                                 *)
(***************************************************************************)
EXTENDS TextPath

MCRules == <<[pattern |-> <<"a", "b">>, replacement |-> "#"]>>

Text(s) == [kind |-> "TextDelta", text |-> s]
Thought(s) == [kind |-> "ReasoningDelta", text |-> s]

Strings == {<<"a">>, <<"b">>, <<"a", "b">>, <<"b", "a">>, <<"e1", "e2">>,
            <<"a", "e1", "e2">>, <<"e1", "e2", "a", "b">>}
Tricky == {<<"backslash">>, <<"quote", "}">>, <<"{", "backslash">>, <<"backslash", "quote">>}

MCAnswers ==
    {<<Text(s), Text(t), Text(u)>> : s, t \in Strings, u \in {<<"b">>, <<"a", "b">>}}
    \cup {<<Thought(s), Text(t), Thought(u)>> : s, t \in {<<"a">>, <<"b", "a">>},
                                                u \in {<<"b">>, <<"a", "b">>}}
    \cup {<<Thought(s), Text(t)>> : s, t \in Tricky}
    \cup {<<[kind |-> kind, text |-> <<"a">>], Text(<<"b">>)>>
              : kind \in {"Stray", "Unreadable", "Preamble"}}

Message(role, calls, results, tokens) ==
    [role |-> role, calls |-> calls, results |-> results, tokens |-> tokens]
Plain(n) == <<Message("User", {}, {}, n), Message("Assistant", {}, {}, 1)>>
WithTool(id) ==
    <<Message("User", {}, {}, 1), Message("Assistant", {id}, {}, 0), Message("Tool", {}, {id}, 0),
      Message("Assistant", {}, {}, 2)>>
Asking == <<Message("User", {}, {}, 1)>>

Turns == {Plain(1), Plain(4), WithTool("x")}
MCConversations ==
    {Asking, Tail(Plain(1)) \o Asking} \cup {s \o Asking : s \in Turns}
    \cup {s \o t \o Asking : s, t \in Turns} \cup {s \o WithTool("y") \o t : s, t \in Turns}

MCStrategies ==
    {[type |-> "drop_old_turns", keep_last_n |-> k] : k \in 1..2}
    \cup {[type |-> "truncate_to_tokens", keep_last_n |-> 1, target_tokens |-> n] : n \in {2, 5}}
    \cup {[type |-> "summarize_old_turns", keep_last_n |-> 1]}

(* Bodies with the model in any place among members that could be taken    *)
(* for it, or for the end of a value.                                      *)
Quote(s) == <<"quote">> \o s \o <<"quote">>
Values ==
    {Quote(<<"m">>), Quote(<<"backslash", "quote", ",">>), Quote(<<"backslash", "backslash">>),
     <<"{">> \o Quote(<<"m">>) \o <<":">> \o Quote(<<"a">>) \o <<"}">>,
     <<"{">> \o Quote(<<"}", "m">>) \o <<":", "{", "}", "}">>,
     <<"[">> \o Quote(<<"]">>) \o <<",", "[", "]", "]">>,
     <<"t", "r", "u", "e">>, <<"f", "a", "l", "s", "e">>, <<"1", "1">>}
Field(key, value) == [key |-> key, value |-> value]
Others == {Field(key, value) : key \in {<<"a">>, <<"backslash", "quote", "m">>}, value \in Values}
Model == Field(<<"m">>, Quote(<<"a">>))
MCMembers == {<<Model, x>> : x \in Others} \cup {<<x, y, Model>> : x, y \in Others}
MCUpstreamModels == {<<"u">>, <<"u", "quote">>}

(* Every conversation under every strategy with one answer, every answer   *)
(* after one conversation, and every body passed through.                  *)
Request(c, s, a, ms) == [messages |-> c, strategy |-> s, answer |-> a, members |-> ms]
LastTurn == [type |-> "drop_old_turns", keep_last_n |-> 1]
MCRequests ==
    {Request(c, s, <<Text(<<"a">>)>>, << >>) : c \in MCConversations, s \in MCStrategies}
    \cup {Request(Asking, LastTurn, a, << >>) : a \in MCAnswers}
    \cup {Request(Asking, LastTurn, << >>, ms) : ms \in MCMembers}
=============================================================================
