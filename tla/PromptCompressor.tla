-------------------------- MODULE PromptCompressor --------------------------
(***************************************************************************)
(* plugins/src/builtin/prompt_compressor: shortens a conversation before   *)
(* it is sent (H2).  Messages are cut only between groups, and a group     *)
(* starts at a message of role User.  A message is [role, calls, results,  *)
(* tokens], with the ids of the tool calls and results it carries; tokens  *)
(* counts only text and reasoning.                                         *)
(***************************************************************************)
EXTENDS Naturals, Sequences, FiniteSetsExt, SequencesExt

CONSTANT SummaryTokens   \* the size of a summary; no message has it

(* Mutant of Starts: every message begins a group.                         *)
StartsEverywhere(messages) == DOMAIN messages

(* group_boundaries: the first positions of the groups, in order.          *)
Starts(messages) == {i \in DOMAIN messages : i = 1 \/ messages[i].role = "User"}
group_boundaries(messages) == SetToSortSeq(Starts(messages), <)

From(messages, i) == SubSeq(messages, i, Len(messages))

(* count_messages_tokens                                                   *)
count_messages_tokens(messages) ==
    FoldLeft(LAMBDA sum, message : sum + message.tokens, 0, messages)

(* drop_old_turns                                                          *)
DropOldTurns(messages, keep) ==
    LET groups == group_boundaries(messages)
    IN  IF Len(groups) <= keep THEN messages
        ELSE From(messages, groups[Len(groups) - keep + 1])

(* truncate_to_tokens: groups are dropped from the oldest on until the     *)
(* rest fits or only `keep` are left.                                      *)
TruncateToTokens(messages, target, keep) ==
    LET groups == group_boundaries(messages)
        fits(n) == count_messages_tokens(From(messages, groups[n + 1])) <= target
        drops == 0..(Len(groups) - keep)
        enough == {n \in drops : fits(n)}
    IN  IF Len(groups) <= keep THEN messages
        ELSE From(messages, groups[IF enough = {} THEN Max(drops) + 1 ELSE Min(enough) + 1])

Summary == [role |-> "User", calls |-> {}, results |-> {}, tokens |-> SummaryTokens]

(* summarize_old_turns: what the summarizer answered decides; an error, a  *)
(* timeout or an empty text drops the old turns instead.                   *)
SummarizeOldTurns(messages, keep, answer) ==
    LET groups == group_boundaries(messages)
        kept == From(messages, groups[Len(groups) - keep + 1])
    IN  IF Len(groups) <= keep + 1 THEN messages
        ELSE IF answer = "summary" THEN <<Summary>> \o kept ELSE kept

(* on_decoded_request: the prompts a strategy can make of the messages.    *)
Prompts(strategy, messages) ==
    CASE strategy.type = "drop_old_turns" -> {DropOldTurns(messages, strategy.keep_last_n)}
      [] strategy.type = "truncate_to_tokens" ->
            {TruncateToTokens(messages, strategy.target_tokens, strategy.keep_last_n)}
      [] strategy.type = "summarize_old_turns" ->
            {SummarizeOldTurns(messages, strategy.keep_last_n, answer)
                : answer \in {"summary", "empty", "error", "timeout"}}
=============================================================================
