------------------------------- MODULE Retry -------------------------------
(***************************************************************************)
(* retry_with_policy: the calls made to one upstream for one chain         *)
(* element, with exponential backoff, jitter and a budget on the sum of    *)
(* the sleeps; and the classification of errors that decides between       *)
(* retrying and giving up. The millisecond counters are unsigned words of  *)
(* WordSize values (2^64 in the program; the release profile does not      *)
(* check additions for overflow, and a float too large for the word is     *)
(* cast to its greatest value).                                            *)
(***************************************************************************)
EXTENDS Naturals, Sequences

CONSTANTS Policies,  \* the validated retry policies of the routes
          Statuses,  \* upstream HTTP statuses
          WordSize   \* number of values of the counters' type

(* Config validation, rules 4 and 5; multipliers are whole numbers here.   *)
ASSUME PolicyAssumption ==
    \A p \in Policies :
        /\ p.maxAttempts \in Nat \ {0}
        /\ p.initial \in 0..(WordSize - 1)
        /\ p.multiplier \in Nat /\ p.multiplier > 1
        /\ p.jitter \in 0..100
        /\ p.budget \in p.initial..(WordSize - 1)
ASSUME WordAssumption == WordSize \in Nat \ {0} /\ Statuses \subseteq Nat

VARIABLES policy, attempt, pc,
          elapsed,  \* total_elapsed_ms
          backoff,  \* the sleep in progress
          errors,   \* history: the errors of the calls made
          slept,    \* history: the true sum of the sleeps
          result

vars == <<policy, attempt, pc, elapsed, backoff, errors, slept, result>>

(* ProviderError: the kind, and the status of an Upstream error.           *)
Error == [kind : {"Network", "Decode", "Encode", "CapabilityMismatch", "UnknownProvider"},
          status : {0}]
         \cup [kind : {"Upstream"}, status : Statuses]

TagOf == [Network |-> "network", Decode |-> "decode", Encode |-> "encode",
          CapabilityMismatch |-> "capability_mismatch", UnknownProvider |-> "unknown_provider"]

error_tag(e) ==
    IF e.kind # "Upstream" THEN TagOf[e.kind]
    ELSE IF e.status >= 500 THEN "upstream_5xx"
    ELSE IF e.status = 429 THEN "upstream_429"
    ELSE "upstream_4xx"

error_class_label(e) ==
    IF e.kind # "Upstream" THEN TagOf[e.kind]
    ELSE IF e.status = 429 THEN "upstream_429"
    ELSE IF e.status >= 500 THEN "upstream_5xx"
    ELSE "upstream_4xx"

(* fallback_eligibility: the built-in mapping.                             *)
EligibleByDefault(e) ==
    \/ e.kind = "Network"
    \/ e.kind = "Upstream" /\ (e.status >= 500 \/ e.status = 429)

(* fallback_eligibility_with_overrides: retry_on replaces the mapping.     *)
Eligible(e, retryOn) == error_tag(e) \in retryOn

(* Mutant of default_retry_on: rate limits are forgotten.                  *)
default_retry_on_5xx == {"network", "upstream_5xx"}

default_retry_on == {"network", "upstream_5xx", "upstream_429"}
-----------------------------------------------------------------------------
Saturate(x) == IF x >= WordSize THEN WordSize - 1 ELSE x

(* compute_backoff: every value the jitter can give, rounded to a          *)
(* millisecond, for the k-th attempt.                                      *)
Backoffs(p, k) ==
    LET base == p.initial * p.multiplier^(k - 1)
        Rounded(pct) == (base * pct + 50) \div 100
    IN  {Saturate(x) : x \in Rounded(100 - p.jitter)..Rounded(100 + p.jitter)}

Add(x, y) == (x + y) % WordSize

(* No backoff of a validated policy is so large that adding it to a total  *)
(* within the budget leaves the word.                                      *)
NoOverflow ==
    \A p \in Policies : \A k \in 1..p.maxAttempts : \A b \in Backoffs(p, k) :
        b \in Nat /\ p.budget + b < WordSize
-----------------------------------------------------------------------------
Init ==
    /\ policy \in Policies
    /\ attempt = 1 /\ pc = "call" /\ result = "none"
    /\ elapsed = 0 /\ backoff = 0 /\ slept = 0 /\ errors = << >>

Return(r) == pc' = "done" /\ result' = r

CallSucceeds ==
    /\ pc = "call"
    /\ Return("ok")
    /\ UNCHANGED <<policy, attempt, elapsed, backoff, errors, slept>>

(* Mutants of CallFails: the last attempt is counted one too late; the     *)
(* budget is compared before the next sleep is added; a terminal error is  *)
(* retried like any other.                                                 *)
CallFailsLate(e) ==
    /\ pc = "call"
    /\ errors' = Append(errors, e)
    /\ IF ~Eligible(e, policy.retryOn) THEN Return("terminal") /\ UNCHANGED backoff
       ELSE \E b \in Backoffs(policy, attempt) :
              IF attempt > policy.maxAttempts \/ Add(elapsed, b) > policy.budget
              THEN Return("exhausted") /\ UNCHANGED backoff
              ELSE pc' = "sleep" /\ backoff' = b /\ UNCHANGED result
    /\ UNCHANGED <<policy, attempt, elapsed, slept>>

CallFailsOverBudget(e) ==
    /\ pc = "call"
    /\ errors' = Append(errors, e)
    /\ IF ~Eligible(e, policy.retryOn) THEN Return("terminal") /\ UNCHANGED backoff
       ELSE \E b \in Backoffs(policy, attempt) :
              IF attempt >= policy.maxAttempts \/ elapsed > policy.budget
              THEN Return("exhausted") /\ UNCHANGED backoff
              ELSE pc' = "sleep" /\ backoff' = b /\ UNCHANGED result
    /\ UNCHANGED <<policy, attempt, elapsed, slept>>

CallFailsAlike(e) ==
    /\ pc = "call"
    /\ errors' = Append(errors, e)
    /\ \E b \in Backoffs(policy, attempt) :
          IF attempt >= policy.maxAttempts \/ Add(elapsed, b) > policy.budget
          THEN Return("exhausted") /\ UNCHANGED backoff
          ELSE pc' = "sleep" /\ backoff' = b /\ UNCHANGED result
    /\ UNCHANGED <<policy, attempt, elapsed, slept>>

(* complete() fails with e: give up at once on a terminal error, after the *)
(* last attempt, or when the next sleep would overrun the budget.          *)
CallFails(e) ==
    /\ pc = "call"
    /\ errors' = Append(errors, e)
    /\ \/ ~Eligible(e, policy.retryOn) /\ Return("terminal") /\ UNCHANGED backoff
       \/ /\ Eligible(e, policy.retryOn)
          /\ attempt >= policy.maxAttempts
          /\ Return("exhausted") /\ UNCHANGED backoff
       \/ /\ Eligible(e, policy.retryOn)
          /\ attempt < policy.maxAttempts
          /\ \E b \in Backoffs(policy, attempt) :
                IF Add(elapsed, b) > policy.budget
                THEN Return("exhausted") /\ UNCHANGED backoff
                ELSE pc' = "sleep" /\ backoff' = b /\ UNCHANGED result
    /\ UNCHANGED <<policy, attempt, elapsed, slept>>

(* Mutant of Wake: the timer is armed again.                               *)
WakeRearms == pc = "sleep" /\ UNCHANGED vars

Wake ==
    /\ pc = "sleep"
    /\ pc' = "call"
    /\ elapsed' = Add(elapsed, backoff)
    /\ slept' = slept + backoff
    /\ attempt' = attempt + 1
    /\ UNCHANGED <<policy, backoff, errors, result>>

Returned == pc = "done" /\ UNCHANGED vars

Next == CallSucceeds \/ (\E e \in Error : CallFails(e)) \/ Wake \/ Returned

Spec == Init /\ [][Next]_vars

(* The HTTP client's timeouts end every call; a timer ends every sleep.    *)
FairSpec == Spec /\ WF_vars(Next)
-----------------------------------------------------------------------------
(* Type correctness; the counters are words.                               *)
TypeOK ==
    /\ policy \in Policies
    /\ attempt \in Nat /\ slept \in Nat
    /\ elapsed \in 0..(WordSize - 1) /\ backoff \in 0..(WordSize - 1)
    /\ errors \in Seq(Error)
    /\ pc \in {"call", "sleep", "done"}
    /\ result \in {"none", "ok", "terminal", "exhausted"}

(* "Always within 1..=policy.max_attempts" (RetryOutcome::attempts): the   *)
(* attempt reported is the number of calls made, whatever ended the loop.  *)
AttemptsCounted ==
    /\ attempt \in 1..policy.maxAttempts
    /\ pc = "call" => attempt = Len(errors) + 1
    /\ pc = "done" => attempt = Len(errors) + (IF result = "ok" THEN 1 ELSE 0)

(* "total_budget_ms is a budget over accumulated backoff sleeps": the      *)
(* sleeps taken, the one in progress included, never exceed it.            *)
SleepsWithinBudget ==
    slept + (IF pc = "sleep" THEN backoff ELSE 0) <= policy.budget

(* Only errors that retry_on names were retried, what the loop reports     *)
(* agrees with the classification of the last one, by the tag that decides *)
(* and by the label that is logged, and a route that does not set retry_on *)
(* (default_retry_on) retries exactly what fallback_eligibility calls      *)
(* eligible.                                                               *)
OnlyEligibleRetried ==
    /\ \A i \in 1..Len(errors) :
         Eligible(errors[i], policy.retryOn) \/ (i = Len(errors) /\ result = "terminal")
    /\ result = "exhausted" => error_class_label(errors[Len(errors)]) \in policy.retryOn
    /\ policy.retryOn = default_retry_on =>
         \A i \in 1..Len(errors) :
             (i = Len(errors) /\ result = "terminal") <=> ~EligibleByDefault(errors[i])

(* The loop ends.                                                          *)
Terminates == <>(pc = "done")
=============================================================================
