--------------------------- MODULE Retry_proofs ---------------------------
(***************************************************************************)
(* The retry loop counts its attempts and retries only what it should, for *)
(* every set of validated policies. It keeps its budget for every set of   *)
(* them whose backoffs leave room in the counters' type: without that      *)
(* hypothesis the claim is false, since a backoff that saturates wraps the *)
(* sum around, passes the check and is slept.                              *)
(***************************************************************************)
EXTENDS Retry, TLAPS

(* What the program counter says about the counters: the elapsed total is  *)
(* the true sum of the sleeps, and a sleep in progress was paid for before *)
(* it was begun.                                                           *)
Accounts ==
    /\ elapsed = slept
    /\ slept <= policy.budget
    /\ pc = "call" => attempt = Len(errors) + 1
    /\ pc = "sleep" => /\ attempt = Len(errors) /\ attempt < policy.maxAttempts
                       /\ slept + backoff <= policy.budget
    /\ pc = "done" => attempt = Len(errors) + (IF result = "ok" THEN 1 ELSE 0)
    /\ attempt \in 1..policy.maxAttempts

Inv == TypeOK /\ Accounts

(* Adding a backoff of the policy to a total within its budget does not    *)
(* wrap.                                                                   *)
LEMMA AddExact ==
    ASSUME NoOverflow, NEW p \in Policies, NEW k \in 1..p.maxAttempts,
           NEW b \in Backoffs(p, k), NEW x \in Nat, x <= p.budget
    PROVE  b \in Nat /\ Add(x, b) = x + b /\ x + b < WordSize
<1>1. b \in Nat /\ p.budget + b < WordSize  BY DEF NoOverflow
<1>2. p.budget \in Nat /\ WordSize \in Nat  BY PolicyAssumption, WordAssumption
<1>3. x + b < WordSize  BY <1>1, <1>2
<1>4. (x + b) % WordSize = x + b  BY <1>1, <1>2, <1>3
<1> QED  BY <1>1, <1>3, <1>4 DEF Add

LEMMA InitInv == Init => Inv
<1> SUFFICES ASSUME Init PROVE Inv  OBVIOUS
<1>1. policy.maxAttempts \in Nat \ {0} /\ policy.initial \in 0..(WordSize - 1)
      /\ policy.budget \in policy.initial..(WordSize - 1)
  BY PolicyAssumption DEF Init
<1>2. errors \in Seq(Error) /\ Len(errors) = 0  BY DEF Init
<1> QED  BY <1>1, <1>2, WordAssumption DEF Init, Inv, TypeOK, Accounts

LEMMA FailStep ==
    ASSUME NoOverflow, Inv, NEW e \in Error, CallFails(e)
    PROVE  Inv'
<1>0. policy \in Policies /\ attempt \in Nat /\ slept \in Nat /\ elapsed \in 0..(WordSize - 1)
      /\ backoff \in 0..(WordSize - 1) /\ errors \in Seq(Error)
  BY DEF Inv, TypeOK
<1>1. policy.maxAttempts \in Nat \ {0} /\ policy.budget \in Nat /\ WordSize \in Nat \ {0}
  BY <1>0, PolicyAssumption, WordAssumption
<1>2. elapsed = slept /\ slept <= policy.budget /\ attempt = Len(errors) + 1
      /\ attempt \in 1..policy.maxAttempts /\ result \in {"none", "ok", "terminal", "exhausted"}
  BY DEF Inv, TypeOK, Accounts, CallFails
<1>3. errors' \in Seq(Error) /\ Len(errors') = Len(errors) + 1 /\ Len(errors) \in Nat
  BY <1>0 DEF CallFails
<1>4. policy' = policy /\ attempt' = attempt /\ elapsed' = elapsed /\ slept' = slept
  BY DEF CallFails
<1>5. CASE /\ pc' = "done" /\ result' \in {"terminal", "exhausted"} /\ backoff' = backoff
  BY <1>0, <1>1, <1>2, <1>3, <1>4, <1>5 DEF Inv, TypeOK, Accounts
<1>6. CASE \E b \in Backoffs(policy, attempt) :
              /\ attempt < policy.maxAttempts /\ Add(elapsed, b) <= policy.budget
              /\ pc' = "sleep" /\ backoff' = b /\ result' = result
  <2>1. PICK b \in Backoffs(policy, attempt) :
              /\ attempt < policy.maxAttempts /\ Add(elapsed, b) <= policy.budget
              /\ pc' = "sleep" /\ backoff' = b /\ result' = result
    BY <1>6
  <2>2. b \in Nat /\ Add(elapsed, b) = elapsed + b /\ elapsed + b < WordSize
    BY <1>0, <1>2, AddExact
  <2> QED  BY <1>0, <1>1, <1>2, <1>3, <1>4, <2>1, <2>2 DEF Inv, TypeOK, Accounts
<1>7. ASSUME NEW b \in Backoffs(policy, attempt)
      PROVE  Add(elapsed, b) \in Nat
  BY <1>0, <1>2, AddExact
<1>8. \/ /\ pc' = "done" /\ result' \in {"terminal", "exhausted"} /\ backoff' = backoff
      \/ \E b \in Backoffs(policy, attempt) :
              /\ attempt < policy.maxAttempts /\ ~(Add(elapsed, b) > policy.budget)
              /\ pc' = "sleep" /\ backoff' = b /\ result' = result
  BY DEF CallFails, Return
<1> QED  BY <1>1, <1>5, <1>6, <1>7, <1>8

LEMMA WakeStep ==
    ASSUME NoOverflow, Inv, Wake
    PROVE  Inv'
<1>0. policy \in Policies /\ attempt \in Nat /\ slept \in Nat /\ elapsed \in 0..(WordSize - 1)
      /\ backoff \in 0..(WordSize - 1) /\ errors \in Seq(Error)
  BY DEF Inv, TypeOK
<1>1. policy.maxAttempts \in Nat \ {0} /\ policy.budget \in Nat /\ WordSize \in Nat \ {0}
      /\ policy.budget < WordSize
  BY <1>0, PolicyAssumption, WordAssumption
<1>2. elapsed = slept /\ slept + backoff <= policy.budget /\ attempt = Len(errors)
      /\ attempt < policy.maxAttempts /\ attempt \in 1..policy.maxAttempts
  BY DEF Inv, Accounts, Wake
<1>3. elapsed + backoff < WordSize  BY <1>0, <1>1, <1>2
<1>4. (elapsed + backoff) % WordSize = elapsed + backoff  BY <1>0, <1>1, <1>3
<1>5. elapsed' = elapsed + backoff  BY <1>4 DEF Wake, Add
<1> QED  BY <1>0, <1>1, <1>2, <1>3, <1>5 DEF Inv, TypeOK, Accounts, Wake

LEMMA SucceedStep ==
    ASSUME Inv, CallSucceeds
    PROVE  Inv'
<1>0. policy \in Policies /\ errors \in Seq(Error)  BY DEF Inv, TypeOK
<1>1. Len(errors) \in Nat  BY <1>0
<1> QED  BY <1>0, <1>1 DEF Inv, TypeOK, Accounts, CallSucceeds, Return

LEMMA NextInv == ASSUME NoOverflow, Inv, [Next]_vars PROVE Inv'
<1>1. CASE \E e \in Error : CallFails(e)  BY <1>1, FailStep
<1>2. CASE UNCHANGED vars  BY <1>2 DEF vars, Inv, TypeOK, Accounts
<1> QED  BY <1>1, <1>2, SucceedStep, WakeStep DEF Next, Returned

(* The invariant of the loop, for every set of policies that leaves room   *)
(* in the word (retry.rs:108-177).                                         *)
THEOREM Invariance == ASSUME NoOverflow PROVE Spec => []Inv
<1>1. Inv /\ [Next]_vars => Inv'  BY NextInv
<1> QED  BY InitInv, <1>1, PTL DEF Spec

(* Type correctness of the loop: the counters stay within their word.      *)
THEOREM TypeCorrect == ASSUME NoOverflow PROVE Spec => []TypeOK
<1>1. Inv => TypeOK  BY DEF Inv
<1> QED  BY Invariance, <1>1, PTL

(* The sleeps never exceed total_budget_ms, however many attempts and      *)
(* whatever the jitter gives.                                              *)
THEOREM BudgetKept == ASSUME NoOverflow PROVE Spec => []SleepsWithinBudget
<1>1. Inv => SleepsWithinBudget
  <2> SUFFICES ASSUME Inv PROVE SleepsWithinBudget  OBVIOUS
  <2>1. slept \in Nat /\ slept <= policy.budget /\ (pc = "sleep" => slept + backoff <= policy.budget)
    BY DEF Inv, TypeOK, Accounts
  <2> QED  BY <2>1 DEF SleepsWithinBudget
<1> QED  BY Invariance, <1>1, PTL

-----------------------------------------------------------------------------
(* What the program counter says of the attempt. Nothing here depends on   *)
(* the sums of the sleeps: a wrapped total changes when the loop gives up, *)
(* never how it counts.                                                    *)
Counted ==
    /\ policy \in Policies /\ errors \in Seq(Error)
    /\ attempt \in 1..policy.maxAttempts
    /\ pc \in {"call", "sleep", "done"}
    /\ pc = "call" => attempt = Len(errors) + 1
    /\ pc = "sleep" => attempt = Len(errors) /\ attempt < policy.maxAttempts
    /\ pc = "done" => attempt = Len(errors) + (IF result = "ok" THEN 1 ELSE 0)

LEMMA CountedFail ==
    ASSUME Counted, NEW e \in Error, CallFails(e)
    PROVE  Counted'
<1>1. /\ policy \in Policies /\ errors \in Seq(Error) /\ Len(errors) \in Nat
      /\ attempt \in 1..policy.maxAttempts /\ attempt = Len(errors) + 1
  BY DEF Counted, CallFails
<1>2. policy.maxAttempts \in Nat  BY <1>1, PolicyAssumption
<1>3. errors' \in Seq(Error) /\ Len(errors') = Len(errors) + 1
  BY <1>1 DEF CallFails
<1>4. policy' = policy /\ attempt' = attempt  BY DEF CallFails
<1>5. \/ pc' = "done" /\ result' \in {"terminal", "exhausted"}
      \/ pc' = "sleep" /\ ~(attempt >= policy.maxAttempts)
  BY <1>1, <1>2 DEF CallFails, Return
<1> QED  BY <1>1, <1>2, <1>3, <1>4, <1>5 DEF Counted

LEMMA CountedStep == Counted /\ [Next]_vars => Counted'
<1> SUFFICES ASSUME Counted, [Next]_vars PROVE Counted'  OBVIOUS
<1>0. /\ policy \in Policies /\ errors \in Seq(Error) /\ Len(errors) \in Nat
      /\ policy.maxAttempts \in Nat
  BY PolicyAssumption DEF Counted
<1>1. CASE \E e \in Error : CallFails(e)  BY <1>1, CountedFail
<1>2. CASE CallSucceeds  BY <1>0, <1>2 DEF Counted, CallSucceeds, Return
<1>3. CASE Wake  BY <1>0, <1>3 DEF Counted, Wake
<1>4. CASE UNCHANGED vars  BY <1>4 DEF Counted, vars
<1> QED  BY <1>1, <1>2, <1>3, <1>4 DEF Next, Returned

(* RetryOutcome::attempts is the number of calls made and lies within      *)
(* 1..max_attempts at every exit: for every set of validated policies,     *)
(* those whose backoffs overflow the counters included.                    *)
THEOREM AttemptsExact == Spec => []AttemptsCounted
<1>1. Init => Counted
  <2> SUFFICES ASSUME Init PROVE Counted  OBVIOUS
  <2>1. errors \in Seq(Error) /\ Len(errors) = 0  BY DEF Init
  <2>2. policy \in Policies /\ policy.maxAttempts \in Nat \ {0}
    BY PolicyAssumption DEF Init
  <2> QED  BY <2>1, <2>2 DEF Init, Counted
<1>2. Counted => AttemptsCounted  BY DEF Counted, AttemptsCounted
<1> QED  BY <1>1, <1>2, CountedStep, PTL DEF Spec
-----------------------------------------------------------------------------
(* The two classifications of an error, the tag that decides (retry.rs)    *)
(* and the label that is logged, are one; and a tag of the default set is  *)
(* what the built-in mapping calls eligible.                               *)
LEMMA TagIsLabel == ASSUME NEW e \in Error PROVE error_class_label(e) = error_tag(e)
<1>1. CASE e.kind = "Upstream"
  <2>1. e.status \in Nat  BY <1>1, WordAssumption DEF Error
  <2> QED  BY <1>1, <2>1 DEF error_class_label, error_tag
<1>2. CASE e.kind # "Upstream"  BY <1>2 DEF error_class_label, error_tag
<1> QED  BY <1>1, <1>2

LEMMA DefaultsAgree ==
    ASSUME NEW e \in Error PROVE Eligible(e, default_retry_on) <=> EligibleByDefault(e)
<1>1. CASE e.kind = "Upstream"
  BY <1>1 DEF Eligible, error_tag, default_retry_on, EligibleByDefault
<1>2. CASE e.kind # "Upstream"
  <2>1. e.kind \in {"Network", "Decode", "Encode", "CapabilityMismatch", "UnknownProvider"}
    BY <1>2 DEF Error
  <2> QED  BY <1>2, <2>1 DEF Eligible, error_tag, TagOf, default_retry_on, EligibleByDefault
<1> QED  BY <1>1, <1>2

(* What the result says of the errors so far: all but a last, terminal one *)
(* were eligible. Nothing here depends on the counters.                    *)
Classified ==
    /\ errors \in Seq(Error)
    /\ pc # "done" => result = "none"
    /\ result = "terminal" => Len(errors) > 0 /\ ~Eligible(errors[Len(errors)], policy.retryOn)
    /\ result = "exhausted" => Len(errors) > 0
    /\ \A i \in 1..Len(errors) :
          Eligible(errors[i], policy.retryOn) \/ (i = Len(errors) /\ result = "terminal")

LEMMA ClassifiedFail ==
    ASSUME Classified, NEW e \in Error, CallFails(e)
    PROVE  Classified'
<1> DEFINE n == Len(errors)
<1>1. errors \in Seq(Error) /\ n \in Nat /\ result = "none"
  BY DEF Classified, CallFails
<1>2. /\ errors' \in Seq(Error) /\ Len(errors') = n + 1 /\ errors'[n + 1] = e
      /\ \A i \in 1..n : errors'[i] = errors[i]
  BY <1>1 DEF CallFails
<1>3. \A i \in 1..n : Eligible(errors[i], policy.retryOn)  BY <1>1 DEF Classified
<1>4. policy' = policy  BY DEF CallFails
<1>5. \A i \in 1..n : Eligible(errors'[i], policy'.retryOn)  BY <1>2, <1>3, <1>4
<1>6. \A i \in 1..Len(errors') : i \in 1..n \/ i = n + 1  BY <1>1, <1>2
<1>7. CASE ~Eligible(e, policy.retryOn) /\ pc' = "done" /\ result' = "terminal"
  BY <1>1, <1>2, <1>4, <1>5, <1>6, <1>7 DEF Classified
<1>8. CASE /\ Eligible(e, policy.retryOn)
           /\ (pc' = "done" /\ result' = "exhausted") \/ result' = result
  BY <1>1, <1>2, <1>4, <1>5, <1>6, <1>8 DEF Classified
<1> QED  BY <1>7, <1>8 DEF CallFails, Return

LEMMA ClassifiedStep == Classified /\ [Next]_vars => Classified'
<1> SUFFICES ASSUME Classified, [Next]_vars PROVE Classified'  OBVIOUS
<1>1. CASE \E e \in Error : CallFails(e)  BY <1>1, ClassifiedFail
<1>2. CASE CallSucceeds  BY <1>2 DEF Classified, CallSucceeds, Return
<1>3. CASE Wake  BY <1>3 DEF Classified, Wake
<1>4. CASE UNCHANGED vars  BY <1>4 DEF Classified, vars
<1> QED  BY <1>1, <1>2, <1>3, <1>4 DEF Next, Returned

(* Only eligible errors are retried, and the result names the last one for *)
(* what it was (retry.rs, fallback.rs): for every set of policies, those   *)
(* whose backoffs overflow the counters included.                          *)
THEOREM RetriesEligible == Spec => []OnlyEligibleRetried
<1>1. Init => Classified
  <2> SUFFICES ASSUME Init PROVE Classified  OBVIOUS
  <2>1. errors \in Seq(Error) /\ Len(errors) = 0  BY DEF Init
  <2> QED  BY <2>1 DEF Init, Classified
<1>2. Classified => OnlyEligibleRetried
  <2> SUFFICES ASSUME Classified PROVE OnlyEligibleRetried  OBVIOUS
  <2>1. errors \in Seq(Error) /\ Len(errors) \in Nat
        /\ \A i \in 1..Len(errors) : errors[i] \in Error
    BY DEF Classified
  <2>2. result = "exhausted" => error_class_label(errors[Len(errors)]) \in policy.retryOn
    <3> SUFFICES ASSUME result = "exhausted"
                 PROVE  error_class_label(errors[Len(errors)]) \in policy.retryOn
      OBVIOUS
    <3>1. Len(errors) \in 1..Len(errors) /\ Eligible(errors[Len(errors)], policy.retryOn)
      BY <2>1 DEF Classified
    <3> QED  BY <2>1, <3>1, TagIsLabel DEF Eligible
  <2>3. ASSUME policy.retryOn = default_retry_on, NEW i \in 1..Len(errors)
        PROVE  (i = Len(errors) /\ result = "terminal") <=> ~EligibleByDefault(errors[i])
    <3>1. Eligible(errors[i], policy.retryOn) <=> EligibleByDefault(errors[i])
      BY <2>1, <2>3, DefaultsAgree
    <3> QED  BY <3>1 DEF Classified
  <2> QED  BY <2>2, <2>3 DEF Classified, OnlyEligibleRetried
<1> QED  BY <1>1, <1>2, ClassifiedStep, PTL DEF Spec
=============================================================================
