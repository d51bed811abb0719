----------------------- MODULE CircuitBreaker_proofs -----------------------
(***************************************************************************)
(* Proofs about one circuit breaker, for any callers, any policies and any *)
(* number of samples: its types, that its deque is ordered, that it cannot *)
(* be wedged half open, and that front eviction keeps exactly the window.  *)
(***************************************************************************)
EXTENDS CircuitBreaker, TLAPS, SequenceTheorems, WellFoundedInduction

-----------------------------------------------------------------------------
(* What `record` returns, for every breaker and policy.                    *)

(* A set of indices that is not empty has a least element: what the        *)
(* eviction loop stops at exists.                                          *)
LEMMA LeastIndex ==
    ASSUME NEW T, T \subseteq Nat, T # {}
    PROVE  \E i \in T : \A j \in T : i <= j
<1>1. PICK i \in T : \A j \in T : ~(<<j, i>> \in OpToRel(<, Nat))
  BY NatLessThanWellFounded, WFMin, Zenon
<1>2. \A j \in T : ~(j < i)
  BY <1>1 DEF OpToRel
<1>. QED  BY <1>2

(* What the eviction loop of `record` leaves: the suffix that starts at    *)
(* the first sample inside the window; everything before it is expired.    *)
LEMMA EvictIsSuffix ==
    ASSUME NEW s \in Seq(Sample), NEW now \in Nat, NEW p \in Policy
    PROVE  \E first \in 1..(Len(s) + 1) :
              /\ Evict(s, now, p) \in Seq(Sample)
              /\ Len(Evict(s, now, p)) = Len(s) + 1 - first
              /\ \A i \in 1..(Len(s) + 1 - first) :
                    Evict(s, now, p)[i] = s[first + i - 1]
              /\ \A i \in 1..(first - 1) : Expired(s[i], now, p)
              /\ first <= Len(s) => ~Expired(s[first], now, p)
<1>. DEFINE live == {i \in 1..Len(s) : ~Expired(s[i], now, p)}
<1>. Len(s) \in Nat  OBVIOUS
<1>1. CASE live = {}
  <2>1. Evict(s, now, p) = << >>  BY <1>1 DEF Evict
  <2>2. << >> \in Seq(Sample) /\ Len(<< >>) = 0  OBVIOUS
  <2>. QED  BY <1>1, <2>1, <2>2
<1>2. CASE live # {}
  <2>. DEFINE first == CHOOSE i \in live : \A j \in live : i <= j
  <2>1. live \subseteq Nat  OBVIOUS
  <2>2. \E i \in live : \A j \in live : i <= j  BY <1>2, <2>1, LeastIndex
  <2>3. first \in live /\ \A j \in live : first <= j  BY <2>2
  <2>4. Evict(s, now, p) = SubSeq(s, first, Len(s))  BY <1>2 DEF Evict
  <2>. HIDE DEF first
  <2>5. first \in 1..Len(s) /\ ~Expired(s[first], now, p)  BY <2>3
  <2>6. \A i \in 1..(first - 1) : Expired(s[i], now, p)  BY <2>3, <2>5
  <2>7. \A i \in first..Len(s) : s[i] \in Sample  BY <2>5
  <2>8. /\ SubSeq(s, first, Len(s)) \in Seq(Sample)
        /\ Len(SubSeq(s, first, Len(s))) = Len(s) - first + 1
        /\ \A i \in 1..(Len(s) - first + 1) :
              SubSeq(s, first, Len(s))[i] = s[first + i - 1]
    BY <2>5, <2>7, SubSeqProperties
  <2>. QED  BY <2>4, <2>5, <2>6, <2>8
<1>. QED  BY <1>1, <1>2

(* The samples after `record` appended one, in terms of the ones before.   *)
LEMMA ObserveShape ==
    ASSUME NEW s \in Seq(Sample), NEW now \in Nat, NEW p \in Policy, NEW ok \in BOOLEAN
    PROVE  \E first \in 1..(Len(s) + 1) :
              /\ Observe(s, ok, now, p) \in Seq(Sample)
              /\ Len(Observe(s, ok, now, p)) = Len(s) + 2 - first
              /\ \A i \in 1..(Len(s) + 1 - first) :
                    Observe(s, ok, now, p)[i] = s[first + i - 1]
              /\ Observe(s, ok, now, p)[Len(s) + 2 - first] = [at |-> now, ok |-> ok]
              /\ \A i \in 1..(first - 1) : Expired(s[i], now, p)
              /\ first <= Len(s) => ~Expired(s[first], now, p)
<1>. DEFINE e == Evict(s, now, p)
            x == [at |-> now, ok |-> ok]
<1>1. PICK first \in 1..(Len(s) + 1) :
              /\ e \in Seq(Sample)
              /\ Len(e) = Len(s) + 1 - first
              /\ \A i \in 1..(Len(s) + 1 - first) : e[i] = s[first + i - 1]
              /\ \A i \in 1..(first - 1) : Expired(s[i], now, p)
              /\ first <= Len(s) => ~Expired(s[first], now, p)
  BY EvictIsSuffix
<1>2. x \in Sample  BY DEF Sample
<1>3. Observe(s, ok, now, p) = Append(e, x)  BY DEF Observe
<1>. HIDE DEF e, x
<1>4. /\ Append(e, x) \in Seq(Sample)
      /\ Len(Append(e, x)) = Len(e) + 1
      /\ \A i \in 1..Len(e) : Append(e, x)[i] = e[i]
      /\ Append(e, x)[Len(e) + 1] = x
  BY <1>1, <1>2, AppendProperties
<1>5. Len(s) \in Nat /\ first \in Nat  BY <1>1
<1>6. x = [at |-> now, ok |-> ok]  BY DEF x
<1>. QED  BY <1>1, <1>3, <1>4, <1>5, <1>6

(* `record` returns a breaker.                                             *)
LEMMA RecordType ==
    ASSUME NEW b \in Breaker, NEW now \in Nat, NEW p \in Policy, NEW ok \in BOOLEAN
    PROVE  Record(b, ok, now, p) \in Breaker
<1>1. b.samples \in Seq(Sample) /\ b.openSince \in Nat \cup {NotOpen} /\ b.probe \in BOOLEAN
  BY DEF Breaker
<1>2. Observe(b.samples, ok, now, p) \in Seq(Sample)
  BY <1>1, ObserveShape
<1>3. <<[at |-> now, ok |-> TRUE]>> \in Seq(Sample)
  BY DEF Sample
<1>. HIDE DEF NotOpen
<1>4. CASE IsOpen(b) /\ ok
  BY <1>3, <1>4 DEF Record, Breaker
<1>5. CASE IsOpen(b) /\ ~ok
  BY <1>1, <1>2, <1>5 DEF Record, Breaker
<1>6. CASE ~IsOpen(b)
  BY <1>1, <1>2, <1>6 DEF Record, Breaker
<1>. QED  BY <1>4, <1>5, <1>6

(* Samples recorded under the breaker's lock stay in the order of time:    *)
(* a suffix of an ordered deque, followed by the latest instant.           *)
LEMMA ObserveOrdered ==
    ASSUME NEW s \in Seq(Sample), NEW now \in Nat, NEW p \in Policy, NEW ok \in BOOLEAN,
           \A i \in 1..Len(s) : /\ s[i].at <= now
                                /\ \A j \in i..Len(s) : s[i].at <= s[j].at
    PROVE  LET o == Observe(s, ok, now, p)
           IN  \A i \in 1..Len(o) : /\ o[i].at <= now
                                    /\ \A j \in i..Len(o) : o[i].at <= o[j].at
<1>. DEFINE o == Observe(s, ok, now, p)
<1>0. \A i \in 1..Len(s) : s[i] \in Sample
  OBVIOUS
<1>1. \A i \in 1..Len(s) : s[i].at \in Nat
  BY <1>0, Zenon DEF Sample
<1>2. PICK first \in 1..(Len(s) + 1) :
              /\ o \in Seq(Sample)
              /\ Len(o) = Len(s) + 2 - first
              /\ \A i \in 1..(Len(s) + 1 - first) : o[i] = s[first + i - 1]
              /\ o[Len(s) + 2 - first] = [at |-> now, ok |-> ok]
              /\ \A i \in 1..(first - 1) : Expired(s[i], now, p)
              /\ first <= Len(s) => ~Expired(s[first], now, p)
  BY ObserveShape
<1>. HIDE DEF o
<1>l. Len(s) \in Nat /\ first \in Nat /\ Len(o) = Len(s) + 2 - first
  BY <1>2
<1>3. \A i \in 1..Len(o) : o[i].at <= now
  <2>. SUFFICES ASSUME NEW i \in 1..Len(o) PROVE o[i].at <= now  OBVIOUS
  <2>1. CASE i = Len(o)  BY <1>2, <2>1
  <2>2. CASE i # Len(o)  BY <1>1, <1>2, <2>2
  <2>. QED  BY <2>1, <2>2
<1>4. \A i \in 1..Len(o) : \A j \in i..Len(o) : o[i].at <= o[j].at
  <2>. SUFFICES ASSUME NEW i \in 1..Len(o), NEW j \in i..Len(o)
                PROVE  o[i].at <= o[j].at
    OBVIOUS
  <2>1. CASE j = Len(o)
    BY <1>2, <1>3, <2>1
  <2>2. CASE j # Len(o)
    <3>1. i \in 1..(Len(s) + 1 - first) /\ j \in 1..(Len(s) + 1 - first) /\ i <= j
      BY <1>l, <2>2
    <3>2. o[i] = s[first + i - 1] /\ o[j] = s[first + j - 1]
      BY <1>2, <3>1
    <3>3. first + i - 1 \in 1..Len(s) /\ first + j - 1 \in (first + i - 1)..Len(s)
      BY <3>1
    <3>. QED  BY <3>2, <3>3
  <2>. QED  BY <2>1, <2>2
<1>. QED  BY <1>3, <1>4 DEF o

(* On an ordered deque, front eviction drops the expired samples and no    *)
(* other.                                                                  *)
LEMMA ObserveKeepsWindow ==
    ASSUME NEW s \in Seq(Sample), NEW now \in Nat, NEW p \in Policy, NEW ok \in BOOLEAN,
           \A i \in 1..Len(s) : \A j \in i..Len(s) : s[i].at <= s[j].at
    PROVE  WindowKept(s, Observe(s, ok, now, p), now, p)
<1>. DEFINE o == Observe(s, ok, now, p)
<1>1. PICK first \in 1..(Len(s) + 1) :
              /\ o \in Seq(Sample)
              /\ Len(o) = Len(s) + 2 - first
              /\ \A i \in 1..(Len(s) + 1 - first) : o[i] = s[first + i - 1]
              /\ o[Len(s) + 2 - first] = [at |-> now, ok |-> ok]
              /\ \A i \in 1..(first - 1) : Expired(s[i], now, p)
              /\ first <= Len(s) => ~Expired(s[first], now, p)
  BY ObserveShape
<1>2. \A i \in 1..Len(s) : s[i] \in Sample
  OBVIOUS
<1>3. \A i \in 1..Len(s) : s[i].at \in Nat
  BY <1>2, Zenon DEF Sample
<1>. HIDE DEF o
<1>4. /\ Len(s) \in Nat /\ first \in Nat /\ first >= 1 /\ first <= Len(s) + 1
      /\ Len(s) + 1 - Len(o) = first - 1
  BY <1>1
<1>5. ASSUME NEW i \in 1..Len(s)
      PROVE  IF i <= first - 1
             THEN Expired(s[i], now, p)
             ELSE o[i - (first - 1)] = s[i] /\ ~Expired(s[i], now, p)
  <2>1. CASE i <= first - 1
    BY <1>1, <1>4, <2>1
  <2>2. CASE ~(i <= first - 1)
    <3>1. i - (first - 1) \in 1..(Len(s) + 1 - first) /\ i \in first..Len(s)
          /\ first \in 1..Len(s) /\ first + (i - (first - 1)) - 1 = i
      BY <1>4, <2>2
    <3>2. o[i - (first - 1)] = s[i]  BY <1>1, <3>1
    <3>3. s[first].at <= s[i].at  BY <3>1
    <3>4. ~Expired(s[first], now, p)  BY <1>1, <3>1
    <3>5. p.window \in Nat  BY DEF Policy
    <3>6. s[first].at \in Nat /\ s[i].at \in Nat  BY <1>3, <3>1
    <3>7. ~Expired(s[i], now, p)
      BY <3>3, <3>4, <3>5, <3>6 DEF Expired
    <3>. QED  BY <2>2, <3>2, <3>7
  <2>. QED  BY <2>1, <2>2
<1>6. Len(s) + 1 - Len(o) >= 0  BY <1>4
<1>7. WindowKept(s, o, now, p)
  BY <1>4, <1>5, <1>6 DEF WindowKept
<1>. QED  BY <1>7 DEF o

LEMMA RecordOrdered ==
    ASSUME NEW b \in Breaker, NEW now \in Nat, NEW p \in Policy, NEW ok \in BOOLEAN,
           OrderedUpTo(b, now)
    PROVE  OrderedUpTo(Record(b, ok, now, p), now)
<1>. DEFINE o == Observe(b.samples, ok, now, p)
            r == Record(b, ok, now, p)
<1>1. b.samples \in Seq(Sample) /\ b.openSince \in Nat \cup {NotOpen}
  BY DEF Breaker
<1>2. \A i \in 1..Len(o) : /\ o[i].at <= now
                           /\ \A j \in i..Len(o) : o[i].at <= o[j].at
  BY <1>1, ObserveOrdered DEF OrderedUpTo
<1>3. CASE IsOpen(b) /\ ok
  BY <1>3 DEF Record, OrderedUpTo, NotOpen
<1>4. CASE ~(IsOpen(b) /\ ok)
  <2>1. r.samples = o /\ r.openSince \in {now, b.openSince, NotOpen}
    BY <1>4 DEF Record
  <2>2. r.openSince <= now
    BY <1>1, <2>1 DEF OrderedUpTo, NotOpen
  <2>. QED  BY <1>2, <2>1, <2>2 DEF OrderedUpTo
<1>. QED  BY <1>3, <1>4

(* After `record` the probe flag is down, provided it was never up on a    *)
(* closed breaker.                                                         *)
LEMMA RecordClearsProbe ==
    ASSUME NEW b \in Breaker, NEW now, NEW p, NEW ok \in BOOLEAN,
           b.probe => IsOpen(b)
    PROVE  Record(b, ok, now, p).probe = FALSE
<1>1. CASE IsOpen(b)  BY <1>1 DEF Record
<1>2. CASE ~IsOpen(b)
  <2>1. b.probe = FALSE  BY <1>2 DEF Breaker
  <2>. QED  BY <1>2, <2>1 DEF Record
<1>. QED  BY <1>1, <1>2
-----------------------------------------------------------------------------
(* The inductive invariant: ProbeHasOwner needs the types, and the exact   *)
(* window needs the order.                                                 *)
IInv == TypeOK /\ SamplesOrdered /\ ProbeHasOwner

LEMMA PolicyType ==
    ASSUME NEW c \in Callers
    PROVE  PolicyOf[c] \in Policy
BY PolicyAssumption

LEMMA InitIInv == Init => IInv
<1>. SUFFICES ASSUME Init PROVE IInv  OBVIOUS
<1>1. << >> \in Seq(Sample)  OBVIOUS
<1>2. NewBreaker \in Breaker
  BY <1>1 DEF NewBreaker, Breaker, NotOpen
<1>3. TypeOK  BY <1>2 DEF Init, TypeOK
<1>4. SamplesOrdered  BY DEF Init, SamplesOrdered, OrderedUpTo, NewBreaker, NotOpen
<1>5. ProbeHasOwner  BY DEF Init, ProbeHasOwner, NewBreaker
<1>. QED  BY <1>3, <1>4, <1>5 DEF IInv

(* A hold is granted: a probe gets its owner in the same step.             *)
LEMMA TryHoldIInv ==
    ASSUME IInv, NEW c \in Callers, TryHold(c)
    PROVE  IInv'
<1>. USE DEF IInv
<1>. DEFINE d == Decision(breaker, clock, PolicyOf[c])
<1>1. /\ hold[c] = "none" /\ d # "skip" /\ hold' = [hold EXCEPT ![c] = d]
      /\ breaker' = AfterDecision(breaker, clock, PolicyOf[c]) /\ clock' = clock
  BY DEF TryHold
<1>2. d \in {"allow", "probe", "skip"}  BY DEF Decision
<1>3. CASE d = "probe"
  <2>1. breaker' = [breaker EXCEPT !.probe = TRUE]  BY <1>1, <1>3 DEF AfterDecision
  <2>2. IsOpen(breaker)  BY <1>3 DEF Decision
  <2>3. TypeOK'  BY <1>1, <1>3, <2>1 DEF TypeOK, Breaker
  <2>4. breaker'.samples = breaker.samples /\ breaker'.openSince = breaker.openSince
    BY <2>1 DEF TypeOK, Breaker
  <2>5. SamplesOrdered'  BY <1>1, <2>4 DEF SamplesOrdered, OrderedUpTo
  <2>6. hold'[c] = "probe"  BY <1>1, <1>3 DEF TypeOK
  <2>7. ProbeHasOwner'  BY <2>2, <2>4, <2>6 DEF ProbeHasOwner, IsOpen
  <2>. QED  BY <2>3, <2>5, <2>7
<1>4. CASE d = "allow"
  <2>1. breaker' = breaker  BY <1>1, <1>4 DEF AfterDecision
  <2>2. TypeOK'  BY <1>1, <1>4, <2>1 DEF TypeOK
  <2>3. SamplesOrdered'  BY <1>1, <2>1 DEF SamplesOrdered
  <2>4. ProbeHasOwner'  BY <1>1, <1>4, <2>1 DEF ProbeHasOwner, TypeOK
  <2>. QED  BY <2>2, <2>3, <2>4
<1>. QED  BY <1>1, <1>2, <1>3, <1>4

(* A hold is settled, by consume or by its destructor: the record clears   *)
(* the flag, so no owner is needed any more.                               *)
LEMMA SettleIInv ==
    ASSUME IInv, NEW c \in Callers, NEW ok \in BOOLEAN, Settle(c, ok)
    PROVE  IInv'
<1>. USE DEF IInv
<1>1. /\ breaker' = Record(breaker, ok, clock, PolicyOf[c]) /\ clock' = clock
      /\ hold' = [hold EXCEPT ![c] = "none"]
  BY DEF Settle
<1>2. breaker \in Breaker /\ clock \in Nat  BY DEF TypeOK
<1>3. breaker' \in Breaker  BY <1>1, <1>2, PolicyType, RecordType
<1>4. TypeOK'  BY <1>1, <1>3 DEF TypeOK
<1>5. SamplesOrdered'
  BY <1>1, <1>2, PolicyType, RecordOrdered DEF SamplesOrdered
<1>6. breaker'.probe = FALSE
  BY <1>1, <1>2, RecordClearsProbe DEF ProbeHasOwner
<1>7. ProbeHasOwner'  BY <1>6 DEF ProbeHasOwner
<1>. QED  BY <1>4, <1>5, <1>7

LEMMA NextIInv == IInv /\ [Next]_vars => IInv'
<1>. SUFFICES ASSUME IInv, [Next]_vars PROVE IInv'  OBVIOUS
<1>1. CASE \E c \in Callers : TryHold(c)
  BY <1>1, TryHoldIInv
<1>2. CASE \E c \in Callers, ok \in BOOLEAN : Consume(c, ok)
  BY <1>2, SettleIInv DEF Consume
<1>3. CASE \E c \in Callers : Abandon(c)
  BY <1>3, SettleIInv DEF Abandon
<1>4. CASE Tick
  <2>1. breaker \in Breaker  BY DEF IInv, TypeOK
  <2>2. \A i \in 1..Len(breaker.samples) : breaker.samples[i].at \in Nat
    <3>1. breaker.samples \in Seq(Sample)  BY <2>1 DEF Breaker
    <3>2. \A i \in 1..Len(breaker.samples) : breaker.samples[i] \in Sample
      BY <3>1, ElementOfSeq
    <3>. QED  BY <3>2, Zenon DEF Sample
  <2>3. breaker.openSince \in Int  BY <2>1 DEF Breaker, NotOpen
  <2>4. clock \in Nat /\ clock' = clock + 1 /\ UNCHANGED <<breaker, hold>>
    BY <1>4 DEF Tick, IInv, TypeOK
  <2>5. TypeOK'  BY <2>4 DEF IInv, TypeOK
  <2>6. SamplesOrdered'
    BY <2>2, <2>3, <2>4 DEF IInv, SamplesOrdered, OrderedUpTo
  <2>7. ProbeHasOwner'  BY <2>4 DEF IInv, ProbeHasOwner
  <2>. QED  BY <2>5, <2>6, <2>7 DEF IInv
<1>5. CASE UNCHANGED vars
  BY <1>5 DEF vars, IInv, TypeOK, SamplesOrdered, ProbeHasOwner
<1>. QED  BY <1>1, <1>2, <1>3, <1>4, <1>5 DEF Next

THEOREM Invariance == Spec => []IInv
<1>1. Init => IInv  BY InitIInv
<1>2. IInv /\ [Next]_vars => IInv'  BY NextIInv
<1>. QED  BY <1>1, <1>2, PTL DEF Spec

(* The breaker's fields keep their types through every record and every    *)
(* decision, whatever the policies of the routes that share it.            *)
THEOREM TypeCorrect == Spec => []TypeOK
BY Invariance, PTL DEF IInv

(* The deque stays in the order of time: `record` reads the clock under    *)
(* the breaker's lock.                                                     *)
THEOREM DequeOrdered == Spec => []SamplesOrdered
BY Invariance, PTL DEF IInv

(* No interleaving of holds, late records and dropped holds leaves         *)
(* probe_in_flight set with nobody left to clear it.                       *)
THEOREM NeverWedged == Spec => []ProbeHasOwner
BY Invariance, PTL DEF IInv

(* One record, under an ordered deque: it keeps the window and no more, or *)
(* it closes the breaker and restarts the window.                          *)
LEMMA SettleKeepsWindow ==
    ASSUME IInv, NEW c \in Callers, NEW ok \in BOOLEAN, Settle(c, ok)
    PROVE  \/ IsOpen(breaker) /\ ~IsOpen(breaker') /\ Len(breaker'.samples) = 1
           \/ WindowKept(breaker.samples, breaker'.samples, clock, PolicyOf[c])
<1>1. breaker' = Record(breaker, ok, clock, PolicyOf[c])  BY DEF Settle
<1>2. breaker.samples \in Seq(Sample) /\ clock \in Nat /\ PolicyOf[c] \in Policy
  BY PolicyType DEF IInv, TypeOK, Breaker
<1>3. CASE IsOpen(breaker) /\ ok
  <2>1. breaker'.openSince = NotOpen /\ breaker'.samples = <<[at |-> clock, ok |-> TRUE]>>
    BY <1>1, <1>3 DEF Record
  <2>2. Len(breaker'.samples) = 1  BY <2>1
  <2>. QED  BY <1>3, <2>1, <2>2 DEF IsOpen
<1>4. CASE ~(IsOpen(breaker) /\ ok)
  <2>1. breaker'.samples = Observe(breaker.samples, ok, clock, PolicyOf[c])
    BY <1>1, <1>4 DEF Record
  <2>2. \A i \in 1..Len(breaker.samples) : \A j \in i..Len(breaker.samples) :
            breaker.samples[i].at <= breaker.samples[j].at
    BY DEF IInv, SamplesOrdered, OrderedUpTo
  <2>. QED  BY <1>2, <2>1, <2>2, ObserveKeepsWindow
<1>. QED  BY <1>3, <1>4

(* Every step that settles one hold keeps the window of its own policy,    *)
(* exactly.                                                                *)
THEOREM WindowsKept == Spec => RecordsKeepWindow
<1>1. IInv /\ [Next]_vars => [RecordKeepsWindow]_vars
  <2>. SUFFICES ASSUME IInv, Next, NEW c \in Callers, Outstanding \ Outstanding' = {c}
                PROVE  \/ IsOpen(breaker) /\ ~IsOpen(breaker') /\ Len(breaker'.samples) = 1
                       \/ WindowKept(breaker.samples, breaker'.samples, clock, PolicyOf[c])
    BY DEF RecordKeepsWindow
  <2>1. hold[c] # "none" /\ hold'[c] = "none"
    BY DEF Outstanding
  <2>2. ASSUME NEW d \in Callers, NEW ok \in BOOLEAN, Settle(d, ok)
        PROVE  d = c
    BY <2>1, <2>2 DEF Settle, IInv, TypeOK
  <2>3. CASE \E d \in Callers : TryHold(d)
    <3>1. PICK d \in Callers : TryHold(d)  BY <2>3
    <3>2. hold[d] = "none" /\ \E x : hold' = [hold EXCEPT ![d] = x]  BY <3>1 DEF TryHold
    <3>. QED  BY <2>1, <3>2 DEF IInv, TypeOK
  <2>4. CASE \E d \in Callers, ok \in BOOLEAN : Consume(d, ok)
    BY <2>2, <2>4, SettleKeepsWindow DEF Consume
  <2>5. CASE \E d \in Callers : Abandon(d)
    BY <2>2, <2>5, SettleKeepsWindow DEF Abandon
  <2>6. CASE Tick
    BY <2>1, <2>6 DEF Tick
  <2>. QED  BY <2>3, <2>4, <2>5, <2>6 DEF Next
<1>. QED  BY <1>1, Invariance, PTL DEF Spec, RecordsKeepWindow
=============================================================================
