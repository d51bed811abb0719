---------------------------- MODULE BreakerState ----------------------------
(***************************************************************************)
(* The data part of one circuit breaker, crates/router/circuit_breaker.rs: *)
(* the record of its fields and what `record` and `decision` do to it.     *)
(* CircuitBreaker and Resilience build their state machines on it.         *)
(* Time is a natural number; `NotOpen` stands for open_since = None.       *)
(***************************************************************************)
EXTENDS Integers, Sequences, FiniteSets

NotOpen == -1

Policy == [enabled: BOOLEAN, threshold: Nat, minRequests: Nat, window: Nat, cooldown: Nat]

Sample == [at: Nat, ok: BOOLEAN]

Breaker == [samples: Seq(Sample), openSince: Nat \cup {NotOpen}, probe: BOOLEAN]

NewBreaker == [samples |-> << >>, openSince |-> NotOpen, probe |-> FALSE]

IsOpen(b) == b.openSince # NotOpen

(* A sample older than the window. An instant before the window's length   *)
(* has no cutoff (checked_sub is None), and nothing is expired.            *)
Expired(s, now, p) == now >= p.window /\ s.at < now - p.window

(* Mutant of Evict: the eviction loop run once.                            *)
EvictOnce(samples, now, p) ==
    IF samples # << >> /\ Expired(Head(samples), now, p) THEN Tail(samples) ELSE samples

(* pop_front while the front is expired: stops at the first live sample.   *)
Evict(samples, now, p) ==
    LET live == {i \in 1..Len(samples) : ~Expired(samples[i], now, p)}
    IN  IF live = {}
        THEN << >>
        ELSE LET first == CHOOSE i \in live : \A j \in live : i <= j
             IN  SubSeq(samples, first, Len(samples))

(* The first half of `record`: evict, then append the new sample.          *)
Observe(samples, ok, now, p) ==
    Append(Evict(samples, now, p), [at |-> now, ok |-> ok])

Failures(samples) == Cardinality({i \in 1..Len(samples) : ~samples[i].ok})

(* The closed breaker's trip condition, in integer percent.                *)
Trips(samples, p) ==
    /\ Len(samples) >= p.minRequests
    /\ (Failures(samples) * 100) \div Len(samples) >= p.threshold

CooledDown(b, now, p) == now - b.openSince >= p.cooldown

(* BreakerState::record. Every record on an open breaker clears the probe  *)
(* flag, whoever it comes from; a success closes it and restarts the       *)
(* window, a failure after the cooldown opens it afresh.                   *)
Record(b, ok, now, p) ==
    LET samples == Observe(b.samples, ok, now, p)
    IN  IF ~IsOpen(b)
        THEN [samples   |-> samples,
              openSince |-> IF Trips(samples, p) THEN now ELSE NotOpen,
              probe     |-> b.probe]
        ELSE IF ok
        THEN [samples   |-> <<[at |-> now, ok |-> TRUE]>>,
              openSince |-> NotOpen,
              probe     |-> FALSE]
        ELSE [samples   |-> samples,
              openSince |-> IF CooledDown(b, now, p) THEN now ELSE b.openSince,
              probe     |-> FALSE]

(* BreakerState::decision, and the compare_exchange it performs.           *)
Decision(b, now, p) ==
    IF ~p.enabled \/ ~IsOpen(b)
    THEN "allow"
    ELSE IF CooledDown(b, now, p) /\ ~b.probe THEN "probe" ELSE "skip"

AfterDecision(b, now, p) ==
    IF Decision(b, now, p) = "probe" THEN [b EXCEPT !.probe = TRUE] ELSE b

(* `after` is `before` with one sample more and without a prefix: exactly  *)
(* the samples that had expired.                                           *)
WindowKept(before, after, now, p) ==
    LET dropped == Len(before) + 1 - Len(after)
    IN  /\ dropped >= 0
        /\ \A i \in 1..Len(before) :
              IF i <= dropped
              THEN Expired(before[i], now, p)
              ELSE after[i - dropped] = before[i] /\ ~Expired(before[i], now, p)

(* The timestamps of a breaker are in the order of time, none after now.   *)
OrderedUpTo(b, now) ==
    /\ b.openSince <= now
    /\ \A i \in 1..Len(b.samples) :
        /\ b.samples[i].at <= now
        /\ \A j \in i..Len(b.samples) : b.samples[i].at <= b.samples[j].at
=============================================================================
