--------------------------- MODULE CircuitBreaker ---------------------------
(***************************************************************************)
(* One breaker of the BreakerRegistry, shared by concurrent callers. A     *)
(* caller asks for a hold (`try_hold`), makes its upstream call for as     *)
(* long as it takes, and settles the hold: `consume(outcome)`, or the      *)
(* destructor when the hold is dropped. Callers come from routes, each     *)
(* with its own policy for the same (provider, model) breaker.             *)
(***************************************************************************)
EXTENDS BreakerState

CONSTANTS Callers,     \* requests that may be in flight at the same time
          PolicyOf,    \* the policy of the route each caller came in on
          MaxClock,    \* bound on the clock
          MaxSamples   \* bound on the samples the admitted traffic can leave

ASSUME PolicyAssumption == PolicyOf \in [Callers -> Policy]
ASSUME BoundAssumption  == MaxClock \in Nat /\ MaxSamples \in Nat

VARIABLES clock,    \* Clock::now(), read under the breaker's lock
          breaker,
          hold      \* what each caller holds: "none", "allow" or "probe"

vars == <<clock, breaker, hold>>

Outstanding == {c \in Callers : hold[c] # "none"}

Init ==
    /\ clock = 0
    /\ breaker = NewBreaker
    /\ hold = [c \in Callers |-> "none"]

(* try_hold: a Skip leaves no trace, an Allow or a Probe returns a hold.   *)
TryHold(c) ==
    /\ hold[c] = "none"
    /\ Len(breaker.samples) + Cardinality(Outstanding) < MaxSamples
    /\ LET d == Decision(breaker, clock, PolicyOf[c])
       IN  /\ d # "skip"
           /\ hold' = [hold EXCEPT ![c] = d]
           /\ breaker' = AfterDecision(breaker, clock, PolicyOf[c])
    /\ UNCHANGED clock

Settle(c, ok) ==
    /\ hold[c] # "none"
    /\ breaker' = Record(breaker, ok, clock, PolicyOf[c])
    /\ hold' = [hold EXCEPT ![c] = "none"]
    /\ UNCHANGED clock

(* BreakerHold::consume(succeeded).                                        *)
Consume(c, ok) == Settle(c, ok)

(* Mutant of Abandon: BreakerHold without its Drop.                        *)
AbandonSilently(c) ==
    /\ hold[c] # "none"
    /\ hold' = [hold EXCEPT ![c] = "none"]
    /\ UNCHANGED <<clock, breaker>>

(* Drop for BreakerHold: an unconsumed hold counts as a failure.           *)
Abandon(c) == Settle(c, FALSE)

(* Mutant of Tick: a wall clock that can be set back, for Instant.         *)
TickWallClock ==
    /\ clock < MaxClock
    /\ clock' \in {clock - 1, clock + 1}
    /\ UNCHANGED <<breaker, hold>>

Tick ==
    /\ clock < MaxClock
    /\ clock' = clock + 1
    /\ UNCHANGED <<breaker, hold>>

Next ==
    \/ \E c \in Callers : TryHold(c)
    \/ \E c \in Callers, ok \in BOOLEAN : Consume(c, ok)
    \/ \E c \in Callers : Abandon(c)
    \/ Tick

Spec == Init /\ [][Next]_vars
-----------------------------------------------------------------------------
(* Type correctness of the clock, the breaker's fields and the holds.      *)
TypeOK ==
    /\ clock \in Nat
    /\ breaker \in Breaker
    /\ hold \in [Callers -> {"none", "allow", "probe"}]

(* The breaker is never wedged: while probe_in_flight refuses every other  *)
(* probe, the breaker is open and some caller still owes the record that   *)
(* clears it. This is the contract the Probe variant's doc spells out.     *)
ProbeHasOwner ==
    breaker.probe => /\ IsOpen(breaker)
                     /\ \E c \in Callers : hold[c] = "probe"

(* The eviction loop only looks at the front of the deque. It is exact all *)
(* the same: a record keeps every sample of its window and none older,     *)
(* unless it closes the breaker and restarts the window.                   *)
RecordKeepsWindow ==
    \A c \in Callers :
        Outstanding \ Outstanding' = {c} =>
            \/ IsOpen(breaker) /\ ~IsOpen(breaker') /\ Len(breaker'.samples) = 1
            \/ WindowKept(breaker.samples, breaker'.samples, clock, PolicyOf[c])

RecordsKeepWindow == [][RecordKeepsWindow]_vars

(* The deque is in the order of time and never ahead of the clock, nor is  *)
(* open_since: what makes front eviction exact and elapsed times positive. *)
SamplesOrdered == OrderedUpTo(breaker, clock)
=============================================================================
