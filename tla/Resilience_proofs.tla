------------------------- MODULE Resilience_proofs -------------------------
(***************************************************************************)
(* Two promises of a request's path through admission, passthrough,        *)
(* fallback, retries and cancellation, for any number of requests,         *)
(* targets, chains, policies and rate limits. No path wedges a breaker: a  *)
(* set probe flag belongs to a ticket that still has to settle it. This    *)
(* argument (IInv) is about the holds alone. And an upstream is called no  *)
(* oftener than its bucket has paid for: this one (CInv) counts the calls  *)
(* of a request by its position in the chain, and keeps a ledger of the    *)
(* elements that have cost a token.                                        *)
(***************************************************************************)
EXTENDS Resilience, TLAPS, SequenceTheorems, FiniteSetTheorems, WellFoundedInduction

HoldStates == {"allow", "probe", "skip", "settled"}

(* The fields of a request's record.                                       *)
Shape(x) ==
    x \in [pc : {x.pc}, at : {x.at}, chain : {x.chain}, holds : {x.holds}, results : {x.results},
           attempt : {x.attempt}, chosen : {x.chosen}, ok : {x.ok}, outcome : {x.outcome}]

(* What admission's loop keeps: no hold is taken before the loop that      *)
(* takes them, which is at the element after the last hold.                *)
TicketOK(x) ==
    /\ x.at \in Nat /\ x.ok \in BOOLEAN /\ x.holds \in Seq(HoldStates)
    /\ x.pc \in {"gates", "quota"} => x.holds = << >>
    /\ x.pc = "holds" => x.at = Len(x.holds) + 1

(* The fields of a breaker; what its window holds does not matter here.    *)
BreakerShape(b) ==
    b = [samples |-> b.samples, openSince |-> b.openSince, probe |-> b.probe] /\ b.probe \in BOOLEAN

BreakersOK == breakers = [t \in Targets |-> breakers[t]] /\ \A t \in Targets : BreakerShape(breakers[t])

IInv ==
    /\ clock \in Nat /\ BreakersOK
    /\ req = [r \in Requests |-> req[r]]
    /\ \A r \in Requests : Shape(req[r]) /\ TicketOK(req[r])
    /\ ProbeHasTicket

(* A set of naturals that is not empty has a least element.                *)
LEMMA LeastIndex ==
    ASSUME NEW T, T \subseteq Nat, T # {}
    PROVE  \E i \in T : \A j \in T : i <= j
<1>1. PICK i \in T : \A j \in T : ~(<<j, i>> \in OpToRel(<, Nat))
  BY NatLessThanWellFounded, WFMin, Zenon
<1>2. \A j \in T : ~(j < i)  BY <1>1 DEF OpToRel
<1> QED  BY <1>2

(* After `record` the probe flag is down, provided it was never up on a    *)
(* closed breaker.                                                         *)
LEMMA RecordClears ==
    ASSUME NEW b, BreakerShape(b), b.probe => IsOpen(b), NEW ok, NEW now, NEW p
    PROVE  BreakerShape(Record(b, ok, now, p)) /\ Record(b, ok, now, p).probe = FALSE
<1>1. b.probe \in BOOLEAN  BY DEF BreakerShape
<1>2. CASE IsOpen(b)  BY <1>2 DEF Record, BreakerShape
<1>3. CASE ~IsOpen(b)
  <2>1. b.probe = FALSE  BY <1>1, <1>3
  <2> QED  BY <1>3, <2>1 DEF Record, BreakerShape
<1> QED  BY <1>2, <1>3

LEMMA InitIInv == Init => IInv
<1> SUFFICES ASSUME Init PROVE IInv  OBVIOUS
<1>1. BreakerShape(NewBreaker)  BY DEF NewBreaker, BreakerShape
<1>2. Shape(NewRequest) /\ TicketOK(NewRequest)
  <2>1. << >> \in Seq(HoldStates)  OBVIOUS
  <2> QED  BY <2>1 DEF NewRequest, Shape, TicketOK
<1>3. ProbeHasTicket  BY DEF Init, ProbeHasTicket, NewBreaker
<1>4. BreakersOK  BY <1>1 DEF Init, BreakersOK
<1> QED  BY <1>2, <1>3, <1>4 DEF Init, IInv

(* A step of one request that touches no breaker, keeps its holds, and     *)
(* replaces its chain only while it has none.                              *)
LEMMA Moves ==
    ASSUME IInv, NEW q \in Requests, clock' \in Nat, UNCHANGED breakers,
           NEW x, Shape(x), TicketOK(x), req' = [req EXCEPT ![q] = x],
           x.holds = req[q].holds, x.chain = req[q].chain \/ req[q].holds = << >>
    PROVE  IInv'
<1>1. req'[q] = x /\ \A r \in Requests \ {q} : req'[r] = req[r]  BY DEF IInv
<1>2. req' = [r \in Requests |-> req'[r]]  BY DEF IInv
<1>3. \A r \in Requests : Shape(req'[r]) /\ TicketOK(req'[r])  BY <1>1 DEF IInv
<1>4. ASSUME NEW t \in Targets, NEW r \in ProbesOn(t) PROVE r \in ProbesOn(t)'
  <2>1. r \in Requests /\ \E i \in DOMAIN req[r].holds :
                              req[r].chain[i] = t /\ req[r].holds[i] = "probe"
    BY <1>4 DEF ProbesOn
  <2>2. CASE r # q  BY <1>1, <2>1, <2>2 DEF ProbesOn
  <2>3. CASE r = q
    <3>1. req[q].holds # << >>  BY <2>1, <2>3
    <3> QED  BY <1>1, <2>1, <2>3, <3>1 DEF ProbesOn
  <2> QED  BY <2>2, <2>3
<1>5. ProbeHasTicket'  BY <1>4 DEF IInv, ProbeHasTicket
<1> QED  BY <1>2, <1>3, <1>5 DEF IInv, BreakersOK

(* The forms in which the actions update a request's record.               *)
LEMMA GotoMoves ==
    ASSUME IInv, NEW q \in Requests, UNCHANGED <<clock, breakers>>, NEW pc, Goto(q, pc),
           pc \notin {"gates", "quota"}, pc = "holds" => req[q].holds = << >>
    PROVE  IInv'
<1> DEFINE x == [req[q] EXCEPT !.pc = pc, !.at = 1]
<1>1. req' = [req EXCEPT ![q] = x]  BY DEF Goto, IInv
<1>2. Shape(req[q]) /\ TicketOK(req[q]) /\ clock' \in Nat  BY DEF IInv
<1>3. /\ Shape(x) /\ x.holds = req[q].holds /\ x.chain = req[q].chain
      /\ x.pc = pc /\ x.at = 1 /\ x.ok = req[q].ok
  BY <1>2 DEF Shape
<1>4. TicketOK(x)  BY <1>2, <1>3 DEF TicketOK
<1> HIDE DEF x
<1> QED  BY <1>1, <1>2, <1>3, <1>4, Moves

LEMMA StepMoves ==
    ASSUME IInv, NEW q \in Requests, UNCHANGED <<clock, breakers>>, Step(q),
           req[q].pc # "holds"
    PROVE  IInv'
<1> DEFINE x == [req[q] EXCEPT !.at = @ + 1]
<1>1. req' = [req EXCEPT ![q] = x]  BY DEF Step, IInv
<1>2. Shape(req[q]) /\ TicketOK(req[q]) /\ clock' \in Nat  BY DEF IInv
<1>3. /\ Shape(x) /\ x.holds = req[q].holds /\ x.chain = req[q].chain
      /\ x.pc = req[q].pc /\ x.at = req[q].at + 1 /\ x.ok = req[q].ok
  BY <1>2 DEF Shape
<1>4. TicketOK(x)  BY <1>2, <1>3 DEF TicketOK
<1> HIDE DEF x
<1> QED  BY <1>1, <1>2, <1>3, <1>4, Moves

LEMMA FinishMoves ==
    ASSUME IInv, NEW q \in Requests, UNCHANGED <<clock, breakers>>, NEW o, Finish(q, o)
    PROVE  IInv'
<1> DEFINE x == [req[q] EXCEPT !.pc = "done", !.outcome = o]
<1>1. req' = [req EXCEPT ![q] = x]  BY DEF Finish, IInv
<1>2. Shape(req[q]) /\ TicketOK(req[q]) /\ clock' \in Nat  BY DEF IInv
<1>3. /\ Shape(x) /\ x.holds = req[q].holds /\ x.chain = req[q].chain
      /\ x.pc = "done" /\ x.at = req[q].at /\ x.ok = req[q].ok
  BY <1>2 DEF Shape
<1>4. TicketOK(x)  BY <1>2, <1>3 DEF TicketOK
<1> HIDE DEF x
<1> QED  BY <1>1, <1>2, <1>3, <1>4, Moves

LEMMA SettleMoves ==
    ASSUME IInv, NEW q \in Requests, UNCHANGED <<clock, breakers>>, NEW chosen,
           NEW ok \in BOOLEAN, NEW o, SettleTicket(q, chosen, ok, o)
    PROVE  IInv'
<1> DEFINE x == [req[q] EXCEPT !.pc = "settle", !.at = 1, !.chosen = chosen, !.ok = ok,
                               !.outcome = o]
<1>1. req' = [req EXCEPT ![q] = x]  BY DEF SettleTicket, IInv
<1>2. Shape(req[q]) /\ TicketOK(req[q]) /\ clock' \in Nat  BY DEF IInv
<1>3. /\ Shape(x) /\ x.holds = req[q].holds /\ x.chain = req[q].chain
      /\ x.pc = "settle" /\ x.at = 1 /\ x.ok = ok
  BY <1>2 DEF Shape
<1>4. TicketOK(x)  BY <1>2, <1>3 DEF TicketOK
<1> HIDE DEF x
<1> QED  BY <1>1, <1>2, <1>3, <1>4, Moves

(* The walk's own updates: at, attempt and results.                        *)
LEMMA WalkMoves ==
    ASSUME IInv, NEW q \in Requests, UNCHANGED <<clock, breakers>>,
           req[q].pc \in {"walk", "call"}, NEW pc \in {"walk", "call", "stream"},
           NEW at \in Nat, NEW attempt, NEW results,
           req' = [req EXCEPT ![q] = [req[q] EXCEPT !.pc = pc, !.at = at, !.attempt = attempt,
                                                    !.results = results]]
    PROVE  IInv'
<1> DEFINE x == [req[q] EXCEPT !.pc = pc, !.at = at, !.attempt = attempt, !.results = results]
<1>1. req' = [req EXCEPT ![q] = x]  OBVIOUS
<1>2. Shape(req[q]) /\ TicketOK(req[q]) /\ clock' \in Nat  BY DEF IInv
<1>3. /\ Shape(x) /\ x.holds = req[q].holds /\ x.chain = req[q].chain
      /\ x.pc = pc /\ x.at = at /\ x.ok = req[q].ok
  BY <1>2 DEF Shape
<1>4. TicketOK(x)  BY <1>2, <1>3 DEF TicketOK
<1> HIDE DEF x
<1> QED  BY <1>1, <1>2, <1>3, <1>4, Moves
-----------------------------------------------------------------------------
LEMMA AdmissionSteps ==
    ASSUME IInv, NEW q \in Requests,
           CheckGate(q) \/ FilterChain(q) \/ CheckUpstreamQuota(q) \/ CheckCapability(q) \/ Admit(q)
    PROVE  IInv'
<1>1. CASE CheckGate(q)
  <2>1. UNCHANGED <<clock, breakers>> /\ req[q].pc = "gates"  BY <1>1 DEF CheckGate
  <2>2. Step(q) \/ Finish(q, "rate_limited")  BY <1>1 DEF CheckGate
  <2> QED  BY <2>1, <2>2, StepMoves, FinishMoves
<1>2. CASE FilterChain(q)
  <2>1. UNCHANGED <<clock, breakers>> /\ req[q].pc = "gates"  BY <1>2 DEF FilterChain
  <2>2. PICK keep \in SUBSET Providers :
          LET chain == InOrder(ChainOf[q],
                               {i \in DOMAIN ChainOf[q] : ProviderOf[ChainOf[q][i]] \in keep})
          IN  IF chain = << >>
              THEN Finish(q, "no_eligible_upstream")
              ELSE req' = [req EXCEPT ![q].pc = "quota", ![q].at = 1, ![q].chain = chain]
    BY <1>2 DEF FilterChain
  <2> DEFINE chain == InOrder(ChainOf[q],
                              {i \in DOMAIN ChainOf[q] : ProviderOf[ChainOf[q][i]] \in keep})
             x == [req[q] EXCEPT !.pc = "quota", !.at = 1, !.chain = chain]
  <2>3. Finish(q, "no_eligible_upstream")
        \/ req' = [req EXCEPT ![q].pc = "quota", ![q].at = 1, ![q].chain = chain]
    BY <2>2
  <2>4. Shape(req[q]) /\ TicketOK(req[q]) /\ clock' \in Nat  BY <2>1 DEF IInv
  <2> HIDE DEF chain
  <2>5. /\ Shape(x) /\ x.holds = req[q].holds /\ x.pc = "quota" /\ x.at = 1
        /\ x.ok = req[q].ok /\ req[q].holds = << >>
    BY <2>1, <2>4 DEF Shape, TicketOK
  <2>6. TicketOK(x)
    <3> HIDE DEF x
    <3> QED  BY <2>4, <2>5 DEF TicketOK
  <2>7. CASE req' = [req EXCEPT ![q].pc = "quota", ![q].at = 1, ![q].chain = chain]
    <3>1. req' = [req EXCEPT ![q] = x]  BY <2>7 DEF IInv
    <3> HIDE DEF x
    <3> QED  BY <2>1, <2>4, <2>5, <2>6, <3>1, Moves
  <2> QED  BY <2>1, <2>3, <2>7, FinishMoves
<1>3. CASE CheckUpstreamQuota(q)
  <2>1. UNCHANGED <<clock, breakers>> /\ req[q].pc = "quota"  BY <1>3 DEF CheckUpstreamQuota
  <2>2. Step(q) \/ Finish(q, "rate_limited")  BY <1>3 DEF CheckUpstreamQuota
  <2> QED  BY <2>1, <2>2, StepMoves, FinishMoves
<1>4. CASE CheckCapability(q)
  <2>1. UNCHANGED <<clock, breakers>> /\ req[q].pc = "quota"  BY <1>4 DEF CheckCapability
  <2>2. req[q].holds = << >>  BY <2>1 DEF IInv, TicketOK
  <2>3. Goto(q, "holds") \/ Finish(q, "capability_mismatch") \/ Finish(q, "unknown_provider")
    BY <1>4 DEF CheckCapability
  <2> QED  BY <2>1, <2>2, <2>3, GotoMoves, FinishMoves
<1>5. CASE Admit(q)
  <2>1. UNCHANGED <<clock, breakers>>  BY <1>5 DEF Admit
  <2>2. Goto(q, "proxy") \/ Goto(q, "walk") \/ Finish(q, "all_breakers_open")
    BY <1>5 DEF Admit
  <2> QED  BY <2>1, <2>2, GotoMoves, FinishMoves
<1> QED  BY <1>1, <1>2, <1>3, <1>4, <1>5

LEMMA CallSteps ==
    ASSUME IInv, NEW q \in Requests,
           \/ ProxyRaw(q) \/ ProxyAnswer(q) \/ WalkSkip(q) \/ WalkCall(q) \/ WalkExhausted(q)
           \/ RetryCall(q) \/ CallAnswer(q) \/ FirstEvent(q) \/ Cancel(q)
    PROVE  IInv'
<1>0. req[q].at \in Nat /\ req[q].at + 1 \in Nat /\ Shape(req[q])  BY DEF IInv, TicketOK
<1>1. CASE ProxyRaw(q)
  <2>1. UNCHANGED <<clock, breakers>> /\ (Goto(q, "walk") \/ Goto(q, "proxy_call"))
    BY <1>1 DEF ProxyRaw
  <2> QED  BY <2>1, GotoMoves
<1>2. CASE ProxyAnswer(q)
  <2>1. UNCHANGED <<clock, breakers>> /\ (Goto(q, "walk") \/ Goto(q, "stream"))
    BY <1>2 DEF ProxyAnswer
  <2> QED  BY <2>1, GotoMoves
<1>3. CASE WalkSkip(q)
  <2>1. UNCHANGED <<clock, breakers>> /\ req[q].pc = "walk"  BY <1>3 DEF WalkSkip
  <2>2. req' = [req EXCEPT ![q] = [req[q] EXCEPT !.pc = "walk", !.at = req[q].at + 1,
                    !.attempt = req[q].attempt, !.results = Append(req[q].results, "skipped")]]
    BY <1>0, <1>3, <2>1 DEF WalkSkip, IInv, Shape
  <2> QED  BY <1>0, <2>1, <2>2, WalkMoves
<1>4. CASE WalkCall(q)
  <2>1. UNCHANGED <<clock, breakers>> /\ req[q].pc = "walk"  BY <1>4 DEF WalkCall
  <2>2. req' = [req EXCEPT ![q] = [req[q] EXCEPT !.pc = "call", !.at = req[q].at,
                    !.attempt = 1, !.results = req[q].results]]
    BY <1>0, <1>4, <2>1 DEF WalkCall, IInv, Shape
  <2> QED  BY <1>0, <2>1, <2>2, WalkMoves
<1>5. CASE WalkExhausted(q)
  <2>1. UNCHANGED <<clock, breakers>>  BY <1>5 DEF WalkExhausted
  <2>2. PICK o : SettleTicket(q, 0, FALSE, o)  BY <1>5 DEF WalkExhausted
  <2> QED  BY <2>1, <2>2, SettleMoves
<1>6. CASE RetryCall(q)
  <2>1. UNCHANGED <<clock, breakers>> /\ req[q].pc = "call"  BY <1>6 DEF RetryCall
  <2>2. req' = [req EXCEPT ![q] = [req[q] EXCEPT !.pc = "call", !.at = req[q].at,
                    !.attempt = req[q].attempt + 1, !.results = req[q].results]]
    BY <1>0, <1>6, <2>1 DEF RetryCall, IInv, Shape
  <2> QED  BY <1>0, <2>1, <2>2, WalkMoves
<1>7. CASE CallAnswer(q)
  <2>1. UNCHANGED <<clock, breakers>> /\ req[q].pc = "call"  BY <1>7 DEF CallAnswer
  <2>2. CASE SettleTicket(q, 0, FALSE, "terminal_error")  BY <2>1, <2>2, SettleMoves
  <2>3. CASE req' = [req EXCEPT ![q].pc = "stream", ![q].results = Append(@, "ok")]
    <3>1. req' = [req EXCEPT ![q] = [req[q] EXCEPT !.pc = "stream", !.at = req[q].at,
                    !.attempt = req[q].attempt, !.results = Append(req[q].results, "ok")]]
      BY <1>0, <2>3 DEF IInv, Shape
    <3> QED  BY <1>0, <2>1, <3>1, WalkMoves
  <2>4. CASE req' = [req EXCEPT ![q].pc = "walk", ![q].at = @ + 1,
                                ![q].results = Append(@, "eligible")]
    <3>1. req' = [req EXCEPT ![q] = [req[q] EXCEPT !.pc = "walk", !.at = req[q].at + 1,
                    !.attempt = req[q].attempt, !.results = Append(req[q].results, "eligible")]]
      BY <1>0, <2>4 DEF IInv, Shape
    <3> QED  BY <1>0, <2>1, <3>1, WalkMoves
  <2> QED  BY <1>7, <2>2, <2>3, <2>4 DEF CallAnswer
<1>8. CASE FirstEvent(q)
  <2>1. UNCHANGED <<clock, breakers>>  BY <1>8 DEF FirstEvent
  <2>2. \/ SettleTicket(q, req[q].at, TRUE, "success")
        \/ SettleTicket(q, req[q].at, FALSE, "stream_error")
        \/ SettleTicket(q, 0, FALSE, "empty_stream")
    BY <1>8 DEF FirstEvent
  <2> QED  BY <2>1, <2>2, SettleMoves
<1>9. CASE Cancel(q)
  <2>1. UNCHANGED <<clock, breakers>> /\ SettleTicket(q, 0, FALSE, "cancelled")
    BY <1>9 DEF Cancel
  <2> QED  BY <2>1, SettleMoves
<1> QED  BY <1>1, <1>2, <1>3, <1>4, <1>5, <1>6, <1>7, <1>8, <1>9
-----------------------------------------------------------------------------
(* try_hold sets the flag only together with a hold of this request.       *)
LEMMA TryHoldStep == ASSUME IInv, NEW q \in Requests, TryHold(q) PROVE IInv'
<1> DEFINE u == Target(q)
           d == Decision(breakers[u], clock, PolicyOf[q])
           x == [req[q] EXCEPT !.at = @ + 1, !.holds = Append(@, d)]
<1>1. /\ req[q].pc = "holds" /\ clock' = clock /\ req' = [req EXCEPT ![q] = x]
      /\ breakers' = [breakers EXCEPT ![u] = AfterDecision(@, clock, PolicyOf[q])]
  BY DEF TryHold, IInv
<1>2. Shape(req[q]) /\ TicketOK(req[q]) /\ clock' \in Nat  BY <1>1 DEF IInv
<1>3. d \in HoldStates  BY DEF Decision, HoldStates
<1>4. /\ Shape(x) /\ x.holds = Append(req[q].holds, d) /\ x.chain = req[q].chain
      /\ x.pc = "holds" /\ x.at = req[q].at + 1 /\ x.ok = req[q].ok
  <2> HIDE DEF d
  <2> QED  BY <1>1, <1>2 DEF Shape
<1>5. TicketOK(x) /\ req[q].at = Len(req[q].holds) + 1
      /\ req[q].holds \in Seq(HoldStates)
  <2> HIDE DEF x, d
  <2> QED  BY <1>1, <1>2, <1>3, <1>4 DEF TicketOK
<1> HIDE DEF x
<1>6. req'[q] = x /\ \A r \in Requests \ {q} : req'[r] = req[r]  BY <1>1 DEF IInv
<1>7. req' = [r \in Requests |-> req'[r]]  BY <1>1 DEF IInv
<1>8. \A r \in Requests : Shape(req'[r]) /\ TicketOK(req'[r])
  BY <1>4, <1>5, <1>6 DEF IInv
<1>9. \A t \in Targets : breakers'[t] = IF t = u /\ d = "probe"
                                        THEN [breakers[t] EXCEPT !.probe = TRUE] ELSE breakers[t]
  BY <1>1 DEF IInv, BreakersOK, AfterDecision
<1>10. d = "probe" => IsOpen(breakers[u])  BY DEF Decision
<1> HIDE DEF d
<1>11. BreakersOK'
  <2>1. breakers' = [t \in Targets |-> breakers'[t]]  BY <1>1 DEF IInv, BreakersOK
  <2>2. ASSUME NEW t \in Targets PROVE BreakerShape(breakers'[t])
    BY <1>9 DEF IInv, BreakersOK, BreakerShape
  <2> QED  BY <2>1, <2>2 DEF BreakersOK
<1>12. ASSUME NEW t \in Targets, NEW r \in ProbesOn(t) PROVE r \in ProbesOn(t)'
  <2>1. PICK i \in DOMAIN req[r].holds : req[r].chain[i] = t /\ req[r].holds[i] = "probe"
    BY DEF ProbesOn
  <2>2. r \in Requests  BY DEF ProbesOn
  <2>3. CASE r # q  BY <1>6, <2>1, <2>2, <2>3 DEF ProbesOn
  <2>4. CASE r = q
    <3>1. i \in DOMAIN x.holds /\ x.holds[i] = "probe"
      BY <1>3, <1>4, <1>5, <2>1, <2>4
    <3> QED  BY <1>4, <1>6, <2>1, <2>2, <2>4, <3>1 DEF ProbesOn
  <2> QED  BY <2>3, <2>4
<1>13. ASSUME NEW t \in Targets, t = u, d = "probe" PROVE q \in ProbesOn(t)'
  <2> DEFINE i == req[q].at
  <2>1. i \in DOMAIN x.holds /\ x.holds[i] = "probe"  BY <1>3, <1>4, <1>5, <1>13
  <2>2. x.chain[i] = t  BY <1>4, <1>13 DEF Target
  <2> HIDE DEF i
  <2> QED  BY <1>6, <2>1, <2>2 DEF ProbesOn
<1>14. ProbeHasTicket'
  <2> SUFFICES ASSUME NEW t \in Targets, breakers'[t].probe
               PROVE  IsOpen(breakers'[t]) /\ ProbesOn(t)' # {}
    BY DEF ProbeHasTicket
  <2>0. BreakerShape(breakers[t])  BY DEF IInv, BreakersOK
  <2>1. CASE t = u /\ d = "probe"
    <3>1. breakers'[t].openSince = breakers[t].openSince  BY <1>9, <2>0, <2>1 DEF BreakerShape
    <3> QED  BY <1>10, <1>13, <2>1, <3>1 DEF IsOpen
  <2>2. CASE ~(t = u /\ d = "probe")
    <3>1. breakers'[t] = breakers[t]  BY <1>9, <2>2
    <3> QED  BY <1>12, <3>1 DEF IInv, ProbeHasTicket
  <2> QED  BY <2>1, <2>2
<1> QED  BY <1>2, <1>7, <1>8, <1>11, <1>14 DEF IInv

LEMMA Replace ==
    ASSUME NEW S, NEW s \in Seq(S), NEW i, NEW v \in S
    PROVE  /\ [s EXCEPT ![i] = v] \in Seq(S)
           /\ DOMAIN [s EXCEPT ![i] = v] = DOMAIN s
           /\ \A j \in DOMAIN s \ {i} : [s EXCEPT ![i] = v][j] = s[j]
<1> DEFINE x == [s EXCEPT ![i] = v]
<1>1. s \in [1..Len(s) -> S] /\ Len(s) \in Nat /\ DOMAIN s = 1..Len(s)  OBVIOUS
<1>2. x \in [1..Len(s) -> S] /\ \A j \in DOMAIN s \ {i} : x[j] = s[j]  BY <1>1
<1> HIDE DEF x
<1>3. x \in Seq(S) /\ DOMAIN x = 1..Len(s)  BY <1>1, <1>2
<1> QED  BY <1>1, <1>2, <1>3 DEF x

(* A hold that is settled either was no probe, or its record clears the    *)
(* flag of its breaker.                                                    *)
LEMMA SettleStep == ASSUME IInv, NEW q \in Requests, SettleHold(q) PROVE IInv'
<1> DEFINE i == req[q].at
           u == req[q].chain[i]
           ok == i = req[q].chosen /\ req[q].ok
           pc == IF i = Len(req[q].holds) THEN "done" ELSE req[q].pc
           x == [req[q] EXCEPT !.at = i + 1, !.holds = [req[q].holds EXCEPT ![i] = "settled"],
                               !.pc = pc]
<1>1. /\ req[q].pc = "settle" /\ clock' = clock
      /\ breakers' = IF req[q].holds[i] # "skip"
                     THEN [breakers EXCEPT ![u] = Record(@, ok, clock, PolicyOf[q])]
                     ELSE breakers
  BY DEF SettleHold, Allowed
<1>2. Shape(req[q]) /\ TicketOK(req[q]) /\ clock' \in Nat  BY <1>1 DEF IInv
<1>3. req' = [req EXCEPT ![q] = x]  BY <1>2 DEF SettleHold, IInv, Shape
<1>4. /\ Shape(x) /\ x.holds = [req[q].holds EXCEPT ![i] = "settled"]
      /\ x.chain = req[q].chain /\ x.pc = pc /\ x.at = i + 1 /\ x.ok = req[q].ok
  BY <1>2 DEF Shape
<1>5. x.holds \in Seq(HoldStates) /\ DOMAIN x.holds = DOMAIN req[q].holds
      /\ \A j \in DOMAIN req[q].holds \ {i} : x.holds[j] = req[q].holds[j]
  <2>1. req[q].holds \in Seq(HoldStates) /\ "settled" \in HoldStates
    BY <1>2 DEF TicketOK, HoldStates
  <2> HIDE DEF x, i
  <2> QED  BY <1>4, <2>1, Replace
<1>6. TicketOK(x)
  <2> HIDE DEF x
  <2> QED  BY <1>1, <1>2, <1>4, <1>5 DEF TicketOK
<1> HIDE DEF x
<1>7. req'[q] = x /\ \A r \in Requests \ {q} : req'[r] = req[r]  BY <1>3 DEF IInv
<1>8. req' = [r \in Requests |-> req'[r]]  BY <1>3 DEF IInv
<1>9. \A r \in Requests : Shape(req'[r]) /\ TicketOK(req'[r])
  BY <1>4, <1>6, <1>7 DEF IInv
<1>10. ok \in BOOLEAN /\ PolicyOf[q] \in Policy /\ clock \in Nat
  BY <1>2, RoutePolicyAssumption DEF TicketOK, IInv
<1> HIDE DEF ok
<1>11. ASSUME u \in Targets
       PROVE  /\ BreakerShape(Record(breakers[u], ok, clock, PolicyOf[q]))
              /\ Record(breakers[u], ok, clock, PolicyOf[q]).probe = FALSE
  <2>1. BreakerShape(breakers[u]) /\ (breakers[u].probe => IsOpen(breakers[u]))
    BY <1>11 DEF IInv, BreakersOK, ProbeHasTicket
  <2> QED  BY <2>1, RecordClears
<1>12. BreakersOK'
  <2>1. breakers' = [t \in Targets |-> breakers'[t]]  BY <1>1 DEF IInv, BreakersOK
  <2>2. ASSUME NEW t \in Targets PROVE BreakerShape(breakers'[t])
    BY <1>1, <1>11 DEF IInv, BreakersOK
  <2> QED  BY <2>1, <2>2 DEF BreakersOK
<1>13. ASSUME NEW t \in Targets, breakers'[t].probe
       PROVE  breakers'[t] = breakers[t] /\ (t = u => req[q].holds[i] = "skip")
  BY <1>1, <1>11, <1>13 DEF IInv, BreakersOK
<1>14. ASSUME NEW t \in Targets, t = u => req[q].holds[i] = "skip", NEW r \in ProbesOn(t)
       PROVE  r \in ProbesOn(t)'
  <2>1. PICK j \in DOMAIN req[r].holds : req[r].chain[j] = t /\ req[r].holds[j] = "probe"
    BY DEF ProbesOn
  <2>2. r \in Requests  BY DEF ProbesOn
  <2>3. CASE r # q  BY <1>7, <2>1, <2>2, <2>3 DEF ProbesOn
  <2>4. CASE r = q
    <3>1. j # i  BY <1>14, <2>1, <2>4
    <3>2. j \in DOMAIN x.holds /\ x.holds[j] = "probe"  BY <1>5, <2>1, <2>4, <3>1
    <3> QED  BY <1>4, <1>7, <2>1, <2>2, <2>4, <3>2 DEF ProbesOn
  <2> QED  BY <2>3, <2>4
<1>15. ProbeHasTicket'
  <2> SUFFICES ASSUME NEW t \in Targets, breakers'[t].probe
               PROVE  IsOpen(breakers'[t]) /\ ProbesOn(t)' # {}
    BY DEF ProbeHasTicket
  <2>1. breakers'[t] = breakers[t] /\ (t = u => req[q].holds[i] = "skip")  BY <1>13
  <2>2. IsOpen(breakers[t]) /\ ProbesOn(t) # {}  BY <2>1 DEF IInv, ProbeHasTicket
  <2> QED  BY <1>14, <2>1, <2>2
<1> QED  BY <1>2, <1>8, <1>9, <1>12, <1>15 DEF IInv

LEMMA NextIInv == IInv /\ [Next]_vars => IInv'
<1> SUFFICES ASSUME IInv, [Next]_vars PROVE IInv'  OBVIOUS
<1>1. ASSUME NEW q \in Requests, RequestStep(q) PROVE IInv'
  BY <1>1, AdmissionSteps, CallSteps, TryHoldStep, SettleStep DEF RequestStep
<1>2. ASSUME clock' \in Nat, UNCHANGED <<breakers, req>> PROVE IInv'
  BY <1>2 DEF IInv, BreakersOK, ProbeHasTicket, ProbesOn
<1>3. CASE Tick  BY <1>2, <1>3 DEF Tick, IInv
<1>4. CASE UNCHANGED vars  BY <1>2, <1>4 DEF vars, IInv
<1> QED  BY <1>1, <1>3, <1>4 DEF Next, Quiescent

(* Whatever chains, fallbacks, retries, raw passthrough and cancellations  *)
(* do, and in whichever order tickets are settled, a breaker whose         *)
(* probe_in_flight is set is open and some ticket still holds its probe    *)
(* (AdmissionTicket, BreakerHold): no breaker refuses traffic for ever.    *)
THEOREM NoBreakerWedged == Spec => []ProbeHasTicket
<1>1. IInv => ProbeHasTicket  BY DEF IInv
<1> QED  BY <1>1, InitIInv, NextIInv, PTL DEF Spec
-----------------------------------------------------------------------------
(* Induction along the subsets of a finite set, with the property as a     *)
(* set: what holds of S when it holds of S without one element.            *)
LEMMA Shrinking ==
    ASSUME NEW U, IsFiniteSet(U), NEW T, {} \in T,
           \A S \in SUBSET U : S # {} /\ (\A x \in S : S \ {x} \in T) => S \in T
    PROVE  \A S \in SUBSET U : S \in T
<1> DEFINE Bad == {S \in SUBSET U : S \notin T}
           sizes == {Cardinality(S) : S \in Bad}
<1> SUFFICES ASSUME Bad # {} PROVE FALSE  OBVIOUS
<1>1. \A S \in SUBSET U : IsFiniteSet(S) /\ Cardinality(S) \in Nat
  BY FS_Subset, FS_CardinalityType
<1>2. sizes \subseteq Nat /\ sizes # {}  BY <1>1
<1> HIDE DEF sizes
<1>3. PICK m \in sizes : \A n \in sizes : m <= n  BY <1>2, LeastIndex
<1>4. PICK S \in Bad : m = Cardinality(S)  BY DEF sizes
<1>5. S # {}  BY <1>4
<1>6. ASSUME NEW x \in S PROVE S \ {x} \in T
  <2>1. S \ {x} \in SUBSET U  OBVIOUS
  <2>2. Cardinality(S \ {x}) = m - 1 /\ m \in Nat  BY <1>1, <1>4, FS_RemoveElement
  <2>3. S \ {x} \in Bad => m - 1 \in sizes  BY <2>2 DEF sizes
  <2> QED  BY <1>3, <2>1, <2>2, <2>3
<1> QED  BY <1>4, <1>5, <1>6

(* The recursion by which CallsTo adds up is well founded.                 *)
SumStep(f, S) ==
    IF S = {} THEN 0 ELSE LET x == CHOOSE x \in S : TRUE IN calls[x[1]][x[2]] + f[S \ {x}]

LEMMA SumExists ==
    ASSUME NEW U, IsFiniteSet(U)
    PROVE  \E f : f = [S \in SUBSET U |-> SumStep(f, S)]
<1> DEFINE Level(k) == {S \in SUBSET U : Cardinality(S) <= k}
           Bad == {k \in Nat : ~\E f : f = [S \in Level(k) |-> SumStep(f, S)]}
<1>1. \A S \in SUBSET U : /\ IsFiniteSet(S) /\ Cardinality(S) \in Nat
                          /\ Cardinality(S) <= Cardinality(U)
  BY FS_Subset, FS_CardinalityType
<1>2. Bad = {}
  <2> SUFFICES ASSUME Bad # {} PROVE FALSE  OBVIOUS
  <2>1. PICK k \in Bad : \A j \in Bad : k <= j
    <3>1. Bad \subseteq Nat  OBVIOUS
    <3> HIDE DEF Bad
    <3> QED  BY <3>1, LeastIndex
  <2>2. CASE k = 0
    <3> DEFINE f == [S \in Level(0) |-> 0]
    <3>1. \A S \in Level(0) : S = {}  BY <1>1, FS_EmptySet
    <3>2. f = [S \in Level(0) |-> SumStep(f, S)]  BY <3>1 DEF SumStep
    <3> HIDE DEF f
    <3> QED  BY <2>1, <2>2, <3>2
  <2>3. CASE k # 0
    <3>1. k - 1 \in Nat /\ k - 1 \notin Bad
      <4>1. k \in Nat  OBVIOUS
      <4> HIDE DEF Bad
      <4> QED  BY <2>1, <2>3, <4>1
    <3>2. PICK f : f = [S \in Level(k - 1) |-> SumStep(f, S)]  BY <3>1
    <3> DEFINE g == [S \in Level(k) |-> SumStep(f, S)]
    <3>3. ASSUME NEW S \in Level(k) PROVE SumStep(g, S) = SumStep(f, S)
      <4> DEFINE x == CHOOSE x \in S : TRUE
      <4>1. CASE S = {}  BY <4>1 DEF SumStep
      <4>2. CASE S # {}
        <5>1. x \in S  BY <4>2
        <5>2. Cardinality(S) <= k /\ Cardinality(S) \in Nat /\ IsFiniteSet(S)  BY <1>1
        <5> HIDE DEF x
        <5>3. Cardinality(S \ {x}) = Cardinality(S) - 1  BY <5>1, <5>2, FS_RemoveElement
        <5>4. S \ {x} \in Level(k - 1) /\ S \ {x} \in Level(k)  BY <2>1, <5>2, <5>3
        <5>5. g[S \ {x}] = SumStep(f, S \ {x})  BY <5>4
        <5>6. f[S \ {x}] = SumStep(f, S \ {x})  BY <3>2, <5>4
        <5>7. g[S \ {x}] = f[S \ {x}]  BY <5>5, <5>6
        <5> HIDE DEF g
        <5> QED  BY <4>2, <5>7 DEF SumStep, x
      <4> QED  BY <4>1, <4>2
    <3>4. g = [S \in Level(k) |-> SumStep(g, S)]
      <4>1. \A S \in Level(k) : g[S] = SumStep(g, S)
        <5>1. \A S \in Level(k) : g[S] = SumStep(f, S)  OBVIOUS
        <5> HIDE DEF g, Level
        <5> QED  BY <3>3, <5>1
      <4>2. g = [S \in Level(k) |-> g[S]]  OBVIOUS
      <4> HIDE DEF g, Level
      <4> QED  BY <4>1, <4>2
    <3> HIDE DEF g, Level
    <3> QED  BY <2>1, <3>4
  <2> QED  BY <2>2, <2>3
<1>3. Cardinality(U) \in Nat  BY FS_CardinalityType
<1>4. Level(Cardinality(U)) = SUBSET U  BY <1>1
<1>5. \E f : f = [S \in Level(Cardinality(U)) |-> SumStep(f, S)]
  <2> HIDE DEF Level
  <2> QED  BY <1>2, <1>3
<1> HIDE DEF Level
<1> QED  BY <1>4, <1>5
-----------------------------------------------------------------------------
(* How often t is among the first n elements of a request's chain, and the *)
(* one call that passthrough may add.                                      *)
Hits(r, x, t, n) == {e \in {r} \X (1..n) : x.chain[e[2]] = t}
Raw(r, x, t) == IF r \in Proxied /\ x.chain # << >> /\ x.chain[1] = t THEN 1 ELSE 0
Bound(r, x, t, n) == MaxAttempts * Cardinality(Hits(r, x, t, n)) + Raw(r, x, t)

(* What a request may have called, c, by where it is, x: nothing before    *)
(* passthrough, the head of its chain once in it, and max_attempts for     *)
(* each element the walk has left behind.                                  *)
Uncalled == {"gates", "quota", "holds", "proxy"}

CallsOK(r, x, c) ==
    /\ Len(x.chain) \in Nat /\ x.at \in Nat \ {0} /\ x.attempt \in 1..MaxAttempts
    /\ c \in [Targets -> Nat]
    /\ x.pc \in {"proxy", "proxy_call"} => r \in Proxied
    /\ x.pc \notin {"gates", "done"} => x.chain # << >>
    /\ x.pc \in Uncalled => \A t \in Targets : c[t] = 0
    /\ x.pc = "proxy_call" => \A t \in Targets : c[t] <= Raw(r, x, t)
    /\ x.pc = "walk" => /\ x.at <= Len(x.chain) + 1
                        /\ \A t \in Targets : c[t] <= Bound(r, x, t, x.at - 1)
    /\ x.pc = "call" =>
          /\ x.at <= Len(x.chain)
          /\ \A t \in Targets :
                c[t] <= Bound(r, x, t, x.at - 1) + IF x.chain[x.at] = t THEN x.attempt ELSE 0
    /\ \A t \in Targets : c[t] <= Bound(r, x, t, Len(x.chain))

(* The elements a request has paid for: those that the quota loop has      *)
(* passed, and later all of them, as long as it may call or has called.    *)
PaidUpTo(x, c) ==
    IF x.pc = "quota" THEN x.at - 1
    ELSE IF x.pc = "gates" \/ (x.pc = "done" /\ \A t \in Targets : c[t] = 0) THEN 0
    ELSE Len(x.chain)

PaidFor(p) ==
    {e \in Requests \X Nat : /\ e[2] \in 1..PaidUpTo(req[e[1]], calls[e[1]])
                             /\ ProviderOf[req[e[1]].chain[e[2]]] = p}

(* Each paid element cost a token of its upstream's bucket.                *)
Ledger ==
    \A p \in Providers : UpstreamBucket[p] # NoBucket =>
        /\ IsFiniteSet(PaidFor(p))
        /\ Cardinality(PaidFor(p)) + tokens[UpstreamBucket[p]]
              <= Burst[UpstreamBucket[p]] + Rate[UpstreamBucket[p]] * clock

CInv ==
    /\ tokens \in [Buckets -> Nat]
    /\ calls = [r \in Requests |-> calls[r]]
    /\ \A r \in Requests : CallsOK(r, req[r], calls[r])
    /\ Ledger

LEMMA HitsFinite ==
    ASSUME NEW r, NEW x, NEW t, NEW n \in Nat
    PROVE  /\ IsFiniteSet(Hits(r, x, t, n)) /\ Cardinality(Hits(r, x, t, n)) \in Nat
           /\ Raw(r, x, t) \in {0, 1} /\ Bound(r, x, t, n) \in Nat
           /\ Raw(r, x, t) <= Bound(r, x, t, n)
<1>1. IsFiniteSet(1..n) /\ IsFiniteSet({r})
  <2>1. 1 \in Int /\ n \in Int  OBVIOUS
  <2>2. IsFiniteSet(1..n)  BY <2>1, FS_Interval
  <2> QED  BY <2>2, FS_Singleton
<1>2. IsFiniteSet({r} \X (1..n))  BY <1>1, FS_Product
<1>3. Hits(r, x, t, n) \in SUBSET ({r} \X (1..n))  BY DEF Hits
<1>4. IsFiniteSet(Hits(r, x, t, n)) /\ Cardinality(Hits(r, x, t, n)) \in Nat
  BY <1>2, <1>3, FS_Subset, FS_CardinalityType
<1>5. Raw(r, x, t) \in {0, 1}  BY DEF Raw
<1>6. MaxAttempts * Cardinality(Hits(r, x, t, n)) \in Nat  BY <1>4, NumberAssumption
<1> QED  BY <1>4, <1>5, <1>6 DEF Bound

(* One more element adds max_attempts for it, and nothing for the others.  *)
LEMMA BoundStep ==
    ASSUME NEW r, NEW x, NEW t, NEW n \in Nat \ {0}
    PROVE  Bound(r, x, t, n) = Bound(r, x, t, n - 1) + IF x.chain[n] = t THEN MaxAttempts ELSE 0
<1> DEFINE H == Hits(r, x, t, n - 1)
           e == <<r, n>>
<1>1. n - 1 \in Nat  OBVIOUS
<1>2. IsFiniteSet(H) /\ Cardinality(H) \in Nat /\ Raw(r, x, t) \in {0, 1}  BY <1>1, HitsFinite
<1>3. e \notin H  BY DEF Hits
<1>4. Hits(r, x, t, n) = IF x.chain[n] = t THEN H \cup {e} ELSE H
  <2>1. 1..n = (1..(n - 1)) \cup {n}  OBVIOUS
  <2>2. \A d \in {r} \X (1..n) : d \in {r} \X (1..(n - 1)) \/ d = <<r, n>>  BY <2>1
  <2> QED  BY <2>1, <2>2 DEF Hits
<1> HIDE DEF H, e
<1>5. Cardinality(H \cup {e}) = Cardinality(H) + 1  BY <1>2, <1>3, FS_AddElement
<1>6. MaxAttempts * (Cardinality(H) + 1) = MaxAttempts * Cardinality(H) + MaxAttempts
  BY <1>2, NumberAssumption
<1>7. MaxAttempts * Cardinality(H) \in Nat  BY <1>2, NumberAssumption
<1>8. CASE x.chain[n] = t
  BY <1>2, <1>4, <1>5, <1>6, <1>7, <1>8, NumberAssumption DEF Bound, H
<1>9. CASE x.chain[n] # t  BY <1>2, <1>4, <1>7, <1>9 DEF Bound, H
<1> QED  BY <1>8, <1>9

LEMMA BoundGrows ==
    ASSUME NEW r, NEW x, NEW t, NEW m \in Nat, NEW n \in Nat, m <= n
    PROVE  Bound(r, x, t, m) <= Bound(r, x, t, n)
<1> DEFINE a == Cardinality(Hits(r, x, t, m))
           b == Cardinality(Hits(r, x, t, n))
<1>1. Hits(r, x, t, m) \in SUBSET Hits(r, x, t, n)  BY DEF Hits
<1>2. a \in Nat /\ b \in Nat /\ a <= b  BY <1>1, HitsFinite, FS_Subset
<1>3. Raw(r, x, t) \in {0, 1}  BY HitsFinite
<1> HIDE DEF a, b
<1>4. MaxAttempts * a <= MaxAttempts * b /\ MaxAttempts * a \in Nat /\ MaxAttempts * b \in Nat
  BY <1>2, NumberAssumption
<1> QED  BY <1>3, <1>4 DEF Bound, a, b

(* No request has called a target oftener than it has paid for.            *)
LEMMA CallsPaid ==
    ASSUME NEW r, NEW x, NEW c, CallsOK(r, x, c), NEW t \in Targets
    PROVE  /\ PaidUpTo(x, c) \in Nat /\ c[t] \in Nat
           /\ c[t] <= Bound(r, x, t, PaidUpTo(x, c))
<1>1. /\ Len(x.chain) \in Nat /\ x.at \in Nat \ {0} /\ c[t] \in Nat
      /\ c[t] <= Bound(r, x, t, Len(x.chain))
  BY DEF CallsOK
<1>2. x.at - 1 \in Nat  BY <1>1
<1>3. PaidUpTo(x, c) \in Nat  BY <1>1, <1>2 DEF PaidUpTo
<1>4. PaidUpTo(x, c) = Len(x.chain) \/ c[t] = 0  BY DEF PaidUpTo, CallsOK, Uncalled
<1>5. Bound(r, x, t, PaidUpTo(x, c)) \in Nat  BY <1>3, HitsFinite
<1> QED  BY <1>1, <1>3, <1>4, <1>5

LEMMA CallsCounted ==
    ASSUME CInv, NEW p \in Providers, UpstreamBucket[p] # NoBucket
    PROVE  /\ CallsTo(p) \in Nat
           /\ CallsTo(p) <= MaxAttempts * Cardinality(PaidFor(p)) + Cardinality(Proxied)
<1> DEFINE U == Requests \X Targets
           W == {x \in U : ProviderOf[x[2]] = p}
           f == CHOOSE f : f = [S \in SUBSET U |-> SumStep(f, S)]
           D(S) == {e \in PaidFor(p) : <<e[1], req[e[1]].chain[e[2]]>> \in S}
           R(S) == {r \in Proxied : <<r, req[r].chain[1]>> \in S}
           T == {S \in SUBSET W : /\ f[S] \in Nat
                                  /\ f[S] <= MaxAttempts * Cardinality(D(S)) + Cardinality(R(S))}
<1>1. IsFiniteSet(U) /\ IsFiniteSet(W) /\ W \in SUBSET U
  <2>1. IsFiniteSet(U)  BY FiniteAssumption, FS_Product
  <2>2. W \in SUBSET U  OBVIOUS
  <2> HIDE DEF U, W
  <2> QED  BY <2>1, <2>2, FS_Subset
<1>2. CallsTo(p) = f[W]  BY DEF CallsTo, SumStep
<1>3. f = [S \in SUBSET U |-> SumStep(f, S)]
  <2> HIDE DEF U
  <2> QED  BY <1>1, SumExists
<1> HIDE DEF f
<1>4. \A S \in SUBSET W : f[S] = SumStep(f, S)  BY <1>1, <1>3
<1>5. IsFiniteSet(PaidFor(p)) /\ IsFiniteSet(Proxied)
  BY FiniteAssumption, InputAssumption, FS_Subset DEF CInv, Ledger
<1>6. \A S : /\ IsFiniteSet(D(S)) /\ Cardinality(D(S)) \in Nat
             /\ Cardinality(D(S)) <= Cardinality(PaidFor(p))
             /\ IsFiniteSet(R(S)) /\ Cardinality(R(S)) \in Nat
             /\ Cardinality(R(S)) <= Cardinality(Proxied)
  <2> SUFFICES ASSUME NEW S
               PROVE  /\ IsFiniteSet(D(S)) /\ Cardinality(D(S)) \in Nat
                      /\ Cardinality(D(S)) <= Cardinality(PaidFor(p))
                      /\ IsFiniteSet(R(S)) /\ Cardinality(R(S)) \in Nat
                      /\ Cardinality(R(S)) <= Cardinality(Proxied)
    OBVIOUS
  <2>1. D(S) \in SUBSET PaidFor(p) /\ R(S) \in SUBSET Proxied  OBVIOUS
  <2> HIDE DEF D, R
  <2> QED  BY <1>5, <2>1, FS_Subset, FS_CardinalityType
<1>7. {} \in T
  <2>1. {} \in SUBSET W /\ f[{}] = 0  BY <1>4 DEF SumStep
  <2>2. MaxAttempts * Cardinality(D({})) \in Nat /\ Cardinality(R({})) \in Nat
    <3> HIDE DEF D, R
    <3> QED  BY <1>6, NumberAssumption
  <2> HIDE DEF D, R
  <2> QED  BY <2>1, <2>2
<1>8. ASSUME NEW S \in SUBSET W, S # {}, \A x \in S : S \ {x} \in T PROVE S \in T
  <2> DEFINE x == CHOOSE x \in S : TRUE
             r == x[1]
             t == x[2]
             Z == S \ {x}
             paid == PaidUpTo(req[r], calls[r])
             H == Hits(r, req[r], t, paid)
  <2>1. x \in S  BY <1>8
  <2>2. f[S] = calls[r][t] + f[Z]  BY <1>4, <1>8 DEF SumStep
  <2> HIDE DEF x
  <2>3. Z \in T  BY <1>8, <2>1
  <2>4. r \in Requests /\ t \in Targets /\ x = <<r, t>> /\ ProviderOf[t] = p  BY <2>1
  <2> HIDE DEF r, t
  <2>5. /\ paid \in Nat /\ calls[r][t] \in Nat
        /\ calls[r][t] <= MaxAttempts * Cardinality(H) + Raw(r, req[r], t)
    BY <2>4, CallsPaid DEF CInv, Bound
  <2>6. IsFiniteSet(H) /\ Cardinality(H) \in Nat /\ Raw(r, req[r], t) \in {0, 1}
    <3> HIDE DEF paid
    <3> QED  BY <2>5, HitsFinite
  <2>7. D(Z) \cup H = D(S) /\ D(Z) \cap H = {}
    <3>1. ASSUME NEW e \in H PROVE e \in D(S) /\ e \notin D(Z)
      <4>1. e[1] = r /\ e[2] \in 1..paid /\ req[r].chain[e[2]] = t /\ e = <<e[1], e[2]>>
        BY DEF Hits
      <4>2. e \in Requests \X Nat  BY <2>4, <2>5, <4>1
      <4>3. e \in PaidFor(p)  BY <2>4, <4>1, <4>2 DEF PaidFor
      <4> QED  BY <2>1, <2>4, <4>1, <4>3
    <3>2. ASSUME NEW e \in D(S), e \notin D(Z) PROVE e \in H
      <4>1. <<e[1], req[e[1]].chain[e[2]]>> = x /\ e \in PaidFor(p)  BY <3>2
      <4>2. e[1] = r /\ req[r].chain[e[2]] = t  BY <2>4, <4>1
      <4>3. e \in Requests \X Nat /\ e[2] \in 1..paid  BY <4>1, <4>2 DEF PaidFor
      <4> QED  BY <4>2, <4>3 DEF Hits
    <3>3. D(Z) \subseteq D(S)  OBVIOUS
    <3> HIDE DEF D, H, Z
    <3> QED  BY <3>1, <3>2, <3>3
  <2>8. Cardinality(D(S)) = Cardinality(D(Z)) + Cardinality(H)
    <3> HIDE DEF D, H, Z
    <3>1. Cardinality(D(Z) \cup H)
            = Cardinality(D(Z)) + Cardinality(H) - Cardinality(D(Z) \cap H)
      BY <1>6, <2>6, FS_Union
    <3>2. Cardinality(D(Z)) \in Nat /\ Cardinality(D(Z) \cap H) = 0
      BY <1>6, <2>7, FS_EmptySet
    <3>3. Cardinality(D(Z) \cup H) = Cardinality(D(Z)) + Cardinality(H)
      BY <2>6, <3>1, <3>2
    <3> QED  BY <2>7, <3>3
  <2>9. Cardinality(R(Z)) + Raw(r, req[r], t) <= Cardinality(R(S))
    <3>1. CASE Raw(r, req[r], t) = 1
      <4>1. r \in Proxied /\ req[r].chain[1] = t  BY <3>1 DEF Raw
      <4>2. R(Z) \cup {r} \in SUBSET R(S) /\ r \notin R(Z)  BY <2>1, <2>4, <4>1
      <4> HIDE DEF R, Z
      <4>3. Cardinality(R(Z) \cup {r}) = Cardinality(R(Z)) + 1  BY <1>6, <4>2, FS_AddElement
      <4>4. Cardinality(R(Z) \cup {r}) <= Cardinality(R(S))  BY <1>6, <4>2, FS_Subset
      <4> QED  BY <1>6, <3>1, <4>3, <4>4
    <3>2. CASE Raw(r, req[r], t) = 0
      <4>1. R(Z) \in SUBSET R(S)  OBVIOUS
      <4> HIDE DEF R, Z
      <4>2. Cardinality(R(Z)) <= Cardinality(R(S))  BY <1>6, <4>1, FS_Subset
      <4>3. Cardinality(R(Z)) \in Nat  BY <1>6
      <4> QED  BY <3>2, <4>2, <4>3
    <3> QED  BY <2>6, <3>1, <3>2
  <2>10. f[Z] \in Nat /\ f[Z] <= MaxAttempts * Cardinality(D(Z)) + Cardinality(R(Z))
    BY <2>3
  <2> DEFINE d == Cardinality(D(Z))
             h == Cardinality(H)
  <2>11. /\ MaxAttempts * (d + h) = MaxAttempts * d + MaxAttempts * h
         /\ MaxAttempts * d \in Nat /\ MaxAttempts * h \in Nat
    <3>1. d \in Nat /\ h \in Nat
      <4> HIDE DEF D, H
      <4> QED  BY <1>6, <2>6
    <3> HIDE DEF d, h
    <3> QED  BY <3>1, NumberAssumption
  <2>12. f[S] \in Nat /\ f[S] <= MaxAttempts * Cardinality(D(S)) + Cardinality(R(S))
    <3> HIDE DEF D, R, H, Z
    <3> QED  BY <1>6, <2>2, <2>5, <2>6, <2>8, <2>9, <2>10, <2>11
  <2> QED  BY <2>12
<1>9. W \in T
  <2> HIDE DEF T, W
  <2>1. \A S \in SUBSET W : S \in T  BY <1>1, <1>7, <1>8, Shrinking
  <2> QED  BY <2>1
<1>10. f[W] <= MaxAttempts * Cardinality(D(W)) + Cardinality(R(W)) /\ f[W] \in Nat  BY <1>9
<1> DEFINE d == Cardinality(D(W))
           n == Cardinality(PaidFor(p))
<1>11. d \in Nat /\ n \in Nat /\ d <= n  BY <1>5, <1>6, FS_CardinalityType
<1>12. MaxAttempts * d <= MaxAttempts * n /\ MaxAttempts * d \in Nat /\ MaxAttempts * n \in Nat
  <2> HIDE DEF d, n
  <2> QED  BY <1>11, NumberAssumption
<1>13. Cardinality(R(W)) <= Cardinality(Proxied) /\ Cardinality(R(W)) \in Nat
       /\ Cardinality(Proxied) \in Nat
  <2> HIDE DEF R
  <2> QED  BY <1>5, <1>6, FS_CardinalityType
<1> HIDE DEF D, R, W
<1> QED  BY <1>2, <1>10, <1>12, <1>13

LEMMA CInvBounds == ASSUME IInv, CInv PROVE CallsBounded
<1> SUFFICES ASSUME NEW p \in Providers, UpstreamBucket[p] # NoBucket
             PROVE  CallsTo(p) <= MaxAttempts * (Burst[UpstreamBucket[p]]
                                                 + Rate[UpstreamBucket[p]] * clock)
                                  + Cardinality(Proxied)
  BY DEF CallsBounded
<1> DEFINE b == UpstreamBucket[p]
           n == Cardinality(PaidFor(p))
           m == Burst[b] + Rate[b] * clock
<1>1. b \in Buckets  BY BucketAssumption
<1>2. n \in Nat /\ tokens[b] \in Nat /\ n + tokens[b] <= m
  BY <1>1, FS_CardinalityType DEF CInv, Ledger
<1>3. m \in Nat
  <2>1. Burst[b] \in Nat /\ Rate[b] \in Nat /\ clock \in Nat  BY <1>1, BucketAssumption DEF IInv
  <2> QED  BY <2>1
<1>4. n <= m
  <2> HIDE DEF n, m, b
  <2> QED  BY <1>2, <1>3
<1>5. MaxAttempts * n <= MaxAttempts * m /\ MaxAttempts * n \in Nat /\ MaxAttempts * m \in Nat
  <2> HIDE DEF n, m
  <2> QED  BY <1>2, <1>3, <1>4, NumberAssumption
<1>6. CallsTo(p) \in Nat /\ CallsTo(p) <= MaxAttempts * n + Cardinality(Proxied)  BY CallsCounted
<1>7. Cardinality(Proxied) \in Nat
  BY FiniteAssumption, InputAssumption, FS_Subset, FS_CardinalityType
<1> QED  BY <1>5, <1>6, <1>7
-----------------------------------------------------------------------------
(* A step that moves request q: the others stand still, its chain stays.   *)
Others(q) == \A r \in Requests \ {q} : req'[r] = req[r]

Moved(q, pc, at, attempt) ==
    /\ Others(q)
    /\ req'[q].pc = pc /\ req'[q].at = at /\ req'[q].attempt = attempt
    /\ req'[q].chain = req[q].chain

LEMMA InitCInv == Init => CInv
<1> SUFFICES ASSUME Init PROVE CInv  OBVIOUS
<1>1. tokens \in [Buckets -> Nat]  BY BucketAssumption DEF Init
<1>2. calls = [r \in Requests |-> calls[r]]  BY DEF Init
<1>3. ASSUME NEW r \in Requests PROVE CallsOK(r, req[r], calls[r])
  <2>1. req[r] = NewRequest /\ calls[r] = [t \in Targets |-> 0]  BY DEF Init
  <2>2. Len(<< >>) = 0 /\ 1 \in 1..MaxAttempts  BY NumberAssumption
  <2>3. \A t \in Targets : Bound(r, NewRequest, t, 0) \in Nat  BY HitsFinite
  <2> QED  BY <2>1, <2>2, <2>3 DEF CallsOK, NewRequest, Uncalled
<1>4. Ledger
  <2> SUFFICES ASSUME NEW p \in Providers, UpstreamBucket[p] # NoBucket
               PROVE  /\ IsFiniteSet(PaidFor(p))
                      /\ Cardinality(PaidFor(p)) + tokens[UpstreamBucket[p]]
                            <= Burst[UpstreamBucket[p]] + Rate[UpstreamBucket[p]] * clock
    BY DEF Ledger
  <2>1. \A r \in Requests : PaidUpTo(req[r], calls[r]) = 0  BY DEF Init, NewRequest, PaidUpTo
  <2>2. PaidFor(p) = {}  BY <2>1 DEF PaidFor
  <2>3. IsFiniteSet(PaidFor(p)) /\ Cardinality(PaidFor(p)) = 0  BY <2>2, FS_EmptySet
  <2>4. UpstreamBucket[p] \in Buckets /\ clock = 0 /\ tokens = Burst
    BY BucketAssumption DEF Init
  <2>5. Burst[UpstreamBucket[p]] \in Nat /\ Rate[UpstreamBucket[p]] \in Nat
    BY <2>4, BucketAssumption
  <2> QED  BY <2>3, <2>4, <2>5
<1> QED  BY <1>1, <1>2, <1>3, <1>4 DEF CInv

(* A request that pays for nothing new keeps the ledger: the tokens it     *)
(* takes, or a refill short of the clock's, only widen the margin.         *)
LEMMA LedgerKeeps ==
    ASSUME IInv, CInv, NEW q \in Requests, clock' = clock, Others(q),
           tokens' \in [Buckets -> Nat], \A b \in Buckets : tokens'[b] <= tokens[b],
           calls' = [r \in Requests |-> calls'[r]],
           \A r \in Requests \ {q} : calls'[r] = calls[r],
           CallsOK(q, req'[q], calls'[q]),
           \/ PaidUpTo(req'[q], calls'[q]) = 0
           \/ /\ req'[q].chain = req[q].chain
              /\ PaidUpTo(req'[q], calls'[q]) <= PaidUpTo(req[q], calls[q])
    PROVE  CInv'
<1>1. \A r \in Requests : CallsOK(r, req'[r], calls'[r])  BY DEF CInv, Others
<1>2. ASSUME NEW p \in Providers, UpstreamBucket[p] # NoBucket
      PROVE  /\ IsFiniteSet(PaidFor(p)')
             /\ Cardinality(PaidFor(p)') + tokens'[UpstreamBucket[p]]
                   <= Burst[UpstreamBucket[p]] + Rate[UpstreamBucket[p]] * clock'
  <2> DEFINE b == UpstreamBucket[p]
             P == PaidFor(p)
             Q == PaidFor(p)'
             m == Burst[b] + Rate[b] * clock
  <2>1. ASSUME NEW e \in Q PROVE e \in P
    <3>1. /\ e \in Requests \X Nat /\ e[2] \in 1..PaidUpTo(req'[e[1]], calls'[e[1]])
          /\ ProviderOf[req'[e[1]].chain[e[2]]] = p
      BY DEF PaidFor
    <3>2. CASE e[1] # q
      <4>1. req'[e[1]] = req[e[1]] /\ calls'[e[1]] = calls[e[1]]  BY <3>1, <3>2 DEF Others
      <4> QED  BY <3>1, <4>1 DEF PaidFor
    <3>3. CASE e[1] = q
      <4>1. CallsOK(q, req[q], calls[q])  BY DEF CInv
      <4>2. PaidUpTo(req'[q], calls'[q]) \in Nat /\ PaidUpTo(req[q], calls[q]) \in Nat
        BY <4>1 DEF PaidUpTo, CallsOK
      <4>3. e[2] \in Nat /\ e[2] >= 1 /\ e[2] <= PaidUpTo(req'[q], calls'[q])
        BY <3>1, <3>3, <4>2
      <4>4. /\ req'[q].chain = req[q].chain
            /\ PaidUpTo(req'[q], calls'[q]) <= PaidUpTo(req[q], calls[q])
        BY <4>2, <4>3
      <4>5. e[2] \in 1..PaidUpTo(req[q], calls[q])  BY <4>2, <4>3, <4>4
      <4> QED  BY <3>1, <3>3, <4>4, <4>5 DEF PaidFor
    <3> QED  BY <3>2, <3>3
  <2>2. IsFiniteSet(P) /\ Cardinality(P) + tokens[b] <= m  BY <1>2 DEF CInv, Ledger
  <2>3. b \in Buckets  BY <1>2, BucketAssumption
  <2>4. tokens[b] \in Nat /\ tokens'[b] \in Nat /\ tokens'[b] <= tokens[b]
    BY <2>3 DEF CInv
  <2>5. Q \in SUBSET P  BY <2>1
  <2> HIDE DEF P, Q, b
  <2>6. IsFiniteSet(Q) /\ Cardinality(Q) <= Cardinality(P)
        /\ Cardinality(P) \in Nat /\ Cardinality(Q) \in Nat
    BY <2>2, <2>5, FS_Subset, FS_CardinalityType
  <2>7. Cardinality(Q) + tokens'[b] <= Cardinality(P) + tokens[b]  BY <2>4, <2>6
  <2>8. Cardinality(Q) + tokens'[b] <= m
    <3> DEFINE g == Cardinality(Q) + tokens'[b]
               h == Cardinality(P) + tokens[b]
    <3>1. g \in Nat /\ h \in Nat  BY <2>4, <2>6
    <3>2. m \in Nat
      <4>1. Burst[b] \in Nat /\ Rate[b] \in Nat /\ clock \in Nat
        BY <2>3, BucketAssumption DEF IInv
      <4> QED  BY <4>1
    <3> HIDE DEF g, h, m
    <3> QED  BY <2>2, <2>7, <3>1, <3>2 DEF g, h
  <2> QED  BY <2>6, <2>8 DEF P, Q, b
<1> QED  BY <1>1, <1>2 DEF CInv, Ledger
-----------------------------------------------------------------------------
LEMMA SameBound ==
    ASSUME NEW r, NEW x, NEW y, x.chain = y.chain
    PROVE  \A t, n : Raw(r, x, t) = Raw(r, y, t) /\ Bound(r, x, t, n) = Bound(r, y, t, n)
BY DEF Raw, Bound, Hits

(* Time stands still and no bucket is refilled.                            *)
Spends ==
    /\ clock' = clock
    /\ tokens' \in [Buckets -> Nat] /\ \A b \in Buckets : tokens'[b] <= tokens[b]

LEMMA Spending ==
    ASSUME CInv, clock' = clock,
           UNCHANGED tokens \/ \E b : Take(b) \/ Empty(b)
    PROVE  Spends
<1>1. CASE UNCHANGED tokens  BY <1>1 DEF Spends, CInv
<1>2. ASSUME NEW b \in Buckets, Take(b) PROVE Spends
  <2>1. tokens[b] \in Nat /\ tokens[b] > 0 /\ tokens' = [tokens EXCEPT ![b] = @ - 1]
    BY <1>2 DEF Take, CInv
  <2>2. tokens[b] - 1 \in Nat /\ tokens[b] - 1 <= tokens[b]  BY <2>1
  <2>3. \A a \in Buckets : tokens[a] \in Nat /\ tokens[a] <= tokens[a]  BY DEF CInv
  <2> QED  BY <2>1, <2>2, <2>3 DEF Spends, CInv
<1>3. ASSUME NEW b, b \notin Buckets, Take(b) PROVE UNCHANGED tokens  BY <1>3 DEF Take, CInv
<1> QED  BY <1>1, <1>2, <1>3 DEF Empty

LEMMA MovedForms ==
    ASSUME IInv, NEW q \in Requests
    PROVE  /\ \A pc : Goto(q, pc) => Moved(q, pc, 1, req[q].attempt)
           /\ Step(q) => Moved(q, req[q].pc, req[q].at + 1, req[q].attempt)
           /\ \A o : Finish(q, o) => Moved(q, "done", req[q].at, req[q].attempt)
           /\ \A i, ok, o : SettleTicket(q, i, ok, o) => Moved(q, "settle", 1, req[q].attempt)
<1>1. Shape(req[q]) /\ req = [r \in Requests |-> req[r]]  BY DEF IInv
<1>2. ASSUME NEW pc, Goto(q, pc) PROVE Moved(q, pc, 1, req[q].attempt)
  BY <1>1, <1>2 DEF Goto, Moved, Others, Shape
<1>3. ASSUME Step(q) PROVE Moved(q, req[q].pc, req[q].at + 1, req[q].attempt)
  BY <1>1, <1>3 DEF Step, Moved, Others, Shape
<1>4. ASSUME NEW o, Finish(q, o) PROVE Moved(q, "done", req[q].at, req[q].attempt)
  BY <1>1, <1>4 DEF Finish, Moved, Others, Shape
<1>5. ASSUME NEW i, NEW ok, NEW o, SettleTicket(q, i, ok, o)
      PROVE  Moved(q, "settle", 1, req[q].attempt)
  BY <1>1, <1>5 DEF SettleTicket, Moved, Others, Shape
<1> QED  BY <1>2, <1>3, <1>4, <1>5

(* A move that neither calls an upstream nor pays for one: it may leave    *)
(* the quota loop only at the end of the chain, or for good.               *)
LEMMA QuietMove ==
    ASSUME IInv, CInv, NEW q \in Requests, Spends, UNCHANGED calls,
           NEW pc, NEW at \in Nat \ {0}, Moved(q, pc, at, req[q].attempt),
           req[q].pc # "done", pc \notin {"quota", "proxy_call", "call"},
           pc = "proxy" => q \in Proxied,
           pc \in Uncalled => req[q].pc \in Uncalled,
           pc = "gates" => req[q].pc = "gates",
           req[q].pc = "gates" => pc \in {"gates", "done"},
           req[q].pc = "quota" => pc = "done" \/ req[q].at > Len(req[q].chain),
           pc = "walk" => /\ at <= Len(req[q].chain) + 1
                          /\ \A t \in Targets : calls[q][t] <= Bound(q, req[q], t, at - 1)
    PROVE  CInv'
<1> DEFINE x == req[q]
           y == req'[q]
           c == calls[q]
<1>1. CallsOK(q, x, c)  BY DEF CInv
<1>2. y.pc = pc /\ y.at = at /\ y.attempt = x.attempt /\ y.chain = x.chain /\ Others(q)
  BY DEF Moved
<1>3. \A t, n : Raw(q, y, t) = Raw(q, x, t) /\ Bound(q, y, t, n) = Bound(q, x, t, n)
  BY <1>2, SameBound
<1>4. pc = "walk" => /\ at <= Len(x.chain) + 1
                     /\ \A t \in Targets : c[t] <= Bound(q, x, t, at - 1)
  OBVIOUS
<1>5. CallsOK(q, y, c)
  <2> HIDE DEF x, y, c
  <2>1. y.pc = "walk" => /\ y.at <= Len(y.chain) + 1
                         /\ \A t \in Targets : c[t] <= Bound(q, y, t, y.at - 1)
    BY <1>2, <1>3, <1>4
  <2>2. \A t \in Targets : c[t] <= Bound(q, y, t, Len(y.chain))  BY <1>1, <1>2, <1>3 DEF CallsOK
  <2>3. y.pc \in Uncalled => \A t \in Targets : c[t] = 0  BY <1>1, <1>2 DEF CallsOK, x
  <2>4. y.pc \notin {"gates", "done"} => y.chain # << >>  BY <1>1, <1>2 DEF CallsOK, x
  <2> QED  BY <1>1, <1>2, <2>1, <2>2, <2>3, <2>4 DEF CallsOK
<1>6. PaidUpTo(y, c) = 0 \/ PaidUpTo(y, c) <= PaidUpTo(x, c)
  <2>1. Len(x.chain) \in Nat /\ x.at \in Nat  BY <1>1 DEF CallsOK
  <2>2. CASE x.pc = "gates"
    <3>1. \A t \in Targets : c[t] = 0  BY <1>1, <2>2 DEF CallsOK, Uncalled
    <3>2. pc \in {"gates", "done"}  BY <2>2
    <3> QED  BY <1>2, <3>1, <3>2 DEF PaidUpTo
  <2>3. CASE x.pc = "quota" /\ pc = "done"
    <3>1. \A t \in Targets : c[t] = 0  BY <1>1, <2>3 DEF CallsOK, Uncalled
    <3> QED  BY <1>2, <2>3, <3>1 DEF PaidUpTo
  <2>4. CASE x.pc = "quota" /\ x.at > Len(x.chain)
    <3>1. PaidUpTo(x, c) = x.at - 1  BY <2>4 DEF PaidUpTo
    <3>2. PaidUpTo(y, c) = 0 \/ PaidUpTo(y, c) = Len(x.chain)  BY <1>2 DEF PaidUpTo
    <3> QED  BY <2>1, <2>4, <3>1, <3>2
  <2>5. CASE x.pc \notin {"gates", "quota"}
    <3>1. PaidUpTo(x, c) = Len(x.chain)  BY <2>5 DEF PaidUpTo
    <3>2. PaidUpTo(y, c) = 0 \/ PaidUpTo(y, c) = Len(x.chain)  BY <1>2 DEF PaidUpTo
    <3> QED  BY <2>1, <3>1, <3>2
  <2> QED  BY <2>2, <2>3, <2>4, <2>5
<1>7. calls' = [r \in Requests |-> calls'[r]] /\ calls'[q] = c  BY DEF CInv
<1> QED  BY <1>2, <1>5, <1>6, <1>7, LedgerKeeps DEF Spends

(* The walk starts at the head of the chain.                               *)
LEMMA StartWalk ==
    ASSUME IInv, CInv, NEW q \in Requests, Spends, UNCHANGED calls,
           Moved(q, "walk", 1, req[q].attempt),
           req[q].pc \in {"holds", "proxy", "proxy_call"},
           \A t \in Targets : calls[q][t] <= Bound(q, req[q], t, 1 - 1)
    PROVE  CInv'
<1>1. Len(req[q].chain) \in Nat  BY DEF CInv, CallsOK
<1>2. 1 <= Len(req[q].chain) + 1 /\ 1 \in Nat \ {0}  BY <1>1
<1>3. "walk" \notin Uncalled  BY DEF Uncalled
<1> QED  BY <1>2, <1>3, QuietMove

(* A refusal during admission, and a ticket on its way out.                *)
LEMMA Refused ==
    ASSUME IInv, CInv, NEW q \in Requests, Spends, UNCHANGED calls,
           req[q].pc # "done", NEW o, Finish(q, o)
    PROVE  CInv'
<1>1. Moved(q, "done", req[q].at, req[q].attempt)  BY MovedForms
<1>2. req[q].at \in Nat \ {0}  BY DEF CInv, CallsOK
<1>3. "done" \notin Uncalled  BY DEF Uncalled
<1> QED  BY <1>1, <1>2, <1>3, QuietMove

LEMMA Leaves ==
    ASSUME IInv, CInv, NEW q \in Requests, UNCHANGED <<clock, tokens, calls>>,
           req[q].pc \notin {"gates", "quota", "done"}, NEW i, NEW ok, NEW o,
           SettleTicket(q, i, ok, o)
    PROVE  CInv'
<1>1. Moved(q, "settle", 1, req[q].attempt) /\ Spends  BY MovedForms, Spending
<1>2. "settle" \notin Uncalled  BY DEF Uncalled
<1>3. 1 \in Nat \ {0}  OBVIOUS
<1> QED  BY <1>1, <1>2, <1>3, QuietMove

(* The walk goes on to the next element, and what comes after the calls.   *)
LEMMA WalkOn ==
    ASSUME IInv, CInv, NEW q \in Requests, UNCHANGED <<clock, tokens, calls>>,
           req[q].pc \in {"walk", "call"}, req[q].at <= Len(req[q].chain),
           Moved(q, "walk", req[q].at + 1, req[q].attempt),
           \A t \in Targets : calls[q][t] <= Bound(q, req[q], t, req[q].at)
    PROVE  CInv'
<1> DEFINE at == req[q].at + 1
<1>1. Len(req[q].chain) \in Nat /\ req[q].at \in Nat \ {0}  BY DEF CInv, CallsOK
<1>2. at \in Nat \ {0} /\ at <= Len(req[q].chain) + 1 /\ at - 1 = req[q].at  BY <1>1
<1>3. Spends /\ "walk" \notin Uncalled  BY Spending DEF Uncalled
<1>4. Moved(q, "walk", at, req[q].attempt)  OBVIOUS
<1> HIDE DEF at
<1>5. \A t \in Targets : calls[q][t] <= Bound(q, req[q], t, at - 1)  BY <1>2
<1> QED  BY <1>2, <1>3, <1>4, <1>5, QuietMove

LEMMA Afterwards ==
    ASSUME IInv, CInv, NEW q \in Requests, UNCHANGED <<clock, tokens, calls>>,
           req[q].pc \notin {"gates", "quota", "done"}, NEW pc \in {"stream", "settle", "done"},
           NEW at \in Nat \ {0}, Moved(q, pc, at, req[q].attempt)
    PROVE  CInv'
<1>1. Spends /\ pc \notin Uncalled  BY Spending DEF Uncalled
<1> QED  BY <1>1, QuietMove

LEMMA CallCounts ==
    ASSUME CInv, NEW q \in Requests, NEW u, Call(q, u)
    PROVE  /\ calls' = [r \in Requests |-> calls'[r]]
           /\ \A r \in Requests \ {q} : calls'[r] = calls[r]
           /\ calls'[q] \in [Targets -> Nat]
           /\ \A t \in Targets : calls'[q][t] = calls[q][t] + IF t = u THEN 1 ELSE 0
<1>1. calls = [r \in Requests |-> calls[r]] /\ calls[q] \in [Targets -> Nat]
  BY DEF CInv, CallsOK
<1>2. calls' = [calls EXCEPT ![q] = [calls[q] EXCEPT ![u] = calls[q][u] + 1]]
  BY <1>1 DEF Call
<1>3. calls'[q] = [calls[q] EXCEPT ![u] = calls[q][u] + 1]  BY <1>1, <1>2
<1>4. calls' = [r \in Requests |-> calls'[r]] /\ \A r \in Requests \ {q} : calls'[r] = calls[r]
  BY <1>1, <1>2
<1>5. ASSUME NEW t \in Targets
      PROVE  calls'[q][t] \in Nat /\ calls'[q][t] = calls[q][t] + IF t = u THEN 1 ELSE 0
  BY <1>1, <1>3
<1>6. calls'[q] \in [Targets -> Nat]
  <2>1. calls'[q] = [t \in Targets |-> calls'[q][t]]  BY <1>1, <1>3
  <2> QED  BY <1>5, <2>1
<1> QED  BY <1>4, <1>5, <1>6

(* A call is made for an element that is already paid for.                 *)
LEMMA CallMove ==
    ASSUME IInv, CInv, NEW q \in Requests, UNCHANGED <<clock, tokens>>, NEW u, Call(q, u),
           NEW pc \in {"proxy_call", "call"}, NEW at, NEW attempt, Moved(q, pc, at, attempt),
           req[q].pc \in {"proxy", "walk", "call"}, CallsOK(q, req'[q], calls'[q])
    PROVE  CInv'
<1>1. Others(q) /\ req'[q].pc = pc /\ req'[q].chain = req[q].chain  BY DEF Moved
<1>2. Len(req[q].chain) \in Nat  BY DEF CInv, CallsOK
<1>3. PaidUpTo(req'[q], calls'[q]) <= PaidUpTo(req[q], calls[q])
  <2>1. PaidUpTo(req'[q], calls'[q]) = Len(req[q].chain)  BY <1>1 DEF PaidUpTo
  <2>2. PaidUpTo(req[q], calls[q]) = Len(req[q].chain)  BY DEF PaidUpTo
  <2> QED  BY <1>2, <2>1, <2>2
<1>4. Spends  BY Spending
<1> QED  BY <1>1, <1>3, <1>4, CallCounts, LedgerKeeps DEF Spends

(* The calls for the element at hand stay within what the walk may make.   *)
LEMMA CallWithin ==
    ASSUME NEW q, NEW x, NEW c, NEW t, c[t] \in Nat, Len(x.chain) \in Nat,
           x.at \in Nat \ {0}, x.at <= Len(x.chain), x.attempt \in 1..MaxAttempts,
           c[t] <= Bound(q, x, t, x.at - 1) + IF x.chain[x.at] = t THEN x.attempt ELSE 0
    PROVE  /\ c[t] <= Bound(q, x, t, x.at)
           /\ c[t] <= Bound(q, x, t, Len(x.chain))
<1> DEFINE at == x.at
           n == Len(x.chain)
<1>1. at \in Nat \ {0} /\ at - 1 \in Nat /\ n \in Nat /\ at <= n  OBVIOUS
<1> HIDE DEF at, n
<1>2. /\ Bound(q, x, t, at) = Bound(q, x, t, at - 1)
                              + IF x.chain[at] = t THEN MaxAttempts ELSE 0
      /\ Bound(q, x, t, at) <= Bound(q, x, t, n)
  BY <1>1, BoundStep, BoundGrows
<1>3. /\ Bound(q, x, t, at) \in Nat /\ Bound(q, x, t, at - 1) \in Nat
      /\ Bound(q, x, t, n) \in Nat
  BY <1>1, HitsFinite
<1>4. c[t] <= Bound(q, x, t, at - 1) + IF x.chain[at] = t THEN x.attempt ELSE 0  BY DEF at
<1>5. MaxAttempts \in Nat /\ x.attempt \in Nat /\ x.attempt <= MaxAttempts
  BY NumberAssumption
<1>6. c[t] <= Bound(q, x, t, at)  BY <1>2, <1>3, <1>4, <1>5
<1> QED  BY <1>2, <1>3, <1>6 DEF at, n

LEMMA CallingSteps ==
    ASSUME IInv, CInv, NEW q \in Requests, ProxyRaw(q) \/ WalkCall(q) \/ RetryCall(q)
    PROVE  CInv'
<1> DEFINE x == req[q]
           y == req'[q]
           c == calls[q]
           d == calls'[q]
<1>1. CallsOK(q, x, c) /\ Shape(x) /\ req = [r \in Requests |-> req[r]]  BY DEF CInv, IInv
<1>2. Len(x.chain) \in Nat /\ x.at \in Nat \ {0} /\ x.attempt \in 1..MaxAttempts
      /\ c \in [Targets -> Nat]
  BY <1>1 DEF CallsOK
<1>3. ASSUME ProxyRaw(q), Goto(q, "walk"), UNCHANGED calls PROVE CInv'
  <2>1. x.pc = "proxy" /\ Spends  BY <1>3, Spending DEF ProxyRaw
  <2>2. \A t \in Targets : c[t] = 0  BY <1>1, <2>1 DEF CallsOK, Uncalled
  <2>3. \A t \in Targets : c[t] <= Bound(q, x, t, 1 - 1)  BY <2>2, HitsFinite
  <2>4. Moved(q, "walk", 1, x.attempt)  BY <1>3, MovedForms
  <2> QED  BY <1>3, <2>1, <2>3, <2>4, StartWalk
<1>4. ASSUME ProxyRaw(q), Goto(q, "proxy_call"), Call(q, x.chain[1]) PROVE CInv'
  <2>1. x.pc = "proxy" /\ UNCHANGED <<clock, tokens>>  BY <1>4 DEF ProxyRaw
  <2>2. q \in Proxied /\ x.chain # << >> /\ \A t \in Targets : c[t] = 0
    BY <1>1, <2>1 DEF CallsOK, Uncalled
  <2>3. Moved(q, "proxy_call", 1, x.attempt)  BY <1>4, MovedForms
  <2>4. y.pc = "proxy_call" /\ y.at = 1 /\ y.attempt = x.attempt /\ y.chain = x.chain
    BY <2>3 DEF Moved
  <2>5. d \in [Targets -> Nat] /\ \A t \in Targets : d[t] = c[t] + IF t = x.chain[1] THEN 1 ELSE 0
    BY <1>4, CallCounts
  <2> HIDE DEF x, y, c, d
  <2>6. ASSUME NEW t \in Targets
        PROVE  d[t] <= Raw(q, y, t) /\ d[t] <= Bound(q, y, t, Len(y.chain))
    <3>1. Raw(q, y, t) = IF x.chain[1] = t THEN 1 ELSE 0  BY <2>2, <2>4 DEF Raw
    <3>2. d[t] = IF x.chain[1] = t THEN 1 ELSE 0  BY <2>2, <2>5
    <3>3. Raw(q, y, t) <= Bound(q, y, t, Len(y.chain))  BY <1>2, <2>4, HitsFinite
    <3> QED  BY <3>1, <3>2, <3>3
  <2>7. CallsOK(q, y, d)  BY <1>2, <2>2, <2>4, <2>5, <2>6 DEF CallsOK, Uncalled
  <2> QED  BY <1>4, <2>1, <2>3, <2>7, CallMove DEF x, y, d
<1>5. ASSUME NEW n \in 1..MaxAttempts, x.pc \in {"walk", "call"}, x.at <= Len(x.chain),
             Moved(q, "call", x.at, n), UNCHANGED <<clock, tokens>>, Call(q, x.chain[x.at]),
             \A t \in Targets :
                c[t] <= Bound(q, x, t, x.at - 1) + IF x.chain[x.at] = t THEN n - 1 ELSE 0
      PROVE  CInv'
  <2>1. x.chain # << >>  BY <1>1, <1>5 DEF CallsOK
  <2>2. y.pc = "call" /\ y.at = x.at /\ y.attempt = n /\ y.chain = x.chain
    BY <1>5 DEF Moved
  <2>3. /\ d \in [Targets -> Nat]
        /\ \A t \in Targets : d[t] = c[t] + IF t = x.chain[x.at] THEN 1 ELSE 0
    BY <1>5, CallCounts
  <2>4. \A t, m : Bound(q, y, t, m) = Bound(q, x, t, m)  BY <2>2, SameBound
  <2>5. n \in Nat /\ n \in 1..MaxAttempts /\ x.at <= Len(x.chain)
    BY <1>5, NumberAssumption
  <2>6. \A t \in Targets :
            c[t] <= Bound(q, x, t, x.at - 1) + IF x.chain[x.at] = t THEN n - 1 ELSE 0
    BY <1>5
  <2>7. \A t \in Targets : Bound(q, x, t, x.at - 1) \in Nat  BY <1>2, HitsFinite
  <2> HIDE DEF x, y, c, d
  <2>8. ASSUME NEW t \in Targets
        PROVE  /\ d[t] <= Bound(q, y, t, y.at - 1) + IF y.chain[y.at] = t THEN y.attempt ELSE 0
               /\ d[t] <= Bound(q, y, t, Len(y.chain))
    <3>1. d[t] <= Bound(q, x, t, x.at - 1) + IF x.chain[x.at] = t THEN n ELSE 0
      BY <1>2, <2>3, <2>5, <2>6, <2>7
    <3>2. d[t] <= Bound(q, y, t, y.at - 1) + IF y.chain[y.at] = t THEN y.attempt ELSE 0
      BY <2>2, <2>4, <3>1
    <3> QED  BY <1>2, <2>2, <2>3, <2>5, <3>2, CallWithin
  <2>9. CallsOK(q, y, d)
    BY <1>2, <2>1, <2>2, <2>3, <2>5, <2>8 DEF CallsOK, Uncalled
  <2> QED  BY <1>5, <2>9, CallMove DEF x, y, d
<1>6. CASE WalkCall(q)
  <2>1. x.pc = "walk" /\ x.at <= Len(x.chain) /\ Call(q, x.chain[x.at])
        /\ UNCHANGED <<clock, tokens>>
    BY <1>2, <1>6 DEF WalkCall, AtEnd, Target
  <2>2. Moved(q, "call", x.at, 1)  BY <1>1, <1>6 DEF WalkCall, Moved, Others, Shape
  <2>3. \A t \in Targets :
            c[t] <= Bound(q, x, t, x.at - 1) + IF x.chain[x.at] = t THEN 1 - 1 ELSE 0
    <3> SUFFICES ASSUME NEW t \in Targets PROVE c[t] <= Bound(q, x, t, x.at - 1) + 0
      OBVIOUS
    <3>1. c[t] <= Bound(q, x, t, x.at - 1)  BY <1>1, <2>1 DEF CallsOK
    <3>2. Bound(q, x, t, x.at - 1) \in Nat  BY <1>2, HitsFinite
    <3> HIDE DEF x, c
    <3> QED  BY <3>1, <3>2
  <2>4. 1 \in 1..MaxAttempts  BY NumberAssumption
  <2> QED  BY <1>5, <2>1, <2>2, <2>3, <2>4
<1>7. CASE RetryCall(q)
  <2>1. x.pc = "call" /\ Call(q, x.chain[x.at]) /\ UNCHANGED <<clock, tokens>>
        /\ x.attempt < MaxAttempts
    BY <1>7 DEF RetryCall, Target
  <2>2. Moved(q, "call", x.at, x.attempt + 1)
    BY <1>1, <1>7 DEF RetryCall, Moved, Others, Shape
  <2>3. x.at <= Len(x.chain) /\ \A t \in Targets :
            c[t] <= Bound(q, x, t, x.at - 1) + IF x.chain[x.at] = t THEN x.attempt ELSE 0
    BY <1>1, <2>1 DEF CallsOK
  <2>4. x.attempt + 1 \in 1..MaxAttempts /\ (x.attempt + 1) - 1 = x.attempt
    BY <1>2, <2>1, NumberAssumption
  <2> QED  BY <1>5, <2>1, <2>2, <2>3, <2>4
<1> QED  BY <1>3, <1>4, <1>6, <1>7 DEF ProxyRaw
-----------------------------------------------------------------------------
LEMMA InOrderLength ==
    ASSUME NEW s, NEW ps, IsFiniteSet(ps)
    PROVE  Len(InOrder(s, ps)) \in Nat
<1> DEFINE k == Cardinality(ps)
           f == InOrder(s, ps)
           S == {f[n] : n \in 1..k}
<1>1. k \in Nat  BY FS_CardinalityType
<1>2. f = [n \in 1..k |-> f[n]]  BY DEF InOrder
<1> HIDE DEF k, f
<1>3. f \in [1..k -> S]  BY <1>2
<1> HIDE DEF S
<1>4. f \in Seq(S)  BY <1>1, <1>3
<1>5. Len(f) \in Nat  BY <1>4
<1> QED  BY <1>5 DEF f

(* The cost filter's chain is paid for by nobody yet.                      *)
LEMMA FilterCounts == ASSUME IInv, CInv, NEW q \in Requests, FilterChain(q) PROVE CInv'
<1> DEFINE x == req[q]
           c == calls[q]
<1>1. CallsOK(q, x, c) /\ Shape(x) /\ req = [r \in Requests |-> req[r]]  BY DEF CInv, IInv
<1>2. x.pc = "gates" /\ UNCHANGED <<clock, tokens, calls>>  BY DEF FilterChain
<1>3. Spends /\ \A t \in Targets : c[t] = 0
  BY <1>1, <1>2, Spending DEF CallsOK, Uncalled
<1>4. PICK keep \in SUBSET Providers :
        LET chain == InOrder(ChainOf[q],
                             {i \in DOMAIN ChainOf[q] : ProviderOf[ChainOf[q][i]] \in keep})
        IN  IF chain = << >>
            THEN Finish(q, "no_eligible_upstream")
            ELSE req' = [req EXCEPT ![q].pc = "quota", ![q].at = 1, ![q].chain = chain]
  BY DEF FilterChain
<1> DEFINE ps == {i \in DOMAIN ChainOf[q] : ProviderOf[ChainOf[q][i]] \in keep}
           chain == InOrder(ChainOf[q], ps)
<1>5. IF chain = << >>
      THEN Finish(q, "no_eligible_upstream")
      ELSE req' = [req EXCEPT ![q].pc = "quota", ![q].at = 1, ![q].chain = chain]
  BY <1>4
<1>6. Len(chain) \in Nat
  <2>1. ps \in SUBSET (1..Len(ChainOf[q])) /\ Len(ChainOf[q]) \in Nat  BY ChainAssumption
  <2>2. IsFiniteSet(1..Len(ChainOf[q]))  BY <2>1, FS_Interval
  <2>3. IsFiniteSet(ps)  BY <2>1, <2>2, FS_Subset
  <2> HIDE DEF ps
  <2> QED  BY <2>3, InOrderLength
<1> HIDE DEF chain
<1>7. CASE chain = << >>
  BY <1>2, <1>3, <1>5, <1>7, Refused
<1>8. CASE chain # << >>
  <2> DEFINE y == req'[q]
  <2>1. req' = [req EXCEPT ![q].pc = "quota", ![q].at = 1, ![q].chain = chain]
    BY <1>5, <1>8
  <2>2. y.pc = "quota" /\ y.at = 1 /\ y.attempt = x.attempt /\ y.chain = chain /\ Others(q)
    BY <1>1, <2>1 DEF Others, Shape
  <2>3. x.attempt \in 1..MaxAttempts /\ c \in [Targets -> Nat]  BY <1>1 DEF CallsOK
  <2> HIDE DEF x, y, c
  <2>4. \A t \in Targets : Bound(q, y, t, Len(y.chain)) \in Nat  BY <1>6, <2>2, HitsFinite
  <2>5. CallsOK(q, y, c)
    BY <1>3, <1>6, <1>8, <2>2, <2>3, <2>4 DEF CallsOK, Uncalled
  <2>6. PaidUpTo(y, c) = 0  BY <2>2 DEF PaidUpTo
  <2>7. calls' = [r \in Requests |-> calls'[r]] /\ calls'[q] = c
        /\ \A r \in Requests \ {q} : calls'[r] = calls[r]
    BY <1>2 DEF CInv, c
  <2> QED  BY <1>3, <2>2, <2>5, <2>6, <2>7, LedgerKeeps DEF Spends, y
<1> QED  BY <1>7, <1>8

(* The quota loop passes an element: its upstream's bucket has paid for    *)
(* it, and no other upstream's account changes.                            *)
LEMMA QuotaPays ==
    ASSUME IInv, CInv, NEW q \in Requests, Spends, UNCHANGED calls, req[q].pc = "quota",
           Step(q), LET b == UpstreamBucket[ProviderOf[Target(q)]]
                    IN  b \in Buckets => tokens'[b] = tokens[b] - 1
    PROVE  CInv'
<1> DEFINE x == req[q]
           y == req'[q]
           c == calls[q]
           u == ProviderOf[x.chain[x.at]]
<1>1. CallsOK(q, x, c)  BY DEF CInv
<1>2. Moved(q, x.pc, x.at + 1, x.attempt)  BY MovedForms
<1>3. /\ y.pc = "quota" /\ y.at = x.at + 1 /\ y.attempt = x.attempt /\ y.chain = x.chain
      /\ Others(q)
  BY <1>2 DEF Moved
<1>4. UpstreamBucket[u] \in Buckets => tokens'[UpstreamBucket[u]] = tokens[UpstreamBucket[u]] - 1
  BY DEF Target
<1>5. x.at \in Nat \ {0}  BY <1>1 DEF CallsOK
<1>6. CallsOK(q, y, c)
  <2>1. \A t, n : Bound(q, y, t, n) = Bound(q, x, t, n)  BY <1>3, SameBound
  <2>2. x.pc = "quota"  OBVIOUS
  <2> HIDE DEF x, y, c
  <2> QED  BY <1>1, <1>3, <1>5, <2>1, <2>2 DEF CallsOK, Uncalled
<1>7. \A r \in Requests : CallsOK(r, req'[r], calls'[r])  BY <1>3, <1>6 DEF CInv, Others
<1>8. PaidUpTo(x, c) = x.at - 1 /\ PaidUpTo(y, c) = x.at
  <2>1. x.pc = "quota"  OBVIOUS
  <2> HIDE DEF x, y, c
  <2> QED  BY <1>3, <1>5, <2>1 DEF PaidUpTo
<1>9. ASSUME NEW p \in Providers, UpstreamBucket[p] # NoBucket
      PROVE  /\ IsFiniteSet(PaidFor(p)')
             /\ Cardinality(PaidFor(p)') + tokens'[UpstreamBucket[p]]
                   <= Burst[UpstreamBucket[p]] + Rate[UpstreamBucket[p]] * clock'
  <2> DEFINE b == UpstreamBucket[p]
             e == <<q, x.at>>
             P == PaidFor(p)
             Q == PaidFor(p)'
             m == Burst[b] + Rate[b] * clock
  <2>1. Q \in SUBSET (IF u = p THEN P \cup {e} ELSE P)
    <3> SUFFICES ASSUME NEW d \in Q PROVE d \in P \/ (d = e /\ u = p)  OBVIOUS
    <3>1. /\ d \in Requests \X Nat /\ d[2] \in 1..PaidUpTo(req'[d[1]], calls'[d[1]])
          /\ ProviderOf[req'[d[1]].chain[d[2]]] = p
      BY DEF PaidFor
    <3>2. CASE d[1] # q
      <4>1. req'[d[1]] = req[d[1]] /\ calls'[d[1]] = calls[d[1]]
        BY <1>3, <3>1, <3>2 DEF Others
      <4> QED  BY <3>1, <4>1 DEF PaidFor
    <3>3. CASE d[1] = q
      <4>1. d[2] \in 1..x.at /\ ProviderOf[x.chain[d[2]]] = p
        BY <1>3, <1>8, <3>1, <3>3
      <4>2. CASE d[2] = x.at
        <5>1. d = <<q, x.at>>  BY <3>1, <3>3, <4>2
        <5> QED  BY <4>1, <4>2, <5>1
      <4>3. CASE d[2] # x.at
        <5>1. d[2] \in 1..(x.at - 1)  BY <1>5, <4>1, <4>3
        <5> QED  BY <1>8, <3>1, <3>3, <4>1, <5>1 DEF PaidFor
      <4> QED  BY <4>2, <4>3
    <3> QED  BY <3>2, <3>3
  <2>2. IsFiniteSet(P) /\ Cardinality(P) + tokens[b] <= m  BY <1>9 DEF CInv, Ledger
  <2>3. b \in Buckets  BY <1>9, BucketAssumption
  <2>4. tokens[b] \in Nat /\ tokens'[b] \in Nat /\ tokens'[b] <= tokens[b]
    BY <2>3 DEF CInv, Spends
  <2>5. u = p => tokens'[b] = tokens[b] - 1  BY <1>4, <2>3
  <2>6. m \in Nat /\ clock' = clock
    <3>1. Burst[b] \in Nat /\ Rate[b] \in Nat /\ clock \in Nat
      BY <2>3, BucketAssumption DEF IInv
    <3> QED  BY <3>1 DEF Spends
  <2> HIDE DEF P, Q, b, e, m, u
  <2>7. Cardinality(P) \in Nat  BY <2>2, FS_CardinalityType
  <2>8. CASE u = p
    <3>1. Q \in SUBSET (P \cup {e})  BY <2>1, <2>8
    <3>2. IsFiniteSet(P \cup {e}) /\ Cardinality(P \cup {e}) \in Nat
          /\ Cardinality(P \cup {e}) <= Cardinality(P) + 1
      <4>1. IsFiniteSet(P \cup {e})
            /\ (e \notin P => Cardinality(P \cup {e}) = Cardinality(P) + 1)
        BY <2>2, FS_AddElement
      <4>2. CASE e \in P
        <5>1. P \cup {e} = P  BY <4>2
        <5>2. Cardinality(P) <= Cardinality(P) + 1  BY <2>7
        <5> QED  BY <2>2, <2>7, <5>1, <5>2
      <4>3. CASE e \notin P
        <5>1. Cardinality(P \cup {e}) = Cardinality(P) + 1  BY <4>1, <4>3
        <5> QED  BY <2>7, <4>1, <5>1
      <4> QED  BY <4>2, <4>3
    <3>3. IsFiniteSet(Q) /\ Cardinality(Q) \in Nat /\ Cardinality(Q) <= Cardinality(P \cup {e})
      BY <3>1, <3>2, FS_Subset, FS_CardinalityType
    <3>4. Cardinality(Q) + tokens'[b] <= m
      BY <2>2, <2>4, <2>5, <2>6, <2>7, <2>8, <3>2, <3>3
    <3> QED  BY <2>6, <3>3, <3>4 DEF Q, b, m
  <2>9. CASE u # p
    <3>1. Q \in SUBSET P  BY <2>1, <2>9
    <3>2. IsFiniteSet(Q) /\ Cardinality(Q) \in Nat /\ Cardinality(Q) <= Cardinality(P)
      BY <2>2, <3>1, FS_Subset, FS_CardinalityType
    <3>3. Cardinality(Q) + tokens'[b] <= m  BY <2>2, <2>4, <2>6, <2>7, <3>2
    <3> QED  BY <2>6, <3>2, <3>3 DEF Q, b, m
  <2> QED  BY <2>8, <2>9
<1> QED  BY <1>7, <1>9 DEF CInv, Ledger, Spends
-----------------------------------------------------------------------------
LEMMA AdmissionCounts ==
    ASSUME IInv, CInv, NEW q \in Requests,
           CheckGate(q) \/ CheckUpstreamQuota(q) \/ CheckCapability(q) \/ TryHold(q) \/ Admit(q)
    PROVE  CInv'
<1>0. /\ Len(req[q].chain) \in Nat /\ req[q].at \in Nat \ {0} /\ req[q].at + 1 \in Nat \ {0}
      /\ Shape(req[q]) /\ req = [r \in Requests |-> req[r]]
  BY DEF CInv, CallsOK, IInv
<1>1. CASE CheckGate(q)
  <2> DEFINE b == Gates[q][req[q].at]
  <2>1. /\ req[q].pc = "gates" /\ req[q].at <= Len(Gates[q]) /\ UNCHANGED <<clock, calls>>
        /\ (Take(b) /\ Step(q)) \/ (Empty(b) /\ Finish(q, "rate_limited"))
    BY <1>0, <1>1, BucketAssumption DEF CheckGate, AtEnd
  <2>2. b \in Buckets  BY <1>0, <2>1, BucketAssumption
  <2>3. Spends  BY <2>1, <2>2, Spending
  <2>4. CASE Step(q)
    <3>1. Moved(q, "gates", req[q].at + 1, req[q].attempt)  BY <2>1, <2>4, MovedForms
    <3>2. "gates" \in Uncalled  BY DEF Uncalled
    <3> QED  BY <1>0, <2>1, <2>3, <3>1, <3>2, QuietMove
  <2> QED  BY <2>1, <2>3, <2>4, Refused
<1>2. CASE CheckUpstreamQuota(q)
  <2> DEFINE b == UpstreamBucket[ProviderOf[Target(q)]]
  <2>1. /\ req[q].pc = "quota" /\ UNCHANGED <<clock, calls>>
        /\ \/ b = NoBucket /\ Step(q) /\ UNCHANGED tokens
           \/ b # NoBucket /\ Take(b) /\ Step(q)
           \/ b # NoBucket /\ Empty(b) /\ Finish(q, "rate_limited")
    BY <1>2 DEF CheckUpstreamQuota
  <2>2. CASE b = NoBucket
    <3>1. Spends  BY <2>1, <2>2, Spending DEF Take, Empty
    <3> QED  BY <2>1, <2>2, <3>1, QuotaPays, BucketAssumption
  <2>3. CASE b # NoBucket /\ Take(b) /\ Step(q)
    <3>1. Spends  BY <2>1, <2>3, Spending
    <3>2. b \in Buckets => tokens'[b] = tokens[b] - 1  BY <2>3 DEF Take, CInv
    <3> QED  BY <2>1, <2>3, <3>1, <3>2, QuotaPays
  <2>4. CASE Empty(b) /\ Finish(q, "rate_limited")
    <3>1. Spends  BY <2>1, <2>4, Spending DEF Empty
    <3> QED  BY <2>1, <2>4, <3>1, Refused
  <2> QED  BY <2>1, <2>2, <2>3, <2>4
<1>3. CASE CheckCapability(q)
  <2>1. /\ req[q].pc = "quota" /\ req[q].at > Len(req[q].chain)
        /\ UNCHANGED <<clock, tokens, calls>>
        /\ \/ Goto(q, "holds") \/ Finish(q, "capability_mismatch")
           \/ Finish(q, "unknown_provider")
    BY <1>3 DEF CheckCapability, AtEnd
  <2>2. Spends  BY <2>1, Spending
  <2>3. CASE Goto(q, "holds")
    <3>1. Moved(q, "holds", 1, req[q].attempt)  BY <2>3, MovedForms
    <3>2. "holds" \in Uncalled /\ "quota" \in Uncalled /\ 1 \in Nat \ {0}  BY DEF Uncalled
    <3> QED  BY <2>1, <2>2, <3>1, <3>2, QuietMove
  <2> QED  BY <2>1, <2>2, <2>3, Refused
<1>4. CASE TryHold(q)
  <2>1. req[q].pc = "holds" /\ UNCHANGED <<clock, tokens, calls>>  BY <1>4 DEF TryHold
  <2>2. Moved(q, "holds", req[q].at + 1, req[q].attempt)
    BY <1>0, <1>4 DEF TryHold, Moved, Others, Shape
  <2>3. Spends /\ "holds" \in Uncalled  BY <2>1, Spending DEF Uncalled
  <2> QED  BY <1>0, <2>1, <2>2, <2>3, QuietMove
<1>5. CASE Admit(q)
  <2>1. /\ req[q].pc = "holds" /\ UNCHANGED <<clock, tokens, calls>>
        /\ \/ q \in Proxied /\ Goto(q, "proxy")
           \/ Goto(q, "walk")
           \/ Finish(q, "all_breakers_open")
    BY <1>5 DEF Admit
  <2>2. Spends  BY <2>1, Spending
  <2>3. CASE q \in Proxied /\ Goto(q, "proxy")
    <3>1. Moved(q, "proxy", 1, req[q].attempt)  BY <2>3, MovedForms
    <3>2. "holds" \in Uncalled /\ "proxy" \in Uncalled /\ 1 \in Nat \ {0}  BY DEF Uncalled
    <3> QED  BY <2>1, <2>2, <2>3, <3>1, <3>2, QuietMove
  <2>4. CASE Goto(q, "walk")
    <3>1. Moved(q, "walk", 1, req[q].attempt)  BY <2>4, MovedForms
    <3>2. \A t \in Targets : calls[q][t] = 0  BY <2>1 DEF CInv, CallsOK, Uncalled
    <3>3. \A t \in Targets : calls[q][t] <= Bound(q, req[q], t, 1 - 1)  BY <3>2, HitsFinite
    <3> QED  BY <2>1, <2>2, <3>1, <3>3, StartWalk
  <2> QED  BY <2>1, <2>2, <2>3, <2>4, Refused
<1> QED  BY <1>1, <1>2, <1>3, <1>4, <1>5

LEMMA WalkCounts ==
    ASSUME IInv, CInv, NEW q \in Requests,
           \/ ProxyAnswer(q) \/ WalkSkip(q) \/ WalkExhausted(q) \/ CallAnswer(q)
           \/ FirstEvent(q) \/ Cancel(q) \/ SettleHold(q)
    PROVE  CInv'
<1> DEFINE x == req[q]
           c == calls[q]
<1>0. /\ Len(x.chain) \in Nat /\ x.at \in Nat \ {0} /\ x.at + 1 \in Nat \ {0}
      /\ x.at - 1 \in Nat /\ x.at - 1 <= x.at
      /\ Shape(x) /\ CallsOK(q, x, c) /\ req = [r \in Requests |-> req[r]]
  <2>1. Shape(x) /\ CallsOK(q, x, c) /\ req = [r \in Requests |-> req[r]]  BY DEF CInv, IInv
  <2>2. Len(x.chain) \in Nat /\ x.at \in Nat \ {0}  BY <2>1 DEF CallsOK
  <2> QED  BY <2>1, <2>2
<1>1. CASE ProxyAnswer(q)
  <2>1. /\ x.pc = "proxy_call" /\ UNCHANGED <<clock, tokens, calls>>
        /\ Goto(q, "stream") \/ Goto(q, "walk")
    BY <1>1 DEF ProxyAnswer
  <2>2. Spends  BY <2>1, Spending
  <2>3. CASE Goto(q, "stream")
    <3>1. Moved(q, "stream", 1, x.attempt) /\ 1 \in Nat \ {0}  BY <2>3, MovedForms
    <3> QED  BY <2>1, <3>1, Afterwards
  <2>4. CASE Goto(q, "walk")
    <3>1. Moved(q, "walk", 1, x.attempt)  BY <2>4, MovedForms
    <3>2. ASSUME NEW t \in Targets PROVE c[t] <= Bound(q, x, t, 1 - 1)
      <4>1. c[t] \in Nat /\ c[t] <= Raw(q, x, t)  BY <1>0, <2>1 DEF CallsOK
      <4>2. Raw(q, x, t) \in {0, 1} /\ Raw(q, x, t) <= Bound(q, x, t, 0)
            /\ Bound(q, x, t, 0) \in Nat
        BY HitsFinite
      <4> HIDE DEF x, c
      <4> QED  BY <4>1, <4>2
    <3> QED  BY <2>1, <2>2, <3>1, <3>2, StartWalk
  <2> QED  BY <2>1, <2>3, <2>4
<1>2. CASE WalkSkip(q)
  <2>1. x.pc = "walk" /\ UNCHANGED <<clock, tokens, calls>> /\ x.at <= Len(x.chain)
    BY <1>0, <1>2 DEF WalkSkip, AtEnd
  <2>2. Moved(q, "walk", x.at + 1, x.attempt)
    BY <1>0, <1>2, <2>1 DEF WalkSkip, Moved, Others, Shape
  <2>3. ASSUME NEW t \in Targets PROVE c[t] <= Bound(q, x, t, x.at)
    <3>1. c[t] \in Nat /\ c[t] <= Bound(q, x, t, x.at - 1)  BY <1>0, <2>1 DEF CallsOK
    <3>2. Bound(q, x, t, x.at - 1) <= Bound(q, x, t, x.at)  BY <1>0, BoundGrows
    <3>3. Bound(q, x, t, x.at - 1) \in Nat /\ Bound(q, x, t, x.at) \in Nat
      BY <1>0, HitsFinite
    <3> HIDE DEF x, c
    <3> QED  BY <1>0, <3>1, <3>2, <3>3
  <2> QED  BY <2>1, <2>2, <2>3, WalkOn
<1>3. CASE WalkExhausted(q)
  <2>1. x.pc = "walk" /\ UNCHANGED <<clock, tokens, calls>>  BY <1>3 DEF WalkExhausted
  <2>2. PICK o : SettleTicket(q, 0, FALSE, o)  BY <1>3 DEF WalkExhausted
  <2> QED  BY <2>1, <2>2, Leaves
<1>4. CASE CallAnswer(q)
  <2>1. x.pc = "call" /\ UNCHANGED <<clock, tokens, calls>>  BY <1>4 DEF CallAnswer
  <2>2. CASE req' = [req EXCEPT ![q].pc = "stream", ![q].results = Append(@, "ok")]
    <3>1. Moved(q, "stream", x.at, x.attempt)  BY <1>0, <2>2 DEF Moved, Others, Shape
    <3> QED  BY <1>0, <2>1, <3>1, Afterwards
  <2>3. CASE req' = [req EXCEPT ![q].pc = "walk", ![q].at = @ + 1,
                                ![q].results = Append(@, "eligible")]
    <3>1. Moved(q, "walk", x.at + 1, x.attempt)  BY <1>0, <2>3 DEF Moved, Others, Shape
    <3>2. x.at <= Len(x.chain) /\ x.attempt \in 1..MaxAttempts  BY <1>0, <2>1 DEF CallsOK
    <3>3. ASSUME NEW t \in Targets PROVE c[t] <= Bound(q, x, t, x.at)
      <4>1. /\ c[t] \in Nat
            /\ c[t] <= Bound(q, x, t, x.at - 1) + IF x.chain[x.at] = t THEN x.attempt ELSE 0
        BY <1>0, <2>1 DEF CallsOK
      <4> QED  BY <1>0, <3>2, <4>1, CallWithin
    <3> QED  BY <2>1, <3>1, <3>2, <3>3, WalkOn
  <2> QED  BY <1>4, <2>1, <2>2, <2>3, Leaves DEF CallAnswer
<1>5. CASE FirstEvent(q)
  <2>1. x.pc = "stream" /\ UNCHANGED <<clock, tokens, calls>>  BY <1>5 DEF FirstEvent
  <2>2. PICK i, ok, o : SettleTicket(q, i, ok, o)  BY <1>5 DEF FirstEvent
  <2> QED  BY <2>1, <2>2, Leaves
<1>6. CASE Cancel(q)
  <2>1. x.pc \in {"proxy_call", "call", "stream"} /\ UNCHANGED <<clock, tokens, calls>>
        /\ SettleTicket(q, 0, FALSE, "cancelled")
    BY <1>6 DEF Cancel
  <2> QED  BY <2>1, Leaves
<1>7. CASE SettleHold(q)
  <2>1. x.pc = "settle" /\ UNCHANGED <<clock, tokens, calls>>  BY <1>7 DEF SettleHold
  <2> DEFINE pc == IF x.at = Len(x.holds) THEN "done" ELSE "settle"
  <2>2. Moved(q, pc, x.at + 1, x.attempt)
    BY <1>0, <1>7, <2>1 DEF SettleHold, Moved, Others, Shape
  <2>3. pc \in {"stream", "settle", "done"}  OBVIOUS
  <2> HIDE DEF pc
  <2> QED  BY <1>0, <2>1, <2>2, <2>3, Afterwards
<1> QED  BY <1>1, <1>2, <1>3, <1>4, <1>5, <1>6, <1>7

(* A tick gives each bucket at most its rate.                              *)
LEMMA TickCounts == ASSUME IInv, CInv, Tick PROVE CInv'
<1>1. clock \in Nat /\ clock' = clock + 1 /\ UNCHANGED <<req, calls>>  BY DEF Tick, IInv
<1>2. ASSUME NEW b \in Buckets
      PROVE  /\ tokens'[b] \in Nat /\ tokens[b] \in Nat /\ Rate[b] \in Nat /\ Burst[b] \in Nat
             /\ tokens'[b] <= tokens[b] + Rate[b]
  <2>1. tokens[b] \in Nat /\ Rate[b] \in Nat /\ Burst[b] \in Nat  BY BucketAssumption DEF CInv
  <2>2. tokens'[b] = IF tokens[b] + Rate[b] > Burst[b] THEN Burst[b] ELSE tokens[b] + Rate[b]
    BY DEF Tick
  <2> QED  BY <2>1, <2>2
<1>3. tokens' \in [Buckets -> Nat]
  <2>1. tokens' = [b \in Buckets |-> tokens'[b]]  BY DEF Tick
  <2> QED  BY <1>2, <2>1
<1>4. ASSUME NEW p \in Providers, UpstreamBucket[p] # NoBucket
      PROVE  /\ IsFiniteSet(PaidFor(p)')
             /\ Cardinality(PaidFor(p)') + tokens'[UpstreamBucket[p]]
                   <= Burst[UpstreamBucket[p]] + Rate[UpstreamBucket[p]] * clock'
  <2> DEFINE b == UpstreamBucket[p]
             n == Cardinality(PaidFor(p))
             k == Rate[b] * clock
  <2>1. PaidFor(p)' = PaidFor(p)  BY <1>1 DEF PaidFor
  <2>2. b \in Buckets  BY <1>4, BucketAssumption
  <2>3. IsFiniteSet(PaidFor(p)) /\ n \in Nat /\ n + tokens[b] <= Burst[b] + k
    BY <1>4, FS_CardinalityType DEF CInv, Ledger
  <2>4. k \in Nat /\ Rate[b] * (clock + 1) = k + Rate[b]
    <3> DEFINE g == Rate[b]
    <3>1. g \in Nat /\ clock \in Nat  BY <1>1, <1>2, <2>2
    <3> HIDE DEF g
    <3>2. g * clock \in Nat /\ g * (clock + 1) = g * clock + g  BY <3>1
    <3> QED  BY <3>2 DEF g
  <2> HIDE DEF b, n, k
  <2>5. n + tokens'[b] <= Burst[b] + Rate[b] * (clock + 1)  BY <1>2, <2>2, <2>3, <2>4
  <2> QED  BY <1>1, <2>1, <2>3, <2>5 DEF b, n
<1>5. calls' = [r \in Requests |-> calls'[r]]
      /\ \A r \in Requests : CallsOK(r, req'[r], calls'[r])
  BY <1>1 DEF CInv
<1> QED  BY <1>3, <1>4, <1>5 DEF CInv, Ledger

LEMMA NextCInv == IInv /\ CInv /\ [Next]_vars => CInv'
<1> SUFFICES ASSUME IInv, CInv, [Next]_vars PROVE CInv'  OBVIOUS
<1>1. ASSUME NEW q \in Requests, RequestStep(q) PROVE CInv'
  BY <1>1, AdmissionCounts, FilterCounts, CallingSteps, WalkCounts DEF RequestStep
<1>2. CASE UNCHANGED vars
  BY <1>2 DEF vars, CInv, Ledger, PaidFor
<1> QED  BY <1>1, <1>2, TickCounts DEF Next, Quiescent

(* For any requests, chains, buckets, breaker policies and clock: an       *)
(* upstream with a per_upstream bucket is called at most max_attempts      *)
(* times for each token that its bucket has held since boot, and once more *)
(* for each request that may be passed through raw, although fallbacks     *)
(* and retries never return to the bucket (check_per_upstream pays for the *)
(* whole chain beforehand, RetryPolicy bounds the calls per element).      *)
THEOREM CallsWithinQuota == Spec => []CallsBounded
<1>1. Init => IInv /\ CInv  BY InitIInv, InitCInv
<1>2. IInv /\ CInv /\ [Next]_vars => (IInv /\ CInv)'  BY NextIInv, NextCInv
<1>3. IInv /\ CInv => CallsBounded  BY CInvBounds
<1> QED  BY <1>1, <1>2, <1>3, PTL DEF Spec
=============================================================================
