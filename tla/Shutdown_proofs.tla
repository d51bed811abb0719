-------------------------- MODULE Shutdown_proofs --------------------------
(***************************************************************************)
(* The count that flush_pending_h7 reports is exact, and no task of the    *)
(* boot registry escapes it, for any number of responses and reloads.      *)
(* Neither fact is inductive: the count needs to know on which supervisor  *)
(* a task sits (Placed), and the report that a task which is not yet       *)
(* spawned still has its connection (Connected).                           *)
(***************************************************************************)
EXTENDS Shutdown, FiniteSetTheorems, TLAPS

(* A request without a connection has no task, and a task that is counted  *)
(* and not yet spawned still has its connection open.                      *)
Connected ==
    \A r \in Requests : /\ conn[r] = "none" => task[r] = "none"
                        /\ task[r] = "counted" => conn[r] = "open"

(* Where the tasks sit: a JoinSet holds tasks of its own version that were *)
(* spawned, and a running task is in one or was taken by the flush.        *)
Placed ==
    /\ \A v \in Versions : \A r \in joinSet[v] :
          snap[r] = v /\ task[r] \notin {"none", "counted"}
    /\ \A r \in taken : snap[r] = 0 /\ task[r] \notin {"none", "counted"}
    /\ \A r \in Requests : task[r] = "running" => r \in joinSet[snap[r]] \/ r \in taken

(* Only the report aborts, and only what was taken; nothing is taken       *)
(* before the drain, which without an admin listener leaves nothing open.  *)
Phased ==
    /\ \A r \in Requests : task[r] = "aborted" =>
          r \in taken /\ phase \in {"exiting", "exited"}
    /\ phase \in {"serving", "draining"} => taken = {}
    /\ ~hasAdmin /\ phase \notin {"serving", "draining"} =>
          /\ \A r \in Requests : conn[r] # "open"
          /\ joinSet[0] = {}

IInv == TypeOK /\ Connected /\ Placed /\ Phased /\ CountExact /\ BootTasksReported

(* Cardinality of a subset of the requests that gains, or loses, one.      *)
LEMMA CountUp ==
    ASSUME NEW S \in SUBSET Requests, NEW r \in Requests, r \notin S
    PROVE  /\ Cardinality(S) \in Nat
           /\ Cardinality(S \cup {r}) = Cardinality(S) + 1
<1>1. IsFiniteSet(S)  BY FS_Subset, ShutdownAssumption
<1> QED  BY <1>1, FS_AddElement, FS_CardinalityType

LEMMA CountDown ==
    ASSUME NEW S \in SUBSET Requests, NEW r \in S
    PROVE  Cardinality(S) \in Nat \ {0} /\ Cardinality(S \ {r}) = Cardinality(S) - 1
<1> DEFINE T == S \ {r}
<1>1. Cardinality(T) \in Nat /\ Cardinality(T \cup {r}) = Cardinality(T) + 1
  BY CountUp
<1>2. T \cup {r} = S  OBVIOUS
<1>3. Cardinality(S) = Cardinality(T) + 1  BY <1>1, <1>2
<1> HIDE DEF T
<1> QED  BY <1>1, <1>3 DEF T

LEMMA CountLess ==
    ASSUME NEW T \in SUBSET Requests, NEW S \in SUBSET T
    PROVE  Cardinality(S) <= Cardinality(T) /\ Cardinality(S) \in Nat /\ Cardinality(T) \in Nat
<1>1. IsFiniteSet(T)  BY FS_Subset, ShutdownAssumption
<1>2. IsFiniteSet(S) /\ Cardinality(S) <= Cardinality(T)  BY <1>1, FS_Subset
<1> QED  BY <1>1, <1>2, FS_CardinalityType
-----------------------------------------------------------------------------
LEMMA InitIInv == Init => IInv
<1> SUFFICES ASSUME Init PROVE IInv  OBVIOUS
<1>1. 0 \in Versions  BY ShutdownAssumption DEF Versions
<1>2. TypeOK /\ Connected /\ Placed /\ Phased /\ BootTasksReported
  BY <1>1 DEF Init, TypeOK, Connected, Placed, Phased, BootTasksReported
<1>3. CountExact
  <2>1. \A v \in Versions : CountedOn(v) = {}  BY DEF Init, CountedOn, Uncounted
  <2> QED  BY <2>1, FS_EmptySet DEF Init, CountExact
<1> QED  BY <1>2, <1>3 DEF IInv

(* A step that leaves the counts alone and moves no task in or out of the  *)
(* uncounted ones keeps the count exact.                                   *)
LEMMA SameCounts ==
    ASSUME IInv, UNCHANGED pending,
           phase' \in {"serving", "draining", "flushing"} =>
               phase \in {"serving", "draining", "flushing"},
           \A r \in Requests : /\ task'[r] \in Uncounted <=> task[r] \in Uncounted
                               /\ task[r] \in Uncounted => snap'[r] = snap[r]
    PROVE  CountExact'
<1>1. \A v \in Versions : CountedOn(v)' = CountedOn(v)  BY DEF CountedOn
<1> QED  BY <1>1 DEF IInv, CountExact

(* A step after which the flush's report covers no more tasks.             *)
LEMMA SameReport ==
    ASSUME IInv, UNCHANGED <<hasAdmin, taken, dropped>>,
           TypeOK', Connected', Placed', Phased',
           phase' \in {"exiting", "exited"} => phase \in {"exiting", "exited"},
           \A r \in taken : task'[r] \in {"running", "aborted"} =>
                                task[r] \in {"running", "aborted"}
    PROVE  BootTasksReported'
<1> SUFFICES ASSUME phase' \in {"exiting", "exited"} PROVE BootTasksReported'
  BY DEF BootTasksReported
<1>1. Unfinished' \in SUBSET Unfinished /\ Unfinished \in SUBSET Requests
  BY DEF Unfinished, IInv, TypeOK
<1>2. Cardinality(Unfinished') <= Cardinality(Unfinished)
      /\ Cardinality(Unfinished') \in Nat /\ Cardinality(Unfinished) \in Nat
  BY <1>1, CountLess
<1>3. Cardinality(Unfinished) <= dropped /\ dropped \in Nat
  BY DEF IInv, BootTasksReported, TypeOK
<1>4. Cardinality(Unfinished') <= dropped'  BY <1>2, <1>3
<1>5. ASSUME ~hasAdmin', NEW r \in Requests
      PROVE  /\ conn'[r] # "open"
             /\ snap'[r] = 0 /\ task'[r] \in {"counted", "running", "aborted"} => r \in taken'
  BY <1>5 DEF Connected, Placed, Phased
<1> QED  BY <1>4, <1>5 DEF BootTasksReported
-----------------------------------------------------------------------------
LEMMA AcceptStep == ASSUME IInv, NEW q \in Requests, Accept(q) PROVE IInv'
<1>1. task[q] = "none" /\ version \in Versions /\ phase' = "serving"
  BY DEF IInv, Connected, Accept, TypeOK
<1>2. TypeOK' /\ Connected'
  BY <1>1 DEF IInv, Accept, supervisors, TypeOK, Connected
<1>3. \A r \in Requests : task[r] # "none" => snap'[r] = snap[r]
  BY <1>1 DEF IInv, Accept, TypeOK
<1>4. Placed'  BY <1>3 DEF IInv, Accept, supervisors, Placed, TypeOK
<1>5. Phased'  BY <1>1 DEF IInv, Accept, supervisors, Phased
<1>6. CountExact'
  BY <1>1, <1>3, SameCounts DEF Accept, supervisors, Uncounted
<1>7. BootTasksReported'  BY <1>1 DEF BootTasksReported
<1> QED  BY <1>2, <1>4, <1>5, <1>6, <1>7 DEF IInv

LEMMA CountStep == ASSUME IInv, NEW q \in Requests, CountH7(q) PROVE IInv'
<1>1. /\ task' = [task EXCEPT ![q] = "counted"] /\ task[q] = "none" /\ conn[q] = "open"
      /\ snap[q] \in Versions /\ q \notin taken /\ task'[q] = "counted"
      /\ \A r \in Requests \ {q} : task'[r] = task[r]
      /\ UNCHANGED <<hasAdmin, phase, version, adminBusy, conn, snap, joinSet, taken, dropped>>
  BY DEF IInv, CountH7, TypeOK, Placed
<1>2. TypeOK' /\ Connected'  BY <1>1 DEF IInv, CountH7, TypeOK, Connected
<1>3. Placed'  BY <1>1 DEF IInv, Placed, TypeOK
<1>4. Phased'  BY <1>1 DEF IInv, Phased
<1>5. CountExact'
  <2> SUFFICES ASSUME NEW v \in Versions,
                      v # 0 \/ phase \in {"serving", "draining", "flushing"}
               PROVE  pending'[v] = Cardinality(CountedOn(v)')
    BY <1>1 DEF CountExact
  <2>1. pending[v] = Cardinality(CountedOn(v))  BY DEF IInv, CountExact
  <2>2. CASE v = snap[q]
    <3>1. CountedOn(v)' = CountedOn(v) \cup {q} /\ q \notin CountedOn(v)
      BY <1>1, <2>2 DEF CountedOn, Uncounted
    <3>2. CountedOn(v) \in SUBSET Requests  BY DEF CountedOn
    <3>3. pending'[v] = pending[v] + 1  BY <1>1, <2>2 DEF CountH7, IInv, TypeOK
    <3> QED  BY <2>1, <3>1, <3>2, <3>3, CountUp
  <2>3. CASE v # snap[q]
    <3>1. CountedOn(v)' = CountedOn(v)  BY <1>1, <2>3 DEF CountedOn, Uncounted
    <3>2. pending'[v] = pending[v]  BY <1>1, <2>3 DEF CountH7, IInv, TypeOK
    <3> QED  BY <2>1, <3>1, <3>2
  <2> QED  BY <2>2, <2>3
<1>6. BootTasksReported'  BY <1>1, <1>2, <1>3, <1>4, SameReport
<1> QED  BY <1>2, <1>3, <1>4, <1>5, <1>6 DEF IInv

LEMMA SpawnStep == ASSUME IInv, NEW q \in Requests, SpawnH7(q) PROVE IInv'
<1>1. /\ task[q] = "counted" /\ conn[q] = "open" /\ snap[q] \in Versions /\ q \notin taken
      /\ task'[q] = "running" /\ conn'[q] = "closed"
      /\ \A r \in Requests \ {q} : task'[r] = task[r] /\ conn'[r] = conn[r]
      /\ joinSet'[snap[q]] = joinSet[snap[q]] \cup {q}
      /\ \A v \in Versions \ {snap[q]} : joinSet'[v] = joinSet[v]
      /\ UNCHANGED <<hasAdmin, phase, version, adminBusy, snap, pending, taken, dropped>>
  BY DEF IInv, SpawnH7, TypeOK, Placed, Connected
<1>2. TypeOK' /\ Connected'  BY <1>1 DEF IInv, SpawnH7, TypeOK, Connected
<1>3. Placed'
  <2>1. ASSUME NEW v \in Versions, NEW r \in joinSet'[v]
        PROVE  snap'[r] = v /\ task'[r] \notin {"none", "counted"}
    <3>1. (r = q /\ v = snap[q]) \/ r \in joinSet[v]  BY <1>1, <2>1
    <3>2. r \in Requests  BY <2>1, <1>2 DEF TypeOK
    <3> QED  BY <1>1, <3>1, <3>2 DEF IInv, Placed
  <2>2. ASSUME NEW r \in taken'
        PROVE  snap'[r] = 0 /\ task'[r] \notin {"none", "counted"}
    BY <1>1, <2>2 DEF IInv, Placed, TypeOK
  <2>3. ASSUME NEW r \in Requests, task'[r] = "running"
        PROVE  r \in joinSet'[snap'[r]] \/ r \in taken'
    BY <1>1, <2>3 DEF IInv, Placed, TypeOK
  <2> QED  BY <2>1, <2>2, <2>3 DEF Placed
<1>4. Phased'  BY <1>1 DEF IInv, Phased
<1>5. CountExact'  BY <1>1, SameCounts DEF Uncounted
<1>6. BootTasksReported'
  BY <1>1, <1>2, <1>3, <1>4, SameReport DEF IInv, TypeOK
<1> QED  BY <1>2, <1>3, <1>4, <1>5, <1>6 DEF IInv

LEMMA EndStep == ASSUME IInv, NEW q \in Requests, EndWithoutH7(q) PROVE IInv'
<1>1. /\ task[q] = "none" /\ conn'[q] = "closed"
      /\ \A r \in Requests \ {q} : conn'[r] = conn[r]
      /\ UNCHANGED <<hasAdmin, phase, version, adminBusy, snap, task, supervisors>>
  BY DEF IInv, EndWithoutH7, TypeOK
<1>2. TypeOK' /\ Connected'
  BY <1>1 DEF IInv, EndWithoutH7, supervisors, TypeOK, Connected
<1>3. Placed'  BY <1>1 DEF IInv, supervisors, Placed
<1>4. Phased'  BY <1>1 DEF IInv, supervisors, Phased
<1>5. CountExact'  BY <1>1, SameCounts DEF supervisors
<1>6. BootTasksReported'  BY <1>1, <1>2, <1>3, <1>4, SameReport DEF supervisors
<1> QED  BY <1>2, <1>3, <1>4, <1>5, <1>6 DEF IInv

LEMMA TaskStep ==
    ASSUME IInv, NEW q \in Requests, Complete(q) \/ Panic(q) PROVE IInv'
<1>1. /\ task[q] = "running" /\ task'[q] \in {"completed", "panicked"}
      /\ \A r \in Requests \ {q} : task'[r] = task[r]
      /\ UNCHANGED <<hasAdmin, phase, version, adminBusy, conn, snap, supervisors>>
  BY DEF IInv, Complete, Panic, TypeOK
<1>2. TypeOK' /\ Connected'
  BY <1>1 DEF IInv, Complete, Panic, supervisors, TypeOK, Connected
<1>3. Placed'  BY <1>1 DEF IInv, supervisors, Placed, TypeOK
<1>4. Phased'  BY <1>1 DEF IInv, supervisors, Phased
<1>5. CountExact'  BY <1>1, SameCounts DEF supervisors, Uncounted
<1>6. BootTasksReported'
  BY <1>1, <1>2, <1>3, <1>4, SameReport DEF supervisors, IInv, TypeOK
<1> QED  BY <1>2, <1>3, <1>4, <1>5, <1>6 DEF IInv

LEMMA CountOffStep == ASSUME IInv, NEW q \in Requests, CountOff(q) PROVE IInv'
<1>1. /\ task[q] = "completed" /\ task'[q] = "ended" /\ snap[q] \in Versions
      /\ \A r \in Requests \ {q} : task'[r] = task[r]
      /\ UNCHANGED <<hasAdmin, phase, version, adminBusy, conn, snap, joinSet, taken, dropped>>
  BY DEF IInv, CountOff, TypeOK
<1>2. TypeOK' /\ Connected'  BY <1>1 DEF IInv, CountOff, TypeOK, Connected
<1>3. Placed'  BY <1>1 DEF IInv, Placed, TypeOK
<1>4. Phased'  BY <1>1 DEF IInv, Phased
<1>5. CountExact'
  <2> SUFFICES ASSUME NEW v \in Versions,
                      v # 0 \/ phase \in {"serving", "draining", "flushing"}
               PROVE  pending'[v] = Cardinality(CountedOn(v)')
    BY <1>1 DEF CountExact
  <2>1. pending[v] = Cardinality(CountedOn(v))  BY DEF IInv, CountExact
  <2>2. CASE v = snap[q]
    <3>1. CountedOn(v)' = CountedOn(v) \ {q} /\ q \in CountedOn(v)
      BY <1>1, <2>2 DEF CountedOn, Uncounted
    <3>2. CountedOn(v) \in SUBSET Requests  BY DEF CountedOn
    <3>3. Cardinality(CountedOn(v)) \in Nat \ {0}
          /\ Cardinality(CountedOn(v)') = Cardinality(CountedOn(v)) - 1
      BY <3>1, <3>2, CountDown
    <3>4. pending'[v] = IF pending[v] = 0 THEN 0 ELSE pending[v] - 1
      BY <1>1, <2>2 DEF CountOff, IInv, TypeOK
    <3> QED  BY <2>1, <3>3, <3>4
  <2>3. CASE v # snap[q]
    <3>1. CountedOn(v)' = CountedOn(v)  BY <1>1, <2>3 DEF CountedOn, Uncounted
    <3>2. pending'[v] = pending[v]  BY <1>1, <2>3 DEF CountOff, IInv, TypeOK
    <3> QED  BY <2>1, <3>1, <3>2
  <2> QED  BY <2>2, <2>3
<1>6. BootTasksReported'
  BY <1>1, <1>2, <1>3, <1>4, SameReport DEF IInv, TypeOK
<1> QED  BY <1>2, <1>3, <1>4, <1>5, <1>6 DEF IInv
-----------------------------------------------------------------------------
(* Reloads, the admin listener, the signal and the exit touch no task.     *)
LEMMA FrameStep ==
    ASSUME IInv, UNCHANGED <<hasAdmin, conn, snap, task, supervisors>>,
           version' \in Versions, adminBusy' \in BOOLEAN,
           \/ phase' = phase
           \/ phase = "serving" /\ phase' = "draining"
           \/ phase = "exiting" /\ phase' = "exited"
    PROVE  IInv'
<1>1. TypeOK' /\ Connected'  BY DEF IInv, supervisors, TypeOK, Connected
<1>2. Placed'  BY DEF IInv, supervisors, Placed
<1>3. Phased'  BY DEF IInv, supervisors, Phased
<1>4. CountExact'  BY SameCounts DEF supervisors
<1>5. BootTasksReported'  BY <1>1, <1>2, <1>3, SameReport DEF supervisors
<1> QED  BY <1>1, <1>2, <1>3, <1>4, <1>5 DEF IInv

LEMMA FlushTakeStep == ASSUME IInv, FlushTake PROVE IInv'
<1>1. /\ phase = "draining" /\ phase' = "flushing" /\ 0 \in Versions
      /\ taken' = joinSet[0] /\ joinSet'[0] = {}
      /\ \A v \in Versions \ {0} : joinSet'[v] = joinSet[v]
      /\ UNCHANGED <<hasAdmin, version, adminBusy, conn, snap, task, pending, dropped>>
  BY ShutdownAssumption DEF IInv, FlushTake, TypeOK, Versions
<1>2. TypeOK' /\ Connected'  BY <1>1 DEF IInv, FlushTake, TypeOK, Connected
<1>3. Placed'
  <2>1. taken = {}  BY <1>1 DEF IInv, Phased
  <2> QED  BY <1>1, <2>1 DEF IInv, Placed, TypeOK
<1>4. Phased'  BY <1>1 DEF IInv, Phased, FlushTake, Drained, PublicDrained
<1>5. CountExact'  BY <1>1, SameCounts
<1>6. BootTasksReported'  BY <1>1 DEF BootTasksReported
<1> QED  BY <1>2, <1>3, <1>4, <1>5, <1>6 DEF IInv

LEMMA FlushReportStep == ASSUME IInv, FlushReport PROVE IInv'
<1>1. /\ phase = "flushing" /\ phase' = "exiting" /\ 0 \in Versions
      /\ dropped' = pending[0]
      /\ \A v \in Versions \ {0} : pending'[v] = pending[v]
      /\ \A r \in Requests : task'[r] = IF r \in taken /\ task[r] = "running"
                                        THEN "aborted" ELSE task[r]
      /\ UNCHANGED <<hasAdmin, version, adminBusy, conn, snap, joinSet, taken>>
  BY ShutdownAssumption DEF IInv, FlushReport, Report, TypeOK, Versions
<1>2. TypeOK'  BY <1>1 DEF IInv, FlushReport, Report, TypeOK
<1>3. Connected'  BY <1>1 DEF IInv, Connected
<1>4. Placed'  BY <1>1 DEF IInv, Placed, TypeOK
<1>5. Phased'  BY <1>1 DEF IInv, Phased
<1>6. CountExact'
  <2> SUFFICES ASSUME NEW v \in Versions, v # 0 PROVE pending'[v] = Cardinality(CountedOn(v)')
    BY <1>1 DEF CountExact
  <2>1. CountedOn(v)' = CountedOn(v)
    BY <1>1 DEF CountedOn, IInv, Placed, Uncounted
  <2> QED  BY <1>1, <2>1 DEF IInv, CountExact
<1>7. Cardinality(Unfinished') <= dropped'
  <2>1. Unfinished' \in SUBSET CountedOn(0) /\ CountedOn(0) \in SUBSET Requests
    BY <1>1 DEF Unfinished, CountedOn, IInv, TypeOK, Placed, Phased, Uncounted
  <2>2. dropped' = Cardinality(CountedOn(0))  BY <1>1 DEF IInv, CountExact
  <2> QED  BY <2>1, <2>2, CountLess
<1>8. ASSUME ~hasAdmin', NEW r \in Requests
      PROVE  /\ conn'[r] # "open"
             /\ snap'[r] = 0 /\ task'[r] \in {"counted", "running", "aborted"} => r \in taken'
  BY <1>1, <1>3, <1>4, <1>5, <1>8 DEF Connected, Placed, Phased
<1>9. BootTasksReported'  BY <1>7, <1>8 DEF BootTasksReported
<1> QED  BY <1>2, <1>3, <1>4, <1>5, <1>6, <1>9 DEF IInv

LEMMA NextIInv == IInv /\ [Next]_vars => IInv'
<1> SUFFICES ASSUME IInv, [Next]_vars PROVE IInv'  OBVIOUS
<1>0. version \in Versions /\ adminBusy \in BOOLEAN  BY DEF IInv, TypeOK
<1>1. ASSUME NEW r \in Requests, Accept(r) PROVE IInv'  BY <1>1, AcceptStep
<1>2. ASSUME NEW r \in Requests, CountH7(r) PROVE IInv'  BY <1>2, CountStep
<1>3. ASSUME NEW r \in Requests, SpawnH7(r) PROVE IInv'  BY <1>3, SpawnStep
<1>4. ASSUME NEW r \in Requests, EndWithoutH7(r) PROVE IInv'  BY <1>4, EndStep
<1>5. ASSUME NEW r \in Requests, Complete(r) \/ Panic(r) PROVE IInv'  BY <1>5, TaskStep
<1>6. ASSUME NEW r \in Requests, CountOff(r) PROVE IInv'  BY <1>6, CountOffStep
<1>7. CASE Reload
  <2>1. version' \in Versions  BY <1>0, <1>7, ShutdownAssumption DEF Reload, Versions
  <2> QED  BY <1>0, <1>7, <2>1, FrameStep DEF Reload
<1>8. CASE AdminConnect \/ AdminDisconnect
  BY <1>0, <1>8, FrameStep DEF AdminConnect, AdminDisconnect
<1>9. CASE Signal \/ Exit  BY <1>0, <1>9, FrameStep DEF Signal, Exit
<1>10. CASE FlushTake  BY <1>10, FlushTakeStep
<1>11. CASE FlushReport  BY <1>11, FlushReportStep
<1>12. CASE UNCHANGED vars  BY <1>0, <1>12, FrameStep DEF vars, supervisors
<1> QED  BY <1>1, <1>2, <1>3, <1>4, <1>5, <1>6, <1>7, <1>8, <1>9, <1>10, <1>11, <1>12
          DEF Next, Exited

LEMMA Inductive == Spec => []IInv
<1> QED  BY InitIInv, NextIInv, PTL DEF Spec

(* The supervisor's counts stay natural numbers although a task that was   *)
(* past its last await counts itself off after the flush has cleared the   *)
(* count (supervisor.rs, spawn_h7).                                        *)
THEOREM TypeCorrect == Spec => []TypeOK
<1>1. IInv => TypeOK  BY DEF IInv
<1> QED  BY <1>1, Inductive, PTL

(* Until the flush reports, every supervisor's count is the number of its  *)
(* tasks that have not counted themselves off, whatever the order in which *)
(* responses end, tasks finish or panic, and reloads replace the registry. *)
THEOREM CountIsExact == Spec => []CountExact
<1>1. IInv => CountExact  BY DEF IInv
<1> QED  BY <1>1, Inductive, PTL

(* flush_pending_h7 reports every task it found that did not end, and      *)
(* without an admin listener it finds the task of every response that the  *)
(* boot registry served.                                                   *)
THEOREM NoBootTaskEscapes == Spec => []BootTasksReported
<1>1. IInv => BootTasksReported  BY DEF IInv
<1> QED  BY <1>1, Inductive, PTL
=============================================================================
