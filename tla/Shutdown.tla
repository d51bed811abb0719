------------------------------ MODULE Shutdown ------------------------------
(***************************************************************************)
(* Graceful shutdown and the plugins' on_response_complete (H7) tasks: a   *)
(* response that ends spawns its task on the PluginSupervisor of the       *)
(* snapshot it captured; the shutdown signal stops the listeners, and when *)
(* the server's future returns, run_core flushes the supervisor it cloned  *)
(* at boot within a deadline, and the process exits. Every reload installs *)
(* a registry, with a supervisor of its own: version 0 is the boot one.    *)
(* One H7 plugin is configured; a request is one response.                 *)
(***************************************************************************)
EXTENDS Naturals, FiniteSets

CONSTANTS Requests,
          MaxReloads  \* bound on the reloads

ASSUME ShutdownAssumption == MaxReloads \in Nat /\ IsFiniteSet(Requests)

VARIABLES hasAdmin,  \* an admin listener is configured
          phase,     \* of run_core
          version,   \* of the installed snapshot
          adminBusy, \* a connection of the admin listener is open
          conn,      \* per request: its connection task
          snap,      \* per request: the version it captured
          task,      \* per request: its H7 task
          pending,   \* per version: the supervisor's `pending` count
          joinSet,   \* per version: the supervisor's JoinSet
          taken,     \* the JoinSet that flush took out of the boot supervisor
          dropped    \* the count flush reported

vars == <<hasAdmin, phase, version, adminBusy, conn, snap, task, pending, joinSet, taken,
          dropped>>
supervisors == <<pending, joinSet, taken, dropped>>

Versions == 0..MaxReloads

Init ==
    /\ hasAdmin \in BOOLEAN
    /\ phase = "serving" /\ version = 0 /\ adminBusy = FALSE
    /\ conn = [r \in Requests |-> "none"]
    /\ snap = [r \in Requests |-> 0]
    /\ task = [r \in Requests |-> "none"]
    /\ pending = [v \in Versions |-> 0]
    /\ joinSet = [v \in Versions |-> {}]
    /\ taken = {} /\ dropped = 0

Running == phase # "exited"
-----------------------------------------------------------------------------
(* A reload that is accepted; the task that applies them outlives the      *)
(* listeners.                                                              *)
Reload ==
    /\ Running /\ version < MaxReloads
    /\ version' = version + 1
    /\ UNCHANGED <<hasAdmin, phase, adminBusy, conn, snap, task, supervisors>>

(* A connection is accepted, and the request captures the snapshot.        *)
Accept(r) ==
    /\ phase = "serving" /\ conn[r] = "none"
    /\ conn' = [conn EXCEPT ![r] = "open"]
    /\ snap' = [snap EXCEPT ![r] = version]
    /\ UNCHANGED <<hasAdmin, phase, version, adminBusy, task, supervisors>>

(* The response ends or its client leaves, and H7Guard is dropped:         *)
(* run_on_response_complete and spawn_h7, whose two locks are two steps.   *)
CountH7(r) ==
    /\ Running /\ conn[r] = "open" /\ task[r] = "none"
    /\ pending' = [pending EXCEPT ![snap[r]] = @ + 1]
    /\ task' = [task EXCEPT ![r] = "counted"]
    /\ UNCHANGED <<hasAdmin, phase, version, adminBusy, conn, snap, joinSet, taken, dropped>>

(* A request that is refused, or whose upstream call fails: no H7.         *)
EndWithoutH7(r) ==
    /\ Running /\ conn[r] = "open" /\ task[r] = "none"
    /\ conn' = [conn EXCEPT ![r] = "closed"]
    /\ UNCHANGED <<hasAdmin, phase, version, adminBusy, snap, task, supervisors>>

SpawnH7(r) ==
    /\ Running /\ task[r] = "counted"
    /\ joinSet' = [joinSet EXCEPT ![snap[r]] = @ \cup {r}]
    /\ task' = [task EXCEPT ![r] = "running"]
    /\ conn' = [conn EXCEPT ![r] = "closed"]
    /\ UNCHANGED <<hasAdmin, phase, version, adminBusy, snap, pending, taken, dropped>>

(* The task's future completes, and then it takes the lock and counts      *)
(* itself off (saturating). A plugin that panics does not get that far.    *)
Complete(r) ==
    /\ Running /\ task[r] = "running"
    /\ task' = [task EXCEPT ![r] = "completed"]
    /\ UNCHANGED <<hasAdmin, phase, version, adminBusy, conn, snap, supervisors>>

(* Mutant of CountOff: the decrement is forgotten.                         *)
LeaveCount(r) ==
    /\ Running /\ task[r] = "completed"
    /\ task' = [task EXCEPT ![r] = "ended"]
    /\ UNCHANGED <<hasAdmin, phase, version, adminBusy, conn, snap, supervisors>>

CountOff(r) ==
    /\ Running /\ task[r] = "completed"
    /\ pending' = [pending EXCEPT ![snap[r]] = IF @ = 0 THEN 0 ELSE @ - 1]
    /\ task' = [task EXCEPT ![r] = "ended"]
    /\ UNCHANGED <<hasAdmin, phase, version, adminBusy, conn, snap, joinSet, taken, dropped>>

Panic(r) ==
    /\ Running /\ task[r] = "running"
    /\ task' = [task EXCEPT ![r] = "panicked"]
    /\ UNCHANGED <<hasAdmin, phase, version, adminBusy, conn, snap, supervisors>>
-----------------------------------------------------------------------------
(* Connections of the admin listener.                                      *)
AdminConnect ==
    /\ hasAdmin /\ phase = "serving" /\ ~adminBusy
    /\ adminBusy' = TRUE
    /\ UNCHANGED <<hasAdmin, phase, version, conn, snap, task, supervisors>>

AdminDisconnect ==
    /\ Running /\ adminBusy
    /\ adminBusy' = FALSE
    /\ UNCHANGED <<hasAdmin, phase, version, conn, snap, task, supervisors>>

(* SIGTERM or Ctrl-C: the listeners stop accepting.                        *)
Signal ==
    /\ phase = "serving"
    /\ phase' = "draining"
    /\ UNCHANGED <<hasAdmin, version, adminBusy, conn, snap, task, supervisors>>

PublicDrained == \A r \in Requests : conn[r] # "open"

(* Mutant of Drained: nobody waits for the connections.                    *)
NotDrained == TRUE

(* axum's graceful shutdown ends when the listener's connections have      *)
(* ended; with two listeners, select! returns when the first of them does, *)
(* and the connections of the other run on in their own tasks.             *)
Drained == PublicDrained \/ (hasAdmin /\ ~adminBusy)

(* flush_pending_h7 on the boot registry: take the JoinSet, then wait.     *)
FlushTake ==
    /\ phase = "draining" /\ Drained
    /\ phase' = "flushing"
    /\ taken' = joinSet[0]
    /\ joinSet' = [joinSet EXCEPT ![0] = {}]
    /\ UNCHANGED <<hasAdmin, version, adminBusy, conn, snap, task, pending, dropped>>

Joined == \A r \in taken : task[r] \in {"ended", "panicked"}

(* join_next has returned None, or the deadline has passed (at any time,   *)
(* so the step does not look at Joined): what is still counted is          *)
(* reported, and the survivors are aborted, but for a task that is past    *)
(* its last await and only has to take the lock.                           *)
Report ==
    /\ phase' = "exiting"
    /\ dropped' = pending[0]
    /\ pending' = [pending EXCEPT ![0] = 0]
    /\ task' = [r \in Requests |-> IF r \in taken /\ task[r] = "running"
                                   THEN "aborted" ELSE task[r]]
    /\ UNCHANGED <<hasAdmin, version, adminBusy, conn, snap, joinSet, taken>>

(* Mutant of FlushReport: it waits for the tasks without a deadline.       *)
ReportWhenJoined == phase = "flushing" /\ Joined /\ Report

FlushReport == phase = "flushing" /\ Report

(* run_core returns and the runtime is shut down.                          *)
Exit ==
    /\ phase = "exiting"
    /\ phase' = "exited"
    /\ UNCHANGED <<hasAdmin, version, adminBusy, conn, snap, task, supervisors>>

Exited == phase = "exited" /\ UNCHANGED vars

Next ==
    \/ \E r \in Requests :
         \/ Accept(r) \/ CountH7(r) \/ SpawnH7(r) \/ EndWithoutH7(r)
         \/ Complete(r) \/ CountOff(r) \/ Panic(r)
    \/ Reload \/ AdminConnect \/ AdminDisconnect
    \/ Signal \/ FlushTake \/ FlushReport \/ Exit \/ Exited

Spec == Init /\ [][Next]_vars

(* run_core's own steps are taken by the runtime, and the flush has its    *)
(* timer. Nothing is assumed of clients, upstreams and plugins: none of    *)
(* them need ever end.                                                     *)
FairSpec == Spec /\ WF_vars(FlushTake) /\ WF_vars(FlushReport) /\ WF_vars(Exit)
-----------------------------------------------------------------------------
(* Types; a count that a late task decrements after the flush has cleared  *)
(* it (supervisor.rs, spawn_h7) must not go below zero.                    *)
TypeOK ==
    /\ phase \in {"serving", "draining", "flushing", "exiting", "exited"}
    /\ hasAdmin \in BOOLEAN /\ version \in Versions /\ adminBusy \in BOOLEAN
    /\ conn \in [Requests -> {"none", "open", "closed"}]
    /\ snap \in [Requests -> Versions]
    /\ task \in [Requests -> {"none", "counted", "running", "completed", "ended",
                              "panicked", "aborted"}]
    /\ pending \in [Versions -> Nat]
    /\ joinSet \in [Versions -> SUBSET Requests]
    /\ taken \subseteq Requests /\ dropped \in Nat

Uncounted == {"counted", "running", "completed", "panicked"}

CountedOn(v) == {r \in Requests : snap[r] = v /\ task[r] \in Uncounted}

(* What flush_pending_h7 is going to report is exact: until the report,    *)
(* every supervisor counts the tasks spawned on it that have not counted   *)
(* themselves off, with the tasks whose plugin panicked among them.        *)
CountExact ==
    \A v \in Versions :
        (v # 0 \/ phase \in {"serving", "draining", "flushing"}) =>
            pending[v] = Cardinality(CountedOn(v))

Unfinished == {r \in taken : task[r] \in {"running", "aborted"}}

(* Shutdown awaits the H7 tasks, and those beyond the deadline are         *)
(* abandoned with a counter increment (ADR 0008, (8)): a task that the     *)
(* flush found is counted in its report unless it has ended, and without   *)
(* an admin listener the flush finds the task of every response on the     *)
(* boot registry, and nothing is in flight any more when it reports.       *)
BootTasksReported ==
    phase \in {"exiting", "exited"} =>
        /\ Cardinality(Unfinished) <= dropped
        /\ ~hasAdmin => \A r \in Requests :
              /\ conn[r] # "open"
              /\ snap[r] = 0 /\ task[r] \in {"counted", "running", "aborted"} => r \in taken

(* Once the listeners have drained the process exits, whatever the plugins *)
(* do: a task that never ends only costs the deadline.                     *)
ExitsAfterDrain == (phase = "draining" /\ Drained) ~> (phase = "exited")
=============================================================================
