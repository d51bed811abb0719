----------------------------- MODULE HotReload -----------------------------
(***************************************************************************)
(* Hot reload of the configuration: the SIGHUP listener and the handlers   *)
(* of POST /admin/reload feed a bounded channel, one task applies the      *)
(* requests in order and swaps the policy snapshot and then the rate       *)
(* limiter, while requests capture the snapshot once, resolve their route  *)
(* in the table built at boot and load the limiter when they are admitted. *)
(* Every configuration put in force gets a version: 0 is the boot one.     *)
(***************************************************************************)
EXTENDS Naturals, Sequences

CONSTANTS Config,      \* contents of a configuration
          \* ([parses, listen, otel, upstreams, valid, plugins, routes])
          Boot,        \* the configuration at startup
          Unreadable,  \* the state of a config file that cannot be read
          NoPath,      \* the server was started without --config
          Admins,      \* clients of POST /admin/reload
          Requests, Models,
          ChannelCap,  \* capacity of the reload channel: 8 in the program
          MaxHangups   \* bound on the signals sent

(* listen: bind and port of server and admin; otel: otel.endpoint; valid:  *)
(* rules 1-10 of validate; plugins: the plugin section builds.             *)
ASSUME ConfigAssumption ==
    /\ \A c \in Config : c.parses \in BOOLEAN /\ c.valid \in BOOLEAN /\ c.plugins \in BOOLEAN
    /\ \A c \in Config : c.routes \subseteq Models
    /\ Boot \in Config /\ Boot.parses /\ Boot.valid /\ Boot.plugins
    /\ Unreadable \notin Config /\ NoPath \notin Config /\ NoPath # Unreadable
ASSUME BoundAssumption == ChannelCap \in Nat \ {0} /\ MaxHangups \in Nat

VARIABLES file,      \* the file at config_path, or NoPath
          hup,       \* a SIGHUP is pending; signals coalesce
          hangups,   \* signals sent so far
          listener,  \* the SIGHUP task: waiting for a signal, or in send().await
          admin,     \* the handlers of POST /admin/reload
          queue,     \* the reload channel
          applier,   \* the reload-applying task
          inForce,   \* history: the configuration of each version
          snapshot,  \* version of state.snapshot
          limiter,   \* version of the LimiterRegistry
          request,   \* the requests in the pipeline
          unread     \* history: the file was edited since it was last read

vars == <<file, hup, hangups, listener, admin, queue, applier, inForce, snapshot, limiter, request,
          unread>>
triggers == <<hup, hangups, listener, admin, queue>>
installed == <<inForce, snapshot, limiter>>

SIGHUP == "sighup_task"

(* ReloadSource; the SIGHUP task discards its oneshot reply.               *)
Sources == [kind : {"path", "sighup"}] \cup [kind : {"yaml"}, config : Config]
NoSource == [kind |-> "none"]

(* A handler of POST /admin/reload, and the task, at rest. base: the       *)
(* version in force when the task took up the request.                     *)
NewAdmin == [pc |-> "idle", source |-> NoSource, outcome |-> "none"]
NewApplier == [pc |-> "idle", source |-> NoSource, from |-> SIGHUP, base |-> 0,
               candidate |-> Boot, outcome |-> "none"]

NewRequest == [pc |-> "new", model |-> "none", snap |-> 0, limits |-> 0, outcome |-> "none"]

Init ==
    /\ file \in {Boot, NoPath} /\ unread = FALSE
    /\ hup = FALSE /\ hangups = 0 /\ listener = "waiting"
    /\ admin = [a \in Admins |-> NewAdmin]
    /\ queue = << >>
    /\ applier = NewApplier
    /\ inForce = [v \in {0} |-> Boot]
    /\ snapshot = 0 /\ limiter = 0
    /\ request = [r \in Requests |-> NewRequest]
-----------------------------------------------------------------------------
HasPath == file # NoPath

(* The operator edits the file, and sends a signal.                        *)
EditFile ==
    /\ HasPath
    /\ \E c \in Config \cup {Unreadable} : file' = c
    /\ unread' = TRUE
    /\ UNCHANGED <<triggers, installed, applier, request>>

Hangup ==
    /\ hangups < MaxHangups
    /\ hangups' = hangups + 1
    /\ hup' = TRUE
    /\ UNCHANGED <<listener, admin, queue, file, installed, applier, request, unread>>

(* The SIGHUP task.                                                        *)
ListenHup ==
    /\ listener = "waiting" /\ hup
    /\ hup' = FALSE /\ listener' = "sending"
    /\ UNCHANGED <<hangups, admin, queue, file, installed, applier, request, unread>>

CanSend == Len(queue) < ChannelCap

(* Mutant of SendHup: the signal is dropped when the channel is full.      *)
TrySendHup ==
    /\ listener = "sending"
    /\ queue' = IF CanSend THEN Append(queue, [source |-> [kind |-> "sighup"], from |-> SIGHUP])
                ELSE queue
    /\ listener' = "waiting"
    /\ UNCHANGED <<hup, hangups, admin, file, installed, applier, request, unread>>

SendHup ==
    /\ listener = "sending" /\ CanSend
    /\ queue' = Append(queue, [source |-> [kind |-> "sighup"], from |-> SIGHUP])
    /\ listener' = "waiting"
    /\ UNCHANGED <<hup, hangups, admin, file, installed, applier, request, unread>>

SendFrom(a, source) == admin' = [admin EXCEPT ![a].pc = "sending", ![a].source = source]
Respond(a, outcome) == admin' = [admin EXCEPT ![a].pc = "answered", ![a].outcome = outcome]

(* POST /admin/reload: a body is a YAML source (refused when its type or   *)
(* its encoding is wrong), no body means the file, if there is one.        *)
Post(a) ==
    /\ admin[a].pc = "idle"
    /\ \/ \E c \in Config : SendFrom(a, [kind |-> "yaml", config |-> c])
       \/ HasPath /\ SendFrom(a, [kind |-> "path"])
       \/ ~HasPath /\ Respond(a, "io")
       \/ Respond(a, "bad_request")
    /\ UNCHANGED <<hup, hangups, listener, queue, file, installed, applier, request, unread>>

SendPost(a) ==
    /\ admin[a].pc = "sending" /\ CanSend
    /\ queue' = Append(queue, [source |-> admin[a].source, from |-> a])
    /\ admin' = [admin EXCEPT ![a].pc = "waiting", ![a].source = NoSource]
    /\ UNCHANGED <<hup, hangups, listener, file, installed, applier, request, unread>>

(* The client gives up: a send in progress is withdrawn, a request that is *)
(* already in the channel stays there.                                     *)
Leave(a) ==
    /\ admin[a].pc \in {"sending", "waiting"}
    /\ admin' = [admin EXCEPT ![a].pc = "gone", ![a].source = NoSource]
    /\ UNCHANGED <<hup, hangups, listener, queue, file, installed, applier, request, unread>>
-----------------------------------------------------------------------------
Receive ==
    /\ applier.pc = "idle" /\ queue # << >>
    /\ applier' = [applier EXCEPT !.pc = "read", !.source = Head(queue).source,
                                  !.from = Head(queue).from, !.base = snapshot]
    /\ queue' = Tail(queue)
    /\ UNCHANGED <<hup, hangups, listener, admin, file, installed, request, unread>>

\* What a step has used up it drops: the source once read, the candidate once judged.
Answer(outcome) ==
    applier' = [applier EXCEPT !.pc = "reply", !.outcome = outcome, !.source = NoSource,
                               !.candidate = Boot]
Candidate(c) == applier' = [applier EXCEPT !.pc = "apply", !.candidate = c, !.source = NoSource]

(* handle_reload up to the parse: the body, or the file as it is now.      *)
ReadSource ==
    /\ applier.pc = "read"
    /\ \/ /\ applier.source.kind = "yaml"
          /\ Candidate(applier.source.config) /\ UNCHANGED unread
       \/ /\ applier.source.kind # "yaml" /\ HasPath
          /\ unread' = FALSE
          /\ IF file = Unreadable THEN Answer("io") ELSE Candidate(file)
       \/ /\ applier.source.kind # "yaml" /\ ~HasPath
          /\ Answer("io") /\ UNCHANGED unread
    /\ UNCHANGED <<triggers, installed, file, request>>

(* Mutant of Verdict: the set of upstreams is not compared.                *)
VerdictNoSet(c, current) ==
    IF ~c.parses THEN "parse"
    ELSE IF c.listen # Boot.listen THEN "immutable_field"
    ELSE IF c.otel # current.otel THEN "immutable_field"
    ELSE IF ~c.valid THEN "validation_error"
    ELSE IF ~c.plugins THEN "plugin_validation"
    ELSE "ok"

(* validate_for_reload in the order of its rules, and the rebuild of the   *)
(* plugin registry. The baseline has the listeners of AppCore, which are   *)
(* those of the boot, and the otel endpoint and the upstreams in force.    *)
Verdict(c, current) ==
    IF ~c.parses THEN "parse"
    ELSE IF c.listen # Boot.listen THEN "immutable_field"
    ELSE IF c.otel # current.otel THEN "immutable_field"
    ELSE IF c.upstreams # current.upstreams THEN "immutable_field"
    ELSE IF ~c.valid THEN "validation_error"
    ELSE IF ~c.plugins THEN "plugin_validation"
    ELSE "ok"

Install(c) ==
    /\ snapshot' = snapshot + 1
    /\ inForce' = [v \in 0..(snapshot + 1) |-> IF v <= snapshot THEN inForce[v] ELSE c]

(* Mutants of Apply: the snapshot is stored before the plugins are built;  *)
(* the task dies on a candidate that does not parse.                       *)
ApplyThenPlugins ==
    /\ applier.pc = "apply"
    /\ LET verdict == Verdict(applier.candidate, inForce[snapshot])
       IN  /\ IF verdict \in {"ok", "plugin_validation"}
              THEN Install(applier.candidate)
              ELSE UNCHANGED <<snapshot, inForce>>
           /\ IF verdict = "ok" THEN applier' = [applier EXCEPT !.pc = "limiter", !.candidate = Boot]
              ELSE Answer(verdict)
    /\ UNCHANGED <<triggers, limiter, file, request, unread>>

ApplyDies ==
    /\ applier.pc = "apply" /\ applier.candidate.parses
    /\ LET verdict == Verdict(applier.candidate, inForce[snapshot])
       IN  IF verdict = "ok"
           THEN Install(applier.candidate) /\ applier' = [applier EXCEPT !.pc = "limiter", !.candidate = Boot]
           ELSE Answer(verdict) /\ UNCHANGED <<snapshot, inForce>>
    /\ UNCHANGED <<triggers, limiter, file, request, unread>>

(* Commit point 1: state.snapshot.store, unless the candidate is refused.  *)
Apply ==
    /\ applier.pc = "apply"
    /\ LET verdict == Verdict(applier.candidate, inForce[snapshot])
       IN  IF verdict = "ok"
           THEN /\ Install(applier.candidate)
                /\ applier' = [applier EXCEPT !.pc = "limiter", !.candidate = Boot]
           ELSE Answer(verdict) /\ UNCHANGED <<snapshot, inForce>>
    /\ UNCHANGED <<triggers, limiter, file, request, unread>>

(* Commit point 2: the limiter is rebuilt from the committed snapshot.     *)
StoreLimiter ==
    /\ applier.pc = "limiter"
    /\ limiter' = snapshot
    /\ Answer("ok")
    /\ UNCHANGED <<triggers, inForce, snapshot, file, request, unread>>

(* The oneshot reply; nobody listens to a SIGHUP's or a departed client's. *)
Reply ==
    /\ applier.pc = "reply"
    /\ applier' = NewApplier
    /\ IF applier.from \in Admins /\ admin[applier.from].pc = "waiting"
       THEN Respond(applier.from, applier.outcome)
       ELSE UNCHANGED admin
    /\ UNCHANGED <<hup, hangups, listener, queue, installed, file, request, unread>>
-----------------------------------------------------------------------------
(* dispatch captures the snapshot; decode and auth are left out.           *)
Begin(r) ==
    /\ request[r].pc = "new"
    /\ \E m \in Models :
          request' = [request EXCEPT ![r].pc = "resolve", ![r].model = m, ![r].snap = snapshot]
    /\ UNCHANGED <<triggers, installed, applier, file, unread>>

EndRequest(r, outcome) == request' = [request EXCEPT ![r].pc = "done", ![r].outcome = outcome]

(* The resolver's table is the one of AppCore, built at boot; the route    *)
(* entry is then looked up in the captured snapshot.                       *)
Resolve(r) ==
    /\ request[r].pc = "resolve"
    /\ IF request[r].model \in Boot.routes /\ request[r].model \in inForce[request[r].snap].routes
       THEN request' = [request EXCEPT ![r].pc = "admit"]
       ELSE EndRequest(r, "no_route")
    /\ UNCHANGED <<triggers, installed, applier, file, unread>>

(* Mutant of AdmitRequest: admission keeps the limiter it was built with.  *)
AdmitAtBoot(r) ==
    /\ request[r].pc = "admit"
    /\ request' = [request EXCEPT ![r].pc = "done", ![r].outcome = "admitted", ![r].limits = 0]
    /\ UNCHANGED <<triggers, installed, applier, file, unread>>

(* admit loads whatever limiter is installed.                              *)
AdmitRequest(r) ==
    /\ request[r].pc = "admit"
    /\ request' = [request EXCEPT ![r].pc = "done", ![r].outcome = "admitted",
                                  ![r].limits = limiter]
    /\ UNCHANGED <<triggers, installed, applier, file, unread>>
-----------------------------------------------------------------------------
AdminStep(a) == Post(a) \/ SendPost(a) \/ Leave(a)
ApplierStep == Receive \/ ReadSource \/ Apply \/ StoreLimiter \/ Reply
RequestStep(r) == Begin(r) \/ Resolve(r) \/ AdmitRequest(r)

(* All the signals and requests of the model have been served; every task  *)
(* waits for more.                                                         *)
Quiescent ==
    /\ hangups = MaxHangups /\ ~hup /\ listener = "waiting" /\ queue = << >> /\ applier.pc = "idle"
    /\ \A a \in Admins : admin[a].pc \in {"answered", "gone"}
    /\ \A r \in Requests : request[r].pc = "done"
    /\ UNCHANGED vars

Next ==
    \/ EditFile \/ Hangup \/ ListenHup \/ SendHup
    \/ \E a \in Admins : AdminStep(a)
    \/ ApplierStep
    \/ \E r \in Requests : RequestStep(r)
    \/ Quiescent

Spec == Init /\ [][Next]_vars

(* The runtime polls the tasks that can run; the channel's waiters are     *)
(* queued, so that a send that is possible again and again is made.        *)
Fairness ==
    /\ WF_vars(ListenHup) /\ SF_vars(SendHup)
    /\ WF_vars(ApplierStep)
    /\ \A a \in Admins : SF_vars(SendPost(a))

FairSpec == Spec /\ Fairness
-----------------------------------------------------------------------------
Refusals == {"io", "parse", "immutable_field", "validation_error", "plugin_validation"}

(* Type correctness. Requests and the limiter refer to versions that were  *)
(* really put in force.                                                    *)
TypeOK ==
    /\ snapshot \in Nat
    /\ inForce \in [0..snapshot -> Config]
    /\ limiter \in 0..snapshot
    /\ file \in Config \cup {Unreadable, NoPath} /\ unread \in BOOLEAN
    /\ hup \in BOOLEAN /\ listener \in {"waiting", "sending"}
    /\ Len(queue) <= ChannelCap
    /\ applier.pc \in {"idle", "read", "apply", "limiter", "reply"}
    /\ applier.base \in 0..snapshot /\ applier.candidate \in Config
    /\ \A r \in Requests : request[r].snap \in 0..snapshot /\ request[r].limits \in 0..snapshot
    /\ \A a \in Admins : admin[a].pc \in {"idle", "sending", "waiting", "answered", "gone"}

(* What must not change without a restart (the listeners, otel.endpoint,   *)
(* the set of upstreams: rules 12 to 14) is what it was at boot in every   *)
(* configuration ever in force, although endpoint and upstreams are only   *)
(* compared with the snapshot that is replaced; and none is invalid.       *)
FixedFieldsKept ==
    \A v \in 0..snapshot :
        /\ inForce[v].listen = Boot.listen /\ inForce[v].otel = Boot.otel
        /\ inForce[v].upstreams = Boot.upstreams
        /\ inForce[v].parses /\ inForce[v].valid /\ inForce[v].plugins

(* "There is no partial commit" (architecture.md:303): a refused reload    *)
(* leaves snapshot and limiter as they were when it was taken up, an       *)
(* accepted one has installed both before it is answered, and between the  *)
(* two stores the limiter is exactly one version behind.                   *)
NoPartialCommit ==
    /\ applier.pc = "limiter" => snapshot = applier.base + 1 /\ limiter = applier.base
    /\ applier.pc # "limiter" => limiter = snapshot
    /\ applier.pc = "reply" =>
         snapshot = applier.base + (IF applier.outcome = "ok" THEN 1 ELSE 0)

(* A request reads the snapshot at its start and the limiter at admission, *)
(* across the two commit points of reloads it knows nothing of: its limits *)
(* may be newer than its snapshot, and older by one reload at the most.    *)
LimitsRecent ==
    \A r \in Requests :
        request[r].outcome = "admitted" => request[r].limits + 1 >= request[r].snap

(* Every handler of POST /admin/reload is answered, unless its client      *)
(* left, however the reloads of others end and whatever fills the channel. *)
PostAnswered ==
    \A a \in Admins : admin[a].pc \in {"sending", "waiting"} ~> admin[a].pc \in {"answered", "gone"}

(* A SIGHUP after an edit is never lost, coalesced signals and a full      *)
(* channel included: the file is read after it.                            *)
HangupReadsFile == hup /\ unread ~> ~unread
=============================================================================
