-------------------------- MODULE HotReload_proofs --------------------------
(***************************************************************************)
(* Proofs about HotReload, for every set of configurations, handlers and   *)
(* requests, every channel capacity and any number of reloads.             *)
(***************************************************************************)
EXTENDS HotReload, TLAPS

AnySource == Sources \cup {NoSource}
Outcome == Refusals \cup {"none", "ok", "bad_request"}
Message == [source : AnySource, from : Admins \cup {SIGHUP}]
ApplierRec == [pc : {"idle", "read", "apply", "limiter", "reply"}, source : AnySource,
               from : Admins \cup {SIGHUP}, base : Nat, candidate : Config, outcome : Outcome]
AdminRec == [pc : {"idle", "sending", "waiting", "answered", "gone"}, source : AnySource,
             outcome : Outcome]
RequestRec == [pc : {"new", "resolve", "admit", "done"}, model : Models \cup {"none"},
               snap : Nat, limits : Nat, outcome : {"none", "no_route", "admitted"}]

(* What TypeOK needs of the records it reads fields of.                    *)
Shapes ==
    /\ file \in Config \cup {Unreadable, NoPath} /\ unread \in BOOLEAN
    /\ hup \in BOOLEAN /\ listener \in {"waiting", "sending"}
    /\ queue \in Seq(Message) /\ Len(queue) <= ChannelCap
    /\ applier \in ApplierRec
    /\ admin \in [Admins -> AdminRec]
    /\ request \in [Requests -> RequestRec]

(* The versions that the parts of the system refer to have been installed. *)
Versions ==
    /\ snapshot \in Nat
    /\ inForce \in [0..snapshot -> Config]
    /\ limiter \in 0..snapshot
    /\ applier.base \in 0..snapshot
    /\ \A r \in Requests : request[r].snap \in 0..snapshot /\ request[r].limits \in 0..snapshot

(* Only the applying task installs, so the version it took as its base is  *)
(* still in force when it commits.                                         *)
BaseInForce == applier.pc \in {"read", "apply"} => snapshot = applier.base

(* A request that has not been admitted or refused has no outcome yet.     *)
Ended == \A r \in Requests : request[r].outcome # "none" => request[r].pc = "done"

IInv ==
    /\ Shapes /\ Versions /\ BaseInForce /\ NoPartialCommit /\ FixedFieldsKept
    /\ Ended /\ LimitsRecent
-----------------------------------------------------------------------------
LEMMA SourceFacts ==
    /\ [kind |-> "path"] \in AnySource
    /\ [kind |-> "sighup"] \in AnySource
    /\ NoSource \in AnySource
    /\ \A c \in Config : [kind |-> "yaml", config |-> c] \in AnySource
    /\ \A s \in AnySource : s.kind = "yaml" => s.config \in Config
<1>1. \A s \in [kind : {"path", "sighup"}] \cup {NoSource} : s.kind # "yaml"
  BY DEF NoSource
<1>2. \A s \in [kind : {"yaml"}, config : Config] : s.config \in Config
  OBVIOUS
<1> QED
  BY <1>1, <1>2 DEF AnySource, Sources, NoSource

(* A verdict of "ok" gives a candidate that keeps what needs a restart.    *)
LEMMA VerdictOk ==
    ASSUME NEW c, NEW d, Verdict(c, d) = "ok", c.parses \in BOOLEAN, c.valid \in BOOLEAN,
           c.plugins \in BOOLEAN
    PROVE  /\ c.parses /\ c.valid /\ c.plugins
           /\ c.listen = Boot.listen /\ c.otel = d.otel /\ c.upstreams = d.upstreams
  BY DEF Verdict

LEMMA VerdictType ==
    ASSUME NEW c, NEW d
    PROVE  Verdict(c, d) \in Outcome
  BY DEF Verdict, Outcome, Refusals

LEMMA ChannelShape ==
    ASSUME NEW q \in Seq(Message), NEW m \in Message
    PROVE  /\ Append(q, m) \in Seq(Message) /\ Len(Append(q, m)) = Len(q) + 1
           /\ q # << >> => /\ Head(q) \in Message /\ Tail(q) \in Seq(Message)
                           /\ Len(Tail(q)) = Len(q) - 1 /\ Len(q) \in Nat
  OBVIOUS
-----------------------------------------------------------------------------
LEMMA InitIInv == Init => IInv
<1> SUFFICES ASSUME Init PROVE IInv
  OBVIOUS
<1> USE DEF Init
<1>1. Shapes
  <2>1. applier \in ApplierRec
    BY SourceFacts, ConfigAssumption DEF NewApplier, ApplierRec, Outcome
  <2>2. NewAdmin \in AdminRec
    BY SourceFacts DEF NewAdmin, AdminRec, Outcome
  <2>3. NewRequest \in RequestRec
    BY DEF NewRequest, RequestRec
  <2>4. queue \in Seq(Message) /\ Len(queue) <= ChannelCap
    BY BoundAssumption
  <2> QED
    BY <2>1, <2>2, <2>3, <2>4, ConfigAssumption DEF Shapes
<1>2. Versions
  <2>1. inForce \in [0..snapshot -> Config]
    BY ConfigAssumption
  <2> QED
    BY <2>1 DEF Versions, NewApplier, NewRequest
<1>3. FixedFieldsKept
  <2>1. \A v \in 0..snapshot : inForce[v] = Boot
    OBVIOUS
  <2> QED
    BY <2>1, ConfigAssumption DEF FixedFieldsKept
<1>4. BaseInForce /\ NoPartialCommit
  BY DEF BaseInForce, NoPartialCommit, NewApplier
<1>5. Ended /\ LimitsRecent
  BY DEF Ended, LimitsRecent, NewRequest
<1> QED
  BY <1>1, <1>2, <1>3, <1>4, <1>5 DEF IInv
-----------------------------------------------------------------------------
(* Steps that leave the requests alone.                                    *)
LEMMA RequestsKept ==
    ASSUME IInv, request' = request
    PROVE  Ended' /\ LimitsRecent'
  BY DEF IInv, Ended, LimitsRecent

(* Steps that install nothing and leave the applying task alone.           *)
LEMMA QuietStep ==
    ASSUME IInv, Shapes', Ended', LimitsRecent', applier' = applier, UNCHANGED installed,
           \A r \in Requests : /\ request'[r].snap \in {request[r].snap, snapshot}
                               /\ request'[r].limits \in {request[r].limits, limiter}
    PROVE  IInv'
<1>1. Versions'
  BY DEF IInv, Versions, installed
<1>2. NoPartialCommit' /\ BaseInForce' /\ FixedFieldsKept'
  BY DEF IInv, NoPartialCommit, BaseInForce, FixedFieldsKept, installed
<1> QED
  BY <1>1, <1>2 DEF IInv

LEMMA EnvironmentStep ==
    ASSUME IInv, EditFile \/ Hangup \/ ListenHup \/ SendHup
    PROVE  IInv'
<1>1. Shapes
  BY DEF IInv
<1>2. CASE EditFile
  <2>1. Shapes'
    BY <1>1, <1>2 DEF EditFile, Shapes, triggers
  <2> QED
    BY <1>2, <2>1, QuietStep, RequestsKept DEF EditFile
<1>3. CASE Hangup
  <2>1. Shapes'
    BY <1>1, <1>3 DEF Hangup, Shapes
  <2> QED
    BY <1>3, <2>1, QuietStep, RequestsKept DEF Hangup
<1>4. CASE ListenHup
  <2>1. Shapes'
    BY <1>1, <1>4 DEF ListenHup, Shapes
  <2> QED
    BY <1>4, <2>1, QuietStep, RequestsKept DEF ListenHup
<1>5. CASE SendHup
  <2>1. [source |-> [kind |-> "sighup"], from |-> SIGHUP] \in Message
    BY SourceFacts DEF Message
  <2>2. queue' \in Seq(Message) /\ Len(queue') <= ChannelCap
    BY <1>1, <1>5, <2>1, ChannelShape, BoundAssumption DEF Shapes, SendHup, CanSend
  <2>3. Shapes'
    BY <1>1, <1>5, <2>2 DEF SendHup, Shapes
  <2> QED
    BY <1>5, <2>3, QuietStep, RequestsKept DEF SendHup
<1> QED
  BY <1>2, <1>3, <1>4, <1>5

LEMMA AdminStepInv ==
    ASSUME IInv, NEW a \in Admins, AdminStep(a)
    PROVE  IInv'
<1>1. Shapes /\ admin[a] \in AdminRec
  BY DEF IInv, Shapes
<1>2. CASE Post(a)
  <2>1. ASSUME NEW s \in AnySource, SendFrom(a, s) PROVE admin' \in [Admins -> AdminRec]
    BY <1>1, <2>1 DEF SendFrom, Shapes, AdminRec
  <2>2. ASSUME NEW o \in Outcome, Respond(a, o) PROVE admin' \in [Admins -> AdminRec]
    BY <1>1, <2>2 DEF Respond, Shapes, AdminRec
  <2>3. "io" \in Outcome /\ "bad_request" \in Outcome
    BY DEF Outcome, Refusals
  <2>4. admin' \in [Admins -> AdminRec]
    BY <1>2, <2>1, <2>2, <2>3, SourceFacts DEF Post
  <2>5. Shapes'
    BY <1>1, <1>2, <2>4 DEF Post, Shapes
  <2> QED
    BY <1>2, <2>5, QuietStep, RequestsKept DEF Post
<1>3. CASE SendPost(a)
  <2>1. [source |-> admin[a].source, from |-> a] \in Message
    BY <1>1 DEF Message, AdminRec
  <2>2. queue' \in Seq(Message) /\ Len(queue') <= ChannelCap
    BY <1>1, <1>3, <2>1, ChannelShape, BoundAssumption DEF Shapes, SendPost, CanSend
  <2>3. admin' \in [Admins -> AdminRec]
    BY <1>1, <1>3, SourceFacts DEF SendPost, Shapes, AdminRec
  <2>4. Shapes'
    BY <1>1, <1>3, <2>2, <2>3 DEF SendPost, Shapes
  <2> QED
    BY <1>3, <2>4, QuietStep, RequestsKept DEF SendPost
<1>4. CASE Leave(a)
  <2>1. admin' \in [Admins -> AdminRec]
    BY <1>1, <1>4, SourceFacts DEF Leave, Shapes, AdminRec
  <2>2. Shapes'
    BY <1>1, <1>4, <2>1 DEF Leave, Shapes
  <2> QED
    BY <1>4, <2>2, QuietStep, RequestsKept DEF Leave
<1> QED
  BY <1>2, <1>3, <1>4 DEF AdminStep

LEMMA RequestStepInv ==
    ASSUME IInv, NEW r \in Requests, RequestStep(r)
    PROVE  IInv'
<1>1. Shapes /\ request[r] \in RequestRec /\ snapshot \in Nat /\ limiter \in Nat
  BY DEF IInv, Shapes, Versions
<1>2. /\ request' \in [Requests -> RequestRec]
      /\ \A q \in Requests : /\ request'[q].snap \in {request[q].snap, snapshot}
                             /\ request'[q].limits \in {request[q].limits, limiter}
  <2>1. CASE Begin(r)
    <3>1. PICK m \in Models :
             request' = [request EXCEPT ![r].pc = "resolve", ![r].model = m, ![r].snap = snapshot]
      BY <2>1 DEF Begin
    <3> QED
      BY <1>1, <3>1 DEF Shapes, RequestRec
  <2>2. CASE Resolve(r)
    <3>1. \/ request' = [request EXCEPT ![r].pc = "admit"]
          \/ request' = [request EXCEPT ![r].pc = "done", ![r].outcome = "no_route"]
      BY <2>2 DEF Resolve, EndRequest
    <3>2. CASE request' = [request EXCEPT ![r].pc = "admit"]
      BY <1>1, <3>2 DEF Shapes, RequestRec
    <3>3. CASE request' = [request EXCEPT ![r].pc = "done", ![r].outcome = "no_route"]
      BY <1>1, <3>3 DEF Shapes, RequestRec
    <3> QED
      BY <3>1, <3>2, <3>3
  <2>3. CASE AdmitRequest(r)
    BY <1>1, <2>3 DEF AdmitRequest, Shapes, RequestRec
  <2> QED
    BY <2>1, <2>2, <2>3 DEF RequestStep
<1>3. UNCHANGED <<triggers, installed, applier, file, unread>>
  BY DEF RequestStep, Begin, Resolve, AdmitRequest
<1>4. Shapes'
  BY <1>1, <1>2, <1>3 DEF Shapes, triggers
<1>5. Ended' /\ LimitsRecent'
  <2>1. \A q \in Requests : q # r => request'[q] = request[q]
    BY <1>1 DEF RequestStep, Begin, Resolve, AdmitRequest, EndRequest, Shapes
  <2>2. /\ request[r].pc # "done" /\ request[r].outcome = "none"
    BY <1>1 DEF RequestStep, Begin, Resolve, AdmitRequest, IInv, Ended, RequestRec
  <2>3. request[r].snap <= limiter + 1
    BY <1>1 DEF IInv, Versions, NoPartialCommit
  <2>4. CASE Begin(r)
    <3>1. PICK m \in Models :
             request' = [request EXCEPT ![r].pc = "resolve", ![r].model = m, ![r].snap = snapshot]
      BY <2>4 DEF Begin
    <3>2. request'[r].outcome = "none"
      BY <1>1, <2>2, <3>1 DEF Shapes, RequestRec
    <3> QED
      BY <2>1, <3>2 DEF IInv, Ended, LimitsRecent
  <2>5. CASE Resolve(r)
    <3>1. \/ request' = [request EXCEPT ![r].pc = "admit"]
          \/ request' = [request EXCEPT ![r].pc = "done", ![r].outcome = "no_route"]
      BY <2>5 DEF Resolve, EndRequest
    <3>2. \/ request'[r].outcome = "none"
          \/ request'[r].outcome = "no_route" /\ request'[r].pc = "done"
      BY <1>1, <2>2, <3>1 DEF Shapes, RequestRec
    <3> QED
      BY <2>1, <3>2 DEF IInv, Ended, LimitsRecent
  <2>6. CASE AdmitRequest(r)
    <3>1. /\ request'[r].pc = "done" /\ request'[r].limits = limiter
          /\ request'[r].snap = request[r].snap
      BY <1>1, <2>6 DEF AdmitRequest, Shapes, RequestRec
    <3> QED
      BY <2>1, <2>3, <3>1 DEF IInv, Ended, LimitsRecent
  <2> QED
    BY <2>4, <2>5, <2>6 DEF RequestStep
<1> QED
  BY <1>2, <1>3, <1>4, <1>5, QuietStep
-----------------------------------------------------------------------------
LEMMA ReceiveStep ==
    ASSUME IInv, Receive
    PROVE  IInv'
<1>1. Shapes /\ Versions /\ NoPartialCommit
  BY DEF IInv
<1>2. Head(queue) \in Message /\ queue' \in Seq(Message) /\ Len(queue') <= ChannelCap
  BY <1>1, ChannelShape, BoundAssumption DEF Receive, Shapes
<1>3. applier' \in ApplierRec /\ applier'.pc = "read" /\ applier'.base = snapshot
  BY <1>1, <1>2 DEF Receive, Shapes, Versions, ApplierRec, Message
<1>4. UNCHANGED <<installed, request>>
  BY DEF Receive
<1>5. Shapes'
  BY <1>1, <1>2, <1>3, <1>4 DEF Receive, Shapes
<1>6. Versions'
  BY <1>1, <1>3, <1>4 DEF Versions, installed
<1>7. BaseInForce' /\ NoPartialCommit' /\ FixedFieldsKept'
  BY <1>1, <1>3, <1>4 DEF Receive, IInv, BaseInForce, NoPartialCommit, FixedFieldsKept, installed
<1> QED
  BY <1>5, <1>6, <1>7, RequestsKept DEF IInv, Receive

LEMMA ReadStep ==
    ASSUME IInv, ReadSource
    PROVE  IInv'
<1>1. Shapes /\ Versions /\ NoPartialCommit /\ BaseInForce
  BY DEF IInv
<1>2. \/ applier' = [applier EXCEPT !.pc = "reply", !.outcome = "io", !.source = NoSource,
                                    !.candidate = Boot]
      \/ \E c \in Config :
            applier' = [applier EXCEPT !.pc = "apply", !.candidate = c, !.source = NoSource]
  <2>1. applier.source.kind = "yaml" => applier.source.config \in Config
    BY <1>1, SourceFacts DEF Shapes, ApplierRec
  <2> QED
    BY <1>1, <2>1 DEF ReadSource, Answer, Candidate, Shapes, HasPath
<1>3. /\ applier' \in ApplierRec /\ applier'.base = applier.base
      /\ applier'.pc = "apply" \/ (applier'.pc = "reply" /\ applier'.outcome = "io")
  BY <1>1, <1>2, SourceFacts, ConfigAssumption DEF Shapes, ApplierRec, Outcome, Refusals
<1>4. /\ UNCHANGED <<triggers, installed, file, request>>
      /\ unread' = unread \/ unread' = FALSE
  BY DEF ReadSource
<1>5. Shapes'
  BY <1>1, <1>3, <1>4 DEF Shapes, triggers
<1>6. Versions'
  BY <1>1, <1>3, <1>4 DEF Versions, installed
<1>7. BaseInForce' /\ NoPartialCommit' /\ FixedFieldsKept'
  BY <1>1, <1>3, <1>4
     DEF ReadSource, IInv, BaseInForce, NoPartialCommit, FixedFieldsKept, installed, Versions
<1> QED
  BY <1>5, <1>6, <1>7, RequestsKept DEF IInv, ReadSource

(* Commit point 1.                                                         *)
LEMMA ApplyStep ==
    ASSUME IInv, Apply
    PROVE  IInv'
<1> DEFINE c == applier.candidate
           verdict == Verdict(c, inForce[snapshot])
<1>1. Shapes /\ Versions /\ NoPartialCommit /\ BaseInForce /\ FixedFieldsKept
  BY DEF IInv
<1>2. /\ applier.pc = "apply" /\ c \in Config /\ snapshot \in Nat
      /\ snapshot = applier.base /\ limiter = snapshot
  BY <1>1 DEF Apply, Shapes, ApplierRec, BaseInForce, NoPartialCommit, Versions
<1>3. UNCHANGED <<triggers, limiter, file, request, unread>>
  BY DEF Apply
<1>4. CASE verdict = "ok"
  <2>1. /\ Install(c) /\ applier' = [applier EXCEPT !.pc = "limiter", !.candidate = Boot]
    BY <1>4 DEF Apply
  <2>2. applier' \in ApplierRec /\ applier'.pc = "limiter" /\ applier'.base = snapshot
    BY <1>1, <1>2, <2>1, ConfigAssumption DEF Shapes, ApplierRec
  <2>3. /\ snapshot' = snapshot + 1
        /\ inForce' \in [0..snapshot' -> Config]
        /\ \A v \in 0..snapshot : inForce'[v] = inForce[v]
        /\ inForce'[snapshot + 1] = c
    BY <1>1, <1>2, <2>1 DEF Install, Versions
  <2>4. Shapes'
    BY <1>1, <1>3, <2>2 DEF Shapes, triggers
  <2>5. Versions'
    BY <1>1, <1>2, <1>3, <2>2, <2>3 DEF Versions
  <2>6. BaseInForce' /\ NoPartialCommit'
    BY <1>2, <1>3, <2>2, <2>3 DEF BaseInForce, NoPartialCommit
  <2>7. FixedFieldsKept'
    <3>1. /\ inForce[snapshot].otel = Boot.otel
          /\ inForce[snapshot].upstreams = Boot.upstreams
      BY <1>1, <1>2 DEF FixedFieldsKept
    <3>2. c.parses \in BOOLEAN /\ c.valid \in BOOLEAN /\ c.plugins \in BOOLEAN
      BY <1>2, ConfigAssumption
    <3>3. /\ c.listen = Boot.listen /\ c.otel = Boot.otel /\ c.upstreams = Boot.upstreams
          /\ c.parses /\ c.valid /\ c.plugins
      BY <1>4, <3>1, <3>2, VerdictOk
    <3>4. \A v \in 0..(snapshot + 1) : v \in 0..snapshot \/ v = snapshot + 1
      BY <1>2
    <3> QED
      BY <1>1, <2>3, <3>3, <3>4 DEF FixedFieldsKept
  <2> QED
    BY <2>4, <2>5, <2>6, <2>7, RequestsKept DEF IInv, Apply
<1>5. CASE verdict # "ok"
  <2>1. Answer(verdict) /\ UNCHANGED <<snapshot, inForce>>
    BY <1>5 DEF Apply
  <2>2. verdict \in Outcome
    BY VerdictType
  <2> HIDE DEF verdict
  <2>3. /\ applier' \in ApplierRec /\ applier'.pc = "reply" /\ applier'.base = applier.base
        /\ applier'.outcome # "ok"
    BY <1>1, <1>5, <2>1, <2>2, SourceFacts, ConfigAssumption DEF Answer, Shapes, ApplierRec
  <2>4. Shapes'
    BY <1>1, <1>3, <2>3 DEF Shapes, triggers
  <2>5. Versions'
    BY <1>1, <1>3, <2>1, <2>3 DEF Versions
  <2>6. BaseInForce' /\ NoPartialCommit' /\ FixedFieldsKept'
    BY <1>1, <1>2, <1>3, <2>1, <2>3 DEF BaseInForce, NoPartialCommit, FixedFieldsKept
  <2> QED
    BY <2>4, <2>5, <2>6, RequestsKept DEF IInv, Apply
<1> QED
  BY <1>4, <1>5

(* Commit point 2.                                                         *)
LEMMA StoreLimiterStep ==
    ASSUME IInv, StoreLimiter
    PROVE  IInv'
<1>1. Shapes /\ Versions /\ NoPartialCommit
  BY DEF IInv
<1>2. /\ applier' \in ApplierRec /\ applier'.pc = "reply" /\ applier'.outcome = "ok"
      /\ applier'.base = applier.base /\ snapshot = applier.base + 1
  BY <1>1, SourceFacts, ConfigAssumption
     DEF StoreLimiter, Answer, Shapes, ApplierRec, Outcome, NoPartialCommit
<1>3. limiter' = snapshot /\ UNCHANGED <<triggers, inForce, snapshot, file, request, unread>>
  BY DEF StoreLimiter
<1>4. Shapes'
  BY <1>1, <1>2, <1>3 DEF Shapes, triggers
<1>5. Versions'
  BY <1>1, <1>2, <1>3 DEF Versions
<1>6. BaseInForce' /\ NoPartialCommit' /\ FixedFieldsKept'
  BY <1>1, <1>2, <1>3 DEF IInv, BaseInForce, NoPartialCommit, FixedFieldsKept
<1> QED
  BY <1>4, <1>5, <1>6, RequestsKept DEF IInv, StoreLimiter

LEMMA ReplyStep ==
    ASSUME IInv, Reply
    PROVE  IInv'
<1>1. Shapes /\ Versions /\ NoPartialCommit
  BY DEF IInv
<1>2. applier' \in ApplierRec /\ applier'.pc = "idle" /\ applier'.base = 0
  BY SourceFacts, ConfigAssumption DEF Reply, NewApplier, ApplierRec, Outcome
<1>3. UNCHANGED <<hup, hangups, listener, queue, installed, file, request, unread>>
  BY DEF Reply
<1>4. admin' \in [Admins -> AdminRec]
  <2>1. applier.outcome \in Outcome
    BY <1>1 DEF Shapes, ApplierRec
  <2> QED
    BY <1>1, <2>1 DEF Reply, Respond, Shapes, AdminRec
<1>5. Shapes'
  BY <1>1, <1>2, <1>3, <1>4 DEF Shapes
<1>6. Versions'
  BY <1>1, <1>2, <1>3 DEF Versions, installed
<1>7. BaseInForce' /\ NoPartialCommit' /\ FixedFieldsKept'
  BY <1>1, <1>2, <1>3
     DEF Reply, IInv, BaseInForce, NoPartialCommit, FixedFieldsKept, installed
<1> QED
  BY <1>5, <1>6, <1>7, RequestsKept DEF IInv, Reply
-----------------------------------------------------------------------------
LEMMA NextIInv == IInv /\ [Next]_vars => IInv'
<1> SUFFICES ASSUME IInv, [Next]_vars PROVE IInv'
  OBVIOUS
<1>1. CASE ApplierStep
  BY <1>1, ReceiveStep, ReadStep, ApplyStep, StoreLimiterStep, ReplyStep DEF ApplierStep
<1>2. CASE \E a \in Admins : AdminStep(a)
  BY <1>2, AdminStepInv
<1>3. CASE \E r \in Requests : RequestStep(r)
  BY <1>3, RequestStepInv
<1>4. CASE EditFile \/ Hangup \/ ListenHup \/ SendHup
  BY <1>4, EnvironmentStep
<1>5. CASE Quiescent \/ UNCHANGED vars
  BY <1>5 DEF Quiescent, vars, installed, IInv, Shapes, Versions, BaseInForce, NoPartialCommit,
              FixedFieldsKept, Ended, LimitsRecent
<1> QED
  BY <1>1, <1>2, <1>3, <1>4, <1>5 DEF Next

(* The inductive invariant holds in every reachable state.                 *)
THEOREM Invariance == Spec => []IInv
  BY InitIInv, NextIInv, PTL DEF Spec

(* Types are kept, and requests, limiter and applying task refer only to   *)
(* versions that were installed (run_core, handle_reload).                 *)
THEOREM TypeCorrect == Spec => []TypeOK
<1>1. IInv => TypeOK
  BY DEF IInv, Shapes, Versions, TypeOK, ApplierRec, AdminRec
<1> QED
  BY <1>1, Invariance, PTL

(* A reload is applied entirely or not at all (handle_reload).             *)
THEOREM ReloadAtomic == Spec => []NoPartialCommit
<1>1. IInv => NoPartialCommit
  BY DEF IInv
<1> QED
  BY <1>1, Invariance, PTL

(* No chain of reloads changes what needs a restart (validate_for_reload). *)
THEOREM RestartFieldsKept == Spec => []FixedFieldsKept
<1>1. IInv => FixedFieldsKept
  BY DEF IInv
<1> QED
  BY <1>1, Invariance, PTL

(* A request's limits are at most one reload older than its snapshot       *)
(* (dispatch_inner and admit, across handle_reload's two stores).          *)
THEOREM LimitsFollow == Spec => []LimitsRecent
<1>1. IInv => LimitsRecent
  BY DEF IInv
<1> QED
  BY <1>1, Invariance, PTL
=============================================================================
