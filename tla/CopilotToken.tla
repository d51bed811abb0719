---------------------------- MODULE CopilotToken ----------------------------
(***************************************************************************)
(* The Copilot provider's short-lived API token. An actor owns the cached  *)
(* token; callers ask for it over a bounded channel, call the API with it, *)
(* and on a 401 send the actor an invalidation over the same channel. The  *)
(* actor handles one message at a time and exchanges the stored OAuth      *)
(* credentials for a new token within a Get. Clients can leave at every    *)
(* await. The model discovery at boot, one more Get, is left out.          *)
(***************************************************************************)
EXTENDS Integers, Sequences, FiniteSets

CONSTANTS Callers,
          ChannelCap, \* capacity of the channel: 16 in the program
          Margin,     \* remaining lifetime that a cached token must exceed: 60 s
          Lifetimes,  \* lifetimes the exchange may grant
          MaxStarts,  \* bound on the calls of each caller
          MaxClock    \* bound on the clock

ASSUME TokenAssumption ==
    /\ ChannelCap \in Nat \ {0} /\ Margin \in Nat /\ Lifetimes \subseteq Nat
    /\ MaxStarts \in Nat /\ MaxClock \in Nat

VARIABLES clock,
          cached,   \* the actor's token
          actor,    \* << >> at recv, <<m>> while it exchanges for the Get m
          channel,  \* messages to the actor: [kind, from, call]
          caller,   \* the calls of the provider
          issued,   \* number of tokens exchanged so far: their names
          revoked,  \* tokens that the API refuses before they expire
          entitled  \* the account may use Copilot at all

vars == <<clock, cached, actor, channel, caller, issued, revoked, entitled>>
world == <<clock, issued, revoked, entitled>>

NoToken == [id |-> 0, expires |-> 0]
Token == [id : Nat, expires : Nat]

(* rejected: history, the tokens for which this caller has handed an       *)
(* invalidation to the actor.                                              *)
NewCaller == [pc |-> "idle", token |-> NoToken, starts |-> 0, rejected |-> {}, outcome |-> "none"]

Init ==
    /\ clock = 0 /\ issued = 0 /\ revoked = {} /\ entitled = TRUE
    /\ cached = NoToken
    /\ actor = << >>
    /\ channel = << >>
    /\ caller = [c \in Callers |-> NewCaller]

End(c, outcome) == caller' = [caller EXCEPT ![c].pc = "idle", ![c].outcome = outcome]
-----------------------------------------------------------------------------
(* complete and proxy_raw begin with manager.get().                        *)
Start(c) ==
    /\ caller[c].pc = "idle" /\ caller[c].starts < MaxStarts
    /\ caller' = [caller EXCEPT ![c].pc = "get", ![c].starts = @ + 1, ![c].outcome = "none",
                                ![c].token = NoToken]
    /\ UNCHANGED <<world, cached, actor, channel>>

(* A message names the call it is sent for: a Get's oneshot is its own.    *)
Message(c, kind) == [kind |-> kind, from |-> c, call |-> caller[c].starts]

CanSend == Len(channel) < ChannelCap

SendGet(c) ==
    /\ caller[c].pc = "get" /\ CanSend
    /\ channel' = Append(channel, Message(c, "get"))
    /\ caller' = [caller EXCEPT ![c].pc = "waiting"]
    /\ UNCHANGED <<world, cached, actor>>

(* The API's answer: a 401 for a token that it does not accept, or else a  *)
(* response or another error, which are the caller's to pass on.           *)
Accepts(t) == entitled /\ t.id \notin revoked /\ clock < t.expires

ApiAnswer(c) ==
    /\ caller[c].pc = "calling"
    /\ IF Accepts(caller[c].token)
       THEN End(c, "answered")
       ELSE caller' = [caller EXCEPT ![c].pc = "invalidate"]
    /\ UNCHANGED <<world, cached, actor, channel>>

(* manager.invalidate().await, and the 401 is returned.                    *)
Invalidated(c) ==
    caller' = [caller EXCEPT ![c].pc = "idle", ![c].outcome = "unauthorized",
                             ![c].rejected = @ \cup {caller[c].token.id}]

(* Mutant of SendInvalidate: it is dropped when the channel is full.       *)
TrySendInvalidate(c) ==
    /\ caller[c].pc = "invalidate"
    /\ channel' = IF CanSend THEN Append(channel, Message(c, "invalidate")) ELSE channel
    /\ Invalidated(c)
    /\ UNCHANGED <<world, cached, actor>>

SendInvalidate(c) ==
    /\ caller[c].pc = "invalidate" /\ CanSend
    /\ channel' = Append(channel, Message(c, "invalidate"))
    /\ Invalidated(c)
    /\ UNCHANGED <<world, cached, actor>>

(* The client leaves: a send in progress is withdrawn, a reply finds       *)
(* nobody.                                                                 *)
Cancel(c) ==
    /\ caller[c].pc \in {"get", "waiting", "calling", "invalidate"}
    /\ End(c, "cancelled")
    /\ UNCHANGED <<world, cached, actor, channel>>
-----------------------------------------------------------------------------
(* A reply to a Get: a token, or an error of the exchange; nobody gets it  *)
(* when the call that made the oneshot was cancelled.                      *)
Awaits(m) == caller[m.from].pc = "waiting" /\ caller[m.from].starts = m.call

ReplyToken(m, t) ==
    caller' = [caller EXCEPT ![m.from] = IF Awaits(m) THEN [@ EXCEPT !.pc = "calling", !.token = t]
                                                      ELSE @]
(* Mutant of ReplyError: the sender is kept, and the error only logged.    *)
LogError(m) == UNCHANGED caller

ReplyError(m) ==
    caller' = [caller EXCEPT ![m.from] = IF Awaits(m)
                                         THEN [@ EXCEPT !.pc = "idle", !.outcome = "error"] ELSE @]

Fresh == cached # NoToken /\ cached.expires - clock > Margin

RecvInvalidate ==
    /\ actor = << >> /\ channel # << >> /\ Head(channel).kind = "invalidate"
    /\ channel' = Tail(channel)
    /\ cached' = NoToken
    /\ UNCHANGED <<world, actor, caller>>

(* A Get that the cache answers.                                           *)
RecvCached ==
    /\ actor = << >> /\ channel # << >> /\ Head(channel).kind = "get"
    /\ Fresh
    /\ ReplyToken(Head(channel), cached)
    /\ channel' = Tail(channel)
    /\ UNCHANGED <<world, cached, actor>>

(* A Get that it does not: the credentials are loaded, or the load fails.  *)
RecvStale ==
    /\ actor = << >> /\ channel # << >> /\ Head(channel).kind = "get"
    /\ ~Fresh
    /\ channel' = Tail(channel)
    /\ \/ actor' = <<Head(channel)>> /\ UNCHANGED caller
       \/ ReplyError(Head(channel)) /\ UNCHANGED actor
    /\ UNCHANGED <<world, cached>>

(* The exchange ends, with a token or an error.                            *)
ExchangeOk ==
    /\ actor # << >>
    /\ issued' = issued + 1
    /\ \E l \in Lifetimes :
          LET t == [id |-> issued + 1, expires |-> clock + l]
          IN  cached' = t /\ ReplyToken(actor[1], t)
    /\ actor' = << >>
    /\ UNCHANGED <<clock, revoked, entitled, channel>>

ExchangeFails ==
    /\ actor # << >>
    /\ cached' = NoToken
    /\ ReplyError(actor[1])
    /\ actor' = << >>
    /\ UNCHANGED <<world, channel>>
-----------------------------------------------------------------------------
(* The world: time passes, the API revokes tokens, the entitlement ends.   *)
Tick ==
    /\ clock < MaxClock
    /\ clock' = clock + 1
    /\ UNCHANGED <<cached, actor, channel, caller, issued, revoked, entitled>>

Revoke ==
    /\ \E t \in (1..issued) \ revoked : revoked' = revoked \cup {t}
    /\ UNCHANGED <<cached, actor, channel, caller, clock, issued, entitled>>

LoseEntitlement ==
    /\ entitled /\ entitled' = FALSE
    /\ UNCHANGED <<cached, actor, channel, caller, clock, issued, revoked>>

(* Nothing left to do within the bounds.                                   *)
Quiescent ==
    /\ channel = << >> /\ actor = << >>
    /\ \A c \in Callers : caller[c].pc = "idle" /\ caller[c].starts = MaxStarts
    /\ UNCHANGED vars

ActorStep == RecvInvalidate \/ RecvCached \/ RecvStale \/ ExchangeOk \/ ExchangeFails
CallerStep(c) == Start(c) \/ SendGet(c) \/ ApiAnswer(c) \/ SendInvalidate(c) \/ Cancel(c)

Next ==
    \/ ActorStep
    \/ \E c \in Callers : CallerStep(c)
    \/ Tick \/ Revoke \/ LoseEntitlement \/ Quiescent

Spec == Init /\ [][Next]_vars

(* The actor is polled while it can go on, its exchange ends because the   *)
(* HTTP client has connect and read timeouts, and the senders of a full    *)
(* channel are queued.                                                     *)
Fairness ==
    /\ WF_vars(ActorStep)
    /\ \A c \in Callers : SF_vars(SendGet(c)) /\ SF_vars(SendInvalidate(c))

FairSpec == Spec /\ Fairness
-----------------------------------------------------------------------------
(* Types, and the channel's bound.                                         *)
TypeOK ==
    /\ clock \in Nat /\ issued \in Nat /\ revoked \subseteq 1..issued /\ entitled \in BOOLEAN
    /\ cached \in Token
    /\ channel \in Seq([kind : {"get", "invalidate"}, from : Callers, call : Nat])
    /\ Len(channel) <= ChannelCap
    /\ actor \in Seq([kind : {"get"}, from : Callers, call : Nat]) /\ Len(actor) <= 1
    /\ \A c \in Callers : /\ caller[c].pc \in {"idle", "get", "waiting", "calling", "invalidate"}
                          /\ caller[c].token \in Token /\ caller[c].rejected \subseteq 1..issued

(* Once a caller has reported a 401 for a token it is never given that     *)
(* token again, whatever other callers do meanwhile and however full the   *)
(* channel is: the invalidation is ahead of its next Get.                  *)
RefreshedAfter401 ==
    \A c \in Callers : caller[c].pc = "calling" => caller[c].token.id \notin caller[c].rejected

(* Every Get is answered, failing exchanges and departed clients included. *)
GetAnswered ==
    \A c \in Callers : caller[c].pc \in {"get", "waiting"} ~> caller[c].pc \in {"calling", "idle"}
=============================================================================
