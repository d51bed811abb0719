----------------------------- MODULE Resilience -----------------------------
(***************************************************************************)
(* The life of requests behind the gateway's pipeline, from admission to   *)
(* the first byte: Admission::admit with its rate-limit buckets, the cost  *)
(* filter, the capability gate and one breaker hold per chain element; raw *)
(* passthrough; the ResilientCaller's walk along the fallback chain; and   *)
(* the AdmissionTicket, whose consumption or destruction settles every     *)
(* hold. Requests run concurrently on the runtime's worker threads: one    *)
(* step per lock or atomic taken. The client can go away at every await.   *)
(***************************************************************************)
EXTENDS BreakerState, TLC

CONSTANTS Requests,
          Providers,     \* upstream names
          Registered,    \* the ones whose provider could be built at boot
          Targets,       \* (provider, model) pairs, the breakers' keys
          ProviderOf,    \* the provider of each target
          ChainOf,       \* each request's resolved chain
          PolicyOf,      \* the breaker policy of each request's route
          Gates,         \* each request's pre-chain buckets, in order of checking
          Buckets,       \* rate-limit buckets, per-upstream ones included
          UpstreamBucket,\* per-upstream bucket of a provider, or NoBucket
          NoBucket,
          Burst, Rate,   \* capacity and refill per tick of each bucket
          Vision,        \* providers whose capabilities include vision
          HasImage,      \* requests that carry an image
          Proxied,       \* requests on a try_proxy_raw frontend, unmutated by plugins
          MaxAttempts,   \* retry.max_attempts of the routes
          MaxClock       \* bound on the clock

ASSUME FiniteAssumption == IsFiniteSet(Requests) /\ IsFiniteSet(Targets)
ASSUME ChainAssumption ==
    /\ ProviderOf \in [Targets -> Providers]
    /\ ChainOf \in [Requests -> Seq(Targets)]
    /\ \A r \in Requests : ChainOf[r] # << >>
ASSUME RoutePolicyAssumption == PolicyOf \in [Requests -> Policy]
ASSUME BucketAssumption ==
    /\ Burst \in [Buckets -> Nat] /\ Rate \in [Buckets -> Nat]
    /\ Gates \in [Requests -> Seq(Buckets)]
    /\ NoBucket \notin Buckets
    /\ UpstreamBucket \in [Providers -> Buckets \cup {NoBucket}]
ASSUME InputAssumption ==
    /\ Vision \subseteq Registered /\ Registered \subseteq Providers
    /\ HasImage \subseteq Requests /\ Proxied \subseteq Requests
ASSUME NumberAssumption == MaxClock \in Nat /\ MaxAttempts \in Nat \ {0}

VARIABLES clock,
          tokens,    \* tokens left in each bucket
          breakers,  \* the BreakerRegistry
          req,       \* per request: where it is, and its ticket
          calls      \* history: upstream calls made so far, per request and target

vars == <<clock, tokens, breakers, req, calls>>

(* pc: the phase; at: index in the phase's loop; chain: filtered_chain;    *)
(* holds: breaker_holds; results: what the walk did with each element      *)
(* (`tried` and `breakers_skipped`); chosen, ok: the arguments of consume, *)
(* 0 when the ticket is dropped unconsumed; outcome: what the client gets. *)
NewRequest == [pc |-> "gates", at |-> 1, chain |-> << >>, holds |-> << >>, results |-> << >>,
               attempt |-> 1, chosen |-> 0, ok |-> FALSE, outcome |-> "none"]

Init ==
    /\ clock = 0
    /\ tokens = Burst
    /\ breakers = [t \in Targets |-> NewBreaker]
    /\ req = [r \in Requests |-> NewRequest]
    /\ calls = [r \in Requests |-> [t \in Targets |-> 0]]

Goto(r, pc) == req' = [req EXCEPT ![r].pc = pc, ![r].at = 1]
Step(r) == req' = [req EXCEPT ![r].at = @ + 1]
Finish(r, outcome) == req' = [req EXCEPT ![r].pc = "done", ![r].outcome = outcome]

(* The ticket is consumed for chain element `chosen`, or dropped (0).      *)
SettleTicket(r, chosen, ok, outcome) ==
    req' = [req EXCEPT ![r].pc = "settle", ![r].at = 1, ![r].chosen = chosen, ![r].ok = ok,
                       ![r].outcome = outcome]

AtEnd(r, seq) == req[r].at > Len(seq)

Target(r) == req[r].chain[req[r].at]
-----------------------------------------------------------------------------

(* LimiterRegistry: governor's check takes a token or rejects.             *)
Take(b) == tokens[b] > 0 /\ tokens' = [tokens EXCEPT ![b] = @ - 1]

Empty(b) == tokens[b] = 0 /\ UNCHANGED tokens

(* check_pre_chain, one bucket at a time.                                  *)
CheckGate(r) ==
    /\ req[r].pc = "gates"
    /\ ~AtEnd(r, Gates[r])
    /\ LET b == Gates[r][req[r].at]
       IN  \/ Take(b) /\ Step(r)
           \/ Empty(b) /\ Finish(r, "rate_limited")
    /\ UNCHANGED <<clock, breakers, calls>>

(* The elements of a list at the given positions, in their order.          *)
InOrder(s, positions) ==
    LET nth(n) == CHOOSE i \in positions : Cardinality({j \in positions : j <= i}) = n
    IN  [n \in 1..Cardinality(positions) |-> s[nth(n)]]

(* filter_chain: tier, latency and cost are per upstream, so the filter    *)
(* keeps the elements of some set of providers, in order.                  *)
FilterChain(r) ==
    /\ req[r].pc = "gates"
    /\ AtEnd(r, Gates[r])
    /\ \E keep \in SUBSET Providers :
          LET chain == InOrder(ChainOf[r],
                               {i \in DOMAIN ChainOf[r] : ProviderOf[ChainOf[r][i]] \in keep})
          IN  IF chain = << >>
              THEN Finish(r, "no_eligible_upstream")
              ELSE req' = [req EXCEPT ![r].pc = "quota", ![r].at = 1, ![r].chain = chain]
    /\ UNCHANGED <<clock, tokens, breakers, calls>>

(* check_per_upstream, for every survivor before any of them is called.    *)
CheckUpstreamQuota(r) ==
    /\ req[r].pc = "quota"
    /\ ~AtEnd(r, req[r].chain)
    /\ LET b == UpstreamBucket[ProviderOf[Target(r)]]
       IN  \/ b = NoBucket /\ Step(r) /\ UNCHANGED tokens
           \/ b # NoBucket /\ Take(b) /\ Step(r)
           \/ b # NoBucket /\ Empty(b) /\ Finish(r, "rate_limited")
    /\ UNCHANGED <<clock, breakers, calls>>

(* check_capability over the survivors, in order: the first that fails     *)
(* rejects the request, an element it would never have needed included.    *)
Capable(r, p) == p \in Registered /\ (r \in HasImage => p \in Vision)

CheckCapability(r) ==
    /\ req[r].pc = "quota"
    /\ AtEnd(r, req[r].chain)
    /\ LET failing == SelectSeq(req[r].chain, LAMBDA t : ~Capable(r, ProviderOf[t]))
       IN  IF failing = << >>
           THEN Goto(r, "holds")
           ELSE Finish(r, IF ProviderOf[Head(failing)] \in Registered
                          THEN "capability_mismatch" ELSE "unknown_provider")
    /\ UNCHANGED <<clock, tokens, breakers, calls>>

(* try_hold on the breaker of one survivor.                                *)
TryHold(r) ==
    /\ req[r].pc = "holds"
    /\ ~AtEnd(r, req[r].chain)
    /\ LET t == Target(r)
           d == Decision(breakers[t], clock, PolicyOf[r])
       IN  /\ breakers' = [breakers EXCEPT ![t] = AfterDecision(@, clock, PolicyOf[r])]
           /\ req' = [req EXCEPT ![r].at = @ + 1, ![r].holds = Append(@, d)]
    /\ UNCHANGED <<clock, tokens, calls>>

Allowed(r, i) == req[r].holds[i] # "skip"

(* The end of admit: a ticket, unless no breaker allowed its element.      *)
Admit(r) ==
    /\ req[r].pc = "holds"
    /\ AtEnd(r, req[r].chain)
    /\ IF \E i \in DOMAIN req[r].holds : Allowed(r, i)
       THEN Goto(r, IF r \in Proxied THEN "proxy" ELSE "walk")
       ELSE Finish(r, "all_breakers_open")
    /\ UNCHANGED <<clock, tokens, breakers, calls>>
-----------------------------------------------------------------------------
Call(r, t) == calls' = [calls EXCEPT ![r][t] = @ + 1]

(* proxy_raw on the head of the chain, whatever its hold: not a match for  *)
(* the provider (Ok(None)), or a call to the upstream.                     *)
ProxyRaw(r) ==
    /\ req[r].pc = "proxy"
    /\ \/ Goto(r, "walk") /\ UNCHANGED calls
       \/ Goto(r, "proxy_call") /\ Call(r, req[r].chain[1])
    /\ UNCHANGED <<clock, tokens, breakers>>

(* The raw answer: bytes (the ticket waits for the first of them at index  *)
(* 1), or an error, which falls through to the chain walk.                 *)
ProxyAnswer(r) ==
    /\ req[r].pc = "proxy_call"
    /\ Goto(r, "stream") \/ Goto(r, "walk")
    /\ UNCHANGED <<clock, tokens, breakers, calls>>

Tried(r) == \E i \in DOMAIN req[r].results : req[r].results[i] = "eligible"

(* Mutants: the skip forgets to advance; the call ignores the hold.        *)
WalkSkipStuck(r) ==
    /\ req[r].pc = "walk"
    /\ ~AtEnd(r, req[r].chain) /\ ~Allowed(r, req[r].at)
    /\ UNCHANGED vars

(* The head of the walk's loop: skip an element without a hold, call one   *)
(* with a hold, or run off the end of the chain.                           *)
WalkSkip(r) ==
    /\ req[r].pc = "walk"
    /\ ~AtEnd(r, req[r].chain) /\ ~Allowed(r, req[r].at)
    /\ req' = [req EXCEPT ![r].at = @ + 1, ![r].results = Append(@, "skipped")]
    /\ UNCHANGED <<clock, tokens, breakers, calls>>

WalkCall(r) ==
    /\ req[r].pc = "walk"
    /\ ~AtEnd(r, req[r].chain) /\ Allowed(r, req[r].at)
    /\ req' = [req EXCEPT ![r].pc = "call", ![r].attempt = 1]
    /\ Call(r, Target(r))
    /\ UNCHANGED <<clock, tokens, breakers>>

WalkExhausted(r) ==
    /\ req[r].pc = "walk"
    /\ AtEnd(r, req[r].chain)
    /\ SettleTicket(r, 0, FALSE, IF Tried(r) THEN "no_upstream_succeeded" ELSE "all_breakers_open")
    /\ UNCHANGED <<clock, tokens, breakers, calls>>

(* Mutant of RetryCall: max_attempts counts the retries.                   *)
RetryOnceMore(r) ==
    /\ req[r].pc = "call"
    /\ req[r].attempt <= MaxAttempts
    /\ req' = [req EXCEPT ![r].attempt = @ + 1]
    /\ Call(r, Target(r))
    /\ UNCHANGED <<clock, tokens, breakers>>

(* An eligible error with attempts left, after the backoff: the provider   *)
(* is called again under the same hold.                                    *)
RetryCall(r) ==
    /\ req[r].pc = "call"
    /\ req[r].attempt < MaxAttempts
    /\ req' = [req EXCEPT ![r].attempt = @ + 1]
    /\ Call(r, Target(r))
    /\ UNCHANGED <<clock, tokens, breakers>>

(* retry_with_policy returns: a stream, an error that is eligible for      *)
(* fallback after the retries are exhausted, or a terminal error.          *)
CallAnswer(r) ==
    /\ req[r].pc = "call"
    /\ \/ req' = [req EXCEPT ![r].pc = "stream", ![r].results = Append(@, "ok")]
       \/ req' = [req EXCEPT ![r].pc = "walk", ![r].at = @ + 1, ![r].results = Append(@, "eligible")]
       \/ SettleTicket(r, 0, FALSE, "terminal_error")
    /\ UNCHANGED <<clock, tokens, breakers, calls>>

(* The first poll of the response stream that is not Pending: an event     *)
(* (or byte), an error, or the end of a stream that never had an event.    *)
FirstEvent(r) ==
    /\ req[r].pc = "stream"
    /\ \/ SettleTicket(r, req[r].at, TRUE, "success")
       \/ SettleTicket(r, req[r].at, FALSE, "stream_error")
       \/ SettleTicket(r, 0, FALSE, "empty_stream")
    /\ UNCHANGED <<clock, tokens, breakers, calls>>

(* The client disconnects: the handler's future, or the response body, is  *)
(* dropped at an await, and the ticket with it.                            *)
Cancel(r) ==
    /\ req[r].pc \in {"proxy_call", "call", "stream"}
    /\ SettleTicket(r, 0, FALSE, "cancelled")
    /\ UNCHANGED <<clock, tokens, breakers, calls>>

(* Mutant of SettleHold: only the chosen hold reports to its breaker.      *)
SettleChosenOnly(r) ==
    /\ req[r].pc = "settle"
    /\ LET i == req[r].at
           t == req[r].chain[i]
       IN  breakers' = IF Allowed(r, i) /\ i = req[r].chosen
                       THEN [breakers EXCEPT ![t] = Record(@, req[r].ok, clock, PolicyOf[r])]
                       ELSE breakers
    /\ req' = [req EXCEPT ![r].at = @ + 1, ![r].holds[req[r].at] = "settled",
                          ![r].pc = IF req[r].at = Len(req[r].holds) THEN "done" ELSE @]
    /\ UNCHANGED <<clock, tokens, calls>>

(* AdmissionTicket::consume, or its destructor: one hold at a time, in     *)
(* order. The hold of the chosen element records the outcome, the others   *)
(* are dropped and record a failure.                                       *)
SettleHold(r) ==
    /\ req[r].pc = "settle"
    /\ LET i == req[r].at
           t == req[r].chain[i]
           ok == i = req[r].chosen /\ req[r].ok
       IN  breakers' = IF Allowed(r, i)
                       THEN [breakers EXCEPT ![t] = Record(@, ok, clock, PolicyOf[r])]
                       ELSE breakers
    /\ req' = [req EXCEPT ![r].at = @ + 1, ![r].holds[req[r].at] = "settled",
                          ![r].pc = IF req[r].at = Len(req[r].holds) THEN "done" ELSE @]
    /\ UNCHANGED <<clock, tokens, calls>>

(* Time passes: the buckets refill.                                        *)
Tick ==
    /\ clock < MaxClock
    /\ clock' = clock + 1
    /\ tokens' = [b \in Buckets |-> IF tokens[b] + Rate[b] > Burst[b]
                                    THEN Burst[b] ELSE tokens[b] + Rate[b]]
    /\ UNCHANGED <<breakers, req, calls>>

RequestStep(r) ==
    \/ CheckGate(r) \/ FilterChain(r) \/ CheckUpstreamQuota(r)
    \/ CheckCapability(r) \/ TryHold(r) \/ Admit(r) \/ ProxyRaw(r) \/ ProxyAnswer(r)
    \/ WalkSkip(r) \/ WalkCall(r) \/ WalkExhausted(r) \/ RetryCall(r)
    \/ CallAnswer(r) \/ FirstEvent(r)
    \/ Cancel(r) \/ SettleHold(r)

(* Nothing left to do within the bounds.                                   *)
Quiescent ==
    /\ clock = MaxClock
    /\ \A r \in Requests : req[r].pc = "done"
    /\ UNCHANGED vars

Next == Tick \/ Quiescent \/ \E r \in Requests : RequestStep(r)

Spec == Init /\ [][Next]_vars

(* The runtime keeps polling a handler that can proceed, and an upstream   *)
(* that says nothing is cut off by the HTTP client's connect_timeout and   *)
(* read_timeout, which are errors of the call.                             *)
Fairness == \A r \in Requests : WF_vars(RequestStep(r))

FairSpec == Spec /\ Fairness
-----------------------------------------------------------------------------

(* Probes that some request still has to settle.                           *)
ProbesOn(t) ==
    {r \in Requests : \E i \in DOMAIN req[r].holds :
                          req[r].chain[i] = t /\ req[r].holds[i] = "probe"}

(* Across admission, fallback, passthrough, cancellation and the order in  *)
(* which tickets die, no breaker is left with probe_in_flight set and no   *)
(* ticket holding the probe: every path out of the pipeline settles it.    *)
ProbeHasTicket ==
    \A t \in Targets :
        breakers[t].probe => IsOpen(breakers[t]) /\ ProbesOn(t) # {}

(* Calls made to a provider so far.                                        *)
CallsTo(p) ==
    LET n[S \in SUBSET (Requests \X Targets)] ==
            IF S = {} THEN 0
            ELSE LET x == CHOOSE x \in S : TRUE IN calls[x[1]][x[2]] + n[S \ {x}]
    IN  n[{x \in Requests \X Targets : ProviderOf[x[2]] = p}]

(* What per_upstream still bounds, given that retries and passthrough do   *)
(* not pass the bucket again: an upstream gets max_attempts calls for each *)
(* token that its bucket has ever held, and one more for each request that *)
(* is passed through, whatever the fallbacks and cancellations.            *)
CallsBounded ==
    \A p \in Providers :
        LET x == UpstreamBucket[p]
        IN  x # NoBucket =>
                CallsTo(p) <= MaxAttempts * (Burst[x] + Rate[x] * clock) + Cardinality(Proxied)

(* Every request is answered and its ticket settled.                       *)
EveryRequestAnswered ==
    \A r \in Requests : req[r].pc # "done" ~> req[r].pc = "done"
=============================================================================
