---------------------------- MODULE MCResilience ----------------------------
(* Two upstreams, ta (the head of every chain) and tb (the fallback), and  *)
(* one whose provider could not be built, at the end of one request's      *)
(* chain; requests that share an identity bucket; upstream A has its own   *)
(* quota.                                                                  *)
EXTENDS Resilience

CONSTANTS r1, r2, ta, tb, tc

MCRequests  == {r1, r2}
MCTargets   == {ta, tb, tc}
MCProviders == {"A", "B", "C"}
MCProviderOf == (ta :> "A") @@ (tb :> "B") @@ (tc :> "C")
MCChain     == (r1 :> <<ta, tb>>) @@ (r2 :> <<ta, tb, tc>>)

MCTrip   == [enabled |-> TRUE, threshold |-> 50, minRequests |-> 1, window |-> 2, cooldown |-> 1]
MCPolicy == [r \in MCRequests |-> MCTrip]

MCBuckets == {"key", "quota"}
MCGates   == [r \in MCRequests |-> <<"key">>]
MCUpstreamBucket == [p \in MCProviders |-> IF p = "A" THEN "quota" ELSE NoBucket]
(* One token, so that a second request finds the bucket empty.             *)
MCTight == [x \in MCBuckets |-> 1]
MCRate  == [x \in MCBuckets |-> 1]
=============================================================================
