-------------------------- MODULE MCCircuitBreaker --------------------------
(* Two routes over one breaker: c1 and c2 come in on the route that        *)
(* enables it, c3 on a route with a longer window and the breaker disabled. *)
EXTENDS CircuitBreaker, TLC

CONSTANTS c1, c2, c3

MCCallers == {c1, c2, c3}

MCStrict == [enabled |-> TRUE, threshold |-> 50, minRequests |-> 2, window |-> 1, cooldown |-> 2]
MCLax    == [enabled |-> FALSE, threshold |-> 60, minRequests |-> 3, window |-> 2, cooldown |-> 1]

MCPolicyOf == [c \in MCCallers |-> IF c = c3 THEN MCLax ELSE MCStrict]
=============================================================================
