------------------------------ MODULE MCRetry ------------------------------
(* Policies with the default retry_on and with an overlay, with and        *)
(* without jitter, cut off by the attempts or by the budget.               *)
EXTENDS Retry

Default == [maxAttempts |-> 2, initial |-> 3, multiplier |-> 2, jitter |-> 25, budget |-> 10,
            retryOn |-> default_retry_on]

MCPolicies ==
    {Default,
     [Default EXCEPT !.maxAttempts = 4, !.initial = 2],
     [Default EXCEPT !.maxAttempts = 4, !.jitter = 100],
     [Default EXCEPT !.maxAttempts = 3, !.initial = 1, !.jitter = 0, !.budget = 3],
     [Default EXCEPT !.initial = 0, !.budget = 0],
     [Default EXCEPT !.maxAttempts = 3, !.retryOn = {"decode", "upstream_4xx"}],
     [Default EXCEPT !.retryOn = {}]}

MCStatuses == {400, 428, 429, 430, 499, 500, 503}
=============================================================================
