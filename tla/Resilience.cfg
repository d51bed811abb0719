SPECIFICATION FairSpec
CONSTANTS
    r1 = r1
    r2 = r2
    ta = ta
    tb = tb
    tc = tc
    NoBucket = NoBucket
    Requests <- MCRequests
    Providers <- MCProviders
    Registered = {"A", "B"}
    Targets <- MCTargets
    ProviderOf <- MCProviderOf
    ChainOf <- MCChain
    PolicyOf <- MCPolicy
    Gates <- MCGates
    Buckets <- MCBuckets
    UpstreamBucket <- MCUpstreamBucket
    Burst <- MCTight
    Rate <- MCRate
    Vision = {"A"}
    HasImage = {r1}
    Proxied = {r2}
    MaxAttempts = 2
    MaxClock = 2
INVARIANTS ProbeHasTicket CallsBounded
PROPERTY EveryRequestAnswered
