SPECIFICATION FairSpec
CONSTANTS
    Callers = {c1, c2}
    ChannelCap = 1
    Margin = 1
    Lifetimes = {2}
    MaxStarts = 2
    MaxClock = 1
INVARIANT RefreshedAfter401
PROPERTY GetAnswered
