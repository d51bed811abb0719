SPECIFICATION FairSpec
CONSTANTS
    Policies <- MCPolicies
    Statuses <- MCStatuses
    WordSize = 256
INVARIANTS AttemptsCounted SleepsWithinBudget OnlyEligibleRetried
PROPERTY Terminates
