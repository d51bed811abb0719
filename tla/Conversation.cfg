SPECIFICATION Spec
CONSTANTS
    Pairs <- MCPairs
    Options <- MCOptions
    EchoIds = FALSE
    MaxSaid = 9
    MaxBatch = 2
    MaxTurns = 2
INVARIANTS ContentKept ToolResultsKept ToolPairing OptionsHonoured
