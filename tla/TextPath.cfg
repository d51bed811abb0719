SPECIFICATION Spec
CONSTANTS
    MaxPatternTail = 2
    FlushThreshold = 4
    Rules <- MCRules
    Requests <- MCRequests
    UpstreamModels <- MCUpstreamModels
    MaxChunk = 3
    SummaryTokens = 9
INVARIANT TurnsKept
INVARIANT ScannerExact
INVARIANT RewriteExact
INVARIANT ScrubExact
