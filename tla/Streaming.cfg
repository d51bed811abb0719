SPECIFICATION Spec
CONSTANTS
    Providers = {"chat", "deepseek", "responses", "anthropic", "gemini"}
    Frontends = {"anthropic", "chat", "responses"}
    MaxIndex = 2
    MaxTokens = 2
    TextAfterTools = FALSE
INVARIANTS DrainTail UsageExact ReasonKept UnaryComplete
PROPERTIES LifecycleKept ClientKept BodyEnds
