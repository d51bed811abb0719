SPECIFICATION Spec
CONSTANTS
    Configs <- MCConfigs
    Inbound <- MCInbound
    Catalogues <- MCCatalogues
    MaxEvents = 2
INVARIANT CallNeedsGates
INVARIANT EditsHonoured
INVARIANT FailPluginsSeeAll
INVARIANT AcceptedConfigServes
INVARIANT RefusedUncalled
PROPERTY H7Once
