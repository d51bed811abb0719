SPECIFICATION Spec
CONSTANTS
    Configs <- PrefixConfigs
    Inbound <- MCInbound
    Catalogues <- MCCatalogues
    MaxEvents = 1
INVARIANT RouteEntryFound
