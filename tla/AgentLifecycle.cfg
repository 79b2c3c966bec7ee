CONSTANTS
    NotGiven <- MCNotGiven
    Malformed <- MCMalformed
    NoURL = ""
    Senders <- MCSenders
    NoTenant = ""
    TenantOf <- MCTenantOf
    GlobalTenant = "hawkular"
    DefinitionSets <- MCDefinitionSets
    ChanCap = 1
    MaxSends = 4
    Starts <- MCStarts
    ServerValues <- MCServerValues
    Patience = 2
SPECIFICATION LiveSpec
INVARIANTS
    TypeOK TickersArePaced EmitterIsGuarded TickersAreUsable PanicsOnlyAtTheEnd
    AsSentLast OneTenantPerSender
PROPERTIES KeepsTagsInUse MainMovesOn QueuesMoveOn
CHECK_DEADLOCK FALSE
