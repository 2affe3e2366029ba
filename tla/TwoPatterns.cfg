CONSTANTS
    Half = 8
    OverflowChecks = FALSE
    DefaultMaxHops = 10
    Rank <- MCRank
    ParamOf <- MCParamOf
    DateOf <- MCDateOf
    ValueIn <- MCValueIn
    CanBeStored <- CanStore
    InCatalog <- MCInCatalog
    ReadBy <- MCReadBy
    Texts <- Numbers
    PlanOf <- NthPlan
    StatementsMeant <- MCPairs
    Databases <- MCDatabases
    Fuses <- MCFuses
    MaxClock = 3
    MaxStatements = 3
    MaxIds <- MCMaxIds
    MaxVersions = 2
    AskedKey = "q"
SPECIFICATION Spec
PROPERTY RelatesMatched
CHECK_DEADLOCK FALSE
