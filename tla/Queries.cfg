CONSTANTS
    Half = 8
    OverflowChecks = FALSE
    DefaultMaxHops = 1
    Rank <- MCRank
    ParamOf <- MCParamOf
    DateOf <- MCDateOf
    Ident <- MCIdent
    QuotedOf <- MCQuotedOf
    LiteralOf <- MCLiteralOf
    Param <- MCParam
    HopRange = 8
    QueriesMeant <- MCQueriesMeant
    GraphsOf <- MCGraphsOf
SPECIFICATION Spec
INVARIANTS RoundTrip   RowsAreMatches PathsAreSimple
CHECK_DEADLOCK FALSE
