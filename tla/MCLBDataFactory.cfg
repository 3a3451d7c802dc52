SPECIFICATION Spec
CONSTANTS
    Files <- MCFiles
    MaxDepth = 5
    Lower <- MCLower
    Number <- MCNumber
INVARIANTS
    TypeOK
    HealthAsWritten
    RulesAsWritten
    IndexPerInterface
    UndefinedNeedsMisfit
CHECK_DEADLOCK FALSE
