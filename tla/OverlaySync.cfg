SPECIFICATION Spec
CONSTANTS
    Prefixed <- MCPrefixed
    Projections <- MCProjections
    Files <- MCFiles
    Recoded <- MCRecoded
    MaxEvents = 2
INVARIANTS TypeOK CleanRunPublishes
PROPERTIES PublishesWhole TablesKept
