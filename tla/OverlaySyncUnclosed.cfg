SPECIFICATION Spec
CONSTANTS
    Prefixed <- MCPrefixed
    Projections <- MCProjections
    Files <- MCFiles
    Recoded <- MCRecoded
    MaxEvents = 0
INVARIANT UpToDateIsTrue
