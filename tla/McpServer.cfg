CONSTANTS
  Blank = ""
  Trimmed <- TrimmedNames
  Lineups <- Lineup
  Requests <- Asked
  Readable = {"overview"}
  Rank <- RankOfNames
  Hits <- HitsOfQuery
  PageSize = 2
  DefaultLimit = 2
  MaxLimit = 3
  MaxAllowed = 3
  MaxNamespaces = 2
  PipeSize = 1
  MaxMessages = 3
  MaxOthers = 2
  None = None
  Malformed = Malformed
SPECIFICATION FairSpec
CHECK_DEADLOCK FALSE
INVARIANT TypeOK
INVARIANT OneOwner
INVARIANT AnsweredInOrder
INVARIANT WalkListsAll
INVARIANT SearchIsExact
PROPERTY AllAnswered
