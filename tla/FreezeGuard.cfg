CONSTANTS
  Paths <- Path
  Contents = {"rules", "text"}
  Gone = "gone"
  Reasons = {"compat", "doc"}
  OtherReasons = {"other"}
  Allowlist <- Lists
  Private = {"rules/a.go"}
  AnchorTree <- Tree
  AnchorPaths = {"README.md"}
  MaxCommits = 2
  MaxStaged = 2
SPECIFICATION Spec
INVARIANT TypeOK
INVARIANT PrivateStaysOut
INVARIANT CleanMeansAllowed
INVARIANT JudgedWholePasses
