SPECIFICATION Spec
CONSTANTS
    Absent = Absent
    Broken = Broken
    Managed = {"wt/alpha"}
    Validators = {"host"}
    Modes = {"auto", "off", "pinned"}
    S2fDirs = {"s2f_out"}
    Dirs <- MCDirs
    Linked <- MCLinked
    Inside <- MCInside
    KeptShellFiles = 2
    KeptTopRepos = 1
    CycleIds = {1, 2}
    Items = {"i1", "i2"}
    Repos <- MCRepos
    ArtifactNames = {1, 2}
    Scenarios <- MCScenarios
    Overlays <- MCOverlays
INVARIANTS TypeOK FreshManifestPasses  AutonomyIsSafe NothingForgotten VerdictsAgree CandidateUnlessCrowded DriftIsSeen
CHECK_DEADLOCK FALSE
