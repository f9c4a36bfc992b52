SPECIFICATION Spec
CONSTANTS
    Root = "studio"
    Repos <- MCRepos
    Workspaces <- MCWorkspaces
    Policies <- MCPolicies
    Manifests <- MCManifests
    Configs <- MCConfigs
    Lines <- MCLines
    Pieces <- MCPieces
    MaxEvents = 1
INVARIANTS TypeOK OneTablePerServer UserLinesKept PolicyHonoured
PROPERTY RunEnds
