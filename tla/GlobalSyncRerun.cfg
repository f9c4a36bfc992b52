SPECIFICATION Spec
CONSTANTS
    Root = "studio"
    Repos <- MCRepos
    Workspaces <- RerunWorkspaces
    Policies <- RerunPolicies
    Manifests <- RerunManifests
    Configs <- RerunConfigs
    Lines <- MCLines
    Pieces <- MCPieces
    MaxEvents = 0
INVARIANT ManagedIsKnown
