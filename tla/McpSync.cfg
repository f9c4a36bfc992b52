SPECIFICATION Spec
CONSTANTS
    cli = cli
    tool = tool
    Runs = {cli, tool}
    Names <- MCNames
    Hidden = {"_example"}
    Texts <- MCTexts
    Lines <- MCLines
    McpFiles <- MCMcpFiles
    Policies <- MCPolicies
    Configs <- MCConfigs
    MaxEvents = 1
INVARIANTS TypeOK UserLinesKept ReportIsTrue OwnerRespected Settles
