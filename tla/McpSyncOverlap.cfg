SPECIFICATION Spec
CONSTANTS
    cli = cli
    tool = tool
    Runs = {cli, tool}
    Names <- MCNames
    Hidden = {"_example"}
    Texts <- MCTexts
    Lines <- MCLines
    McpFiles <- OverlapMcpFiles
    Policies <- OverlapPolicies
    Configs <- OverlapConfigs
    MaxEvents = 0
INVARIANT UserTextSurvives
