--------------------------- MODULE SourceContract ---------------------------
(***************************************************************************)
(* Verdicts over a whole workspace that take the reports of others together: *)
(* the source contract (package sourcecontract), with its own saved report,  *)
(* and the fleet audit.  A checkout has localSkills and localMcp, what the    *)
(* repository's own check of its generated files says, "none" if it has none: *)
(* such a check is asked instead of skillsync and mcpsync.                   *)
(***************************************************************************)
EXTENDS Artifacts

CONSTANTS
    Modes       \* the validator modes that commands are given, see BaselineGuard

(* The options of the command; without one the validator mode is "auto".     *)
Options ==
    {o \in [skillsOnly : BOOLEAN, toolsOnly : BOOLEAN, skipInventory : BOOLEAN, validator : Modes] :
        ~(o.skillsOnly /\ o.toolsOnly)}
Everything(mode) == [skillsOnly |-> FALSE, toolsOnly |-> FALSE, skipInventory |-> FALSE, validator |-> mode]
SkillsOnly(mode) == [Everything(mode) EXCEPT !.skillsOnly = TRUE]
ToolsOnly(mode) == [Everything(mode) EXCEPT !.toolsOnly = TRUE]
SkipInventory(mode) == [Everything(mode) EXCEPT !.skipInventory = TRUE]

LocalVerdict(local, otherwise) == IF local = "none" THEN otherwise ELSE local = "pass"
McpErrors(c) == McpReport(c) = "error"

(* Which generated files of a checkout the contract looks at, and whether    *)
(* they are as their sources say.                                          *)
LooksAtSkills(c, o) == ~o.toolsOnly /\ Exists(c, SurfaceFile)
LooksAtMcp(c, o) == ~o.skillsOnly /\ Exists(c, ".mcp.json") /\ Exists(c, ConfigFile)
SkillsKept(c, o) ==
    LocalVerdict(c.localSkills, \A r \in SkillReport(c, o.validator) : ~Drifted(r.action))
McpKept(c) == LocalVerdict(c.localMcp, McpReport(c) = "unchanged")

ContractRepos(manifest, tree, o) ==
    {manifest[j].at : j \in {j \in DOMAIN manifest :
        /\ manifest[j].baseline /\ Present(tree, manifest[j].at)
        /\ LooksAtSkills(tree[manifest[j].at], o) \/ LooksAtMcp(tree[manifest[j].at], o)}}
RepoKept(c, o) == (LooksAtSkills(c, o) => SkillsKept(c, o)) /\ (LooksAtMcp(c, o) => McpKept(c))
KeptOf(o, manifest, tree) == [d \in ContractRepos(manifest, tree, o) |-> RepoKept(tree[d], o)]

\* What the generators would do, which the report has as well.
WouldDo(c, o) ==
    [skills |-> When(LooksAtSkills(c, o) /\ c.localSkills = "none", {SkillReport(c, o.validator)}),
     mcp |-> When(LooksAtMcp(c, o) /\ c.localMcp = "none", {McpReport(c)})]

(* The report: the findings of the workspace check, the verdict on each      *)
(* repository, and what the two artifacts are worth.  There is none without a *)
(* manifest that the overlay fits, or when an artifact cannot be rebuilt.     *)
(* The artifacts are those of the workspace without the overlay.            *)
AsksArtifacts(o) == ~o.skillsOnly /\ ~o.skipInventory
ContractRuns(o, in, overlay, file, manifest, tree) ==
    /\ manifest # Absent /\ OverlayFits(manifest, overlay)
    /\ AsksArtifacts(o) => \A kind \in Kinds : CanBuild(kind, in, file, manifest, tree)
ContractReport(o, day, in, overlay, file, manifest, tree) ==
    LET relocated == ApplyOverlay(manifest, overlay) IN
    [options |-> o, workspace |-> CheckManifest(in, relocated, tree),
     kept |-> KeptOf(o, relocated, tree),
     artifacts |-> IF AsksArtifacts(o)
                   THEN {kind \in Kinds : ArtifactsPass(kind, day, in, file, manifest, tree)} ELSE Kinds]
ContractPasses(report) ==
    /\ Failed(report.workspace) = {}
    /\ \A d \in DOMAIN report.kept : report.kept[d]
    /\ report.artifacts = Kinds

(* The report may be saved, as one JSON file with the two artifacts, as they *)
(* were rebuilt, in it and no stamp of its own.  A saved report is checked   *)
(* under the path that it is given with, against a report with the options   *)
(* of that run.                                                            *)
SavedContract(o, day, in, overlay, file, manifest, tree) ==
    [report |-> ContractReport(o, day, in, overlay, file, manifest, tree),
     would |-> [d \in ContractRepos(ApplyOverlay(manifest, overlay), tree, o) |-> WouldDo(tree[d], o)],
     rebuilt |-> [kind \in IF AsksArtifacts(o) THEN Kinds ELSE {} |->
                    [stamp |-> StampOf(kind, day), body |-> Build(kind, in, file, manifest, tree)]]]

StartContract(o, name, todo, day, in, overlay, file, manifest, tree) ==
    LET saved == SavedContract(o, day, in, overlay, file, manifest, tree) IN
    /\ todo = <<"json">> /\ ContractRuns(o, in, overlay, file, manifest, tree)
    /\ StartSaving("contract", name, todo, 0, saved, saved)
PassesAsSaved(name, saved) ==
    /\ Matches(File("contract", name, "json"), [stamp |-> 0, body |-> saved])
    /\ ContractPasses(saved.report)
SavedContractPasses(name, o, day, in, overlay, file, manifest, tree) ==
    /\ ContractRuns(o, in, overlay, file, manifest, tree)
    /\ PassesAsSaved(name, SavedContract(o, day, in, overlay, file, manifest, tree))

(* The fleet audit: every git directory in the workspace, the skills in mode *)
(* "auto" like the baseline.  An .mcp.json that is not there is no error; a   *)
(* skill surface that is not there is one.                                  *)
FleetPasses(d, c, policy, day) ==
    /\ BaselinePasses(BaselineReport(d, c, policy, day))
    /\ SkillErrors(c, "auto") = {}
    /\ Exists(c, ".mcp.json") => ~McpErrors(c)
FleetReport(tree, policy, day) ==
    [d \in Live(tree) |-> FleetPasses(d, tree[d], policy, day)]
=============================================================================
