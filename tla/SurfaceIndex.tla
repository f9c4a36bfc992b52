---------------------------- MODULE SurfaceIndex ----------------------------
(***************************************************************************)
(* The surface index (package surfaceindex): a row for each baseline         *)
(* repository of the manifest, with its agent surfaces and the verdict of    *)
(* the source contract on it.  It is written and checked like the artifacts  *)
(* of Projections and comes last of all generated files: the contract asks   *)
(* whether inventory and projection are up to date, and the index says what  *)
(* the contract said.  Its own check compares files, and passes also when    *)
(* what they say is that the contract fails.  The contract runs with the      *)
(* validator mode of the index, by default "off", which both files name.     *)
(***************************************************************************)
EXTENDS SourceContract

CanIndexSurface(in, file, manifest, tree) ==
    ContractRuns(Everything("off"), in, <<>>, file, manifest, tree) /\ in.decisions # Broken

(* A row: fields of the manifest's entry, and what lies in the checkout.  A  *)
(* check of the repository's own says nothing of single mirrors, and what is *)
(* an error has no path to show.                                            *)
ShownFiles == {SurfaceFile, ".mcp.json", ConfigFile, ProfileFile}
SkillsShown(c) == When(SurfaceRead(c), c.listed)
MirrorsShown(c, mode) ==
    When(SurfaceRead(c) /\ c.localSkills = "none", {r \in SkillReport(c, mode) : r.action # "error"})
ServersShown(c) == When(Parses(c, ".mcp.json"), {s.name : s \in c.servers})
ProfilesShown(c) ==
    IF McpReport(c) = "error" \/ Says(c, ProfileFile, "repo local owner") THEN {}
    ELSE IF FromProfiles(c) THEN {p.stem : p \in ToSet(c.profiles)}
    ELSE {<<s.name>> : s \in {s \in c.servers : ~s.hidden}}

RuntimeRow(name, in, file, manifest, tree) ==
    LET rules == RulesOf(file)
        projected == {s \in RuntimeServers(in, rules, manifest, tree) : s.repo = name}
        skipped == {k \in Skipped(rules, manifest, tree) : k.repo = name}
    IN  [projected |-> projected, skipped |-> skipped,
         status |-> IF \E s \in projected : s.status = "invalid" THEN "invalid"
                    ELSE IF projected # {} THEN "projected"
                    ELSE IF skipped # {} THEN "skipped" ELSE "none"]

(* What the contract said, or why it did not look: then there is neither a   *)
(* skill surface nor both files of the MCP sync.                            *)
ContractStatus(at, c, runtime, report) ==
    IF at \in DOMAIN report.kept
    THEN [status |-> IF report.kept[at] THEN "pass" ELSE "fail", reason |-> ""]
    ELSE IF Exists(c, ".mcp.json") /\ runtime.projected # {}
         THEN [status |-> "runtime_projection_only", reason |-> "projected"]
    ELSE [status |-> "not_checked",
          reason |-> IF Exists(c, ".mcp.json") THEN "no config" ELSE "no surface"]

Vacant == [files |-> [f \in {} |-> {}]]
Row(repo, mode, report, in, file, manifest, tree) ==
    LET here == Present(tree, repo.at)
        c == IF here THEN tree[repo.at] ELSE Vacant
        runtime == RuntimeRow(repo.name, in, file, manifest, tree)
    IN  [entry |-> repo, exists |-> here, decision |-> DecisionOn(in, repo.name),
         contract |-> ContractStatus(repo.at, c, runtime, report), runtime |-> runtime,
         files |-> {f \in ShownFiles : Exists(c, f)}, skills |-> SkillsShown(c), mirrors |-> MirrorsShown(c, mode),
         servers |-> ServersShown(c), profiles |-> ProfilesShown(c),
         mcp |-> IF LooksAtMcp(c, Everything(mode)) /\ c.localMcp = "none" THEN McpReport(c) ELSE "not asked",
         found |-> {f \in Failed(report.workspace) : f.about = repo.name}]

BuildSurfaceIndex(mode, day, in, file, manifest, tree) ==
    LET report == ContractReport(Everything(mode), day, in, <<>>, file, manifest, tree)
        targets == SelectSeq(manifest, LAMBDA r : r.baseline)
    IN  [passed |-> ContractPasses(report), validator |-> mode,
         rows |-> [i \in DOMAIN targets |-> Row(targets[i], mode, report, in, file, manifest, tree)]]

(* The page has less of each row, and counts.                               *)
RowOnPage(row) ==
    [repo |-> row.entry.name, scope |-> row.entry.scope, decision |-> row.decision.state,
     contract |-> row.contract, skills |-> Cardinality(row.skills), servers |-> Cardinality(row.servers),
     runtime |-> <<row.runtime.status, Cardinality(row.runtime.projected), Cardinality(row.runtime.skipped)>>]
RowsWith(index, f) == Cardinality({i \in DOMAIN index.rows : f \in index.rows[i].files})
SurfacePage(index) ==
    [passed |-> index.passed, validator |-> index.validator, rows |-> [i \in DOMAIN index.rows |-> RowOnPage(index.rows[i])],
     existing |-> Cardinality({i \in DOMAIN index.rows : index.rows[i].exists}),
     skillSurfaces |-> RowsWith(index, SurfaceFile), mcpSources |-> RowsWith(index, ".mcp.json")]

StartSurfaceIndex(mode, name, todo, day, in, file, manifest, tree) ==
    /\ CanIndexSurface(in, file, manifest, tree)
    /\ \E index \in {BuildSurfaceIndex(mode, day, in, file, manifest, tree)} :
           StartSaving("surface", name, todo, day, index, SurfacePage(index))

AreOnDisk(index, day) == FilesMatch("surface", index, SurfacePage(index), day)
SurfaceIndexPasses(mode, day, in, file, manifest, tree) ==
    /\ CanIndexSurface(in, file, manifest, tree)
    /\ AreOnDisk(BuildSurfaceIndex(mode, day, in, file, manifest, tree), day)
=============================================================================
