------------------------- MODULE WorkspaceManifest -------------------------
(***************************************************************************)
(* The workspace manifest (package workspace): how it is generated from the *)
(* catalog, the parity inventory, the consolidation matrix, go.work and the *)
(* directories that exist; how an overlay relocates a repository of it; how *)
(* it is checked against the directories, the matrix and go.work; and which *)
(* repositories the baseline check takes from it.                           *)
(*                                                                         *)
(* The inputs are a record in:                                             *)
(*   catalog    a sequence of [name, path, group, lifecycle, archived],     *)
(*              path = "" where the directory has the name of the repository *)
(*   parity     a function from some names to [scope, expected]             *)
(*   decisions  of the matrix: a sequence of [repo, state, scope, goWork,   *)
(*              baseline, archive], with scope "" and the two flags "unset"  *)
(*              where they override nothing                                 *)
(*   goWork     the members of go.work, or Absent                           *)
(*   root       the servers of .mcp.json in the workspace root, or Absent     *)
(* catalog and matrix may be Broken, a file that does not parse; a file       *)
(* that is absent is as good as an empty one.  A tree gives each directory   *)
(* under the workspace its checkout (see BaselineGuard), or Absent.         *)
(***************************************************************************)
EXTENDS BaselineGuard

CONSTANTS
    Dirs,       \* directories that a checkout may be in
    Linked,     \* those of Dirs that are not directly under the workspace root
    Inside      \* of each go.work member that is no repository, the directory it lies in

ASSUME DirsAssumption == IsFiniteSet(Dirs)

Present(tree, d) == d \in Dirs /\ tree[d] # Absent
Live(tree) == {d \in Dirs \ Linked : Present(tree, d) /\ tree[d].cloned}

(* The last element of a sequence that satisfies a test, or a default: a    *)
(* map filled in order keeps the last entry of a key.                       *)
LastOf(seq, Test(_), default) ==
    LET hits == {i \in DOMAIN seq : Test(seq[i])}
    IN  IF hits = {} THEN default ELSE seq[CHOOSE i \in hits : \A j \in hits : j <= i]

(* A finite set in the order of a key; of elements with the same key any may *)
(* come first.  And the elements of a sequence that are at certain positions.*)
InOrder(S, key) ==
    CHOOSE order \in [1..Cardinality(S) -> S] :
        \A i, j \in 1..Cardinality(S) : i < j => order[i] # order[j] /\ key[order[i]] <= key[order[j]]
Pick(seq, I) ==
    LET order == InOrder(I, [i \in I |-> i]) IN [k \in 1..Cardinality(I) |-> seq[order[k]]]

NoEntry == [name |-> "", path |-> "", group |-> "", lifecycle |-> "", archived |-> FALSE]
NoDecision == [repo |-> "", state |-> "", scope |-> "", goWork |-> "unset", baseline |-> "unset", archive |-> FALSE]
NoParity == [scope |-> "", expected |-> FALSE]

DirectoryOf(entry) == IF entry.path # "" THEN entry.path ELSE entry.name
DecisionOn(in, name) == LastOf(in.decisions, LAMBDA x : x.repo = name, NoDecision)
ParityOf(in, name) == IF name \in DOMAIN in.parity THEN in.parity[name] ELSE NoParity
ListedAt(in, name) == \E i \in DOMAIN in.catalog : DirectoryOf(in.catalog[i]) = name
EntryFor(in, name) ==
    IF ListedAt(in, name) THEN LastOf(in.catalog, LAMBDA e : DirectoryOf(e) = name, NoEntry)
    ELSE LastOf(in.catalog, LAMBDA e : e.name = name, NoEntry)

-----------------------------------------------------------------------------
(* What is inferred for a repository when the inputs do not say it.         *)
Passive(c) == Says(c, ".ralphrc", "passive")
HasAgentSurface(c) ==
    /\ Exists(c, "AGENTS.md")
    /\ \E f \in {ConfigFile, SurfaceFile, ".mcp.json"} : Exists(c, f)
Retiring(entry) == entry.archived \/ entry.lifecycle \in {"maintenance-only", "publish-mirror"}

InferScope(c, entry, parity, decision) ==
    IF decision.scope # "" THEN decision.scope
    ELSE IF parity.scope # "" THEN parity.scope
    ELSE IF /\ ~Passive(c) /\ ~Retiring(entry)
            /\ entry.lifecycle = "active" \/ HasAgentSurface(c)
         THEN "active_first_party"
         ELSE "compatibility_only"

InferBaseline(c, entry, parity, decision) ==
    IF decision.baseline # "unset" THEN decision.baseline = "yes"
    ELSE \/ parity.expected
         \/ /\ parity.scope \notin {"compatibility_only", "upstream_or_reference"}
            /\ decision.scope # "compatibility_only"
            /\ ~Passive(c) /\ ~Retiring(entry)
            /\ HasAgentSurface(c)

InferLifecycle(c, entry) ==
    IF entry.lifecycle # "" THEN entry.lifecycle ELSE IF Passive(c) THEN "passive" ELSE "active"

InferCategory(entry) == IF entry.group # "" THEN entry.group ELSE "local"

GeneratedRepo(in, c, name) ==
    LET entry == EntryFor(in, name)
        decision == DecisionOn(in, name)
        parity == ParityOf(in, name)
    IN  [name |-> name, at |-> name,
         category |-> InferCategory(entry),
         scope |-> InferScope(c, entry, parity, decision),
         lifecycle |-> InferLifecycle(c, entry),
         baseline |-> InferBaseline(c, entry, parity, decision),
         goWork |-> IF decision.goWork # "unset" THEN decision.goWork = "yes"
                    ELSE in.goWork # Absent /\ name \in in.goWork]

(* A mutant: the matrix is not asked.                                      *)
GenerateUndecided(in, tree) ==
    LET live == Live(tree)
        order == InOrder(live, [d \in live |-> 0])
    IN  [i \in DOMAIN order |->
            GeneratedRepo([in EXCEPT !.decisions = <<>>], tree[order[i]], order[i])]

(* First the live directories of the catalog, in its order and as often as  *)
(* it lists them, then the other live ones; of these, those that no         *)
(* decision removes.                                                        *)
CanGenerate(in) == Broken \notin {in.catalog, in.parity, in.decisions}
GenerateManifest(in, tree) ==
    LET live == Live(tree)
        listed == [i \in DOMAIN in.catalog |-> DirectoryOf(in.catalog[i])]
        others == live \ ToSet(listed)
        order == listed \o InOrder(others, [d \in others |-> 0])
        kept == Pick(order, {i \in DOMAIN order :
                    /\ order[i] \in live
                    /\ DecisionOn(in, order[i]).state # "removed_from_active_baseline"})
    IN  [i \in DOMAIN kept |-> GeneratedRepo(in, tree[kept[i]], kept[i])]

-----------------------------------------------------------------------------
(* An overlay is a sequence of [name, path]; it may relocate known          *)
(* repositories only, each by its last entry in the manifest.               *)
OverlayFits(manifest, overlay) ==
    \A i \in DOMAIN overlay : \E j \in DOMAIN manifest : manifest[j].name = overlay[i].name
ApplyOverlay(manifest, overlay) ==
    [j \in DOMAIN manifest |->
        IF \E k \in DOMAIN manifest : k > j /\ manifest[k].name = manifest[j].name THEN manifest[j]
        ELSE [manifest[j] EXCEPT !.at = LastOf(overlay, LAMBDA o : o.name = manifest[j].name,
                                               [path |-> manifest[j].at]).path]]

(* The checkouts that baseline check --all judges.  When there is no        *)
(* manifest, or the overlay does not fit it, the git directories directly   *)
(* under the root.  (A mutant first: the overlay is not applied.)           *)
NotScanned == {".graveyard", ".codex-worktrees", ".claude", ".config", ".ralph", "vault"}
BaselineTargetsAtHome(manifest, overlay, tree) ==
    {manifest[j].at : j \in {j \in DOMAIN manifest :
         manifest[j].baseline /\ Present(tree, manifest[j].at) /\ tree[manifest[j].at].cloned}}

BaselineTargets(manifest, overlay, tree) ==
    IF manifest # Absent /\ OverlayFits(manifest, overlay)
    THEN LET relocated == ApplyOverlay(manifest, overlay) IN
         {relocated[j].at : j \in {j \in DOMAIN relocated :
              /\ relocated[j].baseline
              /\ Present(tree, relocated[j].at)
              /\ tree[relocated[j].at].cloned}}
    ELSE Live(tree) \ NotScanned

-----------------------------------------------------------------------------
(* The check of a manifest (Check): its findings as in BaselineGuard, about *)
(* a repository or, where there may be several, a pair.                     *)
DirectoryRequired(repo, decision) ==
    \/ repo.scope # "compatibility_only"
    \/ /\ repo.baseline \/ repo.goWork
       /\ ~decision.archive \/ decision.state \notin {"merged_into", "merged_out_of_active_surface"}

(* The first entry of each name counts; what follows it is a finding.       *)
FirstOf(manifest, name) ==
    manifest[CHOOSE j \in DOMAIN manifest : /\ manifest[j].name = name
                                            /\ \A k \in 1..(j - 1) : manifest[k].name # name]
Names(manifest) == {manifest[j].name : j \in DOMAIN manifest}
Repeated(manifest) ==
    {manifest[j].name : j \in {j \in DOMAIN manifest : \E k \in 1..(j - 1) : manifest[k].name = manifest[j].name}}

DirectoryFindings(in, manifest, tree) ==
    Findings("repo_directory", Names(manifest), LAMBDA n :
        LET repo == FirstOf(manifest, n) IN
        Present(tree, repo.at) \/ ~DirectoryRequired(repo, DecisionOn(in, n)))
    \cup Findings("manifest_repo_unique", Repeated(manifest), LAMBDA n : FALSE)

ExpectedMembers(manifest, tree) ==
    {n \in Names(manifest) : FirstOf(manifest, n).goWork /\ Present(tree, FirstOf(manifest, n).at)}
ModuleFindings(manifest, tree) ==
    Findings("go_module", ExpectedMembers(manifest, tree),
             LAMBDA n : Exists(tree[FirstOf(manifest, n).at], "go.mod"))

(* A member that is no repository is fine inside one: its path begins with   *)
(* that repository's directory, or it is a link into it.                    *)
LiesIn(member, repos) == member \in DOMAIN Inside /\ Inside[member] \in repos
MemberFindings(in, manifest, tree) ==
    LET expected == ExpectedMembers(manifest, tree)
        actual == IF in.goWork = Absent THEN {} ELSE in.goWork
    IN  Findings("go_work_member", expected \cup actual, LAMBDA m :
            IF m \in expected THEN m \in actual
            ELSE LiesIn(m, Names(manifest)))

(* What one decision of the matrix asks of the manifest.                    *)
DecisionFindings(manifest, x) ==
    IF x.repo \notin Names(manifest)
    THEN {Finding("consolidation_manifest", x.repo, x.scope = "compatibility_only" \/ x.archive)}
    ELSE LET repo == FirstOf(manifest, x.repo) IN
         When(x.state = "merged_out_of_active_surface",
              {Finding("consolidation_scope", x.repo, repo.scope = "compatibility_only"),
               Finding("consolidation_go_work_member", x.repo, ~repo.goWork),
               Finding("consolidation_baseline_target", x.repo, ~repo.baseline)})
         \cup When(x.scope # "", {Finding("consolidation_scope_override", x.repo, repo.scope = x.scope)})
         \cup When(x.goWork # "unset",
                   {Finding("consolidation_go_work_member_override", x.repo, repo.goWork = (x.goWork = "yes"))})
         \cup When(x.baseline # "unset",
                   {Finding("consolidation_baseline_target_override", x.repo, repo.baseline = (x.baseline = "yes"))})

MatrixFindings(in, manifest) ==
    IF in.decisions = Broken THEN {Finding("consolidation_matrix", "", FALSE)}
    ELSE UNION {DecisionFindings(manifest, in.decisions[i]) : i \in DOMAIN in.decisions}

(* While the matrix does not load, no decision excuses a directory.  A      *)
(* go.work that is missing although members are expected ends the check.    *)
CheckManifest(in, manifest, tree) ==
    LET known == IF in.decisions = Broken THEN [in EXCEPT !.decisions = <<>>] ELSE in
        first == DirectoryFindings(known, manifest, tree) \cup ModuleFindings(manifest, tree)
    IN  IF in.goWork = Absent /\ ExpectedMembers(manifest, tree) # {}
        THEN first \cup {Finding("go_work_parse", "", FALSE)}
        ELSE first \cup MemberFindings(in, manifest, tree) \cup MatrixFindings(in, manifest)
=============================================================================
