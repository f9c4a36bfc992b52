----------------------------- MODULE Workspace -----------------------------
(***************************************************************************)
(* A workspace of repositories and the commands of codexkit that look at all *)
(* of it, composed: its directories, the files under workspace/ that the     *)
(* commands read, and what they write, while people and other programs       *)
(* change everything between any two steps.                                 *)
(*                                                                         *)
(*   workspace generate-manifest --write      WorkspaceManifest            *)
(*   workspace check, baseline check --all     WorkspaceManifest, BaselineGuard *)
(*   the generators that a baseline report offers           BaselineGuard   *)
(*   repo-readiness                           RepoReadiness                *)
(*   unification audit, unification cycle      UnificationAudit, -Cycle     *)
(*   runtime-inventory, global-mcp-projection and checks      Artifacts     *)
(*   source-contract-check, fleet audit        SourceContract               *)
(*   surface-index, primitive-index and checks  SurfaceIndex, PrimitiveIndex *)
(*                                                                         *)
(* A command that only reads has no step: what it answers in a state is an   *)
(* operator of that state, and the properties ask it in every state.        *)
(***************************************************************************)
EXTENDS UnificationAudit, UnificationCycle, SurfaceIndex, PrimitiveIndex

CONSTANTS
    Scenarios,  \* by name: what a behaviour starts from, may change, and how far it goes
    Overlays    \* overlays that commands are given

ASSUME ReposAssumption == Dirs \ Linked \subseteq Repos

(* What of a checkout the properties below depend on: its files and servers  *)
(* are finitely many, and the name of a branch has no blank in it.           *)
GitType == [ok : BOOLEAN, head : STRING \ {NoBranch}, dirty : Nat, ahead : Nat, behind : Nat]
IsCheckout(c) ==
    /\ {"files", "skills", "rejects", "listed", "mirrors", "strays", "block", "faulty", "servers", "profiles",
        "agents", "roles", "spec", "git", "cloned", "localSkills", "localMcp", "shell", "hooks"} \subseteq DOMAIN c
    /\ IsFiniteSet(DOMAIN c.files) /\ IsFiniteSet(DOMAIN c.skills) /\ IsFiniteSet(c.strays)
    /\ c.mirrors \in Seq([of : c.listed, dir : STRING, stands : {"unchanged", "create", "update", "blocked"}])
    /\ IsFiniteSet(DOMAIN c.hooks) /\ IsFiniteSet(DOMAIN c.shell)
    /\ \A p \in DOMAIN c.shell : c.shell[p].lines \in Nat
    /\ IsFiniteSet(c.listed) /\ IsFiniteSet(c.servers) /\ IsFiniteSet(c.roles)
    /\ c.agents \in Seq(ToSet(c.agents)) /\ c.profiles \in Seq(ToSet(c.profiles))
    /\ c.block \in {"unchanged", "update", "leftover"}
    /\ c.git \in GitType
AreCheckouts(t) == DOMAIN t = Dirs /\ \A d \in Dirs : t[d] = Absent \/ IsCheckout(t[d])

(* The same of the inputs of the manifest, where they parse, and of the       *)
(* policy.                                                                 *)
AreInputs(in) ==
    /\ in.catalog # Broken => in.catalog \in Seq(ToSet(in.catalog))
    /\ in.decisions # Broken =>
           /\ in.decisions \in Seq(ToSet(in.decisions))
           /\ \A i \in DOMAIN in.decisions :
                 {in.decisions[i].goWork, in.decisions[i].baseline} \subseteq {"unset", "yes", "no"}
IsPolicy(p) ==
    /\ p.lifecycle \notin {Absent, Broken} => IsFiniteSet(p.lifecycle)
    /\ p.expectations \notin {Absent, Broken} =>
           IsFiniteSet(p.expectations) /\ \A e \in p.expectations : IsFiniteSet(e.expected \cup e.forbidden)

(* A scenario is [starts, checkouts, inputs, policies, days, saves, options,  *)
(* steps]: where a behaviour starts, with a manifest just generated or none,  *)
(* what may come to be in each directory, what the inputs of the manifest and *)
(* the policy files may become, days on which something expires, which       *)
(* artifacts are written, as <<kind, name, request>>, with which options the  *)
(* reports of the contract are saved and, of these the validator mode, the   *)
(* surface index built, and, the bound, how many steps of each sort there are *)
(* at most.                                                                *)
(* A policy is the record of BaselineGuard with two more files: global, see  *)
(* Projections, and modes, from some names to fleet modes.                  *)
SavedKinds == Kinds \cup {"contract", "surface", "primitives"}
ASSUME ScenarioAssumption ==
    \A s \in DOMAIN Scenarios :
        /\ Scenarios[s].saves \subseteq SavedKinds \X ArtifactNames \X Requests
        /\ \A start \in Scenarios[s].starts :
              /\ AreCheckouts(start.tree) /\ AreInputs(start.inputs) /\ IsPolicy(start.policy)
              /\ start.day \in Nat \ {0} /\ (start.listed => CanGenerate(start.inputs))
        /\ \A d \in Dirs : \A c \in Scenarios[s].checkouts[d] : c = Absent \/ IsCheckout(c)
        /\ \A in \in Scenarios[s].inputs : AreInputs(in)
        /\ \A p \in Scenarios[s].policies : IsPolicy(p)
        /\ Scenarios[s].days \subseteq Nat

VARIABLES
    tree, inputs, policy, day,  \* the workspace
    manifest,                   \* workspace/manifest.json, or Absent when it is not there or cannot be read
    generating,                 \* the manifest that a run is about to write, or Absent
    scenario, left              \* which scenario, and which of its steps are left

places == <<tree, inputs, policy, day>>
bounds == <<scenario, left>>
vars == <<places, manifest, generating, bounds, artifactVars, cycleVars>>

Spend(sort) == left[sort] > 0 /\ left' = [left EXCEPT ![sort] = @ - 1] /\ UNCHANGED scenario
ReportOn(d, c) == BaselineReport(d, c, policy, day)
AuditNow(all) == Audit(manifest, tree, all, policy, day)
Cards(all) ==
    IF manifest = Absent THEN {} ELSE Scorecard(manifest, tree, policy.modes, all, policy, day)

Init ==
    /\ scenario \in DOMAIN Scenarios
    /\ \E start \in Scenarios[scenario].starts :
           /\ tree = start.tree /\ inputs = start.inputs
           /\ policy = start.policy /\ day = start.day
           /\ manifest = IF start.listed THEN GenerateManifest(inputs, tree) ELSE Absent
    /\ generating = Absent
    /\ left = Scenarios[scenario].steps
    /\ ArtifactInit /\ CycleInit

(* The world: people, git and other programs.                               *)
ChangeCheckout(d, c) == tree' = [tree EXCEPT ![d] = c] /\ UNCHANGED <<inputs, policy, day>>
ChangeInputs(in) == inputs' = in /\ UNCHANGED <<tree, policy, day>>
ChangePolicy(p) == policy' = p /\ UNCHANGED <<tree, inputs, day>>
TimePasses(to) == to > day /\ day' = to /\ UNCHANGED <<tree, inputs, policy>>

Change ==
    /\ Spend("change")
    /\ LET may == Scenarios[scenario] IN
       \/ \E d \in Dirs : \E c \in may.checkouts[d] \ {tree[d]} : ChangeCheckout(d, c)
       \/ \E in \in may.inputs \ {inputs} : ChangeInputs(in)
       \/ \E p \in may.policies \ {policy} : ChangePolicy(p)
       \/ \E to \in may.days : TimePasses(to)
    /\ UNCHANGED <<manifest, generating, artifactVars, cycleVars>>

(* workspace generate-manifest --write: the manifest is built from what the  *)
(* workspace is now, then the file is emptied and written in place.  A run   *)
(* that is killed leaves the file as it was, or one that cannot be read.     *)
StartManifest ==
    /\ Spend("generate")
    /\ generating = Absent /\ CanGenerate(inputs)
    /\ generating' = GenerateManifest(inputs, tree)
    /\ UNCHANGED <<places, manifest, artifactVars, cycleVars>>

EmptyManifest ==
    /\ generating # Absent /\ manifest # Absent
    /\ manifest' = Absent
    /\ UNCHANGED <<places, generating, bounds, artifactVars, cycleVars>>

FinishManifest ==
    /\ generating # Absent /\ manifest = Absent
    /\ manifest' = generating /\ generating' = Absent
    /\ UNCHANGED <<places, bounds, artifactVars, cycleVars>>

StopManifest ==
    /\ Spend("spoil")
    /\ generating # Absent
    /\ generating' = Absent
    /\ UNCHANGED <<places, manifest, artifactVars, cycleVars>>

(* Somebody runs the generators that the baseline report on d offers.       *)
Remedy(d) ==
    /\ Spend("remedy")
    /\ Present(tree, d)
    /\ LET commands == Commands(ReportOn(d, tree[d])) IN
       /\ commands # {}
       /\ tree' = [tree EXCEPT ![d] = Remedied(@, commands)]
    /\ UNCHANGED <<inputs, policy, day, manifest, generating, artifactVars, cycleVars>>

(* unification cycle, with the queue of today's audit.                      *)
RunCycle(id, previous, required, acknowledged, all) ==
    /\ Spend("cycle")
    /\ BuildCycle(id, previous, required, acknowledged, BaselineQueue(AuditNow(all)))
    /\ UNCHANGED <<places, manifest, generating, artifactVars>>

(* It writes its note or leaves none; people work on the notes meanwhile.    *)
FinishCycle ==
    /\ (\E item \in Items : WriteNote(item)) \/ DropCycle
    /\ UNCHANGED <<places, manifest, generating, bounds, artifactVars>>

EditNotes ==
    /\ \/ \E item \in Items : AddItem(item)
       \/ \E n \in CycleIds, item \in Items : CheckOff(n, item)
    /\ UNCHANGED <<places, manifest, generating, bounds, artifactVars>>

(* workspace runtime-inventory, global-mcp-projection, source-contract-check, *)
(* surface-index and primitive-index.  A run that writes comes to its end, or *)
(* is torn out of its work.                                                *)
StartArtifact(kind, name, todo) ==
    /\ Spend(kind)
    /\ \/ kind \in Kinds /\ StartWriting(kind, name, todo, day, inputs, policy.global, manifest, tree)
       \/ kind = "contract"
          /\ \E o \in Options \cap Scenarios[scenario].options, overlay \in Overlays :
                 StartContract(o, name, todo, day, inputs, overlay, policy.global, manifest, tree)
       \/ kind = "surface"
          /\ \E o \in Options \cap Scenarios[scenario].options :
                 StartSurfaceIndex(o.validator, name, todo, day, inputs, policy.global, manifest, tree)
       \/ kind = "primitives"
          /\ \E overlay \in Overlays : StartPrimitiveIndex(name, todo, day, overlay, inputs, manifest, tree)
    /\ UNCHANGED <<places, manifest, generating, cycleVars>>

GoOnWriting ==
    /\ \/ WriteFile /\ UNCHANGED bounds
       \/ Spend("spoil") /\ (TearFile \/ StopWriting)
    /\ UNCHANGED <<places, manifest, generating, cycleVars>>

Next ==
    \/ Change
    \/ StartManifest \/ EmptyManifest \/ FinishManifest \/ StopManifest
    \/ \E d \in Dirs : Remedy(d)
    \/ \E id \in CycleIds, previous \in CycleIds \cup {NoNote}, required, acknowledged, all \in BOOLEAN :
          RunCycle(id, previous, required, acknowledged, all)
    \/ FinishCycle \/ EditNotes
    \/ \E save \in Scenarios[scenario].saves : StartArtifact(save[1], save[2], save[3])
    \/ GoOnWriting

Spec == Init /\ [][Next]_vars

-----------------------------------------------------------------------------
(* The manifest lists directories of the workspace, the notes are notes, and *)
(* every artifact is under a name of its kind.                              *)
TypeOK ==
    /\ AreCheckouts(tree) /\ AreInputs(inputs) /\ IsPolicy(policy) /\ day \in Nat \ {0}
    /\ \A known \in {manifest, generating} \ {Absent} : \A j \in DOMAIN known : known[j].at \in Dirs
    /\ \A f \in DOMAIN docs : f.kind \in SavedKinds /\ f.name \in ArtifactNames /\ f.ext \in {"json", "md"}
    /\ writing # NoRun => writing.kind \in SavedKinds /\ writing.todo \in Requests
    /\ CycleTypeOK

(* When do the inputs of the manifest agree?  No directory is in the catalog *)
(* twice; what a decision asks holds of what comes out, and what it is about *)
(* comes out unless it may be missing; the members of go.work are            *)
(* repositories of the manifest that are to be members, with a go.mod, or    *)
(* lie in one.                                                             *)
ListedOnce(d) ==
    Cardinality({i \in DOMAIN inputs.catalog : DirectoryOf(inputs.catalog[i]) = d}) <= 1
Kept(d) == d \in Live(tree) /\ DecisionOn(inputs, d).state # "removed_from_active_baseline"
Becomes(d) == GeneratedRepo(inputs, tree[d], d)
Obeyed(x) ==
    IF ~Kept(x.repo) THEN x.archive \/ x.scope = "compatibility_only"
    ELSE /\ x.state = "merged_out_of_active_surface" =>
              Becomes(x.repo).scope = "compatibility_only" /\ ~Becomes(x.repo).goWork /\ ~Becomes(x.repo).baseline
         /\ x.scope \in {"", Becomes(x.repo).scope}
         /\ x.goWork \in {"unset", IF Becomes(x.repo).goWork THEN "yes" ELSE "no"}
         /\ x.baseline \in {"unset", IF Becomes(x.repo).baseline THEN "yes" ELSE "no"}
MembersAgree ==
    LET members == {d \in Dirs : Kept(d) /\ Becomes(d).goWork}
        written == IF inputs.goWork = Absent THEN {} ELSE inputs.goWork
    IN  /\ members \subseteq written
        /\ \A d \in members : Exists(tree[d], "go.mod")
        /\ \A m \in written \ members : m \in DOMAIN Inside /\ Kept(Inside[m])
InputsAgree ==
    /\ \A d \in Dirs : Kept(d) => ListedOnce(d)
    /\ \A i \in DOMAIN inputs.decisions : Obeyed(inputs.decisions[i])
    /\ MembersAgree

(* A manifest that was just generated passes the workspace check exactly if  *)
(* its inputs agree with each other and with the directories that exist:     *)
(* generator and check, which read the same files in different ways          *)
(* (GenerateManifest, Check), never disagree for another reason.             *)
FreshManifestPasses ==
    CanGenerate(inputs) =>
        (Failed(CheckManifest(inputs, GenerateManifest(inputs, tree), tree)) = {} <=> InputsAgree)

(* Whoever runs the generators that a failed baseline report offers is rid   *)
(* of those findings and gets no check to fail that passed before            *)
(* (remediationForCheck).  Of the skills, even after a run with errors,      *)
(* nothing is left but the errors that the report named; of the servers,     *)
(* where there was an error all stays as it was.  The one exception: a       *)
(* profile may bring in a launcher that the generator lets through           *)
(* (validatePortableLaunch), a go run behind another command or one in the   *)
(* directory ".", and that the baseline, once it is generated, does not      *)
(* (addMCPLauncherPortability).                                            *)
ChecksOf(findings) == {f.check : f \in findings}
CommandsRemedy ==
    \A d \in Dirs : Present(tree, d) =>
        LET c == tree[d]
            before == Failed(ReportOn(d, c))
            after == Failed(ReportOn(d, Remedied(c, Commands(before))))
        IN  /\ ChecksOf(after) \ ChecksOf(before)
                   \subseteq IF FromProfiles(c) /\ Resolves(c) /\ Generated(c) \cap LetThrough # {}
                             THEN {"mcp_portability"} ELSE {}
            /\ {f \in after : f.check = "skill_sync"} \subseteq {f \in before : f.detail = "error"}
            /\ "mcp_sync" \in ChecksOf(after) => McpErrors(c)

(* A repository is a candidate for changes without a human only when it is   *)
(* there and active and, as far as git answers, nothing in it waits for a    *)
(* human: no uncommitted change, no commit to pull, no side branch, and no   *)
(* failing baseline (laneFor).  Where git does not answer, nothing of this   *)
(* is known and the code lets the repository through all the same.           *)
AutonomyIsSafe ==
    \A card \in Cards(TRUE) : card.lane = "full_auto_candidate" =>
        \A j \in DOMAIN manifest : manifest[j].name = card.repo =>
            LET repo == manifest[j] IN
            /\ Present(tree, repo.at) /\ repo.scope \in ActiveScopes
            /\ ModeOf(policy.modes, repo.name) \notin {"passive", "archived"}
            /\ repo.baseline => BaselinePasses(ReportOn(repo.at, tree[repo.at]))
            /\ LET git == tree[repo.at].git IN
               git.ok => git.dirty = 0 /\ git.behind = 0 /\ git.head \in Mainline \cup {"detached"}

(* The verdicts on one checkout agree.  baseline check --all judges every    *)
(* baseline target that is in place, with an overlay that fits the manifest  *)
(* where the overlay puts it; with one that does not, it falls back to a     *)
(* scan of the workspace, in which those that the scan skips are lost.  The   *)
(* source contract, where it looks at generated files and the repository has  *)
(* no check of its own, fails what its skill validator complains of, and says *)
(* of all else what the baseline says, unless the validator of the baseline,  *)
(* always "auto", is the one that complains, or all generated servers are to *)
(* go, which the baseline does not see; its two halves, skills and tools,     *)
(* pass exactly when the whole does; and the fleet audit passes what the     *)
(* baseline passes, except where there is no skill surface, which the one     *)
(* takes for an error and the other does not.                               *)
Judged(d, c) == {"skill_sync", "mcp_sync"} \cap ChecksOf(Failed(ReportOn(d, c)))
Complains(c, mode) == NoValidator(mode) \/ \E s \in c.listed : Rejects(c, s, mode)
TargetsJudged(overlay) ==
    LET fits == OverlayFits(manifest, overlay)
        repos == IF fits THEN ApplyOverlay(manifest, overlay) ELSE manifest
    IN  \A j \in DOMAIN repos :
            /\ repos[j].baseline /\ Present(tree, repos[j].at) /\ tree[repos[j].at].cloned
            /\ fits \/ repos[j].at \notin Linked \cup NotScanned
            => repos[j].at \in BaselineTargets(manifest, overlay, tree)
ContractAgrees(mode, overlay) ==
    LET o == SkipInventory(mode)
        kept == KeptOf(o, ApplyOverlay(manifest, overlay), tree)
    IN  \A d \in DOMAIN kept :
            LET c == tree[d] IN
            /\ LooksAtSkills(c, o) /\ LooksAtMcp(c, o)
            /\ c.localSkills = "none" /\ c.localMcp = "none"
            => /\ Complains(c, mode) => ~kept[d]
               /\ Complains(c, "auto") => Judged(d, c) # {}
               /\ ~Complains(c, mode) /\ ~Complains(c, "auto")
                      => kept[d] = (Judged(d, c) = {} /\ McpReport(c) # "leftover")
Passing(o, overlay) ==
    /\ ContractRuns(o, inputs, overlay, policy.global, manifest, tree)
    /\ ContractPasses(ContractReport(o, day, inputs, overlay, policy.global, manifest, tree))
HalvesMakeWhole(mode, overlay) ==
    Passing(Everything(mode), overlay) = (Passing(SkillsOnly(mode), overlay) /\ Passing(ToolsOnly(mode), overlay))
VerdictsAgree ==
    /\ manifest # Absent => \A overlay \in Overlays :
           /\ TargetsJudged(overlay)
           /\ \A mode \in Modes :
                 /\ OverlayFits(manifest, overlay) => ContractAgrees(mode, overlay)
                 /\ HalvesMakeWhole(mode, overlay)
    /\ LET fleet == FleetReport(tree, policy, day) IN
       \A d \in DOMAIN fleet :
           fleet[d] = (BaselinePasses(ReportOn(d, tree[d])) /\ Exists(tree[d], SurfaceFile))

(* Where the audit recommends to migrate the shell code of a repository, the *)
(* cycle names a file of that repository to start with, unless so many shell *)
(* files are in it that its report does not keep them all (two lists of      *)
(* roles, in addShellFile and isMigratableShellRole, and a cut between).     *)
CandidateUnlessCrowded ==
    \A all \in BOOLEAN :
        LET audit == AuditNow(all)
            advice == Recommendations(audit, tree, {card.lane : card \in Cards(all)}, day)
        IN  \A i \in DOMAIN advice : advice[i].area = "shell_migration" =>
                \A k \in DOMAIN audit : audit[k].name = advice[i].repo =>
                    \/ Cardinality(DOMAIN tree[audit[k].at].shell) > KeptShellFiles
                    \/ ShellCandidate(audit, tree).repo = advice[i].repo

(* When the check of an artifact passes, whoever reads either of its files   *)
(* sees what the workspace offers now, and both are of one build: no run     *)
(* that stopped between or in the middle of its writes, and no change after,  *)
(* gets past it.  Inventory and projection show the same servers, no more    *)
(* and no less, each launched as its source says.  A report of the source    *)
(* contract that passes as saved has both of them in it as they are on disk, *)
(* and they are true.  Where the surface index says that the contract        *)
(* passes, both are true as well.  What index or report show as kept, no     *)
(* baseline finds fault with, unless they were made with another validator   *)
(* mode than "auto" and the baseline's validator complains: the index is     *)
(* made with "off" by default.  A primitive index passes only while every    *)
(* source of servers can be read, so that the others can be built, and every *)
(* baseline target has settings that parse, unless it is there for          *)
(* reference; but there are directories that the index does not walk into,   *)
(* although the others look for servers in them (the Check functions of the  *)
(* artifacts and CheckArtifact).                                           *)
SourceLaunch(e) ==
    IF e.repo = RootName THEN ServerNamed(inputs.root, e.from).launch
    ELSE ServerNamed(tree[FirstOf(manifest, e.repo).at].servers, e.from).launch
ReaderSees(kind) ==
    LET json == docs[CheckedJson(kind)]
        page == docs[CheckedPage(kind)]
        rules == RulesOf(policy.global)
        offered == {<<o[1], o[2].name>> : o \in
                       {o \in Offered(tree) : WhySkipped(rules, manifest, o[1], o[2]) = <<>>}}
        shown(servers) == {<<s.repo, s.server>> : s \in {s \in servers : s.repo # RootName}}
    IN  /\ {CheckedJson(kind), CheckedPage(kind)} \subseteq DOMAIN docs
        /\ Torn \notin {json, page}
        /\ json.stamp = page.stamp
        /\ shown(json.body.servers) = offered
        /\ shown(page.body.servers) = offered
        /\ \A e \in json.body.entries :
               e.type # "profile" => e.launch = SourceLaunch(e)
Unfaulted(d, c, mode) == Judged(d, c) = {} \/ (mode # "auto" /\ Complains(c, "auto"))
ContractSeen(name) ==
    LET saved == docs[File("contract", name, "json")].body IN
    /\ \A kind \in DOMAIN saved.rebuilt : ReaderSees(kind) /\ saved.rebuilt[kind] = docs[CheckedJson(kind)]
    /\ \A d \in DOMAIN saved.report.kept :
           saved.would[d].skills # {} /\ saved.would[d].mcp # {}
               => Unfaulted(d, tree[d], saved.report.options.validator)
SurfacesSeen ==
    LET json == docs[CheckedJson("surface")]
        page == docs[CheckedPage("surface")]
    IN  /\ Torn \notin {json, page} /\ json.stamp = page.stamp
        /\ json.body.passed = page.body.passed /\ json.body.validator = page.body.validator
        /\ json.body.passed => \A kind \in Kinds : ReaderSees(kind)
        /\ \A i \in DOMAIN json.body.rows :
               LET row == json.body.rows[i]
                   c == tree[row.entry.at]
               IN  /\ page.body.rows[i].repo = row.entry.name
                   /\ row.contract.status = "pass" /\ c.localSkills = "none" /\ c.localMcp = "none"
                          /\ LooksAtSkills(c, Everything("off")) /\ LooksAtMcp(c, Everything("off"))
                      => Unfaulted(row.entry.at, c, json.body.validator)
PrimitivesSeen ==
    LET json == docs[CheckedJson("primitives")]
        page == docs[CheckedPage("primitives")]
    IN  /\ Torn \notin {json, page} /\ json.stamp = page.stamp
        /\ Broken # inputs.root /\ \A d \in McpDirs(tree) \ NotWalked : Parses(tree[d], ".mcp.json")
        /\ \A j \in DOMAIN manifest :
               LET d == manifest[j].at IN
               manifest[j].baseline /\ d \in Walked(tree)
               /\ manifest[j].scope \notin {"compatibility_only", "upstream_or_reference"}
                  => Finding("claude_settings_json", SettingsFile, FALSE) \notin ReportOn(d, tree[d])
DriftIsSeen ==
    /\ \A kind \in Kinds :
          ArtifactsPass(kind, day, inputs, policy.global, manifest, tree) => ReaderSees(kind)
    /\ \A name \in NamesOf("contract", "json"), o \in Options, overlay \in Overlays :
          SavedContractPasses(name, o, day, inputs, overlay, policy.global, manifest, tree) => ContractSeen(name)
    /\ \A mode \in Modes :
          SurfaceIndexPasses(mode, day, inputs, policy.global, manifest, tree) => SurfacesSeen
    /\ \A overlay \in Overlays :
          PrimitiveIndexPasses(day, overlay, inputs, manifest, tree) => PrimitivesSeen
=============================================================================
