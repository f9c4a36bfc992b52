--------------------------- MODULE RepoReadiness ----------------------------
(***************************************************************************)
(* How ready a repository is for changes without a human (reporeadiness):   *)
(* a score from signals, blockers, and from both a lane.  The state of the  *)
(* work tree comes from git status: git is [ok, head, dirty, ahead, behind], *)
(* ok being whether git answered, and head the branch, or "detached", or    *)
(* "unborn" before the first commit.                                        *)
(***************************************************************************)
EXTENDS WorkspaceManifest

ActiveScopes == {"active_operator", "active_first_party"}
Mainline == {"main", "master", "trunk"}

(* The first word of git's branch line: a detached head has no name, and of *)
(* "No commits yet on main" the first word is taken for the branch.         *)
NoBranch == "no branch"
BranchName(head) == IF head = "detached" THEN NoBranch ELSE IF head = "unborn" THEN "No" ELSE head
OffMainline(git) == BranchName(git.head) \notin Mainline \cup {NoBranch}

Points(table, key, otherwise) == IF key \in DOMAIN table THEN table[key] ELSE otherwise
ScopePoints(scope) == Points([active_operator |-> 15, active_first_party |-> 12, compatibility_only |-> -28], scope, -16)
CategoryPoints(category) == Points([x \in {"hub", "org-platform"} |-> 10], category,
                                   Points([application |-> 7, emerging |-> 3], category, 0))
LifecyclePoints(lifecycle) ==
    Points([x \in {"active"} |-> 10], lifecycle,
    Points([x \in {"never-publish"} |-> -10], lifecycle,
    Points([x \in {"maintenance-only"} |-> -12], lifecycle,
    Points([x \in {"archived", "deprecated"} |-> -2], lifecycle, -4))))
ModePoints(mode) == Points([x \in {"passive", "archived"} |-> -30], mode,
                           IF mode = "active" THEN 8 ELSE IF mode = "unset" THEN 0 ELSE -8)
DirtyPoints(dirty) == IF dirty = 0 THEN 12 ELSE IF dirty <= 5 THEN -6 ELSE IF dirty <= 20 THEN -14 ELSE -24
GitPoints(git) ==
    IF ~git.ok THEN -25
    ELSE DirtyPoints(git.dirty) + (IF git.behind > 0 THEN -10 ELSE 0) + (IF git.ahead > 0 THEN -4 ELSE 0)
         + (IF OffMainline(git) THEN -8 ELSE 0)
BaselinePoints(repo, report) ==
    IF ~repo.baseline THEN -2
    ELSE IF BaselinePasses(report) THEN 15 ELSE -25 - Cardinality(Failed(report))

Clamp(value, low, high) == IF value < low THEN low ELSE IF value > high THEN high ELSE value

(* The blockers; only some of them are looked at when a lane is chosen.     *)
PolicyBlockers(repo, mode) ==
    When(repo.scope = "compatibility_only", {"compatibility-only scope"})
    \cup When(repo.scope \notin ActiveScopes \cup {"compatibility_only"}, {"non-active scope"})
    \cup When(repo.lifecycle = "never-publish", {"never-publish requires human approval"})
    \cup When(repo.lifecycle = "maintenance-only", {"maintenance-only lifecycle"})
    \cup When(mode \in {"passive", "archived"}, {"fleet mode"})
(* A mutant: a work tree with few changes does not block.                   *)
GitBlockersIfLarge(git) ==
    IF ~git.ok THEN {"git status unavailable"}
    ELSE When(git.dirty > 20, {"large dirty worktree"})
         \cup When(git.behind > 0, {"behind upstream"})
         \cup When(OffMainline(git), {"non-main branch"})

GitBlockers(git) ==
    IF ~git.ok THEN {"git status unavailable"}
    ELSE When(git.dirty > 0, {IF git.dirty > 20 THEN "large dirty worktree" ELSE "dirty worktree"})
         \cup When(git.behind > 0, {"behind upstream"})
         \cup When(git.ahead > 0, {"unpushed commits"})
         \cup When(OffMainline(git), {"non-main branch"})

(* A mode that only starts like a skipping one keeps a repository in review, *)
(* too, without blocking it; no such mode is modelled.                      *)
ReviewBlockers == {"missing repo directory", "compatibility-only scope", "non-active scope", "fleet mode"}
CleanupBlockers == {"dirty worktree", "large dirty worktree", "behind upstream", "baseline failing", "non-main branch"}
LaneFor(blockers, score) ==
    IF blockers \cap ReviewBlockers # {} THEN "review_only"
    ELSE IF blockers \cap CleanupBlockers # {} THEN "cleanup_first"
    ELSE IF "never-publish requires human approval" \in blockers \/ score < 80 THEN "human_approved_only"
    ELSE "full_auto_candidate"

(* The score of one repository of the manifest.  When its directory is      *)
(* missing neither git nor the baseline is asked.                           *)
ScoreRepo(repo, tree, mode, policy, day) ==
    LET policyPoints == 50 + ScopePoints(repo.scope) + CategoryPoints(repo.category)
                        + LifecyclePoints(repo.lifecycle) + ModePoints(mode)
        policyBlockers == PolicyBlockers(repo, mode)
    IN  IF ~Present(tree, repo.at)
        THEN [repo |-> repo.name, lane |-> "review_only", score |-> Clamp(policyPoints - 60, 0, 100),
              blockers |-> policyBlockers \cup {"missing repo directory"}, failing |-> FALSE]
        ELSE LET c == tree[repo.at]
                 report == BaselineReport(repo.at, c, policy, day)
                 failing == repo.baseline /\ ~BaselinePasses(report)
                 score == Clamp(policyPoints + GitPoints(c.git) + BaselinePoints(repo, report), 0, 100)
                 blockers == policyBlockers \cup GitBlockers(c.git) \cup When(failing, {"baseline failing"})
             IN  [repo |-> repo.name, lane |-> LaneFor(blockers, score), score |-> score,
                  blockers |-> blockers, failing |-> failing]

(* The scorecard: all repositories of the manifest, or the active ones.     *)
InScope(repo, all) == all \/ repo.scope \in ActiveScopes
ModeOf(modes, name) == Points(modes, name, "unset")
Scorecard(manifest, tree, modes, all, policy, day) ==
    {ScoreRepo(manifest[j], tree, ModeOf(modes, manifest[j].name), policy, day) :
        j \in {j \in DOMAIN manifest : InScope(manifest[j], all)}}
=============================================================================
