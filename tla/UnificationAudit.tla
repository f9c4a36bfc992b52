-------------------------- MODULE UnificationAudit --------------------------
(***************************************************************************)
(* The unification audit: what of each repository could be consolidated,    *)
(* how the repositories rank, and what to do first.  Beside the fields of   *)
(* BaselineGuard a checkout has                                            *)
(*   shell      a function from shell files to [traits, lines], traits     *)
(*              being what the classification looks for in name and content *)
(*   hooks      the lines of each hook file                                *)
(*   generated  how many skill mirrors there are                           *)
(*   fastPaths  how many commands a Python table takes over                *)
(*   roadmap    the day its roadmap was last changed, 0 without one        *)
(***************************************************************************)
EXTENDS RepoReadiness

CONSTANTS
    KeptShellFiles,     \* shell files of a repository that a report keeps (12)
    KeptTopRepos        \* repositories that a summary ranks (10)

ASSUME KeptAssumption == KeptShellFiles \in Nat /\ KeptTopRepos \in Nat \ {0}

RoadmapFreshnessDays == 90
SmallWrapperLines == 120

(* The first of these that fits is the role of a shell file.                *)
ShellRole(f) ==
    LET is(trait) == trait \in f.traits IN
    IF is("legacy") THEN "duplicate_implementation"
    ELSE IF is("bootstrap") THEN "os_bootstrap"
    ELSE IF is("test") THEN "test_or_fixture"
    ELSE IF is("operator command") THEN "os_bootstrap"
    ELSE IF is("function library") THEN "structured_parser"
    ELSE IF is("wrapper") /\ f.lines <= SmallWrapperLines THEN "wrapper"
    ELSE IF is("stateful") THEN "stateful_workflow"
    ELSE IF is("parser") THEN "structured_parser"
    ELSE "unknown"
MigratableRoles == {"stateful_workflow", "structured_parser", "duplicate_implementation"}

(* The same roles once more, for the cycle; and a mutant of this second list.*)
RolesToMove == {"stateful_workflow", "structured_parser"}
CandidateRoles == {"stateful_workflow", "structured_parser", "duplicate_implementation"}

ShellFiles(c, roles) == {p \in DOMAIN c.shell : ShellRole(c.shell[p]) \in roles}
Total(numbers) ==
    LET sum[i \in 0..Len(numbers)] == IF i = 0 THEN 0 ELSE sum[i - 1] + numbers[i]
    IN  sum[Len(numbers)]
ShellLines(c, roles) ==
    LET files == InOrder(ShellFiles(c, roles), [p \in DOMAIN c.shell |-> 0])
    IN  Total([i \in 1..Cardinality(ShellFiles(c, roles)) |-> c.shell[files[i]].lines])
MigratableLines(c) == ShellLines(c, MigratableRoles)

(* The files a report keeps, longest first.                                 *)
LargestShellFiles(c) ==
    LET sorted == InOrder(DOMAIN c.shell, [p \in DOMAIN c.shell |-> -c.shell[p].lines])
    IN  SubSeq(sorted, 1, IF Len(sorted) < KeptShellFiles THEN Len(sorted) ELSE KeptShellFiles)

(* A hook of a few lines calls something else and does not count.           *)
HookFiles(c) == {h \in DOMAIN c.hooks : c.hooks[h] > 5}
CanonicalSkills(c) == {s \in DOMAIN c.skills : c.skills[s] # "none"}
SkillDirsWithoutEntry(c) == DOMAIN c.skills \ CanonicalSkills(c)
LacksSurface(c) == CanonicalSkills(c) # {} /\ ~Exists(c, SurfaceFile)
MirrorsWithoutSource(c) == c.generated > 0 /\ CanonicalSkills(c) = {}
Stale(c, day) == c.roadmap # 0 /\ day - c.roadmap > RoadmapFreshnessDays

(* What is found in a repository: [severity, category]; failed is how many  *)
(* baseline checks fail.                                                    *)
Note(severity, category) == {[severity |-> severity, category |-> category]}
RepoFindings(c, failed, day) ==
    When(MigratableLines(c) > 0, Note(IF MigratableLines(c) >= 300 THEN "high" ELSE "medium", "shell_migration"))
    \cup When(HookFiles(c) # {}, Note("medium", "hook_surface"))
    \cup When(LacksSurface(c), Note("high", "skill_surface"))
    \cup When(SkillDirsWithoutEntry(c) # {}, Note("high", "skill_source"))
    \cup When(MirrorsWithoutSource(c), Note("medium", "generated_surface"))
    \cup When(c.fastPaths > 0, Note("low", "python_fast_path"))
    \cup When(Stale(c, day), Note("low", "roadmap_freshness"))
    \cup When(failed > 0, Note("high", "baseline_contract"))
    \cup When(ShellLines(c, {"os_bootstrap"}) > 250, Note("low", "bootstrap_boundary"))

PriorityOf(c, failed) ==
    18 * Cardinality(ShellFiles(c, {"stateful_workflow"}))
    + 12 * Cardinality(ShellFiles(c, {"structured_parser"}))
    + MigratableLines(c) \div 20
    + 8 * Cardinality(HookFiles(c))
    + (IF LacksSurface(c) THEN 24 ELSE 0)
    + 20 * Cardinality(SkillDirsWithoutEntry(c))
    + (IF MirrorsWithoutSource(c) THEN 10 ELSE 0)
    + (IF failed > 0 THEN 30 + failed ELSE 0)

(* The repositories of an audit: those of the manifest that are in scope    *)
(* and have a directory, or without a manifest the git directories.         *)
Selected(manifest, tree, all) ==
    IF manifest = Absent
    THEN {[name |-> d, at |-> d, baseline |-> FALSE] : d \in Live(tree)}
    ELSE {[name |-> manifest[j].name, at |-> manifest[j].at, baseline |-> manifest[j].baseline] :
             j \in {j \in DOMAIN manifest : InScope(manifest[j], all) /\ Present(tree, manifest[j].at)}}

AuditRepo(repo, tree, policy, day) ==
    LET c == tree[repo.at]
        failed == IF repo.baseline THEN Cardinality(Failed(BaselineReport(repo.at, c, policy, day))) ELSE 0
    IN  [name |-> repo.name, at |-> repo.at, failed |-> failed,
         findings |-> RepoFindings(c, failed, day), score |-> PriorityOf(c, failed)]

(* An audit, in the order of its report: the highest score first.           *)
Audit(manifest, tree, all, policy, day) ==
    LET audited == {AuditRepo(r, tree, policy, day) : r \in Selected(manifest, tree, all)}
    IN  InOrder(audited, [a \in audited |-> -a.score])

TopRepos(audit) ==
    LET scoring == Pick(audit, {i \in DOMAIN audit : audit[i].score > 0})
    IN  SubSeq(scoring, 1, IF Len(scoring) < KeptTopRepos THEN Len(scoring) ELSE KeptTopRepos)

(* The baseline queue: the repositories that fail.  Its order (most failures *)
(* first) is layout.                                                       *)
BaselineQueue(audit) == {audit[i].name : i \in {i \in DOMAIN audit : audit[i].failed > 0}}

-----------------------------------------------------------------------------
(* What the audit recommends, most urgent first: [severity, area, repo].    *)
(* lanes are those of the scorecard, outside the roadmaps of directories    *)
(* that the audit did not select.                                           *)
Advice(condition, severity, area, repo) ==
    IF condition THEN <<[severity |-> severity, area |-> area, repo |-> repo]>> ELSE <<>>

Recommendations(audit, tree, lanes, day) ==
    LET top == TopRepos(audit)
        checkouts == {tree[audit[i].at] : i \in DOMAIN audit}
        scanned == {audit[i].at : i \in DOMAIN audit}
        unscanned == {d \in Dirs \ (Linked \cup scanned) : Present(tree, d) /\ tree[d].roadmap # 0}
    IN  Advice(top # <<>> /\ MigratableLines(tree[top[1].at]) > 0, "high", "shell_migration", top[1].name)
        \o Advice(\E c \in checkouts : HookFiles(c) # {}, "medium", "hook_surface", "")
        \o Advice(\E c \in checkouts : LacksSurface(c) \/ SkillDirsWithoutEntry(c) # {}, "high", "skill_contract", "")
        \o Advice(\E c \in checkouts : MirrorsWithoutSource(c), "medium", "generated_surface", "")
        \o Advice(BaselineQueue(audit) # {}, "high", "baseline_contract", "")
        \o Advice("cleanup_first" \in lanes, "high", "mutation_readiness", "")
        \o Advice(unscanned # {} \/ \E c \in checkouts : c.roadmap = 0 \/ Stale(c, day), "low", "roadmap_coverage", "")
        \o Advice(\A c \in checkouts : MigratableLines(c) = 0 /\ HookFiles(c) = {} /\ ~LacksSurface(c),
                  "low", "maintenance", "")

(* The file to migrate next: of the first repository with migratable lines  *)
(* and such a file among those kept.                                        *)
ShellCandidate(audit, tree) ==
    LET kept(r) == LargestShellFiles(tree[r.at])
        fitting(r) == {i \in DOMAIN kept(r) : ShellRole(tree[r.at].shell[kept(r)[i]]) \in CandidateRoles}
        repos == Pick(audit, {k \in DOMAIN audit : MigratableLines(tree[audit[k].at]) > 0 /\ fitting(audit[k]) # {}})
    IN  IF repos = <<>> THEN [repo |-> "", file |-> ""]
        ELSE [repo |-> repos[1].name, file |-> Pick(kept(repos[1]), fitting(repos[1]))[1]]
=============================================================================
