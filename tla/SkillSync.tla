------------------------------ MODULE SkillSync ------------------------------
(***************************************************************************)
(* One invocation of skillsync.run at a time (skillsync/sync.go): the      *)
(* canonical skills under .agents/skills are projected into two mirror     *)
(* roots, .claude/skills and plugins/<root>/skills.  The run is a sequence *)
(* of file-system steps, where the Lstats of one look at a target are one  *)
(* step; the sources, the surface manifest and the mirror tree may be      *)
(* edited between any two of them, a step may fail, and the process may    *)
(* die.                                                                    *)
(*                                                                         *)
(* Rendering is abstracted to what identifies its result: the skill, the   *)
(* role of the copy and the source text it was made from.  A canonical     *)
(* skill directory without its SKILL.md is taken for no directory.         *)
(***************************************************************************)
EXTENDS Naturals, Sequences, FiniteSets

CONSTANTS
    Names,      \* skill and alias directory names
    Normalized, \* [Names -> Names]: normalizedSkillName, underscores to hyphens
    Texts,      \* texts a canonical SKILL.md may hold
    Portable,   \* the texts that pass frontmatter, validator, parse and name checks
    AsSource,   \* [Rendering -> Texts]: the text of a rendering, read as a SKILL.md
    Surfaces,   \* the surface manifests that surface.yaml may hold
    Linkable,   \* the roots that may be, or become, a symlink to .agents/skills
    Trees,      \* the mirror trees a run may find, see Tree
    MaxEvents,  \* bound on edits, faults and crashes in one behaviour
    MaxSwaps    \* bound on the swaps of one mirror's path; the first is an event

Roots == {"claude", "plugin"}
Dests == Roots \X Names
Roles == {"mirror", "alias", "plugin"}

Absent == "absent"
SkillEntry ==
    [name: Names, include: BOOLEAN, aliases: Seq(Names), plugin: BOOLEAN]
Surface == [ok: BOOLEAN, skills: Seq(SkillEntry), managed: SUBSET Roots]

\* What stands at <root>/<name>/SKILL.md: nothing, a leaf symlink, a directory
\* (for all that is no file), a file somebody else wrote, half a file, or a
\* rendering.
None    == <<"none">>
Link    == <<"link">>
Odd     == <<"odd">>
Foreign == <<"foreign">>
Torn    == <<"torn">>
Rendering == {"file"} \X Names \X Roles \X Texts
Leaf == {None, Link, Odd, Foreign, Torn} \cup Rendering
Output == [dest: Dests, of: Names, as: Roles]

\* A root is a directory (or not made yet) or a symlink to .agents/skills; the
\* directory of a mirror may be a symlink to the canonical skill directory.
Tree == [base: [Roots -> {"dir", "link"}],
         dir: [Dests -> {"absent", "dir", "link"}],
         leaf: [Dests -> Leaf]]

ASSUME NamesAssumption == Normalized \in [Names -> Names]
ASSUME TextsAssumption == Portable \subseteq Texts /\ Absent \notin Texts
ASSUME AsSourceAssumption == AsSource \in [Rendering -> Texts]
ASSUME SurfacesAssumption == Surfaces \subseteq Surface
ASSUME LinkableAssumption == Linkable \subseteq Roots
ASSUME TreesAssumption ==
    Trees \subseteq Tree /\ \A t \in Trees : \A d \in Dests : t.leaf[d] # Torn
ASSUME MaxEventsAssumption == MaxEvents \in Nat /\ MaxSwaps \in Nat

VARIABLES
    surface,   \* .agents/skills/surface.yaml
    canonical, \* canonical[n]: the text of .agents/skills/n/SKILL.md, or Absent
    tree,      \* the two mirror roots
    pc, mode,  \* the run's place in the code and its syncMode
    plan,      \* the surface this run parsed
    todo,      \* plan's skills still to project, the current one first
    outs,      \* outputs of the current skill still to sync
    seen,      \* seen[n]: the text this run read for skill n, or Absent
    expected,  \* claudeDirs and pluginDirs: destinations registered so far
    tmp,       \* contents of the open .skill-projection-* file, or None
    astray,    \* it lies in the canonical directory, created through a link
    swaps,     \* history: how often the path of the mirror being written became a
               \* link or ceased to be one since it was checked
    roots,     \* roots still to purge, the current one first
    victims,   \* destinations the current purge still has to remove
    failed,    \* report.Errors is not empty
    pending,   \* report.PendingChanges
    litter,    \* places where a temporary file was left behind, see Place
    steady,    \* history: nothing was edited since this run began
    events     \* edits, faults and crashes so far

sources == <<surface, canonical>>
temp == <<tmp, astray, swaps>>
progress == <<pc, todo, outs, seen, expected, temp, roots, victims>>
report == <<failed, pending>>
fixed == <<mode, plan>>
vars == <<sources, tree, progress, report, fixed, litter, steady, events>>

-----------------------------------------------------------------------------
(* The surface manifest.                                                   *)

\* Explicit aliases, and the hyphenated one unless it is already listed.
AllAliases(s) ==
    LET hyphenated == Normalized[s.name]
    IN IF \/ hyphenated = s.name
          \/ \E i \in DOMAIN s.aliases : s.aliases[i] = hyphenated
       THEN s.aliases
       ELSE Append(s.aliases, hyphenated)

\* What one skill projects to, in the order the run writes it.
Outputs(s) ==
    LET aliases == AllAliases(s)
        Out(root, name, role) ==
            [dest |-> <<root, name>>, of |-> s.name, as |-> role]
    IN (IF s.include THEN <<Out("claude", s.name, "mirror")>> ELSE <<>>)
       \o [i \in DOMAIN aliases |-> Out("claude", aliases[i], "alias")]
       \o (IF s.plugin THEN <<Out("plugin", s.name, "plugin")>> ELSE <<>>)

OutputSet(s) == {Outputs(s)[i] : i \in DOMAIN Outputs(s)}

\* Mutant: the hyphenated alias is forgotten.
ListedTargets(s) ==
    {d \in Dests : \/ d = <<"claude", s.name>> /\ s.include
                   \/ d[1] = "claude" /\ \E i \in DOMAIN s.aliases : s.aliases[i] = d[2]
                   \/ d = <<"plugin", s.name>> /\ s.plugin}

\* The targets of a skill that the run checks before it writes any.
TargetsOf(s) ==
    {d \in Dests : \/ d = <<"claude", s.name>> /\ s.include
                   \/ d[1] = "claude" /\ \E i \in DOMAIN s.aliases : s.aliases[i] = d[2]
                   \/ d = <<"claude", Normalized[s.name]>> /\ d[2] # s.name
                   \/ d = <<"plugin", s.name>> /\ s.plugin}

Targets(sf) == UNION {TargetsOf(sf.skills[i]) : i \in DOMAIN sf.skills}

Rendered(o, text) == <<"file", o.of, o.as, text>>

-----------------------------------------------------------------------------
(* The file system.                                                        *)

Linked(d) == tree.base[d[1]] = "link" \/ tree.dir[d] = "link"

\* validateProjectionTarget: every parent a real directory, the leaf a regular
\* file, a symlink or absent.
Valid(d) == ~Linked(d) /\ tree.leaf[d] # Odd

\* The names os.ReadDir reports as directories: through a linked root those of
\* the canonical skills, and never the entries that are links themselves.
Listing(root) ==
    IF tree.base[root] = "link"
    THEN {n \in Names : canonical[n] # Absent}
    ELSE {n \in Names : tree.dir[<<root, n>>] = "dir"}

-----------------------------------------------------------------------------
(* The run.                                                                *)

Start ==
    /\ pc = "idle" /\ todo = <<>> /\ outs = <<>>
    /\ seen = [n \in Names |-> Absent]
    /\ expected = {} /\ roots = <<>> /\ victims = {}
    /\ tmp = None /\ astray = FALSE /\ swaps = 0

Init ==
    /\ surface \in Surfaces
    /\ canonical \in [Names -> Texts \cup {Absent}]
    /\ tree \in Trees
    /\ Start
    /\ mode = "check" /\ plan = surface
    /\ failed = FALSE /\ pending = FALSE
    /\ litter = {} /\ steady = TRUE /\ events = 0

\* ParseSurface finds JSON or simple YAML of a supported version.
Parses(sf) == sf.ok

\* A manifest that does not parse ends the run with an error.  A dry run does
\* what a check does.
Begin(m) ==
    /\ pc = "idle"
    /\ mode' = m /\ plan' = surface /\ pending' = FALSE /\ steady' = TRUE
    /\ failed' = ~Parses(surface)
    /\ IF Parses(surface)
       THEN pc' = "validate" /\ todo' = surface.skills
       ELSE pc' = "done" /\ UNCHANGED todo
    /\ UNCHANGED <<sources, tree, outs, seen, expected, temp, roots, victims,
                   litter, events>>

\* Every target is checked before anything is written: one invalid target ends
\* the run.
Validate ==
    /\ pc = "validate"
    /\ failed' = \E d \in Targets(plan) : ~Valid(d)
    /\ pc' = IF failed' THEN "done" ELSE "skill"
    /\ UNCHANGED <<sources, tree, todo, outs, seen, expected, temp, roots, victims,
                   pending, fixed, litter, steady, events>>

\* resolveSkillsValidator fails: an error is recorded and the run goes on.
ValidatorMissing ==
    /\ pc = "skill" /\ todo = plan.skills /\ ~failed /\ events < MaxEvents
    /\ failed' = TRUE /\ events' = events + 1
    /\ UNCHANGED <<sources, tree, progress, pending, fixed, litter, steady>>

\* Mutant: the loop does not leave its skill.
SameSkills == todo

\* The skills after the current one.
OtherSkills == Tail(todo)

\* The skill's file exists, and its frontmatter and name pass every check.
IsPortable(n) == canonical[n] \in Portable

\* A skill that is missing or not portable is an error, and is skipped.
ReadSkill ==
    /\ pc = "skill" /\ todo # <<>>
    /\ LET s == Head(todo)
       IN IF IsPortable(s.name)
          THEN /\ seen' = [seen EXCEPT ![s.name] = canonical[s.name]]
               /\ outs' = Outputs(s) /\ pc' = "output"
               /\ UNCHANGED <<todo, failed>>
          ELSE /\ failed' = TRUE /\ todo' = OtherSkills
               /\ UNCHANGED <<seen, outs, pc>>
    /\ UNCHANGED <<sources, tree, expected, temp, roots, victims, pending, fixed,
                   litter, steady, events>>

\* Every output of the current skill is done.
NextSkill ==
    /\ pc = "output" /\ outs = <<>>
    /\ todo' = OtherSkills /\ pc' = "skill"
    /\ UNCHANGED <<sources, tree, outs, seen, expected, temp, roots, victims, report,
                   fixed, litter, steady, events>>

\* Mutant: the source's text is copied as it is.
CopiedContent(o) == seen[o.of]

\* What belongs at an output's destination.
Content(o) == Rendered(o, seen[o.of])

\* Mutant: a file that exists counts as current.
IsCurrentIfPresent(o) == tree.leaf[o.dest] \notin {None, Link}

\* A leaf symlink is never current, even when what it points to is.
IsCurrent(o) == tree.leaf[o.dest] = Content(o)

\* registerDir and the first half of syncContent: an output registered twice
\* or no longer valid is an error, a current one is left alone, any other is
\* pending and, in write mode, written.
SyncContent ==
    /\ pc = "output" /\ outs # <<>>
    /\ LET o == Head(outs)
           accepted == o.dest \notin expected /\ Valid(o.dest)
       IN /\ expected' = expected \cup {o.dest}
          /\ failed' = (failed \/ ~accepted)
          /\ pending' = (pending \/ (accepted /\ ~IsCurrent(o)))
          /\ IF accepted /\ ~IsCurrent(o) /\ mode = "write"
             THEN pc' = "mkdir" /\ UNCHANGED outs
             ELSE outs' = Tail(outs) /\ UNCHANGED pc
    /\ UNCHANGED <<sources, tree, todo, seen, temp, roots, victims, fixed, litter,
                   steady, events>>

\* Where the open temporary file is: in the mirror's directory, or in the
\* canonical directory of that name.
Place == LET d == Head(outs).dest IN IF astray THEN <<"source", d[2]>> ELSE d

\* Its name leads to it as long as the mirror's path leads where it led when the
\* file was created.
Reachable == tmp # None /\ (astray <=> Linked(Head(outs).dest))

\* The run goes on with the next output of the skill.
NextOutput ==
    /\ outs' = Tail(outs) /\ pc' = "output"
    /\ tmp' = None /\ astray' = FALSE /\ swaps' = 0

\* An error is recorded, and the deferred Remove takes the temporary file away
\* if its name still leads to it.
Abandon ==
    /\ NextOutput /\ failed' = TRUE
    /\ litter' = IF tmp # None /\ ~Reachable THEN litter \cup {Place} ELSE litter

\* os.MkdirAll makes the mirror's directory.
MakeDir ==
    /\ pc = "mkdir" /\ pc' = "check"
    /\ LET d == Head(outs).dest
       IN tree' = IF tree.base[d[1]] = "dir" /\ tree.dir[d] = "absent"
                  THEN [tree EXCEPT !.dir[d] = "dir"] ELSE tree
    /\ UNCHANGED <<sources, todo, outs, seen, expected, temp, roots, victims, report,
                   fixed, litter, steady, events>>

\* writeProjectionAtomic looks at its target before it creates anything.
CheckTarget ==
    /\ pc = "check"
    /\ IF Valid(Head(outs).dest)
       THEN pc' = "create" /\ UNCHANGED <<outs, temp, failed, litter>>
       ELSE Abandon
    /\ UNCHANGED <<sources, tree, todo, seen, expected, roots, victims, pending, fixed,
                   steady, events>>

\* There is a directory where the path of d leads.
Leads(d) == IF Linked(d) THEN canonical[d[2]] # Absent ELSE tree.dir[d] = "dir"

\* os.CreateTemp makes an empty file where the mirror's path leads by now.
CreateTemp ==
    /\ pc = "create"
    /\ LET d == Head(outs).dest
       IN IF Leads(d)
          THEN /\ tmp' = Torn /\ astray' = Linked(d) /\ pc' = "fill"
               /\ UNCHANGED <<outs, swaps, failed, litter>>
          ELSE Abandon
    /\ UNCHANGED <<sources, tree, todo, seen, expected, roots, victims, pending, fixed,
                   steady, events>>

\* Mutant: the temporary file is renamed before its text is in it.
FilledLate == tmp

\* What Write, Chmod, Sync and Close leave in the temporary file; it is gone if
\* its directory was taken away.
Filled == IF tmp = None THEN None ELSE Content(Head(outs))

WriteTemp ==
    /\ pc = "fill"
    /\ tmp' = Filled /\ pc' = "recheck" /\ UNCHANGED <<astray, swaps>>
    /\ UNCHANGED <<sources, tree, todo, outs, seen, expected, roots, victims, report,
                   fixed, litter, steady, events>>

\* Mutant: the file is opened and overwritten in place, through a leaf symlink.
InstallInPlace(d) ==
    IF Linked(d) \/ tree.leaf[d] = Link
    THEN canonical' = [canonical EXCEPT ![d[2]] = AsSource[tmp]] /\ UNCHANGED tree
    ELSE tree' = [tree EXCEPT !.leaf[d] = tmp] /\ UNCHANGED canonical

\* os.Rename over destination d: a leaf symlink is itself replaced, a linked
\* parent leads to the canonical file.
Install(d) ==
    IF Linked(d)
    THEN canonical' = [canonical EXCEPT ![d[2]] = AsSource[tmp]] /\ UNCHANGED tree
    ELSE tree' = [tree EXCEPT !.leaf[d] = tmp] /\ UNCHANGED canonical

\* The target is checked once more before the rename.
Recheck ==
    /\ pc = "recheck"
    /\ IF Valid(Head(outs).dest)
       THEN pc' = "rename" /\ UNCHANGED <<outs, temp, failed, litter>>
       ELSE Abandon
    /\ UNCHANGED <<sources, tree, todo, seen, expected, roots, victims, pending, fixed,
                   steady, events>>

\* Renaming fails when the temporary file's name leads to no file or a directory
\* is in the way.  A directory that cannot be synced afterwards is an error too.
Rename ==
    /\ pc = "rename"
    /\ LET d == Head(outs).dest
       IN IF Reachable /\ (Linked(d) \/ tree.leaf[d] # Odd)
          THEN \E synced \in (IF events < MaxEvents THEN BOOLEAN ELSE {TRUE}) :
                /\ Install(d) /\ NextOutput
                /\ failed' = (failed \/ ~synced)
                /\ events' = IF synced THEN events ELSE events + 1
                /\ UNCHANGED litter
          ELSE Abandon /\ UNCHANGED <<canonical, tree, events>>
    /\ UNCHANGED <<surface, todo, seen, expected, roots, victims, pending, fixed, steady>>

\* A step of the write fails: the run goes on with the next output.
WriteFails ==
    /\ pc \in {"mkdir", "check", "create", "fill", "recheck", "rename"}
    /\ events < MaxEvents
    /\ Abandon /\ events' = events + 1
    /\ UNCHANGED <<sources, tree, todo, seen, expected, roots, victims, pending,
                   fixed, steady>>

MayPurge == ~failed

StartPurge ==
    /\ pc = "skill" /\ todo = <<>>
    /\ IF MayPurge THEN pc' = "purge" /\ roots' = <<"claude", "plugin">>
       ELSE pc' = "done" /\ UNCHANGED roots
    /\ UNCHANGED <<sources, tree, todo, outs, seen, expected, temp, victims, report,
                   fixed, litter, steady, events>>

\* Mutant: only skill names are kept.
StaleButSkills(root) ==
    {<<root, n>> : n \in {m \in Listing(root) :
        \A i \in DOMAIN plan.skills : plan.skills[i].name # m}}

\* The directories under a root for which this run registered no output.
Stale(root) == {<<root, n>> : n \in Listing(root)} \ expected

\* purgeSkillDirs: list one root, if it is managed.
ListStale ==
    /\ pc = "purge" /\ victims = {}
    /\ IF roots = <<>>
       THEN pc' = "done" /\ UNCHANGED <<roots, victims, pending>>
       ELSE LET root == Head(roots)
                stale == IF root \in plan.managed THEN Stale(root) ELSE {}
            IN /\ roots' = Tail(roots)
               /\ victims' = IF mode = "write" THEN stale ELSE {}
               /\ pending' = (pending \/ stale # {})
               /\ UNCHANGED pc
    /\ UNCHANGED <<sources, tree, todo, outs, seen, expected, temp, failed, fixed,
                   litter, steady, events>>

\* The root cannot be read: an error, and the purge goes on with the next one.
ListFails ==
    /\ pc = "purge" /\ victims = {} /\ events < MaxEvents
    /\ roots # <<>> /\ Head(roots) \in plan.managed
    /\ roots' = Tail(roots)
    /\ failed' = TRUE /\ events' = events + 1
    /\ UNCHANGED <<sources, tree, pc, todo, outs, seen, expected, temp, victims, pending,
                   fixed, litter, steady>>

\* os.RemoveAll of one listed directory, in any order; through a linked root it
\* takes the canonical skill.  A failure is recorded and the purge goes on.
RemoveStale(d) ==
    /\ pc = "purge" /\ d \in victims
    /\ victims' = victims \ {d}
    /\ \/ /\ IF tree.base[d[1]] = "link"
             THEN /\ canonical' = [canonical EXCEPT ![d[2]] = Absent]
                  /\ litter' = litter \ {<<"source", d[2]>>}
                  /\ UNCHANGED tree
             ELSE /\ tree' = [tree EXCEPT !.dir[d] = "absent", !.leaf[d] = None]
                  /\ litter' = litter \ {d}
                  /\ UNCHANGED canonical
          /\ UNCHANGED <<failed, events>>
       \/ /\ events < MaxEvents /\ events' = events + 1 /\ failed' = TRUE
          /\ UNCHANGED <<canonical, tree, litter>>
    /\ UNCHANGED <<surface, pc, todo, outs, seen, expected, temp, roots, pending,
                   fixed, steady>>

Forget ==
    /\ pc' = "idle" /\ todo' = <<>> /\ outs' = <<>>
    /\ seen' = [n \in Names |-> Absent]
    /\ expected' = {} /\ roots' = <<>> /\ victims' = {}
    /\ tmp' = None /\ astray' = FALSE /\ swaps' = 0

\* The report is returned and the process ends.
Return ==
    /\ pc = "done"
    /\ Forget
    /\ UNCHANGED <<sources, tree, report, fixed, litter, steady, events>>

\* The process dies; its open temporary file stays behind.
Crash ==
    /\ pc \notin {"idle", "done"} /\ events < MaxEvents
    /\ Forget /\ events' = events + 1
    /\ litter' = IF tmp = None THEN litter ELSE litter \cup {Place}
    /\ UNCHANGED <<sources, tree, report, fixed, steady>>

-----------------------------------------------------------------------------
(* People and programs that edit the repository meanwhile.                 *)

Event == events < MaxEvents /\ events' = events + 1

Edited ==
    /\ steady' = FALSE
    /\ UNCHANGED <<pc, todo, outs, seen, expected, astray, roots, victims, report, fixed>>

\* What happens to the temporary files in places that are taken away.
LoseTemps(places) ==
    /\ tmp' = IF tmp # None /\ Place \in places THEN None ELSE tmp
    /\ litter' = litter \ places

\* A canonical SKILL.md is written, or removed with its directory.
EditSkill(n, text) ==
    /\ Edited /\ Event /\ canonical[n] # text
    /\ canonical' = [canonical EXCEPT ![n] = text]
    /\ LoseTemps(IF text = Absent THEN {<<"source", n>>} ELSE {})
    /\ UNCHANGED <<surface, tree, swaps>>

EditSurface(sf) ==
    /\ Edited /\ Event /\ surface # sf
    /\ surface' = sf
    /\ UNCHANGED <<canonical, tree, tmp, swaps, litter>>

\* Once its target was checked, the path of the mirror being written is swapped
\* when it becomes a link or ceases to be one.
Swapping ==
    /\ pc \in {"create", "fill", "recheck", "rename"}
    /\ Linked(Head(outs).dest)' # Linked(Head(outs).dest)

CountSwap ==
    \/ Swapping /\ swaps > 0 /\ swaps < MaxSwaps /\ swaps' = swaps + 1 /\ UNCHANGED events
    \/ Swapping /\ swaps = 0 /\ swaps' = 1 /\ Event
    \/ ~Swapping /\ UNCHANGED swaps /\ Event

\* A mirror's file is edited, deleted or replaced.
EditMirror(d, leaf) ==
    /\ Edited /\ Event /\ tree.dir[d] = "dir" /\ tree.leaf[d] # leaf
    /\ tree' = [tree EXCEPT !.leaf[d] = leaf]
    /\ UNCHANGED <<sources, tmp, swaps, litter>>

\* A mirror's directory is removed, made anew or replaced by a symlink.
EditMirrorDir(d, dir) ==
    /\ Edited /\ tree.base[d[1]] = "dir" /\ tree.dir[d] # dir
    /\ tree' = [tree EXCEPT !.dir[d] = dir, !.leaf[d] = None]
    /\ CountSwap /\ LoseTemps({d})
    /\ UNCHANGED sources

\* A root becomes a symlink to .agents/skills.
LinkRoot(root) ==
    LET below == {d \in Dests : d[1] = root}
    IN /\ Edited /\ tree.base[root] = "dir"
       /\ tree' = [base |-> [tree.base EXCEPT ![root] = "link"],
                   dir  |-> [d \in Dests |-> IF d \in below THEN "absent" ELSE tree.dir[d]],
                   leaf |-> [d \in Dests |-> IF d \in below THEN None ELSE tree.leaf[d]]]
       /\ CountSwap /\ LoseTemps(below)
       /\ UNCHANGED sources

-----------------------------------------------------------------------------
Modes == {"write", "check"}

RunStep ==
    \/ Validate \/ ValidatorMissing \/ ReadSkill \/ NextSkill \/ SyncContent
    \/ MakeDir \/ CheckTarget \/ CreateTemp \/ WriteTemp \/ Recheck \/ Rename
    \/ WriteFails
    \/ StartPurge \/ ListStale \/ ListFails \/ (\E d \in Dests : RemoveStale(d))
    \/ Return

Edit ==
    \/ \E n \in Names, text \in Texts \cup {Absent} : EditSkill(n, text)
    \/ \E sf \in Surfaces : EditSurface(sf)
    \/ \E d \in Dests, leaf \in {None, Link, Odd, Foreign} : EditMirror(d, leaf)
    \/ \E d \in Dests, dir \in {"absent", "dir", "link"} : EditMirrorDir(d, dir)
    \/ \E root \in Linkable : LinkRoot(root)

Next == (\E m \in Modes : Begin(m)) \/ RunStep \/ Crash \/ Edit

Spec == Init /\ [][Next]_vars

\* A started run is scheduled until it ends; nobody has to start one.
FairSpec == Spec /\ WF_vars(RunStep)

-----------------------------------------------------------------------------
(* Correctness.                                                            *)

TypeOK ==
    /\ surface \in Surfaces /\ plan \in Surfaces
    /\ canonical \in [Names -> Texts \cup {Absent}]
    /\ tree \in Tree
    /\ pc \in {"idle", "validate", "skill", "output", "mkdir", "check", "create",
               "fill", "recheck", "rename", "purge", "done"}
    /\ mode \in Modes
    /\ todo \in Seq(SkillEntry) /\ outs \in Seq(Output)
    /\ seen \in [Names -> Texts \cup {Absent}]
    /\ expected \subseteq Dests /\ victims \subseteq Dests 
    /\ litter \subseteq Dests \cup {"source"} \X Names
    /\ tmp \in Leaf /\ astray \in BOOLEAN /\ swaps \in Nat /\ roots \in Seq(Roots)
    /\ failed \in BOOLEAN /\ pending \in BOOLEAN /\ steady \in BOOLEAN
    /\ events \in 0..MaxEvents

\* The destinations a manifest asks for.
Asked(sf) == {o.dest : o \in UNION {OutputSet(sf.skills[i]) : i \in DOMAIN sf.skills}}

\* No destination is written twice for one manifest.
Unambiguous(sf) ==
    /\ \A i \in DOMAIN sf.skills :
        LET out == Outputs(sf.skills[i])
        IN \A j, k \in DOMAIN out : out[j].dest = out[k].dest => j = k
    /\ \A i, j \in DOMAIN sf.skills :
        \A o \in OutputSet(sf.skills[i]), p \in OutputSet(sf.skills[j]) :
            o.dest = p.dest => i = j

\* Every mirror of sf holds the rendering of its portable source.
InPlace(sf) ==
    \A i \in DOMAIN sf.skills :
        /\ IsPortable(sf.skills[i].name)
        /\ \A o \in OutputSet(sf.skills[i]) :
            tree.leaf[o.dest] = Rendered(o, canonical[o.of])

\* The mirror tree is what the manifest asks for, and the managed roots hold
\* nothing else.
Current(sf) ==
    /\ sf.ok /\ Unambiguous(sf) /\ InPlace(sf)
    /\ \A root \in sf.managed : \A n \in Listing(root) : <<root, n>> \in Asked(sf)

\* A write run that reports no error, in a repository nobody edited meanwhile,
\* leaves the tree current, whatever it found there and after whatever crash.
CleanRunMirrors ==
    pc = "done" /\ mode = "write" /\ ~failed /\ steady => Current(surface)

\* Check reports exactly what a write run would have to do: a report without
\* errors or pending changes means the tree is current, and a current tree has
\* no pending change.
CheckIsExact ==
    pc = "done" /\ mode = "check" /\ steady =>
        /\ ~failed /\ ~pending => Current(surface)
        /\ Current(surface) => ~pending

\* A reader of a mirror never finds half a file, not even after a crash.
NoTornMirror == \A d \in Dests : tree.leaf[d] # Torn

\* The mirror tree changes only in write mode, and only when every target of
\* the manifest passes the check: one invalid target leaves all mirrors alone.
OnlyCheckedPlansWrite ==
    [][RunStep /\ steady /\ tree' # tree =>
        mode = "write" /\ \A d \in Asked(plan) : Valid(d)]_vars

\* A run that nobody disturbs never changes a canonical skill, even when mirrors
\* and roots are links to it.  A disturbed one does so in two cases only: a root
\* is made a link during the purge, or the path of a mirror is made a link after
\* its first check, unmade before the second and made again before the rename.
\* One swap or two, at whatever moments, lose the temporary file instead.
SourcesSpared ==
    [][RunStep /\ canonical' # canonical =>
        ~steady /\ (pc = "purge" \/ swaps >= 3)]_vars

\* A directory is removed only when the manifest does not ask for it and,
\* unless something was edited meanwhile, when every mirror it does ask for is
\* in place.
PurgeComesLast ==
    [][RunStep => \A d \in Dests :
        tree.dir[d] = "dir" /\ tree'.dir[d] # "dir" =>
            d \notin Asked(plan) /\ (steady => InPlace(plan))]_vars

\* A run that was started ends.
EveryRunEnds == pc # "idle" ~> pc = "idle"

=============================================================================
