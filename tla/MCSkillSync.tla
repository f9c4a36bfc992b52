----------------------------- MODULE MCSkillSync -----------------------------
(* Small instances of SkillSync: two skills, one of them with an underscore   *)
(* in its name, manifests that differ in one respect each, and trees a run    *)
(* may find after earlier runs and hand edits.                                *)
EXTENDS SkillSync

CONSTANTS old, new, broken

MCNames == {"go", "go_lint", "go-lint"}
MCNormalized == [n \in MCNames |-> IF n = "go_lint" THEN "go-lint" ELSE n]
MCTexts == {old, new, broken}
MCPortable == {old, new}
\* The rendering of either portable text is a portable text, and not that one.
MCAsSource == [r \in Rendering |-> IF r[4] = old THEN new ELSE old]

Skill(name, include, aliases, plugin) ==
    [name |-> name, include |-> include, aliases |-> aliases, plugin |-> plugin]
Manifest(skills) == [ok |-> TRUE, skills |-> skills, managed |-> Roots]

Lint == Skill("go_lint", TRUE, <<>>, FALSE)
Go == Skill("go", TRUE, <<>>, TRUE)

Both == Manifest(<<Go, Lint>>)
Listed == [Manifest(<<Skill("go_lint", TRUE, <<"go-lint">>, TRUE)>>)
             EXCEPT !.managed = {"plugin"}]
Duplicate == Manifest(<<Go, Skill("go_lint", FALSE, <<"go">>, FALSE)>>)
Unparsable == [Manifest(<<>>) EXCEPT !.ok = FALSE]
PluginOnly == Manifest(<<Skill("go", FALSE, <<>>, TRUE)>>)

Empty == [base |-> [r \in Roots |-> "dir"],
          dir |-> [d \in Dests |-> "absent"],
          leaf |-> [d \in Dests |-> None]]
With(t, d, leaf) == [t EXCEPT !.dir[d] = "dir", !.leaf[d] = leaf]

Used == With(With(With(Empty, <<"claude", "go">>, Link),
                  <<"plugin", "go_lint">>, Foreign), <<"claude", "go-lint">>, Foreign)
RootLink == [Empty EXCEPT !.base["claude"] = "link"]

MCSurfaces == {Both, Listed, Duplicate, Unparsable}
MCTrees == {Used, RootLink}

\* Only the two skills have sources to begin with.
MCInit ==
    /\ Init
    /\ canonical = [n \in Names |-> IF n = "go-lint" THEN Absent ELSE old]

MCSpec == MCInit /\ [][Next]_vars
MCFairSpec == MCSpec /\ WF_vars(RunStep)

\* The same with a manifest that exports nothing to Claude.
LinkedSurfaces == {Both, PluginOnly}
LinkedTrees == {Empty, RootLink}
=============================================================================
