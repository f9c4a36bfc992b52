---------------------------- MODULE FreezeGuard -----------------------------
(***************************************************************************)
(* The freeze of the repository (scripts/check-freeze.sh): a commit needs a *)
(* trailer with a known reason, and may change only the paths which that   *)
(* reason allows.  The same judgement is passed twice: by the commit-msg   *)
(* hook on what is about to be committed, and in CI on every commit since  *)
(* the one that introduced the guard, the anchor.                          *)
(*                                                                         *)
(* A tree gives each path its content, or Gone.  The log holds the commits *)
(* after the anchor, oldest first, along first parents; a merge is a       *)
(* commit that brings in what it changes against its first parent.  Of a   *)
(* commit the model remembers two things that git does not: whether the    *)
(* hook has seen everything in it, and whether it has at once.             *)
(***************************************************************************)
EXTENDS Naturals, Sequences, FiniteSets

CONSTANTS
    Paths,
    Contents,       \* what a file may hold
    Gone,           \* the content of a path that does not exist
    Reasons,        \* the known reasons
    OtherReasons,   \* what else a trailer may say, "no trailer" included
    Allowlist,      \* of each known reason, the paths it lists
    Private,        \* paths refused under every reason
    AnchorTree,     \* the tree of the anchor
    AnchorPaths,    \* the paths that the anchor changed
    MaxCommits,     \* commits after the anchor: a bound of the model
    MaxStaged       \* paths staged at a time: a bound of the model

Trees == [Paths -> Contents \cup {Gone}]

ASSUME GuardAssumption ==
    /\ Gone \notin Contents
    /\ Allowlist \in [Reasons -> SUBSET Paths]
    /\ Reasons \cap OtherReasons = {}
    /\ Private \subseteq Paths /\ AnchorPaths \subseteq Paths
    /\ AnchorTree \in Trees
    /\ MaxCommits \in Nat

VARIABLES
    log,        \* the commits after the anchor: [reason, tree, hooked, whole]
    index       \* the tree that git add has prepared

vars == <<log, index>>

(* The tree after the first k commits; that of HEAD. *)
TreeAt(k) == IF k = 0 THEN AnchorTree ELSE log[k].tree
Head_ == TreeAt(Len(log))

Changed(old, new) == {p \in Paths : old[p] # new[p]}

(* git diff --name-only: a file that moved is listed where it went to, not *)
(* where it was.  Of several files with one content a single one counts as *)
(* moved.                                                                  *)
Removed(old, new) == {p \in Paths : old[p] # Gone /\ new[p] = Gone}
Added(old, new) == {p \in Paths : old[p] = Gone /\ new[p] # Gone}
MovedAway(old, new) ==
    {CHOOSE p \in Removed(old, new) : old[p] = c :
        c \in {old[p] : p \in Removed(old, new)} \cap {new[q] : q \in Added(old, new)}}
Listed(old, new) == Changed(old, new) \ MovedAway(old, new)

-----------------------------------------------------------------------------
PathListed(reason, p) == p \in Allowlist[reason]
PathAllowed(reason, p) == p \notin Private /\ p \in Allowlist[reason]

(* A slip: it is enough that one path is allowed. *)
JudgeSome(reason, paths) ==
    reason \in Reasons /\ \E p \in paths : PathAllowed(reason, p)

Judge(reason, paths) ==
    /\ reason \in Reasons
    /\ paths # {}
    /\ \A p \in paths : PathAllowed(reason, p)

(* What the hook looks at: what is staged, or, with nothing staged, what   *)
(* HEAD itself changed, taking the commit for a reworded one.              *)
LastPaths ==
    IF log = <<>> THEN AnchorPaths
    ELSE Listed(TreeAt(Len(log) - 1), Head_)
Pending == IF index # Head_ THEN Listed(Head_, index) ELSE LastPaths

(* CI's verdict on the k-th commit: one that changes nothing is skipped.   *)
Touched(k) == Listed(TreeAt(k - 1), log[k].tree)
PassesIfFull(k) == Judge(log[k].reason, Touched(k))
Passes(k) == Touched(k) = {} \/ Judge(log[k].reason, Touched(k))
HistoryClean == \A k \in DOMAIN log : Passes(k)

-----------------------------------------------------------------------------
(* The working copy *)

(* git add, rm, mv and restore, path by path. *)
Stage ==
    /\ \E p \in Paths, c \in Contents \cup {Gone} :
        /\ c # index[p]
        /\ index' = [index EXCEPT ![p] = c]
    /\ Cardinality(Changed(Head_, index')) <= MaxStaged
    /\ UNCHANGED log

-----------------------------------------------------------------------------
(* Commits, with the hook or past it (--no-verify) *)

Allowed(reason, verify) == verify => Judge(reason, Pending)

Trailers == Reasons \cup OtherReasons

Commit ==
    /\ index # Head_ /\ Len(log) < MaxCommits
    /\ \E reason \in Trailers, verify \in BOOLEAN :
        /\ Allowed(reason, verify)
        /\ log' = Append(log, [reason |-> reason, tree |-> index,
                               hooked |-> verify, whole |-> verify])
    /\ UNCHANGED index

(* With --allow-empty. *)
CommitEmpty ==
    /\ index = Head_ /\ Len(log) < MaxCommits
    /\ \E reason \in Trailers, verify \in BOOLEAN :
        /\ Allowed(reason, verify)
        /\ log' = Append(log, [reason |-> reason, tree |-> index,
                               hooked |-> verify, whole |-> verify])
    /\ UNCHANGED index

(* The last commit is replaced by one with its changes, those that are     *)
(* staged, and another message; git refuses when no change would remain.   *)
(* Without staged changes the hook sees the whole commit, with some it     *)
(* sees only those.                                                        *)
Amended(reason, verify) ==
    [reason |-> reason, tree |-> index,
     hooked |-> verify /\ (index = Head_ \/ log[Len(log)].hooked),
     whole |-> verify /\ index = Head_]

AmendByAdding ==
    /\ log # <<>> /\ index # TreeAt(Len(log) - 1)
    /\ \E reason \in Trailers, verify \in BOOLEAN :
        /\ Allowed(reason, verify)
        /\ log' = Append(log, Amended(reason, verify))
    /\ UNCHANGED index

Amend ==
    /\ log # <<>> /\ index # TreeAt(Len(log) - 1)
    /\ \E reason \in Trailers, verify \in BOOLEAN :
        /\ Allowed(reason, verify)
        /\ log' = [log EXCEPT ![Len(log)] = Amended(reason, verify)]
    /\ UNCHANGED index

(* git reset --hard HEAD^ *)
Reset ==
    /\ log # <<>>
    /\ log' = SubSeq(log, 1, Len(log) - 1)
    /\ index' = TreeAt(Len(log) - 1)

Init == log = <<>> /\ index = AnchorTree

Next ==
    \/ Stage \/ Commit \/ CommitEmpty \/ Amend \/ Reset

Spec == Init /\ [][Next]_vars

-----------------------------------------------------------------------------
(* Logs and trees are what they are said to be. *)
TypeOK ==
    /\ log \in Seq([reason : Trailers, tree : Trees,
                     hooked : BOOLEAN, whole : BOOLEAN])
    /\ Len(log) <= MaxCommits
    /\ index \in Trees

(* Nothing gets into a private path past the hook: while every commit went *)
(* through it, in one go or amended piece by piece, a private path holds   *)
(* what it held at the anchor, or is gone.                                 *)
PrivateStaysOut ==
    (\A k \in DOMAIN log : log[k].hooked) =>
        \A p \in Private : Head_[p] \in {AnchorTree[p], Gone}

(* A history that CI calls clean has put nothing where no reason allows    *)
(* it, whoever made the commits and however.                               *)
CleanMeansAllowed ==
    HistoryClean =>
        \A p \in Paths :
            \/ Head_[p] \in {AnchorTree[p], Gone}
            \/ \E reason \in Reasons : PathAllowed(reason, p)

(* The hook and CI agree: a commit that the hook let through whole, an     *)
(* empty one and a reworded one included, does not fail CI.                *)
JudgedWholePasses == \A k \in DOMAIN log : log[k].whole => Passes(k)

(* Every commit that went through the hook has a known reason and changes  *)
(* only paths that this reason allows (check-freeze.sh, DEPRECATED.md).    *)
HookedPasses == \A k \in DOMAIN log : log[k].hooked => Passes(k)
=============================================================================
