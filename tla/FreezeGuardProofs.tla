------------------------- MODULE FreezeGuardProofs --------------------------
(* That the guard keeps its two promises for every allowlist and every     *)
(* number of commits: nothing gets into a private path past the hook, and  *)
(* a clean history has put nothing where no reason allows it.              *)
EXTENDS FreezeGuard, SequenceTheorems, TLAPS

Commits == [reason : Trailers, tree : Trees, hooked : BOOLEAN, whole : BOOLEAN]

(* What a tree may differ in from the anchor's. *)
PrivateKept(tree) == \A p \in Private : tree[p] \in {AnchorTree[p], Gone}
OthersKept(tree) ==
    \A p \in Paths : \/ tree[p] \in {AnchorTree[p], Gone}
                     \/ \E reason \in Reasons : PathAllowed(reason, p)

(* Both promises, of each beginning of the log. *)
HookedUpTo(n) == \A k \in 1..n : log[k].hooked
PassingUpTo(n) == \A k \in 1..n : Passes(k)
Kept(n) ==
    /\ HookedUpTo(n) => PrivateKept(TreeAt(n))
    /\ PassingUpTo(n) => OthersKept(TreeAt(n))

IInv ==
    /\ log \in Seq(Commits) /\ index \in Trees
    /\ \A n \in 0..Len(log) : Kept(n)

(* A change that is judged leaves a path as it was, removes it, or may     *)
(* touch it.                                                               *)
LEMMA Judged ==
    ASSUME NEW old \in Trees, NEW new \in Trees, NEW reason,
           Judge(reason, Listed(old, new)) \/ Listed(old, new) = {},
           NEW p \in Paths
    PROVE  \/ new[p] \in {old[p], Gone}
           \/ reason \in Reasons /\ PathAllowed(reason, p)
<1>1. CASE p \in Listed(old, new)
  BY <1>1 DEF Judge
<1>2. CASE p \notin Changed(old, new)
  BY <1>2 DEF Changed
<1>3. CASE p \in MovedAway(old, new)
  <2>1. PICK c \in {old[q] : q \in Removed(old, new)} :
            p = CHOOSE q \in Removed(old, new) : old[q] = c
    BY <1>3 DEF MovedAway
  <2>2. \E q \in Removed(old, new) : old[q] = c
    BY <2>1
  <2>3. p \in Removed(old, new)
    BY <2>1, <2>2
  <2> QED
    BY <2>3 DEF Removed
<1> QED
  BY <1>1, <1>2, <1>3 DEF Listed

LEMMA JudgedPrivate ==
    ASSUME NEW old \in Trees, NEW new \in Trees, NEW reason,
           Judge(reason, Listed(old, new)), PrivateKept(old)
    PROVE  PrivateKept(new)
<1> SUFFICES ASSUME NEW p \in Private PROVE new[p] \in {AnchorTree[p], Gone}
  BY DEF PrivateKept
<1>1. p \in Paths
  BY GuardAssumption
<1>2. new[p] \in {old[p], Gone}
  BY <1>1, Judged DEF PathAllowed
<1> QED
  BY <1>2 DEF PrivateKept

LEMMA JudgedOthers ==
    ASSUME NEW old \in Trees, NEW new \in Trees, NEW reason,
           Judge(reason, Listed(old, new)) \/ Listed(old, new) = {},
           OthersKept(old)
    PROVE  OthersKept(new)
BY Judged DEF OthersKept

(* The log with its last commits replaced: what stood before them stands.  *)
LEMMA SameBeginning ==
    ASSUME IInv, NEW m \in 0..Len(log),
           log' \in Seq(Commits), m <= Len(log'),
           \A k \in 1..m : log'[k] = log[k]
    PROVE  /\ \A n \in 0..m : Kept(n)' /\ TreeAt(n)' = TreeAt(n)
           /\ HookedUpTo(m)' = HookedUpTo(m)
           /\ PassingUpTo(m)' = PassingUpTo(m)
           /\ TreeAt(m) \in Trees
<1>1. m \in Nat /\ Len(log) \in Nat /\ log \in Seq(Commits)
  BY DEF IInv
<1>2. \A n \in 0..m : TreeAt(n)' = TreeAt(n)
  BY <1>1 DEF TreeAt
<1>3. \A k \in 1..m : Touched(k)' = Touched(k)
  BY <1>1, <1>2 DEF Touched
<1>4. \A k \in 1..m : Passes(k)' = Passes(k)
  BY <1>3 DEF Passes
<1>5. ASSUME NEW n \in 0..m
      PROVE  Kept(n)' /\ HookedUpTo(n)' = HookedUpTo(n) /\ PassingUpTo(n)' = PassingUpTo(n)
  <2>1. n \in 0..Len(log) /\ \A k \in 1..n : k \in 1..m
    BY <1>1
  <2>2. Kept(n) /\ TreeAt(n)' = TreeAt(n)
    BY <2>1, <1>2 DEF IInv
  <2>3. HookedUpTo(n)' = HookedUpTo(n)
    BY <2>1 DEF HookedUpTo
  <2>4. PassingUpTo(n)' = PassingUpTo(n)
    BY <2>1, <1>4 DEF PassingUpTo
  <2> QED
    BY <2>2, <2>3, <2>4 DEF Kept
<1>6. TreeAt(m) \in Trees
  <2>1. CASE m = 0
    BY <2>1, GuardAssumption DEF TreeAt
  <2>2. CASE m # 0
    <3>1. m \in 1..Len(log)
      BY <2>2, <1>1
    <3>2. log[m] \in Commits
      BY <3>1, <1>1, ElementOfSeq
    <3> QED
      BY <2>2, <3>2 DEF TreeAt, Commits
  <2> QED
    BY <2>1, <2>2
<1> QED
  BY <1>1, <1>2, <1>5, <1>6

(* A log that has one commit after m old ones keeps the promises if that   *)
(* commit, when the hook has seen it, was judged against what stood there  *)
(* or keeps what is private by itself.                                     *)
LEMMA OneMore ==
    ASSUME IInv, NEW m \in 0..Len(log), index' \in Trees,
           log' \in Seq(Commits), Len(log') = m + 1,
           \A k \in 1..m : log'[k] = log[k],
           log'[m + 1].hooked /\ HookedUpTo(m) => PrivateKept(log'[m + 1].tree)
    PROVE  IInv'
<1>1. m \in Nat
  BY DEF IInv
<1>2. /\ \A n \in 0..m : Kept(n)' /\ TreeAt(n)' = TreeAt(n)
      /\ HookedUpTo(m)' = HookedUpTo(m)
      /\ PassingUpTo(m)' = PassingUpTo(m)
      /\ TreeAt(m) \in Trees
  BY <1>1, SameBeginning
<1>3. m + 1 \in 1..Len(log') /\ \A k \in 1..m : k \in 1..(m + 1)
  BY <1>1
<1>4. TreeAt(m + 1)' = log'[m + 1].tree
  BY <1>1 DEF TreeAt
<1>5. log'[m + 1].tree \in Trees
  <2>1. log'[m + 1] \in Commits
    BY <1>3, ElementOfSeq
  <2> QED
    BY <2>1 DEF Commits
<1>6. HookedUpTo(m + 1)' => PrivateKept(TreeAt(m + 1)')
  <2>1. HookedUpTo(m + 1)' => HookedUpTo(m)' /\ log'[m + 1].hooked
    BY <1>1, <1>3 DEF HookedUpTo
  <2> QED
    BY <2>1, <1>2, <1>4
<1>7. PassingUpTo(m + 1)' => OthersKept(TreeAt(m + 1)')
  <2>1. SUFFICES ASSUME PassingUpTo(m + 1)' PROVE OthersKept(TreeAt(m + 1)')
    OBVIOUS
  <2>2. PassingUpTo(m)' /\ Passes(m + 1)'
    BY <2>1, <1>1, <1>3 DEF PassingUpTo
  <2>3. OthersKept(TreeAt(m))
    BY <2>2, <1>1, <1>2 DEF IInv, Kept
  <2>4. (m + 1) - 1 = m
    BY <1>1
  <2>5. Touched(m + 1)' = Listed(TreeAt(m), log'[m + 1].tree)
    BY <2>4, <1>1, <1>2 DEF Touched
  <2>6. \/ Judge(log'[m + 1].reason, Listed(TreeAt(m), log'[m + 1].tree))
        \/ Listed(TreeAt(m), log'[m + 1].tree) = {}
    BY <2>2, <2>5 DEF Passes
  <2> QED
    BY <2>3, <2>6, <1>2, <1>4, <1>5, JudgedOthers
<1>8. Kept(m + 1)'
  BY <1>6, <1>7 DEF Kept, PrivateKept, OthersKept
<1>9. \A n \in 0..Len(log') : n \in 0..m \/ n = m + 1
  BY <1>1
<1> QED
  BY <1>2, <1>8, <1>9 DEF IInv

LEMMA Initially == Init => IInv
<1> SUFFICES ASSUME Init PROVE IInv
  OBVIOUS
<1>1. log = <<>> /\ index = AnchorTree /\ AnchorTree \in Trees
  BY GuardAssumption DEF Init
<1>2. log \in Seq(Commits) /\ Len(log) = 0
  BY <1>1
<1>3. TreeAt(0) = AnchorTree
  BY DEF TreeAt
<1>4. Kept(0)
  BY <1>3 DEF Kept, PrivateKept, OthersKept
<1>5. \A n \in 0..Len(log) : n = 0
  BY <1>2
<1> QED
  BY <1>1, <1>2, <1>4, <1>5 DEF IInv

LEMMA SameLog ==
    ASSUME IInv, log' = log, index' \in Trees
    PROVE  IInv'
BY DEF IInv, Kept, HookedUpTo, PassingUpTo, Passes, Touched, TreeAt

(* A commit of the index on top of the log. *)
LEMMA Appended ==
    ASSUME IInv, UNCHANGED index, NEW c \in Commits, log' = Append(log, c),
           c.hooked /\ HookedUpTo(Len(log)) => PrivateKept(c.tree)
    PROVE  IInv'
<1>1. log \in Seq(Commits) /\ Len(log) \in Nat /\ index' \in Trees
  BY DEF IInv
<1>2. /\ log' \in Seq(Commits) /\ Len(log') = Len(log) + 1
      /\ \A k \in 1..Len(log) : log'[k] = log[k]
      /\ log'[Len(log) + 1] = c
  BY <1>1, AppendProperties
<1>3. Len(log) \in 0..Len(log)
  BY <1>1
<1> QED
  BY <1>1, <1>2, <1>3, OneMore

LEMMA HeadKept == IInv /\ HookedUpTo(Len(log)) => PrivateKept(Head_) /\ Head_ \in Trees
<1> SUFFICES ASSUME IInv, HookedUpTo(Len(log)) PROVE PrivateKept(Head_) /\ Head_ \in Trees
  OBVIOUS
<1>1. log \in Seq(Commits) /\ Len(log) \in 0..Len(log)
  BY DEF IInv
<1>2. Head_ \in Trees
  <2>1. CASE Len(log) = 0
    BY <2>1, GuardAssumption DEF Head_, TreeAt
  <2>2. CASE Len(log) # 0
    <3>1. log[Len(log)] \in Commits
      BY <1>1, <2>2, ElementOfSeq
    <3> QED
      BY <2>2, <3>1 DEF Head_, TreeAt, Commits
  <2> QED
    BY <2>1, <2>2
<1>3. Kept(Len(log))
  BY <1>1 DEF IInv
<1> QED
  BY <1>2, <1>3 DEF Kept, Head_

(* A reset takes the last commit away. *)
LEMMA ShorterLog ==
    ASSUME IInv, log # <<>>, log' = SubSeq(log, 1, Len(log) - 1)
    PROVE  /\ log' \in Seq(Commits) /\ Len(log') = Len(log) - 1
           /\ \A k \in 1..(Len(log) - 1) : log'[k] = log[k]
<1> DEFINE m == Len(log) - 1
<1>0. log \in Seq(Commits) /\ Len(log) \in Nat
  BY DEF IInv
<1>1. log' = SubSeq(log, 1, m) /\ m \in Nat
  BY <1>0
<1>2. \A k \in 1..m : log[k] \in Commits
  <2>1. \A k \in 1..m : k \in 1..Len(log)
    BY <1>0
  <2> QED
    BY <1>0, <2>1, ElementOfSeq
<1>3. /\ SubSeq(log, 1, m) \in Seq(Commits)
      /\ Len(SubSeq(log, 1, m)) = IF 1 <= m THEN m - 1 + 1 ELSE 0
      /\ \A k \in 1..(m - 1 + 1) : SubSeq(log, 1, m)[k] = log[1 + k - 1]
  <2>1. 1 \in Int /\ m \in Int
    BY <1>1
  <2> HIDE DEF m
  <2> QED
    BY <1>2, <2>1, SubSeqProperties
<1>4. \A k \in 1..m : k \in 1..(m - 1 + 1) /\ 1 + k - 1 = k
  BY <1>1
<1>5. Len(log') = m
  <2> HIDE DEF m
  <2>1. (IF 1 <= m THEN m - 1 + 1 ELSE 0) = m
    BY <1>1
  <2> QED
    BY <1>1, <1>3, <2>1, Zenon
<1>6. \A k \in 1..m : log'[k] = log[k]
  <2> HIDE DEF m
  <2> QED
    BY <1>1, <1>3, <1>4
<1> QED
  BY <1>1, <1>3, <1>5, <1>6

LEMMA Preserved == IInv /\ [Next]_vars => IInv'
<1> SUFFICES ASSUME IInv, [Next]_vars PROVE IInv'
  OBVIOUS
<1> USE DEF Allowed
<1>0. log \in Seq(Commits) /\ Len(log) \in Nat /\ index \in Trees
  BY DEF IInv
<1>1. CASE Stage
  <2>1. PICK p \in Paths, c \in Contents \cup {Gone} : index' = [index EXCEPT ![p] = c]
    BY <1>1 DEF Stage
  <2>2. index' \in Trees
    BY <1>0, <2>1 DEF Trees
  <2> QED
    BY <1>1, <2>2, SameLog DEF Stage
<1>2. CASE Commit
  <2>1. PICK reason \in Trailers, verify \in BOOLEAN :
            /\ verify => Judge(reason, Pending)
            /\ log' = Append(log, [reason |-> reason, tree |-> index,
                                   hooked |-> verify, whole |-> verify])
    BY <1>2 DEF Commit
  <2> DEFINE c == [reason |-> reason, tree |-> index,
                   hooked |-> verify, whole |-> verify]
  <2>2. c \in Commits
    BY <1>0 DEF Commits
  <2>3. ASSUME c.hooked, HookedUpTo(Len(log)) PROVE PrivateKept(c.tree)
    <3>1. Judge(reason, Listed(Head_, index))
      BY <1>2, <2>1, <2>3 DEF Commit, Pending
    <3>2. PrivateKept(Head_) /\ Head_ \in Trees
      BY <2>3, HeadKept
    <3> QED
      BY <3>1, <3>2, <1>0, JudgedPrivate
  <2> QED
    BY <1>2, <2>1, <2>2, <2>3, Appended DEF Commit
<1>3. CASE CommitEmpty
  <2>1. PICK reason \in Trailers, verify \in BOOLEAN :
            log' = Append(log, [reason |-> reason, tree |-> index,
                                hooked |-> verify, whole |-> verify])
    BY <1>3 DEF CommitEmpty
  <2> DEFINE c == [reason |-> reason, tree |-> index,
                   hooked |-> verify, whole |-> verify]
  <2>2. c \in Commits
    BY <1>0 DEF Commits
  <2>3. ASSUME c.hooked, HookedUpTo(Len(log)) PROVE PrivateKept(c.tree)
    <3>1. c.tree = Head_
      BY <1>3 DEF CommitEmpty
    <3> QED
      BY <3>1, <2>3, HeadKept
  <2> QED
    BY <1>3, <2>1, <2>2, <2>3, Appended DEF CommitEmpty
<1>4. CASE Amend
  <2> DEFINE n == Len(log)
             m == Len(log) - 1
  <2>1. PICK reason \in Trailers, verify \in BOOLEAN :
            /\ verify => Judge(reason, Pending)
            /\ log' = [log EXCEPT ![n] = Amended(reason, verify)]
    BY <1>4 DEF Amend
  <2> DEFINE c == Amended(reason, verify)
  <2>2. n \in 1..Len(log) /\ log # <<>> /\ index' = index
    BY <1>0, <1>4 DEF Amend
  <2>3. m \in 0..Len(log) /\ n = m + 1
    BY <2>2
  <2>4. log[n] \in Commits
    BY <1>0, <2>2, ElementOfSeq
  <2>5. c = [reason |-> reason, tree |-> index,
             hooked |-> verify /\ (index = Head_ \/ log[n].hooked),
             whole |-> verify /\ index = Head_]
    BY DEF Amended
  <2>6. c \in Commits
    BY <1>0, <2>4, <2>5 DEF Commits
  <2>7. /\ log' \in Seq(Commits) /\ Len(log') = n
        /\ log'[n] = c
        /\ \A k \in 1..m : log'[k] = log[k]
    BY <1>0, <2>1, <2>2, <2>6
  <2>8. ASSUME c.hooked, HookedUpTo(m) PROVE PrivateKept(c.tree)
    <3>1. verify /\ (index = Head_ \/ log[n].hooked) /\ c.tree = index
      <4>1. c.hooked = (verify /\ (index = Head_ \/ log[n].hooked)) /\ c.tree = index
        BY <2>5
      <4> QED
        BY <2>8, <4>1
    <3>2. CASE index = Head_
      <4>1. Judge(reason, Listed(TreeAt(m), index))
        BY <2>1, <2>2, <3>1, <3>2 DEF Pending, LastPaths
      <4>2. Kept(m)
        BY <2>3 DEF IInv
      <4>3. PrivateKept(TreeAt(m))
        BY <2>8, <4>2 DEF Kept
      <4>4. TreeAt(m) \in Trees
        <5>1. CASE m = 0
          BY <5>1, GuardAssumption DEF TreeAt
        <5>2. CASE m # 0
          <6>1. m \in 1..Len(log)
            BY <2>3, <5>2
          <6>2. log[m] \in Commits
            BY <6>1, <1>0, ElementOfSeq
          <6> QED
            BY <5>2, <6>2 DEF TreeAt, Commits
        <5> QED
          BY <5>1, <5>2
      <4> QED
        BY <1>0, <3>1, <4>1, <4>3, <4>4, JudgedPrivate
    <3>3. CASE index # Head_
      <4>1. Judge(reason, Listed(Head_, index))
        BY <2>1, <3>1, <3>3 DEF Pending
      <4>2. HookedUpTo(Len(log))
        <5>1. \A k \in 1..n : k \in 1..m \/ k = n
          BY <1>0
        <5> QED
          BY <2>8, <3>1, <3>3, <5>1 DEF HookedUpTo
      <4>3. PrivateKept(Head_) /\ Head_ \in Trees
        BY <4>2, HeadKept
      <4> QED
        BY <1>0, <3>1, <4>1, <4>3, JudgedPrivate
    <3> QED
      BY <3>2, <3>3
  <2> QED
    BY <1>0, <2>2, <2>3, <2>7, <2>8, OneMore
<1>5. CASE Reset
  <2> DEFINE m == Len(log) - 1
  <2>1. m \in 0..Len(log)
    BY <1>0, <1>5 DEF Reset
  <2>2. /\ log' \in Seq(Commits) /\ Len(log') = m
        /\ \A k \in 1..m : log'[k] = log[k]
    BY <1>5, ShorterLog DEF Reset
  <2>3. (\A n \in 0..m : Kept(n)') /\ TreeAt(m) \in Trees
    BY <2>1, <2>2, SameBeginning
  <2>4. index' \in Trees
    BY <1>5, <2>3 DEF Reset
  <2> QED
    BY <2>2, <2>3, <2>4 DEF IInv
<1>6. CASE UNCHANGED vars
  BY <1>0, <1>6, SameLog DEF vars
<1> QED
  BY <1>1, <1>2, <1>3, <1>4, <1>5, <1>6 DEF Next

(* While every commit went through the hook, a private path holds what it  *)
(* held at the anchor, or is gone (PrivateStaysOut), amends included.      *)
THEOREM HookKeepsPrivateOut == Spec => []PrivateStaysOut
<1>1. IInv => PrivateStaysOut
  <2> SUFFICES ASSUME IInv, \A k \in DOMAIN log : log[k].hooked
               PROVE  PrivateKept(Head_)
    BY DEF PrivateStaysOut, PrivateKept
  <2>1. HookedUpTo(Len(log))
    BY DEF HookedUpTo, IInv
  <2> QED
    BY <2>1, HeadKept
<1> QED
  BY <1>1, Initially, Preserved, PTL DEF Spec

(* When CI calls the history clean, no path that no reason allows holds    *)
(* anything new (CleanMeansAllowed), whoever bypassed the hook.            *)
THEOREM CleanHistoryIsAllowed == Spec => []CleanMeansAllowed
<1>1. IInv => CleanMeansAllowed
  <2> SUFFICES ASSUME IInv, HistoryClean PROVE OthersKept(Head_)
    BY DEF CleanMeansAllowed, OthersKept
  <2>1. PassingUpTo(Len(log)) /\ Len(log) \in 0..Len(log)
    BY DEF PassingUpTo, HistoryClean, IInv
  <2>2. Kept(Len(log))
    BY <2>1 DEF IInv
  <2> QED
    BY <2>1, <2>2 DEF Kept, Head_
<1> QED
  BY <1>1, Initially, Preserved, PTL DEF Spec

-----------------------------------------------------------------------------
(* The log stays within its bound, and the last commit is one.              *)
LEMMA LogEnds ==
    ASSUME IInv, log # <<>>
    PROVE  Len(log) \in 1..Len(log) /\ Len(log) - 1 \in 0..Len(log)
BY DEF IInv

LEMMA AmendedLog ==
    ASSUME IInv, log # <<>>, NEW c \in Commits, log' = [log EXCEPT ![Len(log)] = c]
    PROVE  /\ Len(log') = Len(log) /\ DOMAIN log' = 1..Len(log)
           /\ log'[Len(log)] = c
           /\ \A k \in 1..(Len(log) - 1) : log'[k] = log[k]
<1>1. log \in Seq(Commits)
  BY DEF IInv
<1>2. DOMAIN log = 1..Len(log) /\ Len(log) \in 1..Len(log) /\ Len(log) \in Nat
  BY <1>1, LogEnds
<1>3. log' \in Seq(Commits) /\ Len(log') = Len(log)
  BY <1>1, <1>2
<1>4. DOMAIN log' = 1..Len(log)
  BY <1>3
<1>5. ASSUME NEW k \in 1..Len(log)
      PROVE  log'[k] = IF k = Len(log) THEN c ELSE log[k]
  BY <1>1, <1>2
<1>6. \A k \in 1..(Len(log) - 1) : k \in 1..Len(log) /\ k # Len(log)
  <2>1. \A n \in Nat : \A k \in 1..(n - 1) : k \in 1..n /\ k # n
    OBVIOUS
  <2> QED
    BY <1>2, <2>1
<1> QED
  BY <1>2, <1>3, <1>4, <1>5, <1>6

LEMMA AmendedType ==
    ASSUME IInv, log # <<>>, NEW reason \in Trailers, NEW verify \in BOOLEAN
    PROVE  Amended(reason, verify) \in Commits
<1>1. log \in Seq(Commits) /\ index \in Trees /\ Len(log) \in 1..Len(log)
  BY LogEnds DEF IInv
<1>2. log[Len(log)] \in Commits
  BY <1>1, ElementOfSeq
<1> QED
  BY <1>1, <1>2 DEF Amended, Commits

LEMMA BoundKept == IInv /\ Len(log) <= MaxCommits /\ [Next]_vars => Len(log') <= MaxCommits
<1> SUFFICES ASSUME IInv, Len(log) <= MaxCommits, [Next]_vars PROVE Len(log') <= MaxCommits
  OBVIOUS
<1>0. log \in Seq(Commits) /\ Len(log) \in Nat /\ MaxCommits \in Nat
  BY GuardAssumption DEF IInv
<1>1. CASE Stage \/ UNCHANGED vars
  BY <1>1 DEF Stage, vars
<1>2. CASE Commit \/ CommitEmpty
  <2>1. PICK c : log' = Append(log, c)
    BY <1>2 DEF Commit, CommitEmpty
  <2>2. Len(log) < MaxCommits
    BY <1>2 DEF Commit, CommitEmpty
  <2> QED
    BY <1>0, <2>1, <2>2
<1>3. CASE Amend
  <2>1. log # <<>> /\ \E c \in Commits : log' = [log EXCEPT ![Len(log)] = c]
    BY <1>3, AmendedType DEF Amend
  <2> QED
    BY <2>1, AmendedLog
<1>4. CASE Reset
  BY <1>0, <1>4, ShorterLog DEF Reset
<1> QED
  BY <1>1, <1>2, <1>3, <1>4 DEF Next

(* Logs and trees are what they are said to be (TypeOK), whatever is         *)
(* committed, amended or reset.                                             *)
THEOREM LogsAreLogs == Spec => []TypeOK
<1>1. Init => IInv /\ Len(log) <= MaxCommits
  BY Initially, GuardAssumption DEF Init
<1>2. IInv /\ Len(log) <= MaxCommits /\ [Next]_vars => (IInv /\ Len(log) <= MaxCommits)'
  BY Preserved, BoundKept
<1>3. IInv /\ Len(log) <= MaxCommits => TypeOK
  BY DEF IInv, TypeOK, Commits
<1> QED
  BY <1>1, <1>2, <1>3, PTL DEF Spec

(* A log whose first m commits stay, with at most one more: it is enough to  *)
(* look at that one.                                                       *)
LEMMA WholeUpTo ==
    ASSUME IInv, IInv', JudgedWholePasses, NEW m \in 0..Len(log),
           \A k \in 1..m : log'[k] = log[k], DOMAIN log \subseteq Nat,
           \A k \in DOMAIN log' : k \in 1..m \/ k = m + 1,
           (m + 1) \in DOMAIN log' /\ log'[m + 1].whole =>
               \/ Listed(TreeAt(m), log'[m + 1].tree) = {}
               \/ Judge(log'[m + 1].reason, Listed(TreeAt(m), log'[m + 1].tree))
    PROVE  JudgedWholePasses'
<1>1. m \in Nat /\ log \in Seq(Commits) /\ \A k \in 1..m : k \in DOMAIN log
  BY DEF IInv
<1>2. \A n \in 0..m : TreeAt(n)' = TreeAt(n)
  BY <1>1 DEF TreeAt
<1>3. \A k \in 1..m : Passes(k)' = Passes(k)
  <2>1. \A k \in 1..m : Touched(k)' = Touched(k)
    BY <1>1, <1>2 DEF Touched
  <2> QED
    BY <2>1 DEF Passes
<1>4. (m + 1) \in DOMAIN log' /\ log'[m + 1].whole => Passes(m + 1)'
  <2>1. m + 1 - 1 = m /\ m \in 0..m
    BY <1>1
  <2>2. Touched(m + 1)' = Listed(TreeAt(m), log'[m + 1].tree)
    BY <1>2, <2>1 DEF Touched
  <2> QED
    BY <2>2 DEF Passes
<1> QED
  BY <1>1, <1>3, <1>4 DEF JudgedWholePasses

LEMMA WholeKept == IInv /\ JudgedWholePasses /\ [Next]_vars => JudgedWholePasses'
<1> SUFFICES ASSUME IInv, JudgedWholePasses, [Next]_vars PROVE JudgedWholePasses'
  OBVIOUS
<1> USE DEF Allowed
<1>0. log \in Seq(Commits) /\ Len(log) \in Nat /\ IInv' /\ DOMAIN log = 1..Len(log)
  BY Preserved DEF IInv
<1>1. CASE Stage \/ UNCHANGED vars
  <2>1. log' = log
    BY <1>1 DEF Stage, vars
  <2> QED
    BY <2>1 DEF JudgedWholePasses, Passes, Touched, TreeAt
<1>2. CASE Commit \/ CommitEmpty
  <2>1. PICK reason \in Trailers, verify \in BOOLEAN :
            /\ log' = Append(log, [reason |-> reason, tree |-> index, hooked |-> verify, whole |-> verify])
            /\ index = Head_ \/ (verify => Judge(reason, Listed(Head_, index)))
    BY <1>2 DEF Commit, CommitEmpty, Pending
  <2> DEFINE m == Len(log)
             c == [reason |-> reason, tree |-> index, hooked |-> verify, whole |-> verify]
  <2>2. /\ DOMAIN log' = 1..(m + 1) /\ log'[m + 1] = c
        /\ \A k \in 1..m : log'[k] = log[k]
    BY <1>0, <2>1
  <2>3. index = Head_ => Listed(Head_, index) = {}
    BY DEF Listed, Changed
  <2>4. c.whole => Listed(Head_, c.tree) = {} \/ Judge(c.reason, Listed(Head_, c.tree))
    <3>1. c.whole = verify /\ c.tree = index /\ c.reason = reason
      OBVIOUS
    <3> HIDE DEF c
    <3> QED
      BY <2>1, <2>3, <3>1
  <2>5. m \in 0..Len(log) /\ Head_ = TreeAt(m) /\ (\A k \in DOMAIN log' : k \in 1..m \/ k = m + 1)
    BY <1>0, <2>2 DEF Head_
  <2> HIDE DEF m, c
  <2> QED
    BY <1>0, <2>2, <2>4, <2>5, WholeUpTo
<1>3. CASE Amend
  <2>1. PICK reason \in Trailers, verify \in BOOLEAN :
            /\ verify => Judge(reason, Pending)
            /\ log' = [log EXCEPT ![Len(log)] = Amended(reason, verify)]
    BY <1>3 DEF Amend
  <2>2. log # <<>>
    BY <1>3 DEF Amend
  <2> DEFINE m == Len(log) - 1
             c == Amended(reason, verify)
  <2>3. /\ DOMAIN log' = 1..(m + 1) /\ log'[m + 1] = c /\ m \in 0..Len(log)
        /\ \A k \in 1..m : log'[k] = log[k]
    <3>1. m + 1 = Len(log) /\ m \in 0..Len(log)
      BY <1>0, <2>2, LogEnds
    <3>2. c \in Commits
      BY <2>2, AmendedType
    <3> HIDE DEF c
    <3> QED
      BY <2>1, <2>2, <3>1, <3>2, AmendedLog DEF c
  <2>4. c.whole => Judge(c.reason, Listed(TreeAt(m), c.tree))
    <3>1. c.whole = (verify /\ index = Head_) /\ c.tree = index /\ c.reason = reason
      BY DEF Amended
    <3>2. index = Head_ => Pending = Listed(TreeAt(m), index)
      BY <2>2 DEF Pending, LastPaths
    <3> HIDE DEF c
    <3> QED
      BY <2>1, <3>1, <3>2
  <2>5. \A k \in DOMAIN log' : k \in 1..m \/ k = m + 1
    BY <2>3
  <2> HIDE DEF m, c
  <2> QED
    BY <1>0, <2>3, <2>4, <2>5, WholeUpTo
<1>4. CASE Reset
  <2> DEFINE m == Len(log) - 1
  <2>1. log # <<>>
    BY <1>4 DEF Reset
  <2>2. /\ log' \in Seq(Commits) /\ Len(log') = m /\ m \in 0..Len(log) /\ m \in Nat
        /\ \A k \in 1..m : log'[k] = log[k]
    BY <1>0, <1>4, <2>1, ShorterLog, LogEnds DEF Reset
  <2>3. (m + 1) \notin DOMAIN log' /\ \A k \in DOMAIN log' : k \in 1..m
    BY <2>2
  <2> HIDE DEF m
  <2> QED
    BY <1>0, <2>2, <2>3, WholeUpTo
<1> QED
  BY <1>1, <1>2, <1>3, <1>4 DEF Next

(* A commit that the hook let through whole does not fail CI, be it empty,   *)
(* reworded or amended without new changes (JudgedWholePasses).             *)
THEOREM WholeCommitsPass == Spec => []JudgedWholePasses
<1>1. Init => JudgedWholePasses
  BY DEF Init, JudgedWholePasses
<1> QED
  BY <1>1, Initially, Preserved, WholeKept, PTL DEF Spec
=============================================================================
