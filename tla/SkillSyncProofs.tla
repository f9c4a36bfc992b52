--------------------------- MODULE SkillSyncProofs ---------------------------
(***************************************************************************)
(* Proofs about SkillSync for every set of names, manifests and trees: its  *)
(* types, that no mirror is ever half a file, that only a checked plan      *)
(* writes, when the canonical skills are safe from the purge, and that a    *)
(* run without errors has mirrored everything before it purges.             *)
(***************************************************************************)
EXTENDS SkillSync, SequenceTheorems, TLAPS

Open == {"fill", "recheck", "rename"}
Checked == {"create", "fill", "recheck", "rename"}
Writing == {"mkdir", "check", "create", "fill", "recheck", "rename"}
Working == {"skill", "output", "mkdir", "check", "create", "fill", "recheck", "rename",
            "purge"}

USE DEF temp

\* The run's local state is consistent: it writes the output at the head of
\* outs, of the skill at the head of todo, from a text it has read.
LocalInv ==
    /\ \A i \in 1..Len(outs) : seen[outs[i].of] \in Portable
    /\ pc \in Writing => outs # <<>> /\ mode = "write"
    /\ pc \in Writing \cup {"output"} => todo # <<>>
    /\ victims # {} => mode = "write" /\ pc = "purge"

\* The temporary file exists while an output is written, and is complete before
\* it is renamed.
TempInv ==
    /\ pc \in {"recheck", "rename"} => tmp = None \/ tmp \in Rendering
    /\ tmp # None => pc \in Open
    /\ tmp # Odd
    /\ NoTornMirror

\* It lies where the mirror's path leads, unless that was swapped: a link there
\* takes one swap after the check, a file created through it and passed by the
\* second check takes two, and a link there once more takes three.
Here == Linked(Head(outs).dest)
StrayInv ==
    tmp # None =>
        IF astray
        THEN /\ swaps >= 1 /\ (~Here => swaps >= 2)
             /\ pc = "rename" => swaps >= 2 /\ (Here => swaps >= 3)
        ELSE ~Here
SwapInv ==
    /\ swaps > 0 => ~steady /\ pc \in Checked
    /\ pc \in Checked /\ Here => swaps >= 1
    /\ StrayInv

\* After the check, and while nobody edits the tree, every target stays valid:
\* the run's own steps never make one invalid.
CheckedInv == pc \in Working /\ steady => \A d \in Targets(plan) : Valid(d)

IInv == TypeOK /\ LocalInv /\ TempInv /\ SwapInv /\ CheckedInv

-----------------------------------------------------------------------------
(* Operators.                                                              *)

\* Sequences of at most one element.
LEMMA ShortSeq ==
    ASSUME NEW S, NEW x \in S
    PROVE  <<x>> \in Seq(S) /\ <<>> \in Seq(S)
  OBVIOUS

\* Every alias of a skill is a name, whose mirror is among the checked targets.
LEMMA AllAliasesType ==
    ASSUME NEW s \in SkillEntry
    PROVE  /\ AllAliases(s) \in Seq(Names)
           /\ \A i \in 1..Len(AllAliases(s)) : <<"claude", AllAliases(s)[i]>> \in TargetsOf(s)
  <1> DEFINE h == Normalized[s.name]
  <1>1. s.name \in Names /\ s.aliases \in Seq(Names) /\ h \in Names
    BY NamesAssumption DEF SkillEntry
  <1>2. \A i \in 1..Len(s.aliases) : <<"claude", s.aliases[i]>> \in TargetsOf(s)
    <2> SUFFICES ASSUME NEW i \in 1..Len(s.aliases)
                 PROVE  <<"claude", s.aliases[i]>> \in TargetsOf(s)
      OBVIOUS
    <2>1. i \in DOMAIN s.aliases /\ s.aliases[i] \in Names
      BY <1>1
    <2> QED
      BY <2>1 DEF TargetsOf, Dests, Roots
  <1>3. CASE h = s.name \/ \E i \in DOMAIN s.aliases : s.aliases[i] = h
    <2>1. AllAliases(s) = s.aliases
      BY <1>3 DEF AllAliases
    <2> QED
      BY <1>1, <1>2, <2>1
  <1>4. CASE ~(h = s.name \/ \E i \in DOMAIN s.aliases : s.aliases[i] = h)
    <2>1. AllAliases(s) = Append(s.aliases, h)
      BY <1>4 DEF AllAliases
    <2>2. /\ Append(s.aliases, h) \in Seq(Names)
          /\ Len(Append(s.aliases, h)) = Len(s.aliases) + 1
          /\ Append(s.aliases, h)[Len(s.aliases) + 1] = h
          /\ \A i \in 1..Len(s.aliases) : Append(s.aliases, h)[i] = s.aliases[i]
      BY <1>1, AppendProperties
    <2>3. <<"claude", h>> \in TargetsOf(s)
      BY <1>1, <1>4 DEF TargetsOf, Dests, Roots
    <2>4. ASSUME NEW i \in 1..Len(Append(s.aliases, h))
          PROVE  <<"claude", Append(s.aliases, h)[i]>> \in TargetsOf(s)
      <3>1. Len(s.aliases) \in Nat
        BY <1>1
      <3>2. CASE i = Len(s.aliases) + 1
        BY <2>2, <2>3, <3>2
      <3>3. CASE i \in 1..Len(s.aliases)
        BY <1>2, <2>2, <3>3
      <3> QED
        BY <2>2, <3>1, <3>2, <3>3
    <2> QED
      BY <2>1, <2>2, <2>4
  <1> QED
    BY <1>3, <1>4

\* What a skill projects to is a sequence of outputs, all made from that skill
\* and all among the targets that are checked beforehand.
LEMMA OutputsType ==
    ASSUME NEW s \in SkillEntry
    PROVE  /\ Outputs(s) \in Seq(Output)
           /\ \A i \in 1..Len(Outputs(s)) :
                Outputs(s)[i].of = s.name /\ Outputs(s)[i].dest \in TargetsOf(s)
  <1> DEFINE aliases == AllAliases(s)
             Mine == {o \in Output : o.of = s.name /\ o.dest \in TargetsOf(s)}
             Out(root, name, role) == [dest |-> <<root, name>>, of |-> s.name, as |-> role]
             A == IF s.include THEN <<Out("claude", s.name, "mirror")>> ELSE <<>>
             B == [i \in DOMAIN aliases |-> Out("claude", aliases[i], "alias")]
             C == IF s.plugin THEN <<Out("plugin", s.name, "plugin")>> ELSE <<>>
  <1>0. \A root \in Roots, name \in Names, role \in Roles : 
            <<root, name>> \in TargetsOf(s) => Out(root, name, role) \in Mine
    BY DEF SkillEntry, Output, Dests
  <1>1. A \in Seq(Mine)
    <2>1. s.include => <<"claude", s.name>> \in TargetsOf(s)
      BY DEF TargetsOf, SkillEntry, Dests, Roots
    <2>2. s.include => Out("claude", s.name, "mirror") \in Mine
      BY <1>0, <2>1 DEF SkillEntry, Roots, Roles
    <2> HIDE DEF Mine, Out
    <2>3. CASE s.include
      BY <2>2, <2>3, ShortSeq
    <2>4. CASE ~s.include
      BY <2>4
    <2> QED
      BY <2>3, <2>4
  <1>2. B \in Seq(Mine)
    <2>1. aliases \in Seq(Names)
      BY AllAliasesType
    <2>2. DOMAIN aliases = 1..Len(aliases) /\ Len(aliases) \in Nat
      BY <2>1
    <2>3. \A i \in 1..Len(aliases) : Out("claude", aliases[i], "alias") \in Mine
      <3>1. \A i \in 1..Len(aliases) : aliases[i] \in Names
        BY <2>1, ElementOfSeq
      <3>2. \A i \in 1..Len(aliases) : <<"claude", aliases[i]>> \in TargetsOf(s)
        BY AllAliasesType
      <3> QED
        BY <3>1, <3>2, <1>0 DEF Roots, Roles
    <2>4. QED
      BY <2>2, <2>3
  <1>3. C \in Seq(Mine)
    <2>1. s.plugin => <<"plugin", s.name>> \in TargetsOf(s)
      BY DEF TargetsOf, SkillEntry, Dests, Roots
    <2>2. s.plugin => Out("plugin", s.name, "plugin") \in Mine
      BY <1>0, <2>1 DEF SkillEntry, Roots, Roles
    <2> HIDE DEF Mine, Out
    <2>3. CASE s.plugin
      BY <2>2, <2>3, ShortSeq
    <2>4. CASE ~s.plugin
      BY <2>4
    <2> QED
      BY <2>3, <2>4
  <1>4. Outputs(s) = A \o B \o C
    BY DEF Outputs
  <1> HIDE DEF A, B, C, Mine
  <1>5. Outputs(s) \in Seq(Mine)
    BY <1>1, <1>2, <1>3, <1>4, ConcatProperties
  <1>6. Mine \subseteq Output /\ \A o \in Mine : o.of = s.name /\ o.dest \in TargetsOf(s)
    BY DEF Mine
  <1>7. QED
    BY <1>5, <1>6

-----------------------------------------------------------------------------
(* The inductive invariant.                                                *)

LEMMA InitInv == Init => IInv
  <1> SUFFICES ASSUME Init PROVE IInv
    OBVIOUS
  <1>1. /\ todo \in Seq(SkillEntry) /\ outs \in Seq(Output) /\ roots \in Seq(Roots)
        /\ Len(outs) = 0
    BY DEF Init, Start
  <1>2. TypeOK
    <2>1. surface \in Surfaces /\ plan \in Surfaces /\ tree \in Tree
      BY TreesAssumption DEF Init
    <2>2. tmp \in Leaf
      BY DEF Init, Start, Leaf
    <2>3. events \in 0..MaxEvents
      BY MaxEventsAssumption DEF Init
    <2>4. seen \in [Names -> Texts \cup {Absent}]
      BY DEF Init, Start
    <2> QED
      BY <1>1, <2>1, <2>2, <2>3, <2>4 DEF Init, Start, TypeOK, Modes
  <1>3. LocalInv
    BY <1>1 DEF Init, Start, LocalInv, Writing
  <1>4. CheckedInv
    BY DEF Init, Start, CheckedInv, Working, Writing, Checked, Open
  <1>5. TempInv
    BY TreesAssumption DEF Init, Start, TempInv, NoTornMirror, None, Odd, Torn
  <1>6. SwapInv
    BY DEF Init, Start, SwapInv, StrayInv, Checked, Open
  <1> QED
    BY <1>2, <1>3, <1>4, <1>5, <1>6 DEF IInv

-----------------------------------------------------------------------------
(* What steps have in common.                                              *)

\* The tail of the outputs, whose sources have been read as well.
LEMMA OutsTail ==
    ASSUME TypeOK, LocalInv, outs # <<>>
    PROVE  /\ Head(outs) \in Output /\ Tail(outs) \in Seq(Output)
           /\ Rendered(Head(outs), seen[Head(outs).of]) \in Rendering
           /\ \A i \in 1..Len(Tail(outs)) : seen[Tail(outs)[i].of] \in Portable
  <1>1. outs \in Seq(Output) /\ Len(outs) \in Nat /\ Len(outs) > 0
    BY DEF TypeOK
  <1>2. Head(outs) = outs[1] /\ Head(outs) \in Output /\ Tail(outs) \in Seq(Output)
    BY <1>1, HeadTailProperties
  <1>3. /\ Len(Tail(outs)) = Len(outs) - 1
        /\ \A i \in 1..Len(Tail(outs)) : Tail(outs)[i] = outs[i + 1]
    BY <1>1, HeadTailProperties
  <1>4. seen[Head(outs).of] \in Texts
    BY <1>1, <1>2, TextsAssumption DEF LocalInv
  <1>5. Rendered(Head(outs), seen[Head(outs).of]) \in Rendering
    BY <1>2, <1>4 DEF Rendered, Rendering, Output
  <1>6. \A i \in 1..Len(Tail(outs)) : seen[Tail(outs)[i].of] \in Portable
    BY <1>1, <1>3 DEF LocalInv
  <1> QED
    BY <1>2, <1>5, <1>6

\* Replacing one directory entry and its leaf keeps a tree a tree.
LEMMA TreeUpdates ==
    ASSUME tree \in Tree, NEW d \in Dests, NEW k \in {"absent", "dir", "link"},
           NEW l \in Leaf
    PROVE  /\ [tree EXCEPT !.dir[d] = k] \in Tree
           /\ [tree EXCEPT !.leaf[d] = l] \in Tree
           /\ [tree EXCEPT !.dir[d] = k, !.leaf[d] = l] \in Tree
  BY DEF Tree

\* Only the leaf that is replaced changes.
LEMMA LeafUpdate ==
    ASSUME tree \in Tree, NEW d \in Dests, NEW k, NEW l,
           \/ tree' = tree
           \/ tree' = [tree EXCEPT !.leaf[d] = l]
           \/ tree' = [tree EXCEPT !.dir[d] = k, !.leaf[d] = l]
    PROVE  \A e \in Dests : tree'.leaf[e] \in {tree.leaf[e], l}
  <1>1. /\ tree.leaf \in [Dests -> Leaf]
        /\ tree = [base |-> tree.base, dir |-> tree.dir, leaf |-> tree.leaf]
    BY DEF Tree
  <1>2. tree'.leaf \in {tree.leaf, [tree.leaf EXCEPT ![d] = l]}
    BY <1>1
  <1> QED
    BY <1>1, <1>2

\* A step that leaves tree, plan and steady alone, and starts no work, keeps
\* the checked targets valid.
LEMMA CheckedKept ==
    ASSUME CheckedInv, UNCHANGED <<tree, plan, steady>>,
           pc' \in Working => pc \in Working
    PROVE  CheckedInv'
  BY DEF CheckedInv, Valid, Linked, Dests

\* Outside the writing of an output there are no swaps and no temporary file.
LEMMA SwapKept ==
    ASSUME IInv, UNCHANGED temp, pc \notin Checked, pc' \notin Checked
    PROVE  SwapInv'
  BY DEF IInv, TypeOK, TempInv, SwapInv, StrayInv, Checked, Open

\* When an output is done with, neither is left.
LEMMA SwapEnds ==
    ASSUME tmp' = None, swaps' = 0
    PROVE  StrayInv' /\ (pc' \notin Checked => SwapInv')
  BY DEF SwapInv, StrayInv

\* Going on with the next output, with or without an error.
LEMMA NextKeeps ==
    ASSUME IInv, pc \in Writing, NextOutput, UNCHANGED <<mode, todo, seen, victims>>
    PROVE  /\ LocalInv' /\ SwapInv' /\ (NoTornMirror' => TempInv')
           /\ pc' = "output" /\ outs' \in Seq(Output) /\ temp' \in Leaf \X BOOLEAN \X Nat
  <1>1. /\ Tail(outs) \in Seq(Output)
        /\ \A i \in 1..Len(Tail(outs)) : seen[Tail(outs)[i].of] \in Portable
    BY OutsTail DEF IInv, LocalInv
  <1>2. pc' = "output" /\ outs' = Tail(outs) /\ tmp' = None /\ astray' = FALSE /\ swaps' = 0
    BY DEF NextOutput
  <1>3. LocalInv'
    BY <1>1, <1>2 DEF IInv, LocalInv, Writing, Checked, Open
  <1>4. SwapInv'
    BY <1>2, SwapEnds DEF Checked, Open
  <1>5. NoTornMirror' => TempInv'
    BY <1>2 DEF TempInv, None, Odd
  <1> QED
    BY <1>1, <1>2, <1>3, <1>4, <1>5 DEF Leaf

\* The output being written, and where its temporary file is.
LEMMA WritingHead ==
    ASSUME IInv, pc \in Writing
    PROVE  /\ outs # <<>> /\ Head(outs) \in Output /\ Head(outs).dest \in Dests
           /\ Place \in Dests \cup {"source"} \X Names
  <1>1. outs # <<>> /\ Head(outs) \in Output /\ Head(outs).dest \in Dests
    BY OutsTail DEF IInv, LocalInv, Output
  <1> QED
    BY <1>1 DEF Place, Dests

\* A step that gives up the output being written keeps the invariant.
LEMMA AbandonInv ==
    ASSUME IInv, pc \in Writing, Abandon, events' \in 0..MaxEvents,
           UNCHANGED <<sources, tree, todo, seen, expected, roots, victims, pending,
                       fixed, steady>>
    PROVE  IInv'
  <1>1. NextOutput /\ failed'
    BY DEF Abandon
  <1>2. LocalInv' /\ SwapInv' /\ TempInv'
    BY <1>1, NextKeeps DEF IInv, TempInv, NoTornMirror, fixed
  <1>3. litter' \subseteq Dests \cup {"source"} \X Names
    BY WritingHead DEF Abandon, IInv, TypeOK
  <1>4. TypeOK'
    <2>1. outs' \in Seq(Output) /\ tmp' \in Leaf /\ astray' \in BOOLEAN /\ swaps' \in Nat
      BY <1>1, NextKeeps DEF fixed
    <2>2. pc' = "output" /\ failed' = TRUE
      BY <1>1 DEF NextOutput, Abandon
    <2> QED
      BY <1>3, <2>1, <2>2 DEF IInv, TypeOK, sources, fixed
  <1>5. CheckedInv'
    BY <1>1, CheckedKept DEF IInv, NextOutput, fixed, Working, Writing, Checked, Open
  <1> QED
    BY <1>2, <1>4, <1>5 DEF IInv

\* Making a directory, or installing anything but an odd file, keeps every
\* valid destination valid.
LEMMA ValidKept ==
    ASSUME tree \in Tree, NEW d \in Dests, NEW k \in {"absent", "dir"},
           NEW l \in Leaf, l # Odd, NEW e \in Dests, Valid(e),
           \/ tree' = tree
           \/ tree' = [tree EXCEPT !.dir[d] = k]
           \/ tree' = [tree EXCEPT !.leaf[d] = l]
           \/ tree' = [tree EXCEPT !.dir[d] = k, !.leaf[d] = l]
    PROVE  Valid(e)'
  <1>0. /\ tree.dir \in [Dests -> {"absent", "dir", "link"}]
        /\ tree.leaf \in [Dests -> Leaf]
        /\ tree = [base |-> tree.base, dir |-> tree.dir, leaf |-> tree.leaf]
    BY DEF Tree
  <1>1. tree'.base = tree.base
    BY <1>0
  <1>2. tree'.dir[e] \in {tree.dir[e], k}
    <2>1. tree'.dir \in {tree.dir, [tree.dir EXCEPT ![d] = k]}
      BY <1>0
    <2> QED
      BY <1>0, <2>1
  <1>3. tree'.leaf[e] \in {tree.leaf[e], l}
    <2>1. tree'.leaf \in {tree.leaf, [tree.leaf EXCEPT ![d] = l]}
      BY <1>0
    <2> QED
      BY <1>0, <2>1
  <1>4. Valid(e)' <=> tree'.base[e[1]] # "link" /\ tree'.dir[e] # "link" /\ tree'.leaf[e] # Odd
    BY DEF Valid, Linked, Odd
  <1>5. tree.base[e[1]] # "link" /\ tree.dir[e] # "link" /\ tree.leaf[e] # Odd
    BY DEF Valid, Linked
  <1> QED
    BY <1>1, <1>2, <1>3, <1>4, <1>5

\* Every target of a manifest is a destination.
LEMMA TargetsType ==
    ASSUME NEW sf
    PROVE  Targets(sf) \subseteq Dests
  BY DEF Targets, TargetsOf

\* The targets that are checked cover all that the run goes on to write.
LEMMA AskedAreTargets ==
    ASSUME NEW sf \in Surface
    PROVE  Asked(sf) \subseteq Targets(sf)
  <1> SUFFICES ASSUME NEW i \in DOMAIN sf.skills, NEW o \in OutputSet(sf.skills[i])
               PROVE  o.dest \in Targets(sf)
    BY DEF Asked
  <1>1. sf.skills[i] \in SkillEntry
    BY DEF Surface
  <1>2. Outputs(sf.skills[i]) \in Seq(Output)
    BY <1>1, OutputsType
  <1>3. PICK j \in 1..Len(Outputs(sf.skills[i])) : o = Outputs(sf.skills[i])[j]
    BY <1>2 DEF OutputSet
  <1>4. o.dest \in TargetsOf(sf.skills[i])
    BY <1>1, <1>3, OutputsType
  <1> QED
    BY <1>4 DEF Targets

-----------------------------------------------------------------------------
(* Every step preserves the invariant, one lemma for each part of a run.   *)

LEMMA BeginInv ==
    ASSUME IInv, NEW m \in Modes, Begin(m)
    PROVE  IInv'
  <1> USE DEF IInv
  <1>1. TypeOK'
    <2>1. surface \in Surface
      BY SurfacesAssumption DEF TypeOK
    <2> QED
      BY <2>1 DEF TypeOK, Begin, sources, Surface, Parses
  <1>2. LocalInv' /\ TempInv' /\ CheckedInv'
    BY DEF LocalInv, TempInv, NoTornMirror, CheckedInv, Begin, sources, Writing, Checked, Open, Working
  <1>3. SwapInv'
    BY SwapKept DEF Begin, Checked, Open
  <1> QED
    BY <1>1, <1>2, <1>3

LEMMA ValidateInv ==
    ASSUME IInv, Validate
    PROVE  IInv'
  <1> USE DEF IInv
  <1>1. TypeOK'
    BY DEF TypeOK, Validate, sources, fixed
  <1>2. LocalInv' /\ TempInv'
    BY DEF LocalInv, TempInv, NoTornMirror, Validate, sources, fixed, Writing, Checked, Open
  <1>3. CheckedInv'
    BY DEF CheckedInv, Validate, Valid, Linked, fixed, Working, Writing, Checked, Open
  <1>4. SwapInv'
    BY SwapKept DEF Validate, Checked, Open
  <1> QED
    BY <1>1, <1>2, <1>3, <1>4

LEMMA ReadInv ==
    ASSUME IInv, ValidatorMissing \/ ReadSkill \/ NextSkill \/ StartPurge
    PROVE  IInv'
  <1> USE DEF IInv
  <1>1. CheckedInv'
    BY CheckedKept
    DEF ValidatorMissing, ReadSkill, NextSkill, StartPurge, fixed, progress, Working, Writing, Checked, Open
  <1>6. SwapInv'
    BY SwapKept DEF ValidatorMissing, ReadSkill, NextSkill, StartPurge, progress, Checked, Open
  <1>2. CASE ValidatorMissing
    <2>1. TypeOK'
      <3>1. events' \in 0..MaxEvents
        BY <1>2, MaxEventsAssumption DEF TypeOK, ValidatorMissing
      <3> QED
        BY <1>2, <3>1 DEF TypeOK, ValidatorMissing, sources, progress, fixed
    <2>2. LocalInv' /\ TempInv'
      BY <1>2 DEF LocalInv, TempInv, NoTornMirror, ValidatorMissing, progress, fixed, Writing, Checked, Open
    <2> QED
      BY <1>1, <1>6, <2>1, <2>2
  <1>3. CASE ReadSkill
    <2>1. Head(todo) \in SkillEntry /\ Tail(todo) \in Seq(SkillEntry)
      BY <1>3, HeadTailProperties DEF TypeOK, ReadSkill, IsPortable, OtherSkills
    <2>2. /\ Outputs(Head(todo)) \in Seq(Output)
          /\ \A i \in 1..Len(Outputs(Head(todo))) : Outputs(Head(todo))[i].of = Head(todo).name
      BY <2>1, OutputsType
    <2>3. TypeOK'
      <3>1. seen' \in [Names -> Texts \cup {Absent}]
        BY <1>3, TextsAssumption DEF TypeOK, ReadSkill, IsPortable, OtherSkills
      <3>2. todo' \in Seq(SkillEntry) /\ outs' \in Seq(Output)
        BY <1>3, <2>1, <2>2 DEF TypeOK, ReadSkill, IsPortable, OtherSkills
      <3>3. pc' \in {"skill", "output"} /\ failed' \in BOOLEAN
        BY <1>3 DEF TypeOK, ReadSkill, IsPortable, OtherSkills
      <3> QED
        BY <1>3, <3>1, <3>2, <3>3 DEF TypeOK, ReadSkill, IsPortable, OtherSkills, sources, fixed
    <2>4. LocalInv'
      <3>1. Head(todo).name \in Names
        BY <2>1 DEF SkillEntry
      <3>2. \A i \in 1..Len(outs') : seen'[outs'[i].of] \in Portable
        BY <1>3, <2>2, <3>1 DEF TypeOK, LocalInv, ReadSkill, IsPortable
      <3> QED
        BY <1>3, <3>2 DEF LocalInv, ReadSkill, fixed, Writing, Checked, Open
    <2>5. TempInv'
      BY <1>3 DEF TempInv, NoTornMirror, Open, ReadSkill
    <2> QED
      BY <1>1, <1>6, <2>3, <2>4, <2>5
  <1>4. CASE NextSkill
    <2>1. Tail(todo) \in Seq(SkillEntry)
      BY <1>4, HeadTailProperties DEF TypeOK, LocalInv, NextSkill
    <2>2. TypeOK'
      BY <1>4, <2>1 DEF TypeOK, NextSkill, OtherSkills, sources, report, fixed
    <2>3. LocalInv' /\ TempInv'
      BY <1>4 DEF LocalInv, TempInv, NoTornMirror, Open, NextSkill, fixed, Writing, Checked
    <2> QED
      BY <1>1, <1>6, <2>2, <2>3
  <1>5. CASE StartPurge
    <2>1. <<"claude", "plugin">> \in Seq(Roots)
      BY DEF Roots
    <2>2. TypeOK'
      BY <1>5, <2>1 DEF TypeOK, StartPurge, sources, report, fixed
    <2>3. LocalInv' /\ TempInv'
      BY <1>5 DEF LocalInv, TempInv, NoTornMirror, Open, StartPurge, fixed, Writing, Checked
    <2> QED
      BY <1>1, <1>6, <2>2, <2>3
  <1> QED
    BY <1>2, <1>3, <1>4, <1>5

LEMMA SyncInv ==
    ASSUME IInv, SyncContent
    PROVE  IInv'
  <1> USE DEF IInv
  <1>1. /\ Head(outs) \in Output /\ Tail(outs) \in Seq(Output)
        /\ \A i \in 1..Len(Tail(outs)) : seen[Tail(outs)[i].of] \in Portable
    BY OutsTail DEF SyncContent
  <1>2. TypeOK'
    BY <1>1 DEF TypeOK, SyncContent, sources, fixed, Output
  <1>3. LocalInv'
    BY <1>1 DEF LocalInv, SyncContent, fixed, Writing, Checked, Open
  <1>4. TempInv'
    BY DEF TempInv, NoTornMirror, Open, SyncContent
  <1>5. CheckedInv'
    BY CheckedKept DEF SyncContent, fixed, Working, Writing
  <1>6. SwapInv'
    BY SwapKept DEF SyncContent, Checked, Open
  <1> QED
    BY <1>2, <1>3, <1>4, <1>5, <1>6

LEMMA MakeDirInv ==
    ASSUME IInv, MakeDir
    PROVE  IInv'
  <1> USE DEF IInv
  <1> DEFINE d == Head(outs).dest
  <1>1. pc = "mkdir" /\ pc' = "check" /\ outs # <<>> /\ d \in Dests
    BY WritingHead DEF MakeDir, Writing
  <1>2. tree' \in Tree /\ tree' \in {tree, [tree EXCEPT !.dir[d] = "dir"]}
    BY <1>1, TreeUpdates DEF MakeDir, TypeOK
  <1>3. TypeOK'
    BY <1>1, <1>2 DEF TypeOK, MakeDir, sources, fixed, report
  <1>4. LocalInv'
    BY <1>1 DEF LocalInv, MakeDir, fixed, Writing
  <1>5. TempInv'
    <2>1. tree'.leaf = tree.leaf
      BY <1>1, <1>2 DEF TypeOK, Tree
    <2> QED
      BY <1>1, <2>1 DEF TempInv, NoTornMirror, Open, MakeDir
  <1>6. CheckedInv'
    <2> SUFFICES ASSUME steady', NEW e \in Targets(plan) PROVE Valid(e)'
      BY DEF CheckedInv, MakeDir, fixed
    <2>1. e \in Dests
      BY TargetsType, SurfacesAssumption DEF TypeOK
    <2>2. Valid(e)
      BY DEF CheckedInv, MakeDir, Working, Writing
    <2>3. None \in Leaf /\ None # Odd
      BY DEF Leaf, None, Odd
    <2> QED
      BY <1>1, <1>2, <2>1, <2>2, <2>3, ValidKept DEF TypeOK
  <1>7. SwapInv'
    BY <1>1, SwapKept DEF MakeDir, Checked, Open
  <1> QED
    BY <1>3, <1>4, <1>5, <1>6, <1>7

LEMMA CheckTargetInv ==
    ASSUME IInv, CheckTarget
    PROVE  IInv'
  <1> USE DEF IInv
  <1>1. CASE Valid(Head(outs).dest)
    <2>1. /\ pc = "check" /\ pc' = "create" /\ tmp = None /\ swaps = 0 /\ ~Here
          /\ UNCHANGED <<sources, tree, todo, outs, seen, expected, temp, roots, victims,
                         report, fixed, litter, steady, events>>
      BY <1>1 DEF CheckTarget, TypeOK, TempInv, SwapInv, Here, Valid, Open, Checked, report
    <2>2. TypeOK'
      BY <2>1 DEF TypeOK, sources, report, fixed
    <2>3. LocalInv' /\ TempInv'
      BY <2>1 DEF LocalInv, TempInv, NoTornMirror, Open, Checked, Writing, fixed
    <2>4. SwapInv'
      BY <2>1 DEF SwapInv, StrayInv, Here, Linked
    <2>5. CheckedInv'
      BY <2>1, CheckedKept DEF fixed, Working, Writing, Checked
    <2> QED
      BY <2>2, <2>3, <2>4, <2>5
  <1>2. CASE ~Valid(Head(outs).dest)
    <2>1. pc \in Writing /\ Abandon /\ events' \in 0..MaxEvents
      BY <1>2 DEF CheckTarget, Writing, TypeOK
    <2>2. UNCHANGED <<sources, tree, todo, seen, expected, roots, victims, pending, fixed,
                      steady>>
      BY DEF CheckTarget
    <2> QED
      BY <2>1, <2>2, AbandonInv
  <1> QED
    BY <1>1, <1>2

LEMMA CreateTempInv ==
    ASSUME IInv, CreateTemp
    PROVE  IInv'
  <1> USE DEF IInv
  <1>1. CASE Leads(Head(outs).dest)
    <2>1. /\ pc = "create" /\ pc' = "fill" /\ tmp' = Torn /\ astray' = Here
          /\ UNCHANGED <<sources, tree, todo, outs, seen, expected, swaps, roots, victims,
                         report, fixed, litter, steady, events>>
      BY <1>1 DEF CreateTemp, Here, report
    <2>2. TypeOK'
      <3>1. astray' \in BOOLEAN
        BY <2>1 DEF Here, Linked
      <3>2. tmp' \in Leaf
        BY <2>1 DEF Leaf
      <3> QED
        BY <2>1, <3>1, <3>2 DEF TypeOK, sources, report, fixed
    <2>3. LocalInv' /\ TempInv'
      BY <2>1 DEF LocalInv, TempInv, NoTornMirror, Open, Checked, Writing, fixed, Torn, Odd, None
    <2>4. SwapInv'
      <3>1. Here' = Here
        BY <2>1 DEF Here, Linked
      <3> QED
        BY <2>1, <3>1 DEF SwapInv, StrayInv, Checked, Open
    <2>5. CheckedInv'
      BY <2>1, CheckedKept DEF fixed, Working, Writing, Checked, Open
    <2> QED
      BY <2>2, <2>3, <2>4, <2>5
  <1>2. CASE ~Leads(Head(outs).dest)
    <2>1. pc \in Writing /\ Abandon /\ events' \in 0..MaxEvents
      BY <1>2 DEF CreateTemp, Writing, Checked, TypeOK
    <2>2. UNCHANGED <<sources, tree, todo, seen, expected, roots, victims, pending, fixed,
                      steady>>
      BY DEF CreateTemp
    <2> QED
      BY <2>1, <2>2, AbandonInv
  <1> QED
    BY <1>1, <1>2

LEMMA WriteTempInv ==
    ASSUME IInv, WriteTemp
    PROVE  IInv'
  <1> USE DEF IInv
  <1>1. Content(Head(outs)) \in Rendering
    BY OutsTail DEF WriteTemp, LocalInv, Writing, Checked, Open, Content
  <1>2. /\ tmp' = None \/ tmp' \in Rendering
        /\ tmp' \in Leaf /\ tmp' # Odd /\ (tmp' # None => tmp # None)
    BY <1>1 DEF WriteTemp, Filled, Leaf, Rendering, None, Odd
  <1>3. TypeOK'
    BY <1>2 DEF TypeOK, WriteTemp, sources, report, fixed
  <1>4. LocalInv' /\ TempInv'
    BY <1>2 DEF LocalInv, TempInv, NoTornMirror, Open, WriteTemp, fixed, Writing, Checked
  <1>5. CheckedInv'
    BY CheckedKept DEF WriteTemp, fixed, Working, Writing, Checked, Open
  <1>6. SwapInv'
    <2>1. Here' = Here
      BY DEF WriteTemp, Here, Linked
    <2> QED
      BY <1>2, <2>1 DEF SwapInv, StrayInv, WriteTemp, Checked, Open
  <1> QED
    BY <1>3, <1>4, <1>5, <1>6

LEMMA RecheckInv ==
    ASSUME IInv, Recheck
    PROVE  IInv'
  <1> USE DEF IInv
  <1>1. CASE Valid(Head(outs).dest)
    <2>1. /\ pc = "recheck" /\ pc' = "rename" /\ ~Here
          /\ UNCHANGED <<sources, tree, todo, outs, seen, expected, temp, roots, victims,
                         report, fixed, litter, steady, events>>
      BY <1>1 DEF Recheck, Here, Valid, report
    <2>2. TypeOK'
      BY <2>1 DEF TypeOK, sources, report, fixed
    <2>3. LocalInv' /\ TempInv'
      BY <2>1 DEF LocalInv, TempInv, NoTornMirror, Open, Checked, Writing, fixed
    <2>4. SwapInv'
      <3>1. ~Here'
        BY <2>1 DEF Here, Linked
      <3> QED
        BY <2>1, <3>1 DEF SwapInv, StrayInv, Checked, Open
    <2>5. CheckedInv'
      BY <2>1, CheckedKept DEF fixed, Working, Writing, Checked, Open
    <2> QED
      BY <2>2, <2>3, <2>4, <2>5
  <1>2. CASE ~Valid(Head(outs).dest)
    <2>1. pc \in Writing /\ Abandon /\ events' \in 0..MaxEvents
      BY <1>2 DEF Recheck, Writing, Checked, Open, TypeOK
    <2>2. UNCHANGED <<sources, tree, todo, seen, expected, roots, victims, pending, fixed,
                      steady>>
      BY DEF Recheck
    <2> QED
      BY <2>1, <2>2, AbandonInv
  <1> QED
    BY <1>1, <1>2

\* Where Rename puts the rendering: over the mirror, or over the canonical file.
LEMMA Installed ==
    ASSUME IInv, pc = "rename", Reachable, Install(Head(outs).dest)
    PROVE  LET d == Head(outs).dest
           IN /\ tmp \in Rendering
              /\ \/ tree' = tree /\ canonical' = [canonical EXCEPT ![d[2]] = AsSource[tmp]]
                 \/ tree' = [tree EXCEPT !.leaf[d] = tmp] /\ canonical' = canonical
              /\ canonical' # canonical => swaps >= 3
              /\ steady => tree' = [tree EXCEPT !.leaf[d] = tmp] /\ canonical' = canonical
  <1>1. tmp \in Rendering
    BY DEF Reachable, IInv, TempInv
  <1>2. CASE Linked(Head(outs).dest)
    <2>1. swaps >= 3
      BY <1>2 DEF IInv, SwapInv, StrayInv, Here, Reachable
    <2>2. ~steady
      BY <2>1 DEF IInv, SwapInv, TypeOK
    <2> QED
      BY <1>1, <1>2, <2>1, <2>2 DEF Install
  <1>3. CASE ~Linked(Head(outs).dest)
    BY <1>1, <1>3 DEF Install
  <1> QED
    BY <1>2, <1>3

LEMMA RenameInv ==
    ASSUME IInv, Rename
    PROVE  IInv'
  <1> USE DEF IInv
  <1> DEFINE d == Head(outs).dest
             found == Reachable /\ (Linked(d) \/ tree.leaf[d] # Odd)
  <1>1. pc = "rename" /\ pc \in Writing /\ outs # <<>> /\ d \in Dests /\ d[2] \in Names
    BY WritingHead DEF Rename, Writing, Checked, Open, Dests
  <1>2. CASE ~found
    <2>1. Abandon /\ events' \in 0..MaxEvents /\ UNCHANGED <<canonical, tree>>
      BY <1>2 DEF Rename, TypeOK
    <2>2. UNCHANGED <<surface, todo, seen, expected, roots, victims, pending, fixed, steady>>
      BY DEF Rename
    <2> QED
      BY <1>1, <2>1, <2>2, AbandonInv DEF sources
  <1>3. CASE found
    <2>1. PICK synced \in (IF events < MaxEvents THEN BOOLEAN ELSE {TRUE}) :
                /\ Install(d) /\ NextOutput
                /\ failed' = (failed \/ ~synced)
                /\ events' = IF synced THEN events ELSE events + 1
                /\ UNCHANGED litter
      BY <1>3 DEF Rename
    <2>2. events' \in 0..MaxEvents
      <3>1. synced \/ events < MaxEvents
        BY <2>1
      <3> QED
        BY <2>1, <3>1, MaxEventsAssumption DEF TypeOK
    <2>3. /\ tmp \in Rendering
          /\ \/ tree' = tree /\ canonical' = [canonical EXCEPT ![d[2]] = AsSource[tmp]]
             \/ tree' = [tree EXCEPT !.leaf[d] = tmp] /\ canonical' = canonical
      BY <1>1, <1>3, <2>1, Installed
    <2>4. tree' = tree \/ tree' = [tree EXCEPT !.leaf[d] = tmp]
      BY <2>3
    <2>5. tmp \in Leaf /\ tmp # Odd /\ tmp # Torn
      BY <2>3 DEF Leaf, Rendering, Odd, Torn
    <2>50. tree \in Tree
      BY DEF TypeOK
    <2>6. tree' \in Tree
      BY <1>1, <2>4, <2>5, <2>50, TreeUpdates
    <2>7. canonical' \in [Names -> Texts \cup {Absent}]
      <3>1. AsSource[tmp] \in Texts
        BY <2>3, AsSourceAssumption
      <3> QED
        BY <1>1, <2>3, <3>1 DEF TypeOK
    <2>8. UNCHANGED <<surface, todo, seen, expected, roots, victims, pending, fixed, steady>>
      BY DEF Rename
    <2>9. NoTornMirror'
      <3>1. \A e \in Dests : tree'.leaf[e] \in {tree.leaf[e], tmp}
        BY <1>1, <2>4, LeafUpdate DEF TypeOK
      <3> QED
        BY <2>5, <3>1 DEF TempInv, NoTornMirror, Torn
    <2>10. LocalInv' /\ SwapInv' /\ TempInv'
      BY <1>1, <2>1, <2>8, <2>9, NextKeeps DEF fixed
    <2>11. TypeOK'
      <3>1. outs' \in Seq(Output) /\ tmp' \in Leaf /\ astray' \in BOOLEAN /\ swaps' \in Nat
        BY <1>1, <2>1, <2>8, NextKeeps DEF fixed
      <3>2. pc' = "output" /\ failed' \in BOOLEAN
        BY <2>1 DEF NextOutput
      <3> QED
        BY <2>1, <2>2, <2>6, <2>7, <2>8, <3>1, <3>2 DEF TypeOK, fixed
    <2>12. CheckedInv'
      <3> SUFFICES ASSUME steady', NEW e \in Targets(plan) PROVE Valid(e)'
        BY <2>8 DEF CheckedInv, fixed
      <3>1. e \in Dests
        BY TargetsType, SurfacesAssumption DEF TypeOK
      <3>2. Valid(e)
        BY <1>1, <2>8 DEF CheckedInv, Working
      <3> QED
        BY <1>1, <2>4, <2>5, <3>1, <3>2, ValidKept DEF TypeOK
    <2> QED
      BY <2>10, <2>11, <2>12
  <1> QED
    BY <1>2, <1>3

LEMMA WriteFailsInv ==
    ASSUME IInv, WriteFails
    PROVE  IInv'
  <1>1. events' \in 0..MaxEvents
    BY MaxEventsAssumption DEF IInv, TypeOK, WriteFails
  <1>2. pc \in Writing /\ Abandon
    BY DEF WriteFails, Writing, Checked, Open
  <1>3. UNCHANGED <<sources, tree, todo, seen, expected, roots, victims, pending, fixed, steady>>
    BY DEF WriteFails
  <1> QED
    BY <1>1, <1>2, <1>3, AbandonInv

LEMMA ListStaleInv ==
    ASSUME IInv, ListStale
    PROVE  IInv'
  <1> USE DEF IInv
  <1>1. TypeOK'
    <2>1. Tail(roots) \in Seq(Roots) \/ roots = <<>>
      BY HeadTailProperties DEF TypeOK
    <2>2. roots # <<>> => Head(roots) \in Roots
      BY HeadTailProperties DEF TypeOK
    <2>3. roots # <<>> => Stale(Head(roots)) \subseteq Dests
      <3> SUFFICES ASSUME roots # <<>>, NEW n \in Listing(Head(roots))
                   PROVE  <<Head(roots), n>> \in Dests
        BY DEF Stale
      <3> QED
        BY <2>2 DEF Listing, Dests
    <2>4. victims' \subseteq Dests /\ roots' \in Seq(Roots) /\ pending' \in BOOLEAN
      BY <2>1, <2>3 DEF TypeOK, ListStale
    <2>5. pc' \in {"purge", "done"}
      BY DEF ListStale
    <2> QED
      BY <2>4, <2>5 DEF TypeOK, ListStale, sources, fixed
  <1>2. LocalInv' /\ TempInv'
    BY DEF LocalInv, TempInv, NoTornMirror, Open, ListStale, fixed, Writing, Checked
  <1>3. CheckedInv'
    BY CheckedKept DEF ListStale, fixed, Working
  <1>5. SwapInv'
    BY SwapKept DEF ListStale, Checked, Open
  <1> QED
    BY <1>1, <1>2, <1>3, <1>5

LEMMA ListFailsInv ==
    ASSUME IInv, ListFails
    PROVE  IInv'
  <1> USE DEF IInv
  <1>1. events' \in 0..MaxEvents
    BY MaxEventsAssumption DEF TypeOK, ListFails
  <1>2. TypeOK'
    BY <1>1, HeadTailProperties DEF TypeOK, ListFails, sources, fixed
  <1>3. LocalInv' /\ TempInv'
    BY DEF LocalInv, TempInv, NoTornMirror, Open, ListFails, fixed, Writing, Checked
  <1>4. CheckedInv'
    BY CheckedKept DEF ListFails, fixed, Working
  <1>5. SwapInv'
    BY SwapKept DEF ListFails, Checked, Open
  <1> QED
    BY <1>2, <1>3, <1>4, <1>5

LEMMA RemoveStaleInv ==
    ASSUME IInv, NEW d \in Dests, RemoveStale(d)
    PROVE  IInv'
  <1> USE DEF IInv
  <1>1. /\ \/ tree' = tree
           \/ tree' = [tree EXCEPT !.dir[d] = "absent", !.leaf[d] = None]
        /\ \/ canonical' = canonical
           \/ canonical' = [canonical EXCEPT ![d[2]] = Absent]
        /\ litter' \subseteq litter
        /\ \/ events' = events
           \/ events < MaxEvents /\ events' = events + 1
        /\ failed' \in {failed, TRUE}
    BY DEF RemoveStale
  <1>2. tree' \in Tree
    <2>1. tree \in Tree /\ None \in Leaf
      BY DEF TypeOK, Leaf
    <2>2. [tree EXCEPT !.dir[d] = "absent", !.leaf[d] = None] \in Tree
      BY <2>1, TreeUpdates
    <2> QED
      BY <1>1, <2>1, <2>2
  <1>3. TypeOK'
    <2>1. canonical' \in [Names -> Texts \cup {Absent}]
      BY <1>1 DEF TypeOK
    <2>2. events' \in 0..MaxEvents
      BY <1>1, MaxEventsAssumption DEF TypeOK
    <2> QED
      BY <1>1, <1>2, <2>1, <2>2 DEF RemoveStale, TypeOK, fixed
  <1>4. LocalInv'
    BY DEF LocalInv, RemoveStale, fixed, Writing, Checked, Open
  <1>5. TempInv'
    <2>1. \A e \in Dests : tree'.leaf[e] \in {tree.leaf[e], None}
      BY <1>1, LeafUpdate DEF TypeOK
    <2> QED
      BY <2>1 DEF TempInv, NoTornMirror, Open, RemoveStale, None, Torn
  <1>6. CheckedInv'
    <2> SUFFICES ASSUME steady', NEW e \in Targets(plan) PROVE Valid(e)'
      BY DEF CheckedInv, RemoveStale, fixed
    <2>1. e \in Dests
      BY TargetsType, SurfacesAssumption DEF TypeOK
    <2>2. Valid(e)
      BY DEF CheckedInv, RemoveStale, Working
    <2>3. None \in Leaf /\ None # Odd
      BY DEF Leaf, None, Odd
    <2> QED
      BY <1>1, <2>1, <2>2, <2>3, ValidKept DEF TypeOK
  <1>7. SwapInv'
    BY SwapKept DEF RemoveStale, Checked, Open
  <1> QED
    BY <1>3, <1>4, <1>5, <1>6, <1>7

LEMMA EndInv ==
    ASSUME IInv, Return \/ Crash
    PROVE  IInv'
  <1> USE DEF IInv
  <1>1. /\ events' \in 0..MaxEvents
        /\ seen' \in [Names -> Texts \cup {Absent}]
        /\ Len(outs') = 0 /\ outs' \in Seq(Output)
        /\ todo' \in Seq(SkillEntry) /\ roots' \in Seq(Roots) /\ tmp' \in Leaf
        /\ astray' \in BOOLEAN /\ swaps' \in Nat /\ pc' = "idle"
    <2>1. Forget
      BY DEF Return, Crash
    <2>2. events' \in 0..MaxEvents
      BY MaxEventsAssumption DEF TypeOK, Return, Crash
    <2>3. /\ outs' = <<>> /\ todo' = <<>> /\ roots' = <<>> /\ tmp' \in Leaf
          /\ astray' = FALSE /\ swaps' = 0 /\ pc' = "idle"
      BY <2>1 DEF Forget, Leaf
    <2>4. seen' \in [Names -> Texts \cup {Absent}]
      BY <2>1 DEF Forget
    <2>5. Len(outs') = 0 /\ outs' \in Seq(Output) /\ todo' \in Seq(SkillEntry) /\ roots' \in Seq(Roots)
      BY <2>3
    <2> QED
      BY <2>2, <2>3, <2>4, <2>5
  <1>2. litter' \subseteq Dests \cup {"source"} \X Names
    <2>1. CASE Return
      BY <2>1 DEF Return, TypeOK
    <2>2. CASE Crash /\ tmp = None
      BY <2>2 DEF Crash, TypeOK
    <2>3. CASE Crash /\ tmp # None
      <3>1. pc \in Writing
        BY <2>3 DEF TempInv, Writing, Open
      <3> QED
        BY <2>3, <3>1, WritingHead DEF Crash, TypeOK
    <2> QED
      BY <2>1, <2>2, <2>3
  <1>3. TypeOK'
    BY <1>1, <1>2 DEF TypeOK, Return, Crash, Forget, sources, report, fixed
  <1>4. LocalInv' /\ TempInv' /\ CheckedInv'
    BY <1>1 DEF LocalInv, TempInv, NoTornMirror, CheckedInv, Return, Crash, Forget,
                Writing, Checked, Open, Working, None, Odd, Torn
  <1>5. SwapInv'
    BY SwapEnds DEF Return, Crash, Forget, Checked, Open
  <1> QED
    BY <1>3, <1>4, <1>5

\* The temporary files that edits take away leave the run's own state alone.
LEMMA LoseTempsType ==
    ASSUME TypeOK, NEW places, LoseTemps(places)
    PROVE  tmp' \in {tmp, None} /\ tmp' \in Leaf /\ litter' \subseteq litter
  BY DEF LoseTemps, TypeOK, Leaf

\* An edit moves nothing of the run but its temporary file, and ends steady.
LEMMA EditedKeeps ==
    ASSUME IInv, Edited, surface' \in Surfaces,
           canonical' \in [Names -> Texts \cup {Absent}],
           tree' \in Tree, NoTornMirror',
           tmp' \in {tmp, None}, litter' \subseteq litter,
           events' \in 0..MaxEvents, swaps' \in Nat, SwapInv'
    PROVE  IInv'
  <1>1. TypeOK'
    BY DEF Edited, IInv, TypeOK, Leaf, report, fixed
  <1>2. LocalInv' /\ TempInv' /\ CheckedInv'
    BY DEF Edited, IInv, LocalInv, TempInv, CheckedInv, report, fixed, Writing, Checked, Open, None, Odd
  <1> QED
    BY <1>1, <1>2 DEF IInv

\* One more event is within the bound.
LEMMA EventCounted ==
    ASSUME TypeOK, Event
    PROVE  events' \in 0..MaxEvents
  BY MaxEventsAssumption DEF Event, TypeOK

\* An edit that leaves the path of the mirror being written as it is.
LEMMA SwapSame ==
    ASSUME IInv, Edited, Here' <=> Here, UNCHANGED swaps, tmp' \in {tmp, None}
    PROVE  SwapInv'
  BY DEF IInv, SwapInv, StrayInv, Edited, Checked, Open

\* An edit that may swap it.
LEMMA SwapCounted ==
    ASSUME IInv, Edited, CountSwap, tmp' \in {tmp, None}, tmp' # None /\ ~astray => ~Here'
    PROVE  SwapInv' /\ swaps' \in Nat /\ events' \in 0..MaxEvents
  <1>1. TypeOK /\ swaps \in Nat /\ events \in 0..MaxEvents
    BY DEF IInv, TypeOK
  <1>2. UNCHANGED <<pc, outs, astray>> /\ ~steady'
    BY DEF Edited
  <1>3. Swapping <=> pc \in Checked /\ (Here' <=> ~Here)
    BY DEF Swapping, Checked, Open, Here, Linked
  <1>4. /\ IF Swapping THEN swaps' = swaps + 1 ELSE swaps' = swaps
        /\ events' = events \/ Event
    BY DEF CountSwap
  <1>5. swaps' \in Nat /\ events' \in 0..MaxEvents
    BY <1>1, <1>4, EventCounted
  <1>6. swaps' > 0 => ~steady' /\ pc' \in Checked
    BY <1>1, <1>2, <1>3, <1>4 DEF IInv, SwapInv
  <1>7. pc' \in Checked /\ Here' => swaps' >= 1
    BY <1>1, <1>2, <1>3, <1>4 DEF IInv, SwapInv
  <1>8. StrayInv'
    <2> SUFFICES ASSUME tmp' # None, astray
                 PROVE  /\ swaps' >= 1 /\ (~Here' => swaps' >= 2)
                        /\ pc = "rename" => swaps' >= 2 /\ (Here' => swaps' >= 3)
      BY <1>2 DEF StrayInv
    <2>1. tmp # None /\ pc \in Checked
      BY DEF IInv, TempInv, Checked, Open
    <2>2. /\ swaps >= 1 /\ (~Here => swaps >= 2)
          /\ pc = "rename" => swaps >= 2 /\ (Here => swaps >= 3)
      BY <2>1 DEF IInv, SwapInv, StrayInv
    <2>3. CASE Swapping
      <3>1. (Here' <=> ~Here) /\ swaps' = swaps + 1
        BY <1>3, <1>4, <2>3
      <3> QED
        BY <1>1, <2>2, <3>1
    <2>4. CASE ~Swapping
      <3>1. (Here' <=> Here) /\ swaps' = swaps
        BY <1>3, <1>4, <2>1, <2>4
      <3> QED
        BY <2>2, <3>1
    <2> QED
      BY <2>3, <2>4
  <1> QED
    BY <1>5, <1>6, <1>7, <1>8 DEF SwapInv

LEMMA EditInv ==
    ASSUME IInv, Edit
    PROVE  IInv'
  <1> USE DEF IInv
  <1>0. /\ tmp \in Leaf /\ tree \in Tree /\ NoTornMirror /\ swaps \in Nat
        /\ None # Torn /\ surface \in Surfaces
        /\ canonical \in [Names -> Texts \cup {Absent}]
    BY DEF TypeOK, TempInv, None, Torn
  <1>1. ASSUME NEW n \in Names, NEW text \in Texts \cup {Absent}, EditSkill(n, text)
        PROVE  IInv'
    <2>1. tmp' \in {tmp, None} /\ litter' \subseteq litter /\ events' \in 0..MaxEvents
      BY <1>1, LoseTempsType, EventCounted DEF EditSkill
    <2>2. NoTornMirror' /\ (Here' <=> Here)
      BY <1>0, <1>1 DEF EditSkill, Edited, NoTornMirror, Torn, Here, Linked
    <2>3. SwapInv'
      BY <1>1, <2>1, <2>2, SwapSame DEF EditSkill
    <2> QED
      BY <1>0, <1>1, <2>1, <2>2, <2>3, EditedKeeps DEF EditSkill
  <1>2. ASSUME NEW sf \in Surfaces, EditSurface(sf)
        PROVE  IInv'
    <2>1. tmp' = tmp /\ litter' = litter /\ events' \in 0..MaxEvents
      BY <1>2, EventCounted DEF EditSurface
    <2>2. NoTornMirror' /\ (Here' <=> Here)
      BY <1>0, <1>2 DEF EditSurface, Edited, NoTornMirror, Torn, Here, Linked
    <2>3. SwapInv'
      BY <1>2, <2>1, <2>2, SwapSame DEF EditSurface
    <2> QED
      BY <1>0, <1>2, <2>1, <2>2, <2>3, EditedKeeps DEF EditSurface
  <1>3. ASSUME NEW d \in Dests, NEW leaf \in {None, Link, Odd, Foreign}, EditMirror(d, leaf)
        PROVE  IInv'
    <2>1. leaf \in Leaf /\ leaf # Torn
      BY DEF Leaf, None, Link, Odd, Foreign, Torn
    <2>2. tree' = [tree EXCEPT !.leaf[d] = leaf]
      BY <1>3 DEF EditMirror
    <2>3. tree' \in Tree
      BY <1>0, <2>1, <2>2, TreeUpdates
    <2>4. NoTornMirror'
      <3>1. \A e \in Dests : tree'.leaf[e] \in {tree.leaf[e], leaf}
        BY <1>0, <2>2, LeafUpdate
      <3> QED
        BY <1>0, <2>1, <3>1 DEF NoTornMirror, Torn
    <2>5. Here' <=> Here
      <3>1. tree'.base = tree.base /\ tree'.dir = tree.dir
        BY <1>0, <2>2 DEF Tree
      <3> QED
        BY <1>3, <3>1 DEF EditMirror, Edited, Here, Linked
    <2>6. tmp' = tmp /\ litter' = litter /\ events' \in 0..MaxEvents
      BY <1>3, EventCounted DEF EditMirror
    <2>7. SwapInv'
      BY <1>3, <2>5, <2>6, SwapSame DEF EditMirror
    <2> QED
      BY <1>0, <1>3, <2>3, <2>4, <2>6, <2>7, EditedKeeps DEF EditMirror, sources
  <1>4. ASSUME NEW d \in Dests, NEW dir \in {"absent", "dir", "link"}, EditMirrorDir(d, dir)
        PROVE  IInv'
    <2>1. tree' = [tree EXCEPT !.dir[d] = dir, !.leaf[d] = None] /\ None \in Leaf
      BY <1>4 DEF EditMirrorDir, Leaf
    <2>2. tree' \in Tree
      BY <1>0, <2>1, TreeUpdates
    <2>3. NoTornMirror'
      <3>1. \A e \in Dests : tree'.leaf[e] \in {tree.leaf[e], None}
        BY <1>0, <2>1, LeafUpdate
      <3> QED
        BY <1>0, <3>1 DEF NoTornMirror, Torn, None
    <2>4. tmp' \in {tmp, None} /\ litter' \subseteq litter
      BY <1>4, LoseTempsType DEF EditMirrorDir
    <2>5. tmp' # None /\ ~astray => ~Here'
      <3> SUFFICES ASSUME tmp' # None, ~astray PROVE ~Here'
        OBVIOUS
      <3>1. tmp # None /\ Place \notin {d}
        BY <1>4 DEF EditMirrorDir, LoseTemps
      <3>2. outs' = outs /\ Head(outs).dest # d /\ ~Here
        BY <1>4, <3>1 DEF EditMirrorDir, Edited, Place, SwapInv, StrayInv
      <3>3. Head(outs).dest \in Dests
        BY <3>1, WritingHead DEF TempInv, Writing, Open
      <3>4. tree'.dir = [tree.dir EXCEPT ![d] = dir] /\ tree'.base = tree.base
        BY <1>0, <2>1 DEF Tree
      <3>5. tree'.dir[Head(outs).dest] = tree.dir[Head(outs).dest]
        BY <1>0, <3>2, <3>3, <3>4 DEF Tree
      <3> QED
        BY <3>2, <3>4, <3>5 DEF Here, Linked
    <2>6. SwapInv' /\ swaps' \in Nat /\ events' \in 0..MaxEvents
      BY <1>4, <2>4, <2>5, SwapCounted DEF EditMirrorDir
    <2> QED
      BY <1>0, <1>4, <2>2, <2>3, <2>4, <2>6, EditedKeeps DEF EditMirrorDir, sources
  <1>5. ASSUME NEW root \in Linkable, LinkRoot(root)
        PROVE  IInv'
    <2>1. root \in Roots
      BY LinkableAssumption
    <2> DEFINE below == {d \in Dests : d[1] = root}
    <2>2. /\ Edited /\ CountSwap /\ LoseTemps(below) /\ UNCHANGED sources
          /\ tree' = [base |-> [tree.base EXCEPT ![root] = "link"],
                      dir  |-> [d \in Dests |-> IF d \in below THEN "absent" ELSE tree.dir[d]],
                      leaf |-> [d \in Dests |-> IF d \in below THEN None ELSE tree.leaf[d]]]
      BY <1>5 DEF LinkRoot
    <2>3. tmp' \in {tmp, None} /\ litter' \subseteq litter
      BY <2>2, LoseTempsType
    <2>4. tree' \in Tree
      <3>1. /\ tree.base \in [Roots -> {"dir", "link"}]
            /\ tree.dir \in [Dests -> {"absent", "dir", "link"}]
            /\ tree.leaf \in [Dests -> Leaf] /\ None \in Leaf
        BY <1>0 DEF Tree, Leaf
      <3> QED
        BY <2>1, <2>2, <3>1 DEF Tree
    <2>5. NoTornMirror'
      <3>1. \A d \in Dests : tree'.leaf[d] \in {tree.leaf[d], None}
        BY <2>2
      <3> QED
        BY <1>0, <3>1 DEF NoTornMirror, Torn, None
    <2>6. tmp' # None /\ ~astray => ~Here'
      <3> SUFFICES ASSUME tmp' # None, ~astray PROVE ~Here'
        OBVIOUS
      <3> DEFINE h == Head(outs).dest
      <3>1. tmp # None /\ Place \notin below
        BY <2>2 DEF LoseTemps
      <3>2. outs' = outs /\ h \notin below /\ ~Linked(h)
        BY <2>2, <3>1 DEF Edited, Place, SwapInv, StrayInv, Here
      <3>3. h \in Dests
        BY <3>1, WritingHead DEF TempInv, Writing, Open
      <3>4. h[1] # root /\ h[1] \in Roots
        BY <3>2, <3>3 DEF Dests
      <3>5. tree'.base[h[1]] = tree.base[h[1]]
        BY <1>0, <2>2, <3>4 DEF Tree
      <3>6. tree'.dir[h] = tree.dir[h]
        BY <2>2, <3>2, <3>3
      <3> QED
        BY <3>2, <3>5, <3>6 DEF Here, Linked
    <2>7. SwapInv' /\ swaps' \in Nat /\ events' \in 0..MaxEvents
      BY <2>2, <2>3, <2>6, SwapCounted
    <2> QED
      BY <1>0, <2>2, <2>3, <2>4, <2>5, <2>7, EditedKeeps DEF sources
  <1> QED
    BY <1>1, <1>2, <1>3, <1>4, <1>5 DEF Edit

LEMMA StepInv == IInv /\ [Next]_vars => IInv'
  <1> SUFFICES ASSUME IInv, [Next]_vars PROVE IInv'
    OBVIOUS
  <1>1. ASSUME NEW m \in Modes, Begin(m) PROVE IInv'
    BY <1>1, BeginInv
  <1>2. CASE RunStep
    <2>1. ASSUME NEW d \in Dests, RemoveStale(d) PROVE IInv'
      BY <2>1, RemoveStaleInv
    <2> QED
      BY <1>2, <2>1, ValidateInv, ReadInv, SyncInv, MakeDirInv, CheckTargetInv, CreateTempInv,
         WriteTempInv, RecheckInv, RenameInv,
         WriteFailsInv, ListStaleInv, ListFailsInv, EndInv DEF RunStep
  <1>3. CASE Crash
    BY <1>3, EndInv
  <1>4. CASE Edit
    BY <1>4, EditInv
  <1>5. CASE UNCHANGED vars
    <2>1. TypeOK' /\ LocalInv' /\ TempInv' /\ CheckedInv'
      BY <1>5 DEF IInv, TypeOK, LocalInv, TempInv, NoTornMirror, CheckedInv, Valid, Linked,
                  vars, sources, progress, report, fixed, Odd, Torn, None
    <2>2. SwapInv'
      BY <1>5 DEF IInv, SwapInv, StrayInv, Here, Linked, vars, progress
    <2> QED
      BY <2>1, <2>2 DEF IInv
  <1> QED
    BY <1>1, <1>2, <1>3, <1>4, <1>5 DEF Next

\* Every state of every behaviour satisfies the inductive invariant: the run writes
\* what it has read, its temporary file lies where the mirror's path leads unless
\* somebody swapped that path, and checked targets stay valid.
THEOREM Invariance == Spec => []IInv
  BY InitInv, StepInv, PTL DEF Spec

-----------------------------------------------------------------------------
(* What follows from it.                                                   *)

\* The run's variables keep their types: whatever the manifest, the mirrors it
\* finds and the edits meanwhile, it only ever handles outputs of the manifest
\* it parsed, and texts it has read.
THEOREM TypeCorrect == Spec => []TypeOK
  <1>1. IInv => TypeOK
    BY DEF IInv
  <1> QED
    BY <1>1, Invariance, PTL

\* writeProjectionAtomic: no reader of a mirror ever finds half a file, not
\* after a crash and not when the directory is taken away between two steps.
THEOREM NeverTorn == Spec => []NoTornMirror
  <1>1. IInv => NoTornMirror
    BY DEF IInv, TempInv
  <1> QED
    BY <1>1, Invariance, PTL

\* Validation comes first (sync.go:425-427): in a repository nobody edits
\* during the run, the mirrors change only under a manifest all of whose
\* targets pass the check, and only in write mode.
THEOREM ChecksFirst == Spec => OnlyCheckedPlansWrite
  <1>1. IInv /\ [Next]_vars =>
            [RunStep /\ steady /\ tree' # tree =>
                mode = "write" /\ \A d \in Asked(plan) : Valid(d)]_vars
    <2> SUFFICES ASSUME IInv, RunStep, steady, tree' # tree
                 PROVE  mode = "write" /\ \A d \in Asked(plan) : Valid(d)
      OBVIOUS
    <2>1. MakeDir \/ Rename \/ \E d \in Dests : RemoveStale(d)
      BY DEF RunStep, Validate, ValidatorMissing, ReadSkill, NextSkill, SyncContent, CheckTarget,
             CreateTemp, WriteTemp,
             Recheck, WriteFails, StartPurge, ListStale, ListFails, Return
    <2>2. pc \in Working /\ mode = "write"
      BY <2>1 DEF IInv, LocalInv, MakeDir, Rename, RemoveStale, Working, Writing, Checked, Open
    <2>3. Asked(plan) \subseteq Targets(plan)
      BY AskedAreTargets, SurfacesAssumption DEF IInv, TypeOK
    <2> QED
      BY <2>2, <2>3 DEF IInv, CheckedInv
  <1> QED
    BY <1>1, Invariance, PTL DEF Spec, OnlyCheckedPlansWrite

-----------------------------------------------------------------------------
(* When the sources are safe.                                              *)

\* Every managed root receives at least one output of the manifest.
EveryRootUsed ==
    \A sf \in Surfaces : sf.ok =>
        \A root \in sf.managed : \E d \in Asked(sf) : d[1] = root

\* A run works on a manifest that parsed, and purges managed roots only.
PurgeInv ==
    /\ pc \in Working \cup {"validate"} => plan.ok
    /\ \A d \in victims : d[1] \in plan.managed

LEMMA PurgeInvInit == Init => PurgeInv
  BY DEF Init, Start, PurgeInv, Working, Writing, Checked, Open

LEMMA PurgeInvStep == IInv /\ PurgeInv /\ [Next]_vars => PurgeInv'
  <1> SUFFICES ASSUME IInv, PurgeInv, [Next]_vars PROVE PurgeInv'
    OBVIOUS
  <1>1. ASSUME NEW m \in Modes, Begin(m) PROVE PurgeInv'
    BY <1>1 DEF Begin, Parses, PurgeInv, IInv, LocalInv, Working, Writing, Checked, Open
  <1>2. CASE Validate \/ ValidatorMissing \/ ReadSkill \/ NextSkill \/ SyncContent
             \/ MakeDir \/ CheckTarget \/ CreateTemp \/ WriteTemp \/ Recheck \/ Rename
             \/ WriteFails \/ StartPurge \/ ListFails
    <2>1. /\ UNCHANGED <<victims, plan>>
          /\ pc' \in Working \cup {"validate"} => pc \in Working \cup {"validate"}
      BY <1>2 DEF Validate, ValidatorMissing, ReadSkill, NextSkill, SyncContent, MakeDir,
                  CheckTarget, CreateTemp, WriteTemp, Recheck, Rename, WriteFails, Abandon,
                  NextOutput, StartPurge, ListFails, Working, Writing, Checked, Open, fixed, progress
    <2> QED
      BY <2>1 DEF PurgeInv
  <1>3. CASE ListStale
    <2>1. \A root : \A d \in Stale(root) : d[1] = root
      BY DEF Stale
    <2> QED
      BY <1>3, <2>1 DEF ListStale, PurgeInv, Working, Writing, Checked, Open, fixed
  <1>4. ASSUME NEW d \in Dests, RemoveStale(d) PROVE PurgeInv'
    BY <1>4 DEF RemoveStale, PurgeInv, Working, fixed
  <1>5. CASE Return \/ Crash
    BY <1>5 DEF Return, Crash, Forget, PurgeInv, Working, Writing, Checked, Open, fixed
  <1>6. CASE Edit
    BY <1>6 DEF Edit, EditSkill, EditSurface, EditMirror, EditMirrorDir, LinkRoot, Edited,
                PurgeInv, Working, Writing, Checked, Open, fixed
  <1>7. CASE UNCHANGED vars
    BY <1>7 DEF vars, PurgeInv, Working, Writing, Checked, Open, fixed, progress
  <1> QED
    BY <1>1, <1>2, <1>3, <1>4, <1>5, <1>6, <1>7 DEF Next, RunStep

\* The check of a root's targets rejects a root that is a symlink to the sources,
\* and renaming reaches them after three swaps only.
LEMMA SparedStep ==
    ASSUME EveryRootUsed, IInv, PurgeInv, RunStep, canonical' # canonical
    PROVE  ~steady /\ (pc = "purge" \/ swaps >= 3)
  <1>1. CASE Rename
    <2>1. pc = "rename" /\ Reachable /\ Install(Head(outs).dest)
      BY <1>1 DEF Rename
    <2>2. swaps >= 3
      BY <2>1, Installed
    <2> QED
      BY <2>2 DEF IInv, SwapInv, TypeOK
  <1>2. CASE ~Rename
    <2>1. PICK d \in Dests : RemoveStale(d)
      BY <1>2 DEF RunStep, Validate, ValidatorMissing, ReadSkill, NextSkill, SyncContent, MakeDir,
             CheckTarget, CreateTemp, WriteTemp, Recheck, WriteFails, StartPurge, ListStale,
             ListFails, Return, sources
    <2>2. pc = "purge" /\ tree.base[d[1]] = "link" /\ d[1] \in plan.managed /\ plan.ok
      BY <2>1 DEF RemoveStale, PurgeInv, Working
    <2>3. PICK e \in Asked(plan) : e[1] = d[1]
      BY <2>2 DEF EveryRootUsed, IInv, TypeOK
    <2>4. e \in Targets(plan)
      BY <2>3, AskedAreTargets, SurfacesAssumption DEF IInv, TypeOK
    <2>5. ~Valid(e)
      BY <2>2, <2>3 DEF Valid, Linked
    <2> QED
      BY <2>2, <2>4, <2>5 DEF IInv, CheckedInv, Working
  <1> QED
    BY <1>1, <1>2

\* The canonical skills are safe from every run whose manifest gives each
\* managed root something to mirror: undisturbed it never changes them, and a
\* disturbed one only if a root becomes a link during the purge or a mirror's path
\* is swapped three times while it is written.  Without the assumption the purge
\* empties .agents/skills through a link nobody touched.
THEOREM SourcesSafe ==
    ASSUME EveryRootUsed
    PROVE  Spec => SourcesSpared
  <1>1. IInv /\ PurgeInv /\ [Next]_vars =>
            [RunStep /\ canonical' # canonical =>
                ~steady /\ (pc = "purge" \/ swaps >= 3)]_vars
    BY SparedStep
  <1> QED
    BY <1>1, Invariance, PurgeInvInit, PurgeInvStep, PTL DEF Spec, SourcesSpared
-----------------------------------------------------------------------------
(* What a run has done so far.                                             *)

\* s is what is left of t.
Rest(s, t) == Len(s) <= Len(t) /\ \A i \in 1..Len(s) : s[i] = t[Len(t) - Len(s) + i]

InSkill == pc \in Writing \cup {"output"}
Done == Len(plan.skills) - Len(todo)
Made(i) == Outputs(plan.skills[i])
Gone == Len(Outputs(Head(todo))) - Len(outs)

\* The outputs that the run is done with, as positions in the plan.
Slots == UNION {{i} \X (1..Len(Made(i))) : i \in 1..Len(plan.skills)}
Past == {x \in Slots :
            \/ x[1] <= Done
            \/ (InSkill /\ x[1] = Done + 1 /\ x[2] <= Gone)}
At(x) == Made(x[1])[x[2]]
PastDests == {At(x).dest : x \in Past}
Ahead == IF pc \in Writing THEN {Head(outs).dest} ELSE {}

\* The run goes through the skills of its plan and their outputs in their order.
OrderInv ==
    /\ pc \in {"idle", "validate"} => expected = {}
    /\ pc = "validate" => todo = plan.skills
    /\ pc \in Working => Rest(todo, plan.skills)
    /\ InSkill => Rest(outs, Outputs(Head(todo)))
    /\ pc = "purge" \/ (pc = "done" /\ ~failed) => todo = <<>> /\ plan.ok
    /\ pc = "done" /\ ~failed => roots = <<>>
    /\ pc # "purge" => victims = {}

\* Once a run has a report without errors, or has got to the purge, each output
\* it is done with is registered, none of them twice.
Registering == pc \in Working \cup {"done"} /\ (~failed \/ pc = "purge")
RegisteredInv ==
    Registering =>
        /\ expected = PastDests \cup Ahead
        /\ \A x, y \in Past : At(x).dest = At(y).dest => x = y
        /\ PastDests \cap Ahead = {} /\ expected \cap victims = {}

\* What it has read and what it is to install, while nobody edits anything ...
ReadingInv ==
    /\ pc \in {"recheck", "rename"} /\ tmp # None => tmp = Content(Head(outs))
    /\ steady /\ pc # "idle" => surface = plan
    /\ steady /\ InSkill => IsPortable(Head(todo).name) /\ seen[Head(todo).name] = canonical[Head(todo).name]

\* ... and that the outputs it is done with are in place, or pending in a check, as
\* long as no purge reaches the sources.
Safe == mode = "check" \/ EveryRootUsed
Exact == mode = "write" \/ ~pending
MirroredInv ==
    steady /\ Safe /\ Registering =>
        /\ \A i \in 1..Done : IsPortable(plan.skills[i].name)
        /\ Exact => \A x \in Past : tree.leaf[At(x).dest] = Rendered(At(x), canonical[At(x).of])

\* The purge has left nothing else in the managed roots it is done with.
Left == {roots[i] : i \in DOMAIN roots}
Purging == pc \in {"purge", "done"} /\ ~failed
Held == {d \in Dests : IF tree.base[d[1]] = "link" THEN canonical[d[2]] # Absent ELSE tree.dir[d] = "dir"}
Cleared == \A d \in Held : d[1] \in plan.managed \ Left => d \in expected \cup victims
PurgedInv == steady /\ Safe /\ Exact /\ Purging => Cleared

\* A check finds nothing to do where there is nothing.
IdleInv == mode = "check" /\ steady /\ pc # "idle" /\ Current(plan) => ~pending

RunInv == OrderInv /\ RegisteredInv /\ ReadingInv /\ MirroredInv /\ PurgedInv /\ IdleInv

LEMMA RestSelf ==
    ASSUME NEW S, NEW s \in Seq(S)
    PROVE  Rest(s, s)
  BY DEF Rest

LEMMA RestTail ==
    ASSUME NEW S, NEW s \in Seq(S), NEW t \in Seq(S), Rest(s, t), s # <<>>
    PROVE  /\ Rest(Tail(s), t)
           /\ Len(Tail(s)) = Len(s) - 1 /\ Len(s) \in Nat \ {0}
           /\ Len(t) - Len(s) + 1 \in 1..Len(t) /\ Head(s) = t[Len(t) - Len(s) + 1]
  <1>1. /\ Len(s) \in Nat /\ Len(s) > 0 /\ Len(t) \in Nat /\ Len(s) <= Len(t)
        /\ Tail(s) \in Seq(S) /\ Len(Tail(s)) = Len(s) - 1
        /\ \A i \in 1..(Len(s) - 1) : Tail(s)[i] = s[i + 1]
        /\ \A i \in 1..Len(s) : s[i] = t[Len(t) - Len(s) + i]
    BY HeadTailProperties DEF Rest
  <1>2. Head(s) = t[Len(t) - Len(s) + 1]
    <2>1. Head(s) = s[1]
      BY <1>1
    <2> QED
      BY <1>1, <2>1
  <1>3. ASSUME NEW i \in 1..Len(Tail(s))
        PROVE  Tail(s)[i] = t[Len(t) - Len(Tail(s)) + i]
    <2>1. i \in 1..(Len(s) - 1) /\ i + 1 \in 1..Len(s)
      BY <1>1
    <2>2. Tail(s)[i] = s[i + 1] /\ s[i + 1] = t[Len(t) - Len(s) + (i + 1)]
      BY <1>1, <2>1
    <2>3. Len(t) - Len(s) + (i + 1) = Len(t) - Len(Tail(s)) + i
      BY <1>1, <2>1
    <2> QED
      BY <2>2, <2>3
  <1>4. Rest(Tail(s), t)
    BY <1>1, <1>3 DEF Rest
  <1> QED
    BY <1>1, <1>2, <1>4

\* The plan's skills and what they project to.
LEMMA Planned ==
    ASSUME TypeOK
    PROVE  /\ plan.skills \in Seq(SkillEntry) /\ Len(plan.skills) \in Nat
           /\ \A i \in 1..Len(plan.skills) :
                /\ plan.skills[i] \in SkillEntry /\ Made(i) \in Seq(Output) /\ Len(Made(i)) \in Nat
                /\ \A j \in 1..Len(Made(i)) :
                      Made(i)[j] \in Output /\ Made(i)[j].of = plan.skills[i].name
  <1>1. plan \in Surface /\ plan.skills \in Seq(SkillEntry) /\ Len(plan.skills) \in Nat
    BY SurfacesAssumption DEF TypeOK, Surface
  <1>2. ASSUME NEW i \in 1..Len(plan.skills)
        PROVE  /\ plan.skills[i] \in SkillEntry /\ Made(i) \in Seq(Output) /\ Len(Made(i)) \in Nat
               /\ \A j \in 1..Len(Made(i)) :
                     Made(i)[j] \in Output /\ Made(i)[j].of = plan.skills[i].name
    <2>1. plan.skills[i] \in SkillEntry
      BY <1>1
    <2>2. /\ Made(i) \in Seq(Output)
          /\ \A j \in 1..Len(Made(i)) : Made(i)[j].of = plan.skills[i].name
      BY <2>1, OutputsType DEF Made
    <2> HIDE DEF Made
    <2> QED
      BY <2>1, <2>2
  <1> QED
    BY <1>1, <1>2

\* Positions are pairs.
LEMMA SlotIs ==
    /\ \A x \in Slots : /\ x = <<x[1], x[2]>> /\ x[1] \in 1..Len(plan.skills)
                        /\ x[2] \in 1..Len(Made(x[1]))
    /\ \A i \in 1..Len(plan.skills) : \A j \in 1..Len(Made(i)) : <<i, j>> \in Slots
  <1>1. ASSUME NEW x \in Slots
        PROVE  x = <<x[1], x[2]>> /\ x[1] \in 1..Len(plan.skills) /\ x[2] \in 1..Len(Made(x[1]))
    <2>1. PICK i \in 1..Len(plan.skills) : x \in {i} \X (1..Len(Made(i)))
      BY DEF Slots
    <2> QED
      BY <2>1
  <1>2. ASSUME NEW i \in 1..Len(plan.skills), NEW j \in 1..Len(Made(i))
        PROVE  <<i, j>> \in Slots
    BY <1>2 DEF Slots
  <1> QED
    BY <1>1, <1>2

\* What is asked for are the outputs at all positions.
LEMMA OutputAt ==
    ASSUME TypeOK, NEW i \in 1..Len(plan.skills)
    PROVE  OutputSet(plan.skills[i]) = {At(<<i, j>>) : j \in 1..Len(Made(i))}
  <1>1. DOMAIN Made(i) = 1..Len(Made(i))
    BY Planned
  <1> QED
    BY <1>1 DEF OutputSet, Made, At

LEMMA AllAsked ==
    ASSUME TypeOK
    PROVE  Asked(plan) = {At(x).dest : x \in Slots}
  <1>1. DOMAIN plan.skills = 1..Len(plan.skills)
    BY Planned
  <1>2. ASSUME NEW d \in Asked(plan)
        PROVE  d \in {At(x).dest : x \in Slots}
    <2>1. PICK i \in 1..Len(plan.skills) : \E o \in OutputSet(plan.skills[i]) : d = o.dest
      BY <1>1 DEF Asked
    <2>2. PICK o \in OutputSet(plan.skills[i]) : d = o.dest
      BY <2>1
    <2>3. PICK j \in 1..Len(Made(i)) : o = At(<<i, j>>)
      BY OutputAt
    <2> QED
      BY <2>2, <2>3, SlotIs
  <1>3. ASSUME NEW x \in Slots
        PROVE  At(x).dest \in Asked(plan)
    <2>1. x = <<x[1], x[2]>> /\ x[1] \in 1..Len(plan.skills) /\ x[2] \in 1..Len(Made(x[1]))
      BY SlotIs
    <2>2. At(x) \in OutputSet(plan.skills[x[1]])
      BY <2>1, OutputAt
    <2> QED
      BY <1>1, <2>1, <2>2 DEF Asked
  <1> QED
    BY <1>2, <1>3

LEMMA OnceEach ==
    ASSUME TypeOK, \A x, y \in Slots : At(x).dest = At(y).dest => x = y
    PROVE  Unambiguous(plan)
  <1>1. DOMAIN plan.skills = 1..Len(plan.skills)
    BY Planned
  <1>2. ASSUME NEW i \in 1..Len(plan.skills), NEW j \in DOMAIN Made(i), NEW k \in DOMAIN Made(i),
               Made(i)[j].dest = Made(i)[k].dest
        PROVE  j = k
    <2>1. j \in 1..Len(Made(i)) /\ k \in 1..Len(Made(i))
      BY Planned
    <2>2. <<i, j>> \in Slots /\ <<i, k>> \in Slots
      BY <2>1, SlotIs
    <2>3. At(<<i, j>>).dest = At(<<i, k>>).dest
      BY <1>2 DEF At
    <2>4. <<i, j>> = <<i, k>>
      BY <2>2, <2>3
    <2> QED
      BY <2>4
  <1>3. ASSUME NEW i \in 1..Len(plan.skills), NEW j \in 1..Len(plan.skills),
               NEW o \in OutputSet(plan.skills[i]), NEW p \in OutputSet(plan.skills[j]), o.dest = p.dest
        PROVE  i = j
    <2>1. PICK k \in 1..Len(Made(i)) : o = At(<<i, k>>)
      BY OutputAt
    <2>2. PICK l \in 1..Len(Made(j)) : p = At(<<j, l>>)
      BY OutputAt
    <2>3. <<i, k>> \in Slots /\ <<j, l>> \in Slots
      BY SlotIs
    <2>4. <<i, k>> = <<j, l>>
      BY <1>3, <2>1, <2>2, <2>3
    <2> QED
      BY <2>4
  <1> QED
    BY <1>1, <1>2, <1>3 DEF Unambiguous, Made

\* A run that has left its skills is done with all of them.
LEMMA AllPast ==
    ASSUME TypeOK, todo = <<>>
    PROVE  Past = Slots /\ Done = Len(plan.skills) /\ PastDests = Asked(plan)
  <1>1. Done = Len(plan.skills)
    BY Planned DEF Done
  <1>2. Past = Slots
    <2>1. \A x \in Slots : x[1] <= Done
      BY <1>1, SlotIs
    <2> QED
      BY <2>1 DEF Past
  <1> QED
    BY <1>1, <1>2, AllAsked DEF PastDests

\* The run moves on by one output.
LEMMA OneMore ==
    ASSUME TypeOK, OrderInv, InSkill, todo # <<>>, outs # <<>>,
           plan' = plan, todo' = todo, outs' = Tail(outs), InSkill',
           NEW z, z = <<Done + 1, Gone + 1>>
    PROVE  /\ Past' = Past \cup {z} /\ z \in Slots /\ z \notin Past /\ At(z) = Head(outs)
           /\ Head(outs).of = Head(todo).name
           /\ PastDests' = PastDests \cup {Head(outs).dest}
           /\ \A x : At(x)' = At(x)
  <1> DEFINE k == Done + 1
  <1>1. /\ k \in 1..Len(plan.skills) /\ Head(todo) = plan.skills[k] /\ Done \in Nat
    <2>1. Rest(todo, plan.skills) /\ todo \in Seq(SkillEntry) /\ plan.skills \in Seq(SkillEntry)
      BY Planned DEF OrderInv, InSkill, Working, Writing, TypeOK
    <2>2. /\ Len(plan.skills) - Len(todo) + 1 \in 1..Len(plan.skills)
          /\ Head(todo) = plan.skills[Len(plan.skills) - Len(todo) + 1]
          /\ Len(todo) \in Nat
      BY <2>1, RestTail
    <2>3. Len(plan.skills) \in Nat /\ Len(todo) <= Len(plan.skills)
      BY <2>1, Planned DEF Rest
    <2> QED
      BY <2>2, <2>3 DEF Done
  <1>2. Made(k) = Outputs(Head(todo)) /\ Made(k) \in Seq(Output) /\ Len(Made(k)) \in Nat
    BY <1>1, Planned DEF Made
  <1>3. outs \in Seq(Output) /\ Rest(outs, Made(k))
    BY <1>2 DEF OrderInv, TypeOK
  <1>4. /\ Gone + 1 \in 1..Len(Made(k)) /\ Head(outs) = Made(k)[Gone + 1]
        /\ Gone' = Gone + 1
    <2>1. Gone = Len(Made(k)) - Len(outs) /\ Gone' = Len(Made(k)) - Len(Tail(outs))
      BY <1>2 DEF Gone
    <2>2. /\ Len(Tail(outs)) = Len(outs) - 1 /\ Len(outs) \in Nat
          /\ Len(Made(k)) - Len(outs) + 1 \in 1..Len(Made(k))
          /\ Head(outs) = Made(k)[Len(Made(k)) - Len(outs) + 1]
      BY <1>2, <1>3, RestTail
    <2> QED
      BY <1>2, <2>1, <2>2
  <1> HIDE DEF k
  <1>5. z = <<k, Gone + 1>> /\ z \in Slots /\ At(z) = Head(outs)
    <2>1. z = <<k, Gone + 1>>
      BY DEF k
    <2> QED
      BY <1>1, <1>4, <2>1, SlotIs DEF At
  <1>6. Done' = Done /\ Slots' = Slots /\ \A x : At(x)' = At(x)
    BY DEF Done, Slots, Made, At
  <1>7. ASSUME NEW x \in Slots
        PROVE  x \in Past' <=> x \in Past \/ x = z
    <2>1. x = <<x[1], x[2]>> /\ x[1] \in Nat /\ x[2] \in Nat
      <3>1. /\ x = <<x[1], x[2]>> /\ x[1] \in 1..Len(plan.skills) /\ x[2] \in 1..Len(Made(x[1]))
        BY SlotIs
      <3> QED
        BY <3>1
    <2>2. x \in Past' <=> x[1] <= Done \/ (x[1] = k /\ x[2] <= Gone + 1)
      BY <1>4, <1>6 DEF Past, k
    <2>3. x \in Past <=> x[1] <= Done \/ (x[1] = k /\ x[2] <= Gone)
      BY DEF Past, k
    <2>4. x = z <=> x[1] = k /\ x[2] = Gone + 1
      BY <1>5, <2>1
    <2>5. Gone + 1 \in Nat /\ Gone \in Int
      <3>1. Gone = Len(Made(k)) - Len(outs) /\ Len(outs) \in Nat
        BY <1>2, <1>3 DEF Gone
      <3> QED
        BY <1>2, <1>4, <3>1
    <2>6. x[2] <= Gone + 1 <=> x[2] <= Gone \/ x[2] = Gone + 1
      BY <2>1, <2>5
    <2> QED
      BY <2>2, <2>3, <2>4, <2>6
  <1>8. Past' = Past \cup {z}
    <2>1. Past \subseteq Slots /\ Past' \subseteq Slots
      BY <1>6 DEF Past
    <2> QED
      BY <1>5, <1>7, <2>1
  <1>9. z \notin Past
    <2>1. z[1] = k /\ z[2] = Gone + 1 /\ Gone \in Int
      <3>1. Gone = Len(Made(k)) - Len(outs) /\ Len(outs) \in Nat
        BY <1>2, <1>3 DEF Gone
      <3> QED
        BY <1>2, <1>5, <3>1
    <2>2. ~(z[1] <= Done) /\ ~(z[2] <= Gone)
      BY <1>1, <2>1 DEF k
    <2> QED
      BY <2>2 DEF Past
  <1>10. Head(outs).of = Head(todo).name
    BY <1>1, <1>4, Planned
  <1>11. PastDests' = PastDests \cup {Head(outs).dest}
    <2>1. PastDests' = {At(x).dest : x \in Past'}
      BY <1>6 DEF PastDests
    <2> QED
      BY <1>5, <1>8, <2>1 DEF PastDests
  <1> QED
    BY <1>5, <1>6, <1>8, <1>9, <1>10, <1>11

\* What the purge finds in a root.
LEMMA ListingHeld ==
    ASSUME NEW r \in Roots, NEW n
    PROVE  n \in Listing(r) <=> n \in Names /\ <<r, n>> \in Held
  <1>1. n \in Names => <<r, n>> \in Dests
    BY DEF Dests
  <1> QED
    BY <1>1 DEF Listing, Held

-----------------------------------------------------------------------------
(* Every step keeps that account.                                          *)

Account == IInv /\ PurgeInv /\ RunInv

\* A step that leaves plan, todo and outs alone has done what was done before.
LEMMA PastStays ==
    ASSUME UNCHANGED <<plan, todo, outs>>, InSkill' <=> InSkill
    PROVE  /\ Past' = Past /\ Slots' = Slots /\ Done' = Done /\ PastDests' = PastDests
           /\ \A x : At(x)' = At(x)
  <1>1. Slots' = Slots /\ Done' = Done /\ \A x : At(x)' = At(x)
    BY DEF Done, Slots, Made, At
  <1>2. Past' = Past
    BY <1>1 DEF Past, Gone, Done
  <1> QED
    BY <1>1, <1>2 DEF PastDests

LEMMA IdleKept ==
    ASSUME IdleInv, UNCHANGED <<plan, mode, pending, steady>>, pc # "idle",
           mode = "check" => UNCHANGED <<tree, canonical>>
    PROVE  IdleInv'
  BY DEF IdleInv, Current, InPlace, IsPortable, Listing

LEMMA BeginAccount ==
    ASSUME Account, NEW m \in Modes, Begin(m)
    PROVE  RunInv'
  <1> USE DEF Account, RunInv
  <1>1. pc' \in {"validate", "done"} /\ (pc' = "done" => failed') /\ (pc' = "validate" => todo' = surface.skills)
    BY DEF Begin
  <1>2. plan' = surface /\ surface' = surface /\ expected' = expected /\ victims' = victims
        /\ pending' = FALSE /\ pc = "idle"
    BY DEF Begin, sources
  <1>3. OrderInv'
    BY <1>1, <1>2 DEF OrderInv, InSkill, Writing, Working
  <1>4. RegisteredInv' /\ MirroredInv'
    BY <1>1 DEF RegisteredInv, MirroredInv, Registering, Working
  <1>5. ReadingInv' /\ IdleInv' /\ PurgedInv'
    BY <1>1, <1>2 DEF ReadingInv, IdleInv, PurgedInv, InSkill, Writing, Purging
  <1> QED
    BY <1>3, <1>4, <1>5

LEMMA ValidateAccount ==
    ASSUME Account, Validate
    PROVE  RunInv'
  <1> USE DEF Account, RunInv
  <1>1. /\ pc = "validate" /\ pc' \in {"skill", "done"} /\ (pc' = "done" <=> failed')
        /\ UNCHANGED <<surface, canonical, tree, todo, outs, seen, expected, tmp, roots, victims, pending, mode, plan, steady>>
    BY DEF Validate, sources, fixed
  <1>2. todo = plan.skills /\ expected = {} /\ victims = {}
    BY <1>1 DEF OrderInv
  <1>3. OrderInv'
    <2>1. Rest(todo, plan.skills)
      BY <1>2, RestSelf, Planned DEF IInv
    <2> QED
      BY <1>1, <1>2, <2>1 DEF OrderInv, InSkill, Writing, Working
  <1>4. pc' = "skill" => Past' = {} /\ PastDests' = {} /\ Ahead' = {} /\ Done' = 0
    <2> SUFFICES ASSUME pc' = "skill" PROVE Past' = {} /\ PastDests' = {} /\ Ahead' = {} /\ Done' = 0
      OBVIOUS
    <2>1. Done' = 0 /\ Slots' = Slots
      BY <1>1, <1>2, Planned DEF Done, Slots, Made, IInv
    <2>2. ~InSkill' /\ Ahead' = {}
      BY DEF InSkill, Ahead, Writing
    <2>3. \A x \in Slots : ~(x[1] <= Done')
      BY <2>1, SlotIs, Planned DEF IInv
    <2>4. Past' = {}
      BY <2>1, <2>2, <2>3 DEF Past
    <2> QED
      BY <2>1, <2>2, <2>4 DEF PastDests
  <1>5. RegisteredInv'
    BY <1>1, <1>2, <1>4 DEF RegisteredInv, Registering
  <1>6. MirroredInv'
    BY <1>1, <1>2, <1>4 DEF MirroredInv, Registering
  <1>7. ReadingInv' /\ PurgedInv'
    BY <1>1 DEF ReadingInv, PurgedInv, InSkill, Writing, Purging
  <1>8. IdleInv'
    BY <1>1, IdleKept
  <1> QED
    BY <1>3, <1>5, <1>6, <1>7, <1>8

LEMMA ReadAccount ==
    ASSUME Account, ValidatorMissing \/ ReadSkill
    PROVE  RunInv'
  <1> USE DEF Account, RunInv
  <1>1. /\ pc = "skill"
        /\ UNCHANGED <<surface, canonical, tree, expected, tmp, roots, victims, pending, mode, plan, steady>>
    BY DEF ValidatorMissing, ReadSkill, sources, fixed, progress
  <1>2. Rest(todo, plan.skills) /\ victims = {} /\ ~InSkill
    BY <1>1 DEF OrderInv, Working, InSkill, Writing, Purging
  <1>3. IdleInv'
    BY <1>1, IdleKept
  <1>4. CASE ValidatorMissing \/ (ReadSkill /\ ~IsPortable(Head(todo).name))
    <2>1. pc' = "skill" /\ failed' /\ Rest(todo', plan.skills)
      <3>1. CASE ValidatorMissing
        BY <1>2, <3>1 DEF ValidatorMissing, progress
      <3>2. CASE ReadSkill /\ ~IsPortable(Head(todo).name)
        <4>1. pc' = "skill" /\ failed' /\ todo' = Tail(todo) /\ todo # <<>>
          BY <1>1, <3>2 DEF ReadSkill, OtherSkills
        <4>2. Rest(Tail(todo), plan.skills)
          BY <1>2, <4>1, RestTail, Planned DEF IInv, TypeOK
        <4> QED
          BY <4>1, <4>2
      <3> QED
        BY <1>4, <3>1, <3>2
    <2>2. OrderInv'
      BY <1>1, <1>2, <2>1 DEF OrderInv, InSkill, Writing, Purging
    <2>3. RegisteredInv' /\ MirroredInv'
      BY <2>1 DEF RegisteredInv, MirroredInv, Registering
    <2>4. ReadingInv' /\ PurgedInv'
      BY <1>1, <2>1 DEF ReadingInv, PurgedInv, InSkill, Writing, Purging
    <2> QED
      BY <1>3, <2>2, <2>3, <2>4
  <1>5. CASE ReadSkill /\ IsPortable(Head(todo).name)
    <2>1. /\ pc' = "output" /\ outs' = Outputs(Head(todo)) /\ UNCHANGED <<todo, failed>> /\ todo # <<>>
          /\ seen' = [seen EXCEPT ![Head(todo).name] = canonical[Head(todo).name]]
      BY <1>5 DEF ReadSkill
    <2>2. Head(todo) \in SkillEntry /\ Outputs(Head(todo)) \in Seq(Output) /\ Len(Outputs(Head(todo))) \in Nat
      BY <2>1, HeadTailProperties, OutputsType DEF IInv, TypeOK
    <2>3. OrderInv'
      <3>1. Rest(Outputs(Head(todo)), Outputs(Head(todo)))
        BY <2>2, RestSelf
      <3> QED
        BY <1>1, <1>2, <2>1, <3>1 DEF OrderInv, Working
    <2>4. Past' = Past /\ PastDests' = PastDests /\ Done' = Done /\ Ahead = {} /\ Ahead' = {}
          /\ \A x : At(x)' = At(x)
      <3>1. Slots' = Slots /\ Done' = Done /\ \A x : At(x)' = At(x)
        BY <1>1, <2>1 DEF Done, Slots, Made, At
      <3>2. Gone' = 0
        BY <2>1, <2>2 DEF Gone
      <3>3. \A x \in Slots : x[2] \in Nat \ {0}
        BY SlotIs
      <3>4. Past' = Past
        BY <1>2, <3>1, <3>2, <3>3 DEF Past
      <3>5. Ahead = {} /\ Ahead' = {}
        BY <1>1, <2>1 DEF Ahead, Writing
      <3> QED
        BY <3>1, <3>4, <3>5 DEF PastDests
    <2>5. Registering' => Registering
      BY <1>1, <2>1 DEF Registering, Working
    <2>6. RegisteredInv'
      BY <1>1, <2>1, <2>4, <2>5 DEF RegisteredInv
    <2>7. MirroredInv'
      BY <1>1, <2>1, <2>4, <2>5 DEF MirroredInv, IsPortable, Exact, Safe
    <2>8. ReadingInv'
      <3>1. Head(todo).name \in Names /\ seen \in [Names -> Texts \cup {Absent}]
        BY <2>2 DEF SkillEntry, IInv, TypeOK
      <3>2. seen'[Head(todo).name] = canonical[Head(todo).name]
        BY <2>1, <3>1
      <3> QED
        BY <1>1, <1>5, <2>1, <3>2 DEF ReadingInv, IsPortable
    <2>9. PurgedInv'
      <3>1. ~Purging'
        BY <2>1 DEF Purging
      <3> QED
        BY <3>1 DEF PurgedInv
    <2> QED
      BY <1>3, <2>3, <2>6, <2>7, <2>8, <2>9
  <1> QED
    BY <1>4, <1>5

LEMMA NextAccount ==
    ASSUME Account, NextSkill
    PROVE  RunInv'
  <1> USE DEF Account, RunInv
  <1>1. /\ pc = "output" /\ pc' = "skill" /\ outs = <<>> /\ todo' = Tail(todo)
        /\ UNCHANGED <<surface, canonical, tree, outs, seen, expected, tmp, roots, victims, failed, pending, mode, plan, steady>>
    BY DEF NextSkill, OtherSkills, sources, report, fixed
  <1>2. todo # <<>> /\ todo \in Seq(SkillEntry) /\ plan.skills \in Seq(SkillEntry) /\ victims = {}
    BY <1>1, Planned DEF IInv, LocalInv, TypeOK, OrderInv
  <1>3. Rest(todo, plan.skills)
    BY <1>1 DEF OrderInv, Working
  <1>4. /\ Rest(Tail(todo), plan.skills) /\ Len(Tail(todo)) = Len(todo) - 1 /\ Len(todo) \in Nat
        /\ Len(plan.skills) - Len(todo) + 1 \in 1..Len(plan.skills)
        /\ Head(todo) = plan.skills[Len(plan.skills) - Len(todo) + 1]
    BY <1>2, <1>3, RestTail
  <1>5. /\ Done' = Done + 1 /\ Done + 1 \in 1..Len(plan.skills) /\ Head(todo) = plan.skills[Done + 1] /\ Done \in Int
    BY <1>1, <1>2, <1>4, Planned DEF Done, IInv
  <1>6. OrderInv'
    BY <1>1, <1>2, <1>4 DEF OrderInv, InSkill, Writing, Purging
  <1>7. Gone = Len(Made(Done + 1)) /\ InSkill /\ ~InSkill'
    <2>1. Len(outs) = 0 /\ Len(Made(Done + 1)) \in Nat /\ Made(Done + 1) = Outputs(Head(todo))
      BY <1>1, <1>5, Planned DEF Made, IInv
    <2> QED
      BY <1>1, <2>1 DEF Gone, InSkill, Writing, Purging
  <1>8. Past' = Past /\ PastDests' = PastDests /\ Ahead = {} /\ Ahead' = {} /\ \A x : At(x)' = At(x)
    <2>1. Slots' = Slots /\ \A x : At(x)' = At(x)
      BY <1>1 DEF Slots, Made, At
    <2>2. ASSUME NEW x \in Slots
          PROVE  x \in Past' <=> x \in Past
      <3>1. x[1] \in Int /\ x[2] <= Len(Made(x[1]))
        BY SlotIs, Planned DEF IInv
      <3>2. x \in Past' <=> x[1] <= Done + 1
        BY <1>5, <1>7, <2>1 DEF Past
      <3>3. x \in Past <=> x[1] <= Done \/ (x[1] = Done + 1 /\ x[2] <= Len(Made(Done + 1)))
        BY <1>7 DEF Past
      <3> QED
        BY <1>5, <3>1, <3>2, <3>3
    <2>3. Past' = Past
      BY <2>1, <2>2 DEF Past
    <2>4. Ahead = {} /\ Ahead' = {}
      BY <1>1 DEF Ahead, Writing
    <2> QED
      BY <2>1, <2>3, <2>4 DEF PastDests
  <1>9. Registering' => Registering
    BY <1>1 DEF Registering, Working
  <1>10. RegisteredInv'
    BY <1>1, <1>8, <1>9 DEF RegisteredInv
  <1>11. MirroredInv'
    <2> SUFFICES ASSUME steady, Safe, Registering
                 PROVE  /\ \A i \in 1..(Done + 1) : IsPortable(plan.skills[i].name)
                        /\ Exact => \A x \in Past : tree.leaf[At(x).dest] = Rendered(At(x), canonical[At(x).of])
      <3>1. steady' = steady /\ Safe' = Safe /\ Exact' = Exact
        BY <1>1 DEF Safe, Exact
      <3>2. Done' = Done + 1 /\ plan' = plan /\ tree' = tree /\ canonical' = canonical
        BY <1>1, <1>5
      <3>3. \A n : IsPortable(n)' = IsPortable(n)
        BY <3>2 DEF IsPortable
      <3>4. \A x : (tree.leaf[At(x).dest] = Rendered(At(x), canonical[At(x).of]))'
                 = (tree.leaf[At(x).dest] = Rendered(At(x), canonical[At(x).of]))
        BY <1>8, <3>2
      <3> HIDE DEF Safe, Exact
      <3> QED
        BY <1>8, <1>9, <3>1, <3>2, <3>3, <3>4 DEF MirroredInv
    <2>1. IsPortable(plan.skills[Done + 1].name)
      BY <1>5, <1>7 DEF ReadingInv
    <2>2. \A i \in 1..(Done + 1) : i \in 1..Done \/ i = Done + 1
      BY <1>5
    <2> QED
      BY <2>1, <2>2 DEF MirroredInv
  <1>12. ReadingInv' /\ PurgedInv'
    BY <1>1, <1>7 DEF ReadingInv, PurgedInv, Purging
  <1>13. IdleInv'
    BY <1>1, IdleKept
  <1> QED
    BY <1>6, <1>10, <1>11, <1>12, <1>13

\* One more output that is in place, or was put there.
LEMMA OneMorePast ==
    ASSUME TypeOK, RunInv, InSkill, todo # <<>>, outs # <<>>, Registering,
           UNCHANGED <<surface, plan, mode, steady, seen, todo, victims>>,
           steady => canonical' = canonical,
           outs' = Tail(outs), pc' = "output",
           Head(outs).dest \notin PastDests, expected' = expected \cup {Head(outs).dest},
           expected = PastDests \cup Ahead, Ahead \subseteq {Head(outs).dest}, victims = {},
           Exact' => Exact,
           steady => \A e \in PastDests : tree'.leaf[e] = tree.leaf[e],
           steady /\ Safe /\ Exact' =>
               tree'.leaf[Head(outs).dest] = Rendered(Head(outs), canonical[Head(outs).of])
    PROVE  RegisteredInv' /\ MirroredInv'
  <1> USE DEF RunInv
  <1>1. PICK z : z = <<Done + 1, Gone + 1>>
    OBVIOUS
  <1>2. InSkill'
    BY DEF InSkill
  <1>3. Past' = Past \cup {z} /\ z \in Slots /\ z \notin Past /\ At(z) = Head(outs)
    BY <1>1, <1>2, OneMore
  <1>4. PastDests' = PastDests \cup {Head(outs).dest}
    BY <1>1, <1>2, OneMore
  <1>5. \A x : At(x)' = At(x)
    BY <1>1, <1>2, OneMore
  <1>6. Ahead' = {}
    BY DEF Ahead, Writing
  <1>7. RegisteredInv'
    <2>1. \A x, y \in Past : At(x).dest = At(y).dest => x = y
      BY DEF RegisteredInv
    <2>2. \A x \in Past : At(x).dest \in PastDests
      BY DEF PastDests
    <2>3. \A x, y \in Past \cup {z} : At(x).dest = At(y).dest => x = y
      BY <1>3, <2>1, <2>2
    <2>4. expected' = PastDests' \cup Ahead' /\ PastDests' \cap Ahead' = {} /\ expected' \cap victims' = {}
      BY <1>4, <1>6
    <2>5. \A x, y \in Past' : At(x)'.dest = At(y)'.dest => x = y
      BY <1>3, <1>5, <2>3
    <2> QED
      BY <2>4, <2>5 DEF RegisteredInv
  <1>8. MirroredInv'
    <2> SUFFICES ASSUME steady, Safe
                 PROVE  /\ \A i \in 1..Done : IsPortable(plan.skills[i].name)
                        /\ Exact' => \A x \in Past \cup {z} :
                              tree'.leaf[At(x).dest] = Rendered(At(x), canonical[At(x).of])
      <3>1. Safe' = Safe /\ Done' = Done
        BY DEF Safe, Done
      <3>2. steady => canonical' = canonical /\ \A n : IsPortable(n)' = IsPortable(n)
        BY DEF IsPortable
      <3> HIDE DEF Safe, Exact, Done
      <3> QED
        BY <1>3, <1>5, <3>1, <3>2 DEF MirroredInv
    <2>1. \A i \in 1..Done : IsPortable(plan.skills[i].name)
      BY DEF MirroredInv
    <2>2. ASSUME Exact', NEW x \in Past
          PROVE  tree'.leaf[At(x).dest] = Rendered(At(x), canonical[At(x).of])
      <3>1. tree.leaf[At(x).dest] = Rendered(At(x), canonical[At(x).of])
        BY <2>2 DEF MirroredInv
      <3>2. At(x).dest \in PastDests
        BY DEF PastDests
      <3> QED
        BY <3>1, <3>2
    <2>3. Exact' => tree'.leaf[At(z).dest] = Rendered(At(z), canonical[At(z).of])
      BY <1>3
    <2> QED
      BY <2>1, <2>2, <2>3
  <1> QED
    BY <1>7, <1>8

LEMMA SyncAccount ==
    ASSUME Account, SyncContent
    PROVE  RunInv'
  <1> USE DEF Account, RunInv
  <1> DEFINE o == Head(outs)
  <1>1. /\ pc = "output" /\ outs # <<>> /\ pc' \in {"output", "mkdir"} /\ expected' = expected \cup {o.dest}
        /\ UNCHANGED <<surface, canonical, tree, todo, seen, tmp, roots, victims, mode, plan, steady>>
    BY DEF SyncContent, sources, fixed
  <1>2. InSkill /\ InSkill' /\ Ahead = {} /\ victims = {} /\ todo # <<>> /\ todo \in Seq(SkillEntry)
    BY <1>1 DEF InSkill, Writing, Ahead, OrderInv, IInv, LocalInv, TypeOK
  <1>3. /\ outs \in Seq(Output) /\ Outputs(Head(todo)) \in Seq(Output)
        /\ Rest(outs, Outputs(Head(todo))) /\ Rest(Tail(outs), Outputs(Head(todo)))
    <2>1. Head(todo) \in SkillEntry
      BY <1>2, HeadTailProperties
    <2>2. outs \in Seq(Output) /\ Outputs(Head(todo)) \in Seq(Output) /\ Rest(outs, Outputs(Head(todo)))
      BY <1>2, <2>1, OutputsType DEF IInv, TypeOK, OrderInv
    <2>3. Rest(Tail(outs), Outputs(Head(todo)))
      BY <1>1, <2>2, RestTail
    <2> QED
      BY <2>2, <2>3
  <1>4. OrderInv' /\ PurgedInv'
    <2>1. outs' = outs \/ outs' = Tail(outs)
      BY DEF SyncContent
    <2>2. OrderInv'
      BY <1>1, <1>2, <1>3, <2>1 DEF OrderInv, Working
    <2>3. PurgedInv'
      BY <1>1 DEF PurgedInv, Purging
    <2> QED
      BY <2>2, <2>3
  <1>5. ReadingInv'
    BY <1>1, <1>2 DEF ReadingInv, IsPortable
  <1>6. steady => seen[o.of] = canonical[o.of]
    <2>1. o.of = Head(todo).name
      <3>1. o = Outputs(Head(todo))[Len(Outputs(Head(todo))) - Len(outs) + 1]
            /\ Len(Outputs(Head(todo))) - Len(outs) + 1 \in 1..Len(Outputs(Head(todo)))
        BY <1>1, <1>3, RestTail
      <3>2. Head(todo) \in SkillEntry
        BY <1>2, HeadTailProperties
      <3> QED
        BY <3>1, <3>2, OutputsType
    <2> QED
      BY <1>2, <2>1 DEF ReadingInv
  <1>7. CASE ~(o.dest \notin expected /\ Valid(o.dest))
    <2>1. failed' /\ pending' = pending
      BY <1>7 DEF SyncContent, IInv, TypeOK
    <2>2. RegisteredInv' /\ MirroredInv'
      BY <1>1, <2>1 DEF RegisteredInv, MirroredInv, Registering
    <2>3. IdleInv'
      BY <1>1, <2>1, IdleKept
    <2> QED
      BY <1>4, <1>5, <2>2, <2>3
  <1>8. CASE o.dest \notin expected /\ Valid(o.dest) /\ (IsCurrent(o) \/ mode # "write")
    <2>1. pc' = "output" /\ outs' = Tail(outs) /\ failed' = failed /\ pending' = (pending \/ ~IsCurrent(o))
      BY <1>8 DEF SyncContent, IInv, TypeOK
    <2>2. RegisteredInv' /\ MirroredInv'
      <3>1. CASE ~Registering'
        BY <3>1 DEF RegisteredInv, MirroredInv
      <3>2. CASE Registering'
        <4>1. Registering
          BY <1>1, <2>1, <3>2 DEF Registering, Working
        <4>2. expected = PastDests \cup Ahead
          BY <4>1 DEF RegisteredInv
        <4>3. o.dest \notin PastDests
          BY <1>8, <4>2
        <4>4. steady /\ Safe /\ Exact' => tree'.leaf[o.dest] = Rendered(o, canonical[o.of])
          BY <1>1, <1>6, <1>8, <2>1 DEF Exact, IsCurrent, Content
        <4>5. Exact' => Exact
          BY <1>1, <2>1 DEF Exact
        <4>6. Ahead \subseteq {o.dest} /\ TypeOK /\ RunInv
          BY <1>2 DEF IInv
        <4> HIDE DEF RunInv, o
        <4>7. \A e \in PastDests : tree'.leaf[e] = tree.leaf[e]
          BY <1>1
        <4> USE DEF o
        <4> QED
          BY <1>1, <1>2, <2>1, <4>1, <4>2, <4>3, <4>4, <4>5, <4>6, <4>7, OneMorePast
      <3> QED
        BY <3>1, <3>2
    <2>3. IdleInv'
      <3> SUFFICES ASSUME mode = "check", steady, Current(plan) PROVE pending' = FALSE
        <4>1. Current(plan)' = Current(plan)
          BY <1>1 DEF Current, InPlace, IsPortable, Listing
        <4> QED
          BY <1>1, <4>1 DEF IdleInv
      <3>1. ~pending
        BY <1>1 DEF IdleInv
      <3>2. o \in OutputSet(Head(todo)) /\ \E i \in DOMAIN plan.skills : Head(todo) = plan.skills[i]
        <4>1. /\ o = Outputs(Head(todo))[Len(Outputs(Head(todo))) - Len(outs) + 1]
              /\ Len(Outputs(Head(todo))) - Len(outs) + 1 \in 1..Len(Outputs(Head(todo)))
          BY <1>1, <1>3, RestTail
        <4>2. DOMAIN Outputs(Head(todo)) = 1..Len(Outputs(Head(todo)))
          BY <1>3
        <4>3. o \in OutputSet(Head(todo))
          BY <4>1, <4>2 DEF OutputSet
        <4>4. Rest(todo, plan.skills) /\ plan.skills \in Seq(SkillEntry)
          BY <1>1, Planned DEF OrderInv, Working, IInv
        <4>5. /\ Len(plan.skills) - Len(todo) + 1 \in 1..Len(plan.skills)
              /\ Head(todo) = plan.skills[Len(plan.skills) - Len(todo) + 1]
          BY <1>2, <4>4, RestTail
        <4> QED
          BY <4>3, <4>4, <4>5
      <3>3. tree.leaf[o.dest] = Rendered(o, canonical[o.of])
        BY <3>2 DEF Current, InPlace
      <3>4. IsCurrent(o)
        BY <1>6, <3>3 DEF IsCurrent, Content
      <3> QED
        BY <2>1, <3>1, <3>4 DEF IInv, TypeOK
    <2> QED
      BY <1>4, <1>5, <2>2, <2>3
  <1>9. CASE o.dest \notin expected /\ Valid(o.dest) /\ ~IsCurrent(o) /\ mode = "write"
    <2>1. pc' = "mkdir" /\ outs' = outs /\ failed' = failed
      BY <1>9 DEF SyncContent, IInv, TypeOK
    <2>2. Registering' => Registering
      BY <1>1, <2>1 DEF Registering, Working
    <2>3. Past' = Past /\ Done' = Done /\ PastDests' = PastDests
      BY <1>1, <1>2, <2>1, PastStays
    <2>4. \A x : At(x)' = At(x)
      BY <1>1, <1>2, <2>1, PastStays
    <2>5. Ahead' = {o.dest}
      BY <2>1 DEF Ahead, Writing
    <2>6. RegisteredInv'
      BY <1>1, <1>2, <1>9, <2>2, <2>3, <2>4, <2>5 DEF RegisteredInv
    <2>7. MirroredInv'
      <3>1. Safe' = Safe /\ (Exact' => Exact) /\ steady' = steady /\ plan' = plan /\ tree' = tree /\ canonical' = canonical
        BY <1>1, <1>9 DEF Safe, Exact
      <3>2. \A n : IsPortable(n)' = IsPortable(n)
        BY <1>1 DEF IsPortable
      <3> HIDE DEF Safe, Exact
      <3> QED
        BY <2>2, <2>3, <2>4, <3>1, <3>2 DEF MirroredInv
    <2>8. IdleInv'
      BY <1>1, <1>9 DEF IdleInv
    <2> QED
      BY <1>4, <1>5, <2>6, <2>7, <2>8
  <1> QED
    BY <1>7, <1>8, <1>9 DEF IInv, TypeOK, Modes

\* A failing write ends the account, but for what the purge needs of a run that
\* goes on.
LEMMA FailedAccount ==
    ASSUME Account, pc \in Writing, failed', pc' = "output", outs' = Tail(outs),
           UNCHANGED <<sources, todo, seen, expected, roots, victims, pending, fixed, steady>>,
           \A e \in Dests : tree'.leaf[e] = tree.leaf[e]
    PROVE  RunInv'
  <1> USE DEF Account, RunInv
  <1>1. outs # <<>> /\ todo # <<>> /\ mode = "write" /\ InSkill /\ InSkill' /\ victims = {}
    BY DEF IInv, LocalInv, InSkill, OrderInv, Writing
  <1>2. Rest(Tail(outs), Outputs(Head(todo)))
    <2>1. Head(todo) \in SkillEntry
      BY <1>1, HeadTailProperties DEF IInv, TypeOK
    <2>2. outs \in Seq(Output) /\ Outputs(Head(todo)) \in Seq(Output) /\ Rest(outs, Outputs(Head(todo)))
      BY <1>1, <2>1, OutputsType DEF IInv, TypeOK, OrderInv
    <2> QED
      BY <1>1, <2>2, RestTail
  <1>3. OrderInv'
    BY <1>1, <1>2 DEF OrderInv, fixed, Working, Writing
  <1>4. RegisteredInv' /\ MirroredInv'
    <2>1. ~Registering'
      BY DEF Registering
    <2> QED
      BY <2>1 DEF RegisteredInv, MirroredInv
  <1>5. ReadingInv'
    BY <1>1 DEF ReadingInv, IsPortable, sources, fixed, Writing
  <1>6. PurgedInv'
    BY DEF PurgedInv, Purging
  <1>7. IdleInv'
    BY <1>1 DEF IdleInv, fixed
  <1> QED
    BY <1>3, <1>4, <1>5, <1>6, <1>7

\* A step within the writing of one output.
LEMMA WithinAccount ==
    ASSUME Account, pc \in Writing, pc' \in Writing, UNCHANGED failed,
           UNCHANGED <<sources, todo, outs, seen, expected, roots, victims, pending, fixed, steady>>,
           \A e \in Dests : tree'.leaf[e] = tree.leaf[e],
           pc' \in {"recheck", "rename"} /\ tmp' # None => tmp' = Content(Head(outs))
    PROVE  RunInv'
  <1> USE DEF Account, RunInv
  <1>1. mode = "write" /\ InSkill /\ InSkill' /\ victims = {} /\ pc \in Working /\ pc' \in Working
    BY DEF IInv, LocalInv, InSkill, OrderInv, Writing, Working
  <1>2. OrderInv'
    BY <1>1 DEF OrderInv, fixed, Working, Writing
  <1>3. Past' = Past /\ Done' = Done /\ PastDests' = PastDests
    BY <1>1, PastStays DEF fixed
  <1>4. \A x : At(x)' = At(x)
    BY <1>1, PastStays DEF fixed
  <1>5. Ahead' = Ahead
    BY DEF Ahead
  <1>6. Registering' => Registering
    BY DEF Registering, Working, Writing
  <1>7. RegisteredInv'
    BY <1>1, <1>3, <1>4, <1>5, <1>6 DEF RegisteredInv
  <1>8. MirroredInv'
    <2>1. Safe' = Safe /\ Exact' = Exact /\ steady' = steady /\ plan' = plan /\ canonical' = canonical
      BY DEF Safe, Exact, fixed, sources
    <2>2. \A n : IsPortable(n)' = IsPortable(n)
      BY <2>1 DEF IsPortable
    <2>3. \A x \in Past : At(x).dest \in Dests
      <3>1. Past \subseteq Slots
        BY DEF Past
      <3>2. \A x \in Slots : At(x) \in Output
        BY SlotIs, Planned DEF At, IInv
      <3> QED
        BY <3>1, <3>2 DEF Output
    <2> HIDE DEF Safe, Exact
    <2> QED
      BY <1>3, <1>4, <1>6, <2>1, <2>2, <2>3 DEF MirroredInv
  <1>9. ReadingInv'
    <2>1. Content(Head(outs))' = Content(Head(outs)) /\ Head(todo)' = Head(todo)
      BY DEF Content
    <2>2. IsPortable(Head(todo).name)' = IsPortable(Head(todo).name)
      BY DEF IsPortable, sources
    <2>3. pc # "idle" /\ pc' # "idle"
      BY DEF Writing
    <2> QED
      BY <1>1, <2>1, <2>2, <2>3 DEF ReadingInv, sources, fixed
  <1>10. PurgedInv'
    BY DEF PurgedInv, Purging, Writing
  <1>11. IdleInv'
    BY <1>1 DEF IdleInv, fixed
  <1> QED
    BY <1>2, <1>7, <1>8, <1>9, <1>10, <1>11

\* A step that gives up the output being written.
LEMMA AbandonAccount ==
    ASSUME Account, pc \in Writing, Abandon,
           UNCHANGED <<sources, tree, todo, seen, expected, roots, victims, pending, fixed, steady>>
    PROVE  RunInv'
  <1>1. failed' /\ outs' = Tail(outs) /\ pc' = "output"
    BY DEF Abandon, NextOutput
  <1> QED
    BY <1>1, FailedAccount

LEMMA TempAccount ==
    ASSUME Account,
           MakeDir \/ CheckTarget \/ CreateTemp \/ WriteTemp \/ Recheck \/ WriteFails
    PROVE  RunInv'
  <1>1. CASE MakeDir
    <2> DEFINE d == Head(outs).dest
    <2>1. pc \in Writing /\ pc' \in Writing /\ pc' \notin {"recheck", "rename"}
      BY <1>1 DEF MakeDir, Writing
    <2>2. d \in Dests /\ tree \in Tree
      BY <2>1, WritingHead DEF Account, IInv, TypeOK
    <2>3. \A e \in Dests : tree'.leaf[e] = tree.leaf[e]
      <3>1. tree' = tree \/ tree' = [tree EXCEPT !.dir[d] = "dir"]
        BY <1>1 DEF MakeDir
      <3> QED
        BY <2>2, <3>1 DEF Tree
    <2>4. /\ UNCHANGED <<sources, todo, outs, seen, expected, roots, victims, pending, fixed, steady>>
          /\ UNCHANGED failed
      BY <1>1 DEF MakeDir, report
    <2> QED
      BY <2>1, <2>3, <2>4, WithinAccount
  <1>5. CASE CheckTarget
    <2>1. pc \in Writing
      BY <1>5 DEF CheckTarget, Writing
    <2>2. UNCHANGED <<sources, tree, todo, seen, expected, roots, victims, pending, fixed, steady>>
      BY <1>5 DEF CheckTarget
    <2>3. CASE Valid(Head(outs).dest)
      <3>1. /\ pc' \in Writing /\ pc' \notin {"recheck", "rename"}
            /\ UNCHANGED <<outs, failed>>
        BY <1>5, <2>3 DEF CheckTarget, Writing, Checked
      <3> QED
        BY <2>1, <2>2, <3>1, WithinAccount
    <2>4. CASE ~Valid(Head(outs).dest)
      BY <1>5, <2>1, <2>2, <2>4, AbandonAccount DEF CheckTarget
    <2> QED
      BY <2>3, <2>4
  <1>6. CASE CreateTemp
    <2>1. pc \in Writing
      BY <1>6 DEF CreateTemp, Writing, Checked
    <2>2. UNCHANGED <<sources, tree, todo, seen, expected, roots, victims, pending, fixed, steady>>
      BY <1>6 DEF CreateTemp
    <2>3. CASE Leads(Head(outs).dest)
      <3>1. /\ pc' \in Writing /\ pc' \notin {"recheck", "rename"}
            /\ UNCHANGED <<outs, failed>>
        BY <1>6, <2>3 DEF CreateTemp, Writing, Checked, Open
      <3> QED
        BY <2>1, <2>2, <3>1, WithinAccount
    <2>4. CASE ~Leads(Head(outs).dest)
      BY <1>6, <2>1, <2>2, <2>4, AbandonAccount DEF CreateTemp
    <2> QED
      BY <2>3, <2>4
  <1>2. CASE WriteTemp
    <2>1. pc = "fill" /\ pc' = "recheck" /\ tmp' = Filled
      BY <1>2 DEF WriteTemp
    <2>2. UNCHANGED <<sources, tree, todo, outs, seen, expected, roots, victims, failed, pending, fixed, steady>>
      BY <1>2 DEF WriteTemp, report
    <2>3. tmp' # None => tmp' = Content(Head(outs))
      BY <2>1 DEF Filled
    <2>4. pc \in Writing /\ pc' \in Writing
      BY <2>1 DEF Writing, Checked, Open
    <2> QED
      BY <2>2, <2>3, <2>4, WithinAccount
  <1>3. CASE Recheck
    <2>1. pc = "recheck" /\ pc \in Writing
      BY <1>3 DEF Recheck, Writing, Checked, Open
    <2>2. UNCHANGED <<sources, tree, todo, seen, expected, roots, victims, pending, fixed, steady>>
      BY <1>3 DEF Recheck
    <2>3. CASE Valid(Head(outs).dest)
      <3>1. pc' = "rename" /\ UNCHANGED <<outs, tmp, failed>>
        BY <1>3, <2>3 DEF Recheck
      <3>2. tmp' # None => tmp' = Content(Head(outs))
        BY <2>1, <3>1 DEF Account, RunInv, ReadingInv
      <3>3. pc' \in Writing
        BY <3>1 DEF Writing, Checked, Open
      <3> QED
        BY <2>1, <2>2, <3>1, <3>2, <3>3, WithinAccount
    <2>4. CASE ~Valid(Head(outs).dest)
      BY <1>3, <2>1, <2>2, <2>4, AbandonAccount DEF Recheck
    <2> QED
      BY <2>3, <2>4
  <1>4. CASE WriteFails
    BY <1>4, AbandonAccount DEF WriteFails, Writing, Checked, Open
  <1> QED
    BY <1>1, <1>2, <1>3, <1>4, <1>5, <1>6

LEMMA RenameAccount ==
    ASSUME Account, Rename
    PROVE  RunInv'
  <1> DEFINE o == Head(outs)
  <1>1. pc = "rename" /\ pc \in Writing
    BY DEF Rename, Writing, Checked, Open
  <1>2. UNCHANGED <<surface, todo, seen, expected, roots, victims, pending, fixed, steady>>
    BY DEF Rename
  <1>3. /\ outs # <<>> /\ o \in Output /\ o.dest \in Dests /\ tree \in Tree /\ todo # <<>> /\ mode = "write"
        /\ InSkill /\ victims = {}
    BY <1>1, WritingHead DEF Account, RunInv, OrderInv, IInv, LocalInv, TypeOK, InSkill
  <1> DEFINE found == Reachable /\ (Linked(o.dest) \/ tree.leaf[o.dest] # Odd)
  <1>4. CASE ~found
    <2>1. Abandon /\ UNCHANGED <<canonical, tree>>
      BY <1>4 DEF Rename
    <2> QED
      BY <1>1, <1>2, <2>1, AbandonAccount DEF sources
  <1>5. CASE found
    <2>0. Install(o.dest) /\ NextOutput /\ (failed' \/ failed' = failed)
      BY <1>5 DEF Rename, Account, IInv, TypeOK
    <2>00. pc' = "output" /\ outs' = Tail(outs) /\ tmp # None
      BY <1>5, <2>0 DEF NextOutput, Reachable
    <2>1. steady => canonical' = canonical /\ tree' = [tree EXCEPT !.leaf[o.dest] = tmp]
      BY <1>1, <1>5, <2>0, Installed DEF Account
    <2>2. tmp = Rendered(o, seen[o.of])
      BY <1>1, <2>00 DEF Account, RunInv, ReadingInv, Content
    <2>3. steady => tree'.leaf[o.dest] = tmp /\ \A e \in Dests \ {o.dest} : tree'.leaf[e] = tree.leaf[e]
      BY <1>3, <2>1 DEF Tree
    <2>5. InSkill'
      BY <2>00 DEF InSkill
    <2>6. Rest(Tail(outs), Outputs(Head(todo))) /\ o.of = Head(todo).name
      <3>1. Head(todo) \in SkillEntry
        BY <1>3, HeadTailProperties DEF Account, IInv, TypeOK
      <3>2. /\ outs \in Seq(Output) /\ Outputs(Head(todo)) \in Seq(Output)
            /\ Rest(outs, Outputs(Head(todo)))
        BY <1>3, <3>1, OutputsType DEF Account, IInv, TypeOK, RunInv, OrderInv
      <3>3. /\ o = Outputs(Head(todo))[Len(Outputs(Head(todo))) - Len(outs) + 1]
            /\ Len(Outputs(Head(todo))) - Len(outs) + 1 \in 1..Len(Outputs(Head(todo)))
            /\ Rest(Tail(outs), Outputs(Head(todo)))
        BY <1>3, <3>2, RestTail
      <3> QED
        BY <3>1, <3>3, OutputsType
    <2>7. OrderInv'
      BY <1>1, <1>2, <1>3, <2>00, <2>5, <2>6 DEF Account, RunInv, OrderInv, fixed, Working, Writing
    <2>8. ReadingInv'
      BY <1>1, <1>2, <1>3, <2>00, <2>1 DEF Account, RunInv, ReadingInv, IsPortable, fixed
    <2>9. PurgedInv' /\ IdleInv'
      BY <1>1, <1>2, <1>3, <2>00 DEF PurgedInv, Purging, IdleInv, fixed
    <2>10. CASE ~Registering'
      <3>1. RegisteredInv' /\ MirroredInv'
        BY <2>10 DEF RegisteredInv, MirroredInv
      <3> QED
        BY <2>7, <2>8, <2>9, <3>1 DEF RunInv
    <2>11. CASE Registering'
      <3>1. Registering
        BY <1>1, <2>0, <2>00, <2>11 DEF Registering, Working, Writing
      <3>2. Ahead = {o.dest}
        BY <1>1 DEF Ahead
      <3>3. expected = PastDests \cup Ahead /\ PastDests \cap Ahead = {}
        BY <3>1 DEF Account, RunInv, RegisteredInv
      <3>4. PastDests \subseteq Dests
        <4>1. Past \subseteq Slots
          BY DEF Past
        <4>2. \A x \in Slots : At(x) \in Output
          BY SlotIs, Planned DEF At, Account, IInv
        <4> QED
          BY <4>1, <4>2 DEF Output, PastDests
      <3>5. steady => \A e \in PastDests : tree'.leaf[e] = tree.leaf[e]
        BY <2>3, <3>2, <3>3, <3>4
      <3>6. steady => tree'.leaf[o.dest] = Rendered(o, canonical[o.of])
        BY <1>3, <2>2, <2>3, <2>6 DEF Account, RunInv, ReadingInv
      <3>7. Exact' => Exact
        BY <1>2, <1>3 DEF Exact
      <3>8. o.dest \notin PastDests /\ expected' = expected \cup {o.dest} /\ Ahead \subseteq {o.dest}
        BY <1>2, <3>2, <3>3
      <3>9. UNCHANGED <<surface, plan, mode, steady, seen, todo, victims>> /\ TypeOK /\ RunInv
        BY <1>2, <2>1 DEF fixed, Account, IInv
      <3>10. RegisteredInv' /\ MirroredInv'
        BY <1>3, <2>00, <2>1, <3>1, <3>3, <3>5, <3>6, <3>7, <3>8, <3>9, OneMorePast
      <3> QED
        BY <2>7, <2>8, <2>9, <3>10 DEF RunInv
    <2> QED
      BY <2>10, <2>11
  <1> QED
    BY <1>4, <1>5

\* What is known once the run has left its skills without an error.
LEMMA AllDone ==
    ASSUME Account, pc = "purge" \/ (pc = "done" /\ ~failed)
    PROVE  /\ expected = Asked(plan) /\ Unambiguous(plan) /\ plan.ok
           /\ steady /\ Safe /\ Exact => InPlace(plan)
  <1> USE DEF Account, RunInv
  <1>1. todo = <<>> /\ plan.ok /\ TypeOK /\ Registering
    BY DEF OrderInv, Registering, Working, IInv
  <1>2. Past = Slots /\ Done = Len(plan.skills) /\ PastDests = Asked(plan)
    BY <1>1, AllPast
  <1>3. Ahead = {}
    BY DEF Ahead, Writing
  <1>4. expected = Asked(plan)
    BY <1>1, <1>2, <1>3 DEF RegisteredInv
  <1>5. Unambiguous(plan)
    <2>1. \A x, y \in Slots : At(x).dest = At(y).dest => x = y
      BY <1>1, <1>2 DEF RegisteredInv
    <2> QED
      BY <1>1, <2>1, OnceEach
  <1>6. ASSUME steady, Safe, Exact
        PROVE  InPlace(plan)
    <2>1. DOMAIN plan.skills = 1..Len(plan.skills)
      BY <1>1, Planned
    <2>2. \A i \in 1..Len(plan.skills) : IsPortable(plan.skills[i].name)
      BY <1>1, <1>2, <1>6 DEF MirroredInv
    <2>3. \A x \in Slots : tree.leaf[At(x).dest] = Rendered(At(x), canonical[At(x).of])
      BY <1>1, <1>2, <1>6 DEF MirroredInv
    <2>4. ASSUME NEW i \in 1..Len(plan.skills), NEW o \in OutputSet(plan.skills[i])
          PROVE  tree.leaf[o.dest] = Rendered(o, canonical[o.of])
      <3>1. PICK j \in 1..Len(Made(i)) : o = At(<<i, j>>)
        BY <1>1, OutputAt
      <3>2. <<i, j>> \in Slots
        BY SlotIs
      <3> QED
        BY <2>3, <3>1, <3>2
    <2> QED
      BY <2>1, <2>2, <2>4 DEF InPlace
  <1> QED
    BY <1>1, <1>4, <1>5, <1>6

LEMMA StartPurgeAccount ==
    ASSUME Account, StartPurge
    PROVE  RunInv'
  <1> USE DEF Account, RunInv
  <1>1. /\ pc = "skill" /\ todo = <<>> /\ pc' = IF failed THEN "done" ELSE "purge"
        /\ UNCHANGED <<surface, canonical, tree, todo, outs, seen, expected, tmp, victims, failed, pending, mode, plan, steady>>
    BY DEF StartPurge, MayPurge, sources, report, fixed, IInv, TypeOK
  <1>2. Rest(todo, plan.skills) /\ victims = {} /\ ~InSkill /\ ~InSkill' /\ Ahead = {} /\ Ahead' = {} /\ plan.ok
    BY <1>1 DEF OrderInv, InSkill, Writing, Working, Ahead, PurgeInv
  <1>3. Past' = Past /\ Done' = Done /\ PastDests' = PastDests
    BY <1>1, <1>2, PastStays
  <1>4. \A x : At(x)' = At(x)
    BY <1>1, <1>2, PastStays
  <1>5. OrderInv'
    BY <1>1, <1>2 DEF OrderInv
  <1>6. Registering' => Registering
    BY <1>1 DEF Registering, Working
  <1>7. RegisteredInv'
    BY <1>1, <1>2, <1>3, <1>4, <1>6 DEF RegisteredInv
  <1>8. MirroredInv'
    <2>1. Safe' = Safe /\ Exact' = Exact /\ steady' = steady /\ plan' = plan /\ tree' = tree /\ canonical' = canonical
      BY <1>1 DEF Safe, Exact
    <2>2. \A n : IsPortable(n)' = IsPortable(n)
      BY <2>1 DEF IsPortable
    <2> HIDE DEF Safe, Exact
    <2> QED
      BY <1>3, <1>4, <1>6, <2>1, <2>2 DEF MirroredInv
  <1>9. ReadingInv'
    BY <1>1, <1>2 DEF ReadingInv
  <1>10. PurgedInv'
    <2>1. CASE failed
      BY <1>1, <2>1 DEF PurgedInv, Purging
    <2>2. CASE ~failed
      <3>1. roots' = <<"claude", "plugin">>
        BY <2>2 DEF StartPurge, MayPurge
      <3>2. Left' = Roots
        <4>1. roots'[1] = "claude" /\ roots'[2] = "plugin" /\ DOMAIN roots' = {1, 2}
          BY <3>1
        <4> QED
          BY <4>1 DEF Left, Roots
      <3>3. plan.managed \subseteq Roots
        BY SurfacesAssumption DEF IInv, TypeOK, Surface
      <3> QED
        BY <1>1, <3>2, <3>3 DEF PurgedInv, Cleared
    <2> QED
      BY <2>1, <2>2
  <1>11. IdleInv'
    BY <1>1, IdleKept
  <1> QED
    BY <1>5, <1>7, <1>8, <1>9, <1>10, <1>11

\* The steps of the purge: what was registered stays registered, and what is in
\* place stays in place.
LEMMA PurgeAccount ==
    ASSUME Account, pc = "purge", pc' \in {"purge", "done"}, failed => failed',
           UNCHANGED <<surface, todo, outs, seen, expected, tmp, plan, mode, steady>>,
           pc' = "done" => victims' = {} /\ (~failed' => roots' = <<>>),
           expected \cap victims' = {}, Exact' => Exact,
           steady /\ Safe => canonical' = canonical,
           \A e \in expected : tree'.leaf[e] = tree.leaf[e],
           IdleInv', PurgedInv'
    PROVE  RunInv'
  <1> USE DEF Account, RunInv
  <1>1. todo = <<>> /\ plan.ok /\ Rest(todo, plan.skills) /\ ~InSkill /\ ~InSkill' /\ Ahead = {} /\ Ahead' = {}
    BY DEF OrderInv, Working, InSkill, Writing, Ahead
  <1>2. Past' = Past /\ Done' = Done /\ PastDests' = PastDests
    BY <1>1, PastStays
  <1>3. \A x : At(x)' = At(x)
    BY <1>1, PastStays
  <1>4. Registering
    BY DEF Registering, Working
  <1>5. OrderInv'
    BY <1>1 DEF OrderInv
  <1>6. RegisteredInv'
    BY <1>1, <1>2, <1>3, <1>4 DEF RegisteredInv
  <1>7. MirroredInv'
    <2>1. \A x \in Past : At(x).dest \in expected
      BY <1>4 DEF RegisteredInv, PastDests
    <2>2. Safe' = Safe
      BY DEF Safe
    <2> HIDE DEF Safe, Exact
    <2>3. CASE ~(steady /\ Safe)
      BY <2>2, <2>3 DEF MirroredInv
    <2>4. CASE steady /\ Safe
      <3>1. canonical' = canonical
        BY <2>4
      <3>2. \A n : IsPortable(n)' = IsPortable(n)
        BY <3>1 DEF IsPortable
      <3> QED
        BY <1>2, <1>3, <1>4, <2>1, <2>4, <3>1, <3>2 DEF MirroredInv
    <2> QED
      BY <2>3, <2>4
  <1>8. ReadingInv'
    BY <1>1 DEF ReadingInv
  <1> QED
    BY <1>5, <1>6, <1>7, <1>8

LEMMA ListStaleAccount ==
    ASSUME Account, ListStale
    PROVE  RunInv'
  <1>1. /\ pc = "purge" /\ victims = {}
        /\ UNCHANGED <<surface, canonical, tree, todo, outs, seen, expected, tmp, failed, plan, mode, steady>>
    BY DEF ListStale, sources, fixed
  <1>2. expected = Asked(plan) /\ roots \in Seq(Roots)
    BY <1>1, AllDone DEF Account, IInv, TypeOK
  <1>3. CASE roots = <<>>
    <2>1. pc' = "done" /\ UNCHANGED <<roots, victims, pending>>
      BY <1>3 DEF ListStale
    <2>2. PurgedInv'
      <3>1. Purging' => Purging
        BY <1>1 DEF Purging
      <3>2. Cleared' = Cleared /\ Safe' = Safe /\ Exact' = Exact
        <4>1. Held' = Held
          BY <1>1 DEF Held
        <4>2. Left' = Left
          BY <2>1 DEF Left
        <4> QED
          BY <1>1, <2>1, <4>1, <4>2 DEF Cleared, Safe, Exact
      <3> QED
        BY <1>1, <3>1, <3>2 DEF PurgedInv, Account, RunInv
    <2>3. IdleInv'
      BY <1>1, <2>1, IdleKept DEF Account, RunInv
    <2>4. Exact' => Exact
      BY <1>1, <2>1 DEF Exact
    <2> QED
      BY <1>1, <1>3, <2>1, <2>2, <2>3, <2>4, PurgeAccount
  <1>4. CASE roots # <<>>
    <2>1. PICK root : root = Head(roots)
      OBVIOUS
    <2>2. PICK stale : stale = IF root \in plan.managed THEN Stale(root) ELSE {}
      OBVIOUS
    <2>3. /\ pc' = "purge" /\ roots' = Tail(roots) /\ victims' = IF mode = "write" THEN stale ELSE {}
          /\ pending' = (pending \/ stale # {})
      BY <1>1, <1>4, <2>1, <2>2 DEF ListStale
    <2>4. expected \cap stale = {}
      BY <2>2 DEF Stale
    <2>5. Left \subseteq {root} \cup Left'
      <3>1. /\ roots = <<root>> \o Tail(roots) \/ TRUE
            /\ Len(Tail(roots)) = Len(roots) - 1 /\ Len(roots) \in Nat /\ Tail(roots) \in Seq(Roots)
            /\ \A i \in 1..(Len(roots) - 1) : Tail(roots)[i] = roots[i + 1]
            /\ root = roots[1]
        BY <1>2, <1>4, <2>1, HeadTailProperties
      <3>2. DOMAIN roots = 1..Len(roots) /\ DOMAIN Tail(roots) = 1..(Len(roots) - 1)
        BY <1>2, <3>1
      <3>3. ASSUME NEW i \in 1..Len(roots), roots[i] # root
            PROVE  roots[i] \in Left'
        <4>1. i # 1 /\ i - 1 \in 1..(Len(roots) - 1)
          BY <3>1, <3>3
        <4>2. Tail(roots)[i - 1] = roots[i]
          BY <3>1, <4>1
        <4> QED
          BY <2>3, <3>2, <4>1, <4>2 DEF Left
      <3> QED
        BY <3>2, <3>3 DEF Left
    <2>6. Exact' => Exact /\ (mode = "write" \/ stale = {})
      BY <1>1, <2>3 DEF Exact, Account, IInv, TypeOK
    <2>7. PurgedInv'
      <3> SUFFICES ASSUME steady, Safe, Exact', ~failed PROVE Cleared'
        BY <1>1 DEF PurgedInv, Purging, Safe
      <3>1. Cleared
        BY <1>1, <2>6 DEF PurgedInv, Purging, Account, RunInv
      <3>3. stale \subseteq victims'
        BY <2>3, <2>6
      <3>4. ASSUME NEW e \in Held, e[1] \in plan.managed \ Left'
            PROVE  e \in expected \cup victims'
        <4>1. CASE e[1] = root
          <5>1. e = <<root, e[2]>> /\ e[2] \in Names /\ root \in Roots
            BY <4>1 DEF Held, Dests
          <5>2. e[2] \in Listing(root)
            BY <5>1, ListingHeld
          <5> QED
            BY <2>2, <3>3, <3>4, <4>1, <5>1, <5>2 DEF Stale
        <4>2. CASE e[1] # root
          BY <1>1, <2>5, <3>1, <3>4, <4>2 DEF Cleared
        <4> QED
          BY <4>1, <4>2
      <3>5. Held' = Held
        BY <1>1 DEF Held
      <3> QED
        BY <1>1, <3>4, <3>5 DEF Cleared
    <2>8. IdleInv'
      <3> SUFFICES ASSUME mode = "check", steady, Current(plan) PROVE pending' = FALSE
        <4>1. Current(plan)' = Current(plan)
          BY <1>1 DEF Current, InPlace, IsPortable, Listing
        <4> QED
          BY <1>1, <4>1 DEF IdleInv
      <3>1. ~pending
        BY <1>1 DEF IdleInv, Account, RunInv
      <3>2. stale = {}
        BY <1>2, <2>2 DEF Current, Stale
      <3> QED
        BY <2>3, <3>1, <3>2 DEF Account, IInv, TypeOK
    <2>9. expected \cap victims' = {}
      BY <2>3, <2>4
    <2> QED
      BY <1>1, <2>3, <2>6, <2>7, <2>8, <2>9, PurgeAccount
  <1> QED
    BY <1>3, <1>4

LEMMA ListFailsAccount ==
    ASSUME Account, ListFails
    PROVE  RunInv'
  <1>1. /\ pc = "purge" /\ victims = {} /\ failed' /\ pc' = "purge"
        /\ UNCHANGED <<surface, canonical, tree, todo, outs, seen, expected, tmp, victims, pending, plan, mode, steady>>
    BY DEF ListFails, sources, fixed
  <1>2. PurgedInv'
    BY <1>1 DEF PurgedInv, Purging
  <1>3. IdleInv'
    BY <1>1, IdleKept DEF Account, RunInv
  <1>4. Exact' => Exact
    BY <1>1 DEF Exact
  <1> QED
    BY <1>1, <1>2, <1>3, <1>4, PurgeAccount

LEMMA RemoveAccount ==
    ASSUME Account, NEW d \in Dests, RemoveStale(d)
    PROVE  RunInv'
  <1>1. /\ pc = "purge" /\ pc' = "purge" /\ d \in victims /\ victims' = victims \ {d} /\ mode = "write"
        /\ UNCHANGED <<surface, todo, outs, seen, expected, tmp, roots, pending, plan, mode, steady>>
    BY DEF RemoveStale, fixed, Account, IInv, LocalInv
  <1>2. expected \cap victims = {} /\ tree \in Tree /\ canonical \in [Names -> Texts \cup {Absent}]
    BY <1>1 DEF Account, RunInv, RegisteredInv, Registering, Working, IInv, TypeOK
  <1>3. (failed' = failed \/ failed') /\ (steady /\ EveryRootUsed => canonical' = canonical)
    <2>1. failed' = failed \/ failed'
      BY DEF RemoveStale
    <2>2. RunStep
      BY DEF RunStep
    <2> QED
      BY <2>1, <2>2, SparedStep DEF Account
  <1>4. \/ tree' = tree
        \/ tree' = [tree EXCEPT !.dir[d] = "absent", !.leaf[d] = None]
    BY DEF RemoveStale
  <1>5. tree'.base = tree.base /\ \A e \in Dests \ {d} : tree'.leaf[e] = tree.leaf[e] /\ tree'.dir[e] = tree.dir[e]
    <2>1. /\ tree.dir \in [Dests -> {"absent", "dir", "link"}] /\ tree.leaf \in [Dests -> Leaf]
          /\ tree = [base |-> tree.base, dir |-> tree.dir, leaf |-> tree.leaf]
      BY <1>2 DEF Tree
    <2>2. tree'.base = tree.base
      BY <1>4, <2>1
    <2>3. tree'.leaf \in {tree.leaf, [tree.leaf EXCEPT ![d] = None]}
      BY <1>4, <2>1
    <2>4. tree'.dir \in {tree.dir, [tree.dir EXCEPT ![d] = "absent"]}
      BY <1>4, <2>1
    <2> QED
      BY <2>1, <2>2, <2>3, <2>4
  <1>6. \A e \in expected : tree'.leaf[e] = tree.leaf[e]
    BY <1>1, <1>2, <1>5 DEF Account, IInv, TypeOK
  <1>7. IdleInv'
    BY <1>1 DEF IdleInv
  <1>8. PurgedInv'
    <2> SUFFICES ASSUME steady, Safe, Exact, ~failed' PROVE Cleared'
      BY <1>1 DEF PurgedInv, Purging, Safe, Exact
    <2>1. ~failed /\ canonical' = canonical
      BY <1>1, <1>3 DEF Safe
    <2>2. Cleared
      BY <1>1, <2>1 DEF Account, RunInv, PurgedInv, Purging
    <2>3. \/ tree.base[d[1]] = "link" /\ canonical' = [canonical EXCEPT ![d[2]] = Absent] /\ tree' = tree
          \/ tree.base[d[1]] # "link" /\ tree' = [tree EXCEPT !.dir[d] = "absent", !.leaf[d] = None]
      BY <2>1 DEF RemoveStale
    <2>4. ASSUME NEW e \in Held'
          PROVE  e \in Held /\ e # d
      <3>1. e \in Dests /\ e[2] \in Names /\ d[2] \in Names /\ d[1] \in Roots /\ e[1] \in Roots
        BY DEF Held, Dests
      <3>2. CASE tree.base[e[1]] = "link"
        <4>1. canonical[e[2]] # Absent
          BY <1>5, <2>1, <3>2 DEF Held
        <4>2. e = d => canonical'[e[2]] = Absent
          BY <1>2, <2>3, <3>1, <3>2
        <4> QED
          BY <2>1, <3>1, <3>2, <4>1, <4>2 DEF Held
      <3>3. CASE tree.base[e[1]] # "link"
        <4>1. tree'.dir[e] = "dir"
          BY <1>5, <3>3 DEF Held
        <4>2. e = d => tree'.dir[e] = "absent"
          <5>1. /\ tree.dir \in [Dests -> {"absent", "dir", "link"}]
                /\ tree = [base |-> tree.base, dir |-> tree.dir, leaf |-> tree.leaf]
            BY <1>2 DEF Tree
          <5>2. e = d => tree' = [tree EXCEPT !.dir[d] = "absent", !.leaf[d] = None]
            BY <2>3, <3>3
          <5>3. e = d => tree'.dir = [tree.dir EXCEPT ![d] = "absent"]
            BY <5>1, <5>2
          <5> QED
            BY <5>1, <5>3
        <4>3. e # d /\ tree.dir[e] = "dir"
          BY <1>5, <3>1, <4>1, <4>2
        <4> QED
          BY <3>1, <3>3, <4>3 DEF Held
      <3> QED
        BY <3>2, <3>3
    <2>5. \A e \in Held' : e[1] \in plan.managed \ Left => e \in expected \cup victims'
      BY <1>1, <2>2, <2>4 DEF Cleared
    <2>6. Left' = Left
      BY <1>1 DEF Left
    <2> QED
      BY <1>1, <2>5, <2>6 DEF Cleared
  <1>9. Exact' => Exact
    BY <1>1 DEF Exact
  <1>10. steady /\ Safe => canonical' = canonical
    BY <1>1, <1>3 DEF Safe
  <1> QED
    BY <1>1, <1>2, <1>3, <1>6, <1>7, <1>8, <1>9, <1>10, PurgeAccount

LEMMA EndAccount ==
    ASSUME Account, Return \/ Crash
    PROVE  RunInv'
  <1>1. pc' = "idle" /\ expected' = {} /\ victims' = {}
    BY DEF Return, Crash, Forget
  <1>2. OrderInv'
    BY <1>1 DEF OrderInv, InSkill, Writing, Working
  <1>3. RegisteredInv' /\ MirroredInv'
    BY <1>1 DEF RegisteredInv, MirroredInv, Registering, Working
  <1>4. ReadingInv' /\ PurgedInv' /\ IdleInv'
    BY <1>1 DEF ReadingInv, PurgedInv, IdleInv, InSkill, Writing, Purging
  <1> QED
    BY <1>2, <1>3, <1>4 DEF RunInv

\* An edit, or nothing at all, moves nothing of the run but its temporary file.
LEMMA OthersAccount ==
    ASSUME Account, UNCHANGED <<pc, todo, outs, seen, expected, roots, victims, report, fixed>>,
           tmp' \in {tmp, None},
           steady' => UNCHANGED <<surface, canonical, tree, steady>>
    PROVE  RunInv'
  <1> USE DEF Account, RunInv
  <1>1. UNCHANGED <<pc, todo, outs, seen, expected, roots, victims, failed, pending, mode, plan>>
    BY DEF report, fixed
  <1>2. InSkill' <=> InSkill
    BY <1>1 DEF InSkill
  <1>3. Past' = Past /\ Done' = Done /\ PastDests' = PastDests
    BY <1>1, <1>2, PastStays
  <1>4. \A x : At(x)' = At(x)
    BY <1>1, <1>2, PastStays
  <1>5. Ahead' = Ahead /\ (Registering' <=> Registering)
    BY <1>1 DEF Ahead, Registering
  <1>6. OrderInv'
    BY <1>1, <1>2 DEF OrderInv, Rest
  <1>7. RegisteredInv'
    BY <1>1, <1>3, <1>4, <1>5 DEF RegisteredInv
  <1>8. ReadingInv'
    <2>1. pc' \in {"recheck", "rename"} /\ tmp' # None => tmp' = Content(Head(outs))'
      BY <1>1 DEF ReadingInv, Content
    <2>2. steady' => (surface = plan => (surface = plan)')
      BY <1>1
    <2>3. steady' => steady /\ \A n : (IsPortable(n)' <=> IsPortable(n)) /\ canonical'[n] = canonical[n]
      BY DEF IsPortable
    <2> QED
      BY <1>1, <1>2, <2>1, <2>2, <2>3 DEF ReadingInv
  <1>9. CASE ~steady'
    BY <1>6, <1>7, <1>8, <1>9 DEF MirroredInv, PurgedInv, IdleInv
  <1>10. CASE steady'
    <2>1. UNCHANGED <<surface, canonical, tree, steady>>
      BY <1>10
    <2>2. (Safe' <=> Safe) /\ (Exact' <=> Exact) /\ (Purging' <=> Purging)
      BY <1>1 DEF Safe, Exact, Purging
    <2>3. MirroredInv'
      <3>1. \A n : IsPortable(n)' <=> IsPortable(n)
        BY <2>1 DEF IsPortable
      <3> HIDE DEF Safe, Exact
      <3> QED
        BY <1>1, <1>3, <1>4, <1>5, <2>1, <2>2, <3>1 DEF MirroredInv
    <2>4. PurgedInv'
      <3>1. Cleared' <=> Cleared
        BY <1>1, <2>1 DEF Cleared, Held, Left
      <3> HIDE DEF Safe, Exact
      <3> QED
        BY <2>1, <2>2, <3>1 DEF PurgedInv
    <2>5. IdleInv'
      <3>1. CASE pc = "idle"
        BY <1>1, <3>1 DEF IdleInv
      <3>2. CASE pc # "idle"
        BY <1>1, <2>1, <3>2, IdleKept
      <3> QED
        BY <3>1, <3>2
    <2> QED
      BY <1>6, <1>7, <1>8, <2>3, <2>4, <2>5
  <1> QED
    BY <1>9, <1>10

LEMMA EditAccount ==
    ASSUME Account, Edit
    PROVE  RunInv'
  <1>1. Edited /\ tmp' \in {tmp, None}
    BY DEF Edit, EditSkill, EditSurface, EditMirror, EditMirrorDir, LinkRoot, LoseTemps
  <1>2. ~steady'
    BY <1>1 DEF Edited
  <1>3. UNCHANGED <<pc, todo, outs, seen, expected, roots, victims, report, fixed>>
    BY <1>1 DEF Edited
  <1> QED
    BY <1>1, <1>2, <1>3, OthersAccount

LEMMA InitAccount == Init => RunInv
  <1> SUFFICES ASSUME Init PROVE RunInv
    OBVIOUS
  <1>1. pc = "idle" /\ expected = {} /\ victims = {}
    BY DEF Init, Start
  <1>2. OrderInv
    BY <1>1 DEF OrderInv, InSkill, Writing, Working
  <1>3. RegisteredInv /\ MirroredInv
    BY <1>1 DEF RegisteredInv, MirroredInv, Registering, Working
  <1>4. ReadingInv /\ PurgedInv /\ IdleInv
    BY <1>1 DEF ReadingInv, PurgedInv, IdleInv, InSkill, Writing, Purging
  <1> QED
    BY <1>2, <1>3, <1>4 DEF RunInv

LEMMA AccountStep == Account /\ [Next]_vars => RunInv'
  <1> SUFFICES ASSUME Account, [Next]_vars PROVE RunInv'
    OBVIOUS
  <1>1. ASSUME NEW m \in Modes, Begin(m) PROVE RunInv'
    BY <1>1, BeginAccount
  <1>2. CASE RunStep
    <2>1. ASSUME NEW d \in Dests, RemoveStale(d) PROVE RunInv'
      BY <2>1, RemoveAccount
    <2>2. CASE Validate
      BY <2>2, ValidateAccount
    <2>3. CASE ValidatorMissing \/ ReadSkill
      BY <2>3, ReadAccount
    <2>4. CASE NextSkill
      BY <2>4, NextAccount
    <2>5. CASE SyncContent
      BY <2>5, SyncAccount
    <2>6. CASE \/ MakeDir \/ CheckTarget \/ CreateTemp \/ WriteTemp \/ Recheck \/ WriteFails
      BY <2>6, TempAccount
    <2>7. CASE Rename
      BY <2>7, RenameAccount
    <2>8. CASE StartPurge
      BY <2>8, StartPurgeAccount
    <2>9. CASE ListStale
      BY <2>9, ListStaleAccount
    <2>10. CASE ListFails
      BY <2>10, ListFailsAccount
    <2>11. CASE Return
      BY <2>11, EndAccount
    <2> QED
      BY <1>2, <2>1, <2>2, <2>3, <2>4, <2>5, <2>6, <2>7, <2>8, <2>9, <2>10, <2>11 DEF RunStep
  <1>3. CASE Crash
    BY <1>3, EndAccount
  <1>4. CASE Edit
    BY <1>4, EditAccount
  <1>5. CASE UNCHANGED vars
    <2>1. /\ UNCHANGED <<pc, todo, outs, seen, expected, roots, victims, report, fixed>>
          /\ tmp' = tmp /\ UNCHANGED <<surface, canonical, tree, steady>>
      BY <1>5 DEF vars, sources, progress
    <2> QED
      BY <2>1, OthersAccount
  <1> QED
    BY <1>1, <1>2, <1>3, <1>4, <1>5 DEF Next

LEMMA AccountAlways == Spec => []Account
  <1>1. Init => Account
    BY InitInv, PurgeInvInit, InitAccount DEF Account
  <1>2. Account /\ [Next]_vars => Account'
    BY StepInv, PurgeInvStep, AccountStep DEF Account
  <1> QED
    BY <1>1, <1>2, PTL DEF Spec

-----------------------------------------------------------------------------
(* What follows from the account.                                          *)

\* A run that ends in good order has found or made the tree current.
LEMMA EndsCurrent ==
    ASSUME Account, pc = "done", ~failed, steady, Safe, Exact
    PROVE  Current(surface)
  <1> USE DEF Account, RunInv
  <1>1. surface = plan /\ roots = <<>> /\ victims = {}
    BY DEF ReadingInv, OrderInv
  <1>2. expected = Asked(plan) /\ Unambiguous(plan) /\ plan.ok /\ InPlace(plan)
    BY AllDone
  <1>3. ASSUME NEW root \in plan.managed, NEW n \in Listing(root)
        PROVE  <<root, n>> \in Asked(plan)
    <2>1. root \in Roots
      BY SurfacesAssumption DEF IInv, TypeOK, Surface
    <2>2. <<root, n>> \in Held
      BY <2>1, ListingHeld
    <2>3. Left = {}
      BY <1>1 DEF Left
    <2>4. Cleared
      BY DEF PurgedInv, Purging
    <2>5. \A d \in Held : d[1] \in plan.managed => d \in expected
      BY <1>1, <2>3, <2>4 DEF Cleared
    <2> QED
      BY <1>2, <2>2, <2>5
  <1> QED
    BY <1>1, <1>2, <1>3 DEF Current

\* Run in write mode (sync.go:376-533): when nobody edits the repository
\* meanwhile, a report without errors means that every mirror is the rendering
\* of its source and that the managed roots hold nothing else, whatever the run
\* found and whatever crash came before.  The assumption is the one that keeps
\* the sources safe: a purge through a linked root takes them away.
THEOREM CleanRunHasMirrored ==
    ASSUME EveryRootUsed
    PROVE  Spec => []CleanRunMirrors
  <1>1. Account => CleanRunMirrors
    BY EndsCurrent DEF CleanRunMirrors, Safe, Exact
  <1> QED
    BY <1>1, AccountAlways, PTL

\* Check mode says exactly whether a write run is needed, under no assumption on
\* the manifests: it asks for changes when and only when the tree is not current.
THEOREM ChecksAreExact == Spec => []CheckIsExact
  <1>1. Account => CheckIsExact
    <2> SUFFICES ASSUME Account, pc = "done", mode = "check", steady
                 PROVE  /\ ~failed /\ ~pending => Current(surface)
                        /\ Current(surface) => ~pending
      BY DEF CheckIsExact
    <2>1. ASSUME ~failed, ~pending PROVE Current(surface)
      BY <2>1, EndsCurrent DEF Safe, Exact
    <2>2. surface = plan /\ (Current(plan) => ~pending)
      BY DEF Account, RunInv, ReadingInv, IdleInv
    <2> QED
      BY <2>1, <2>2
  <1> QED
    BY <1>1, AccountAlways, PTL

\* purgeSkillDirs runs last (sync.go:518-533): a run takes a directory away only
\* when the manifest does not ask for it, and only after every mirror it does ask
\* for is in place, so that a reader always finds the new names before the old
\* ones go.
THEOREM PurgesLast ==
    ASSUME EveryRootUsed
    PROVE  Spec => PurgeComesLast
  <1>1. Account /\ [Next]_vars =>
            [RunStep => \A d \in Dests :
                tree.dir[d] = "dir" /\ tree'.dir[d] # "dir" =>
                    d \notin Asked(plan) /\ (steady => InPlace(plan))]_vars
    <2> SUFFICES ASSUME Account, RunStep, NEW d \in Dests,
                        tree.dir[d] = "dir", tree'.dir[d] # "dir"
                 PROVE  d \notin Asked(plan) /\ (steady => InPlace(plan))
      OBVIOUS
    <2>1. tree \in Tree /\ tree = [base |-> tree.base, dir |-> tree.dir, leaf |-> tree.leaf]
          /\ tree.dir \in [Dests -> {"absent", "dir", "link"}]
      BY DEF Account, IInv, TypeOK, Tree
    <2>2. ~MakeDir
      <3>1. \A f : f \in Dests /\ tree' = [tree EXCEPT !.dir[f] = "dir"] =>
                tree'.dir = [tree.dir EXCEPT ![f] = "dir"]
        BY <2>1
      <3>2. Head(outs).dest \in Dests \/ ~MakeDir
        BY WritingHead DEF Account, MakeDir, Writing
      <3> QED
        BY <2>1, <3>1, <3>2 DEF MakeDir
    <2>3. ~Rename
      BY <2>1 DEF Rename, Install
    <2>4. PICK e \in Dests : RemoveStale(e)
      BY <2>2, <2>3 DEF RunStep, Validate, ValidatorMissing, ReadSkill, NextSkill, SyncContent,
             CheckTarget, CreateTemp, WriteTemp, Recheck, WriteFails, StartPurge, ListStale, ListFails, Return
    <2>5. pc = "purge" /\ e \in victims /\ mode = "write"
      BY <2>4 DEF RemoveStale, Account, IInv, LocalInv
    <2>6. d = e
      <3>1. tree' = tree \/ tree' = [tree EXCEPT !.dir[e] = "absent", !.leaf[e] = None]
        BY <2>4 DEF RemoveStale
      <3>2. tree'.dir \in {tree.dir, [tree.dir EXCEPT ![e] = "absent"]}
        BY <2>1, <3>1
      <3> QED
        BY <2>1, <3>2
    <2>7. expected = Asked(plan) /\ expected \cap victims = {}
      <3>1. Registering
        BY <2>5 DEF Registering, Working
      <3>2. expected \cap victims = {}
        BY <3>1 DEF Account, RunInv, RegisteredInv
      <3> QED
        BY <2>5, <3>2, AllDone
    <2>8. steady => InPlace(plan)
      BY <2>5, AllDone DEF Safe, Exact
    <2> QED
      BY <2>5, <2>6, <2>7, <2>8
  <1> QED
    BY <1>1, AccountAlways, PTL DEF Spec, PurgeComesLast
=============================================================================
