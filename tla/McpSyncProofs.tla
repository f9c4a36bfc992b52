---------------------------- MODULE McpSyncProofs ----------------------------
(***************************************************************************)
(* Proofs about McpSync for any number of runs, servers, policies, configs  *)
(* and faults: what an undisturbed run leaves in config.toml, and that its  *)
(* report is true.                                                         *)
(***************************************************************************)
EXTENDS McpSync, MarkedRegionProofs

\* What a run renders: the output for the servers it read and some policy.
Planned(r, p) == ~PlanFails(servers[r], p, text[r]) /\ out[r] = Output(servers[r], p, text[r])
Finished == {"pending", "written", "unchanged"}

\* Where a run is.  Its report is made when it ends, and a sync that went as far as
\* a plan has planned for what it read; for what is there, if nobody edited that.
Progress(r) ==
    /\ pc[r] # "done" => result[r] = "none"
    /\ pc[r] \notin {"idle", "done"} => servers[r] \in McpFiles
    /\ pc[r] \in {"write", "truncated"} \/ result[r] \in Finished =>
          servers[r] \in McpFiles /\ \E p \in Policies : Planned(r, p)
    /\ result[r] = "unchanged" => out[r] = text[r]

UpToDate(r) ==
    stable[r] =>
        /\ pc[r] \notin {"idle", "done"} => servers[r] = mcp
        /\ pc[r] \in {"write", "truncated"} \/ result[r] \in Finished =>
              servers[r] = mcp /\ Planned(r, policy)

\* What the config is while nobody else writes it.
Alone(r) ==
    quiet[r] =>
        /\ pc[r] \in {"read", "checked", "write"} => config = text[r]
        /\ pc[r] = "truncated" => config = <<>>
        /\ result[r] = "written" => config = out[r]
        /\ result[r] = "unchanged" => config = text[r]

\* Whom the policies since the run began name, and what it did about it.
UnderWay(r) == pc[r] \notin {"idle", "done"}
Asked(r) ==
    /\ UnderWay(r) => Verdict(policy) \in verdicts[r]
    /\ pc[r] \in {"checked", "write", "truncated"} \/ touched[r] => "ours" \in verdicts[r]
    /\ pc[r] \in {"write", "truncated"} \/ touched[r] => ~dry[r]
    /\ pc[r] \in {"parsed", "read", "checked", "write"} => ~touched[r]
    /\ result[r] = "deferred" => "theirs" \in verdicts[r]
    /\ result[r] \in {"failed", "deferred", "pending", "unchanged"} => ~touched[r]

IInv == TypeOK /\ \A r \in Runs : Progress(r) /\ UpToDate(r) /\ Alone(r)
OwnerInv == \A r \in Runs : Asked(r)

-----------------------------------------------------------------------------
(* What is rendered, and what its output does to a text.                    *)

\* The profiles of a policy that resolves, and the servers without one, are pairs
\* of a name and a server.
LEMMA ResolvedAre ==
    ASSUME NEW f \in McpFiles, NEW p \in Policies, Resolves(f, p),
           NEW s, s = Resolved(f, p)
    PROVE  \E n \in Nat : /\ s \in Seq({s[i] : i \in 1..n}) /\ DOMAIN s = 1..n
                          /\ \A i \in 1..n : s[i].name \in NameSet /\ s[i].server.text \in Texts
  <1>1. IsMcpFile(f) /\ IsPolicy(p)
    BY McpFilesAssumption, PoliciesAssumption
  <1>2. CASE p.exists
    <2> DEFINE n == Len(p.profiles)
               e(i) == [name |-> p.profiles[i].name, server |-> Launched(f, p.profiles[i])]
    <2>1. n \in Nat /\ DOMAIN p.profiles = 1..n
      BY <1>1 DEF IsPolicy
    <2>2. s = [i \in 1..n |-> e(i)]
      BY <1>2, <2>1 DEF Resolved, Selected
    <2>3. ASSUME NEW i \in 1..n PROVE e(i).name \in NameSet /\ e(i).server.text \in Texts
      <3>1. IsProfile(p.profiles[i]) /\ p.profiles[i].from \in DOMAIN f
        BY <1>1, <1>2, <2>1 DEF IsPolicy, Resolves, PolicyIsSound
      <3>2. IsServer(Launched(f, p.profiles[i]))
        BY <1>1, <3>1 DEF Launched, IsProfile, IsMcpFile
      <3> QED
        BY <3>1, <3>2 DEF IsProfile, IsServer
    <2> HIDE DEF n, e
    <2>4. s \in Seq({s[i] : i \in 1..n}) /\ DOMAIN s = 1..n
      BY <2>1, <2>2, IsASeq
    <2> QED
      BY <2>1, <2>2, <2>3, <2>4
  <1>3. CASE ~p.exists
    <2> DEFINE I == {i \in DOMAIN Names : Names[i] \in DOMAIN f \ Hidden}
               shown == Pick(Names, I)
               n == Len(shown)
               e(i) == [name |-> shown[i], server |-> f[shown[i]]]
    <2>1. shown \in Seq({Names[i] : i \in I})
      <3>1. I \in SUBSET (1..Len(Names)) /\ Len(Names) \in Nat
        BY NamesAssumption
      <3> HIDE DEF I
      <3> QED
        BY <3>1, Picked
    <2>2. n \in Nat /\ DOMAIN shown = 1..n /\ \A i \in 1..n : shown[i] \in {Names[j] : j \in I}
      <3> HIDE DEF shown
      <3> QED
        BY <2>1
    <2>3. s = [i \in 1..n |-> e(i)]
      BY <1>3, <2>2 DEF Resolved, Listed
    <2>4. \A i \in 1..n : shown[i] \in NameSet /\ shown[i] \in DOMAIN f
      <3> HIDE DEF shown, n
      <3>1. \A x \in {Names[j] : j \in I} : x \in NameSet /\ x \in DOMAIN f
        BY DEF NameSet
      <3> QED
        BY <2>2, <3>1
    <2> HIDE DEF shown, n
    <2>5. \A i \in 1..n : e(i).name \in NameSet /\ e(i).server.text \in Texts
      BY <1>1, <2>4 DEF IsMcpFile, IsServer
    <2> HIDE DEF e
    <2>6. s \in Seq({s[i] : i \in 1..n}) /\ DOMAIN s = 1..n
      BY <2>2, <2>3, IsASeq
    <2> QED
      BY <2>2, <2>3, <2>5, <2>6
  <1> QED
    BY <1>2, <1>3

LEMMA BlockIsText ==
    ASSUME NEW f \in McpFiles, NEW p \in Policies, Resolves(f, p), NEW m, m = Block(Profiles(f, p))
    PROVE  m \in Seq(Lines) /\ IsBlock(m, Region0)
  <1> DEFINE s == Resolved(f, p)
             I == {i \in DOMAIN s : s[i].server.codex}
             q == Profiles(f, p)
             t == [i \in DOMAIN q |-> <<"mcp", q[i].name, q[i].server.text>>]
  <1>1. PICK n \in Nat :
            /\ s \in Seq({s[i] : i \in 1..n}) /\ DOMAIN s = 1..n
            /\ \A i \in 1..n : s[i].name \in NameSet /\ s[i].server.text \in Texts
    BY ResolvedAre
  <1>2. q = Pick(s, I)
    BY DEF Profiles, Compatible
  <1> HIDE DEF q, s
  <1>3. q \in Seq({s[i] : i \in I})
    <2>1. I \in SUBSET (1..n)
      BY <1>1
    <2> HIDE DEF I
    <2> QED
      BY <1>2, <2>1, Picked
  <1>4. \A x \in {s[i] : i \in I} : x.name \in NameSet /\ x.server.text \in Texts
    BY <1>1
  <1>5. Len(q) \in Nat /\ DOMAIN q = 1..Len(q) /\ \A i \in 1..Len(q) : q[i].name \in NameSet /\ q[i].server.text \in Texts
    <2> HIDE DEF I
    <2> QED
      BY <1>3, <1>4
  <1>6. \A i \in 1..Len(q) : <<"mcp", q[i].name, q[i].server.text>> \in Lines
    BY <1>5, LinesAssumption
  <1>7. t \in Seq(Lines) /\ \A i \in 1..Len(t) : t[i][1] = "mcp"
    BY <1>5, <1>6, IsASeq
  <1>8. m = <<StartMark(Region0)>> \o t \o <<EndMark(Region0)>>
    BY DEF Block, q
  <1> HIDE DEF t
  <1>9. StartMark(Region0) \in Lines /\ EndMark(Region0) \in Lines
    BY LinesAssumption
  <1> QED
    BY <1>7, <1>8, <1>9, BlockIsBlock

\* The output is a text that renders the servers and keeps the user's lines.
LEMMA OutputIs ==
    ASSUME NEW f \in McpFiles, NEW p \in Policies, NEW c \in Seq(Lines), ~PlanFails(f, p, c),
           NEW d, d = Output(f, p, c)
    PROVE  /\ d \in Seq(Lines)
           /\ OneStart(c) => Renders(d, f, p)
           /\ OneStart(c) /\ ~Exposed(c, Region0) => Keeps(c, d, Region0)
  <1>1. Resolves(f, p) /\ (HasStart(c, Region0) => HasRegion(c, Region0))
    BY DEF PlanFails
  <1>2. PICK m : m = Block(Profiles(f, p))
    OBVIOUS
  <1>3. m \in Seq(Lines) /\ IsBlock(m, Region0) /\ Blank \in Lines
    BY <1>1, <1>2, BlockIsText, LinesAssumption
  <1>4. CASE Profiles(f, p) = <<>> /\ HasStart(c, Region0)
    <2>1. d = Remove(c, Region0)
      BY <1>4 DEF Output
    <2>2. d \in Seq(Lines)
      <3>1. StartOf(c, Region0) \in 1..Len(c) /\ EndOf(c, Region0) \in 1..Len(c)
        BY <1>1, <1>4, RegionBounds
      <3>2. Before(c, Region0) \in Seq(Lines) /\ After(c, Region0) \in Seq(Lines)
        BY <3>1, Slices DEF Before, After
      <3> QED
        BY <2>1, <3>2 DEF Remove
    <2>3. ASSUME OneStart(c) PROVE ~HasStart(d, Region0) /\ Keeps(c, d, Region0)
      <3>1. \A i, j \in Positions(c, StartMark(Region0)) : i = j
        BY <2>3 DEF OneStart
      <3> QED
        BY <1>1, <1>4, <2>1, <3>1, RegionRemoved DEF Keeps
    <2> QED
      BY <1>4, <2>2, <2>3 DEF Renders
  <1>5. CASE Profiles(f, p) = <<>> /\ ~HasStart(c, Region0)
    BY <1>5 DEF Output, Renders, Keeps
  <1>6. CASE Profiles(f, p) # <<>> /\ HasStart(c, Region0)
    <2>1. d = Replace(c, Region0, m)
      BY <1>2, <1>6 DEF Output
    <2>2. \A i \in 1..(StartOf(c, Region0) - 1) : c[i] # StartMark(Region0)
      BY <1>1, <1>6, NoEarlierStart
    <2>3. /\ d \in Seq(Lines) /\ Holds(d, Region0, m)
          /\ OwnLines(c, Region0) = OwnLines(d, Region0)
          /\ ~Exposed(c, Region0) \/ Headers(m) = {} => IsPut(Lines, c, d, Region0, Region0, m)
      BY <1>1, <1>3, <1>6, <2>1, <2>2, RegionReplaced
    <2> QED
      BY <1>2, <1>6, <2>3 DEF Renders, Holds, IsPut, Keeps
  <1>7. CASE Profiles(f, p) # <<>> /\ ~HasStart(c, Region0)
    <2>1. d = Insert(c, m)
      BY <1>2, <1>7 DEF Output
    <2>2. IsPut(Lines, c, d, Region0, Region0, m)
      BY <1>3, <1>7, <2>1, Inserted
    <2> QED
      BY <1>2, <1>7, <2>2 DEF Renders, Holds, IsPut, Keeps
  <1> QED
    BY <1>4, <1>5, <1>6, <1>7

-----------------------------------------------------------------------------
(* The invariant.                                                           *)

\* What a write leaves is made of lines; over an empty file it is what was written.
LEMMA OverIsText ==
    ASSUME config \in Seq(Lines), NEW w \in Seq(Lines)
    PROVE  Over(w) \in Seq(Lines) /\ (config = <<>> => Over(w) = w)
  <1> DEFINE rest == SubSeq(config, Len(w) + 1, Len(config))
  <1>1. Len(w) \in Nat /\ Len(config) \in Nat /\ Len(w) + 1 \in Int /\ Len(config) \in Int /\ 1 <= Len(w) + 1
    OBVIOUS
  <1>2. rest \in Seq(Lines)
    BY <1>1, Slices
  <1>3. config = <<>> => rest = <<>>
    <2>1. config = <<>> => Len(config) < Len(w) + 1
      BY <1>1
    <2> QED
      BY <1>1, <2>1, SubSeqEmpty
  <1>4. w \o <<>> = w
    BY ConcatEmptySeq
  <1> HIDE DEF rest
  <1> QED
    BY <1>2, <1>3, <1>4 DEF Over, rest

LEMMA InvInit == Init => IInv
  <1> SUFFICES ASSUME Init PROVE IInv
    OBVIOUS
  <1>1. TypeOK
    BY ConfigsAssumption, MaxEventsAssumption DEF Init, TypeOK, Places, Results
  <1>2. ASSUME NEW r \in Runs PROVE Progress(r) /\ UpToDate(r) /\ Alone(r)
    BY DEF Init, Progress, UpToDate, Alone, Finished
  <1> QED
    BY <1>1, <1>2 DEF IInv

\* A run that does nothing is where it was if nobody changed a file ...
Rests(r) == UNCHANGED <<pc[r], servers[r], text[r], out[r], result[r]>>
LEMMA Resting ==
    ASSUME NEW r \in Runs, Progress(r) /\ UpToDate(r) /\ Alone(r), Rests(r),
           stable'[r] => stable[r] /\ UNCHANGED <<mcp, policy>>,
           quiet'[r] => quiet[r] /\ UNCHANGED config
    PROVE  Progress(r)' /\ UpToDate(r)' /\ Alone(r)'
  <1>1. Progress(r)'
    BY DEF Progress, Planned, Rests, PlanFails, Unmanaged, Resolves, Output, Finished
  <1>2. UpToDate(r)'
    BY DEF UpToDate, Planned, Rests
  <1>3. Alone(r)'
    BY DEF Alone, Rests
  <1> QED
    BY <1>1, <1>2, <1>3

\* The step of one run: what it does to that run, and that it lets the others rest.
LEMMA StepOf ==
    ASSUME IInv, NEW r \in Runs,
           \A s \in Runs \ {r} : Rests(s) /\ (stable'[s] => stable[s]) /\ (quiet'[s] => quiet[s] /\ UNCHANGED config),
           UNCHANGED <<mcp, policy>>,
           TypeOK', Progress(r)' /\ UpToDate(r)' /\ Alone(r)'
    PROVE  IInv'
  <1>1. ASSUME NEW s \in Runs PROVE Progress(s)' /\ UpToDate(s)' /\ Alone(s)'
    <2>1. CASE s = r
      BY <2>1
    <2>2. CASE s # r
      <3>1. Progress(s) /\ UpToDate(s) /\ Alone(s) /\ s \in Runs \ {r}
        BY <2>2 DEF IInv
      <3> QED
        BY <3>1, Resting
    <2> QED
      BY <2>1, <2>2
  <1> QED
    BY <1>1 DEF IInv

LEMMA ReadingServers ==
    ASSUME IInv, NEW r \in Runs, ReadServers(r)
    PROVE  IInv'
  <1>1. TypeOK'
    BY DEF IInv, TypeOK, ReadServers, files, Places, Results, Verdicts, Verdict
  <1>2. \A s \in Runs \ {r} : Rests(s) /\ (stable'[s] => stable[s]) /\ (quiet'[s] => quiet[s] /\ UNCHANGED config)
    BY DEF IInv, TypeOK, ReadServers, files, Rests
  <1>3. Progress(r)' /\ UpToDate(r)' /\ Alone(r)'
    BY DEF IInv, TypeOK, ReadServers, files, Progress, UpToDate, Alone, Finished
  <1>4. UNCHANGED <<mcp, policy>>
    BY DEF ReadServers, files
  <1> QED
    BY <1>1, <1>2, <1>3, <1>4, StepOf

LEMMA ReadingConfig ==
    ASSUME IInv, NEW r \in Runs, ReadConfig(r)
    PROVE  IInv'
  <1>1. TypeOK'
    BY DEF IInv, TypeOK, ReadConfig, files, Places, Results, history
  <1>2. \A s \in Runs \ {r} : Rests(s) /\ (stable'[s] => stable[s]) /\ (quiet'[s] => quiet[s] /\ UNCHANGED config)
    BY DEF IInv, TypeOK, ReadConfig, files, Rests
  <1>3. Progress(r)' /\ UpToDate(r)' /\ Alone(r)'
    BY DEF IInv, TypeOK, ReadConfig, files, Progress, UpToDate, Alone, Finished
  <1>4. UNCHANGED <<mcp, policy>>
    BY DEF ReadConfig, files
  <1> QED
    BY <1>1, <1>2, <1>3, <1>4, StepOf

LEMMA CheckingOwner ==
    ASSUME IInv, NEW r \in Runs, CheckOwner(r)
    PROVE  IInv'
  <1> USE DEF End, Verdict, Places, Results
  <1>1. TypeOK'
    BY DEF IInv, TypeOK, CheckOwner, files, locals, history
  <1>2. \A s \in Runs \ {r} : Rests(s) /\ (stable'[s] => stable[s]) /\ (quiet'[s] => quiet[s] /\ UNCHANGED config)
    BY DEF IInv, TypeOK, CheckOwner, files, locals, Rests
  <1>3. Progress(r)' /\ UpToDate(r)' /\ Alone(r)'
    BY DEF IInv, TypeOK, CheckOwner, files, locals, Progress, UpToDate, Alone, Finished
  <1>4. UNCHANGED <<mcp, policy>>
    BY DEF CheckOwner, files
  <1> QED
    BY <1>1, <1>2, <1>3, <1>4, StepOf

LEMMA Planning ==
    ASSUME IInv, NEW r \in Runs, Plan(r)
    PROVE  IInv'
  <1> USE DEF End, Places, Results
  <1>1. /\ Progress(r) /\ UpToDate(r) /\ Alone(r) /\ pc[r] = "checked" /\ result[r] = "none"
        /\ servers[r] \in McpFiles /\ policy \in Policies /\ text[r] \in Seq(Lines)
        /\ stable[r] => servers[r] = mcp
        /\ quiet[r] => config = text[r]
    BY DEF IInv, TypeOK, Plan, Progress, UpToDate, Alone
  <1>2. UNCHANGED <<mcp, policy, config, servers, text, quiet, stable>>
    BY DEF Plan, files
  <1>3. \A s \in Runs \ {r} : Rests(s) /\ (stable'[s] => stable[s]) /\ (quiet'[s] => quiet[s] /\ UNCHANGED config)
    <2>1. CASE PlanFails(servers[r], policy, text[r])
      BY <1>2, <2>1 DEF IInv, TypeOK, Plan, Rests
    <2>2. CASE ~PlanFails(servers[r], policy, text[r])
      BY <1>2, <2>2 DEF IInv, TypeOK, Plan, Rests
    <2> QED
      BY <2>1, <2>2
  <1>4. CASE PlanFails(servers[r], policy, text[r])
    <2>1. TypeOK'
      BY <1>4 DEF IInv, TypeOK, Plan, files, history
    <2>2. Progress(r)' /\ UpToDate(r)' /\ Alone(r)'
      <3>1. pc'[r] = "done" /\ result'[r] = "failed"
        BY <1>4 DEF IInv, TypeOK, Plan
      <3> QED
        BY <1>1, <1>2, <3>1 DEF Progress, UpToDate, Alone, Finished
    <2> QED
      BY <1>2, <1>3, <2>1, <2>2, StepOf
  <1>5. CASE ~PlanFails(servers[r], policy, text[r])
    <2>1. PICK o : o = Output(servers[r], policy, text[r])
      OBVIOUS
    <2>2. o \in Seq(Lines)
      BY <1>1, <1>5, <2>1, OutputIs
    <2>3. /\ out' = [out EXCEPT ![r] = o]
          /\ CASE o = text[r] -> End(r, "unchanged")
               [] o # text[r] /\ dry[r] -> End(r, "pending")
               [] OTHER -> pc' = [pc EXCEPT ![r] = "write"] /\ UNCHANGED result
      BY <1>5, <2>1 DEF Plan
    <2>4. TypeOK'
      BY <2>2, <2>3 DEF IInv, TypeOK, Plan, files, history
    <2>5. /\ out'[r] = o
          /\ \/ pc'[r] = "done" /\ result'[r] = "unchanged" /\ o = text[r]
             \/ pc'[r] = "done" /\ result'[r] = "pending"
             \/ pc'[r] = "write" /\ result'[r] = "none"
      BY <1>1, <2>3 DEF IInv, TypeOK
    <2>6. Planned(r, policy)'
      BY <1>2, <1>5, <2>1, <2>5 DEF Planned
    <2>7. Progress(r)'
      <3>1. \E p \in Policies : Planned(r, p)'
        BY <1>1, <1>2, <2>6
      <3> HIDE DEF End
      <3> QED
        BY <1>1, <1>2, <2>5, <3>1 DEF Progress
    <2>8. UpToDate(r)' /\ Alone(r)'
      BY <1>1, <1>2, <2>5, <2>6 DEF UpToDate, Alone
    <2> QED
      BY <1>2, <1>3, <2>4, <2>7, <2>8, StepOf
  <1> QED
    BY <1>4, <1>5

LEMMA Truncating ==
    ASSUME IInv, NEW r \in Runs, Truncate(r)
    PROVE  IInv'
  <1>1. TypeOK'
    BY DEF IInv, TypeOK, Truncate, locals, Disturb, Places
  <1>2. \A s \in Runs \ {r} : Rests(s) /\ (stable'[s] => stable[s]) /\ (quiet'[s] => quiet[s] /\ UNCHANGED config)
    BY DEF IInv, TypeOK, Truncate, locals, Disturb, Rests
  <1>3. /\ pc[r] = "write" /\ pc'[r] = "truncated" /\ config' = <<>>
        /\ UNCHANGED <<mcp, policy, servers, text, out, result, stable>>
    BY DEF IInv, TypeOK, Truncate, locals
  <1>4. Progress(r) /\ UpToDate(r) /\ Alone(r)
    BY DEF IInv
  <1>5. UNCHANGED <<Planned(r, policy)>> /\ \A p : UNCHANGED Planned(r, p)
    BY <1>3 DEF Planned
  <1>6. Progress(r)' /\ UpToDate(r)' /\ Alone(r)'
    BY <1>3, <1>4, <1>5 DEF Progress, UpToDate, Alone, Finished
  <1> QED
    BY <1>1, <1>2, <1>3, <1>6, StepOf

LEMMA Filling ==
    ASSUME IInv, NEW r \in Runs, Fill(r)
    PROVE  IInv'
  <1> USE DEF End
  <1>1. config \in Seq(Lines) /\ out[r] \in Seq(Lines)
    BY DEF IInv, TypeOK
  <1>2. Over(out[r]) \in Seq(Lines) /\ (config = <<>> => Over(out[r]) = out[r])
    BY <1>1, OverIsText
  <1>3. TypeOK'
    BY <1>2 DEF IInv, TypeOK, Fill, locals, Disturb, Places, Results, history
  <1>4. \A s \in Runs \ {r} : Rests(s) /\ (stable'[s] => stable[s]) /\ (quiet'[s] => quiet[s] /\ UNCHANGED config)
    BY DEF IInv, TypeOK, Fill, locals, Disturb, Rests
  <1>5. /\ pc[r] = "truncated" /\ pc'[r] = "done" /\ result'[r] = "written" /\ config' = Over(out[r])
        /\ UNCHANGED <<mcp, policy, servers, text, out, stable>> /\ (quiet'[r] => quiet[r])
    BY DEF IInv, TypeOK, Fill, locals, Disturb
  <1>6. Progress(r) /\ UpToDate(r) /\ Alone(r)
    BY DEF IInv
  <1>7. UNCHANGED <<Planned(r, policy)>> /\ \A p : UNCHANGED Planned(r, p)
    BY <1>5 DEF Planned
  <1>8. Progress(r)' /\ UpToDate(r)' /\ Alone(r)'
    BY <1>2, <1>5, <1>6, <1>7 DEF Progress, UpToDate, Alone, Finished
  <1> QED
    BY <1>3, <1>4, <1>5, <1>8, StepOf

LEMMA FailingOrDying ==
    ASSUME IInv, NEW r \in Runs, ReadFails(r) \/ WriteFails(r) \/ Crash(r)
    PROVE  IInv'
  <1> USE DEF End, Happens
  <1>1. TypeOK'
    <2>1. CASE ReadFails(r)
      BY <2>1, MaxEventsAssumption DEF IInv, TypeOK, ReadFails, files, locals, Places, Results, history
    <2>2. CASE WriteFails(r)
      <3>1. out[r] \in Seq(Lines) /\ config \in Seq(Lines)
        BY DEF IInv, TypeOK
      <3>2. ASSUME NEW n \in 0..Len(out[r]) PROVE Over(SubSeq(out[r], 1, n)) \in Seq(Lines)
        <4>1. SubSeq(out[r], 1, n) \in Seq(Lines)
          BY <3>1, Slices
        <4> QED
          BY <3>1, <4>1, OverIsText
      <3>3. UNCHANGED config \/ \E n \in 0..Len(out[r]) : config' = Over(SubSeq(out[r], 1, n))
        BY <2>2 DEF WriteFails
      <3>4. config' \in Seq(Lines)
        BY <3>1, <3>2, <3>3
      <3> QED
        <4>1. quiet' \in [Runs -> BOOLEAN]
          BY <2>2 DEF IInv, TypeOK, WriteFails, Disturb
        <4>2. /\ events < MaxEvents /\ events' = events + 1
              /\ UNCHANGED <<mcp, policy, dry, servers, text, out, stable, verdicts, touched>>
              /\ pc' = [pc EXCEPT ![r] = "done"] /\ result' = [result EXCEPT ![r] = "broken"]
          BY <2>2 DEF WriteFails, locals, history
        <4> QED
          BY <3>4, <4>1, <4>2, MaxEventsAssumption DEF IInv, TypeOK, Places, Results
    <2>3. CASE Crash(r)
      BY <2>3, MaxEventsAssumption DEF IInv, TypeOK, Crash, files, locals, Places, history
    <2> QED
      BY <2>1, <2>2, <2>3
  <1>2. \A s \in Runs \ {r} : Rests(s) /\ (stable'[s] => stable[s]) /\ (quiet'[s] => quiet[s] /\ UNCHANGED config)
    BY DEF IInv, TypeOK, ReadFails, WriteFails, Crash, files, locals, Disturb, Rests
  <1>3. Progress(r) /\ UpToDate(r) /\ Alone(r)
    BY DEF IInv
  <1>4. /\ \/ pc'[r] = "done" /\ result'[r] \in {"failed", "broken"}
           \/ pc'[r] = "idle" /\ result'[r] = "none"
        /\ UNCHANGED <<mcp, policy, stable>>
    BY <1>3 DEF IInv, TypeOK, Progress, ReadFails, WriteFails, Crash, files, locals
  <1>5. Progress(r)' /\ UpToDate(r)' /\ Alone(r)'
    BY <1>4 DEF Progress, UpToDate, Alone, Finished
  <1> QED
    BY <1>1, <1>2, <1>4, <1>5, StepOf

LEMMA Editing ==
    ASSUME IInv, EditConfig \/ EditSources \/ UNCHANGED vars
    PROVE  IInv'
  <1> USE DEF Happens
  <1>1. TypeOK'
    <2>1. CASE EditConfig
      <3>1. config' \in Seq(Lines)
        BY <2>1, ConfigsAssumption DEF EditConfig
      <3> QED
        BY <2>1, <3>1, MaxEventsAssumption DEF IInv, TypeOK, EditConfig, locals, Disturb, history
    <2>2. CASE EditSources
      BY <2>2, MaxEventsAssumption DEF IInv, TypeOK, EditSources, locals, Verdict, Verdicts
    <2>3. CASE UNCHANGED vars
      BY <2>3 DEF IInv, TypeOK, vars, files, locals, history
    <2> QED
      BY <2>1, <2>2, <2>3
  <1>2. ASSUME NEW s \in Runs PROVE Progress(s)' /\ UpToDate(s)' /\ Alone(s)'
    <2>1. Progress(s) /\ UpToDate(s) /\ Alone(s)
      BY DEF IInv
    <2>2. /\ Rests(s)
          /\ stable'[s] => stable[s] /\ UNCHANGED <<mcp, policy>>
          /\ quiet'[s] => quiet[s] /\ UNCHANGED config
      BY DEF EditConfig, EditSources, vars, files, locals, Disturb, Rests
    <2> QED
      BY <2>1, <2>2, Resting
  <1> QED
    BY <1>1, <1>2 DEF IInv

LEMMA InvStep == IInv /\ [Next]_vars => IInv'
  BY ReadingServers, ReadingConfig, CheckingOwner, Planning, Truncating, Filling,
     FailingOrDying, Editing DEF Next, RunStep

-----------------------------------------------------------------------------
(* Who was asked before the config was opened.                              *)

\* The run's own steps.
LEMMA AskedByStep ==
    ASSUME IInv, NEW r \in Runs, Asked(r), RunStep(r) \/ Crash(r)
    PROVE  Asked(r)'
  <1> USE DEF End
  <1>1. /\ pc \in [Runs -> Places] /\ dry \in [Runs -> BOOLEAN] /\ result \in [Runs -> Results]
        /\ verdicts \in [Runs -> SUBSET Verdicts] /\ touched \in [Runs -> BOOLEAN]
        /\ pc[r] # "done" => result[r] = "none"
    BY DEF IInv, TypeOK, Progress
  <1>2. CASE ReadServers(r)
    BY <1>1, <1>2 DEF ReadServers, files, Asked, UnderWay
  <1>3. CASE ReadConfig(r)
    BY <1>1, <1>3 DEF ReadConfig, files, history, Asked, UnderWay
  <1>4. CASE CheckOwner(r)
    BY <1>1, <1>4 DEF CheckOwner, files, locals, history, Asked, UnderWay, Verdict
  <1>5. CASE Plan(r)
    <2>1. /\ pc[r] = "checked"
          /\ \/ pc'[r] = "done" /\ result'[r] \in {"failed", "unchanged", "pending"}
             \/ pc'[r] = "write" /\ result'[r] = "none" /\ ~dry[r]
          /\ UNCHANGED <<policy, dry, verdicts, touched>>
      <3>1. CASE PlanFails(servers[r], policy, text[r])
        BY <1>1, <1>5, <3>1 DEF Plan, files, history
      <3>2. CASE ~PlanFails(servers[r], policy, text[r])
        <4>1. PICK o : o = Output(servers[r], policy, text[r])
          OBVIOUS
        <4>2. /\ CASE o = text[r] -> End(r, "unchanged")
                   [] o # text[r] /\ dry[r] -> End(r, "pending")
                   [] OTHER -> pc' = [pc EXCEPT ![r] = "write"] /\ UNCHANGED result
          BY <1>5, <3>2, <4>1 DEF Plan
        <4>3. pc[r] = "checked" /\ UNCHANGED <<policy, dry, verdicts, touched>>
          BY <1>5 DEF Plan, files, history
        <4> QED
          BY <1>1, <4>2, <4>3
      <3> QED
        BY <3>1, <3>2
    <2> QED
      BY <2>1 DEF Asked, UnderWay
  <1>6. CASE Truncate(r)
    BY <1>1, <1>6 DEF Truncate, locals, Asked, UnderWay
  <1>7. CASE Fill(r)
    BY <1>1, <1>7 DEF Fill, locals, history, Asked, UnderWay
  <1>8. CASE ReadFails(r)
    BY <1>1, <1>8 DEF ReadFails, files, locals, history, Asked, UnderWay
  <1>9. CASE WriteFails(r)
    BY <1>1, <1>9 DEF WriteFails, locals, history, Asked, UnderWay
  <1>10. CASE Crash(r)
    BY <1>1, <1>10 DEF Crash, files, locals, history, Asked, UnderWay
  <1> QED
    BY <1>2, <1>3, <1>4, <1>5, <1>6, <1>7, <1>8, <1>9, <1>10 DEF RunStep

\* Steps of other runs and of everybody else.
LEMMA AskedStill ==
    ASSUME NEW r \in Runs, Asked(r),
           UNCHANGED <<pc[r], dry[r], result[r], touched[r]>>,
           verdicts[r] \subseteq verdicts'[r],
           UnderWay(r) => Verdict(policy)' \in verdicts'[r]
    PROVE  Asked(r)'
  <1>1. UNCHANGED UnderWay(r)
    BY DEF UnderWay
  <1> QED
    BY <1>1 DEF Asked

LEMMA AskedStep == IInv /\ OwnerInv /\ [Next]_vars => OwnerInv'
  <1> SUFFICES ASSUME IInv, OwnerInv, [Next]_vars, NEW r \in Runs PROVE Asked(r)'
    BY DEF OwnerInv
  <1>1. Asked(r)
    BY DEF OwnerInv
  <1>2. /\ pc \in [Runs -> Places] /\ dry \in [Runs -> BOOLEAN] /\ result \in [Runs -> Results]
        /\ verdicts \in [Runs -> SUBSET Verdicts] /\ touched \in [Runs -> BOOLEAN]
    BY DEF IInv, TypeOK
  <1>3. CASE RunStep(r) \/ Crash(r)
    BY <1>1, <1>3, AskedByStep
  <1>4. ASSUME NEW s \in Runs \ {r}, RunStep(s) \/ Crash(s) PROVE Asked(r)'
    <2>1. UNCHANGED <<pc[r], dry[r], result[r], touched[r], verdicts[r], policy>>
      <3>1. CASE ReadServers(s)
        BY <1>2, <3>1 DEF ReadServers, files
      <3>2. CASE ReadConfig(s)
        BY <1>2, <3>2 DEF ReadConfig, files, history
      <3>3. CASE CheckOwner(s)
        BY <1>2, <3>3 DEF CheckOwner, End, files, locals, history, Verdict
      <3>4. CASE Plan(s)
        <4>1. UNCHANGED <<dry, touched, verdicts, policy>>
          BY <3>4 DEF Plan, files, history
        <4>2. UNCHANGED <<pc[r], result[r]>>
          <5>1. CASE PlanFails(servers[s], policy, text[s])
            BY <1>2, <3>4, <5>1 DEF Plan, End
          <5>2. CASE ~PlanFails(servers[s], policy, text[s])
            BY <1>2, <3>4, <5>2 DEF Plan, End
          <5> QED
            BY <5>1, <5>2
        <4> QED
          BY <4>1, <4>2
      <3>5. CASE Truncate(s) \/ Fill(s) \/ WriteFails(s)
        BY <1>2, <3>5 DEF Truncate, Fill, WriteFails, End, locals, history
      <3>6. CASE ReadFails(s) \/ Crash(s)
        BY <1>2, <3>6 DEF ReadFails, Crash, End, files, locals, history
      <3> QED
        BY <1>4, <3>1, <3>2, <3>3, <3>4, <3>5, <3>6 DEF RunStep
    <2>2. UNCHANGED Verdict(policy)
      BY <2>1 DEF Verdict
    <2>3. UnderWay(r) => Verdict(policy) \in verdicts[r]
      BY <1>1 DEF Asked
    <2> QED
      BY <1>1, <2>1, <2>2, <2>3, AskedStill
  <1>5. CASE EditConfig \/ UNCHANGED vars
    <2>1. UNCHANGED <<pc, dry, result, touched, verdicts, policy>>
      BY <1>5 DEF EditConfig, vars, files, locals, history
    <2>2. UNCHANGED Verdict(policy)
      BY <2>1 DEF Verdict
    <2>3. UnderWay(r) => Verdict(policy) \in verdicts[r]
      BY <1>1 DEF Asked
    <2> QED
      BY <1>1, <2>1, <2>2, <2>3, AskedStill
  <1>6. CASE EditSources
    <2>1. PICK v : v = Verdict(policy')
      OBVIOUS
    <2>2. verdicts' = [s \in Runs |-> IF pc[s] \in {"idle", "done"} THEN verdicts[s]
                                     ELSE verdicts[s] \cup {Verdict(policy')}]
      BY <1>6 DEF EditSources
    <2>3. /\ UNCHANGED <<pc, dry, result, touched>> /\ verdicts[r] \subseteq verdicts'[r]
          /\ UnderWay(r) => v \in verdicts'[r]
      BY <1>2, <1>6, <2>1, <2>2 DEF EditSources, locals, UnderWay
    <2>4. Verdict(policy)' = v
      BY <2>1 DEF Verdict
    <2> QED
      BY <1>1, <2>3, <2>4, AskedStill
  <1> QED
    BY <1>3, <1>4, <1>5, <1>6 DEF Next

-----------------------------------------------------------------------------
(* What follows from them.                                                  *)

LEMMA Always == Spec => [](IInv /\ OwnerInv)
  <1>1. Init => IInv /\ OwnerInv
    <2>1. Init => OwnerInv
      BY DEF Init, OwnerInv, Asked, UnderWay
    <2> QED
      BY <2>1, InvInit
  <1>2. IInv /\ OwnerInv /\ [Next]_vars => (IInv /\ OwnerInv)'
    BY InvStep, AskedStep
  <1> QED
    BY <1>1, <1>2, PTL DEF Spec

\* What an undisturbed run with a true report leaves: the output, and the output
\* renders what it was made from.
LEMMA LeftBehind ==
    ASSUME IInv, NEW r \in Runs, result[r] \in {"written", "unchanged"}, quiet[r]
    PROVE  /\ servers[r] \in McpFiles /\ text[r] \in Seq(Lines) /\ config = out[r]
           /\ \E p \in Policies : Planned(r, p)
           /\ stable[r] => servers[r] = mcp /\ Planned(r, policy)
           /\ mcp \in McpFiles /\ policy \in Policies
  BY DEF IInv, TypeOK, Progress, UpToDate, Alone, Finished

\* A rendered text is one that the same sync leaves alone.
LEMMA RenderedSettles ==
    ASSUME NEW f \in McpFiles, NEW p \in Policies, NEW d \in Seq(Lines), Resolves(f, p), Renders(d, f, p)
    PROVE  IF PlanFails(f, p, d)
             THEN Profiles(f, p) = <<>> /\ Unmanaged(d)
             ELSE Output(f, p, d) = d
  <1>1. CASE Profiles(f, p) = <<>>
    <2>1. ~HasStart(d, Region0)
      BY <1>1 DEF Renders
    <2>2. Output(f, p, d) = d
      BY <1>1, <2>1 DEF Output
    <2> QED
      BY <1>1, <2>1, <2>2 DEF PlanFails
  <1>2. CASE Profiles(f, p) # <<>>
    <2>1. /\ HasRegion(d, Region0) /\ HasStart(d, Region0)
          /\ SubSeq(d, StartOf(d, Region0), EndOf(d, Region0)) = Block(Profiles(f, p))
      BY <1>2 DEF Renders, HasRegion
    <2>2. ~PlanFails(f, p, d)
      BY <2>1 DEF PlanFails, Unmanaged
    <2>3. Output(f, p, d) = Replace(d, Region0, Block(Profiles(f, p)))
      BY <1>2, <2>1 DEF Output
    <2>4. PICK m : m = Block(Profiles(f, p))
      OBVIOUS
    <2>5. Replace(d, Region0, m) = d
      BY <2>1, <2>4, ReplaceSettles
    <2> QED
      BY <2>2, <2>3, <2>4, <2>5
  <1> QED
    BY <1>1, <1>2

LEMMA InvImplies ==
    IInv /\ OwnerInv => TypeOK /\ UserLinesKept /\ ReportIsTrue /\ OwnerRespected /\ Settles
  <1> SUFFICES ASSUME IInv, OwnerInv PROVE TypeOK /\ UserLinesKept /\ ReportIsTrue /\ OwnerRespected /\ Settles
    OBVIOUS
  <1>1. UserLinesKept
    <2> SUFFICES ASSUME NEW r \in Runs, Wrote(r), quiet[r], OneStart(text[r]), ~Exposed(text[r], Region0)
                 PROVE  Keeps(text[r], config, Region0)
      BY DEF UserLinesKept
    <2>1. PICK p \in Policies : Planned(r, p)
      BY LeftBehind DEF Wrote
    <2>2. /\ servers[r] \in McpFiles /\ text[r] \in Seq(Lines)
          /\ ~PlanFails(servers[r], p, text[r]) /\ config = Output(servers[r], p, text[r])
      BY <2>1, LeftBehind DEF Wrote, Planned
    <2> QED
      BY <2>2, OutputIs
  <1>2. ASSUME NEW r \in Runs, result[r] \in {"written", "unchanged"}, quiet[r], stable[r], OneStart(text[r])
        PROVE  Renders(config, mcp, policy) /\ Resolves(mcp, policy)
    <2>1. /\ mcp \in McpFiles /\ policy \in Policies /\ text[r] \in Seq(Lines)
          /\ ~PlanFails(mcp, policy, text[r]) /\ config = Output(mcp, policy, text[r])
      BY <1>2, LeftBehind DEF Planned
    <2> QED
      BY <1>2, <2>1, OutputIs DEF PlanFails
  <1>3. ReportIsTrue
    BY <1>2 DEF ReportIsTrue
  <1>4. OwnerRespected
    BY DEF OwnerInv, Asked, OwnerRespected
  <1>5. Settles
    <2> SUFFICES ASSUME NEW r \in Runs, Wrote(r), quiet[r], stable[r], OneStart(text[r])
                 PROVE  IF PlanFails(mcp, policy, config)
                          THEN LeftAlone(config)
                          ELSE Output(mcp, policy, config) = config
      BY DEF Settles
    <2>1. Renders(config, mcp, policy) /\ Resolves(mcp, policy)
      BY <1>2 DEF Wrote
    <2>2. mcp \in McpFiles /\ policy \in Policies /\ config \in Seq(Lines)
      BY DEF IInv, TypeOK
    <2> QED
      BY <2>1, <2>2, RenderedSettles DEF LeftAlone
  <1> QED
    BY <1>1, <1>3, <1>4, <1>5 DEF IInv

\* The types of the state, for any number of runs, edits and faults.
THEOREM Typed == Spec => []TypeOK
  BY Always, InvImplies, PTL

\* An undisturbed sync loses none of the user's lines and moves none to another
\* table, whatever servers, policies and configs there are and whichever other
\* runs write the same file.
THEOREM LinesKept == Spec => []UserLinesKept
  BY Always, InvImplies, PTL

\* A report without error or deferral is true of the config.
THEOREM TrueReport == Spec => []ReportIsTrue
  BY Always, InvImplies, PTL

\* However the policy is edited between its two readings: only a run that was
\* given the region while it was under way opens the config, and one that ends
\* without writing has not touched it.
THEOREM OwnerFirst == Spec => []OwnerRespected
  BY Always, InvImplies, PTL

\* The sync is idempotent, but for the removal that unmarks the file.
THEOREM SecondRunRests == Spec => []Settles
  BY Always, InvImplies, PTL
=============================================================================
