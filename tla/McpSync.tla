------------------------------- MODULE McpSync -------------------------------
(***************************************************************************)
(* mcpsync.Sync and mcpsync.Diff (mcpsync/sync.go): the servers of a       *)
(* repository's .mcp.json, selected and overridden by                      *)
(* .codex/mcp-profile-policy.json, are rendered into a marked region of    *)
(* .codex/config.toml.  Several runs may be under way at once: the command *)
(* line, and the mcp_sync tool of every agent session.  Nothing locks the  *)
(* files and os.WriteFile truncates before it writes.                      *)
(***************************************************************************)
EXTENDS MarkedRegion

CONSTANTS
    Runs,      \* processes that may run the sync
    Names,     \* a sequence: the server and profile names, sorted
    Texts,     \* what a server's rendering may be made from
    Lines,     \* the lines of a config.toml
    Hidden,    \* the names that start with "_"
    McpFiles,  \* the texts .mcp.json may hold, parsed
    Policies,  \* the texts the policy file may hold, parsed
    Configs,   \* the texts a user may save as config.toml
    MaxEvents  \* bound on edits, faults and crashes in one behaviour

Region0 == "codex-mcp-sync" \* the name in the markers
NameSet == {Names[i] : i \in DOMAIN Names}
Launches == {"portable", "escapes", "empty"}

\* A server as far as the sync tells servers apart: what its rendering is made
\* from, how it is launched and whether Codex supports its transport.
IsServer(s) ==
    /\ DOMAIN s = {"text", "launch", "codex"}
    /\ s.text \in Texts
    /\ s.launch \in Launches
    /\ s.codex \in BOOLEAN
IsMcpFile(f) == DOMAIN f \subseteq NameSet /\ \A n \in DOMAIN f : IsServer(f[n])

\* override is empty, or holds the server that the overrides make of the source.
IsProfile(r) ==
    /\ DOMAIN r = {"name", "from", "selection", "override"}
    /\ r.name \in NameSet /\ r.from \in NameSet /\ r.selection \in BOOLEAN
    /\ r.override = <<>> \/ IsServer(r.override[1])
IsPolicy(p) ==
    /\ DOMAIN p = {"exists", "parses", "owned", "version", "profiles"}
    /\ {p.exists, p.parses, p.owned} \subseteq BOOLEAN
    /\ p.version \in Nat
    /\ p.profiles \in Seq({p.profiles[i] : i \in DOMAIN p.profiles})
    /\ \A i \in DOMAIN p.profiles : IsProfile(p.profiles[i])

ASSUME NamesAssumption == Names \in Seq(NameSet)
ASSUME HiddenAssumption == Hidden \subseteq NameSet
ASSUME McpFilesAssumption == \A f \in McpFiles : IsMcpFile(f)
ASSUME PoliciesAssumption == \A p \in Policies : IsPolicy(p)
ASSUME LinesAssumption ==
    {Blank, StartMark(Region0), EndMark(Region0)} \cup ({"mcp"} \X NameSet \X Texts)
        \subseteq Lines
ASSUME ConfigsAssumption == Configs \subseteq Seq(Lines)
ASSUME MaxEventsAssumption == MaxEvents \in Nat

VARIABLES
    mcp,     \* .mcp.json
    policy,  \* .codex/mcp-profile-policy.json
    config,  \* .codex/config.toml
    pc,      \* pc[r]: the run's place in the code
    dry,     \* dry[r]: dryRun
    servers, \* servers[r]: the mcpFile it parsed
    text,    \* text[r]: the configText it read
    out,     \* out[r]: plan.Output
    result,  \* result[r]: what its report says
    quiet,   \* history: nobody else wrote config since r read it
    stable,  \* history: mcp and policy are as they were when r began
    verdicts,\* history: whose config.toml is, by the policies since r began
    touched, \* history: r opened config to write it
    events   \* edits, faults and crashes so far

files == <<mcp, policy, config>>
locals == <<dry, servers, text, out>>
history == <<verdicts, touched>>
vars == <<files, pc, locals, result, quiet, stable, history, events>>

Results == {"none", "failed", "deferred", "unchanged", "pending", "written", "broken"}
Places == {"idle", "parsed", "read", "checked", "write", "truncated", "done"}

-----------------------------------------------------------------------------
(* Profiles: resolveProfiles, filterCodexCompatible, renderBlock.          *)

\* Without a policy every visible server is a profile of its own name.
Listed(f) ==
    LET shown == Pick(Names, {i \in DOMAIN Names : Names[i] \in DOMAIN f \ Hidden})
    IN  [i \in DOMAIN shown |-> [name |-> shown[i], server |-> f[shown[i]]]]

Launched(f, profile) ==
    IF profile.override = <<>> THEN f[profile.from] ELSE profile.override[1]
Selected(f, p) ==
    [i \in DOMAIN p.profiles |->
        [name |-> p.profiles[i].name, server |-> Launched(f, p.profiles[i])]]

PolicyIsSound(f, p) ==
    /\ p.parses /\ p.version # 0 /\ p.profiles # <<>>
    /\ \A i \in DOMAIN p.profiles :
          /\ p.profiles[i].from \in DOMAIN f
          /\ p.profiles[i].selection
          /\ \A j \in DOMAIN p.profiles :
                p.profiles[i].name = p.profiles[j].name => i = j

Resolved(f, p) == IF p.exists THEN Selected(f, p) ELSE Listed(f)
Resolves(f, p) ==
    /\ p.exists => PolicyIsSound(f, p)
    /\ \A i \in DOMAIN Resolved(f, p) : Resolved(f, p)[i].server.launch = "portable"

Compatible(profiles) == Pick(profiles, {i \in DOMAIN profiles : profiles[i].server.codex})
Profiles(f, p) == Compatible(Resolved(f, p))

\* Mutant: the tables are not under mcp_servers.
BareBlock(profiles) ==
    <<StartMark(Region0)>>
      \o [i \in DOMAIN profiles |-> <<"table", profiles[i].name>>]
      \o <<EndMark(Region0)>>

Block(profiles) ==
    <<StartMark(Region0)>>
      \o [i \in DOMAIN profiles |-> <<"mcp", profiles[i].name, profiles[i].server.text>>]
      \o <<EndMark(Region0)>>

-----------------------------------------------------------------------------
(* The plan.                                                               *)

\* Tables that nobody marked stop the first sync of a config.
Unmanaged(c) == (\E i \in DOMAIN c : c[i][1] = "mcp") /\ ~HasStart(c, Region0)

PlanFails(f, p, c) ==
    \/ Unmanaged(c)
    \/ ~Resolves(f, p)
    \/ HasStart(c, Region0) /\ ~HasRegion(c, Region0)

\* Mutant: a block is put in whenever there is something to render.
OutputInsertsAlways(f, p, c) ==
    IF Profiles(f, p) = <<>>
      THEN IF HasStart(c, Region0) THEN Remove(c, Region0) ELSE c
      ELSE Insert(c, Block(Profiles(f, p)))

\* Mutant: nothing to render, nothing to do.
OutputWithoutRemoval(f, p, c) ==
    CASE Profiles(f, p) = <<>> -> c
      [] Profiles(f, p) # <<>> /\ HasStart(c, Region0) ->
             Replace(c, Region0, Block(Profiles(f, p)))
      [] OTHER -> Insert(c, Block(Profiles(f, p)))

Output(f, p, c) ==
    CASE Profiles(f, p) = <<>> /\ HasStart(c, Region0) -> Remove(c, Region0)
      [] Profiles(f, p) = <<>> /\ ~HasStart(c, Region0) -> c
      [] Profiles(f, p) # <<>> /\ HasStart(c, Region0) ->
             Replace(c, Region0, Block(Profiles(f, p)))
      [] OTHER -> Insert(c, Block(Profiles(f, p)))

-----------------------------------------------------------------------------
(* One run.                                                                *)

\* Whose the region is, by the word of policy p.
Verdicts == {"ours", "theirs", "unreadable"}
Verdict(p) ==
    CASE p.exists /\ ~p.parses -> "unreadable"
      [] p.exists /\ p.parses /\ p.owned -> "theirs"
      [] OTHER -> "ours"

End(r, how) ==
    /\ pc' = [pc EXCEPT ![r] = "done"]
    /\ result' = [result EXCEPT ![r] = how]

NoServers == [n \in {} |-> n]

Init ==
    /\ mcp \in McpFiles /\ policy \in Policies /\ config \in Configs
    /\ pc = [r \in Runs |-> "idle"]
    /\ dry = [r \in Runs |-> FALSE]
    /\ servers = [r \in Runs |-> NoServers]
    /\ text = [r \in Runs |-> <<>>]
    /\ out = [r \in Runs |-> <<>>]
    /\ result = [r \in Runs |-> "none"]
    /\ quiet = [r \in Runs |-> FALSE]
    /\ stable = [r \in Runs |-> FALSE]
    /\ verdicts = [r \in Runs |-> {}]
    /\ touched = [r \in Runs |-> FALSE]
    /\ events = 0

\* Parse: .mcp.json, first thing in buildPlan.
ReadServers(r) ==
    /\ pc[r] \in {"idle", "done"}
    /\ pc' = [pc EXCEPT ![r] = "parsed"]
    /\ \E d \in BOOLEAN : dry' = [dry EXCEPT ![r] = d]
    /\ servers' = [servers EXCEPT ![r] = mcp]
    /\ text' = [text EXCEPT ![r] = <<>>]
    /\ out' = [out EXCEPT ![r] = <<>>]
    /\ result' = [result EXCEPT ![r] = "none"]
    /\ quiet' = [quiet EXCEPT ![r] = FALSE]
    /\ stable' = [stable EXCEPT ![r] = TRUE]
    /\ verdicts' = [verdicts EXCEPT ![r] = {Verdict(policy)}]
    /\ touched' = [touched EXCEPT ![r] = FALSE]
    /\ UNCHANGED <<files, events>>

ReadConfig(r) ==
    /\ pc[r] = "parsed"
    /\ pc' = [pc EXCEPT ![r] = "read"]
    /\ text' = [text EXCEPT ![r] = config]
    /\ quiet' = [quiet EXCEPT ![r] = TRUE]
    /\ UNCHANGED <<files, dry, servers, out, result, stable, history, events>>

\* Mutant: the owner is not asked for.
CheckPolicy(r) ==
    /\ pc[r] = "read"
    /\ IF policy.exists /\ ~policy.parses
         THEN End(r, "failed")
         ELSE pc' = [pc EXCEPT ![r] = "checked"] /\ UNCHANGED result
    /\ UNCHANGED <<files, locals, quiet, stable, history, events>>

\* policyDeclaresRepoLocalOwner: the policy file is read for its owner alone.
CheckOwner(r) ==
    /\ pc[r] = "read"
    /\ CASE Verdict(policy) = "unreadable" -> End(r, "failed")
         [] Verdict(policy) = "theirs" -> End(r, "deferred")
         [] Verdict(policy) = "ours" -> pc' = [pc EXCEPT ![r] = "checked"] /\ UNCHANGED result
    /\ UNCHANGED <<files, locals, quiet, stable, history, events>>

\* The rest of buildPlan, which reads the policy file again, and run's decision
\* whether to write.
Plan(r) ==
    /\ pc[r] = "checked"
    /\ IF PlanFails(servers[r], policy, text[r])
         THEN End(r, "failed") /\ UNCHANGED out
         ELSE LET o == Output(servers[r], policy, text[r])
              IN  /\ out' = [out EXCEPT ![r] = o]
                  /\ CASE o = text[r] -> End(r, "unchanged")
                       [] o # text[r] /\ dry[r] -> End(r, "pending")
                       [] OTHER -> pc' = [pc EXCEPT ![r] = "write"] /\ UNCHANGED result
    /\ UNCHANGED <<files, dry, servers, text, quiet, stable, history, events>>

\* Somebody other than the runs in rs wrote the config.
Disturb(rs) == quiet' = [r \in Runs |-> quiet[r] /\ r \in rs]

\* os.WriteFile opens with O_TRUNC ...
Truncate(r) ==
    /\ pc[r] = "write"
    /\ config' = <<>>
    /\ pc' = [pc EXCEPT ![r] = "truncated"]
    /\ touched' = [touched EXCEPT ![r] = TRUE]
    /\ Disturb({r})
    /\ UNCHANGED <<mcp, policy, locals, result, stable, verdicts, events>>

\* ... and then writes from the beginning: what another run wrote in between and
\* reaches further stays behind the output.  (As if lines were equally long.)
Over(written) == written \o SubSeq(config, Len(written) + 1, Len(config))
Fill(r) ==
    /\ pc[r] = "truncated"
    /\ config' = Over(out[r])
    /\ End(r, "written")
    /\ Disturb({r})
    /\ UNCHANGED <<mcp, policy, locals, stable, history, events>>

-----------------------------------------------------------------------------
(* Faults, crashes and everybody else.                                     *)

Happens == events < MaxEvents /\ events' = events + 1

\* A file that is missing or cannot be read or parsed.
ReadFails(r) ==
    /\ Happens
    /\ pc[r] \in {"parsed", "read", "checked"}
    /\ End(r, "failed")
    /\ UNCHANGED <<files, locals, quiet, stable, history>>

\* The config cannot be opened; or the disk is full and the write stops somewhere.
\* run reports it.
WriteFails(r) ==
    /\ Happens
    /\ \/ pc[r] = "write" /\ UNCHANGED <<config, quiet>>
       \/ /\ pc[r] = "truncated"
          /\ \E n \in 0..Len(out[r]) : config' = Over(SubSeq(out[r], 1, n))
          /\ Disturb({r})
    /\ End(r, "broken")
    /\ UNCHANGED <<mcp, policy, locals, stable, history>>

Crash(r) ==
    /\ Happens
    /\ pc[r] \notin {"idle", "done"}
    /\ pc' = [pc EXCEPT ![r] = "idle"]
    /\ UNCHANGED <<files, locals, result, quiet, stable, history>>

EditConfig ==
    /\ Happens
    /\ config' \in Configs \ {config}
    /\ Disturb({})
    /\ UNCHANGED <<mcp, policy, pc, locals, result, stable, history>>

EditSources ==
    /\ Happens
    /\ mcp' \in McpFiles /\ policy' \in Policies
    /\ <<mcp', policy'>> # <<mcp, policy>>
    /\ stable' = [r \in Runs |-> FALSE]
    /\ verdicts' = [r \in Runs |-> IF pc[r] \in {"idle", "done"} THEN verdicts[r]
                                  ELSE verdicts[r] \cup {Verdict(policy')}]
    /\ UNCHANGED <<config, pc, locals, result, quiet, touched>>

RunStep(r) ==
    \/ ReadServers(r) \/ ReadConfig(r) \/ CheckOwner(r) \/ Plan(r)
    \/ Truncate(r) \/ Fill(r) \/ ReadFails(r) \/ WriteFails(r)

Next == (\E r \in Runs : RunStep(r) \/ Crash(r)) \/ EditConfig \/ EditSources

Spec == Init /\ [][Next]_vars

-----------------------------------------------------------------------------
(* Properties.                                                             *)

\* The types of the state: whatever runs, faults and edits do, every text is
\* made of lines, and a run's place, report and plan are of their kind.
TypeOK ==
    /\ mcp \in McpFiles /\ policy \in Policies /\ config \in Seq(Lines)
    /\ pc \in [Runs -> Places] /\ dry \in [Runs -> BOOLEAN]
    /\ servers \in [Runs -> McpFiles \cup {NoServers}]
    /\ text \in [Runs -> Seq(Lines)] /\ out \in [Runs -> Seq(Lines)]
    /\ result \in [Runs -> Results]
    /\ quiet \in [Runs -> BOOLEAN] /\ stable \in [Runs -> BOOLEAN]
    /\ verdicts \in [Runs -> SUBSET Verdicts] /\ touched \in [Runs -> BOOLEAN]
    /\ events \in 0..MaxEvents

\* Overlapping writes can leave two regions; the code sees the first one.
OneStart(c) == \A i, j \in Positions(c, StartMark(Region0)) : i = j

Wrote(r) == pc[r] = "done" /\ result[r] = "written"

\* A run that nobody interfered with leaves every line of the user's in the
\* config, in the table it belonged to, and adds none.  Only what somebody put
\* right behind a region that he had emptied of its servers changes its table as
\* the region gets one.
UserLinesKept ==
    \A r \in Runs :
        Wrote(r) /\ quiet[r] /\ OneStart(text[r]) /\ ~Exposed(text[r], Region0) =>
            Keeps(text[r], config, Region0)

\* Does c hold the rendering of f under p?
Renders(c, f, p) ==
    IF Profiles(f, p) = <<>>
      THEN ~HasStart(c, Region0)
      ELSE /\ HasRegion(c, Region0)
           /\ SubSeq(c, StartOf(c, Region0), EndOf(c, Region0)) = Block(Profiles(f, p))

\* A report without error, deferral or pending change is true: unless somebody
\* edited the files meanwhile, the config holds what .mcp.json and the policy
\* ask for.
ReportIsTrue ==
    \A r \in Runs :
        /\ pc[r] = "done" /\ result[r] \in {"written", "unchanged"}
        /\ quiet[r] /\ stable[r] /\ OneStart(text[r])
        => Renders(config, mcp, policy)

\* The owner of the region is asked, and answered, before the config is opened,
\* although the policy is read twice and edited in between: no run opens the
\* config unless at some moment since it began the policy gave the region to the
\* sync, and none defers to an owner that no policy named.  A run that ends in
\* any other way than by writing has not opened it, nor has a dry one.  It need
\* not be the policy whose profiles are rendered that gave the region away.
OwnerRespected ==
    \A r \in Runs :
        /\ touched[r] \/ pc[r] \in {"write", "truncated"} =>
              "ours" \in verdicts[r] /\ ~dry[r]
        /\ result[r] = "deferred" => "theirs" \in verdicts[r]
        /\ result[r] \in {"failed", "deferred", "pending", "unchanged"} => ~touched[r]

\* The config of a repository is, between runs, one that the user saved but for
\* the region.  NOT true of the code: see the run mcp_sync_overlap.
UserTextSurvives ==
    (\A r \in Runs : pc[r] \in {"idle", "done"}) =>
        \E c \in Configs : Keeps(c, config, Region0)

\* The same sync again finds nothing to do.  Only where it removed the region
\* beside a table of the user's own is it refused, for now nothing marks the file
\* as managed (although module.go:24 announces mcp_sync as idempotent).
LeftAlone(c) == Profiles(mcp, policy) = <<>> /\ Unmanaged(c)
Settles ==
    \A r \in Runs :
        Wrote(r) /\ quiet[r] /\ stable[r] /\ OneStart(text[r]) =>
            IF PlanFails(mcp, policy, config)
              THEN LeftAlone(config)
              ELSE Output(mcp, policy, config) = config
=============================================================================
