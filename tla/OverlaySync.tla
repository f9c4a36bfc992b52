----------------------------- MODULE OverlaySync -----------------------------
(***************************************************************************)
(* mcpsync.SyncGlobalProviderOverlays (mcpsync/global_overlay_sync.go): a  *)
(* projection of the workspace's servers is published into the settings of *)
(* Claude, Codex and Gemini, one file after the other, while those         *)
(* programs, their users and other runs save the same files.  The JSON     *)
(* files are merged by key prefix, config.toml by marked region.           *)
(***************************************************************************)
EXTENDS MarkedRegion

CONSTANTS
    Prefixed,    \* server names that start with the provider's prefix
    Projections, \* what BuildGlobalProjection may return: entries by provider
    Files,       \* Files[p]: what others may save as p's file
    Recoded,     \* Recoded[v]: a JSON value decoded into a map and encoded again
    MaxEvents    \* bound on saves, edits, faults and crashes in one behaviour

Order == <<"claude", "codex", "gemini">>
Providers == {Order[i] : i \in DOMAIN Order}

Workspace == "hg-workspace-global-sync"
Legacy == "hg-global-mcp-sync"

\* A file is absent, present or, for JSON, garbled.  The body of config.toml is
\* its lines; that of a JSON file tells its formatting, its servers as pairs of
\* a name and a value, what stands in their place or in that of an object around
\* them without being an object, and the rest.
NoBody(p) ==
    IF p = "codex" THEN <<>>
    ELSE [canonical |-> TRUE, rest |-> "nothing", misplaced |-> "nothing", servers |-> {}]
NoFile(p) == [kind |-> "absent", body |-> NoBody(p)]

Elements(s) == {s[i] : i \in DOMAIN s}
IsText(c) == c \in Seq(Elements(c))

\* The entries of a projection are pairs of a prefixed name and a value, sorted
\* and without duplicates (providerName, addEntry, providers).
ASSUME ProjectionsAssumption ==
    \A w \in Projections : \A p \in Providers :
        /\ IsText(w[p])
        /\ \A i, j \in DOMAIN w[p] :
              /\ w[p][i] = <<w[p][i][1], w[p][i][2]>> /\ w[p][i][1] \in Prefixed
              /\ w[p][i][1] = w[p][j][1] => i = j
IsBody(b) ==
    /\ b.rest \in DOMAIN Recoded
    /\ b.misplaced # "nothing" => b.servers = {}
    /\ \A s \in b.servers : s[1] \notin Prefixed => s[2] \in DOMAIN Recoded
ASSUME FilesAssumption ==
    /\ \A f \in Files["codex"] : IsText(f.body)
    /\ \A p \in Providers \ {"codex"} : \A f \in Files[p] : IsBody(f.body)
\* A number loses what float64 does not hold, once.
ASSUME RecodedAssumption ==
    /\ "nothing" \in DOMAIN Recoded
    /\ \A v \in DOMAIN Recoded :
          Recoded[v] \in DOMAIN Recoded /\ Recoded[Recoded[v]] = Recoded[v]
ASSUME MaxEventsAssumption == MaxEvents \in Nat

VARIABLES
    projection, \* what the sources project to now
    file,       \* file[p]: the settings file of p
    pc, mode,   \* the run's place in the code and its mode
    wanted,     \* the projection the run built
    at,         \* the position in Order that the run is at
    read,       \* the file at that position as the run rendered from it
    out,        \* what the run rendered
    status,     \* status[p]: the action reported for p
    failed,     \* the run returned an error
    calm,       \* history: nobody else changed anything since the run began
    events      \* saves, edits, faults and crashes so far

vars == <<projection, file, pc, mode, wanted, at, read, out, status, failed, calm, events>>

Modes == {"write", "dry-run", "check"}

-----------------------------------------------------------------------------
(* Rendering.                                                              *)

\* Mutant: the servers are replaced, not merged.
MergeNothing(servers, entries) == Elements(entries)

Recode(servers) == {<<s[1], Recoded[s[2]]>> : s \in servers}

\* Mutant: entries that are gone from the projection stay.
MergeOver(servers, entries) ==
    Recode({s \in servers : \A e \in Elements(entries) : s[1] # e[1]}) \cup Elements(entries)

\* mergeProviderServers: what has the prefix is ours, all of it.
Merge(servers, entries) ==
    Recode({s \in servers : s[1] \notin Prefixed}) \cup Elements(entries)

Block(entries) ==
    <<StartMark(Workspace)>>
      \o [i \in DOMAIN entries |-> <<"mcp", entries[i][1], entries[i][2]>>]
      \o <<EndMark(Workspace)>>

\* replaceMarkedBlock: without an end marker the text is left alone.
Refresh(c, o, block) == IF HasRegion(c, o) THEN Replace(c, o, block) ELSE c

\* Mutant: the block goes on top.
PlaceFirst(c, block) == block \o <<Blank>> \o Trim(c)

\* The block ahead of the first table, set off by blank lines.
Place(c, block) ==
    LET text == Trim(c)
        i == Split(text, Headers(text))
        prefix == Trim(SubSeq(text, 1, i - 1))
        suffix == SubSeq(text, i, Len(text))
    IN  (IF prefix = <<>> THEN <<>> ELSE prefix \o <<Blank>>) \o block
          \o (IF suffix = <<>> THEN <<>> ELSE <<Blank>> \o suffix)

\* The region this package wrote under its former name is taken over.
Upsert(c, block) ==
    IF HasStart(c, Workspace) THEN Refresh(c, Workspace, block)
    ELSE IF HasStart(c, Legacy) THEN Refresh(c, Legacy, block)
    ELSE Place(c, block)

\* A JSON file goes through a map, and objectValue takes an empty object for what
\* is none: whatever stood there is lost.
Rendered(p, f, w) ==
    [kind |-> "present",
     body |-> IF p = "codex"
                THEN Upsert(f.body, Block(w[p]))
                ELSE [canonical |-> TRUE,
                      rest |-> Recoded[f.body.rest], misplaced |-> "nothing",
                      servers |-> Merge(f.body.servers, w[p])]]

-----------------------------------------------------------------------------
(* The run.                                                                *)

Here == Order[at]
NoStatus == [p \in Providers |-> "none"]

Init ==
    /\ projection \in Projections
    /\ \E c \in Files["claude"], x \in Files["codex"], g \in Files["gemini"] :
          file = [claude |-> c, codex |-> x, gemini |-> g]
    /\ pc = "idle" /\ mode \in Modes /\ wanted = projection
    /\ at = 1 /\ read = NoFile("claude") /\ out = NoFile("claude")
    /\ status = NoStatus /\ failed = FALSE
    /\ calm = TRUE /\ events = 0

Forget == at' = 1 /\ read' = NoFile("claude") /\ out' = NoFile("claude")

Begin ==
    /\ pc \in {"idle", "done"}
    /\ pc' = "render" /\ mode' \in Modes
    /\ wanted' = projection
    /\ Forget
    /\ status' = NoStatus /\ failed' = FALSE /\ calm' = TRUE
    /\ UNCHANGED <<projection, file, events>>

\* Mutant: a file that cannot be rendered is passed over.
RenderOrSkip ==
    /\ pc = "render"
    /\ IF file[Here].kind = "garbled"
         THEN IF at = Len(Order)
                THEN pc' = "done" /\ UNCHANGED <<at, failed, read, out>>
                ELSE at' = at + 1 /\ UNCHANGED <<pc, failed, read, out>>
         ELSE /\ pc' = "apply" /\ UNCHANGED <<failed, at>>
              /\ read' = file[Here]
              /\ out' = Rendered(Here, file[Here], wanted)
    /\ UNCHANGED <<projection, file, mode, wanted, status, calm, events>>

\* renderClaudeOverlay, renderCodexOverlay, renderGeminiOverlay.  An error ends
\* the run; the files before this one are published by then.
Render ==
    /\ pc = "render"
    /\ IF file[Here].kind = "garbled"
         THEN pc' = "done" /\ failed' = TRUE /\ UNCHANGED <<read, out>>
         ELSE /\ pc' = "apply" /\ UNCHANGED failed
              /\ read' = file[Here]
              /\ out' = Rendered(Here, file[Here], wanted)
    /\ UNCHANGED <<projection, file, mode, wanted, at, status, calm, events>>

\* applyRenderedFile's answer for this file, and on to the next one.
Report(what) ==
    /\ status' = [status EXCEPT ![Here] = what]
    /\ IF at = Len(Order)
         THEN pc' = "done" /\ at' = at
         ELSE pc' = "render" /\ at' = at + 1
    /\ read' = NoFile("claude") /\ out' = NoFile("claude")
    /\ UNCHANGED <<mode, wanted, failed>>

\* applyRenderedFile reads the file again to compare.
Apply ==
    /\ pc = "apply"
    /\ CASE file[Here] = out -> Report("unchanged")
         [] file[Here] # out /\ mode = "check" -> Report("out_of_date")
         [] file[Here] # out /\ mode = "dry-run" -> Report("would_update")
         [] OTHER -> pc' = "install" /\ UNCHANGED <<mode, wanted, at, read, out, status, failed>>
    /\ UNCHANGED <<projection, file, calm, events>>

\* writeFileAtomic: the temporary file is complete when it takes the name.
Install ==
    /\ pc = "install"
    /\ file' = [file EXCEPT ![Here] = out]
    /\ Report("updated")
    /\ UNCHANGED <<projection, calm, events>>

-----------------------------------------------------------------------------
(* Faults, crashes and everybody else.                                     *)

Happens == events < MaxEvents /\ events' = events + 1

\* The projection cannot be built, or a file cannot be read.
RunFails ==
    /\ Happens
    /\ pc = "render"
    /\ pc' = "done" /\ failed' = TRUE
    /\ UNCHANGED <<projection, file, mode, wanted, at, read, out, status, calm>>

\* A read or a write that fails while the file is applied is only reported.
ApplyFails ==
    /\ Happens
    /\ pc \in {"apply", "install"}
    /\ Report("error")
    /\ UNCHANGED <<projection, file, calm>>

Crash ==
    /\ Happens
    /\ pc \notin {"idle", "done"}
    /\ pc' = "idle"
    /\ Forget
    /\ UNCHANGED <<projection, file, mode, wanted, status, failed, calm>>

Save(p) ==
    /\ Happens
    /\ \E f \in Files[p] \ {file[p]} : file' = [file EXCEPT ![p] = f]
    /\ calm' = FALSE
    /\ UNCHANGED <<projection, pc, mode, wanted, at, read, out, status, failed>>

EditSources ==
    /\ Happens
    /\ projection' \in Projections \ {projection}
    /\ calm' = FALSE
    /\ UNCHANGED <<file, pc, mode, wanted, at, read, out, status, failed>>

Next ==
    \/ Begin \/ Render \/ Apply \/ Install \/ RunFails \/ ApplyFails \/ Crash
    \/ (\E p \in Providers : Save(p)) \/ EditSources

Spec == Init /\ [][Next]_vars

-----------------------------------------------------------------------------
(* What a file holds of its owner's and of ours.                           *)

Target(c) == IF HasStart(c, Workspace) THEN Workspace ELSE Legacy
Unclosed(c) == HasStart(c, Target(c)) /\ ~HasRegion(c, Target(c))

Own(p, f) ==
    IF p = "codex"
      THEN OwnLines(f.body, Target(f.body))
      ELSE <<f.body.rest, f.body.misplaced, {s \in f.body.servers : s[1] \notin Prefixed}>>
Shared(p, f) ==
    IF p = "codex"
      THEN {<<f.body[i][2], f.body[i][3]>> :
              i \in {j \in Region(f.body, Target(f.body)) : f.body[j][1] = "mcp"}}
      ELSE {s \in f.body.servers : s[1] \in Prefixed}

\* What a run's writing makes of the owner's part: config.toml is spliced, line by
\* line as it was; JSON is recoded and loses what was no object.
SplicedOwn(part) == part
RecodedOwn(part) == <<Recoded[part[1]], "nothing", Recode(part[3])>>

SavedParts == [p \in Providers |-> {<<Own(p, f), Shared(p, f)>> : f \in Files[p]}]
WantedParts == [p \in Providers |-> {Elements(w[p]) : w \in Projections}]

Looked(p) ==
    IF pc \in {"apply", "install"} /\ Here = p
      THEN <<Own(p, read), Shared(p, read)>> ELSE <<>>

Claude == INSTANCE Publication WITH
    Saved <- SavedParts["claude"], Wanted <- WantedParts["claude"],
    Rewritten <- RecodedOwn,
    own <- Own("claude", file["claude"]), shared <- Shared("claude", file["claude"]),
    looked <- Looked("claude")
Codex == INSTANCE Publication WITH
    Saved <- SavedParts["codex"], Wanted <- WantedParts["codex"],
    Rewritten <- SplicedOwn,
    own <- Own("codex", file["codex"]), shared <- Shared("codex", file["codex"]),
    looked <- Looked("codex")
Gemini == INSTANCE Publication WITH
    Saved <- SavedParts["gemini"], Wanted <- WantedParts["gemini"],
    Rewritten <- RecodedOwn,
    own <- Own("gemini", file["gemini"]), shared <- Shared("gemini", file["gemini"]),
    looked <- Looked("gemini")

-----------------------------------------------------------------------------
(* Properties.                                                             *)

Statuses == {"none", "unchanged", "updated", "would_update", "out_of_date", "error"}

\* The types of the state, and: only the files the run has passed have a status,
\* and a run without an error has passed them all.
TypeOK ==
    /\ projection \in Projections /\ wanted \in Projections
    /\ pc \in {"idle", "render", "apply", "install", "done"} /\ mode \in Modes
    /\ at \in DOMAIN Order /\ failed \in BOOLEAN /\ calm \in BOOLEAN
    /\ status \in [Providers -> Statuses]
    /\ events \in 0..MaxEvents
    /\ pc \in {"render", "apply", "install"} =>
          \A i \in DOMAIN Order : (status[Order[i]] # "none") <=> i < at
    /\ pc = "done" /\ ~failed => \A p \in Providers : status[p] # "none"

\* For each file the run implements Publication: whatever fails, dies or is saved
\* in between, the file is as somebody saved it or published whole, with the
\* owner's part as the run saw it.  In config.toml that is every line of it; in
\* JSON, all but the digits that float64 lacks and a value that stood where the
\* servers, or an object around them, belong.
PublishesWhole ==
    /\ Claude!Spec
    /\ Codex!Spec
    /\ Gemini!Spec

\* Publishing moves no line of config.toml to another table, but for those behind
\* a region that had no server: they belong to its last one as soon as it has any.
TablesKept ==
    [][Install /\ Here = "codex" /\ ~Exposed(read.body, Target(read.body)) =>
          Meaning(read.body, Target(read.body))
            \subseteq Meaning(file["codex"].body', Target(file["codex"].body'))]_vars

\* Every file holds the projection, and another run would leave it as it is.
Published(p) ==
    /\ Shared(p, file[p]) = Elements(projection[p])
    /\ Rendered(p, file[p], projection) = file[p]
Reported(statuses) == pc = "done" /\ ~failed /\ \A p \in Providers : status[p] \in statuses

\* A run that reports no error, no difference and nothing left to do has
\* published, unless something changed meanwhile; a config.toml whose region
\* lacks its end marker excepted.
CleanRunPublishes ==
    Reported({"unchanged", "updated"}) /\ calm =>
        \A p \in Providers :
            Published(p) \/ (p = "codex" /\ Unclosed(file[p].body))

\* What the report calls up to date holds the projection.  NOT true of the code:
\* see the run overlay_sync_unclosed.
UpToDateIsTrue ==
    Reported({"unchanged"}) /\ calm => \A p \in Providers : Published(p)
=============================================================================
