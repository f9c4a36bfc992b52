------------------------------ MODULE GlobalSync ------------------------------
(***************************************************************************)
(* SyncGlobal of mcpsync/global_sync.go, the program codexkit-global-mcp:  *)
(* it gathers the MCP servers of every repository of a workspace, keeps    *)
(* those that the policy and the workspace manifest allow, gives each one  *)
(* a name of its own, and writes them into the generated region of the     *)
(* operator's ~/.codex/config.toml, which it may create.                   *)
(*                                                                         *)
(* A name is the sequence of the pieces of text it is made of: words, "-", *)
(* "_", "@" for a run of characters that an alias may not have, and as     *)
(* many "|" as a number says.  Texts are those of MarkedRegion.            *)
(***************************************************************************)
EXTENDS MarkedRegion

CONSTANTS
    Root,        \* the name of the workspace directory, whose own .mcp.json counts
    Repos,       \* the names of the directories in it, in the order of ReadDir
    Workspaces,  \* what the .mcp.json files can be, by repository
    Policies, Manifests, Configs,  \* what the other files can be
    Lines,       \* the lines of every config
    Pieces,      \* the pieces of every name
    MaxEvents    \* bound: edits, faults and crashes of one behaviour

Dirs == {Root} \cup {Repos[i] : i \in DOMAIN Repos}

\* A file that is not there, and one that cannot be read or parsed.
Absent == [state |-> "absent"]
Broken == [state |-> "broken"]
Loaded(v) == [state |-> "loaded", value |-> v]

Region0 == "hg-global-mcp-sync"

Sources == <<Root>> \o Repos

\* Every config that somebody saves is a text, and every .mcp.json that can be
\* parsed is a sequence of entries, no two with one name: they are the keys of an
\* object.
IsName(n) == n \in Seq(Pieces)
IsFile(f) ==
    \/ f \in {Absent, Broken}
    \/ /\ Len(f.value) \in Nat /\ DOMAIN f.value = 1..Len(f.value)
       /\ \A i \in DOMAIN f.value : IsName(f.value[i].name)
       /\ \A i, j \in DOMAIN f.value : f.value[i].name = f.value[j].name => i = j
IsPolicy(p) ==
    /\ \A r \in DOMAIN p.repos : IsName(p.repos[r].prefix)
    /\ \A s \in DOMAIN p.servers : IsName(p.servers[s].alias)

ASSUME PiecesAssumption == Dirs \cup {"-", "|", "mcp"} \subseteq Pieces
ASSUME LinesAssumption == {Blank, StartMark(Region0), EndMark(Region0)} \subseteq Lines
ASSUME ConfigsAssumption == \A c \in Configs : c \in Seq(Lines)
ASSUME WorkspacesAssumption ==
    /\ Repos \in Seq(Dirs)
    /\ \A w \in Workspaces : \A r \in Dirs : IsFile(w[r])
ASSUME PoliciesAssumption == \A f \in Policies : f \in {Absent, Broken} \/ IsPolicy(f.value)
ASSUME MaxEventsAssumption == MaxEvents \in Nat

\* A bound of the model: no directory of the workspace bears its name.
ASSUME SourcesAssumption == \A i, j \in DOMAIN Sources : Sources[i] = Sources[j] => i = j

VARIABLES
    workspace, policyFile, manifestFile, config,  \* the disk
    pc,
    explicitPolicy,  \* was the policy's path given?
    dry, policy, manifest, text,  \* what the run was asked for and has read
    managed,         \* the servers that the region it read holds
    todo,            \* the positions of the sources it has still to read
    cands, skipped,  \* the servers it found
    alias,           \* the aliases assigned so far, by position in cands
    base, suffix,    \* the loop of uniqueGlobalAlias
    out,
    result,
    quiet,           \* has nobody else written config since it was read?
    stable,          \* has nobody changed a source since Discover?
    events

disk == <<workspace, policyFile, manifestFile, config>>
inputs == <<explicitPolicy, dry, policy, manifest, text, managed>>
aliasing == <<alias, base, suffix>>
gathered == <<todo, cands, skipped>>
locals == <<inputs, gathered, aliasing, out>>
vars == <<disk, locals, pc, result, quiet, stable, events>>

-----------------------------------------------------------------------------
(* Names.                                                                  *)

Join(a, b) == a \o <<"-">> \o b
Strokes(n) == [i \in 1..n |-> "|"]
Numbered(a, n) == IF n = 1 THEN a ELSE Join(a, Strokes(n))

\* sanitizeGlobalName: illegal runs become "-", which is then cut off both ends.
\* Mutant: a name is good enough when there is one.
NonEmpty(n) == IF n = <<>> THEN <<"mcp">> ELSE n

Dashed(n) == [i \in DOMAIN n |-> IF n[i] = "@" THEN "-" ELSE n[i]]
Sanitize(n) ==
    LET solid == {i \in DOMAIN n : Dashed(n)[i] # "-"}
    IN  IF solid = {} THEN <<"mcp">> ELSE SubSeq(Dashed(n), First(solid), Last(solid))

\* Servers whose name starts with an underscore are notes.
Hidden(n) == n # <<>> /\ n[1] = "_"
Servers(file) ==
    {i \in DOMAIN file.value : ~Hidden(file.value[i].name)}

-----------------------------------------------------------------------------
(* Policy.  A rule that is not there is one that says nothing.             *)

DefaultPolicy ==
    [includeRoot |-> TRUE, readyOnly |-> FALSE, useManifest |-> TRUE, allowUnlisted |-> TRUE,
     scopes |-> [include |-> {}, exclude |-> {}],
     categories |-> [include |-> {}, exclude |-> {}],
     repos |-> [r \in {} |-> r], servers |-> [s \in {} |-> s]]

SilentRepo == [enabled |-> "unset", prefix |-> <<>>, include |-> {}, exclude |-> {}]
SilentServer == [enabled |-> "unset", alias |-> <<>>]
RepoRule(p, r) == IF r \in DOMAIN p.repos THEN p.repos[r] ELSE SilentRepo
ServerRule(p, r, n) ==
    IF <<r, n>> \in DOMAIN p.servers THEN p.servers[<<r, n>>] ELSE SilentServer

Within(v, filter) == (filter.include = {} \/ v \in filter.include) /\ v \notin filter.exclude

ManifestAllows(p, m, r) ==
    IF r \notin DOMAIN m
      THEN p.allowUnlisted
      ELSE Within(m[r].scope, p.scopes) /\ Within(m[r].category, p.categories)

RepoAllowed(p, m, r) ==
    CASE r = Root -> p.includeRoot
      [] r # Root /\ RepoRule(p, r).enabled # "unset" -> RepoRule(p, r).enabled = "yes"
      [] OTHER -> p.useManifest => ManifestAllows(p, m, r)

\* Mutant: the repository's list is asked even of a server that is switched on.
ServerListed(p, r, n) ==
    /\ ServerRule(p, r, n).enabled # "no"
    /\ Within(n, RepoRule(p, r))

ServerEnabled(p, r, n) ==
    LET enabled == ServerRule(p, r, n).enabled
    IN  enabled # "no" /\ (enabled = "yes" \/ Within(n, RepoRule(p, r)))

Ready(p, s) == p.readyOnly => s.status = "ready"

\* configuredAlias and the rest of what is known before aliases are assigned.
Candidate(p, r, n) ==
    LET asked == ServerRule(p, r, n).alias
        prefix == RepoRule(p, r).prefix
    IN  [repo |-> r, server |-> n, explicit |-> asked # <<>>,
         asked |-> CASE asked # <<>> -> asked
                     [] asked = <<>> /\ prefix # <<>> -> Join(prefix, n)
                     [] OTHER -> <<>>]

-----------------------------------------------------------------------------
(* Texts.                                                                  *)

\* mcpServerBlockRe is anchored at the beginning of a line, and its matches have
\* no group to take the name from: extractServerNames gets by only where it
\* finds no server.
ServersAt(c) == {i \in DOMAIN c : c[i][1] = "mcp"}
Panics(c) == ServersAt(c) # {}

\* renderGlobalBlock.  (The code sorts the tables by alias.)
Tables(cs, names) == [i \in DOMAIN cs |-> <<"mcp", names[i], <<cs[i].repo, cs[i].server>>>>]
Block(cs, names) == <<StartMark(Region0)>> \o Tables(cs, names) \o <<EndMark(Region0)>>

\* upsertGeneratedBlock: a first region goes to the end.
\* Mutant: to the beginning.
UpsertOnTop(c, block) ==
    IF HasStart(c, Region0) THEN Replace(c, Region0, block) ELSE InsertOnTop(c, block)

Upsert(c, block) ==
    IF HasStart(c, Region0)
      THEN Replace(c, Region0, block)
      ELSE IF IsBlank(c) THEN block ELSE Trim(c) \o <<Blank>> \o block

Unfinished(c) == HasStart(c, Region0) /\ ~HasRegion(c, Region0)

-----------------------------------------------------------------------------
(* One run.                                                                *)

End(how) == pc' = "done" /\ result' = how

Init ==
    /\ workspace \in Workspaces /\ policyFile \in Policies
    /\ manifestFile \in Manifests /\ config \in Configs
    /\ pc = "idle" /\ result = "none"
    /\ explicitPolicy = FALSE /\ dry = FALSE
    /\ policy = DefaultPolicy /\ manifest = [r \in {} |-> r]
    /\ text = <<>> /\ managed = {}
    /\ todo = {} /\ cands = <<>> /\ skipped = {}
    /\ alias = <<>> /\ base = <<>> /\ suffix = 0 /\ out = <<>>
    /\ quiet = FALSE /\ stable = FALSE /\ events = 0

Start ==
    /\ pc \in {"idle", "done", "panicked"}
    /\ pc' = "policy" /\ result' = "none"
    /\ explicitPolicy' \in BOOLEAN /\ dry' \in BOOLEAN
    /\ policy' = DefaultPolicy /\ manifest' = [r \in {} |-> r]
    /\ text' = <<>> /\ managed' = {}
    /\ todo' = {} /\ cands' = <<>> /\ skipped' = {}
    /\ alias' = <<>> /\ base' = <<>> /\ suffix' = 0 /\ out' = <<>>
    /\ quiet' = FALSE /\ stable' = FALSE
    /\ UNCHANGED <<disk, events>>

\* A policy that nobody named need not exist.
ReadPolicy ==
    /\ pc = "policy"
    /\ CASE policyFile = Broken \/ (policyFile = Absent /\ explicitPolicy) ->
               End("failed") /\ UNCHANGED policy
         [] policyFile = Absent /\ ~explicitPolicy ->
               pc' = "manifest" /\ UNCHANGED <<policy, result>>
         [] OTHER -> pc' = "manifest" /\ policy' = policyFile.value /\ UNCHANGED result
    /\ UNCHANGED <<disk, explicitPolicy, dry, manifest, text, managed, gathered, aliasing,
                   out, quiet, stable, events>>

ReadManifest ==
    /\ pc = "manifest"
    /\ CASE manifestFile = Broken -> End("failed") /\ UNCHANGED manifest
         [] manifestFile = Absent -> pc' = "config" /\ UNCHANGED <<manifest, result>>
         [] OTHER -> pc' = "config" /\ manifest' = manifestFile.value /\ UNCHANGED result
    /\ UNCHANGED <<disk, explicitPolicy, dry, policy, text, managed, gathered, aliasing,
                   out, quiet, stable, events>>

\* A config that is not there is an empty one.  Where no server was found, both
\* managedSet and reservedSet are empty.
ReadConfig ==
    /\ pc = "config"
    /\ text' = config /\ quiet' = TRUE
    /\ pc' = IF Panics(config) THEN "panicked" ELSE "discover"
    /\ UNCHANGED <<disk, explicitPolicy, dry, policy, manifest, managed, gathered, aliasing,
                   out, result, stable, events>>

\* Which directories have an .mcp.json: the workspace itself and then the others.
Discover ==
    /\ pc = "discover"
    /\ todo' = {i \in DOMAIN Sources : workspace[Sources[i]] # Absent}
    /\ stable' = TRUE
    /\ pc' = "sources"
    /\ UNCHANGED <<disk, inputs, cands, skipped, aliasing, out, result, quiet, events>>

\* One source: a server that cannot be parsed ends the run, unless policy keeps
\* it out.
Wanted(r, s) == RepoAllowed(policy, manifest, r) /\ ServerEnabled(policy, r, s.name)
ReadSource ==
    /\ pc = "sources" /\ todo # {}
    /\ LET r == Sources[First(todo)]
            file == workspace[r]
            listed == Servers(file)
            wanted == {i \in listed : Wanted(r, file.value[i])}
            kept == {i \in wanted : Ready(policy, file.value[i])}
       IN  IF file \in {Absent, Broken} \/ \E i \in wanted : file.value[i].status = "garbled"
             THEN End("failed") /\ UNCHANGED gathered
             ELSE /\ todo' = todo \ {First(todo)}
                  /\ cands' = cands \o Pick([i \in DOMAIN file.value |->
                                                Candidate(policy, r, file.value[i].name)], kept)
                  /\ skipped' = skipped \cup {<<r, file.value[i].name>> : i \in listed \ kept}
                  /\ UNCHANGED <<pc, result>>
    /\ UNCHANGED <<disk, inputs, aliasing, out, quiet, stable, events>>

-----------------------------------------------------------------------------
(* assignGlobalAliases: first the aliases that policy asks for by name.    *)

Used == {alias[i] : i \in DOMAIN alias}
Pending(explicit) == {i \in DOMAIN cands \ DOMAIN alias : cands[i].explicit = explicit}
Assign(i, name) ==
    alias' = [j \in DOMAIN alias \cup {i} |-> IF j = i THEN name ELSE alias[j]]

\* Mutant: an explicit alias is taken for granted.
AssignExplicitUnchecked ==
    /\ pc = "sources" /\ todo = {} /\ Pending(TRUE) # {}
    /\ LET i == First(Pending(TRUE)) IN Assign(i, Sanitize(cands[i].asked))
    /\ UNCHANGED <<disk, inputs, gathered, base, suffix, out, pc, result, quiet, stable, events>>

AssignExplicit ==
    /\ pc = "sources" /\ todo = {} /\ Pending(TRUE) # {}
    /\ LET i == First(Pending(TRUE))
            name == Sanitize(cands[i].asked)
       IN  IF name \in Used
             THEN End("failed") /\ UNCHANGED alias
             ELSE Assign(i, name) /\ UNCHANGED <<pc, result>>
    /\ UNCHANGED <<disk, inputs, gathered, base, suffix, out, quiet, stable, events>>

\* Then the others: a server's own name, if no other candidate has the same; the
\* repository's and the server's, if one has, or if the name is taken.
Namesakes(c) == {i \in DOMAIN cands : ~cands[i].explicit /\ cands[i].server = c.server}
Qualified(c) == Sanitize(Join(<<c.repo>>, c.server))
Wish(c) ==
    CASE c.asked # <<>> -> Sanitize(c.asked)
      [] c.asked = <<>> /\ Cardinality(Namesakes(c)) > 1 -> Qualified(c)
      [] OTHER -> Sanitize(c.server)

Propose ==
    /\ pc = "sources" /\ todo = {} /\ Pending(TRUE) = {} /\ Pending(FALSE) # {}
    /\ LET c == cands[First(Pending(FALSE))]
            taken == Wish(c) \in Used /\ Wish(c) = Sanitize(c.server)
       IN  base' = IF taken THEN Qualified(c) ELSE Wish(c)
    /\ suffix' = 1
    /\ pc' = "unique"
    /\ UNCHANGED <<disk, inputs, gathered, alias, out, result, quiet, stable, events>>

\* uniqueGlobalAlias: base, base-2, base-3 ...
\* Mutant: the suffix stays the same.
RetrySuffix ==
    /\ pc = "unique" /\ Numbered(base, suffix) \in Used
    /\ suffix' = 2
    /\ UNCHANGED <<disk, inputs, gathered, alias, base, out, pc, result, quiet, stable, events>>

NextSuffix ==
    /\ pc = "unique" /\ Numbered(base, suffix) \in Used
    /\ suffix' = suffix + 1
    /\ UNCHANGED <<disk, inputs, gathered, alias, base, out, pc, result, quiet, stable, events>>

AssignDerived ==
    /\ pc = "unique" /\ Numbered(base, suffix) \notin Used
    /\ Assign(First(Pending(FALSE)), Numbered(base, suffix))
    /\ pc' = "sources"
    /\ UNCHANGED <<disk, inputs, gathered, base, suffix, out, result, quiet, stable, events>>

-----------------------------------------------------------------------------
(* The write.                                                              *)

Plan ==
    /\ pc = "sources" /\ todo = {} /\ DOMAIN cands \subseteq DOMAIN alias
    /\ IF Unfinished(text)
         THEN End("failed") /\ UNCHANGED out
         ELSE /\ out' = Upsert(text, Block(cands, alias))
              /\ IF dry THEN End("previewed") ELSE pc' = "write" /\ UNCHANGED result
    /\ UNCHANGED <<disk, inputs, gathered, aliasing, quiet, stable, events>>

\* os.WriteFile truncates first, whether or not there is anything to change.
Truncate ==
    /\ pc = "write"
    /\ config' = <<>>
    /\ pc' = "truncated"
    /\ UNCHANGED <<workspace, policyFile, manifestFile, locals, result, quiet, stable, events>>

Fill ==
    /\ pc = "truncated"
    /\ config' = out
    /\ End("written")
    /\ UNCHANGED <<workspace, policyFile, manifestFile, locals, quiet, stable, events>>

-----------------------------------------------------------------------------
(* Faults, crashes and everybody else.                                     *)

Happens == events < MaxEvents /\ events' = events + 1

\* The config or the workspace directory cannot be read, the config's directory
\* cannot be made, or the config cannot be opened.
CallFails ==
    /\ Happens
    /\ pc \in {"config", "discover", "write"}
    /\ End("failed")
    /\ UNCHANGED <<disk, locals, quiet, stable>>

WriteFails ==
    /\ Happens
    /\ pc = "truncated"
    /\ \E n \in 0..Len(out) : config' = SubSeq(out, 1, n)
    /\ End("failed")
    /\ UNCHANGED <<workspace, policyFile, manifestFile, locals, quiet, stable>>

Crash ==
    /\ Happens
    /\ pc \notin {"idle", "done", "panicked"}
    /\ pc' = "idle"
    /\ UNCHANGED <<disk, locals, result, quiet, stable>>

EditConfig ==
    /\ Happens
    /\ config' \in Configs \ {config}
    /\ quiet' = FALSE
    /\ UNCHANGED <<workspace, policyFile, manifestFile, pc, locals, result, stable>>

EditWorkspace ==
    /\ Happens
    /\ workspace' \in Workspaces \ {workspace}
    /\ stable' = FALSE
    /\ UNCHANGED <<policyFile, manifestFile, config, pc, locals, result, quiet>>

Step ==
    \/ ReadPolicy \/ ReadManifest \/ ReadConfig \/ Discover \/ ReadSource
    \/ AssignExplicit \/ Propose \/ NextSuffix \/ AssignDerived
    \/ Plan \/ Truncate \/ Fill

Next ==
    \/ Start \/ Step \/ CallFails \/ WriteFails \/ Crash
    \/ EditConfig \/ EditWorkspace

Spec == Init /\ [][Next]_vars /\ WF_vars(Step)

-----------------------------------------------------------------------------
(* Properties.                                                             *)

Places == {"idle", "policy", "manifest", "config", "discover", "sources", "unique",
           "write", "truncated", "done", "panicked"}
Results == {"none", "failed", "previewed", "written"}

IsLine(l) == l \in Lines \/ (l[1] = "mcp" /\ l[3][1] \in Dirs)
IsText(c) == DOMAIN c = 1..Len(c) /\ \A i \in DOMAIN c : IsLine(c[i])

\* The types of the state: the config consists of lines whatever happens to it,
\* and aliases are given to candidates only, each one a name that TOML takes bare.
TypeOK ==
    /\ workspace \in Workspaces /\ policyFile \in Policies /\ manifestFile \in Manifests
    /\ IsText(config) /\ IsText(text) /\ IsText(out)
    /\ pc \in Places /\ result \in Results
    /\ explicitPolicy \in BOOLEAN /\ dry \in BOOLEAN
    /\ todo \subseteq DOMAIN Sources
    /\ \A i \in DOMAIN cands : cands[i].repo \in Dirs
    /\ DOMAIN alias \subseteq DOMAIN cands
    /\ \A name \in Used : name # <<>> /\ "@" \notin {name[i] : i \in DOMAIN name}
    /\ suffix \in 0..(Len(cands) + 1)
    /\ quiet \in BOOLEAN /\ stable \in BOOLEAN /\ events \in 0..MaxEvents

\* What a run writes never holds two tables for one server name: not for two of
\* the servers it gathered, and not for one of them and one that is the user's.
OneTable(c) == \A i, j \in ServersAt(c) : c[i][2] = c[j][2] => i = j
OneTablePerServer == OneTable(out)

\* A run that nobody interfered with leaves every line of the user's in the
\* config, in the table it belonged to, and adds none.  But a region without a
\* server opens no table: what the user adds right behind it changes its table as
\* soon as it has one.
Wrote == pc = "done" /\ result = "written"
UserLinesKept == Wrote /\ quiet /\ ~Exposed(text, Region0) => Keeps(text, config, Region0)

\* Once the sources are read, and while nobody changes them, every server of theirs
\* is either to be written or reported as skipped; one that policy switches off,
\* or whose repository it switches off, is not written; and one that it switches
\* on, in a repository it switches on, is, whatever the manifest and the
\* repository's own lists say.
Chosen == {<<cands[i].repo, cands[i].server>> : i \in DOMAIN cands}
Gathered == pc \in {"unique", "write", "truncated"} \/ result \in {"previewed", "written"}
Exists(r) == workspace[r] # Absent
PolicyHonoured ==
    Gathered /\ stable =>
        /\ Chosen \cap skipped = {}
        /\ \A r \in {d \in Dirs : Exists(d)} : \A i \in Servers(workspace[r]) :
              LET s == workspace[r].value[i]
                  repoRule == RepoRule(policy, r).enabled
                  serverRule == ServerRule(policy, r, s.name).enabled
                  on == IF r = Root THEN policy.includeRoot ELSE repoRule = "yes"
                  off == IF r = Root THEN ~policy.includeRoot ELSE repoRule = "no"
              IN  /\ <<r, s.name>> \in Chosen \cup skipped
                  /\ serverRule = "no" \/ off => <<r, s.name>> \in skipped
                  /\ serverRule = "yes" /\ on /\ s.status = "ready" => <<r, s.name>> \in Chosen

\* A run that has read a complete generated region knows its servers, so that it
\* can report each as unchanged or stale.  NOT true of the code: see the run
\* global_sync_rerun.
NamesIn(c) == {c[i][2] : i \in ServersAt(c) \cap Region(c, Region0)}
HasReadConfig == pc \in Places \ {"idle", "policy", "manifest", "config", "done"}
ManagedIsKnown == HasReadConfig => managed = NamesIn(text)

\* Every run ends, in particular the search for a suffix nobody has taken.
Running == pc \notin {"idle", "done", "panicked"}
RunEnds == Running ~> ~Running
=============================================================================
