--------------------------- MODULE BaselineGuard ---------------------------
(***************************************************************************)
(* The baseline that a repository is checked against (baselineguard.Check): *)
(* independent checks, each over what is in the checkout, some of them      *)
(* against a policy that lies outside the repository, under workspace/.     *)
(*                                                                         *)
(* A checkout is a record:                                                 *)
(*   files    a function from the files that exist to [parses, holds]:     *)
(*            whether the file is well-formed, and which of the phrases,    *)
(*            settings and model names that a check looks for are in it     *)
(*   skills   of each directory under .agents/skills, its SKILL.md: "none", *)
(*            "portable", "unportable" or, under another name, "misnamed"    *)
(*   rejects  <<validator, skill>> for each skill that a validator rejects   *)
(*   listed   the skills that surface.yaml names                            *)
(*   mirrors  that it asks for, in order: a sequence of [of, dir, stands],   *)
(*            the skill, the directory and how what is there stands against  *)
(*            the skill: "unchanged", "create", "update", or "blocked" where *)
(*            nothing may be written                                        *)
(*   strays   the directories that a purge of the mirrors removes           *)
(*   block    how the generated servers stand against their source:        *)
(*            "unchanged", "update", or "leftover" when all are to go        *)
(*   faulty   whether the launcher check finds fault with what is generated *)
(*   servers  of .mcp.json: a set of [name, hidden, launch, http], launch    *)
(*            being "portable", "inline", "empty", "relative", "here" with   *)
(*            the directory "." to run in or, for an inline go run behind    *)
(*            another command, "wrapped"                                    *)
(*   profiles of the profile policy: a sequence of [stem, from, tools,       *)
(*            launch], the name, the server, whether the selection of tools  *)
(*            is in order, and "inherited" for the launch of the server      *)
(*   agents   of .agents/agents, in name order: <<entry, identity>>, with   *)
(*            identity "unreadable" where no name can be read                *)
(*   roles    of .codex/agents: a set of [name, dashed]                     *)
(*   spec     the protocol version in .well-known/mcp.json, 0 if none       *)
(*   git      the state of the work tree, see RepoReadiness                 *)
(* and further fields that other modules read.                             *)
(*                                                                         *)
(* A finding is [check, about, detail, passed]; about and detail stand for   *)
(* the message, which names what was looked at, so that findings of a report *)
(* are distinct.                                                           *)
(***************************************************************************)
EXTENDS Integers, SequencesExt

CONSTANTS
    Managed,    \* the checkouts that are managed worktrees, outside the workspace
    Absent,     \* a file or directory that is not there
    Broken,     \* a file that cannot be parsed
    Validators  \* of the two skill validators, "host" and "pinned", those installed

ASSUME FilesAssumption == Absent # Broken
ASSUME ValidatorsAssumption == Validators \subseteq {"host", "pinned"}

RequiredFiles == {"AGENTS.md", "CLAUDE.md", ".claude/settings.json", ".codex/config.toml"}
RetiredMirrors == {"GEMINI.md", ".gemini/settings.json", ".github/copilot-instructions.md", ".clinerules"}
SyncWrappers == {"scripts/hg-skill-surface-sync.sh", "scripts/codex-mcp-sync.sh"}
PinFiles == {".codex/config.toml", ".claude/settings.json", ".mcp.json", ".ralphrc",
             ".agents/roles", ".codex/agents"}
SkillsDir == ".agents/skills"
SurfaceFile == ".agents/skills/surface.yaml"
ConfigFile == ".codex/config.toml"
ProfileFile == ".codex/mcp-profile-policy.json"

Exists(c, f) == f \in DOMAIN c.files
Parses(c, f) == Exists(c, f) /\ c.files[f].parses
Says(c, f, phrase) == Exists(c, f) /\ phrase \in c.files[f].holds
\* The directory may be there with nothing in it.
HasSkillsDir(c) == Exists(c, SkillsDir) \/ Exists(c, SurfaceFile) \/ DOMAIN c.skills # {}

FindingOn(check, about, detail, passed) ==
    [check |-> check, about |-> about, detail |-> detail, passed |-> passed]
Finding(check, about, passed) == FindingOn(check, about, "whole", passed)
Findings(check, subjects, Ok(_)) == {Finding(check, s, Ok(s)) : s \in subjects}
When(condition, findings) == IF condition THEN findings ELSE {}

-----------------------------------------------------------------------------
(* Instructions, settings, agents.                                         *)
RequiredFileFindings(c) == Findings("required_file", RequiredFiles, LAMBDA f : Exists(c, f))
RetiredFindings(c) == Findings("retired_provider_mirror", RetiredMirrors, LAMBDA f : ~Exists(c, f))

(* Whether a file is fine in some way, if it is there.                      *)
IfThere(c, f, check, fine) == When(Exists(c, f), {Finding(check, f, fine)})
CanonicalFindings(c) ==
    IfThere(c, "AGENTS.md", "canonical_agents", Says(c, "AGENTS.md", "canonical"))
    \cup IfThere(c, "CLAUDE.md", "canonical_claude", Says(c, "CLAUDE.md", "canonical"))
SettingsFindings(c) ==
    IfThere(c, ".claude/settings.json", "claude_settings_json", Parses(c, ".claude/settings.json"))
    \cup IfThere(c, ".agents/hooks.json", "agy_hooks_json", Parses(c, ".agents/hooks.json"))

(* An agent is fine if it can be read and no earlier one has its identity. *)
AgentFindings(c) ==
    {Finding("agy_agent_layout", c.agents[i][1],
             c.agents[i][2] # "unreadable" /\ \A j \in 1..(i - 1) : c.agents[j][2] # c.agents[i][2]) :
        i \in DOMAIN c.agents}

(* A configuration that does not parse is one finding; its profiles are not *)
(* looked at.                                                              *)
ProfileFindings(c) ==
    When(Exists(c, ConfigFile),
         {Finding("codex_config_toml", ConfigFile, Parses(c, ConfigFile))}
         \cup When(Parses(c, ConfigFile),
                   {Finding("project_local_profiles", ConfigFile, ~Says(c, ConfigFile, "profiles"))}))

NamingFindings(c) == {Finding("agent_naming", role.name, ~role.dashed) : role \in c.roles}

-----------------------------------------------------------------------------
(* Skills and MCP servers.                                                 *)
SurfaceFindings(c) ==
    IF ~Exists(c, SurfaceFile) THEN {Finding("skill_surface", "absent", TRUE)}
    ELSE IF ~Says(c, SurfaceFile, "version") THEN {Finding("skill_surface", "version", FALSE)}
    ELSE {Finding("skill_surface", "version", TRUE)}
         \cup Findings("skill_file", c.listed, LAMBDA s :
                       s \in DOMAIN c.skills /\ c.skills[s] # "none")

PortabilityFindings(c) ==
    Findings("skill_portability", {s \in DOMAIN c.skills : c.skills[s] # "none"},
             LAMBDA s : c.skills[s] # "unportable")

(* A validator mode, "auto", "host", "pinned" or "off", says which validator *)
(* is asked, and whether it is an error that there is none.                 *)
ValidatorOf(mode) == IF mode = "auto" THEN "host" ELSE mode
NoValidator(mode) == mode \in {"host", "pinned"} \ Validators
Rejects(c, s, mode) == ValidatorOf(mode) \in Validators /\ <<ValidatorOf(mode), s>> \in c.rejects

(* What skillsync reports: the errors, what it does to the mirrors that it   *)
(* reaches, and what it purges.  Without a surface that can be read, or with *)
(* a mirror that may not be written, that is all there is to it.  Any other  *)
(* error costs the mirrors of one skill, or one mirror, and the purge.      *)
SurfaceRead(c) == Parses(c, SurfaceFile) /\ Says(c, SurfaceFile, "version")
Blocked(c) == {i \in DOMAIN c.mirrors : c.mirrors[i].stands = "blocked"}
Usable(c, s, mode) == s \in DOMAIN c.skills /\ c.skills[s] = "portable" /\ ~Rejects(c, s, mode)
Asked(c, mode) == {i \in DOMAIN c.mirrors : Usable(c, c.mirrors[i].of, mode)}
Taken(c, mode) == {i \in Asked(c, mode) : \E j \in Asked(c, mode) : j < i /\ c.mirrors[j].dir = c.mirrors[i].dir}
Aborts(c) == ~SurfaceRead(c) \/ Blocked(c) # {}
SkillErrors(c, mode) ==
    IF ~SurfaceRead(c) THEN {SurfaceFile}
    ELSE IF Aborts(c) THEN {c.mirrors[i].dir : i \in Blocked(c)}
    ELSE When(NoValidator(mode), {mode})
         \cup {s \in c.listed : ~Usable(c, s, mode)} \cup {c.mirrors[i].dir : i \in Taken(c, mode)}
Reached(c, mode) == IF Aborts(c) THEN {} ELSE Asked(c, mode) \ Taken(c, mode)

Action(action, about) == [action |-> action, about |-> about]
SkillReport(c, mode) ==
    {Action("error", e) : e \in SkillErrors(c, mode)}
    \cup {Action(c.mirrors[i].stands, c.mirrors[i].dir) : i \in Reached(c, mode)}
    \cup When(SkillErrors(c, mode) = {}, {Action("remove", dir) : dir \in c.strays})

Drifted(action) == action \in {"error", "create", "update", "remove"}
SkillSyncFindings(c) ==
    When(HasSkillsDir(c),
         {FindingOn("skill_sync", r.about, r.action, ~Drifted(r.action)) : r \in SkillReport(c, "auto")})

(* What mcpsync.Diff reports: an error when a file it needs is missing, when *)
(* the profiles are not in order, when a server to generate is missing, has  *)
(* no command or does not launch portably as this package sees it, which     *)
(* looks for less than LauncherFindings, or when the tables in the config do *)
(* not lie between two markers.  When every generated server is to go there  *)
(* is none left to report, and no finding.  A policy may leave it to the     *)
(* repository.                                                             *)
ServerNamed(servers, name) == CHOOSE s \in servers : s.name = name
HasServer(servers, name) == \E s \in servers : s.name = name
FromProfiles(c) == Exists(c, ProfileFile)
Generated(c) ==
    IF FromProfiles(c)
    THEN {IF p.launch # "inherited" THEN p.launch ELSE ServerNamed(c.servers, p.from).launch : p \in ToSet(c.profiles)}
    ELSE {s.launch : s \in {s \in c.servers : ~s.hidden}}
ProfilesInOrder(c) ==
    /\ Parses(c, ProfileFile) /\ c.profiles # <<>>
    /\ \A p \in ToSet(c.profiles) : HasServer(c.servers, p.from) /\ p.tools
    /\ \A i, j \in DOMAIN c.profiles : i # j => c.profiles[i].stem # c.profiles[j].stem
Resolves(c) == (FromProfiles(c) => ProfilesInOrder(c)) /\ {"inline", "empty"} \cap Generated(c) = {}
Unmarked(c) == \E flaw \in {"tables without markers", "no end marker"} : Says(c, ConfigFile, flaw)
McpReport(c) ==
    IF ~Parses(c, ".mcp.json") \/ ~Exists(c, ConfigFile) THEN "error"
    ELSE IF Says(c, ProfileFile, "repo local owner") THEN "unchanged"
    ELSE IF Resolves(c) /\ ~Unmarked(c) THEN c.block ELSE "error"
McpSyncFindings(c) ==
    When(Exists(c, ".mcp.json") /\ McpReport(c) # "leftover",
         {Finding("mcp_sync", "block", ~Drifted(McpReport(c)))})

WrapperFindings(c) ==
    Findings("sync_wrapper_portability", {w \in SyncWrappers : Exists(c, w)}, LAMBDA w :
        /\ ~Says(c, w, "git toplevel")
        /\ Says(c, w, "go run") => Says(c, w, "GOWORK=off"))

(* The launchers in .mcp.json one by one, then the generated ones at once; *)
(* the latter are no finding when they are fine.  Of an empty command there  *)
(* is nothing to find.                                                     *)
LauncherFindings(c) ==
    When(Parses(c, ".mcp.json"),
         IF c.servers = {} THEN {Finding("mcp_portability", "no servers", TRUE)}
         ELSE {Finding("mcp_portability", s.name, s.launch \in {"portable", "empty"}) : s \in {s \in c.servers : ~s.hidden}})
    \cup When(/\ Parses(c, ".mcp.json")
              /\ Exists(c, ConfigFile)
              /\ c.faulty \/ Says(c, ConfigFile, "cwd = .") \/ Says(c, ConfigFile, "go run"),
              {Finding("mcp_portability", "config", FALSE)})

DiscoveryFindings(c) ==
    When(Parses(c, ".mcp.json") /\ \E s \in c.servers : s.http,
         {Finding("mcp_discovery", "mcp.json", Exists(c, ".well-known/mcp.json"))})

AwarenessFindings(c) ==
    {Finding("a2a_awareness", "agent.json",
             Exists(c, ".well-known/agent.json") => Parses(c, ".well-known/agent.json"))}

-----------------------------------------------------------------------------
(* The checks against the policy of the workspace: [lifecycle, target,      *)
(* expectations], each Absent, Broken or its contents.  The registry of     *)
(* models is looked for in the workspace even from a managed worktree, the  *)
(* two others next to the checkout only.                                   *)
NearBy(d, registry) == IF d \in Managed THEN Absent ELSE registry

(* A model is [id, disallowed, status, retires], retires = 0 without a     *)
(* date.  Only models that are disallowed, deprecated or retired are looked *)
(* for; a deprecated one fails from two weeks before its last day.          *)
GraceDays == 14
Tracked(models) == {m \in models : m.disallowed \/ m.status \in {"deprecated", "retired"}}
PinAllowed(m, day) ==
    /\ ~m.disallowed
    /\ m.status # "retired"
    /\ m.retires # 0 => m.retires - day > GraceDays

PinFindings(c, lifecycle, day) ==
    IF lifecycle = Absent THEN {Finding("model_pin_freshness", "registry", TRUE)}
    ELSE IF lifecycle = Broken THEN {Finding("model_pin_freshness", "registry", FALSE)}
    ELSE UNION {{FindingOn("model_pin_freshness", f, m.id, PinAllowed(m, day)) :
                    f \in {f \in PinFiles : Says(c, f, m.id)}} : m \in Tracked(lifecycle)}

(* A version below the target fails; one between target and current fails  *)
(* when the deadline, if there is one, has passed.                         *)
SpecFindings(c, target, day) ==
    When(Exists(c, ".well-known/mcp.json") /\ c.spec # 0 /\ target \notin {Absent, Broken},
         {Finding("mcp_spec_target", "version",
             /\ c.spec >= target.fleet
             /\ c.spec < target.current => target.deadline = 0 \/ day <= target.deadline)})

(* An expectation is [id, complete, repos, unclear, file, format, expected, *)
(* forbidden], with the directories that its patterns match, and those that *)
(* they do not match up to a pattern that is malformed.  What is expected or *)
(* forbidden, a setting or a phrase, fails one by one; when nothing does,    *)
(* that is one finding.                                                    *)
ExpectationFindings(c, e) ==
    LET broken(f) == (f \in e.expected /\ ~Says(c, e.file, f)) \/ (f \in e.forbidden /\ Says(c, e.file, f))
        wrong == {f \in e.expected \cup e.forbidden : broken(f)}
        readable == /\ e.complete /\ Exists(c, e.file)
                    /\ e.format \in {"json", "toml", "text"}
                    /\ e.format # "text" => Parses(c, e.file)
    IN  IF ~readable \/ wrong = {} THEN {Finding("config_drift", e.id, readable)}
        ELSE {FindingOn("config_drift", e.id, f, FALSE) : f \in wrong}

DriftFindings(d, c, registry) ==
    IF registry = Absent THEN {Finding("config_drift", "registry", TRUE)}
    ELSE IF registry = Broken THEN {Finding("config_drift", "registry", FALSE)}
    ELSE LET mine == {e \in registry : d \in e.repos} IN
         {FindingOn("config_drift", e.id, "pattern", FALSE) : e \in {e \in registry : d \in e.unclear}}
         \cup IF mine = {} THEN {Finding("config_drift", "none", TRUE)}
              ELSE UNION {ExpectationFindings(c, e) : e \in mine}

-----------------------------------------------------------------------------
(* The whole report on the checkout c in directory d, and the commands that *)
(* it offers: two of its checks name a generator, the others an edit.      *)
BaselineReport(d, c, policy, day) ==
    UNION {RequiredFileFindings(c), RetiredFindings(c), CanonicalFindings(c), SettingsFindings(c),
           AgentFindings(c), ProfileFindings(c), NamingFindings(c), SurfaceFindings(c),
           SkillSyncFindings(c), WrapperFindings(c), McpSyncFindings(c), LauncherFindings(c),
           DiscoveryFindings(c), AwarenessFindings(c), PortabilityFindings(c),
           PinFindings(c, policy.lifecycle, day),
           SpecFindings(c, NearBy(d, policy.target), day),
           DriftFindings(d, c, NearBy(d, policy.expectations))}

Failed(report) == {f \in report : ~f.passed}
BaselinePasses(report) == Failed(report) = {}
Commands(report) == {f.check : f \in Failed(report)} \cap {"skill_sync", "mcp_sync"}

(* What the two generators make of the checkout, undisturbed: the mirrors    *)
(* that skillsync reaches follow their skills, and the strays go when there  *)
(* was no error at all; after an error of mcpsync the config stays as it is. *)
(* (A mutant first: what is to be updated stays.)                           *)
SettledIfNew(action) == IF action = "create" THEN "unchanged" ELSE action
Settled(action) == IF action \in {"create", "update"} THEN "unchanged" ELSE action
MirrorsSynced(c) ==
    [i \in DOMAIN c.mirrors |->
        IF i \in Reached(c, "auto") THEN [c.mirrors[i] EXCEPT !.stands = Settled(@)] ELSE c.mirrors[i]]
SkillsSynced(c) ==
    [c EXCEPT !.mirrors = MirrorsSynced(c),
              !.strays = IF SkillErrors(c, "auto") = {} THEN {} ELSE c.strays]

LetThrough == {"wrapped", "here"}   \* launches that the generator takes and the launcher check does not
McpSynced(c) ==
    IF McpReport(c) \in {"error", "unchanged"} THEN c
    ELSE [c EXCEPT !.block = "unchanged",
                   !.faulty = c.block # "leftover" /\ Generated(c) \cap LetThrough # {}]
Remedied(c, commands) ==
    LET synced == IF "skill_sync" \in commands THEN SkillsSynced(c) ELSE c
    IN  IF "mcp_sync" \in commands THEN McpSynced(synced) ELSE synced
=============================================================================
