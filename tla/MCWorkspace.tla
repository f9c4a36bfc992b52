---------------------------- MODULE MCWorkspace ----------------------------
(* A small instance of Workspace: the repositories alpha and beta, of which  *)
(* alpha may also be relocated to a managed worktree.  A checkout of alpha is *)
(* in good order, or differs from that in one respect.                      *)
EXTENDS Workspace

MCDirs == {"alpha", "beta", "vault", "s2f_out", "wt/alpha"}
MCLinked == {"wt/alpha"}
MCInside == [x \in {"alpha/tool"} |-> "alpha"]

Sound(holds) == [parses |-> TRUE, holds |-> holds]
Garbled == [parses |-> FALSE, holds |-> {}]
With(c, f, contents) == [c EXCEPT !.files = (f :> contents) @@ @]
Without(c, f) == [c EXCEPT !.files = [g \in DOMAIN @ \ {f} |-> @[g]]]

Server(name, launch) ==
    [name |-> name, hidden |-> FALSE, launch |-> launch, http |-> FALSE, found |-> TRUE, card |-> "old"]
Profile(stem, from) ==
    [stem |-> stem, from |-> from, tools |-> TRUE, mode |-> "dev", launch |-> "inherited", global |-> {"codex"},
     raw |-> FALSE]
Mirror(of, dir, stands) == [of |-> of, dir |-> dir, stands |-> stands]
CleanGit == [ok |-> TRUE, head |-> "main", dirty |-> 0, ahead |-> 0, behind |-> 0]
Shell(traits, lines) == [traits |-> traits, lines |-> lines]

Good ==
    [files |-> [f \in RequiredFiles \cup {SurfaceFile, ".mcp.json", ProfileFile, "go.mod"} |->
                   CASE f = SurfaceFile -> Sound({"version"})
                     [] f \in {"AGENTS.md", "CLAUDE.md"} -> Sound({"canonical"})
                     [] f = ConfigFile -> Sound({"sandbox"})
                     [] OTHER -> Sound({})],
     skills |-> [s \in {"build"} |-> "portable"], listed |-> {"build"},
     rejects |-> {}, mirrors |-> <<Mirror("build", "claude/build", "unchanged")>>, strays |-> {},
     block |-> "unchanged", faulty |-> FALSE,
     servers |-> {Server("files", "portable")}, agents |-> <<<<"review", "reviewer">>>>,
     roles |-> {[name |-> "lint", dashed |-> FALSE]}, spec |-> 0, git |-> CleanGit, cloned |-> TRUE,
     shell |-> [f \in {"run.sh"} |-> Shell({"wrapper"}, 10)], hooks |-> [h \in {} |-> 0],
     generated |-> 1, fastPaths |-> 0, roadmap |-> 1,
     profiles |-> <<Profile(<<"alpha", "_", "files">>, "files")>>,
     localSkills |-> "none", localMcp |-> "none"]
Bare == [Without(Without(Without(Good, SurfaceFile), ".mcp.json"), ProfileFile)
            EXCEPT !.skills = [s \in {} |-> ""], !.listed = {}, !.mirrors = <<>>,
                   !.servers = {}, !.profiles = <<>>, !.generated = 0]

\* One respect in which a checkout differs from good order.
Instructions ==
    {Without(Good, "AGENTS.md"), Without(Good, ConfigFile), With(Good, "GEMINI.md", Sound({})),
     With(Good, "CLAUDE.md", Sound({})), With(Good, ".claude/settings.json", Garbled),
     With(Good, ".agents/hooks.json", Garbled), With(Good, ConfigFile, Garbled),
     With(Good, ConfigFile, Sound({"profiles"})), With(Good, ".well-known/agent.json", Garbled),
     With([Good EXCEPT !.spec = 2], ".well-known/mcp.json", Sound({})),
     With(Good, ".ralphrc", Sound({"passive"})), With(Good, ".ralphrc", Sound({"m1", "m2"})),
     With(Good, "scripts/codex-mcp-sync.sh", Sound({"go run"})),
     [Good EXCEPT !.agents = <<<<"a", "reviewer">>, <<"b", "reviewer">>>>],
     [Good EXCEPT !.roles = {[name |-> "lint-all", dashed |-> TRUE]}]}
Two == [Good EXCEPT !.skills = [s \in {"build", "test"} |-> "portable"], !.listed = {"build", "test"},
                    !.mirrors = <<Mirror("build", "claude/build", "update"), Mirror("test", "claude/test", "create")>>,
                    !.strays = {"plugin/old"}]
Rejected == [Good EXCEPT !.rejects = {<<"host", "build">>}]
Skills ==
    {Without(Good, SurfaceFile), With(Good, SurfaceFile, Sound({})), With(Good, SurfaceFile, Garbled),
     With(Bare, SkillsDir, Sound({})), [Good EXCEPT !.listed = {"build", "test"}],
     [Good EXCEPT !.skills = [s \in {"build"} |-> "unportable"]], [Good EXCEPT !.skills = [s \in {"build"} |-> "misnamed"]],
     [Good EXCEPT !.skills = [s \in {"build", "test"} |-> IF s = "build" THEN "portable" ELSE "none"]],
     [Good EXCEPT !.mirrors[1].stands = "blocked", !.localSkills = "fail"],
     Rejected, [Good EXCEPT !.rejects = {<<"pinned", "build">>}],
     Two, [Two EXCEPT !.mirrors[2].stands = "blocked"], [Two EXCEPT !.mirrors[2].dir = "claude/build"],
     [Two EXCEPT !.skills["test"] = "none"], [Two EXCEPT !.rejects = {<<"host", "test">>}],
     [Good EXCEPT !.generated = 0, !.localSkills = "fail"], [Bare EXCEPT !.generated = 1]}
Outdated == [Good EXCEPT !.block = "update"]
Servers ==
    {Outdated, [Without(Good, ProfileFile) EXCEPT !.block = "update"],
     [Without(Good, ProfileFile) EXCEPT !.servers = {}, !.block = "leftover"],
     With([Good EXCEPT !.servers = {}], ".mcp.json", Garbled), [Good EXCEPT !.localMcp = "fail"],
     With([Good EXCEPT !.faulty = TRUE], ProfileFile, Sound({"repo local owner"})),
     [Good EXCEPT !.servers = {Server("files", "inline")}], [Outdated EXCEPT !.servers = {Server("files", "empty")}],
     [Without(Good, ProfileFile) EXCEPT !.servers = {Server("files", "wrapped")}, !.block = "update"],
     [Without(Good, ProfileFile) EXCEPT !.servers = {Server("files", "here")}, !.block = "update"],
     [Outdated EXCEPT !.profiles[1].launch = "wrapped"], [Outdated EXCEPT !.profiles[1].launch = "here"],
     [Outdated EXCEPT !.profiles[1].launch = "empty"], [Outdated EXCEPT !.profiles[1].tools = FALSE],
     [Outdated EXCEPT !.profiles = @ \o @], [Outdated EXCEPT !.faulty = TRUE],
     With(Outdated, ConfigFile, Sound({"sandbox", "tables without markers"})),
     With(Outdated, ConfigFile, Sound({"sandbox", "no end marker"})),
     [Good EXCEPT !.servers = {[Server("files", "relative") EXCEPT !.http = TRUE]}],
     [Good EXCEPT !.servers = {[Server("files", "portable") EXCEPT !.found = FALSE]}]}
Work ==
    {[Good EXCEPT !.git.dirty = 6], [Good EXCEPT !.git.behind = 1], [Good EXCEPT !.git.ahead = 1],
     [Good EXCEPT !.git.head = "topic"], [Good EXCEPT !.git.head = "detached"],
     [Good EXCEPT !.git.head = "unborn"], [Good EXCEPT !.git.ok = FALSE],
     [Good EXCEPT !.cloned = FALSE], Bare}
Scripts ==
    {[Good EXCEPT !.shell = ("old.sh" :> Shell({"legacy"}, 30)) @@ @],
     [Good EXCEPT !.shell = ("db.sh" :> Shell({"stateful"}, 400)) @@ ("up.sh" :> Shell({"bootstrap"}, 300)) @@ @],
     [Good EXCEPT !.shell = ("a.sh" :> Shell({"operator command"}, 90)) @@ ("b.sh" :> Shell({"test"}, 80))
                            @@ ("c.sh" :> Shell({"parser"}, 70))],
     [Good EXCEPT !.shell = ("lib.sh" :> Shell({"function library"}, 25)) @@ ("new.sh" :> Shell({}, 90)) @@ @],
     [Good EXCEPT !.hooks = [h \in {"pre-commit"} |-> 9], !.fastPaths = 1, !.roadmap = 0]}

Beta == Without([Good EXCEPT !.profiles = <<>>, !.servers = {Server("search", "portable")}], ProfileFile)
BetaToo == {Absent, Without(Beta, "go.mod"), [Beta EXCEPT !.git.dirty = 21],
            [Beta EXCEPT !.shell = ("etl.sh" :> Shell({"wrapper", "parser"}, 200)) @@ @]}
Tree(alpha, beta, linked) ==
    [d \in MCDirs |-> CASE d = "alpha" -> alpha [] d = "beta" -> beta [] d = "wt/alpha" -> linked [] OTHER -> Absent]
Home == Tree(Good, Beta, Absent)

-----------------------------------------------------------------------------
Entry1(name, lifecycle) == [NoEntry EXCEPT !.name = name, !.lifecycle = lifecycle]
Catalog == <<[Entry1("beta", "active") EXCEPT !.group = "hub"], Entry1("alpha", "active")>>
Decide(repo) == [NoDecision EXCEPT !.repo = repo]
Inputs ==
    [catalog |-> Catalog, parity |-> [n \in {} |-> NoParity], decisions |-> <<>>,
     goWork |-> {"alpha", "beta", "alpha/tool"}, root |-> {Server("tmux", "portable")}]
Deciding(x) == [Inputs EXCEPT !.decisions = <<x>>]
FewInputs ==
    {[Inputs EXCEPT !.catalog = <<Entry1("alpha", "maintenance-only")>>], [Inputs EXCEPT !.decisions = Broken],
     [Inputs EXCEPT !.goWork = {"alpha"}], Deciding([Decide("beta") EXCEPT !.baseline = "no"]),
     Deciding([Decide("alpha") EXCEPT !.state = "removed_from_active_baseline", !.archive = TRUE])}
OtherInputs ==
    {[Inputs EXCEPT !.catalog = Broken], [Inputs EXCEPT !.decisions = Broken],
     [Inputs EXCEPT !.catalog = @ \o <<[Entry1("other", "archived") EXCEPT !.path = "beta"]>>],
     [Inputs EXCEPT !.catalog = <<Entry1("alpha", "maintenance-only")>>],
     [Inputs EXCEPT !.catalog = <<[Entry1("alpha", "") EXCEPT !.archived = TRUE]>>],
     [Inputs EXCEPT !.parity = [n \in {"alpha"} |-> [scope |-> "compatibility_only", expected |-> FALSE]]],
     [Inputs EXCEPT !.parity = [n \in {"alpha"} |-> [scope |-> "active_operator", expected |-> TRUE]],
                    !.catalog[2].group = "hub"],
     [Inputs EXCEPT !.goWork = Absent], [Inputs EXCEPT !.goWork = {"alpha"}],
     [Inputs EXCEPT !.goWork = {"alpha", "beta", "gamma"}],
     Deciding([Decide("alpha") EXCEPT !.scope = "compatibility_only", !.goWork = "no", !.baseline = "no"]),
     Deciding([Decide("beta") EXCEPT !.baseline = "no"]),
     Deciding([Decide("alpha") EXCEPT !.state = "removed_from_active_baseline"]),
     Deciding([Decide("alpha") EXCEPT !.state = "removed_from_active_baseline", !.archive = TRUE]),
     Deciding([Decide("alpha") EXCEPT !.state = "merged_out_of_active_surface"]),
     Deciding([Decide("gone") EXCEPT !.state = "merged_into", !.scope = "compatibility_only"])}

Rules == [DefaultRules EXCEPT !.include = {"active_first_party", "active_operator"}]
Policy == [lifecycle |-> Absent, target |-> Absent, expectations |-> Absent, global |-> Rules,
           modes |-> [n \in {"alpha", "beta"} |-> "active"]]
Model(id, status, retires) == [id |-> id, disallowed |-> FALSE, status |-> status, retires |-> retires]
Expectation == [id |-> "sandbox", complete |-> TRUE, repos |-> {"alpha"}, unclear |-> {}, file |-> ConfigFile,
                format |-> "toml", expected |-> {"sandbox"}, forbidden |-> {"danger"}]
OtherPolicies ==
    {[Policy EXCEPT !.lifecycle = Broken],
     [Policy EXCEPT !.lifecycle = {Model("m1", "deprecated", 20), Model("m2", "preview", 5)}],
     [Policy EXCEPT !.target = [fleet |-> 1, current |-> 3, deadline |-> 2]],
     [Policy EXCEPT !.expectations = Broken],
     [Policy EXCEPT !.expectations = {Expectation, [Expectation EXCEPT !.id = "gone", !.complete = FALSE, !.repos = {"beta"}]}],
     [Policy EXCEPT !.expectations = {[Expectation EXCEPT !.unclear = {"alpha", "beta"}]}],
     [Policy EXCEPT !.modes = [n \in {"alpha", "beta"} |-> "passive"]]}

\* What is projected depends on these.
Described == [Good EXCEPT !.servers = {[Server("files", "portable") EXCEPT !.card = "new"]}]
Projected ==
    {Described, [Good EXCEPT !.servers = {[Server("files", "portable") EXCEPT !.hidden = TRUE]}],
     [Good EXCEPT !.servers = {Server("files", "relative")}],
     [Good EXCEPT !.servers = {[Server("files", "portable") EXCEPT !.http = TRUE]}],
     [Good EXCEPT !.profiles = <<Profile(<<"alpha", "_", "files">>, "files"), Profile(<<"alpha", "-", "files">>, "files")>>],
     [Good EXCEPT !.profiles = <<[Profile(<<"tmux">>, "files") EXCEPT !.mode = "review", !.raw = TRUE]>>],
     [Good EXCEPT !.profiles = <<Profile(<<"alpha">>, "gone")>>]}
OtherRules ==
    {[Policy EXCEPT !.global = Absent], [Policy EXCEPT !.global = Broken],
     [Policy EXCEPT !.global.ready = TRUE], [Policy EXCEPT !.global.refused = {<<"beta", "search">>}],
     [Policy EXCEPT !.global.refused = {<<"beta", "search">>}, !.global.allowed = {<<"beta", "search">>}],
     [Policy EXCEPT !.global.exclude = {"active_first_party"}, !.global.unlisted = FALSE]}

\* What the indexes show depends on these.
Indexed ==
    {Outdated, Rejected, [Good EXCEPT !.servers = {}], With(Good, ".mcp.json", Sound({"no servers key"})),
     With([Good EXCEPT !.servers = {}], ".mcp.json", Garbled), Without(Good, SurfaceFile),
     [Good EXCEPT !.listed = {"build", "test"}, !.localSkills = "pass"], [Good EXCEPT !.localMcp = "fail"]}
Neither == Without(Without(Beta, SurfaceFile), ConfigFile)
Walkable ==
    {With(Good, SettingsFile, Garbled), With(Good, SettingsFile, [Garbled EXCEPT !.holds = {"generated"}]),
     With(Good, OverlayFile, Garbled), With(Good, OverlayFile, Sound({"high risk"})),
     With(Good, SettingsFile, Sound({"hooks"})), With(Good, SettingsFile, Sound({"hooks", "hook target unclear"})),
     With(Good, SettingsFile, Sound({"hooks", "hook target missing"})),
     With(Good, OverlayFile, Sound({"hooks", "hook target missing"})),
     With(Good, "CLAUDE.md", Sound({"canonical", "generated"})),
     With([Good EXCEPT !.servers = {}], ".mcp.json", Garbled), With(Good, ".mcp.json", Sound({"no servers key"})),
     With(Bare, SettingsFile, Garbled)}
Reference1 == Deciding([Decide("alpha") EXCEPT !.scope = "compatibility_only"])
Reference2 == [Inputs EXCEPT !.parity = [n \in {"alpha"} |-> [scope |-> "upstream_or_reference", expected |-> TRUE]]]
Buried(d) == [Home EXCEPT ![d] = With([Beta EXCEPT !.servers = {}], ".mcp.json", Garbled)]

NoSteps == [sort \in {"change", "generate", "remedy", "cycle", "spoil"} \cup SavedKinds |-> 0]
At(start) == [tree |-> start, inputs |-> Inputs, policy |-> Policy, day |-> 1, listed |-> TRUE]
Nothing == [d \in MCDirs |-> {}]
Both(kinds) == kinds \X {1} \X {<<"json", "md">>}
Anyhow(kinds) == kinds \X {1, 2} \X Requests

MCScenarios ==
    [judge |->
        [starts |-> {At(Home)},
         checkouts |-> [d \in MCDirs |->
             CASE d = "alpha" -> {Absent} \cup Instructions \cup Skills \cup Servers \cup Work \cup Scripts
               [] d = "beta" -> BetaToo
               [] d = "wt/alpha" -> {Good, Outdated, With(Good, "GEMINI.md", Sound({}))}
               [] OTHER -> {}],
         inputs |-> FewInputs, policies |-> OtherPolicies, days |-> {3, 6, 92}, saves |-> {}, options |-> {},
         steps |-> [NoSteps EXCEPT !.change = 2, !.remedy = 1]],
     generate |->
        [starts |-> {At(Home)},
         checkouts |-> [Nothing EXCEPT !["alpha"] = Work \cup {Absent, With(Good, ".ralphrc", Sound({"passive"}))},
                                       !["beta"] = BetaToo],
         inputs |-> OtherInputs, policies |-> {}, days |-> {}, saves |-> {}, options |-> {},
         steps |-> [NoSteps EXCEPT !.change = 1, !.generate = 1, !.spoil = 1]],
     project |->
        [starts |-> {At(Home)},
         checkouts |-> [Nothing EXCEPT !["alpha"] = Projected, !["beta"] = {Absent}],
         inputs |-> {[Inputs EXCEPT !.root = {Server("tmux", "relative")}], [Inputs EXCEPT !.root = Absent],
                    [Inputs EXCEPT !.root = Broken]},
         policies |-> OtherRules, days |-> {}, saves |-> Both(Kinds), options |-> {},
         steps |-> [NoSteps EXCEPT !.change = 1, !.inventory = 1, !.projection = 1, !.spoil = 1]],
     rewrite |->
        [starts |-> {At(Home)},
         checkouts |-> [Nothing EXCEPT !["alpha"] = {Described}],
         inputs |-> {}, policies |-> {}, days |-> {2}, saves |-> Anyhow({"inventory"}), options |-> {},
         steps |-> [NoSteps EXCEPT !.change = 1, !.inventory = 2, !.spoil = 1]],
     index |->
        [starts |-> {At(Home)},
         checkouts |-> [Nothing EXCEPT !["alpha"] = Indexed, !["beta"] = {Absent, Neither}],
         inputs |-> {[Inputs EXCEPT !.root = Broken], Deciding([Decide("beta") EXCEPT !.state = "merged_into"])},
         policies |-> {}, days |-> {2}, saves |-> Both(Kinds \cup {"surface"}),
         options |-> {Everything("auto"), Everything("off")},
         steps |-> [NoSteps EXCEPT !.change = 1, !.inventory = 1, !.projection = 1, !.surface = 1]],
     contract |->
        [starts |-> {At(Home)},
         checkouts |-> [Nothing EXCEPT !["alpha"] = {Described, Rejected}],
         inputs |-> {}, policies |-> {}, days |-> {}, saves |-> Both(Kinds) \cup {<<"contract", 1, <<"json">>>>},
         options |-> {Everything("auto"), SkipInventory("off"), ToolsOnly("pinned")},
         steps |-> [NoSteps EXCEPT !.change = 1, !.inventory = 1, !.projection = 1, !.contract = 1]],
     walk |->
        [starts |-> {At(Home), [At(Home) EXCEPT !.listed = FALSE], At(Buried("vault")), At(Buried("s2f_out"))} \cup {[At(Home) EXCEPT !.inputs = in] : in \in {Reference1, Reference2}},
         checkouts |-> [Nothing EXCEPT !["alpha"] = Walkable], inputs |-> {[Inputs EXCEPT !.root = Broken]},
         policies |-> {}, days |-> {2}, saves |-> Both({"primitives"}), options |-> {},
         steps |-> [NoSteps EXCEPT !.change = 1, !.primitives = 1, !.spoil = 1]],
     cycle |->
        [starts |-> {At(Tree(With(Good, "GEMINI.md", Sound({})), Beta, Absent))},
         checkouts |-> [Nothing EXCEPT !["alpha"] = {Good}], inputs |-> {}, policies |-> {}, days |-> {}, saves |-> {}, options |-> {},
         steps |-> [NoSteps EXCEPT !.change = 1, !.cycle = 2]]]

MCOverlays == {<<>>, <<[name |-> "alpha", path |-> "wt/alpha"]>>, <<[name |-> "gamma", path |-> "wt/alpha"]>>}
MCRepos == {"alpha", "beta", "vault", "s2f_out"}
=============================================================================
