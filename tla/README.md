# codexkit in TLA+

codexkit keeps the files that coding agents read (skills, MCP server lists,
settings, workspace manifests) in step with the sources that people edit.  It takes
no locks: every operation, also those that the MCP server runs for an agent, reads
some files, computes, and writes others, while editors, the agents themselves and other
codexkit processes change the same files.  This directory holds a model of that,
checked with TLC on small instances and, except for liveness, proved with TLAPS for all
of them.

Paths below are relative to the repository.

## The system

| Part | Source | State it keeps | Operations |
|---|---|---|---|
| skill projection | `skillsync/` | `.agents/skills` and two mirror roots, `.claude/skills` and `plugins/<root>/skills` | sync, diff, check |
| repository MCP sync | `mcpsync/sync.go` | the marked region of a repository's `.codex/config.toml` | sync, diff, list |
| provider overlay sync | `mcpsync/global_overlay_sync.go` | a part of `~/.claude.json`, `~/.codex/config.toml`, `~/.gemini/settings.json` | write, dry run, check |
| global MCP sync | `mcpsync/global_sync.go`, `cmd/codexkit-global-mcp` | an older region of `~/.codex/config.toml` | sync, dry run |
| projection and inventory | `mcpsync/global_projection.go`, `runtime_inventory.go` | dated artifacts under the workspace's docs | build, check, write |
| tool registry | `registry.go`, `module.go` | modules in order, tools in a map and in a list | register, list, call |
| MCP server | `mcpserver/`, `cmd/codexkit-mcp` | one session over stdin and stdout | initialize, list, call, resources, prompts |
| workspace manifest | `workspace/` | `workspace/manifest.json` and its overlay | generate, check |
| baseline guard | `baselineguard/` | none: a report on a checkout, the policies of the workspace beside it | check one, check all, offer commands |
| readiness, fleet audit | `reporeadiness/`, `fleetaudit/` | none: reports over baseline, git and sync reports | score, audit |
| source contract | `sourcecontract/` | a saved report | check, write |
| unification audit and cycle | `unificationaudit/` | a chain of dated notes and baseline queues | audit, build a cycle, write |
| commit freeze | `scripts/check-freeze.sh`, `.githooks/` | the git history behind an anchor commit | commit-msg gate, history gate, install check |
| indexes | `surfaceindex/`, `primitiveindex/` | dated artifacts under the workspace's docs | build, check, write |
| other reports | `llmreduction/`, `perfaudit/`, `configindex/` | none that they read again | report |
| command line | `cmd/codexkit/` | none | flags to calls |
| shell entry points | `scripts/` | as the programs they wrap | sync, audit, local CI |

Parts interact through files only, with two exceptions: the MCP server calls the
other packages through the registry, and the command line calls them directly.
The same `config.toml` is written by three of them (repository sync in a
repository, overlay and global sync in the home directory) with three different
notions of a table header and of a missing end marker.

### What is hard

* **Interleaving.**  Two syncs of a repository (command line and an agent's tool
  call) share a file that `os.WriteFile` truncates before it writes; Claude and
  Codex save their settings while an overlay is being published.
* **Order inside one run.**  Sources are read at different times, some twice;
  outputs are written one by one; a purge deletes what no output was registered
  for, after everything else.
* **Failure half-way.**  Errors are collected and the run goes on, or the run ends
  with the earlier files written; a crash leaves temporary files or, without an
  atomic rename, half a file.
* **Text surgery.**  TOML cannot leave a table, so inserting or removing lines can
  move a user's pair into another table without touching it.
* **Rules checked twice.**  The freeze gate judges a commit message now and the
  history later; generated artifacts are compared with a regeneration later; four
  commands judge the same generated files, each in its own words.
* **Stale reports.**  A manifest, a note or an artifact was right when it was
  written, and later commands decide by it.

`PROJECT.json` lists each of these at its line, with the properties that cover it.

## Modules

| Module | Models |
|---|---|
| `SkillSync` | one invocation of `skillsync.run` after another, each system call a step |
| `SkillSyncProofs` | theorems about it |
| `MarkedRegion` | pure: the operators that replace, remove and insert a marked region in a text of lines, and what the lines mean to TOML |
| `McpSync` | overlapping runs of `mcpsync.Sync` and `Diff` in one repository |
| `McpSyncProofs` | theorems about it |
| `Publication` | abstract: what a program that owns a part of another's settings file promises |
| `OverlaySync` | `SyncGlobalProviderOverlays` over three files; implements `Publication` three times |
| `OverlaySyncProofs` | theorems about it, the refinement among them |
| `MarkedRegionProofs` | lemmas about `MarkedRegion` for texts of any length |
| `GlobalSync` | `SyncGlobal`: policy, candidates, aliases one by one, the region in the operator's config |
| `GlobalSyncProofs` | theorems about it |
| `Registry` | the tool registry: modules taken or refused, the map and the list of tools |
| `McpServer` | the program around it: registration, one client's session over two pipes, pages, searches, calls |
| `McpServerProofs` | theorems about both |
| `FreezeGuard` | commits after the freeze, judged by the hook and by CI |
| `FreezeGuardProofs` | theorems about it |
| `BaselineGuard` | pure: the checks of a repository, the commands a report offers, and what these make of it |
| `WorkspaceManifest` | pure: generate, overlay, check, and the repositories to judge |
| `RepoReadiness` | pure: score, blockers and lane of a repository |
| `UnificationAudit` | pure: findings, priorities, recommendations, the file to migrate next |
| `UnificationCycle` | notes from one cycle to the next |
| `Projections` | pure: what the runtime inventory and the global projection say |
| `Artifacts` | their files, written one by one, and the check for drift |
| `SourceContract` | the source contract with its saved report, and the fleet audit |
| `SurfaceIndex` | a row on each baseline repository with the contract's verdict, its page, and the check |
| `PrimitiveIndex` | every file that agents read, what it is to the workspace, its page, and the check |
| `Workspace` | all of the last ten composed over one workspace that changes |
| `WorkspaceProofs` | theorems about it and about the cycle |
| `MC*` | the instances for TLC |

`EXTENDS` runs from `BaselineGuard` to `WorkspaceManifest`, from there to
`RepoReadiness` and `UnificationAudit` on one side and to `Projections`, `Artifacts`
and `SourceContract` on the other, where the two indexes follow, and `Workspace` joins
these two sides and `UnificationCycle`.

### SkillSync

`canonical`, `surface` and `tree` are the file system: a source is a text or
absent, a mirror is a leaf (absent, link, something odd, a foreign file, half a
file, a rendering) below directories that may be links to the canonical ones.
`pc`, `todo`, `outs`, `seen`, `expected`, `tmp`, `roots` and `victims` are the
locals of `run`, `syncContent`, `writeProjectionAtomic` and `purgeSkillDirs`.
A rendering is identified by its skill, its role and its source's text; what the
renderer does to the text is not modelled, only that it has some result, which is
another text to whoever reads it as a source (`AsSource`).  Actions follow the code: `Begin`
(parse the manifest), `Validate` (every target), `ReadSkill`, `SyncContent` (register,
compare), `MakeDir`, `CheckTarget`, `CreateTemp`, `WriteTemp`, `Recheck`, `Rename`,
`StartPurge`, `ListStale`, `RemoveStale`, `Return`; the error returns are
`ValidatorMissing`, `WriteFails`, `ListFails`; `Crash` and the edits belong to the
environment.  Between a check of a mirror's path and the call that uses it the path may
become a link.  Then the temporary file is created in the canonical directory
(`astray`), and whether its name still leads to it decides if the rename and the
deferred removal find it (`Reachable`).  `swaps` counts how often the path became a link
or ceased to be one since it was checked.

What it shows (`skill_sync`): a run without errors that nobody disturbed has every
mirror current and no stale one left, and a check is exact; no mirror is ever half
a file; mirrors change only under a plan whose targets were all checked; an undisturbed
run never changes a canonical skill, and a disturbed one only if a root becomes a link
during the purge or a mirror's path is swapped three times between the first check and
the rename; the purge comes after every write and only without
errors; every run ends.  Fairness is weak fairness of the run's own steps: a
started process is scheduled to its end.  Nothing is assumed of the environment.
Four manifests (complete, partial, with a duplicated mirror, unparsable), two
trees, and up to two edits, faults or crashes at any point are enough for each
error path and each race to occur; coverage shows that every action fires.  All
swaps of one path count as one event and there are at most three, which is what it takes
to overwrite a canonical skill: a link after the check at `sync.go:624`, so that the
file is created through it, none at the check before the rename, and again one at the
rename.  The rename then replaces the source by its own rendering.

`skill_sync_linked_root` refutes `SourcesSpared` for a manifest without an output
under `.claude/skills`: the check of targets has nothing to look at there, so the
purge follows a linked root into the sources.  The theorem `SourcesSafe` has
exactly that as its hypothesis.

### McpSync

Lines are key-value pairs, table headers, indented headers, server tables, markers
and blanks.  `ReadServers`, `ReadConfig`, `CheckOwner` and `Plan` are `buildPlan`
cut at its four reads; `Truncate` and `Fill` are `os.WriteFile`.  `.mcp.json` and
the policy are drawn from sets that hold one example of each way the code tells
them apart (hidden server, incompatible transport, launch that is not portable,
policy absent, garbled, owned by the repository, curated, with a duplicate).

`mcp_sync` (two runs, one edit, fault or crash): an undisturbed write loses none of the user's
lines and moves none to another table; a clean report is true; no run opens the config unless
the policy left the block to it at some moment since the run began, none defers to an owner that
no policy named, and one that fails, defers or only reports has not opened the config; the same
sync again has nothing to do.  The policy is read twice, for its profiles and for the owner, and
may be edited in between: two history variables, `verdicts` and `touched`, remember what it said
meanwhile and whether the file was opened.  The last has one exception, which the property
spells out: after the region was removed beside a table of the user's own, the next sync refuses
the file. Lines below the region and ahead of any header belong, for TOML, to the region's last
table; they are kept but may change tables, and `Meaning` leaves them out. Such lines behind a
region that has no table yet, one whose servers are all gone, belong to a table of the user's
until the region opens one (`Exposed`): that is the one config for which the property claims
nothing, found when the proof asked for it.

`mcp_sync_overlap` refutes `UserTextSurvives`: a sync that reads the file between
another's truncation and write replaces the user's config by the block alone.

Not in the model: lines of multi-line TOML values (a line that opens with a
bracket is always a header), the comment lines of the block, field-by-field
overrides (a profile names the server that its overrides result in).

### OverlaySync

`Begin` builds the projection (an input here: entries by provider); for each file
in turn `Render` reads and renders, `Apply` reads again and compares, `Install`
renames a complete temporary file.  JSON files are merged by key prefix, the Codex
file by region, with the region of the older sync taken over.  A JSON file is decoded
and encoded as a whole: what its owner has in it comes back as `Recoded`, a number
as the nearest float64, and what stands where an object of servers belongs without
being one (`misplaced`) is replaced by an empty object.  A file may be saved
by its owner between any two steps.

`overlay_sync`: each file implements `Publication`, so it is always as somebody
saved it or as one publish made it.  A publish writes back the owner's part that the run
saw, `Rewritten`: line by line in `config.toml`, recoded and without what was misplaced
in JSON, and rewriting twice is rewriting once.  An owner's save between reading and
writing is lost, and the abstract specification says so.  The inputs hold a number that
loses digits, and a value in the wrong place, around the servers and instead of them.
Publishing moves no line of `config.toml` to another table, with the exception of
`Exposed` regions as in `McpSync`.  A clean report means
that the projection is published and that another run would change nothing, unless
the region's end marker is missing.  `overlay_sync_unclosed` shows that exception:
the file is called up to date and is not.

### GlobalSync

One run of `codexkit-global-mcp` after another.  `ReadPolicy`, `ReadManifest`,
`ReadConfig`, `Discover` and `ReadSource` are the run's reads in their order, each
with its error return; `AssignExplicit`, `Propose`, `NextSuffix` and
`AssignDerived` are the two loops of `assignGlobalAliases` and the one of
`uniqueGlobalAlias`; `Plan`, `Truncate` and `Fill` put the region into the text and
write it.  A name is a sequence of pieces of text (a number is as many strokes), so that
joining, numbering and sanitizing do what they do in the code and different wishes meet in one name
(`web-a` of one repository and `a` of `web`; `a` and `a!`; `p-a-2` asked for and
`p-a` taken).  Repository names are single words without a dash.

`global_sync`: no two tables for one server name; the user's lines stay in their
tables; every server is written or reported as skipped, as the policy's rules for
repository and server demand; every run ends (weak fairness of the run's steps,
as above).  Five workspaces, six policies, three manifests and eight configs with
one edit, fault or crash give about 200 000 states.  Policy and manifest are read
once each and so are chosen at the start and then left alone.

`global_sync_rerun` refutes `ManagedIsKnown`, that a run knows the servers of the
region it finds: `extractServerNames` panics on any config in which a line begins
with `[mcp_servers.`, and the second sync meets the output of the first.  For the
same reason the set of reserved names is always empty, and what keeps a sync from
adding a second table beside one of the operator's own is that it panics.  A
server's table behind white space is not seen at all; such configs are not in
the model, nor is `[mcp_servers.x]` spelled with quotes.

Two workspace sources of one name (the workspace directory and a directory of the
same name in it) are not modelled (`SourcesAssumption`), nor are a server's launch settings, its
capability card and the order of the tables.

### Registry and McpServer

`Registry` is `registry.go`: `Refused` collects the reasons of `Register` in their
order, `Add` is what it does once none applies.  Names are compared trimmed and
stored as they are, so trimming is a function on names and not the identity; the
line-ups include a padded module name and a padded tool name.  `McpServer` extends
it with the process: main registers a line-up (`RegisterNext`, and a refusal ends
the program), then `Handle` is one turn of `Serve` up to the write, which is a step
of its own because it may have to wait for room in the pipe.  A message is a
framing and a body; what is not JSON, what is no header, a header cut short and a
body cut short each end as `readMessage` and `Serve` have it.  The sorted lists put in
each place the tool that has that many others before it by the rank of its name, or of
its namespace first, as `sort.Slice` leaves them.  A handler of another
package may answer, fail, answer what cannot be encoded, or panic.  The handlers of
the meta module (search, catalogue, schema) are modelled; texts are not.

`mcp_server` checks that list and map of the registry agree (`OneOwner`), that each message gets
the reply it is owed, in order and in its framing, that a walk along the cursors lists each tool
once and all of them, that a search leaves out only what its filters or its limit say, and that
every request is answered unless the program fails.  The page size is 2 and the tools are 5, so
that a walk has a full page behind the first and a rest; three messages, two of them other than
the walk, and pipes of one message let replies wait.  A search may name three tools and two
namespaces (64 and 16 in the code), and the one that is asked names as many.  Weak fairness of
the server's steps is the scheduling of one goroutine; weak fairness of `Receive` is a client
that reads. `OneOwner` claims one owner per name only while the tools' names are tidy: two
modules that each bring `"a "` would both be taken.  Ids are the numbers of the messages; a
client that uses an id twice is not modelled, nor a wrong Content-Length, after which the rest
of a body is read as the next message.

### FreezeGuard

A tree gives each path a content, a commit has a trailer and a tree.  `Judge` is
`judge` with the allowlists as constants, `Pending` what `mode_commit_msg` looks at,
`Passes` the verdict of `mode_history` on one commit.  `git` is external: commits
with and without `--no-verify`, `--allow-empty`, `--amend` with and without staged
changes, and a reset.  A file that moves with its content is listed under its new
path only, as `git diff --name-only` does.  History is the chain of first parents;
a merge is a commit that brings in its change against the first parent.

`freeze_guard` checks that nothing gets into a private path past the hook, that a
clean history has put nothing where no reason allows it, and that the hook and CI
agree on every commit that the hook saw whole.  Two commits (one to be amended on
top of another), four paths (one of each class) and two changes at a time give
about 2.7 million states; the proofs below need none of these bounds.

`freeze_guard_amend` refutes `HookedPasses`, that what the hook lets through is what
the documents promise.  The counterexample: commit `module.go` as
`public-boundary-compat`, stage `README.md`, amend as `deprecation-doc`.  The hook
judges the staged `README.md`, the commit holds both, and CI refuses it.

A second disagreement has no run: a comment in `mode_history` says that the hook
refuses to create a commit without changes, but it takes one for a reworded HEAD
and lets it through whenever HEAD's paths suit the trailer.  CI skips such a commit,
which `JudgedWholePasses` needs.

### The workspace

`Workspace` composes ten modules.  Its variables are what lies in the workspace: `tree` (a
checkout or nothing in each directory), `inputs` (catalog, parity inventory, matrix, `go.work`,
the root's servers), `policy` (the registries under `workspace/`), `day`, `manifest` and
`generating` (the manifest that a run is about to write), `docs` and `writing` (artifacts and
the run that writes one), and the notes of the cycle.  Its actions are the commands that write
and the world around them.  A manifest is computed (`StartManifest`), the file emptied
(`EmptyManifest`) and filled (`FinishManifest`), and the run may be killed at any point
(`StopManifest`), which leaves the old manifest or one that no command can read.  `Remedy`,
`RunCycle` with `FinishCycle`, and `StartArtifact` with `GoOnWriting` are the other commands;
`Change` and `EditNotes` are the world.  A command that only reads is no action but an operator
of the state, and the properties ask it in every state; so nothing is said of a reader that sees
half of a change, except for manifest and artifacts, which are written step by step.

* `BaselineGuard` follows `Check` check by check; a finding carries what its message
  names.  A checkout is a record of what the checks tell apart: which files exist,
  which parse, which of the looked-for phrases they hold, how each mirror stands and which
  directories are strays.  `Remedied` is what the two generators make of a checkout, in the
  terms that `SkillSync` and `McpSync` establish.  A manifest of skills that does not parse,
  or one target that is blocked, leaves every mirror as it is; any other error costs the
  mirrors of its skill and the purge of strays, and the other mirrors are written (`SkillErrors`,
  `Reached`).  An error of the servers leaves the config as it is.  A skill is judged by a
  validator in one of four modes (`Modes`, `Validators`): baseline, fleet audit and
  generator always use `auto`, the contract takes its mode as an option with `auto` as the
  default, and the surface index runs the contract with `off` unless it is told otherwise.
* `WorkspaceManifest` keeps the fields that some command decides by.  A directory may be listed
  twice in the catalog, be gone, or be decided about in two ways.  It also has the two operators
  that stand for the code's sorting and filtering, of manifest, audit and projections alike:
  `InOrder`, a finite set in the order of a key, and `Pick`, the elements of a sequence at
  certain positions.  Elements with the same key may come in either order, where the code goes
  by name; no property depends on it.
* `RepoReadiness` and `UnificationAudit` keep the numbers of the code (points, limits of
  14 and 90 days, lines), because their order and their thresholds decide.
* `UnificationCycle` gives notes numbers in the order of their names, which is how the
  code finds the newest.  Four history variables remember what no file does.
* `Artifacts` names a file by kind, name and extension.  A run builds once and then
  writes its files in place, JSON first: it may be stopped before a write or tear a file.
  The same run, with other contents, writes the indexes and the contract's report.
* `SourceContract` takes its options as in the command; the contract's artifacts ignore
  the overlay, as the code has it.  The saved report has the two artifacts in it as they
  were rebuilt and no stamp of its own, so it holds under the options of its run only,
  the validator mode among them.
* `SurfaceIndex` comes last of the generated files: a row says what the contract says, and
  the contract asks whether inventory and projection are up to date.  Its check passes on a
  faithful index of a workspace that fails.  The mode of its validator is in the file.
* `PrimitiveIndex` gives each file its class; a fault in a file that the workspace answers for
  fails the check, in any other it is a warning.  Files that the index does not look into are
  told apart by name only, instructions stand for all of them.  A directory called `vault`,
  `vendor` or the like, or with a name that begins with `s2f_`, is not walked into, though the
  runtime inventory takes servers from it, and a repository kept for reference is warned about
  only: `PrimitivesSeen` claims nothing of either.  Both limits were found when the proof asked
  for them.

The run `workspace` starts from a workspace in good order, with its manifest just generated,
and has eight scenarios:

* `judge`: two changes and a remedy; nearly seventy variants of a checkout that differ
  from good order in one respect each, five of the inputs, seven other policies, three dates on
  which something expires.
* `generate`: one change, which may be one of sixteen of the inputs, and a manifest that is
  written or whose run is killed on the way.
* `project`: one change that inventory or projection depend on, and a run that
  writes each, one of which may be spoiled, that is torn or stopped.
* `rewrite`: two runs of the inventory under two names in any of the three requests, with a
  change of the checkout or the day, at most one of them spoiled, so that each mixture of old,
  new and torn files comes about.
* `index` and `contract`: a run each of inventory, projection and surface index, or
  contract report, in every order, with one change that the indexes show, or the projection.
  The index is made with the validator modes `auto` and `off`, the report with `auto`, `off`
  and `pinned`, and one variant of the checkout has a skill that the host's validator rejects.
* `walk`: a primitive index, perhaps spoiled, over checkouts with settings, servers or
  hooks in every class and state, one kept for reference or in a directory that is not walked
  among them.
* `cycle`: two cycles, two items, two names in either order, with and without the gate.

Every command that takes an overlay is given none, one that fits and one that does not.
There are two repositories, a relocated checkout and two directories that the primitive index
skips; reports keep two shell files (12 in the code) and rank one repository (10), so that the
cut falls. One step of each sort at a time is enough for the properties of a single state; two
changes let one undo what the other did. That gives 10,331 states, in each of which every
report is computed. Deadlock is not checked: the bounded steps run out.
No liveness is claimed, because each command is started by somebody, once, and nothing obliges
anybody to.

| Property | What it shows |
|---|---|
| `TypeOK` | checkouts stay checkouts, artifacts stay under their names, a run never goes on behind its last file |
| `FreshManifestPasses` | generator and check disagree only when the inputs contradict each other, and always then |
| `CommandsRemedy` | the commands a failed report offers leave of their own findings only errors that the report named, and break no other check; the exception is a launcher of a profile that the generator lets through and the baseline does not, a wrapped `go run` or a `cwd` of `.` |
| `AutonomyIsSafe` | no repository reaches the lane without humans with something in it that waits for one, as far as git answers |
| `NothingForgotten` | an improvement note is applied, open where the next cycle looks, left by choice, or came too late |
| `VerdictsAgree` | baseline, contract and fleet audit say the same of one checkout, up to the exceptions named and to what their validators complain of, in every validator mode; no target is missed under an overlay, also one that does not fit, but for what the scan then skips; skills and tools pass exactly when the whole contract does |
| `CandidateUnlessCrowded` | where migration is recommended a file is named, unless the report's cut hides it |
| `DriftIsSeen` | an artifact, index or saved report whose check passes tells its readers what the workspace offers now, and the verdicts in it are still true: what it shows as kept the baseline finds no fault with, unless it was made in another validator mode and the baseline's validator complains |

Not in this model: a repository called `workspace`, which the runtime inventory could
not tell from the root; fleet modes that only begin like a known one; the spelling of
phrases, TOML and JSON.

### Disagreements met on the way

These have no run of their own; each is visible in the definitions named.

* The baseline's lifecycle check is described as silent about a registry that cannot be
  parsed (`baselineguard/guard.go:743`) and reports it (`PinFindings`).
* A managed worktree finds the model registry of the workspace but neither of the two other
  policies, and so passes those checks unlooked at (`NearBy`).
* `baseline check --all` falls back to a directory scan when the overlay does not fit;
  `workspace check` and the source contract refuse (`BaselineTargets`, `ContractRuns`).
* A repository without `surface.yaml` passes the baseline and fails the fleet audit, which
  makes the same exception for `.mcp.json` only (`FleetPasses`).
* The surface index runs the contract with the validator off, the baseline with `auto`: a skill
  that the validator rejects is shown as kept and fails the baseline (`BuildSurfaceIndex`).
* The sync takes a launch whose directory is `.` or whose `go run` is wrapped, from a profile or
  from `.mcp.json`, and writes it; the baseline finds fault with the result (`LetThrough`).
* When all generated servers are to go, the sync has something to do but no action to
  report: the baseline sees nothing, the contract fails (`McpReport`, `McpKept`).
* A missing `.codex/config.toml` is an error of the sync, whose command is offered and
  cannot help (`McpReport`, `SourcesResolve` in the proofs).
* The lane ignores unpushed commits, a git status that is not available and a
  maintenance-only lifecycle; a branch without commits is read as a branch called "No"
  (`LaneFor`, `BranchName`).
* The manifest's generator omits repositories that were removed from the baseline, and the
  check then reports them as missing unless they are archived (`DecisionFindings`).
* Of the cycle's notes only the newest by name is read: ids out of order hide what is
  open, and what is added while a cycle is under way is left behind (`waived`, `late`).
* A script of a few lines has roles that count as migratable and a score of nothing, so
  that no recommendation names it (`PriorityOf`).

## Proofs

`SkillSyncProofs` proves, for every set of names, texts, manifests and trees and
every bound on events:

* `TypeCorrect`: `TypeOK` is an invariant.
* `Invariance`: the inductive invariant.  `TypeOK` says nothing of how the locals
  relate, so it is strengthened: what the run is about to write is the rendering
  of what it read; its temporary file lies where the mirror's path leads, except after
  a number of swaps that depends on how far the run has come (`SwapInv`: created through a
  link takes one, past the second check two, led there again three); targets that were
  checked cover every output still to be written and stay valid until somebody edits.
* `NeverTorn` (`NoTornMirror`): only the rename puts content under a mirror's name,
  and by then the temporary file is complete.
* `ChecksFirst` (`OnlyCheckedPlansWrite`): rests on `AskedAreTargets`, that the
  separately computed list of targets covers the list of outputs.
* `SourcesSafe` (`SourcesSpared`): under `EveryRootUsed`, that every managed root
  has an output.  A rename through a link has three swaps behind it by `SwapInv`, a purge
  through a linked root has an edit behind it because the root's outputs were checked.
* `CleanRunHasMirrored` (`CleanRunMirrors`), `ChecksAreExact` (`CheckIsExact`) and
  `PurgesLast` (`PurgeComesLast`): none is inductive, since each speaks of the
  end of a run alone.  `RunInv` is the run's account of itself on the way there.  What is
  left in `todo` and `outs` is the rest of the plan and of the skill's outputs
  (`OrderInv`), so the outputs it is done with are positions in the plan (`Past`).
  While no error is reported, what is registered is exactly what those positions ask
  for and what is being written, none of it twice, and none of it a victim of the purge
  (`RegisteredInv`); if nobody edits meanwhile, what was read is what the sources hold
  (`ReadingInv`), what the run is done with is in place, or pending in a check (`MirroredInv`),
  and a managed root it has purged holds nothing but registered outputs and victims
  (`PurgedInv`).  At the end of the run no position is left, and the account says that the tree is
  current.  The converse half of `CheckIsExact` is `IdleInv`: where the tree is
  current a check finds nothing pending.  Two of the three need `EveryRootUsed`, because a purge that
  reaches the sources through a linked root leaves mirrors without a source;
  a check purges nothing, so `ChecksAreExact` needs no assumption.  Behaviours with edits,
  faults and crashes are all covered; that nobody edits is only asked of the run itself.

`MarkedRegionProofs` carries what three components need to know of `MarkedRegion` for texts
of any length, as lemmas.  Replacing the lines of a stretch by others keeps every own line
and its table if the lines around are alike and what comes behind is sheltered by a header
(`StretchReplaced`); from it follow `RegionReplaced`, `RegionRemoved`, `BlockAdded` (a block
put between two halves of a text, with blanks around), `Inserted` and `TrimKeeps`, one for
each operator of the code.  `ReplaceSettles`: replacing what was just replaced changes
nothing.  `Picked`, `AllPicked` and `ConcatIsSeq` say what selecting and concatenating give,
which takes a well-founded choice of the first position in place of an induction.

`McpSyncProofs` proves, for any number of overlapping runs and any servers, policies and
configs: `Typed` (`TypeOK`), `LinesKept` (`UserLinesKept`), `TrueReport` (`ReportIsTrue`),
`OwnerFirst` (`OwnerRespected`) and `SecondRunRests` (`Settles`).  The properties speak of
finished runs, so the invariant says, for each run, how its locals come from each other
(`Progress`), that they come from what is on the disk while nobody edits it (`UpToDate`),
and what the config is while no other run or user writes it (`Alone`).  `OwnerFirst` has an
invariant of its own (`OwnerInv`): what the policy says now is among the verdicts of every run
under way, one that got past the check of the owner has seen the policy say so, and the config
is untouched until the write.  A step of one run
leaves the locals of the others alone (`Resting`, `StepOf`), and what it writes ends their
`quiet`.

`OverlaySyncProofs` proves `Typed` (`TypeOK`), `CleanRunHasPublished` (`CleanRunPublishes`),
`TablesStay` (`TablesKept`, an action property) and the refinement `RunPublishesWhole`
(`PublishesWhole`): `Spec` implies `Publication` for each of the three files.  The invariant:
every `config.toml` is a text, `out` is the rendering of `read`, and while nobody else is at
work the wanted entries are the projection and a file that was passed as current or updated
is published.  For the refinement the abstract state of a file is the pair of its owner's
part and the shared one (`Parts`) and what the run has looked at; `RunSteps` and
`OtherSteps` show that every step is one of the abstract actions or a stutter
(`PublicationStep`), which hangs on `RenderedCodex` and `RenderedJson`: what is rendered
has the owner's part of what was read, rewritten as `Publication` says, and the wanted entries.

`GlobalSyncProofs` proves, for every workspace, policy, manifest and config and any number
of servers: `Typed` (`TypeOK`), `OneTableEach` (`OneTablePerServer`), `LinesKept`
(`UserLinesKept`) and `PolicyFirst` (`PolicyHonoured`).  The invariant has four parts.
`IInv`: aliases are injective (an alias is assigned only when it is not in use), and the text
a run goes on with names no server (or the run would have panicked).  `Named`: aliases, and the
name whose suffix is being sought, are bare, and every suffix tried so far is an alias in
use; different numbers make different names, so there are no more of them than candidates
(`Pigeons`), which is the bound on `suffix` in `TypeOK`.  `Rendered`: `out` is the text that
was read with the block put into it.  `Sorted`: each server of a source that was read is
among the candidates or the skipped as the policy says, and each of these comes from such a
server; with no source left to read that is `PolicyHonoured` (`SettledHonours`).  Here the
assumption that no two sources have one name is needed, which the code does not guarantee
(see `GlobalSync`).

`McpServerProofs` proves, for every line-up, all requests, and any sizes of pages, pipes and
sessions:

* `ListedRunsWhereListed` (`OneOwner`): a module that is not refused brings names that are
  neither in the map nor twice in the module, so what was listed before keeps its owner.  No
  strengthening is needed beyond the types of the list and of the modules still to come;
  `AddKeeps` follows each entry of the longer list to where it came from.
* `SessionTyped` (`TypeOK`), `RepliesInOrder` (`AnsweredInOrder`), `WalkIsComplete`
  (`WalkListsAll`) and `SearchesAreExact` (`SearchIsExact`), from one invariant of the
  session (`SessionInv`).  The pipe to the server holds the last messages that were sent, in
  order (`MessagesInv`); the i-th of the replies read, in the pipe and due is one of the
  answers to the i-th message that asks for one (`RepliesInv`), which a step that writes or
  reads only moves along; the walk has listed the names up to its cursor and has asked for
  what comes next (`WalkInv`).  Nothing is registered once the session has begun, so answers given
  earlier remain what the handlers would answer now (`AnswersStay`).  A reply that the walk takes
  for its page is the page, because ids are the numbers of the messages (`ReceiveKeeps`,
  `NamesJoin`).  That a sorted list has a tool in each place, and each of the tools it was made
  of, is a fact about finite sets under a strict total order (`Ranked`).  `RequestsAssumption`
  says that a limit is an int, which the code's type guarantees.

`FreezeGuardProofs` proves `HookKeepsPrivateOut` (`PrivateStaysOut`) and
`CleanHistoryIsAllowed` (`CleanMeansAllowed`).  Both speak of the last tree only and
are not inductive: an amend or a reset goes back to the tree before.  The
invariant therefore promises both of every beginning of the log (`Kept`), and
`OneMore` shows that a log with one commit after an old beginning keeps them,
whether that commit was added or replaces one.  The lemma under it, `Judged`, is
that a judged change leaves a path as it was, removes it, or may touch it, moves
included.

The same module proves `LogsAreLogs` (`TypeOK`; the bound on commits is an invariant of its
own, `BoundKept`) and `WholeCommitsPass` (`JudgedWholePasses`), which is inductive beside
the invariant above: a commit that was judged whole is one whose change the hook
saw, and what comes after it leaves the commits before it alone.

`WorkspaceProofs` proves all eight properties of the run `workspace`, for every scenario, every
set of directories, any overlays, policies and reports of any length, and every bound.  The
inductive invariant (`WorkspaceInvariant`) has three parts.  `WorldInv`: checkouts, inputs and
policies are what the properties need of them (finitely many files and servers,
sequences that are sequences), and an entry of the manifest is named after its directory
and equal to any other entry of that name, which comes from the generator (`GeneratedIsManifest`).
`ArtifactInv`: files and the run that writes them have a kind, a name and, but for the contract, a
day from 1 on as their stamp, so that nothing a check computes is what a torn file holds.
`CycleInv`: see below.  The first two say little, because these properties relate reports on one
state; the work is in the reports.

* `WorkspaceTypes` (`TypeOK`) is read off the invariant.
* `EveryCommandRemedies` (`CommandsRemedy`): the report is split into the findings that depend
  on what the generators write and the others (`ReportSplits`, `OtherChecks`), and the first are
  computed before and after, by the state of the sources.  A generator changes none of its
  sources (`SameSources`), so its errors stay (`ErrorsStay`) and the rest settles (`SkillsSettle`,
  `McpSettles`, `LaunchersStay`).
* `AllVerdictsAgree` (`VerdictsAgree`): `ContractOf` and `FleetOf` express each verdict by the
  baseline's findings, mode by mode: a complaint of the validator is an error
  (`ComplaintIsError`), and where no validator complains the modes report the same
  (`ValidatorsAgree`).  `AllTargetsJudged` follows the targets through an overlay or the scan.
* `NoUnsafeAutonomy` (`AutonomyIsSafe`) needs entries of one name to be equal, to get from a
  card to the entry it was made from.
* `AllDriftIsSeen` (`DriftIsSeen`): files that match are whole and have a rebuild in them
  (`MatchedFiles`), so that a reader's question is one about the rebuild.  Servers on offer are on
  the page (`OffersAreShown`); each entry of a projection comes from a server that its source
  still has and can start (`EntriesFollow`, by way of what concatenating and removing repeats
  keep: `FlattenHolds`, `EntriesHold`); rows of the surface index that pass are repositories the
  contract keeps, and so the baseline unless only its validator complains (`KeptIsJudged`,
  `IndexIsSeen`, `ContractsSeen`); a file that does not parse and
  is walked and answered for fails its index (`FileFails`).
* `FreshManifestsPass` (`FreshManifestPasses`): `GeneratedIs` says what `GenerateManifest` lists
  (the live directories that were not removed, each as often as the catalog has it, and once if
  it has it not), and then each check of the manifest finds fault with one of the ways in which
  inputs contradict each other (`FreshNames`, `FreshDirectories`, `FreshModules`, `FreshGoWork`,
  `FreshDecision`).
* `EveryCandidateFound` (`CandidateUnlessCrowded`): a repository that is ranked first is the
  first of the audit, because that is in the order of the scores (`TopIsFirst`); its files, if
  none is cut, hold one with a role of the audit's list, and that is one of the cycle's list
  (`KeptFits`), so that the first candidate is in that repository (`CandidateFound`).

Under these lie what the operators on data compute, for data of any size: a finite set has an
element with the least key and so an order (`LeastKey`, `OrderExists`, `InOrderIs`), positions are
picked in order (`PickIs`), and a recursive function on numbers exists and is what it says at each
step (`FoldExists`, `TotalIs`, `FlattenIs`).  A least counterexample takes the place of an induction.

`WorkspaceProofs` also proves `NotesAreNotes` (`CycleTypeOK`) and `NoNoteForgotten`
(`NothingForgotten`) for every set of names, items and repositories and any number of
cycles.  `NothingForgotten` speaks of the latest note, so `CycleInv` adds that there is one
(`HasLatest`; the names are numbers, but no bound on them is assumed) and that a gated
cycle under way carries nothing (`GatedIsClear`), which is why it may be written without
waiving what it passes.

Each theorem is proved as initiation, preservation with one step per action, and
implication; the temporal steps use PTL only.  The constants' assumptions are the
named ASSUMEs of `SkillSync`, `McpSync`, `OverlaySync`, `GlobalSync`, `Registry`,
`McpServer`, `FreezeGuard`, and of the workspace's modules, which TLC evaluates in the
passing run of each.  They say what kind of thing a file, a policy or a name is; two of
them are bounds of the model: `SourcesAssumption` of `GlobalSync` and `RootAssumption`.  Those of
the workspace:

| Assumption | Why the code justifies it |
|---|---|
| `FilesAssumption` | a file that is not there is not one that does not parse |
| `ValidatorsAssumption` | two programs may validate a skill, the host's and the pinned one |
| `DirsAssumption` | the directories of a workspace are finitely many |
| `ReposAssumption` | the names that a note may queue include those of the directories, from which they come |
| `RootAssumption` | no repository is called `workspace`; the code does not check it (see above) |
| `KeptAssumption` | the cuts of the reports are numbers, and one repository at least is ranked |
| `ScenarioAssumption` | what people may leave is a checkout, inputs or policies, with finitely many files, servers and entries; days are numbers from 1 |
| `CycleAssumption` | names of notes are numbers |

Only model-checked: liveness (`EveryRunEnds` of `SkillSync`, `RunEnds` of `GlobalSync`, `AllAnswered` of
`McpServer`), which the prover does not handle.  Every
invariant of a passing run, every action property and the refinement has a theorem.

## Not modelled

* `llmreduction` ranks repositories by a weighted sum of what the other audits found and
  lists candidates and a plan; `perfaudit` adds up sizes.  Neither keeps state and no
  command decides by their reports.
* `configindex` classes configuration files by what their paths and lines contain; it
  compares nothing with an earlier state and no command decides by it.
* Of the primitive index, the files it lists without looking into them (skills, commands,
  agents) and how a hook's command is resolved to a script; the tool modules of the indexes and reports,
  which call what is modelled.
* `workspace refresh-parity` starts a script.  Of the scripts, those that sync provider
  settings compare, skip files that git shows as changed, and replace the others;
  the rest start commands that are modelled or search for words.
* The installation of the freeze guard, a copy and a git setting.
* Previews of differences, capability cards, rendering and wording, the syntax of TOML and
  JSON, vendored code.
