---------------------------- MODULE Projections ----------------------------
(***************************************************************************)
(* What the runtime inventory and the global MCP projection (mcpsync) say   *)
(* of a workspace, how each is written as a JSON file and a Markdown page,   *)
(* and how the check compares the newest pair with the workspace.           *)
(*                                                                         *)
(* A server of .mcp.json has, beside the fields of BaselineGuard, found,    *)
(* whether its command exists, and card, the capability summary.  A         *)
(* checkout has profiles, the sequence in its profile policy: [stem, from,   *)
(* mode, launch, global, raw], launch = "inherited" where it overrides  *)
(* nothing, global being the providers that it asks for.  A stem and a name  *)
(* are sequences of words and "_" and "-" between them.                     *)
(*                                                                         *)
(* Which servers run globally is decided as in GlobalSync; the rules for     *)
(* single repositories and servers are here the pairs that they refuse, and  *)
(* the alias of a server, which GlobalSync assigns, is its repository and    *)
(* name.  The policy is [root, include, exclude, unlisted, ready, refused,   *)
(* allowed].                                                               *)
(***************************************************************************)
EXTENDS WorkspaceManifest

Kinds == {"inventory", "projection"}
Providers == {"codex", "claude", "gemini"}
Foundational == <<"systemd", "tmux", "process">>
RootName == "workspace"

(* The directory of that name holds the files of the workspace itself.       *)
ASSUME RootAssumption == RootName \notin Dirs

DefaultRules == [root |-> TRUE, include |-> {}, exclude |-> {}, unlisted |-> TRUE,
                 ready |-> FALSE, refused |-> {}, allowed |-> {}]
RulesOf(file) == IF file = Absent THEN DefaultRules ELSE file

-----------------------------------------------------------------------------
(* The dry run of the global sync: every directory with an .mcp.json, the   *)
(* root first.  A server is projected, or skipped for the first reason there *)
(* is.                                                                     *)
McpDirs(tree) == {d \in Dirs \ Linked : Present(tree, d) /\ Exists(tree[d], ".mcp.json")}
Status(s) == IF s.http THEN "remote" ELSE IF s.found THEN "ready" ELSE "invalid"
MetaOf(manifest, d) == LastOf(manifest, LAMBDA r : r.name = d, [scope |-> "", category |-> ""])

WhySkipped(rules, manifest, d, s) ==
    LET meta == MetaOf(manifest, d)
        refuse(condition, reason) == IF condition THEN <<reason>> ELSE <<>>
        listed == d \in Names(manifest)
    IN  refuse(~listed /\ ~rules.unlisted, "unlisted")
        \o refuse(listed /\ rules.include # {} /\ meta.scope \notin rules.include, "scope not included")
        \o refuse(listed /\ meta.scope \in rules.exclude, "scope excluded")
        \o refuse(<<d, s.name>> \in rules.refused, "refused")
        \o refuse(rules.ready /\ Status(s) # "ready", "not ready")

Served(repo, meta, s) ==
    [repo |-> repo, server |-> s.name, scope |-> meta.scope, category |-> meta.category,
     status |-> Status(s), card |-> s.card]
RootServers(rules, in) ==
    IF in.root = Absent \/ ~rules.root THEN {}
    ELSE {Served(RootName, [scope |-> "workspace_root", category |-> "workspace"], s) : s \in in.root}

Offered(tree) == {o \in UNION {{d} \X tree[d].servers : d \in McpDirs(tree)} : ~o[2].hidden}
RuntimeServers(in, rules, manifest, tree) ==
    RootServers(rules, in)
    \cup {Served(o[1], MetaOf(manifest, o[1]), o[2]) :
             o \in {o \in Offered(tree) : WhySkipped(rules, manifest, o[1], o[2]) = <<>>}}
Skipped(rules, manifest, tree) ==
    {[repo |-> o[1], server |-> o[2].name, scope |-> MetaOf(manifest, o[1]).scope,
      reason |-> WhySkipped(rules, manifest, o[1], o[2])[1], remote |-> Status(o[2]) = "remote"] :
        o \in {o \in Offered(tree) : WhySkipped(rules, manifest, o[1], o[2]) # <<>>}}

(* A skip is expected when the policy lists it, when the repository is there *)
(* for compatibility only, and when the server is not local.                *)
ExpectedSkip(rules, skip) ==
    \/ <<skip.repo, skip.server>> \in rules.allowed
    \/ skip.reason = "scope excluded" /\ skip.scope = "compatibility_only"
    \/ skip.reason = "not ready" /\ skip.remote

-----------------------------------------------------------------------------
(* The entries for the providers: the foundational servers of the root, then *)
(* the profiles of every baseline target.  The first entry of a name stays,  *)
(* every later one is a warning.                                           *)
ProviderName(provider, stem) ==
    IF provider = "gemini" THEN [i \in DOMAIN stem |-> IF stem[i] = "_" THEN "-" ELSE stem[i]] ELSE stem

Entry(provider, stem, repo, from, type, launch) ==
    [provider |-> provider, name |-> ProviderName(provider, stem), repo |-> repo, from |-> from,
     type |-> type, launch |-> launch]
EntriesFor(providers, stem, repo, from, type, launch) ==
    LET all == <<"codex", "claude", "gemini">>
        order == Pick(all, {i \in DOMAIN all : all[i] \in providers})
    IN  [i \in DOMAIN order |-> Entry(order[i], stem, repo, from, type, launch)]

RootEntries(in) ==
    IF in.root = Absent THEN <<>>
    ELSE LET found == Pick(Foundational, {i \in DOMAIN Foundational : HasServer(in.root, Foundational[i])}) IN
         FlattenSeq([i \in DOMAIN found |->
             EntriesFor(Providers, <<found[i]>>, RootName, found[i], "root_foundational",
                        ServerNamed(in.root, found[i]).launch)])

(* A profile for review or research goes to Claude and Gemini unasked, and   *)
(* so does a raw source, under the names of repository and server.          *)
Unasked(mode) == IF mode \in {"review", "research"} THEN {"claude", "gemini"} ELSE {}
ProfileEntries(repo, c, p) ==
    LET source == ServerNamed(c.servers, p.from).launch
    IN  EntriesFor(p.global \cup Unasked(p.mode), p.stem, repo, p.from, "profile", IF p.launch # "inherited" THEN p.launch ELSE source)
        \o (IF p.raw THEN EntriesFor({"claude", "gemini"}, <<repo, "_", p.from>>, repo, p.from, "raw_source", source)
            ELSE <<>>)

Profiled(manifest, tree) ==
    Pick(manifest, {j \in DOMAIN manifest :
        LET r == manifest[j] IN
        /\ r.baseline /\ Present(tree, r.at)
        /\ Exists(tree[r.at], ".mcp.json") /\ Exists(tree[r.at], ProfileFile)})
ProviderCandidates(in, manifest, tree) ==
    LET repos == Profiled(manifest, tree)
        of(r) == LET c == tree[r.at] IN
                 FlattenSeq([i \in DOMAIN c.profiles |-> ProfileEntries(r.name, c, c.profiles[i])])
    IN  RootEntries(in) \o FlattenSeq([i \in DOMAIN repos |-> of(repos[i])])

SameSlot(a, b) == a.provider = b.provider /\ a.name = b.name
IsRepeat(all, i) == \E j \in 1..(i - 1) : SameSlot(all[i], all[j])
FirstEntries(all) == {all[i] : i \in {i \in DOMAIN all : ~IsRepeat(all, i)}}
Warnings(all) == SelectSeq([i \in DOMAIN all |-> IF IsRepeat(all, i) THEN all[i] ELSE Absent],
                           LAMBDA e : e # Absent)

-----------------------------------------------------------------------------
(* The two artifacts.  Neither can be built without a manifest, with a file *)
(* that does not parse, or with a profile of a server that is not there.    *)
CountScope(manifest, scope) == Len(SelectSeq(manifest, LAMBDA r : r.scope = scope))
ManifestSummary(manifest) ==
    <<Len(manifest), CountScope(manifest, "active_operator"),
      CountScope(manifest, "active_first_party"), CountScope(manifest, "compatibility_only")>>

ProfilesFit(manifest, tree) ==
    \A i \in DOMAIN Profiled(manifest, tree) :
        LET c == tree[Profiled(manifest, tree)[i].at] IN
        /\ Parses(c, ".mcp.json") /\ Parses(c, ProfileFile)
        /\ \A p \in ToSet(c.profiles) : HasServer(c.servers, p.from)

CanBuild(kind, in, file, manifest, tree) ==
    /\ manifest # Absent /\ Broken \notin {file, in.root}
    /\ \A d \in McpDirs(tree) : Parses(tree[d], ".mcp.json")
    /\ kind = "projection" => ProfilesFit(manifest, tree)

Build(kind, in, file, manifest, tree) ==
    IF ~CanBuild(kind, in, file, manifest, tree) THEN Broken
    ELSE LET rules == RulesOf(file)
             all == ProviderCandidates(in, manifest, tree)
         IN  [kind |-> kind, manifest |-> ManifestSummary(manifest), rules |-> rules,
              servers |-> RuntimeServers(in, rules, manifest, tree),
              skipped |-> Skipped(rules, manifest, tree),
              entries |-> IF kind = "projection" THEN FirstEntries(all) ELSE {},
              warnings |-> IF kind = "projection" THEN Warnings(all) ELSE <<>>]

(* The Markdown page of an artifact, without capability cards, without most  *)
(* of the policy and, for the projection, without skips and how a server is  *)
(* launched.                                                               *)
PageServers(body) ==
    {[repo |-> s.repo, server |-> s.server, scope |-> s.scope, status |-> s.status] : s \in body.servers}
PageEntries(body) ==
    {[provider |-> e.provider, name |-> e.name, repo |-> e.repo, from |-> e.from, type |-> e.type] :
        e \in body.entries}
Page(body) ==
    IF body.kind = "inventory"
    THEN [manifest |-> body.manifest, servers |-> PageServers(body), skipped |-> body.skipped,
          scopes |-> <<body.rules.include, body.rules.exclude, body.rules.unlisted>>]
    ELSE [servers |-> PageServers(body), entries |-> PageEntries(body), warnings |-> body.warnings]
=============================================================================
