---------------------------- MODULE MCGlobalSync ----------------------------
(* Small instances of GlobalSync: a workspace with two repositories whose    *)
(* server names collide in every way the aliasing has to undo, a policy per  *)
(* rule, and configs with the region absent, empty, filled and unfinished.   *)
EXTENDS GlobalSync, TLC

Word(w) == <<w>>
A == Word("a")
B == Word("b")
Note == <<"_", "note">>

Entry(name, status) == [name |-> name, status |-> status]
Ok(name) == Entry(name, "ready")
File(entries) == Loaded(entries)
Tree(root, api, web) ==
    [r \in Dirs |-> CASE r = Root -> root [] r = "api" -> api [] r = "web" -> web]

\* Everybody has an a; a server called web-a beside the a of web; a and "a!".
Same == Tree(File(<<Ok(Note), Ok(A)>>), File(<<Ok(A), Entry(B, "invalid")>>), File(<<Ok(A)>>))
Crossed == Tree(Absent, File(<<Ok(A), Ok(<<"web", "-", "a">>)>>), File(<<Ok(A), Ok(Word("@"))>>))
Similar == Tree(Absent, File(<<Ok(A), Ok(B)>>), File(<<Ok(<<"a", "@">>)>>))
Garbled == Tree(File(<<Ok(A)>>), File(<<Entry(B, "garbled")>>), File(<<Entry(A, "remote")>>))
Damaged == Tree(Absent, Broken, File(<<Ok(A)>>))

Rule(enabled, prefix) == [SilentRepo EXCEPT !.enabled = enabled, !.prefix = prefix]
Named(name) == [SilentServer EXCEPT !.alias = name]
Set(enabled) == [SilentServer EXCEPT !.enabled = enabled]

\* Two repositories with one prefix, and an explicit alias with the next suffix.
Prefixed ==
    [DefaultPolicy EXCEPT
        !.repos = [r \in {"api", "web"} |-> Rule("unset", Word("p"))],
        !.servers = <<"api", B>> :> Named(<<"p", "-", "a", "-">> \o Strokes(2))]
\* Two servers that ask for one alias.
Conflicting ==
    [DefaultPolicy EXCEPT
        !.servers = [s \in {<<"api", A>>, <<"web", A>>} |->
                        Named(IF s[1] = "api" THEN B ELSE <<"@", "b">>)]]
\* A repository that is switched on and lists b, whose a is switched on, one that the
\* manifest's scope leaves out, and no root.
Selective ==
    [DefaultPolicy EXCEPT
        !.includeRoot = FALSE, !.readyOnly = TRUE, !.allowUnlisted = FALSE,
        !.scopes = [include |-> {"active"}, exclude |-> {}],
        !.repos = "api" :> [Rule("yes", <<>>) EXCEPT !.include = {B}],
        !.servers = <<"api", A>> :> Set("yes")]
\* A repository and a server that are switched off; the root's own rule counts for
\* nothing.
Off ==
    [DefaultPolicy EXCEPT
        !.repos = [r \in {Root, "web"} |-> Rule("no", <<>>)],
        !.servers = <<"api", B>> :> Set("no")]

Listed == [r \in {"api", "web"} |->
              [scope |-> IF r = "web" THEN "active" ELSE "archived", category |-> "app"]]

Key(k) == <<"key", k>>
Table(t) == <<"table", t>>
Mcp(s, v) == <<"mcp", s, <<v>>>>

Plain == <<Key("model"), <<"indented", "tui">>, Key("theme"), Table("projects"), Key("trust"), Blank>>
Empty == <<Key("model"), StartMark(Region0), EndMark(Region0), Table("projects"), Key("trust")>>
Followed == <<Key("model"), StartMark(Region0), EndMark(Region0), Key("theme")>>
Filled0 == <<Key("model"), StartMark(Region0), Mcp(A, Root), EndMark(Region0)>>
Own == <<Key("model"), Mcp(A, Root)>>
Unclosed == <<EndMark(Region0), StartMark(Region0), Key("model")>>

MCRepos == <<"api", "web">>
MCPieces == {"studio", "api", "web", "a", "b", "p", "note", "mcp", "-", "_", "@", "|"}
MCWorkspaces == {Same, Crossed, Similar, Garbled, Damaged}
MCPolicies == {Absent, Broken} \cup {Loaded(p) : p \in {Prefixed, Conflicting, Selective, Off}}
MCManifests == {Absent, Broken, Loaded(Listed)}
MCConfigs == {Plain, Empty, Followed, Filled0, Own, Unclosed, <<Blank>>, <<>>}
MCLines ==
    UNION {{c[i] : i \in DOMAIN c} : c \in MCConfigs}

\* Everything a run needs is there.
RerunWorkspaces == {Same}
RerunPolicies == {Absent}
RerunManifests == {Absent}
RerunConfigs == {Plain}
=============================================================================
