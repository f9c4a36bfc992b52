------------------------------ MODULE MCMcpSync ------------------------------
(* Small instances of McpSync: two servers and one example entry, a policy    *)
(* per way of going wrong, and configs with the region absent, present,       *)
(* unfinished, and next to tables of the user's own.                          *)
EXTENDS McpSync

CONSTANTS cli, tool

MCNames == <<"_example", "api", "db">>
MCTexts == {"v1", "v2"}

Server(v) == [text |-> v, launch |-> "portable", codex |-> TRUE]
Example == [text |-> "v1", launch |-> "empty", codex |-> TRUE]

OneServer == [n \in {"_example", "api"} |-> IF n = "api" THEN Server("v1") ELSE Example]
TwoServers == [n \in {"api", "db"} |-> IF n = "api" THEN Server("v2")
                                       ELSE [Server("v1") EXCEPT !.codex = FALSE]]
BadLaunch == [n \in {"api"} |-> [Server("v1") EXCEPT !.launch = "escapes"]]

Profile(name, from, override) ==
    [name |-> name, from |-> from, selection |-> TRUE, override |-> override]
Policy(profiles) ==
    [exists |-> TRUE, parses |-> TRUE, owned |-> FALSE, version |-> 1, profiles |-> profiles]
NoPolicy == [Policy(<<>>) EXCEPT !.exists = FALSE]
Owned == [Policy(<<Profile("api", "api", <<>>)>>) EXCEPT !.owned = TRUE]
Garbled == [Policy(<<>>) EXCEPT !.parses = FALSE]
Curated == Policy(<<Profile("db", "api", <<Server("v2")>>), Profile("api", "api", <<>>)>>)
Twice == Policy(<<Profile("api", "api", <<>>), Profile("api", "api", <<>>)>>)

Key(k) == <<"key", k>>
Table(t) == <<"table", t>>
Indented(t) == <<"indented", t>>
Mcp(s, v) == <<"mcp", s, v>>

Plain == <<Key("model"), Indented("tui"), Key("theme"), Table("projects"), Key("trust")>>
Region1 == <<Key("model"), Blank, StartMark(Region0), Mcp("db", "v1"), EndMark(Region0),
             Key("stray"), Table("projects"), Key("trust")>>
OwnTable == <<StartMark(Region0), Mcp("api", "v1"), EndMark(Region0), Mcp("own", "v1")>>
Emptied == <<StartMark(Region0), EndMark(Region0), Key("model"), Table("projects")>>
Unclosed == <<Key("model"), EndMark(Region0), StartMark(Region0), Mcp("api", "v1")>>

MCLines ==
    {Blank, StartMark(Region0), EndMark(Region0), Key("model"), Key("theme"), Key("trust"),
     Key("stray"), Indented("tui"), Table("projects")}
    \cup ({"mcp"} \X ({MCNames[i] : i \in 1..3} \cup {"own"}) \X MCTexts)

MCMcpFiles == {OneServer, TwoServers, BadLaunch, NoServers}
MCPolicies == {NoPolicy, Owned, Garbled, Curated, Twice}
MCConfigs == {Plain, Region1, OwnTable, Emptied, Unclosed, <<Blank>>}

\* Nobody but the runs writes, and every one of them could succeed.
OverlapMcpFiles == {OneServer}
OverlapPolicies == {NoPolicy}
OverlapConfigs == {Plain}
=============================================================================
