---------------------------- MODULE MCMcpServer -----------------------------
(* A small catalogue for TLC: line-ups that main can serve, and line-ups   *)
(* that the registry refuses, for each reason it has.                      *)
EXTENDS McpServer, TLC

Padded == ("a " :> "a") @@ ("alpha " :> "alpha")
Plain == {"", "a", "b", "c", "alpha", "beta", "codexkit",
          "tool_search", "tool_schema"}
TrimmedNames == Padded @@ [n \in Plain |-> n]
RankOfNames ==
    "" :> 0 @@ "a" :> 1 @@ "a " :> 2 @@ "alpha" :> 3 @@ "alpha " :> 4 @@
    "b" :> 5 @@ "beta" :> 6 @@ "c" :> 7 @@ "codexkit" :> 8 @@
    "tool_schema" :> 9 @@ "tool_search" :> 10

Module(name, toolNames) ==
    [name |-> name, init |-> TRUE,
     tools |-> [i \in DOMAIN toolNames |-> [name |-> toolNames[i], sound |-> TRUE]]]
Meta == Module("codexkit", <<"tool_search", "tool_schema">>)
Alpha == Module("alpha", <<"b", "a">>)
Beta == Module("beta", <<"c">>)
NoInit == [Beta EXCEPT !.init = FALSE]
Unsound == [Alpha EXCEPT !.tools[2].sound = FALSE]

Served == <<Beta, Alpha, Meta>>
Lineup == {Served,
    <<Alpha, Module("beta", <<"c", "a">>)>>,    \* a name of another module
    <<Beta, Module("alpha", <<"b", "b">>)>>,    \* twice in one module
    <<Beta, Module("alpha", <<"b", "">>)>>,
    <<Beta, Module("", <<"b">>)>>,
    <<Beta, Module("alpha ", <<"b">>), Module("alpha", <<"a">>), Meta>>,
    <<Alpha, Module("alpha ", <<"c">>)>>,
    <<Module("alpha", <<"a ">>), Module("beta", <<"a">>)>>,
    <<Beta, NoInit>>, <<Beta, Unsound>>}

Query == [query |-> "q", namespaces |-> <<"alpha", "beta">>,
          allowed |-> <<"b", "c", "tool_search">>, limit |-> 1]
HitsOfQuery == "q" :> {"b", "c", "tool_search"}

Tool(name, arguments) ==
    [method |-> "tools/call", params |-> [name |-> name, arguments |-> arguments]]
Asked ==
    {[method |-> "ping", params |-> None],
     [method |-> "tools/list", params |-> 9],
     [method |-> "resources/read", params |-> "overview"],
     [method |-> "other", params |-> None],
     Tool("a", None), Tool("d", None),
     Tool("tool_search", Query), Tool("tool_schema", "a")}
=============================================================================
