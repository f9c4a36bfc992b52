---------------------------- MODULE MCOverlaySync ----------------------------
(* Small instances of OverlaySync: two projections that differ in which       *)
(* servers they give to whom and in what they say of them, and settings files *)
(* with the shared part absent, current, stale, legacy, doubled or unclosed.  *)
EXTENDS OverlaySync

MCPrefixed == {"studio_a", "studio_b"}

First1 == [p \in Providers |-> IF p = "gemini" THEN <<>> ELSE <<<<"studio_a", "v1">>>>]
Second2 == [p \in Providers |->
    IF p = "codex" THEN <<<<"studio_a", "v2">>>>
    ELSE <<<<"studio_a", "v1">>, <<"studio_b", "v1">>>>]
MCProjections == {First1, Second2}

MCRecoded ==
    [v \in {"nothing", "settings", "digits", "rounded", "m", "v0", "v1"} |->
        IF v = "digits" THEN "rounded" ELSE v]

Json(canonical, rest, servers) ==
    [kind |-> "present",
     body |-> [canonical |-> canonical, rest |-> rest, misplaced |-> "nothing",
               servers |-> servers]]
Misplaced ==
    [kind |-> "present",
     body |-> [canonical |-> TRUE, rest |-> "settings", misplaced |-> "list", servers |-> {}]]
Toml(lines) == [kind |-> "present", body |-> lines]
Garbled == [kind |-> "garbled", body |-> NoBody("claude")]

Manual == <<"manual", "m">>
Key(k) == <<"key", k>>

Plain == <<Key("model"), Blank, <<"indented", "tui">>, Key("theme"), Blank>>
OnTop == <<<<"table", "projects">>, Key("trust")>>
Old == <<Key("model"), StartMark(Legacy), <<"mcp", "api", "v1">>, EndMark(Legacy), Key("stray")>>
Both == <<StartMark(Legacy), <<"mcp", "api", "v1">>, EndMark(Legacy), Key("model"),
          StartMark(Workspace), <<"mcp", "studio_a", "v1">>, EndMark(Workspace)>>
Bare == <<StartMark(Workspace), EndMark(Workspace), Key("model"), <<"table", "projects">>>>
Torn == <<Key("model"), StartMark(Workspace), <<"mcp", "studio_b", "v1">>>>

MCFiles == [p \in Providers |->
    CASE p = "claude" -> {Garbled, Json(FALSE, "digits", {Manual, <<"studio_b", "v0">>})}
      [] p = "codex"  -> {NoFile(p)} \cup {Toml(c) : c \in {Plain, OnTop, Old, Both, Bare, Torn}}
      [] p = "gemini" -> {NoFile(p), Misplaced, Json(TRUE, "settings", {<<"studio_a", "v0">>, <<"own", "digits">>})}]
=============================================================================
