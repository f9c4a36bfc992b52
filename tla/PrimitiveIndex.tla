--------------------------- MODULE PrimitiveIndex ---------------------------
(***************************************************************************)
(* The primitive index (package primitiveindex): every file in the workspace *)
(* that agents read, found by walking it, with what the file is to the       *)
(* workspace and whether it can be used.  In a file that somebody here       *)
(* answers for, a fault fails the check; in any other it is a warning.      *)
(*                                                                         *)
(* A file that a tool has marked as its own holds "generated".  The settings *)
(* hold "hooks" when they name one, and what is wrong with it, if anything:  *)
(* its script cannot be told or is not there.  Files that the index does not *)
(* look into are told apart by name only; instructions stand for all of them. *)
(***************************************************************************)
EXTENDS SourceContract

CONSTANTS
    S2fDirs     \* the directories whose names start with s2f_

SettingsFile == ".claude/settings.json"
OverlayFile == ".claude/settings.local.json"
InstructionFiles == {"AGENTS.md", "CLAUDE.md", "GEMINI.md", ".github/copilot-instructions.md"}
PrimitiveFiles == {SettingsFile, OverlayFile, ".mcp.json"} \cup InstructionFiles
NotWalked == {".tools", "node_modules", ".venv", "vendor", "third_party", ".graveyard",
              ".codex-worktrees", ".scratch", "vault", ".config"} \cup S2fDirs
\* A relocated checkout lies outside the workspace root.
Walked(tree) == {d \in Dirs \ (Linked \cup NotWalked) : Present(tree, d)}

(* What a file is to the workspace.  The servers at the root of a repository *)
(* are projected at run time whatever the manifest says of it; otherwise     *)
(* only what a baseline repository in active use has is its own.            *)
Unlisted == [scope |-> "", baseline |-> FALSE]
Reference(manifest, d) ==
    LET meta == LastOf(manifest, LAMBDA r : r.name = d, Unlisted)
    IN  meta.scope \in {"compatibility_only", "upstream_or_reference"} \/ ~meta.baseline
Class(manifest, d, c, f) ==
    IF f = OverlayFile THEN "local_overlay"
    ELSE IF f = ".mcp.json" THEN "runtime_projection"
    ELSE IF Reference(manifest, d) THEN "compatibility_reference"
    ELSE IF Says(c, f, "generated") THEN "generated_mirror" ELSE "canonical"
Blocking == {"canonical", "generated_mirror", "runtime_projection"}

(* What the index notes on a file: settings and servers that do not parse, a *)
(* file of servers without the key that they are listed under, settings of   *)
(* one's own that allow too much; and on a hook.  A hook whose target cannot *)
(* be told is a warning in any file.                                       *)
NotesOn(f) == CASE f = ".mcp.json" -> {"no servers key"} [] f = OverlayFile -> {"high risk"} [] OTHER -> {}
FileNotes(c, f) ==
    IF f \in {SettingsFile, OverlayFile, ".mcp.json"} /\ ~c.files[f].parses THEN {"does not parse"}
    ELSE {note \in NotesOn(f) : Says(c, f, note)}
Unclear == "hook target unclear"
HookNotes(c, f) == {note \in {"hook target missing", Unclear} : Says(c, f, note)}

Primitive(kind, d, f, class, notes, count) ==
    [kind |-> kind, repo |-> d, file |-> f, class |-> class, notes |-> notes, count |-> count,
     status |-> IF notes = {} THEN "pass"
                ELSE IF class \in Blocking /\ notes # {Unclear} THEN "fail" ELSE "warn"]

(* The primitives of a checkout: its files, and the hooks of its settings.   *)
FilesOf(manifest, d, c) ==
    {Primitive("file", d, f, Class(manifest, d, c, f), FileNotes(c, f),
               IF f = ".mcp.json" /\ FileNotes(c, f) = {} THEN Cardinality(c.servers) ELSE 0) :
        f \in PrimitiveFiles \cap DOMAIN c.files}
HooksOf(manifest, d, c) ==
    {Primitive("hook", d, f, Class(manifest, d, c, f), HookNotes(c, f), 0) :
        f \in {f \in {SettingsFile, OverlayFile} : Parses(c, f) /\ Says(c, f, "hooks")}}
RootPrimitives(in) ==
    When(in.root # Absent,
         {Primitive("file", RootName, ".mcp.json", "runtime_projection",
                    When(in.root = Broken, {"does not parse"}),
                    IF in.root = Broken THEN 0 ELSE Cardinality(in.root))})

(* The index needs a manifest, and an overlay that fits although nothing in  *)
(* it depends on where a repository was relocated to.                       *)
CanIndexPrimitives(overlay, manifest) == manifest # Absent /\ OverlayFits(manifest, overlay)
BuildPrimitiveIndex(in, manifest, tree) ==
    RootPrimitives(in)
    \cup UNION {FilesOf(manifest, d, tree[d]) \cup HooksOf(manifest, d, tree[d]) : d \in Walked(tree)}

(* The page shows all but the counts.                                       *)
PrimitivePage(index) ==
    {[kind |-> p.kind, repo |-> p.repo, file |-> p.file, class |-> p.class,
      notes |-> p.notes, status |-> p.status] : p \in index}

StartPrimitiveIndex(name, todo, day, overlay, in, manifest, tree) ==
    LET index == BuildPrimitiveIndex(in, manifest, tree) IN
    /\ CanIndexPrimitives(overlay, manifest)
    /\ StartSaving("primitives", name, todo, day, index, PrimitivePage(index))

PrimitiveIndexPasses(day, overlay, in, manifest, tree) ==
    LET index == BuildPrimitiveIndex(in, manifest, tree) IN
    /\ CanIndexPrimitives(overlay, manifest)
    /\ FilesMatch("primitives", index, PrimitivePage(index), day)
    /\ \A p \in index : p.status # "fail"
=============================================================================
