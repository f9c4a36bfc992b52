----------------------------- MODULE Artifacts -----------------------------
(***************************************************************************)
(* The generated artifacts on disk: docs maps each file that exists, named   *)
(* by [kind, name, ext], to its stamp and contents.  A run builds one        *)
(* artifact from the workspace and then writes the files it was asked for,   *)
(* the JSON file first, each in place: it may stop before, in the middle of, *)
(* or between two writes, and the workspace may change meanwhile.  Names    *)
(* are numbers in the order in which Glob sorts the file names; they need    *)
(* not follow the days on which the artifacts were built.                   *)
(***************************************************************************)
EXTENDS Projections

CONSTANTS
    ArtifactNames   \* the names that artifacts are written under

VARIABLES
    docs,       \* a function from the files that exist to [stamp, body]
    writing     \* the run that writes: what it has built and still to write, or NoRun

artifactVars == <<docs, writing>>

NoRun == [todo |-> <<>>]
Torn == [stamp |-> 0, body |-> Broken]
File(kind, name, ext) == [kind |-> kind, name |-> name, ext |-> ext]
Requests == {<<"json", "md">>, <<"json">>, <<"md">>}

(* A run for the files in todo: what is to be in the JSON file, and what on  *)
(* the page.  The two artifacts of Projections are built from the workspace. *)
StartSaving(kind, name, todo, day, body, page) ==
    /\ writing = NoRun
    /\ writing' = [kind |-> kind, name |-> name, stamp |-> day, todo |-> todo,
                   contents |-> [json |-> body, md |-> page]]
    /\ UNCHANGED docs

StartWriting(kind, name, todo, day, in, file, manifest, tree) ==
    LET body == Build(kind, in, file, manifest, tree) IN
    CanBuild(kind, in, file, manifest, tree) /\ StartSaving(kind, name, todo, day, body, Page(body))

NextFile == File(writing.kind, writing.name, Head(writing.todo))
NextContents == [stamp |-> writing.stamp, body |-> writing.contents[Head(writing.todo)]]
Put(f, contents) == docs' = [g \in DOMAIN docs \cup {f} |-> IF g = f THEN contents ELSE docs[g]]
Stop == writing' = NoRun

(* A mutant of the next: the run goes on behind its last file.              *)
WriteAndGoOn ==
    /\ writing # NoRun
    /\ Put(NextFile, NextContents)
    /\ writing' = [writing EXCEPT !.todo = Tail(@)]

WriteFile ==
    /\ writing # NoRun
    /\ Put(NextFile, NextContents)
    /\ IF Len(writing.todo) = 1 THEN Stop ELSE writing' = [writing EXCEPT !.todo = Tail(@)]

TearFile == writing # NoRun /\ Put(NextFile, Torn) /\ Stop
StopWriting == writing # NoRun /\ Stop /\ UNCHANGED docs

-----------------------------------------------------------------------------
(* The check: the newest JSON file by name, and the page that goes with it   *)
(* or, without a JSON file, the newest page.                                *)
NamesOf(kind, ext) == {n \in ArtifactNames : File(kind, n, ext) \in DOMAIN docs}
NewestOf(kind, ext) ==
    LET names == NamesOf(kind, ext)
    IN  IF names = {} THEN 0 ELSE CHOOSE n \in names : \A m \in names : m <= n
CheckedPage(kind) ==
    LET newest == NewestOf(kind, "json") IN
    File(kind, IF newest # 0 THEN newest ELSE NewestOf(kind, "md"), "md")
CheckedJson(kind) == File(kind, NewestOf(kind, "json"), "json")

(* The artifact is rebuilt under the stamp of the JSON file, or else under   *)
(* today's, and both files must come out as they are.                       *)
StampOf(kind, day) ==
    IF CheckedJson(kind) \in DOMAIN docs /\ docs[CheckedJson(kind)] # Torn
    THEN docs[CheckedJson(kind)].stamp ELSE day
Matches(f, contents) == f \in DOMAIN docs /\ docs[f] = contents

(* A mutant of the next: of the JSON file only the stamp is looked at.       *)
FilesMatchInPrint(kind, body, page, day) ==
    /\ CheckedJson(kind) \in DOMAIN docs
    /\ docs[CheckedJson(kind)].stamp = StampOf(kind, day)
    /\ Matches(CheckedPage(kind), [stamp |-> StampOf(kind, day), body |-> page])

FilesMatch(kind, body, page, day) ==
    /\ Matches(CheckedJson(kind), [stamp |-> StampOf(kind, day), body |-> body])
    /\ Matches(CheckedPage(kind), [stamp |-> StampOf(kind, day), body |-> page])

(* What else a check asks: that every server can be launched and, of the     *)
(* inventory, that no server is skipped that should not be.                 *)
Launchable(body) == \A s \in body.servers : s.status # "invalid"
SkipsExpected(body) == body.kind = "inventory" => \A k \in body.skipped : ExpectedSkip(body.rules, k)

ArtifactsPass(kind, day, in, file, manifest, tree) ==
    LET body == Build(kind, in, file, manifest, tree) IN
    /\ CanBuild(kind, in, file, manifest, tree)
    /\ FilesMatch(kind, body, Page(body), day)
    /\ Launchable(body) /\ SkipsExpected(body)

ArtifactInit == docs = [f \in {} |-> {}] /\ writing = NoRun
=============================================================================
