-------------------------- MODULE UnificationCycle --------------------------
(***************************************************************************)
(* The unification cycle: each cycle writes a note, a Markdown file that    *)
(* people then work on, and starts from an earlier note, the one with the   *)
(* last file name unless another is named.  From it the cycle takes what is  *)
(* still open in the section "Improvement Notes For Next Cycle", and the     *)
(* baseline queue to compare with.  With --require-notes-applied it refuses *)
(* to start while something is open, unless that is acknowledged.  Between  *)
(* reading and writing the notes it does nothing that would keep people from *)
(* changing them, and without --write it stops there.                       *)
(*                                                                         *)
(* Notes are numbered in the order of their file names.  A note keeps       *)
(*   open      what is unchecked in the section for the next cycle          *)
(*   carried   what it lists as carried forward, in a section that no later *)
(*             cycle reads                                                 *)
(*   queue     the repositories that fail the baseline                      *)
(*   entered, left, unchanged: against the queue of the earlier note, and   *)
(*   known     whether there was one to compare with                       *)
(* Four variables remember what no file does: which items there have been,  *)
(* which were checked off, which were left behind by somebody's choice, and *)
(* which were written into a note while a cycle was under way.              *)
(***************************************************************************)
EXTENDS Naturals

CONSTANTS
    CycleIds,   \* the names of notes, as numbers in the order of the names
    Items,      \* improvement notes
    Repos       \* what a baseline queue may name

ASSUME CycleAssumption == CycleIds \subseteq Nat \ {0}

VARIABLES
    notes,      \* a function from the notes that exist to their contents
    building,   \* the cycle under way, as [id, gated, note], or NoCycle
    noted,      \* items that have been in a note
    applied,    \* items that were checked off
    waived,     \* items that a cycle went past, or hid, by choice
    late        \* items that a cycle went past because they came too late for it

cycleVars == <<notes, building, noted, applied, waived, late>>

NoNote == 0
NoCycle == [id |-> NoNote]
Unreadable == "cannot read the previous note"

(* The note with the last name, and whether a note is that one.             *)
IsLatest(n) == n \in DOMAIN notes /\ \A m \in DOMAIN notes : m <= n
Latest == IF DOMAIN notes = {} THEN NoNote ELSE CHOOSE n \in DOMAIN notes : IsLatest(n)

(* What is open in an earlier note: nothing without one, and a single line  *)
(* that says so when the file cannot be read.                               *)
OpenIn(n) == IF n = NoNote THEN {} ELSE IF n \in DOMAIN notes THEN notes[n].open ELSE {Unreadable}

Known(n) == n \in DOMAIN notes
QueueOf(n) == IF Known(n) THEN notes[n].queue ELSE {}

NewNote(previous, queue) ==
    [open |-> {}, carried |-> OpenIn(previous), queue |-> queue, known |-> Known(previous),
     entered |-> IF Known(previous) THEN queue \ QueueOf(previous) ELSE {},
     left |-> QueueOf(previous) \ queue,
     unchanged |-> QueueOf(previous) \cap queue]

(* Mutant: --require-notes-applied asks for nothing.                        *)
GateIgnored(previous, required, acknowledged) == TRUE

(* --require-notes-applied, without --ack-carry-forward.                    *)
GateOpen(previous, required, acknowledged) ==
    required /\ OpenIn(previous) # {} => acknowledged

(* A cycle starts: it reads the earlier note, the latest unless another is   *)
(* named, and builds its own.  It is gated when it makes sure that nothing   *)
(* is open in the latest.                                                   *)
BuildCycle(id, previous, required, acknowledged, queue) ==
    /\ building = NoCycle
    /\ previous = NoNote => Latest = NoNote
    /\ GateOpen(previous, required, acknowledged)
    /\ building' = [id |-> id, gated |-> required /\ ~acknowledged /\ previous = Latest,
                    note |-> NewNote(previous, queue)]
    /\ UNCHANGED <<notes, noted, applied, waived, late>>

(* It writes its note, over one of the same name if there is one, with one   *)
(* item to begin with: to improve something.  Under a name before the latest *)
(* that item is hidden; otherwise what is open in the latest is left behind, *)
(* unless the cycle was gated and read it all.                              *)
WriteNote(item) ==
    /\ building # NoCycle
    /\ item \notin noted
    /\ notes' = [n \in DOMAIN notes \cup {building.id} |->
                    IF n = building.id THEN [building.note EXCEPT !.open = {item}] ELSE notes[n]]
    /\ noted' = noted \cup {item}
    /\ waived' = waived \cup (IF building.id < Latest THEN {item}
                              ELSE IF building.gated THEN {} ELSE OpenIn(Latest))
    /\ late' = late \cup (IF building.id < Latest THEN {} ELSE OpenIn(Latest) \ building.note.carried)
    /\ building' = NoCycle
    /\ UNCHANGED applied

(* Without --write, or when it is killed, it leaves no note.                 *)
DropCycle ==
    /\ building # NoCycle
    /\ building' = NoCycle
    /\ UNCHANGED <<notes, noted, applied, waived, late>>

(* People add an item to the latest note and check items off in any.        *)
AddItem(item) ==
    /\ item \notin noted
    /\ Latest # NoNote
    /\ notes' = [notes EXCEPT ![Latest].open = @ \cup {item}]
    /\ noted' = noted \cup {item}
    /\ UNCHANGED <<building, applied, waived, late>>

CheckOff(n, item) ==
    /\ n \in DOMAIN notes
    /\ item \in notes[n].open
    /\ notes' = [notes EXCEPT ![n].open = @ \ {item}]
    /\ applied' = applied \cup {item}
    /\ UNCHANGED <<building, noted, waived, late>>

CycleInit ==
    /\ notes = [n \in {} |-> {}] /\ building = NoCycle
    /\ noted = {} /\ applied = {} /\ waived = {} /\ late = {}

CycleNext ==
    \/ \E id \in CycleIds, previous \in CycleIds \cup {NoNote}, required, acknowledged \in BOOLEAN,
          queue \in SUBSET Repos : BuildCycle(id, previous, required, acknowledged, queue)
    \/ \E item \in Items : WriteNote(item)
    \/ DropCycle
    \/ \E item \in Items : AddItem(item)
    \/ \E n \in CycleIds, item \in Items : CheckOff(n, item)

CycleSpec == CycleInit /\ [][CycleNext]_cycleVars

-----------------------------------------------------------------------------
NoteType ==
    [open : SUBSET Items, carried : SUBSET (Items \cup {Unreadable}), queue : SUBSET Repos,
     known : BOOLEAN, entered : SUBSET Repos, left : SUBSET Repos, unchanged : SUBSET Repos]

CycleTypeOK ==
    /\ DOMAIN notes \subseteq CycleIds
    /\ \A n \in DOMAIN notes : notes[n] \in NoteType
    /\ building \in {NoCycle} \cup [id : CycleIds, gated : BOOLEAN, note : NoteType]
    /\ noted \subseteq Items
    /\ applied \subseteq Items
    /\ waived \subseteq Items
    /\ late \subseteq Items

(* No improvement note is forgotten unnoticed, however many cycles run and   *)
(* whatever the notes are called: what was ever noted is checked off, or      *)
(* open in the latest note, where the next cycle looks, or was left behind    *)
(* by choice, or was written into a note that a cycle had already read (the   *)
(* gate of BuildCycle, which reads one note only).                           *)
NothingForgotten == noted \subseteq applied \cup waived \cup late \cup OpenIn(Latest)
=============================================================================
