----------------------------- MODULE Publication -----------------------------
(***************************************************************************)
(* What a program that keeps a part of another program's settings file     *)
(* promises: the file is at any time as its owner saved it or as a publish *)
(* made it, and a publish replaces the shared part and writes back the     *)
(* owner's part that it looked at, once and for all in the publisher's own *)
(* writing.  That part may be out of date by then: nothing locks the file. *)
(* Where the shared part cannot be told from the owner's, the publish puts *)
(* back all that it looked at.                                             *)
(***************************************************************************)
CONSTANTS
    Saved,  \* pairs of an owner's part and a shared part that may be saved
    Wanted, \* what may have to be published
    Rewritten(_) \* what the publisher's writing makes of an owner's part

VARIABLES
    own,    \* the owner's part of the file
    shared, \* the published part
    looked  \* the two parts as the publisher last looked at them, or empty

vars == <<own, shared, looked>>

Init == <<own, shared>> \in Saved /\ looked = <<>>

Save == <<own', shared'>> \in Saved /\ UNCHANGED looked

Look == looked' = <<own, shared>> /\ UNCHANGED <<own, shared>>

Write(part) ==
    /\ looked # <<>>
    /\ own' = Rewritten(looked[1]) /\ shared' = part
    /\ looked' = <<>>
Publish == \E w \in Wanted : Write(w)
PutBack == looked # <<>> /\ Write(looked[2])

GiveUp == looked' = <<>> /\ UNCHANGED <<own, shared>>

Next == Save \/ Look \/ Publish \/ PutBack \/ GiveUp

Spec == Init /\ [][Next]_vars
=============================================================================
