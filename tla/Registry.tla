------------------------------ MODULE Registry ------------------------------
(***************************************************************************)
(* The tool registry (registry.go): modules are registered one by one,     *)
(* each with its tools, and a tool is looked up by its name.  The registry *)
(* keeps the same tools twice, in a map for the calls and in a list for    *)
(* the catalogues.                                                         *)
(*                                                                         *)
(* A module is a record: its name, whether its Init succeeds, and its      *)
(* tools; a tool is its name and whether it is sound, that is, has a       *)
(* description, a handler and an object schema.  Names are compared with   *)
(* the white space around them removed, but kept as they are.              *)
(***************************************************************************)
EXTENDS Naturals, Sequences

CONSTANTS
    Trimmed,    \* of each name, the name without the white space around it
    Blank       \* the name of which nothing is left

ASSUME TrimmedAssumption ==
    \A n \in DOMAIN Trimmed :
        Trimmed[n] \in DOMAIN Trimmed /\ Trimmed[Trimmed[n]] = Trimmed[n]

VARIABLES
    modules,    \* the names of the registered modules, in order
    tools,      \* what a call of each name runs: the owning module
    ordered     \* the registered tools, each with its module's namespace

registry == <<modules, tools, ordered>>

NamesOf(m) == {m.tools[k].name : k \in DOMAIN m.tools}

NewRegistry ==
    /\ modules = <<>>
    /\ tools = [n \in {} |-> Blank]
    /\ ordered = <<>>

(* The k-th tool of m is at fault whatever else is registered. *)
Unfit(m, k) ==
    \/ Trimmed[m.tools[k].name] = Blank
    \/ ~m.tools[k].sound
    \/ \E j \in 1..(k - 1) : Trimmed[m.tools[j].name] = Trimmed[m.tools[k].name]

BadTool(m, k) == Unfit(m, k) \/ Trimmed[m.tools[k].name] \in DOMAIN tools

(* Another module has the name. *)
Taken(name) == \E i \in DOMAIN modules : modules[i] = name

Refused(m) ==
    \/ Trimmed[m.name] = Blank
    \/ Taken(Trimmed[m.name])
    \/ ~m.init
    \/ \E k \in DOMAIN m.tools : BadTool(m, k)

Add(m) ==
    /\ modules' = Append(modules, m.name)
    /\ tools' = [n \in DOMAIN tools \cup NamesOf(m) |->
                    IF n \in NamesOf(m) THEN m.name ELSE tools[n]]
    /\ ordered' = ordered \o [k \in DOMAIN m.tools |->
                    [namespace |-> Trimmed[m.name], name |-> m.tools[k].name]]

(* A module is added whole or not at all. *)
Register(m) == IF Refused(m) THEN UNCHANGED registry ELSE Add(m)

HasTool(name) == name \in DOMAIN tools

-----------------------------------------------------------------------------
RegistryTypeOK ==
    /\ modules \in Seq(DOMAIN Trimmed)
    /\ ordered \in Seq([namespace : DOMAIN Trimmed, name : DOMAIN Trimmed])
    /\ DOMAIN tools \subseteq DOMAIN Trimmed
    /\ \A n \in DOMAIN tools : tools[n] \in DOMAIN Trimmed

(* The names of the tools have no white space around them, as in every     *)
(* module of this repository.                                              *)
Tidy == \A i \in DOMAIN ordered : Trimmed[ordered[i].name] = ordered[i].name

(* The map and the list of tools agree: both have the same names; and if   *)
(* the names are tidy, a tool is listed once, and a call of it runs the    *)
(* module under whose namespace it is listed.                              *)
OneOwner ==
    /\ DOMAIN tools = {ordered[i].name : i \in DOMAIN ordered}
    /\ Tidy => \A i, j \in DOMAIN ordered :
                    ordered[i].name = ordered[j].name => i = j
    /\ Tidy => \A i \in DOMAIN ordered :
                    Trimmed[tools[ordered[i].name]] = ordered[i].namespace
=============================================================================
