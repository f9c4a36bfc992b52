----------------------------- MODULE McpServer ------------------------------
(***************************************************************************)
(* The program codexkit-mcp: it registers its modules, then answers the    *)
(* requests of one client over two pipes, one at a time, until the client  *)
(* closes its end or sends what cannot be read as a message               *)
(* (mcpserver/server.go, mcpserver/meta_module.go, cmd/codexkit-mcp).      *)
(*                                                                         *)
(* A message is what the pipe delivers between two calls of readMessage:   *)
(* a framing (legacy lines or Content-Length headers) and a body.  The     *)
(* client sends any of the constant requests, and it walks the pages of    *)
(* tools/list, each page asked for with the cursor of the one before.      *)
(***************************************************************************)
EXTENDS Registry, Integers, FiniteSets

CONSTANTS
    Lineups,        \* sequences of modules, as main lists them
    Requests,       \* what the client may ask: [method, params]
    Readable,       \* the resources and prompts there are
    Rank,           \* the place of each name in the order of strings
    Hits,           \* of each query, the names of the tools it matches
    PageSize,       \* toolsListPageSize
    DefaultLimit, MaxLimit, \* the bounds of what a tool search finds
    MaxAllowed, MaxNamespaces,      \* the bounds of its two filters
    PipeSize,       \* messages that a pipe holds
    MaxMessages,    \* messages of the client, and how many of them may be
    MaxOthers,      \* other than its walk: bounds of the model
    None,           \* no cursor, no id, no parameters
    Malformed       \* parameters that are of another type than they should

ASSUME SizesAssumption ==
    /\ PageSize \in Nat \ {0} /\ PipeSize \in Nat \ {0}
    /\ DefaultLimit \in 1..MaxLimit

Modules ==
    [name : DOMAIN Trimmed, init : BOOLEAN,
     tools : Seq([name : DOMAIN Trimmed, sound : BOOLEAN])]

ASSUME LineupsAssumption == Lineups \subseteq Seq(Modules)

(* Parameters of a call that are meant for a search. *)
IsSearch(params) ==
    /\ params \notin {None, Malformed}
    /\ params.name \in {"tool_catalog", "tool_search"}
    /\ params.arguments \notin {None, Malformed}

(* A request is none of the two bodies that are no request, and the limit  *)
(* of a search is an int.                                                  *)
ASSUME RequestsAssumption ==
    \A r \in Requests :
        /\ r.method \notin {"junk", "no header"}
        /\ r.method = "tools/call" /\ IsSearch(r.params) => r.params.arguments.limit \in Int

ASSUME NamesAssumption == Rank \in [DOMAIN Trimmed -> Nat] /\ None \notin Nat

VARIABLES
    stage,      \* "registering", "serving", "ended" or "failed"
    pending,    \* modules that main has yet to register
    sent,       \* all messages of the client, by their number
    inbox,      \* numbers of the messages in the pipe to the server
    closed,     \* how the client closed the pipe: "no", "clean", "in body"
    due,        \* the reply that is yet to be written, if there is one
    outbox,     \* the replies in the pipe to the client
    got,        \* the replies that the client has read
    walk        \* the walk over the pages: what to ask next, what it listed

pipes == <<sent, inbox, closed, outbox, got, walk>>
vars == <<registry, stage, pending, due, pipes>>

Framings == {"legacy", "framed"}

(* Bodies that are no request: not JSON, or not even a header. *)
Junk == [method |-> "junk", params |-> None]
NoHeader == [method |-> "no header", params |-> None]

-----------------------------------------------------------------------------
(* What the handlers answer *)

Error(code) == [error |-> code]
ParseError == Error(-32700)
NoMethod == Error(-32601)
InvalidParams == Error(-32602)
Unencodable == Error(-32603)
Failed == [error |-> -32000, unknown |-> FALSE]
Unknown == [error |-> -32000, unknown |-> TRUE]
Panic == [panic |-> TRUE]

Least(a, b) == IF a < b THEN a ELSE b

(* The list is sorted by the names of the tools, or by their namespaces    *)
(* first; where both are the same it does not matter which tool is first.  *)
NameBefore(j, k) ==
    LET a == Rank[ordered[j].name]
        b == Rank[ordered[k].name]
    IN  a < b \/ (a = b /\ j < k)
NamespaceBefore(j, k) ==
    LET a == Rank[ordered[j].namespace]
        b == Rank[ordered[k].namespace]
    IN  a < b \/ (a = b /\ NameBefore(j, k))

(* A sorted list has in place i the tool that has i - 1 others before it.  *)
ByName ==
    [i \in DOMAIN ordered |->
        ordered[CHOOSE k \in DOMAIN ordered :
                    Cardinality({j \in DOMAIN ordered : NameBefore(j, k)}) = i - 1]]

ByNamespace(places) ==
    [i \in 1..Cardinality(places) |->
        ordered[CHOOSE k \in places :
                    Cardinality({j \in places : NamespaceBefore(j, k)}) = i - 1]]

NamesFrom(start, end) == [i \in 1..(end - start) |-> ByName[start + i].name]

(* Two slips at the end of a page. *)
PageInclusive(start) ==
    LET end == Least(start + PageSize, Len(ordered))
    IN  [tools |-> NamesFrom(start, end),
         next  |-> IF end < Len(ordered) THEN end + 1 ELSE None]
PageOpenEnded(start) ==
    LET end == Least(start + PageSize, Len(ordered))
    IN  [tools |-> NamesFrom(start, end),
         next  |-> IF end <= Len(ordered) THEN end ELSE None]

(* One page of the tools, and the cursor of the next if there is one. *)
Page(start) ==
    LET end == Least(start + PageSize, Len(ordered))
    IN  [tools |-> NamesFrom(start, end),
         next  |-> IF end < Len(ordered) THEN end ELSE None]

ListTools(cursor) ==
    IF cursor = None THEN Page(0)
    ELSE IF cursor \in 0..Len(ordered) THEN Page(cursor)
    ELSE InvalidParams

(* A filter of a search: a list without repetition, empty for no filter. *)
Bounded(filter, most) ==
    /\ Len(filter) <= most
    /\ \A i \in DOMAIN filter : Trimmed[filter[i]] # Blank
    /\ \A i, j \in DOMAIN filter :
            Trimmed[filter[i]] = Trimmed[filter[j]] => i = j

Admits(filter, name) ==
    filter = <<>> \/ \E i \in DOMAIN filter : Trimmed[filter[i]] = name

Found(p, entry) ==
    /\ Admits(p.allowed, entry.name)
    /\ Admits(p.namespaces, entry.namespace)
    /\ p.query = None \/ entry.name \in Hits[p.query]

Limit(p) == IF p.limit <= 0 THEN DefaultLimit ELSE p.limit

Accepted(p) ==
    /\ Bounded(p.allowed, MaxAllowed) /\ Bounded(p.namespaces, MaxNamespaces)
    /\ Limit(p) <= MaxLimit

(* Cuts the list before it filters it. *)
SearchAmongFirst(p) ==
    LET all == ByNamespace(DOMAIN ordered)
        first == SubSeq(all, 1, Least(Limit(p), Len(all)))
    IN  IF Accepted(p) THEN [found |-> SelectSeq(first, LAMBDA e : Found(p, e))]
        ELSE Failed

Search(p) ==
    LET found == ByNamespace({k \in DOMAIN ordered : Found(p, ordered[k])})
    IN  IF Accepted(p) THEN [found |-> SubSeq(found, 1, Least(Limit(p), Len(found)))]
        ELSE Failed

NoFilter == [query |-> None, namespaces |-> <<>>, allowed |-> <<>>, limit |-> 0]

SchemaOf(name) ==
    LET places == {i \in DOMAIN ordered : ordered[i].name = name}
    IN  IF places = {} THEN Unknown
        ELSE [schema |-> ordered[CHOOSE i \in places :
                                    \A j \in places : i <= j]]

(* A call of a tool: its module's handler answers, fails, answers what     *)
(* cannot be encoded, or panics.                                           *)
Call(p) ==
    CASE ~HasTool(p.name) -> {Unknown}
      [] p.name \in {"tool_catalog", "tool_search"} ->
            {IF p.arguments = Malformed THEN Failed
             ELSE IF p.arguments = None THEN Search(NoFilter)
             ELSE Search(p.arguments)}
      [] p.name = "tool_schema" -> {SchemaOf(p.arguments)}
      [] OTHER -> {[ranBy |-> tools[p.name]], Failed, Unencodable, Panic}

(* handleRequest: the answers that a request may get. *)
Answers(r) ==
    CASE r.method \in {"initialize", "ping", "notifications/initialized",
                       "resources/list", "prompts/list"} -> {[fixed |-> r.method]}
      [] r.method = "tools/list" -> {ListTools(r.params)}
      [] r.method = "tools/call" ->
            IF r.params \in {None, Malformed} THEN {InvalidParams} ELSE Call(r.params)
      [] r.method \in {"resources/read", "prompts/get"} ->
            {IF r.params \in {None, Malformed} THEN InvalidParams
             ELSE IF r.params \in Readable THEN [content |-> r.params]
             ELSE Unknown}
      [] r.method = "junk" -> {ParseError}
      [] OTHER -> {NoMethod}

-----------------------------------------------------------------------------
(* The client *)

Sendable ==
    /\ stage = "serving" /\ closed = "no"
    /\ Len(sent) < MaxMessages /\ Len(inbox) < PipeSize

Put(message) ==
    /\ sent' = Append(sent, message)
    /\ inbox' = Append(inbox, Len(sent) + 1)

(* An id that the client gives its message: its number, or none for a      *)
(* notification and for what is no request.                                *)
Ids(body) == IF body \in {Junk, NoHeader} THEN {None} ELSE {None, Len(sent) + 1}

Send ==
    /\ Sendable
    /\ Len(sent) - walk.pages < MaxOthers
    /\ \E framing \in Framings, body \in Requests \cup {Junk, NoHeader} :
        \E id \in Ids(body) :
            /\ body = NoHeader => framing = "framed"
            /\ Put([framing |-> framing, id |-> id, body |-> body])
    /\ UNCHANGED <<registry, stage, pending, closed, due, outbox, got, walk>>

AskPage ==
    /\ Sendable
    /\ walk.asked = None /\ ~walk.done
    /\ Put([framing |-> "legacy", id |-> Len(sent) + 1,
            body |-> [method |-> "tools/list", params |-> walk.cursor]])
    /\ walk' = [walk EXCEPT !.asked = Len(sent) + 1, !.pages = @ + 1]
    /\ UNCHANGED <<registry, stage, pending, closed, due, outbox, got>>

Receive ==
    /\ outbox # <<>>
    /\ outbox' = Tail(outbox)
    /\ got' = Append(got, Head(outbox))
    /\ walk' = IF Head(outbox).id # None /\ Head(outbox).id = walk.asked
               THEN LET page == Head(outbox).result
                    IN  [walk EXCEPT !.cursor = page.next, !.asked = None,
                                     !.done = page.next = None,
                                     !.listed = @ \o page.tools]
               ELSE walk
    /\ UNCHANGED <<registry, stage, pending, sent, inbox, closed, due>>

(* The client closes the pipe, between two messages or inside the body of  *)
(* one.  A header that is cut short is, for the server, the end.           *)
Close ==
    /\ stage = "serving" /\ closed = "no"
    /\ closed' \in {"clean", "in body"}
    /\ UNCHANGED <<registry, stage, pending, sent, inbox, due, outbox, got, walk>>

-----------------------------------------------------------------------------
(* The server *)

RegisterNext ==
    /\ stage = "registering" /\ pending # <<>>
    /\ Register(Head(pending))
    /\ IF Refused(Head(pending))
       THEN stage' = "failed" /\ UNCHANGED pending
       ELSE pending' = Tail(pending) /\ UNCHANGED stage
    /\ UNCHANGED <<due, pipes>>

Serve ==
    /\ stage = "registering" /\ pending = <<>>
    /\ stage' = "serving"
    /\ UNCHANGED <<registry, pending, due, pipes>>

(* Two wrong ideas of what is owed an answer, and the right one. *)
OwedToAll(m) == TRUE
OwedToLines(m) == m.framing = "legacy" /\ (m.id # None \/ m.body = Junk)
Owed(m) == m.id # None \/ m.body = Junk

(* One message is read and handled.  A notification is handled too, but    *)
(* not answered; what is not JSON is answered without an id.               *)
Handle ==
    /\ stage = "serving" /\ due = <<>> /\ inbox # <<>>
    /\ inbox' = Tail(inbox)
    /\ LET m == sent[Head(inbox)] IN
       IF m.body = NoHeader THEN stage' = "failed" /\ UNCHANGED due
       ELSE \E result \in Answers(m.body) :
                IF result = Panic
                THEN stage' = "failed" /\ UNCHANGED due
                ELSE /\ due' = IF Owed(m)
                               THEN <<[framing |-> m.framing, id |-> m.id,
                                       result |-> result]>>
                               ELSE <<>>
                     /\ UNCHANGED stage
    /\ UNCHANGED <<registry, pending, sent, closed, outbox, got, walk>>

Write ==
    /\ stage = "serving" /\ due # <<>> /\ Len(outbox) < PipeSize
    /\ outbox' = outbox \o due
    /\ due' = <<>>
    /\ UNCHANGED <<registry, stage, pending, sent, inbox, closed, got, walk>>

End ==
    /\ stage = "serving" /\ due = <<>> /\ inbox = <<>> /\ closed # "no"
    /\ stage' = IF closed = "clean" THEN "ended" ELSE "failed"
    /\ UNCHANGED <<registry, pending, due, pipes>>

Init ==
    /\ NewRegistry
    /\ stage = "registering"
    /\ pending \in Lineups
    /\ sent = <<>> /\ inbox = <<>> /\ closed = "no"
    /\ due = <<>> /\ outbox = <<>> /\ got = <<>>
    /\ walk = [cursor |-> None, asked |-> None, pages |-> 0, done |-> FALSE,
               listed |-> <<>>]

Next ==
    \/ RegisterNext \/ Serve \/ Handle \/ Write \/ End
    \/ Send \/ AskPage \/ Receive \/ Close

Spec == Init /\ [][Next]_vars

(* The server runs, and the client reads what it is sent. *)
FairSpec ==
    /\ Spec
    /\ WF_vars(RegisterNext \/ Serve) /\ WF_vars(Handle) /\ WF_vars(Write)
    /\ WF_vars(End) /\ WF_vars(Receive)

-----------------------------------------------------------------------------
(* The types; and the cursor of the client's walk, when it has one, lies   *)
(* inside the list of tools.                                               *)
TypeOK ==
    /\ RegistryTypeOK
    /\ stage \in {"registering", "serving", "ended", "failed"}
    /\ closed \in {"no", "clean", "in body"}
    /\ \A i \in DOMAIN inbox : inbox[i] \in DOMAIN sent
    /\ Len(inbox) <= PipeSize /\ Len(outbox) <= PipeSize
    /\ walk.cursor \in {None} \cup 1..(Len(ordered) - 1)

(* Every message that is read gets at most one reply: one for each request *)
(* with an id and one, without id, for what is not JSON, none for a        *)
(* notification; in the order of the requests, under their ids, in their   *)
(* framing.  Only the last one may remain without a reply, when the        *)
(* program died of it.                                                     *)
Replies == got \o outbox \o due
Asking ==
    {k \in 1..(Len(sent) - Len(inbox)) : sent[k].id # None \/ sent[k].body = Junk}
Upto(k) == {j \in Asking : j <= k}
AnsweredInOrder ==
    /\ \/ Len(Replies) = Cardinality(Asking)
       \/ stage = "failed" /\ Len(Replies) = Cardinality(Asking) - 1
    /\ \A i \in DOMAIN Replies : \E k \in Asking :
            /\ Cardinality(Upto(k)) = i
            /\ Replies[i].framing = sent[k].framing
            /\ Replies[i].id = sent[k].id
            /\ Replies[i].result = ParseError <=> sent[k].body = Junk

(* A client that follows the cursors sees the tools in the order of their  *)
(* names, each once, and all of them by the page that has no cursor.       *)
WalkListsAll ==
    /\ walk.listed = NamesFrom(0, Len(walk.listed))
    /\ Len(walk.listed) <= Len(ordered)
    /\ walk.done => Len(walk.listed) = Len(ordered)

(* What a search finds passes its filters, can be called, and belongs to   *)
(* the namespace it is shown under; and what it leaves out it leaves out   *)
(* for the filters, or because the limit is reached.                       *)
SearchIsExact ==
    \A i \in DOMAIN got :
        (got[i].id # None /\ "found" \in DOMAIN got[i].result) =>
            LET found == got[i].result.found
                p == sent[got[i].id].body.params.arguments
                wanted == {k \in DOMAIN ordered :
                                p = None \/ Found(p, ordered[k])}
                limit == IF p = None THEN DefaultLimit ELSE Limit(p)
            IN  /\ Len(found) = Least(limit, Cardinality(wanted))
                /\ \A k \in DOMAIN found :
                        /\ \E w \in wanted : ordered[w] = found[k]
                        /\ Tidy => Trimmed[tools[found[k].name]] = found[k].namespace

(* Every request with an id is answered in the end, and the answer is read, *)
(* unless the program fails.                                               *)
AllAnswered ==
    \A k \in 1..MaxMessages :
        (\E i \in DOMAIN sent : sent[i].id = k)
            ~> (stage = "failed" \/ \E i \in DOMAIN got : got[i].id = k)
=============================================================================
