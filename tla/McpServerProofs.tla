-------------------------- MODULE McpServerProofs ---------------------------
(* What holds in every session, for every line-up of modules, all requests *)
(* and all sizes of pipes and pages: the list and the map of the registry  *)
(* agree; the replies answer the messages one by one and in order; the     *)
(* walk over the pages misses nothing; a search is exact.                  *)
(*                                                                         *)
(* IInv is about the registry; SessionInv says where each message and each *)
(* reply is between the two sides, and how far the walk has come.          *)
EXTENDS McpServer, SequenceTheorems, FiniteSetTheorems, TLAPS

Entries == [namespace : DOMAIN Trimmed, name : DOMAIN Trimmed]

IInv ==
    /\ pending \in Seq(Modules)
    /\ ordered \in Seq(Entries)
    /\ OneOwner

(* What Add appends to the list. *)
Added(m) == [k \in DOMAIN m.tools |->
                [namespace |-> Trimmed[m.name], name |-> m.tools[k].name]]

LEMMA AddedIsList ==
    ASSUME NEW m \in Modules
    PROVE  /\ Added(m) \in Seq(Entries)
           /\ Len(Added(m)) = Len(m.tools)
           /\ DOMAIN Added(m) = 1..Len(m.tools)
           /\ \A k \in 1..Len(m.tools) :
                Added(m)[k] = [namespace |-> Trimmed[m.name],
                               name |-> m.tools[k].name]
<1> DEFINE n == Len(m.tools)
<1>1. m.tools \in Seq([name : DOMAIN Trimmed, sound : BOOLEAN]) /\ m.name \in DOMAIN Trimmed
  BY DEF Modules
<1>2. n \in Nat /\ DOMAIN m.tools = 1..n
  BY <1>1
<1>3. \A k \in 1..n : m.tools[k].name \in DOMAIN Trimmed
  <2>1. \A k \in 1..n : m.tools[k] \in [name : DOMAIN Trimmed, sound : BOOLEAN]
    BY <1>1, ElementOfSeq
  <2> QED
    BY <2>1
<1>4. Trimmed[m.name] \in DOMAIN Trimmed
  BY <1>1, TrimmedAssumption
<1>5. Added(m) \in [1..n -> Entries]
  BY <1>2, <1>3, <1>4 DEF Added, Entries
<1>6. Added(m) \in Seq(Entries) /\ Len(Added(m)) = n
  BY <1>2, <1>5
<1>7. \A k \in 1..n :
        Added(m)[k] = [namespace |-> Trimmed[m.name], name |-> m.tools[k].name]
  BY <1>2 DEF Added
<1> QED
  BY <1>2, <1>5, <1>6, <1>7

(* Where each entry of the list comes from once a module is added. *)
LEMMA Appended ==
    ASSUME NEW m \in Modules, ordered \in Seq(Entries),
           ordered' = ordered \o Added(m)
    PROVE  /\ ordered' \in Seq(Entries)
           /\ DOMAIN ordered' = 1..(Len(ordered) + Len(m.tools))
           /\ \A i \in 1..Len(ordered) : ordered'[i] = ordered[i]
           /\ \A k \in 1..Len(m.tools) :
                ordered'[Len(ordered) + k] = [namespace |-> Trimmed[m.name],
                                              name |-> m.tools[k].name]
           /\ \A i \in DOMAIN ordered' :
                \/ i \in 1..Len(ordered)
                \/ \E k \in 1..Len(m.tools) : i = Len(ordered) + k
<1>1. Len(m.tools) \in Nat /\ Len(ordered) \in Nat
  BY DEF Modules
<1>2. /\ Added(m) \in Seq(Entries)
      /\ Len(Added(m)) = Len(m.tools)
      /\ \A k \in 1..Len(m.tools) :
            Added(m)[k] = [namespace |-> Trimmed[m.name], name |-> m.tools[k].name]
  BY AddedIsList
<1>3. ordered' \in Seq(Entries) /\ Len(ordered') = Len(ordered) + Len(m.tools)
  <2>1. /\ ordered \o Added(m) \in Seq(Entries)
        /\ Len(ordered \o Added(m)) = Len(ordered) + Len(Added(m))
    BY <1>2, ConcatProperties, Zenon
  <2> QED
    BY <1>2, <2>1, Zenon
<1>4. DOMAIN ordered' = 1..(Len(ordered) + Len(m.tools))
  BY <1>3
<1>5. \A i \in 1..Len(ordered) : ordered'[i] = ordered[i]
  BY <1>1, <1>2
<1>6. \A k \in 1..Len(m.tools) : ordered'[Len(ordered) + k] = Added(m)[k]
  BY <1>1, <1>2
<1>7. \A i \in DOMAIN ordered' :
        i \in 1..Len(ordered) \/ \E k \in 1..Len(m.tools) : i = Len(ordered) + k
  <2>1. TAKE i \in DOMAIN ordered'
  <2>2. CASE i <= Len(ordered)
    BY <1>1, <1>4, <2>2
  <2>3. CASE ~(i <= Len(ordered))
    <3>1. i - Len(ordered) \in 1..Len(m.tools) /\ i = Len(ordered) + (i - Len(ordered))
      BY <1>1, <1>4, <2>3
    <3> QED
      BY <3>1
  <2> QED
    BY <2>2, <2>3
<1> QED
  BY <1>2, <1>3, <1>4, <1>5, <1>6, <1>7

(* Adding a module that is not refused keeps map and list in agreement. *)
LEMMA AddKeeps ==
    ASSUME NEW m \in Modules, ordered \in Seq(Entries), OneOwner,
           ~Refused(m), Add(m)
    PROVE  ordered' \in Seq(Entries) /\ OneOwner'
<1> DEFINE L == Len(ordered)
           n == Len(m.tools)
<1>1. /\ L \in Nat /\ n \in Nat
      /\ DOMAIN ordered = 1..L /\ DOMAIN m.tools = 1..n
  BY DEF Modules
<1>2. ordered' = ordered \o Added(m)
  BY DEF Add, Added
<1>3. /\ ordered' \in Seq(Entries)
      /\ DOMAIN ordered' = 1..(L + n)
      /\ \A i \in 1..L : ordered'[i] = ordered[i]
      /\ \A k \in 1..n : ordered'[L + k] = [namespace |-> Trimmed[m.name],
                                            name |-> m.tools[k].name]
      /\ \A i \in DOMAIN ordered' : i \in 1..L \/ \E k \in 1..n : i = L + k
  BY <1>2, Appended
<1>4. /\ DOMAIN tools' = DOMAIN tools \cup NamesOf(m)
      /\ \A x \in NamesOf(m) : tools'[x] = m.name
      /\ \A x \in DOMAIN tools : x \notin NamesOf(m) => tools'[x] = tools[x]
  BY DEF Add
<1>5. \A k \in 1..n : m.tools[k].name \in NamesOf(m)
  BY <1>1 DEF NamesOf
<1>6. \A k \in 1..n : Trimmed[m.tools[k].name] \notin DOMAIN tools
  BY <1>1 DEF Refused, BadTool
<1>7. \A k \in 1..n : \A j \in 1..(k - 1) :
        Trimmed[m.tools[j].name] # Trimmed[m.tools[k].name]
  BY <1>1 DEF Refused, BadTool, Unfit
<1>8. \A i \in 1..L : i \in DOMAIN ordered' /\ ordered'[i].name \in DOMAIN tools
  BY <1>1, <1>3 DEF OneOwner
<1>9. \A k \in 1..n : L + k \in DOMAIN ordered' /\ ordered'[L + k].name = m.tools[k].name
  <2>1. TAKE k \in 1..n
  <2>2. L + k \in 1..(L + n)
    BY <1>1
  <2>3. ordered'[L + k] = [namespace |-> Trimmed[m.name], name |-> m.tools[k].name]
    BY <1>3
  <2> QED
    BY <1>3, <2>2, <2>3
<1>10. DOMAIN tools' = {ordered'[i].name : i \in DOMAIN ordered'}
  <2>1. ASSUME NEW x \in DOMAIN tools'
        PROVE  \E i \in DOMAIN ordered' : x = ordered'[i].name
    <3>1. CASE x \in DOMAIN tools
      BY <3>1, <1>1, <1>3, <1>8 DEF OneOwner
    <3>2. CASE x \in NamesOf(m)
      <4>1. PICK k \in 1..n : x = m.tools[k].name
        BY <3>2, <1>1 DEF NamesOf
      <4> QED
        BY <4>1, <1>9
    <3> QED
      BY <2>1, <3>1, <3>2, <1>4
  <2>2. ASSUME NEW i \in DOMAIN ordered'
        PROVE  ordered'[i].name \in DOMAIN tools'
    <3>1. CASE i \in 1..L
      BY <3>1, <1>4, <1>8
    <3>2. CASE \E k \in 1..n : i = L + k
      BY <3>2, <1>4, <1>5, <1>9
    <3> QED
      BY <3>1, <3>2, <1>3
  <2> QED
    BY <2>1, <2>2
<1>11. ASSUME Tidy'
       PROVE  /\ Tidy
              /\ \A k \in 1..n : Trimmed[m.tools[k].name] = m.tools[k].name
  <2>1. \A i \in DOMAIN ordered' : Trimmed[ordered'[i].name] = ordered'[i].name
    BY <1>11 DEF Tidy
  <2>2. Tidy
    BY <2>1, <1>1, <1>3, <1>8 DEF Tidy
  <2>3. \A k \in 1..n : Trimmed[m.tools[k].name] = m.tools[k].name
    BY <2>1, <1>9
  <2> QED
    BY <2>2, <2>3
<1>12. ASSUME Tidy', NEW i \in DOMAIN ordered', NEW j \in DOMAIN ordered',
              ordered'[i].name = ordered'[j].name
       PROVE  i = j
  <2>1. CASE i \in 1..L /\ j \in 1..L
    BY <2>1, <1>1, <1>3, <1>11, <1>12 DEF OneOwner
  <2>2. ASSUME NEW a \in 1..L, NEW k \in 1..n
        PROVE  ordered'[a].name # ordered'[L + k].name
    BY <1>6, <1>8, <1>9, <1>11, <1>12
  <2>3. ASSUME NEW k \in 1..n, NEW l \in 1..n, i = L + k, j = L + l
        PROVE  i = j
    <3>1. m.tools[k].name = m.tools[l].name
      BY <1>9, <1>12, <2>3
    <3>2. ~(k < l) /\ ~(l < k)
      BY <3>1, <1>1, <1>7
    <3> QED
      BY <3>2, <2>3, <1>1
  <2> QED
    BY <2>1, <2>2, <2>3, <1>3, <1>12
<1>13. ASSUME Tidy', NEW i \in DOMAIN ordered'
       PROVE  Trimmed[tools'[ordered'[i].name]] = ordered'[i].namespace
  <2>1. CASE i \in 1..L
    <3>1. ordered[i].name \in DOMAIN tools /\ ordered'[i] = ordered[i]
      BY <2>1, <1>3, <1>8
    <3>2. ordered[i].name \notin NamesOf(m)
      BY <3>1, <1>1, <1>6, <1>11, <1>13 DEF NamesOf
    <3>3. tools'[ordered[i].name] = tools[ordered[i].name]
      BY <3>1, <3>2, <1>4
    <3> QED
      BY <2>1, <3>1, <3>3, <1>1, <1>11, <1>13 DEF OneOwner
  <2>2. ASSUME NEW k \in 1..n, i = L + k
        PROVE  Trimmed[tools'[ordered'[i].name]] = ordered'[i].namespace
    <3>1. ordered'[i] = [namespace |-> Trimmed[m.name], name |-> m.tools[k].name]
      BY <2>2, <1>3
    <3>2. tools'[m.tools[k].name] = m.name
      BY <1>4, <1>5
    <3> QED
      BY <3>1, <3>2
  <2> QED
    BY <2>1, <2>2, <1>3
<1> QED
  BY <1>3, <1>10, <1>12, <1>13 DEF OneOwner

LEMMA Initially == Init => IInv
<1> SUFFICES ASSUME Init PROVE IInv
  OBVIOUS
<1>1. pending \in Seq(Modules)
  BY LineupsAssumption DEF Init
<1>2. ordered = <<>> /\ tools = [n \in {} |-> Blank]
  BY DEF Init, NewRegistry
<1>3. ordered \in Seq(Entries) /\ DOMAIN ordered = {} /\ DOMAIN tools = {}
  BY <1>2
<1> QED
  BY <1>1, <1>3 DEF IInv, OneOwner

(* A step that leaves the registry and the line-up alone keeps them. *)
LEMMA Untouched ==
    ASSUME IInv, UNCHANGED <<registry, pending>>
    PROVE  IInv'
BY DEF IInv, OneOwner, Tidy, registry

LEMMA Preserved == IInv /\ [Next]_vars => IInv'
<1> SUFFICES ASSUME IInv, [Next]_vars PROVE IInv'
  OBVIOUS
<1>1. CASE RegisterNext
  <2>1. pending \in Seq(Modules) /\ pending # <<>>
    BY <1>1 DEF RegisterNext, IInv
  <2>2. Head(pending) \in Modules /\ Tail(pending) \in Seq(Modules)
    BY <2>1
  <2>3. pending' \in Seq(Modules)
    BY <1>1, <2>1, <2>2 DEF RegisterNext
  <2>4. CASE Refused(Head(pending))
    <3>1. UNCHANGED <<registry, pending>>
      BY <1>1, <2>4 DEF RegisterNext, Register
    <3> QED
      BY <3>1, Untouched
  <2>5. CASE ~Refused(Head(pending))
    <3>1. Add(Head(pending))
      BY <1>1, <2>5 DEF RegisterNext, Register
    <3>2. ordered' \in Seq(Entries) /\ OneOwner'
      BY <2>2, <2>5, <3>1, AddKeeps DEF IInv
    <3> QED
      BY <2>3, <3>2 DEF IInv
  <2> QED
    BY <2>4, <2>5
<1>2. CASE Serve
  BY <1>2, Untouched DEF Serve
<1>3. CASE Handle
  BY <1>3, Untouched DEF Handle
<1>4. CASE Write
  BY <1>4, Untouched DEF Write
<1>5. CASE End
  BY <1>5, Untouched DEF End
<1>6. CASE Send
  BY <1>6, Untouched DEF Send
<1>7. CASE AskPage
  BY <1>7, Untouched DEF AskPage
<1>8. CASE Receive
  BY <1>8, Untouched DEF Receive
<1>9. CASE Close
  BY <1>9, Untouched DEF Close
<1>10. CASE UNCHANGED vars
  BY <1>10, Untouched DEF vars
<1> QED
  BY <1>1, <1>2, <1>3, <1>4, <1>5, <1>6, <1>7, <1>8, <1>9, <1>10 DEF Next

(* In every session the map and the list of tools agree (OneOwner): what   *)
(* is listed can be called, and with tidy names a tool is listed once and  *)
(* runs in the module it is listed under.                                  *)
THEOREM ListedRunsWhereListed == Spec => []OneOwner
<1>1. IInv => OneOwner
  BY DEF IInv
<1> QED
  BY <1>1, Initially, Preserved, PTL DEF Spec
-----------------------------------------------------------------------------
(* Sorting *)

(* The pairs of B order K, strictly and totally.                           *)
Orders(K, B) ==
    /\ \A j, k \in K : j # k => <<j, k>> \in B \/ <<k, j>> \in B
    /\ \A j \in K : <<j, j>> \notin B
    /\ \A i, j, k \in K : <<i, j>> \in B /\ <<j, k>> \in B => <<i, k>> \in B

RankIn(K, B, k) == Cardinality({j \in K : <<j, k>> \in B})

(* In a finite set under a strict total order each rank is taken.          *)
LEMMA Ranked ==
    ASSUME NEW K, IsFiniteSet(K), NEW B, Orders(K, B), NEW i \in 1..Cardinality(K)
    PROVE  \E k \in K : RankIn(K, B, k) = i - 1
<1> DEFINE Below(k) == {j \in K : <<j, k>> \in B}
           n == Cardinality(K)
           f == [k \in K |-> Cardinality(Below(k))]
<1> USE DEF Orders
<1>1. n \in Nat
  BY FS_CardinalityType
<1>2. ASSUME NEW k \in K
      PROVE  IsFiniteSet(Below(k)) /\ Cardinality(Below(k)) \in 0..(n - 1)
  <2>1. Below(k) \in SUBSET K /\ k \notin Below(k)
    OBVIOUS
  <2>2. IsFiniteSet(Below(k)) /\ Cardinality(Below(k)) <= n /\ Cardinality(Below(k)) # n
    BY <2>1, FS_Subset
  <2>3. Cardinality(Below(k)) \in Nat
    BY <2>2, FS_CardinalityType
  <2> QED
    BY <1>1, <2>2, <2>3
<1>3. ASSUME NEW j \in K, NEW k \in K, <<j, k>> \in B
      PROVE  Cardinality(Below(j)) # Cardinality(Below(k))
  <2>1. Below(j) \in SUBSET Below(k) /\ j \in Below(k) /\ j \notin Below(j)
    BY <1>3
  <2>2. IsFiniteSet(Below(k))
    BY <1>2
  <2> HIDE DEF Below
  <2> QED
    BY <2>1, <2>2, FS_Subset
<1>4. f \in Injection(K, 0..(n - 1))
  <2>1. f \in [K -> 0..(n - 1)]
    BY <1>2
  <2>2. ASSUME NEW j \in K, NEW k \in K, f[j] = f[k]
        PROVE  j = k
    <3>1. Cardinality(Below(j)) = Cardinality(Below(k))
      BY <2>2
    <3> HIDE DEF Below
    <3> QED
      BY <1>3, <3>1
  <2> HIDE DEF f
  <2> QED
    BY <2>1, <2>2 DEF Injection, IsInjective
<1>5. IsFiniteSet(0..(n - 1)) /\ Cardinality(0..(n - 1)) = n
  <2>1. 0 \in Int /\ n - 1 \in Int
    BY <1>1
  <2>2. IsFiniteSet(0..(n - 1)) /\ Cardinality(0..(n - 1)) = IF 0 > n - 1 THEN 0 ELSE n - 1 - 0 + 1
    BY <2>1, FS_Interval
  <2> QED
    BY <1>1, <2>2
<1>6. f \in Surjection(K, 0..(n - 1))
  BY <1>4, <1>5, FS_Injection
<1>7. i - 1 \in 0..(n - 1)
  BY <1>1
<1>8. PICK k \in K : f[k] = i - 1
  <2> HIDE DEF f
  <2> QED
    BY <1>6, <1>7 DEF Surjection
<1> QED
  BY <1>8 DEF RankIn

Places == DOMAIN ordered

LEMMA PlacesFinite ==
    ASSUME ordered \in Seq(Entries), NEW K, K \subseteq Places
    PROVE  /\ Len(ordered) \in Nat /\ Places = 1..Len(ordered)
           /\ IsFiniteSet(K) /\ Cardinality(K) \in Nat
           /\ IsFiniteSet(Places) /\ Cardinality(Places) = Len(ordered)
<1>1. Len(ordered) \in Nat /\ Places = 1..Len(ordered)
  BY DEF Places
<1>2. IsFiniteSet(Places) /\ Cardinality(Places) = Len(ordered)
  BY <1>1, FS_Interval
<1>3. IsFiniteSet(K) /\ Cardinality(K) \in Nat
  BY <1>2, FS_Subset, FS_CardinalityType
<1> QED
  BY <1>1, <1>2, <1>3

(* Both orders of the list are strict and total.                           *)
LEMMA StrictOrders ==
    ASSUME ordered \in Seq(Entries), NEW j \in Places, NEW k \in Places
    PROVE  /\ j # k => NameBefore(j, k) \/ NameBefore(k, j)
           /\ j # k => NamespaceBefore(j, k) \/ NamespaceBefore(k, j)
           /\ ~NameBefore(j, j) /\ ~NamespaceBefore(j, j)
           /\ \A i \in Places :
                /\ NameBefore(i, j) /\ NameBefore(j, k) => NameBefore(i, k)
                /\ NamespaceBefore(i, j) /\ NamespaceBefore(j, k) => NamespaceBefore(i, k)
<1>1. \A i \in Places : /\ i \in Nat
                        /\ Rank[ordered[i].name] \in Nat /\ Rank[ordered[i].namespace] \in Nat
  <2>1. TAKE i \in Places
  <2>2. ordered[i] \in Entries /\ i \in Nat
    BY PlacesFinite DEF Places
  <2>3. ordered[i].name \in DOMAIN Trimmed /\ ordered[i].namespace \in DOMAIN Trimmed
    BY <2>2 DEF Entries
  <2> QED
    BY <2>2, <2>3, NamesAssumption
<1> QED
  BY <1>1 DEF NameBefore, NamespaceBefore

(* The list sorted by names has as many tools, and what is sorted by       *)
(* namespaces are the tools at the places asked for.                       *)
LEMMA SortedByName ==
    ASSUME ordered \in Seq(Entries)
    PROVE  DOMAIN ByName = 1..Len(ordered)
BY PlacesFinite DEF ByName, Places

LEMMA SortedByNamespace ==
    ASSUME ordered \in Seq(Entries), NEW K, K \subseteq Places
    PROVE  /\ ByNamespace(K) \in Seq(Entries) /\ Len(ByNamespace(K)) = Cardinality(K)
           /\ \A i \in 1..Cardinality(K) : \E k \in K : ByNamespace(K)[i] = ordered[k]
<1> DEFINE B == {x \in K \X K : NamespaceBefore(x[1], x[2])}
           At(i) == CHOOSE k \in K : Cardinality({j \in K : NamespaceBefore(j, k)}) = i - 1
<1>1. \A k \in K : {j \in K : <<j, k>> \in B} = {j \in K : NamespaceBefore(j, k)}
  OBVIOUS
<1>2. Orders(K, B)
  BY StrictOrders DEF Orders
<1>3. IsFiniteSet(K) /\ Cardinality(K) \in Nat
  BY PlacesFinite
<1>4. ASSUME NEW i \in 1..Cardinality(K)
      PROVE  \E k \in K : Cardinality({j \in K : NamespaceBefore(j, k)}) = i - 1
  <2>1. PICK k \in K : RankIn(K, B, k) = i - 1
    <3> HIDE DEF B
    <3> QED
      BY <1>2, <1>3, Ranked
  <2> QED
    BY <1>1, <2>1 DEF RankIn
<1>5. \A i \in 1..Cardinality(K) : At(i) \in K
  BY <1>4
<1>6. ByNamespace(K) = [i \in 1..Cardinality(K) |-> ordered[At(i)]]
  BY DEF ByNamespace
<1> HIDE DEF At
<1>7. \A i \in 1..Cardinality(K) : ordered[At(i)] \in Entries
  BY <1>5 DEF Places
<1> QED
  BY <1>3, <1>5, <1>6, <1>7

-----------------------------------------------------------------------------
(* The session *)

(* What may be in the two pipes. *)
Bodies == Requests \cup {Junk, NoHeader}
          \cup {[method |-> "tools/list", params |-> c] : c \in {None} \cup Nat}
Message == [framing : Framings, id : {None} \cup Nat, body : Bodies]
Results == UNION {Answers(b) : b \in Bodies}
Reply == [framing : Framings, id : {None} \cup Nat, result : Results]

Start == [cursor |-> None, asked |-> None, pages |-> 0, done |-> FALSE, listed |-> <<>>]
Fresh == /\ sent = <<>> /\ inbox = <<>> /\ due = <<>> /\ outbox = <<>> /\ got = <<>>
         /\ walk = Start

(* The messages in the pipe are the last ones that were sent. *)
MessagesInv ==
    /\ sent \in Seq(Message) /\ inbox \in Seq(Nat)
    /\ Len(inbox) <= Len(sent) /\ Len(inbox) <= PipeSize
    /\ \A i \in 1..Len(inbox) : inbox[i] = Len(sent) - Len(inbox) + i
    /\ \A k \in 1..Len(sent) :
            sent[k].id \in {None, k} /\ (sent[k].body = NoHeader => sent[k].id = None)

(* The i-th reply is an answer to the i-th message that asks for one. *)
Answered(i, k) ==
    /\ Cardinality(Upto(k)) = i
    /\ Replies[i].framing = sent[k].framing /\ Replies[i].id = sent[k].id
    /\ Replies[i].result \in Answers(sent[k].body)
RepliesInv ==
    /\ got \in Seq(Reply) /\ outbox \in Seq(Reply) /\ due \in Seq(Reply)
    /\ Len(due) <= 1 /\ Len(outbox) <= PipeSize
    /\ \/ Len(Replies) = Cardinality(Asking)
       \/ stage = "failed" /\ Len(Replies) = Cardinality(Asking) - 1
    /\ \A i \in 1..Len(Replies) : \E k \in Asking : Answered(i, k)

(* The walk has listed the names up to its cursor, and has asked for what  *)
(* comes next.                                                             *)
Reached ==
    IF walk.done THEN Len(ordered) ELSE IF walk.cursor = None THEN 0 ELSE walk.cursor
PageAsked ==
    /\ walk.asked \in 1..Len(sent)
    /\ sent[walk.asked].body = [method |-> "tools/list", params |-> walk.cursor]
WalkInv ==
    /\ walk = [cursor |-> walk.cursor, asked |-> walk.asked, pages |-> walk.pages,
               done |-> walk.done, listed |-> walk.listed]
    /\ walk.done \in BOOLEAN
    /\ walk.cursor \in {None} \cup 1..(Len(ordered) - 1)
    /\ walk.listed = NamesFrom(0, Reached)
    /\ walk.asked # None => PageAsked /\ ~walk.done

SessionInv ==
    /\ stage \in {"registering", "serving", "ended", "failed"}
    /\ closed \in {"no", "clean", "in body"}
    /\ stage = "registering" => Fresh
    /\ MessagesInv /\ RepliesInv /\ WalkInv

LEMMA Started ==
    ASSUME ordered \in Seq(Entries), Fresh
    PROVE  MessagesInv /\ RepliesInv /\ WalkInv
<1> USE DEF Fresh, Start
<1>1. MessagesInv
  BY SizesAssumption DEF MessagesInv
<1>2. RepliesInv
  <2>1. Replies = <<>> /\ Asking = {}
    BY DEF Replies, Asking
  <2>2. Cardinality(Asking) = 0
    BY <2>1, FS_EmptySet
  <2> QED
    BY <2>1, <2>2, SizesAssumption DEF RepliesInv
<1>3. WalkInv
  <2>1. NamesFrom(0, 0) = <<>>
    BY DEF NamesFrom
  <2> QED
    BY <2>1, NamesAssumption DEF WalkInv, Reached
<1> QED
  BY <1>1, <1>2, <1>3

(* As long as the registry stays as it is, so do the answers. *)
LEMMA AnswersStay ==
    ASSUME UNCHANGED registry
    PROVE  /\ \A b : Answers(b)' = Answers(b)
           /\ Results' = Results /\ Reply' = Reply
<1>1. ASSUME NEW CONSTANT b PROVE Answers(b)' = Answers(b)
  BY DEF registry, Answers, Call, Search, ListTools, Page, NamesFrom, SchemaOf, HasTool,
         ByName, ByNamespace, NameBefore, NamespaceBefore, Found, Accepted
<1>2. Results' = Results
  BY <1>1 DEF Results
<1> QED
  BY <1>1, <1>2 DEF Reply

LEMMA NamesStay ==
    ASSUME UNCHANGED ordered
    PROVE  \A a, b : NamesFrom(a, b)' = NamesFrom(a, b)
<1>1. ByName' = ByName
  BY DEF ByName, NameBefore
<1> QED
  BY <1>1 DEF NamesFrom

(* What a step may leave of the session. *)
Longer == /\ Len(sent) <= Len(sent')
          /\ \A k \in 1..Len(sent) : sent'[k] = sent[k]

LEMMA AskingStays ==
    ASSUME MessagesInv, MessagesInv', Longer,
           Len(sent') - Len(inbox') = Len(sent) - Len(inbox)
    PROVE  Asking' = Asking /\ \A k : Upto(k)' = Upto(k)
<1>1. Asking' = Asking
  <2>1. Len(sent) \in Nat /\ Len(inbox) \in Nat /\ Len(sent') \in Nat /\ Len(inbox') \in Nat
    BY DEF MessagesInv
  <2>2. \A k \in 1..(Len(sent) - Len(inbox)) : sent'[k] = sent[k]
    BY <2>1 DEF Longer
  <2> QED
    BY <2>1, <2>2 DEF Asking, Junk
<1> QED
  BY <1>1 DEF Upto

LEMMA RepliesStay ==
    ASSUME RepliesInv, MessagesInv, UNCHANGED registry, Longer,
           Asking' = Asking, \A k : Upto(k)' = Upto(k),
           Replies' = Replies, stage = "failed" => stage' = "failed",
           got' \in Seq(Reply), outbox' \in Seq(Reply), due' \in Seq(Reply),
           Len(due') <= 1, Len(outbox') <= PipeSize
    PROVE  RepliesInv'
<1>1. /\ \A b : Answers(b)' = Answers(b)
      /\ Reply' = Reply
  BY AnswersStay
<1>2. \A k \in Asking : k \in 1..Len(sent)
  BY DEF Asking, MessagesInv
<1>3. \A k \in Asking : sent'[k] = sent[k]
  BY <1>2 DEF Longer
<1>4. \A i : \A k \in Asking : Answered(i, k) => Answered(i, k)'
  BY <1>1, <1>3 DEF Answered
<1>5. \A i \in 1..Len(Replies') : \E k \in Asking' : Answered(i, k)'
  BY <1>4 DEF RepliesInv
<1>6. \/ Len(Replies') = Cardinality(Asking')
      \/ stage' = "failed" /\ Len(Replies') = Cardinality(Asking') - 1
  BY DEF RepliesInv
<1> QED
  BY <1>1, <1>5, <1>6 DEF RepliesInv

LEMMA WalkStays ==
    ASSUME WalkInv, MessagesInv, MessagesInv', UNCHANGED <<ordered, walk>>, Longer
    PROVE  WalkInv'
<1>1. \A a, b : NamesFrom(a, b)' = NamesFrom(a, b)
  BY NamesStay
<1>2. Reached' = Reached
  BY DEF Reached
<1>3. walk'.listed = NamesFrom(0, Reached)'
  BY <1>1, <1>2 DEF WalkInv
<1>4. PageAsked => PageAsked'
  BY DEF PageAsked, Longer, MessagesInv
<1> QED
  BY <1>3, <1>4 DEF WalkInv

(* Whatever the client sends goes behind what it has sent. *)
LEMMA PutKeeps ==
    ASSUME MessagesInv, NEW m \in Message, m.id \in {None, Len(sent) + 1},
           m.body = NoHeader => m.id = None, Len(inbox) < PipeSize, Put(m)
    PROVE  /\ MessagesInv' /\ Longer
           /\ Len(sent') = Len(sent) + 1 /\ sent'[Len(sent) + 1] = m
           /\ Len(sent') - Len(inbox') = Len(sent) - Len(inbox)
<1>1. /\ sent \in Seq(Message) /\ inbox \in Seq(Nat)
      /\ Len(sent) \in Nat /\ Len(inbox) \in Nat /\ PipeSize \in Nat
  BY SizesAssumption DEF MessagesInv
<1>2. /\ sent' \in Seq(Message) /\ Len(sent') = Len(sent) + 1
      /\ sent'[Len(sent) + 1] = m /\ \A k \in 1..Len(sent) : sent'[k] = sent[k]
  <2> HIDE DEF Message
  <2> QED
    BY <1>1 DEF Put
<1>3. /\ inbox' \in Seq(Nat) /\ Len(inbox') = Len(inbox) + 1
      /\ inbox'[Len(inbox) + 1] = Len(sent) + 1
      /\ \A i \in 1..Len(inbox) : inbox'[i] = inbox[i]
  BY <1>1 DEF Put
<1>4. \A i \in 1..Len(inbox') : inbox'[i] = Len(sent') - Len(inbox') + i
  <2>1. TAKE i \in 1..Len(inbox')
  <2>2. i \in 1..Len(inbox) \/ i = Len(inbox) + 1
    BY <1>1, <1>3
  <2>3. \A j \in 1..Len(inbox) : inbox[j] = Len(sent) - Len(inbox) + j
    BY DEF MessagesInv
  <2>4. Len(sent') - Len(inbox') = Len(sent) - Len(inbox)
    BY <1>1, <1>2, <1>3
  <2>5. CASE i \in 1..Len(inbox)
    <3>1. inbox'[i] = Len(sent) - Len(inbox) + i
      BY <1>3, <2>3, <2>5
    <3> QED
      BY <2>4, <3>1
  <2>6. CASE i = Len(inbox) + 1
    <3>1. Len(sent) + 1 = Len(sent) - Len(inbox) + i
      BY <1>1, <2>6
    <3> QED
      BY <1>3, <2>4, <2>6, <3>1
  <2> QED
    BY <2>2, <2>5, <2>6
<1>5. \A k \in 1..Len(sent') :
        sent'[k].id \in {None, k} /\ (sent'[k].body = NoHeader' => sent'[k].id = None)
  <2>1. TAKE k \in 1..Len(sent')
  <2>2. k \in 1..Len(sent) \/ k = Len(sent) + 1
    BY <1>1, <1>2
  <2>3. \A j \in 1..Len(sent) :
          sent[j].id \in {None, j} /\ (sent[j].body = NoHeader => sent[j].id = None)
    BY DEF MessagesInv
  <2> QED
    BY <1>2, <2>2, <2>3 DEF NoHeader
<1>6. Len(inbox') <= Len(sent') /\ Len(inbox') <= PipeSize
  BY <1>1, <1>2, <1>3 DEF MessagesInv
<1>7. Longer
  BY <1>1, <1>2 DEF Longer
<1>8. MessagesInv'
  BY <1>2, <1>3, <1>4, <1>5, <1>6 DEF MessagesInv
<1>9. Len(sent') - Len(inbox') = Len(sent) - Len(inbox)
  BY <1>1, <1>2, <1>3
<1> QED
  BY <1>2, <1>7, <1>8, <1>9

(* A step that sends one message and leaves the replies alone. *)
LEMMA PutLeaves ==
    ASSUME SessionInv, NEW m \in Message, m.id \in {None, Len(sent) + 1},
           m.body = NoHeader => m.id = None, Sendable, Put(m),
           UNCHANGED <<registry, stage, due, outbox, got>>
    PROVE  MessagesInv' /\ RepliesInv' /\ Longer
<1>1. MessagesInv' /\ Longer /\ Len(sent') - Len(inbox') = Len(sent) - Len(inbox)
  BY PutKeeps DEF SessionInv, Sendable
<1>2. Asking' = Asking /\ \A k : Upto(k)' = Upto(k)
  BY <1>1, AskingStays DEF SessionInv
<1>3. Reply' = Reply
  BY AnswersStay
<1>4. /\ got' \in Seq(Reply) /\ outbox' \in Seq(Reply) /\ due' \in Seq(Reply)
      /\ Len(due') <= 1 /\ Len(outbox') <= PipeSize /\ Replies' = Replies
  BY DEF SessionInv, RepliesInv, Replies
<1>5. RepliesInv'
  BY <1>1, <1>2, <1>4, RepliesStay DEF SessionInv
<1> QED
  BY <1>1, <1>5

(* A step of the server or the client that sends nothing and answers       *)
(* nothing.                                                                *)
LEMMA NothingSent ==
    ASSUME SessionInv, UNCHANGED <<registry, sent, inbox>>,
           Replies' = Replies, stage = "failed" => stage' = "failed",
           got' \in Seq(Reply), outbox' \in Seq(Reply), due' \in Seq(Reply),
           Len(due') <= 1, Len(outbox') <= PipeSize
    PROVE  MessagesInv' /\ RepliesInv' /\ Longer
<1>1. MessagesInv'
  BY DEF SessionInv, MessagesInv
<1>2. Longer
  <2>1. MessagesInv
    BY DEF SessionInv
  <2>2. sent \in Seq(Message)
    BY <2>1 DEF MessagesInv
  <2> QED
    BY <2>2 DEF Longer
<1>3. Asking' = Asking /\ \A k : Upto(k)' = Upto(k)
  BY <1>1, <1>2, AskingStays DEF SessionInv
<1>4. RepliesInv'
  BY <1>2, <1>3, RepliesStay DEF SessionInv
<1> QED
  BY <1>1, <1>2, <1>4

LEMMA RepliesTypes ==
    ASSUME RepliesInv
    PROVE  /\ got \in Seq(Reply) /\ outbox \in Seq(Reply) /\ due \in Seq(Reply)
           /\ Replies \in Seq(Reply) /\ got \o outbox \in Seq(Reply)
           /\ Replies = got \o (outbox \o due)
<1>1. got \in Seq(Reply) /\ outbox \in Seq(Reply) /\ due \in Seq(Reply)
  BY DEF RepliesInv
<1> HIDE DEF Reply
<1>2. got \o outbox \in Seq(Reply)
  BY <1>1, ConcatProperties
<1>3. (got \o outbox) \o due \in Seq(Reply)
  BY <1>1, <1>2, ConcatProperties
<1>4. (got \o outbox) \o due = got \o (outbox \o due)
  BY <1>1, ConcatAssociative
<1> QED
  BY <1>1, <1>2, <1>3, <1>4 DEF Replies

LEMMA SendKeeps ==
    ASSUME ordered \in Seq(Entries), SessionInv, Send
    PROVE  SessionInv'
<1>1. PICK framing \in Framings, body \in Requests \cup {Junk, NoHeader} :
        \E id \in Ids(body) : Put([framing |-> framing, id |-> id, body |-> body])
  BY DEF Send
<1>2. PICK id \in Ids(body) : Put([framing |-> framing, id |-> id, body |-> body])
  BY <1>1
<1>3. Len(sent) \in Nat
  <2>1. MessagesInv
    BY DEF SessionInv
  <2>2. sent \in Seq(Message)
    BY <2>1 DEF MessagesInv
  <2> QED
    BY <2>2
<1>4. id \in {None, Len(sent) + 1}
  BY DEF Ids
<1>5. PICK m : m = [framing |-> framing, id |-> id, body |-> body]
  OBVIOUS
<1>6. m \in Message /\ m.id \in {None, Len(sent) + 1} /\ Put(m)
  BY <1>2, <1>3, <1>4, <1>5 DEF Message, Bodies
<1>7. m.body = NoHeader => m.id = None
  BY <1>5 DEF Ids
<1>8. MessagesInv' /\ RepliesInv' /\ Longer
  BY <1>6, <1>7, PutLeaves DEF Send
<1>9. WalkInv'
  BY <1>8, WalkStays DEF Send, SessionInv, registry
<1> QED
  BY <1>8, <1>9 DEF SessionInv, Send, Sendable

LEMMA AskPageKeeps ==
    ASSUME ordered \in Seq(Entries), SessionInv, AskPage
    PROVE  SessionInv'
<1>1. PICK m : m = [framing |-> "legacy", id |-> Len(sent) + 1,
                    body |-> [method |-> "tools/list", params |-> walk.cursor]]
  OBVIOUS
<1>2. /\ Sendable /\ Put(m) /\ walk.asked = None /\ ~walk.done
      /\ walk' = [walk EXCEPT !.asked = Len(sent) + 1, !.pages = @ + 1]
      /\ UNCHANGED <<registry, stage, pending, closed, due, outbox, got>>
  BY <1>1 DEF AskPage
<1>3. Len(sent) \in Nat /\ Len(ordered) \in Nat
  <2>1. MessagesInv
    BY DEF SessionInv
  <2>2. sent \in Seq(Message)
    BY <2>1 DEF MessagesInv
  <2> QED
    BY <2>2
<1>4. m \in Message /\ m.id = Len(sent) + 1
  <2>1. walk.cursor \in {None} \cup Nat
    <3>1. walk.cursor \in {None} \cup 1..(Len(ordered) - 1)
      BY DEF SessionInv, WalkInv
    <3> QED
      BY <1>3, <3>1
  <2>2. m.body \in Bodies
    BY <1>1, <2>1 DEF Bodies
  <2> QED
    BY <1>1, <1>3, <2>2 DEF Message, Framings
<1>5. m.body # NoHeader
  BY <1>1 DEF NoHeader
<1>6. MessagesInv' /\ RepliesInv' /\ Longer
  BY <1>2, <1>4, <1>5, PutLeaves
<1>7. Len(sent') = Len(sent) + 1 /\ sent'[Len(sent) + 1] = m
  BY <1>2, <1>4, <1>5, PutKeeps DEF SessionInv, Sendable
<1>8. WalkInv'
  <2>1. walk' = [cursor |-> walk.cursor, asked |-> Len(sent) + 1, pages |-> walk.pages + 1,
                 done |-> walk.done, listed |-> walk.listed]
    BY <1>2 DEF SessionInv, WalkInv
  <2>2. /\ walk'.cursor = walk.cursor /\ walk'.asked = Len(sent) + 1
        /\ walk'.done = walk.done /\ walk'.listed = walk.listed
        /\ walk' = [cursor |-> walk'.cursor, asked |-> walk'.asked, pages |-> walk'.pages,
                    done |-> walk'.done, listed |-> walk'.listed]
    BY <2>1
  <2>3. \A a, b : NamesFrom(a, b)' = NamesFrom(a, b)
    BY <1>2, NamesStay DEF registry
  <2>4. Reached' = Reached /\ ordered' = ordered
    BY <1>2, <2>2 DEF Reached, registry
  <2>5. walk'.listed = NamesFrom(0, Reached)'
    BY <2>2, <2>3, <2>4 DEF SessionInv, WalkInv
  <2>6. PageAsked'
    BY <1>1, <1>3, <1>7, <2>2 DEF PageAsked
  <2> QED
    BY <1>2, <2>2, <2>4, <2>5, <2>6 DEF SessionInv, WalkInv
<1> QED
  BY <1>2, <1>6, <1>8 DEF SessionInv, Sendable

(* Writing and reading moves a reply along. *)
LEMMA WriteKeeps ==
    ASSUME ordered \in Seq(Entries), SessionInv, Write
    PROVE  SessionInv'
<1>1. /\ stage = "serving" /\ due # <<>> /\ Len(outbox) < PipeSize
      /\ outbox' = outbox \o due /\ due' = <<>>
      /\ UNCHANGED <<registry, stage, pending, sent, inbox, closed, got, walk>>
  BY DEF Write
<1>2. /\ got \in Seq(Reply) /\ outbox \in Seq(Reply) /\ due \in Seq(Reply)
      /\ Replies = got \o (outbox \o due) /\ Len(due) <= 1
  BY RepliesTypes DEF SessionInv, RepliesInv
<1>3. Reply' = Reply
  BY <1>1, AnswersStay
<1> HIDE DEF Reply
<1>4. outbox' \in Seq(Reply) /\ Len(outbox') = Len(outbox) + Len(due)
  BY <1>1, <1>2, ConcatProperties
<1>5. Replies' = Replies
  <2>1. got \o outbox' \in Seq(Reply)
    BY <1>2, <1>4, ConcatProperties
  <2>2. (got \o outbox') \o <<>> = got \o outbox'
    BY <2>1, ConcatEmptySeq
  <2> QED
    BY <1>1, <1>2, <2>2 DEF Replies
<1>6. Len(outbox') <= PipeSize /\ Len(due') <= 1 /\ due' \in Seq(Reply) /\ got' \in Seq(Reply)
  BY <1>1, <1>2, <1>4, SizesAssumption
<1>7. MessagesInv' /\ RepliesInv' /\ Longer
  BY <1>1, <1>4, <1>5, <1>6, NothingSent
<1>8. WalkInv'
  BY <1>1, <1>7, WalkStays DEF SessionInv, registry
<1> QED
  BY <1>1, <1>7, <1>8 DEF SessionInv

(* Steps that move nothing in the pipes. *)
LEMMA QuietKeeps ==
    ASSUME ordered \in Seq(Entries), SessionInv, Serve \/ End \/ Close \/ UNCHANGED vars
    PROVE  SessionInv'
<1>1. UNCHANGED <<registry, sent, inbox, due, outbox, got, walk>>
  BY DEF Serve, End, Close, pipes, vars
<1>2. /\ stage = "failed" => stage' = "failed"
      /\ stage' = "registering" => stage = "registering"
      /\ stage' \in {"registering", "serving", "ended", "failed"}
      /\ closed' \in {"no", "clean", "in body"}
  BY DEF Serve, End, Close, pipes, vars, SessionInv
<1>3. Replies' = Replies /\ Reply' = Reply
  BY <1>1, AnswersStay DEF Replies
<1>4. /\ got' \in Seq(Reply) /\ outbox' \in Seq(Reply) /\ due' \in Seq(Reply)
      /\ Len(due') <= 1 /\ Len(outbox') <= PipeSize
  BY <1>1 DEF SessionInv, RepliesInv
<1>5. MessagesInv' /\ RepliesInv' /\ Longer
  BY <1>1, <1>2, <1>3, <1>4, NothingSent
<1>6. WalkInv'
  BY <1>1, <1>5, WalkStays DEF SessionInv, registry
<1>7. stage' = "registering" => Fresh'
  BY <1>1, <1>2 DEF SessionInv, Fresh, Start
<1> QED
  BY <1>2, <1>5, <1>6, <1>7 DEF SessionInv

(* Two stretches of the names, one behind the other. *)
LEMMA NamesJoin ==
    ASSUME ordered \in Seq(Entries), NEW a \in Nat, NEW b \in Nat, a <= b
    PROVE  NamesFrom(0, a) \o NamesFrom(a, b) = NamesFrom(0, b)
<1> DEFINE S == {ByName[i].name : i \in 1..b}
<1>1. /\ NamesFrom(0, a) \in Seq(S) /\ Len(NamesFrom(0, a)) = a
      /\ \A i \in 1..a : NamesFrom(0, a)[i] = ByName[i].name
  <2>1. NamesFrom(0, a) = [i \in 1..a |-> ByName[i].name]
    BY DEF NamesFrom
  <2> QED
    BY <2>1
<1>2. /\ NamesFrom(a, b) \in Seq(S) /\ Len(NamesFrom(a, b)) = b - a
      /\ \A i \in 1..(b - a) : NamesFrom(a, b)[i] = ByName[a + i].name
  BY DEF NamesFrom
<1>3. /\ NamesFrom(0, b) \in Seq(S) /\ Len(NamesFrom(0, b)) = b
      /\ \A i \in 1..b : NamesFrom(0, b)[i] = ByName[i].name
  <2>1. NamesFrom(0, b) = [i \in 1..b |-> ByName[i].name]
    BY DEF NamesFrom
  <2> QED
    BY <2>1
<1> HIDE DEF S
<1>4. PICK s, t : s = NamesFrom(0, a) /\ t = NamesFrom(a, b)
  OBVIOUS
<1>5. /\ s \o t \in Seq(S) /\ Len(s \o t) = b
      /\ \A i \in 1..b : (s \o t)[i] = IF i <= a THEN s[i] ELSE t[i - a]
  <2>1. s \in Seq(S) /\ t \in Seq(S) /\ Len(s) = a /\ Len(t) = b - a
    BY <1>1, <1>2, <1>4
  <2>2. /\ s \o t \in Seq(S) /\ Len(s \o t) = Len(s) + Len(t)
        /\ \A i \in 1..(Len(s) + Len(t)) : (s \o t)[i] = IF i <= Len(s) THEN s[i] ELSE t[i - Len(s)]
    BY <2>1, ConcatProperties
  <2>3. Len(s) + Len(t) = b
    BY <2>1
  <2> QED
    BY <2>1, <2>2, <2>3
<1>6. ASSUME NEW i \in 1..b
      PROVE  (s \o t)[i] = NamesFrom(0, b)[i]
  <2>1. CASE i <= a
    BY <1>1, <1>3, <1>4, <1>5, <2>1
  <2>2. CASE ~(i <= a)
    <3>1. i - a \in 1..(b - a) /\ a + (i - a) = i
      BY <2>2
    <3> QED
      BY <1>2, <1>3, <1>4, <1>5, <2>2, <3>1
  <2> QED
    BY <2>1, <2>2
<1> QED
  BY <1>3, <1>4, <1>5, <1>6, SeqEqual

(* What a page holds, and where the next one begins. *)
LEMMA PageIs ==
    ASSUME ordered \in Seq(Entries), NEW start \in Nat, start <= Len(ordered)
    PROVE  \E end \in start..Len(ordered) :
              /\ Page(start).tools = NamesFrom(start, end)
              /\ \/ end = Len(ordered) /\ Page(start).next = None
                 \/ end \in 1..(Len(ordered) - 1) /\ Page(start).next = end
<1>1. Len(ordered) \in Nat /\ PageSize \in Nat /\ PageSize > 0
  BY SizesAssumption
<1>2. PICK end : end = Least(start + PageSize, Len(ordered))
  OBVIOUS
<1>3. end \in start..Len(ordered) /\ (end < Len(ordered) => end > 0)
  BY <1>1, <1>2 DEF Least
<1>4. /\ Page(start).tools = NamesFrom(start, end)
      /\ Page(start).next = IF end < Len(ordered) THEN end ELSE None
  BY <1>2 DEF Page
<1> QED
  BY <1>1, <1>3, <1>4

LEMMA ListAnswer ==
    ASSUME NEW c
    PROVE  Answers([method |-> "tools/list", params |-> c]) = {ListTools(c)}
BY DEF Answers

(* The reply at the head of the pipe. *)
LEMMA HeadAnswers ==
    ASSUME SessionInv, outbox # <<>>
    PROVE  \E k \in Asking : /\ Head(outbox).framing = sent[k].framing
                             /\ Head(outbox).id = sent[k].id
                             /\ Head(outbox).result \in Answers(sent[k].body)
<1>1. /\ got \in Seq(Reply) /\ outbox \in Seq(Reply) /\ due \in Seq(Reply)
      /\ got \o outbox \in Seq(Reply)
  BY RepliesTypes DEF SessionInv
<1> HIDE DEF Reply
<1>2. PICK n : n = Len(got) + 1
  OBVIOUS
<1>3. /\ Len(got) \in Nat /\ Len(outbox) \in Nat /\ Len(outbox) > 0 /\ Len(due) \in Nat
      /\ Head(outbox) = outbox[1]
  BY <1>1
<1>4. Len(got \o outbox) = Len(got) + Len(outbox) /\ (got \o outbox)[n] = Head(outbox)
  BY <1>1, <1>2, <1>3
<1>5. Len(Replies) = Len(got) + Len(outbox) + Len(due) /\ Replies[n] = Head(outbox)
  <2>1. PICK u : u = got \o outbox
    OBVIOUS
  <2>2. u \in Seq(Reply) /\ Len(u) = Len(got) + Len(outbox) /\ u[n] = Head(outbox) /\ Replies = u \o due
    BY <1>1, <1>4, <2>1 DEF Replies
  <2>3. Len(u) \in Nat /\ n \in 1..Len(u)
    BY <1>2, <1>3, <2>2
  <2>4. Len(u \o due) = Len(u) + Len(due)
    BY <1>1, <2>2, ConcatProperties
  <2>5. n \in 1..(Len(u) + Len(due)) /\ n <= Len(u)
    BY <1>3, <2>3
  <2>6. (u \o due)[n] = u[n]
    BY <1>1, <2>2, <2>5, ConcatProperties
  <2> QED
    BY <2>2, <2>4, <2>6
<1>6. n \in 1..Len(Replies)
  BY <1>2, <1>3, <1>5
<1>7. PICK k \in Asking : Answered(n, k)
  BY <1>6 DEF SessionInv, RepliesInv
<1> QED
  BY <1>5, <1>7 DEF Answered

LEMMA ReceiveKeeps ==
    ASSUME ordered \in Seq(Entries), SessionInv, Receive
    PROVE  SessionInv'
<1>1. /\ outbox # <<>> /\ outbox' = Tail(outbox) /\ got' = Append(got, Head(outbox))
      /\ UNCHANGED <<registry, stage, pending, sent, inbox, closed, due>>
  BY DEF Receive
<1>2. /\ got \in Seq(Reply) /\ outbox \in Seq(Reply) /\ due \in Seq(Reply) /\ Reply' = Reply
      /\ Len(due) <= 1 /\ Len(outbox) <= PipeSize
  BY <1>1, RepliesTypes, AnswersStay DEF SessionInv, RepliesInv
<1>3. /\ MessagesInv /\ WalkInv
      /\ stage = "registering" => Fresh
  BY DEF SessionInv
<1>4. MessagesInv' /\ RepliesInv' /\ Longer
  <2> HIDE DEF Reply
  <2>1. /\ Head(outbox) \in Reply /\ Tail(outbox) \in Seq(Reply) /\ Len(Tail(outbox)) = Len(outbox) - 1
        /\ outbox = <<Head(outbox)>> \o Tail(outbox)
    BY <1>1, <1>2
  <2>2. got' \in Seq(Reply) /\ outbox' \in Seq(Reply) /\ Len(outbox') <= PipeSize
    BY <1>1, <1>2, <2>1, SizesAssumption
  <2>3. got' \o outbox' = got \o outbox
    <3>1. PICK h : h = <<Head(outbox)>>
      OBVIOUS
    <3>2. PICK t : t = Tail(outbox)
      OBVIOUS
    <3>3. h \in Seq(Reply) /\ t \in Seq(Reply) /\ got' = got \o h /\ outbox = h \o t
      BY <1>1, <1>2, <2>1, <3>1, <3>2
    <3>4. (got \o h) \o t = got \o (h \o t)
      BY <1>2, <3>3, ConcatAssociative
    <3> QED
      BY <1>1, <3>2, <3>3, <3>4
  <2>4. Replies' = Replies
    BY <1>1, <2>3 DEF Replies
  <2> QED
    BY <1>1, <1>2, <2>2, <2>4, NothingSent
<1>5. WalkInv'
  <2>1. CASE ~(Head(outbox).id # None /\ Head(outbox).id = walk.asked)
    <3>1. walk' = walk /\ ordered' = ordered
      BY <1>1, <2>1 DEF Receive, registry
    <3> QED
      BY <1>3, <1>4, <3>1, WalkStays
  <2>2. CASE Head(outbox).id # None /\ Head(outbox).id = walk.asked
    <3> DEFINE start == Reached
               page == Head(outbox).result
    <3>1. PICK k \in Asking : /\ Head(outbox).id = sent[k].id
                              /\ page \in Answers(sent[k].body)
      BY <1>1, HeadAnswers
    <3>2. k = walk.asked /\ PageAsked /\ ~walk.done
      <4>1. k \in 1..Len(sent)
        <5>1. Len(sent) \in Nat /\ Len(inbox) \in Nat
          BY <1>3 DEF MessagesInv
        <5> QED
          BY <5>1 DEF Asking
      <4>2. sent[k].id \in {None, k}
        BY <1>3, <4>1 DEF MessagesInv
      <4> QED
        BY <1>3, <2>2, <3>1, <4>2 DEF WalkInv
    <3>3. page = ListTools(walk.cursor)
      BY <3>1, <3>2, ListAnswer DEF PageAsked
    <3>4. Len(ordered) \in Nat /\ walk.cursor \in {None} \cup 1..(Len(ordered) - 1)
      BY <1>3 DEF WalkInv
    <3>5. start \in Nat /\ start <= Len(ordered) /\ page = Page(start)
      BY <3>2, <3>3, <3>4, NamesAssumption DEF Reached, ListTools
    <3>6. PICK end \in start..Len(ordered) :
              /\ Page(start).tools = NamesFrom(start, end)
              /\ \/ end = Len(ordered) /\ Page(start).next = None
                 \/ end \in 1..(Len(ordered) - 1) /\ Page(start).next = end
      <4> HIDE DEF start
      <4> QED
        BY <3>5, PageIs
    <3>7. walk' = [cursor |-> page.next, asked |-> None, pages |-> walk.pages,
                   done |-> page.next = None, listed |-> walk.listed \o page.tools]
      <4>1. walk' = [walk EXCEPT !.cursor = page.next, !.asked = None, !.done = page.next = None,
                                 !.listed = @ \o page.tools]
        BY <2>2 DEF Receive
      <4> HIDE DEF page
      <4> QED
        BY <1>3, <4>1 DEF WalkInv
    <3>8. end \in Nat /\ start <= end
      BY <3>4, <3>5, <3>6
    <3>9. walk.listed \o page.tools = NamesFrom(0, end)
      <4>1. walk.listed = NamesFrom(0, start) /\ page.tools = NamesFrom(start, end)
        BY <1>3, <3>5, <3>6 DEF WalkInv
      <4> HIDE DEF start, page
      <4> QED
        BY <3>5, <3>8, <4>1, NamesJoin
    <3>10. PICK next : next = page.next
      OBVIOUS
    <3>11. next = IF end = Len(ordered) THEN None ELSE end
      BY <3>4, <3>5, <3>6, <3>10
    <3> HIDE DEF start, page
    <3>12. /\ walk'.cursor = next /\ walk'.asked = None /\ walk'.done = (next = None)
           /\ walk'.listed = NamesFrom(0, end)
           /\ walk' = [cursor |-> walk'.cursor, asked |-> walk'.asked, pages |-> walk'.pages,
                       done |-> walk'.done, listed |-> walk'.listed]
      BY <3>7, <3>9, <3>10
    <3>13. ordered' = ordered /\ \A a, b : NamesFrom(a, b)' = NamesFrom(a, b)
      BY <1>1, NamesStay DEF registry
    <3>14. Reached' = end
      BY <3>4, <3>6, <3>8, <3>11, <3>12, <3>13, NamesAssumption DEF Reached
    <3>15. walk'.listed = NamesFrom(0, Reached)'
      BY <3>12, <3>13, <3>14
    <3>16. walk'.cursor \in {None} \cup 1..(Len(ordered') - 1)
      BY <3>4, <3>6, <3>11, <3>12, <3>13
    <3>17. walk'.done \in BOOLEAN
      BY <3>12
    <3> QED
      BY <3>12, <3>15, <3>16, <3>17 DEF WalkInv
  <2> QED
    BY <2>1, <2>2
<1> QED
  BY <1>1, <1>3, <1>4, <1>5 DEF SessionInv, Fresh


(* The message at the head of the pipe is the next one that the server has *)
(* not read.                                                               *)
LEMMA ReadKeeps ==
    ASSUME MessagesInv, inbox # <<>>, UNCHANGED sent, inbox' = Tail(inbox),
           NEW k, k = Head(inbox)
    PROVE  /\ MessagesInv' /\ k \in 1..Len(sent) /\ k = Len(sent) - Len(inbox) + 1
           /\ Len(sent') - Len(inbox') = k
<1>1. /\ sent \in Seq(Message) /\ inbox \in Seq(Nat)
      /\ Len(sent) \in Nat /\ Len(inbox) \in Nat /\ Len(inbox) > 0 /\ Len(inbox) <= Len(sent)
      /\ Len(inbox) <= PipeSize /\ PipeSize \in Nat
  BY SizesAssumption DEF MessagesInv
<1>2. /\ inbox' \in Seq(Nat) /\ Len(inbox') = Len(inbox) - 1
      /\ \A i \in 1..Len(inbox') : inbox'[i] = inbox[i + 1]
      /\ k = inbox[1]
  BY <1>1
<1>3. k = Len(sent) - Len(inbox) + 1 /\ k \in 1..Len(sent) /\ Len(sent) - Len(inbox') = k
  <2>1. inbox[1] = Len(sent) - Len(inbox) + 1
    BY <1>1 DEF MessagesInv
  <2> QED
    BY <1>1, <1>2, <2>1
<1>4. \A i \in 1..Len(inbox') : inbox'[i] = Len(sent) - Len(inbox') + i
  <2>1. TAKE i \in 1..Len(inbox')
  <2>2. i + 1 \in 1..Len(inbox)
    BY <1>1, <1>2
  <2>3. inbox[i + 1] = Len(sent) - Len(inbox) + (i + 1)
    BY <2>2 DEF MessagesInv
  <2> QED
    BY <1>1, <1>2, <2>3
<1>5. MessagesInv'
  <2>1. \A j \in 1..Len(sent) :
          sent[j].id \in {None, j} /\ (sent[j].body = NoHeader => sent[j].id = None)
    BY DEF MessagesInv
  <2>2. Len(inbox') <= Len(sent) /\ Len(inbox') <= PipeSize
    BY <1>1, <1>2
  <2>3. sent' \in Seq(Message)'
    BY <1>1 DEF Message, Bodies, Junk, NoHeader, Framings
  <2> QED
    BY <1>1, <1>2, <1>4, <2>1, <2>2, <2>3 DEF MessagesInv, NoHeader
<1> QED
  BY <1>3, <1>5

(* With it one more message asks for an answer, or none.                   *)
LEMMA AskingGrows ==
    ASSUME MessagesInv, UNCHANGED sent, NEW k, k \in 1..Len(sent),
           k = Len(sent) - Len(inbox) + 1, Len(sent') - Len(inbox') = k
    PROVE  /\ IsFiniteSet(Asking) /\ Cardinality(Asking) \in Nat
           /\ \A j \in Asking : j \in Asking' /\ Upto(j)' = Upto(j)
           /\ ~Owed(sent[k]) => Asking' = Asking
           /\ Owed(sent[k]) => /\ k \in Asking' /\ Upto(k)' = Asking'
                               /\ Cardinality(Asking') = Cardinality(Asking) + 1
<1> DEFINE n == Len(sent) - Len(inbox)
           new == IF Owed(sent[k]) THEN {k} ELSE {}
<1>1. Len(sent) \in Nat /\ Len(inbox) \in Nat /\ n \in Nat /\ k = n + 1
  BY DEF MessagesInv
<1>2. Asking = {j \in 1..n : Owed(sent[j])} /\ Asking' = {j \in 1..k : Owed(sent[j])}
  BY DEF Asking, Owed, Junk
<1> HIDE DEF n
<1>3. 1..k = 1..n \cup {k} /\ k \notin 1..n /\ \A j \in 1..n : j < k
  BY <1>1
<1>4. Asking' = Asking \cup new /\ k \notin Asking /\ \A j \in Asking : j < k /\ j \in Nat
  BY <1>1, <1>2, <1>3
<1>5. IsFiniteSet(Asking) /\ Cardinality(Asking) \in Nat
  <2>1. IsFiniteSet(1..n)
    BY <1>1, FS_Interval
  <2>2. Asking \subseteq 1..n
    BY <1>2
  <2> QED
    BY <2>1, <2>2, FS_Subset, FS_CardinalityType
<1>6. \A j \in Asking : j \in Asking' /\ Upto(j)' = Upto(j)
  <2>1. TAKE j \in Asking
  <2>2. {i \in Asking' : i <= j} = {i \in Asking : i <= j}
    BY <1>1, <1>4
  <2> QED
    BY <1>4, <2>2 DEF Upto
<1>7. ASSUME Owed(sent[k])
      PROVE  /\ k \in Asking' /\ Upto(k)' = Asking'
             /\ Cardinality(Asking') = Cardinality(Asking) + 1
  <2>1. Asking' = Asking \cup {k}
    BY <1>4, <1>7
  <2>2. {i \in Asking' : i <= k} = Asking'
    BY <1>1, <1>4, <2>1
  <2>3. Cardinality(Asking \cup {k}) = Cardinality(Asking) + 1
    BY <1>4, <1>5, FS_AddElement
  <2> QED
    BY <2>1, <2>2, <2>3 DEF Upto
<1> QED
  BY <1>4, <1>5, <1>6, <1>7

(* The replies there were answer the messages they answered. *)
LEMMA AnsweredStays ==
    ASSUME RepliesInv, MessagesInv, UNCHANGED <<registry, sent>>,
           \A j \in Asking : Upto(j)' = Upto(j),
           NEW i \in 1..Len(Replies), Replies'[i] = Replies[i],
           NEW j \in Asking, Answered(i, j)
    PROVE  Answered(i, j)'
<1>1. \A b : Answers(b)' = Answers(b)
  BY AnswersStay
<1> QED
  BY <1>1 DEF Answered

LEMMA HandleKeeps ==
    ASSUME ordered \in Seq(Entries), SessionInv, Handle
    PROVE  SessionInv'
<1>1. /\ stage = "serving" /\ due = <<>> /\ inbox # <<>> /\ inbox' = Tail(inbox)
      /\ UNCHANGED <<registry, pending, sent, closed, outbox, got, walk>>
  BY DEF Handle
<1>2. MessagesInv /\ RepliesInv /\ WalkInv
  BY DEF SessionInv
<1>3. PICK k : k = Head(inbox)
  OBVIOUS
<1>4. /\ MessagesInv' /\ k \in 1..Len(sent) /\ k = Len(sent) - Len(inbox) + 1
      /\ Len(sent') - Len(inbox') = k
  BY <1>1, <1>2, <1>3, ReadKeeps
<1>5. /\ Cardinality(Asking) \in Nat
      /\ \A j \in Asking : j \in Asking' /\ Upto(j)' = Upto(j)
      /\ ~Owed(sent[k]) => Asking' = Asking
      /\ Owed(sent[k]) => /\ k \in Asking' /\ Upto(k)' = Asking'
                          /\ Cardinality(Asking') = Cardinality(Asking) + 1
  BY <1>1, <1>2, <1>4, AskingGrows
<1>6. Longer
  <2>1. Len(sent) \in Nat
    BY <1>2 DEF MessagesInv
  <2> QED
    BY <1>1, <2>1 DEF Longer
<1>7. WalkInv'
  BY <1>1, <1>2, <1>4, <1>6, WalkStays DEF registry
<1>8. /\ got \in Seq(Reply) /\ outbox \in Seq(Reply) /\ got \o outbox \in Seq(Reply)
      /\ Replies \in Seq(Reply) /\ Len(outbox) <= PipeSize
      /\ Reply' = Reply /\ \A b : Answers(b)' = Answers(b)
  BY <1>1, <1>2, RepliesTypes, AnswersStay DEF RepliesInv
<1>9. Replies = got \o outbox /\ Len(Replies) \in Nat /\ Len(Replies) = Cardinality(Asking)
  <2> HIDE DEF Reply
  <2>1. (got \o outbox) \o <<>> = got \o outbox
    BY <1>8, ConcatEmptySeq
  <2>2. Len(Replies) \in Nat
    BY <1>8
  <2> QED
    BY <1>1, <1>2, <2>1, <2>2 DEF Replies, RepliesInv
<1>10. (* nothing is answered *)
       ASSUME due' = <<>>, Owed(sent[k]) => stage' = "failed"
       PROVE  RepliesInv'
  <2>1. Replies' = Replies
    BY <1>1, <1>10 DEF Replies
  <2>2. \A i \in 1..Len(Replies') : \E j \in Asking' : Answered(i, j)'
    <3>1. TAKE i \in 1..Len(Replies')
    <3>2. i \in 1..Len(Replies) /\ Replies'[i] = Replies[i]
      BY <2>1
    <3>3. PICK j \in Asking : Answered(i, j)
      BY <1>2, <3>2 DEF RepliesInv
    <3>4. \A l \in Asking : Upto(l)' = Upto(l)
      BY <1>5
    <3>5. Answered(i, j)'
      BY <1>1, <1>2, <3>2, <3>3, <3>4, AnsweredStays
    <3> QED
      BY <1>5, <3>5
  <2>3. \/ Len(Replies') = Cardinality(Asking')
        \/ stage' = "failed" /\ Len(Replies') = Cardinality(Asking') - 1
    BY <1>5, <1>9, <1>10, <2>1
  <2>4. got' \in Seq(Reply') /\ outbox' \in Seq(Reply') /\ due' \in Seq(Reply')
    <3> HIDE DEF Reply
    <3> QED
      BY <1>1, <1>8, <1>10
  <2>5. Len(due') <= 1 /\ Len(outbox') <= PipeSize
    BY <1>1, <1>8, <1>10
  <2> QED
    BY <2>2, <2>3, <2>4, <2>5 DEF RepliesInv
<1>11. (* one more reply *)
       ASSUME NEW r, r \in Reply, due' = <<r>>, Owed(sent[k]),
              r.framing = sent[k].framing, r.id = sent[k].id, r.result \in Answers(sent[k].body)
       PROVE  RepliesInv'
  <2> HIDE DEF Reply
  <2>1. /\ Replies' = Replies \o <<r>>
        /\ Len(Replies') = Len(Replies) + 1
        /\ Replies'[Len(Replies) + 1] = r
        /\ \A i \in 1..Len(Replies) : Replies'[i] = Replies[i]
    <3>1. Replies' = Replies \o <<r>>
      BY <1>1, <1>9, <1>11 DEF Replies
    <3>2. PICK u : u = Replies
      OBVIOUS
    <3>3. u \in Seq(Reply) /\ r \in Reply /\ Len(u) \in Nat
      BY <1>8, <1>9, <1>11, <3>2
    <3>4. /\ Len(u \o <<r>>) = Len(u) + 1 /\ (u \o <<r>>)[Len(u) + 1] = r
          /\ \A i \in 1..Len(u) : (u \o <<r>>)[i] = u[i]
      BY <3>3
    <3> QED
      BY <3>1, <3>2, <3>4
  <2>2. \A i \in 1..Len(Replies') : \E j \in Asking' : Answered(i, j)'
    <3>1. TAKE i \in 1..Len(Replies')
    <3>2. i \in 1..Len(Replies) \/ i = Len(Replies) + 1
      BY <1>9, <2>1
    <3>3. CASE i \in 1..Len(Replies)
      <4>1. PICK j \in Asking : Answered(i, j)
        BY <1>2, <3>3 DEF RepliesInv
      <4>2. \A l \in Asking : Upto(l)' = Upto(l)
        BY <1>5
      <4>3. Replies'[i] = Replies[i]
        BY <2>1, <3>3
      <4>4. Answered(i, j)'
        BY <1>1, <1>2, <3>3, <4>1, <4>2, <4>3, AnsweredStays
      <4> QED
        BY <1>5, <4>4
    <3>4. CASE i = Len(Replies) + 1
      <4>1. Cardinality(Upto(k)') = i
        BY <1>5, <1>9, <1>11, <3>4
      <4>2. Replies'[i] = r /\ sent' = sent /\ r.result \in Answers(sent[k].body)'
        BY <1>1, <1>8, <1>11, <2>1, <3>4
      <4>3. Answered(i, k)'
        BY <1>11, <4>1, <4>2 DEF Answered
      <4> QED
        BY <1>5, <1>11, <4>3
    <3> QED
      BY <3>2, <3>3, <3>4
  <2>3. Len(Replies') = Cardinality(Asking')
    BY <1>5, <1>9, <1>11, <2>1
  <2>4. got' \in Seq(Reply') /\ outbox' \in Seq(Reply') /\ due' \in Seq(Reply')
    BY <1>1, <1>8, <1>11
  <2>5. Len(due') <= 1 /\ Len(outbox') <= PipeSize
    BY <1>1, <1>8, <1>11
  <2> QED
    BY <2>2, <2>3, <2>4, <2>5 DEF RepliesInv
<1>12. sent[k] \in Message /\ (sent[k].body = NoHeader => sent[k].id = None)
  <2> HIDE DEF Message
  <2> QED
    BY <1>2, <1>4 DEF MessagesInv
<1>13. RepliesInv' /\ stage' \in {"serving", "failed"}
  <2>1. CASE sent[k].body = NoHeader
    <3>1. stage' = "failed" /\ due' = <<>>
      BY <1>1, <1>3, <2>1 DEF Handle
    <3> QED
      BY <3>1, <1>10
  <2>2. CASE sent[k].body # NoHeader
    <3>1. PICK result \in Answers(sent[k].body) :
             IF result = Panic THEN stage' = "failed" /\ UNCHANGED due
             ELSE /\ due' = IF Owed(sent[k])
                            THEN <<[framing |-> sent[k].framing, id |-> sent[k].id,
                                    result |-> result]>>
                            ELSE <<>>
                  /\ UNCHANGED stage
      BY <1>3, <2>2 DEF Handle
    <3>2. CASE result = Panic
      BY <1>1, <1>10, <3>1, <3>2
    <3>3. CASE result # Panic /\ ~Owed(sent[k])
      BY <1>1, <1>10, <3>1, <3>3
    <3>4. CASE result # Panic /\ Owed(sent[k])
      <4>1. PICK r : r = [framing |-> sent[k].framing, id |-> sent[k].id, result |-> result]
        OBVIOUS
      <4>2. sent[k].framing \in Framings /\ sent[k].id \in {None} \cup Nat /\ sent[k].body \in Bodies
        BY <1>12 DEF Message
      <4>3. result \in Results
        BY <3>1, <4>2 DEF Results
      <4>4. r \in Reply /\ r.framing = sent[k].framing /\ r.id = sent[k].id /\ r.result = result
        BY <4>1, <4>2, <4>3 DEF Reply
      <4>5. due' = <<r>> /\ stage' = "serving"
        BY <1>1, <3>1, <3>4, <4>1
      <4> QED
        BY <1>11, <3>1, <3>4, <4>4, <4>5
    <3> QED
      BY <3>2, <3>3, <3>4
  <2> QED
    BY <2>1, <2>2
<1>14. stage' # "registering"
  BY <1>13
<1>15. closed' \in {"no", "clean", "in body"}
  BY <1>1 DEF SessionInv
<1> QED
  BY <1>4, <1>7, <1>13, <1>14, <1>15 DEF SessionInv

(* Registering happens before the session starts. *)
LEMMA StartedNext ==
    (ordered \in Seq(Entries) /\ Fresh => MessagesInv /\ RepliesInv /\ WalkInv)'
<1>1. ordered \in Seq(Entries) /\ Fresh => MessagesInv /\ RepliesInv /\ WalkInv
  BY Started
<1> QED
  BY <1>1, PTL

LEMMA RegisterNextKeeps ==
    ASSUME ordered' \in Seq(Entries), SessionInv, RegisterNext
    PROVE  SessionInv'
<1>1. Fresh' /\ stage' \in {"registering", "failed"} /\ closed' \in {"no", "clean", "in body"}
  BY DEF RegisterNext, SessionInv, Fresh, Start, pipes
<1>2. MessagesInv' /\ RepliesInv' /\ WalkInv'
  <2>1. (ordered \in Seq(Entries))'
    BY DEF Entries
  <2> QED
    BY <1>1, <2>1, StartedNext
<1> QED
  BY <1>1, <1>2 DEF SessionInv

LEMMA SessionInitially == Init => SessionInv
<1> SUFFICES ASSUME Init PROVE SessionInv
  OBVIOUS
<1>1. Fresh /\ stage = "registering" /\ closed = "no"
  BY DEF Init, Fresh, Start
<1>2. ordered \in Seq(Entries)
  BY Initially DEF IInv
<1> QED
  BY <1>1, <1>2, Started DEF SessionInv

LEMMA SessionPreserved == IInv /\ SessionInv /\ [Next]_vars => SessionInv'
<1> SUFFICES ASSUME IInv, SessionInv, [Next]_vars PROVE SessionInv'
  OBVIOUS
<1>1. ordered \in Seq(Entries) /\ ordered' \in Seq(Entries)
  <2>1. IInv'
    BY Preserved
  <2> QED
    BY <2>1 DEF IInv, Entries
<1>2. CASE RegisterNext
  BY <1>1, <1>2, RegisterNextKeeps
<1>3. CASE Serve \/ End \/ Close \/ UNCHANGED vars
  BY <1>1, <1>3, QuietKeeps
<1>4. CASE Handle
  BY <1>1, <1>4, HandleKeeps
<1>5. CASE Write
  BY <1>1, <1>5, WriteKeeps
<1>6. CASE Send
  BY <1>1, <1>6, SendKeeps
<1>7. CASE AskPage
  BY <1>1, <1>7, AskPageKeeps
<1>8. CASE Receive
  BY <1>1, <1>8, ReceiveKeeps
<1> QED
  BY <1>2, <1>3, <1>4, <1>5, <1>6, <1>7, <1>8 DEF Next

-----------------------------------------------------------------------------
(* What the invariants give the client *)

(* The registry holds names only. *)
NamesInv ==
    /\ modules \in Seq(DOMAIN Trimmed)
    /\ \A n \in DOMAIN tools : tools[n] \in DOMAIN Trimmed

LEMMA NamesPreserved == IInv /\ NamesInv /\ [Next]_vars => NamesInv'
<1> SUFFICES ASSUME IInv, NamesInv, [Next]_vars PROVE NamesInv'
  OBVIOUS
<1>1. CASE UNCHANGED registry
  BY <1>1 DEF registry, NamesInv
<1>2. CASE ~UNCHANGED registry
  <2>1. RegisterNext
    BY <1>2 DEF Next, vars, Serve, Handle, Write, End, Send, AskPage, Receive, Close
  <2>2. pending \in Seq(Modules) /\ pending # <<>>
    BY <2>1 DEF RegisterNext, IInv
  <2>3. PICK m : m = Head(pending)
    OBVIOUS
  <2>4. m \in Modules
    BY <2>2, <2>3
  <2>5. m.name \in DOMAIN Trimmed
    BY <2>4 DEF Modules
  <2>6. Add(m)
    BY <1>2, <2>1, <2>3 DEF RegisterNext, Register
  <2>7. modules' \in Seq(DOMAIN Trimmed)
    BY <2>5, <2>6 DEF Add, NamesInv
  <2>8. \A n \in DOMAIN tools' : tools'[n] \in DOMAIN Trimmed
    BY <2>5, <2>6 DEF Add, NamesInv
  <2> QED
    BY <2>7, <2>8 DEF NamesInv
<1> QED
  BY <1>1, <1>2

AllInv == IInv /\ NamesInv /\ SessionInv

LEMMA AlwaysAllInv == Spec => []AllInv
<1>1. Init => AllInv
  <2>1. Init => NamesInv
    BY DEF Init, NewRegistry, NamesInv
  <2> QED
    BY <2>1, Initially, SessionInitially DEF AllInv
<1>2. AllInv /\ [Next]_vars => AllInv'
  <2>1. AllInv /\ [Next]_vars => IInv' /\ NamesInv' /\ SessionInv'
    BY Preserved, NamesPreserved, SessionPreserved DEF AllInv
  <2> QED
    BY <2>1 DEF AllInv
<1> QED
  BY <1>1, <1>2, PTL DEF Spec

(* The registry and the pipes hold what they should, no pipe more than it  *)
(* can, and the cursor of a walk lies inside the list (TypeOK).            *)
THEOREM SessionTyped == Spec => []TypeOK
<1>1. AllInv => TypeOK
  <2> SUFFICES ASSUME AllInv PROVE TypeOK
    OBVIOUS
  <2>1. IInv /\ NamesInv /\ SessionInv
    BY DEF AllInv
  <2>2. MessagesInv /\ RepliesInv /\ WalkInv
    BY <2>1 DEF SessionInv
  <2>3. RegistryTypeOK
    <3>1. ordered \in Seq([namespace : DOMAIN Trimmed, name : DOMAIN Trimmed])
      BY <2>1 DEF IInv, Entries
    <3>2. DOMAIN tools \subseteq DOMAIN Trimmed
      <4>1. DOMAIN tools = {ordered[i].name : i \in DOMAIN ordered}
        BY <2>1 DEF IInv, OneOwner
      <4>2. \A i \in DOMAIN ordered : ordered[i].name \in DOMAIN Trimmed
        <5>1. ordered \in Seq(Entries) /\ DOMAIN ordered = 1..Len(ordered)
          BY <2>1 DEF IInv
        <5>2. \A i \in 1..Len(ordered) : ordered[i] \in Entries
          BY <5>1, ElementOfSeq
        <5> QED
          BY <5>1, <5>2 DEF Entries
      <4> QED
        BY <4>1, <4>2
    <3> QED
      BY <2>1, <3>1, <3>2 DEF RegistryTypeOK, NamesInv
  <2>4. \A i \in DOMAIN inbox : inbox[i] \in DOMAIN sent
    <3>1. /\ Len(sent) \in Nat /\ Len(inbox) \in Nat
          /\ DOMAIN inbox = 1..Len(inbox) /\ DOMAIN sent = 1..Len(sent)
      BY <2>2 DEF MessagesInv
    <3>2. /\ Len(inbox) <= Len(sent)
          /\ \A i \in 1..Len(inbox) : inbox[i] = Len(sent) - Len(inbox) + i
      BY <2>2 DEF MessagesInv
    <3> QED
      BY <3>1, <3>2
  <2>5. Len(inbox) <= PipeSize /\ Len(outbox) <= PipeSize
    BY <2>2 DEF MessagesInv, RepliesInv
  <2>6. walk.cursor \in {None} \cup 1..(Len(ordered) - 1)
    BY <2>2 DEF WalkInv
  <2> QED
    BY <2>1, <2>3, <2>4, <2>5, <2>6 DEF TypeOK, SessionInv
<1> QED
  BY <1>1, AlwaysAllInv, PTL

(* A client that follows the cursors, with whatever other requests between *)
(* the pages and however late it reads, lists the names in their order,    *)
(* each once and all of them by the last page (WalkListsAll).              *)
THEOREM WalkIsComplete == Spec => []WalkListsAll
<1>1. AllInv => WalkListsAll
  <2> SUFFICES ASSUME AllInv PROVE WalkListsAll
    OBVIOUS
  <2>1. IInv /\ WalkInv
    BY DEF AllInv, SessionInv
  <2>2. Len(ordered) \in Nat /\ walk.cursor \in {None} \cup 1..(Len(ordered) - 1)
    BY <2>1 DEF IInv, WalkInv
  <2>3. Reached \in Nat /\ Reached <= Len(ordered) /\ (walk.done => Reached = Len(ordered))
    BY <2>2 DEF Reached
  <2>4. walk.listed = NamesFrom(0, Reached)
    BY <2>1 DEF WalkInv
  <2>5. \A n \in Nat : Len(NamesFrom(0, n)) = n
    BY DEF NamesFrom
  <2>6. Len(walk.listed) = Reached
    BY <2>3, <2>4, <2>5
  <2> QED
    BY <2>3, <2>4, <2>6 DEF WalkListsAll
<1> QED
  BY <1>1, AlwaysAllInv, PTL

(* Only what is not JSON is answered with a parse error. *)
LEMMA ParseErrorOnlyForJunk ==
    ASSUME NEW b \in Bodies, NEW result \in Answers(b)
    PROVE  result = ParseError <=> b = Junk
<1>1. CASE b = Junk
  BY <1>1 DEF Answers, Junk
<1>2. CASE b # Junk
  <2>1. b.method # "junk"
    <3>1. CASE b \in Requests
      BY <3>1, RequestsAssumption
    <3>2. CASE b = NoHeader
      BY <3>2 DEF NoHeader
    <3>3. CASE b \in {[method |-> "tools/list", params |-> c] : c \in {None} \cup Nat}
      BY <3>3
    <3> QED
      BY <1>2, <3>1, <3>2, <3>3 DEF Bodies
  <2>2. ParseError = [error |-> -32700]
    BY DEF ParseError, Error
  <2>3. DOMAIN ParseError = {"error"} /\ ParseError.error = -32700
    BY <2>2
  <2>4. /\ NoMethod # ParseError /\ InvalidParams # ParseError /\ Unencodable # ParseError
    BY <2>3 DEF NoMethod, InvalidParams, Unencodable, Error
  <2>5. Failed # ParseError /\ Unknown # ParseError /\ Panic # ParseError
    BY <2>3 DEF Failed, Unknown, Panic
  <2>6. \A x : /\ [fixed |-> x] # ParseError /\ [content |-> x] # ParseError
               /\ [schema |-> x] # ParseError /\ [ranBy |-> x] # ParseError
               /\ [found |-> x] # ParseError
    BY <2>3
  <2>7. \A x, y : [tools |-> x, next |-> y] # ParseError
    BY <2>3
  <2>8. \A c : ListTools(c) # ParseError
    BY <2>4, <2>7 DEF ListTools, Page
  <2>9. \A p : Search(p) # ParseError
    BY <2>5, <2>6 DEF Search
  <2>10. \A n : SchemaOf(n) # ParseError
    BY <2>5, <2>6 DEF SchemaOf
  <2> HIDE DEF ParseError, Error, NoMethod, InvalidParams, Unencodable, Failed, Unknown, Panic
  <2>11. \A p : ParseError \notin Call(p)
    BY <2>4, <2>5, <2>6, <2>9, <2>10 DEF Call
  <2> QED
    BY <1>2, <2>1, <2>4, <2>5, <2>6, <2>8, <2>11 DEF Answers
<1> QED
  BY <1>1, <1>2

(* Whatever the client sends and however the two sides take turns, the     *)
(* replies answer, one each and in order, the messages that ask for one    *)
(* (AnsweredInOrder); only the message the program dies of may have none.  *)
THEOREM RepliesInOrder == Spec => []AnsweredInOrder
<1>1. AllInv => AnsweredInOrder
  <2> SUFFICES ASSUME AllInv PROVE AnsweredInOrder
    OBVIOUS
  <2>1. MessagesInv /\ RepliesInv
    BY DEF AllInv, SessionInv
  <2>2. /\ \/ Len(Replies) = Cardinality(Asking)
           \/ stage = "failed" /\ Len(Replies) = Cardinality(Asking) - 1
        /\ \A i \in 1..Len(Replies) : \E k \in Asking : Answered(i, k)
    BY <2>1 DEF RepliesInv
  <2>3. DOMAIN Replies = 1..Len(Replies)
    <3>1. Replies \in Seq(Reply)
      BY <2>1, RepliesTypes
    <3> HIDE DEF Reply
    <3> QED
      BY <3>1
  <2>4. ASSUME NEW i \in DOMAIN Replies
        PROVE  \E k \in Asking :
                 /\ Cardinality(Upto(k)) = i
                 /\ Replies[i].framing = sent[k].framing
                 /\ Replies[i].id = sent[k].id
                 /\ Replies[i].result = ParseError <=> sent[k].body = Junk
    <3>1. PICK k \in Asking : Answered(i, k)
      BY <2>2, <2>3
    <3>2. sent[k].body \in Bodies
      <4>1. k \in 1..Len(sent) /\ sent \in Seq(Message)
        BY <2>1 DEF Asking, MessagesInv
      <4>2. sent[k] \in Message
        BY <4>1
      <4> QED
        BY <4>2 DEF Message
    <3>3. Replies[i].result \in Answers(sent[k].body)
      BY <3>1 DEF Answered
    <3>4. Replies[i].result = ParseError <=> sent[k].body = Junk
      BY <3>2, <3>3, ParseErrorOnlyForJunk
    <3> QED
      BY <3>1, <3>4 DEF Answered
  <2> QED
    BY <2>2, <2>4 DEF AnsweredInOrder
<1> QED
  BY <1>1, AlwaysAllInv, PTL

(* Only an accepted search answers with what it found. *)
LEMMA FoundBySearch ==
    ASSUME NEW b \in Bodies, NEW result \in Answers(b), "found" \in DOMAIN result
    PROVE  /\ b.method = "tools/call" /\ b.params \notin {None, Malformed}
           /\ b.params.name \in {"tool_catalog", "tool_search"}
           /\ b.params.arguments # Malformed
           /\ result = IF b.params.arguments = None THEN Search(NoFilter)
                       ELSE Search(b.params.arguments)
           /\ IF b.params.arguments = None THEN Accepted(NoFilter)
              ELSE Accepted(b.params.arguments)
<1>1. /\ "found" \notin DOMAIN ParseError /\ "found" \notin DOMAIN NoMethod
      /\ "found" \notin DOMAIN InvalidParams /\ "found" \notin DOMAIN Unencodable
  BY DEF ParseError, NoMethod, InvalidParams, Unencodable, Error
<1>2. "found" \notin DOMAIN Failed /\ "found" \notin DOMAIN Unknown /\ "found" \notin DOMAIN Panic
  BY DEF Failed, Unknown, Panic
<1>3. \A x : /\ "found" \notin DOMAIN [fixed |-> x] /\ "found" \notin DOMAIN [content |-> x]
             /\ "found" \notin DOMAIN [schema |-> x] /\ "found" \notin DOMAIN [ranBy |-> x]
  OBVIOUS
<1>4. \A x, y : "found" \notin DOMAIN [tools |-> x, next |-> y]
  OBVIOUS
<1>5. \A c : "found" \notin DOMAIN ListTools(c)
  BY <1>1, <1>4 DEF ListTools, Page
<1>6. \A n : "found" \notin DOMAIN SchemaOf(n)
  BY <1>2, <1>3 DEF SchemaOf
<1>7. \A p : "found" \in DOMAIN Search(p) => Accepted(p)
  BY <1>2 DEF Search
<1> HIDE DEF ParseError, Error, NoMethod, InvalidParams, Unencodable, Failed, Unknown, Panic
<1>8. b.method = "tools/call" /\ b.params \notin {None, Malformed} /\ result \in Call(b.params)
  BY <1>1, <1>2, <1>3, <1>5 DEF Answers
<1>9. /\ b.params.name \in {"tool_catalog", "tool_search"}
      /\ result = IF b.params.arguments = Malformed THEN Failed
                  ELSE IF b.params.arguments = None THEN Search(NoFilter)
                  ELSE Search(b.params.arguments)
  BY <1>1, <1>2, <1>3, <1>6, <1>8 DEF Call
<1>10. b.params.arguments # Malformed
  BY <1>2, <1>9
<1> QED
  BY <1>7, <1>8, <1>9, <1>10

(* What a search that is accepted returns. *)
LEMMA SearchReturns ==
    ASSUME ordered \in Seq(Entries), NEW p, Accepted(p), Limit(p) \in Nat,
           NEW K, K = {k \in DOMAIN ordered : Found(p, ordered[k])}
    PROVE  /\ Search(p).found \in Seq(Entries)
           /\ Len(Search(p).found) = Least(Limit(p), Cardinality(K))
           /\ \A i \in DOMAIN Search(p).found : \E w \in K : ordered[w] = Search(p).found[i]
<1>1. K \subseteq Places
  BY DEF Places
<1>2. PICK found : found = ByNamespace(K)
  OBVIOUS
<1>3. /\ found \in Seq(Entries) /\ Len(found) = Cardinality(K)
      /\ \A i \in 1..Cardinality(K) : \E k \in K : found[i] = ordered[k]
      /\ Cardinality(K) \in Nat
  BY <1>1, <1>2, SortedByNamespace, PlacesFinite
<1>4. PICK n : n = Least(Limit(p), Cardinality(K))
  OBVIOUS
<1>5. n \in Nat /\ n <= Cardinality(K)
  BY <1>3, <1>4 DEF Least
<1>6. Search(p).found = SubSeq(found, 1, n)
  <2>1. Search(p) = [found |-> SubSeq(ByNamespace(K), 1, Least(Limit(p), Len(ByNamespace(K))))]
    BY DEF Search
  <2> QED
    <3>1. Len(ByNamespace(K)) = Cardinality(K)
      BY <1>2, <1>3
    <3>2. Search(p).found = SubSeq(ByNamespace(K), 1, Least(Limit(p), Len(ByNamespace(K))))
      <4>1. \A x : [found |-> x].found = x
        OBVIOUS
      <4> QED
        BY <2>1, <4>1, Zenon
    <3> QED
      BY <1>2, <1>4, <3>1, <3>2, Zenon
<1> HIDE DEF Entries
<1>7. /\ SubSeq(found, 1, n) \in Seq(Entries) /\ Len(SubSeq(found, 1, n)) = n
      /\ \A i \in 1..n : SubSeq(found, 1, n)[i] = found[i]
  <2>1. \A i \in 1..n : found[i] \in Entries
    BY <1>3, <1>5, ElementOfSeq
  <2>2. /\ SubSeq(found, 1, n) \in Seq(Entries)
        /\ Len(SubSeq(found, 1, n)) = IF 1 <= n THEN n - 1 + 1 ELSE 0
        /\ \A i \in 1..(n - 1 + 1) : SubSeq(found, 1, n)[i] = found[1 + i - 1]
    BY <1>5, <2>1, SubSeqProperties
  <2>3. n - 1 + 1 = n /\ \A i \in 1..n : 1 + i - 1 = i
    BY <1>5
  <2> QED
    BY <1>5, <2>2, <2>3
<1>8. DOMAIN SubSeq(found, 1, n) = 1..n
  BY <1>5, <1>7
<1>9. \A i \in 1..n : \E w \in K : ordered[w] = SubSeq(found, 1, n)[i]
  <2>1. TAKE i \in 1..n
  <2>2. i \in 1..Cardinality(K) /\ SubSeq(found, 1, n)[i] = found[i]
    BY <1>3, <1>5, <1>7
  <2> QED
    BY <1>3, <2>2, Zenon
<1> QED
  BY <1>4, <1>6, <1>7, <1>8, <1>9

(* The answer to a search lists, up to its limit, just the tools that pass *)
(* the filters, and each of them can be called in the module under whose   *)
(* namespace it is shown (SearchIsExact).                                  *)
THEOREM SearchesAreExact == Spec => []SearchIsExact
<1>1. AllInv => SearchIsExact
  <2> SUFFICES ASSUME AllInv,
                      NEW i \in DOMAIN got, got[i].id # None, "found" \in DOMAIN got[i].result
               PROVE  LET found == got[i].result.found
                          p == sent[got[i].id].body.params.arguments
                          wanted == {k \in DOMAIN ordered : p = None \/ Found(p, ordered[k])}
                          limit == IF p = None THEN DefaultLimit ELSE Limit(p)
                      IN  /\ Len(found) = Least(limit, Cardinality(wanted))
                          /\ \A k \in DOMAIN found :
                                /\ \E w \in wanted : ordered[w] = found[k]
                                /\ Tidy => Trimmed[tools[found[k].name]] = found[k].namespace
    BY DEF SearchIsExact
  <2>1. MessagesInv /\ RepliesInv /\ ordered \in Seq(Entries) /\ OneOwner
    BY DEF AllInv, SessionInv, IInv
  <2>2. PICK k \in 1..Len(sent) : /\ sent[k].body \in Bodies /\ got[i].id = k
                                  /\ got[i].result \in Answers(sent[k].body)
    <3>1. i \in 1..Len(Replies) /\ Replies[i] = got[i]
      <4>1. /\ got \in Seq(Reply) /\ outbox \in Seq(Reply) /\ due \in Seq(Reply)
            /\ Replies = got \o (outbox \o due)
        BY <2>1, RepliesTypes
      <4> HIDE DEF Reply
      <4>2. PICK u : u = outbox \o due
        OBVIOUS
      <4>3. u \in Seq(Reply) /\ Replies = got \o u
        BY <4>1, <4>2, ConcatProperties
      <4>4. Len(got) \in Nat /\ Len(u) \in Nat /\ i \in 1..Len(got)
        BY <4>1, <4>3
      <4>5. Len(got \o u) = Len(got) + Len(u)
        BY <4>1, <4>3, ConcatProperties
      <4>6. i \in 1..(Len(got) + Len(u)) /\ i <= Len(got)
        BY <4>4
      <4>7. (got \o u)[i] = got[i]
        BY <4>1, <4>3, <4>6, ConcatProperties
      <4> QED
        BY <4>3, <4>5, <4>6, <4>7
    <3>2. PICK k \in Asking : Answered(i, k)
      BY <2>1, <3>1 DEF RepliesInv
    <3>3. Len(sent) \in Nat /\ Len(inbox) \in Nat /\ sent \in Seq(Message)
      BY <2>1 DEF MessagesInv
    <3>4. k \in 1..Len(sent)
      BY <3>3 DEF Asking
    <3>5. sent[k] \in Message
      <4> HIDE DEF Message
      <4> QED
        BY <3>3, <3>4
    <3>6. sent[k].id \in {None, k}
      BY <2>1, <3>4 DEF MessagesInv
    <3> QED
      BY <3>1, <3>2, <3>4, <3>5, <3>6 DEF Answered, Message
  <2> DEFINE p == sent[k].body.params.arguments
             q == IF p = None THEN NoFilter ELSE p
             found == got[i].result.found
             wanted == {w \in DOMAIN ordered : p = None \/ Found(p, ordered[w])}
             limit == IF p = None THEN DefaultLimit ELSE Limit(p)
  <2>3. /\ sent[k].body.method = "tools/call"
        /\ p # None => IsSearch(sent[k].body.params)
        /\ got[i].result = Search(q) /\ Accepted(q)
    BY <2>2, FoundBySearch DEF IsSearch
  <2>4. wanted = {w \in DOMAIN ordered : Found(q, ordered[w])}
    BY DEF Found, Admits, NoFilter
  <2>5. limit = Limit(q) /\ Limit(q) \in Nat
    <3>1. CASE p = None
      BY <3>1, SizesAssumption DEF Limit, NoFilter
    <3>2. CASE p # None
      <4>1. sent[k].body \in Requests
        <5>1. PICK b : b = sent[k].body
          OBVIOUS
        <5>2. b \in Bodies /\ b.method = "tools/call"
          BY <2>2, <2>3, <5>1
        <5>3. b # Junk /\ b # NoHeader
          <6>1. Junk.method = "junk" /\ NoHeader.method = "no header"
            BY DEF Junk, NoHeader
          <6> QED
            BY <5>2, <6>1
        <5>4. b \notin {[method |-> "tools/list", params |-> c] : c \in {None} \cup Nat}
          BY <5>2
        <5> QED
          BY <5>1, <5>2, <5>3, <5>4 DEF Bodies
      <4>2. p.limit \in Int
        BY <2>3, <3>2, <4>1, RequestsAssumption
      <4> QED
        BY <3>2, <4>2, SizesAssumption DEF Limit
    <3> QED
      BY <3>1, <3>2
  <2> HIDE DEF q, p, limit
  <2>6. PICK K : K = wanted
    OBVIOUS
  <2>7. /\ found \in Seq(Entries) /\ Len(found) = Least(limit, Cardinality(wanted))
        /\ \A l \in DOMAIN found : \E w \in wanted : ordered[w] = found[l]
    <3> HIDE DEF wanted
    <3>1. K = {w \in DOMAIN ordered : Found(q, ordered[w])}
      BY <2>4, <2>6
    <3>2. /\ Search(q).found \in Seq(Entries)
          /\ Len(Search(q).found) = Least(Limit(q), Cardinality(K))
          /\ \A l \in DOMAIN Search(q).found : \E w \in K : ordered[w] = Search(q).found[l]
      BY <2>1, <2>3, <2>5, <3>1, SearchReturns
    <3> QED
      BY <2>3, <2>5, <2>6, <3>2
  <2>8. ASSUME Tidy, NEW l \in DOMAIN found
        PROVE  Trimmed[tools[found[l].name]] = found[l].namespace
    <3>1. PICK w \in DOMAIN ordered : ordered[w] = found[l]
      BY <2>7
    <3> QED
      BY <2>1, <2>8, <3>1 DEF OneOwner
  <2> QED
    BY <2>2, <2>7, <2>8 DEF p, limit
<1> QED
  BY <1>1, AlwaysAllInv, PTL
=============================================================================
