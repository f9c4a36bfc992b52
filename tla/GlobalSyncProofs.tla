--------------------------- MODULE GlobalSyncProofs ---------------------------
(***************************************************************************)
(* Proofs about GlobalSync for every workspace, policy, manifest and config *)
(* and any number of servers and faults: the types, that no server gets two *)
(* tables, that the user keeps every line and that policy is honoured.      *)
(***************************************************************************)
EXTENDS GlobalSync, MarkedRegionProofs

\* Two candidates never have one alias ...
Injective(f) == \A i, j \in DOMAIN f : f[i] = f[j] => i = j

\* ... and the run goes on only with a config in which no line names a server.
Beyond == {"discover", "sources", "unique", "write", "truncated"}

IInv ==
    /\ workspace \in Workspaces /\ todo \subseteq DOMAIN Sources
    /\ IsSeq(config) /\ IsSeq(text) /\ IsSeq(out) /\ IsSeq(cands)
    /\ Injective(alias)
    /\ pc \in Beyond => ServersAt(text) = {}
    /\ OneTablePerServer

-----------------------------------------------------------------------------
(* Names.                                                                  *)

\* A name that TOML takes without quotes.
IsBare(n) == n # <<>> /\ IsName(n) /\ "@" \notin {n[i] : i \in DOMAIN n}

LEMMA Sanitized ==
    ASSUME NEW n, IsName(n), NEW b, b = Sanitize(n)
    PROVE  IsBare(b)
  <1> DEFINE d == Dashed(n)
             solid == {i \in DOMAIN n : Dashed(n)[i] # "-"}
  <1>1. Len(n) \in Nat /\ DOMAIN n = 1..Len(n) /\ \A i \in 1..Len(n) : n[i] \in Pieces
    BY DEF IsName
  <1>2. d = [i \in 1..Len(n) |-> IF n[i] = "@" THEN "-" ELSE n[i]]
    BY <1>1 DEF Dashed
  <1>3. d \in Seq(Pieces) /\ Len(d) = Len(n) /\ \A i \in 1..Len(n) : d[i] # "@"
    <2>1. \A i \in 1..Len(n) : (IF n[i] = "@" THEN "-" ELSE n[i]) \in Pieces
      <3> HIDE DEF d, solid
      <3> QED
        BY <1>1, PiecesAssumption
    <2>2. [i \in 1..Len(n) |-> IF n[i] = "@" THEN "-" ELSE n[i]] \in Seq(Pieces)
      BY <1>1, <2>1, IsASeq
    <2>3. d \in Seq(Pieces)
      BY <1>2, <2>2
    <2>4. DOMAIN d = 1..Len(n) /\ \A i \in 1..Len(n) : d[i] # "@"
      BY <1>2
    <2> HIDE DEF d
    <2>5. Len(d) = Len(n)
      BY <1>1, <2>3, <2>4
    <2> QED
      BY <2>3, <2>4, <2>5
  <1>4. CASE solid = {}
    <2>1. b = <<"mcp">>
      BY <1>4 DEF Sanitize
    <2> HIDE DEF solid, d
    <2>2. b \in Seq(Pieces) /\ DOMAIN b = {1} /\ b[1] = "mcp"
      BY <2>1, PiecesAssumption
    <2>3. b # <<>>
      BY <2>1
    <2> QED
      BY <2>2, <2>3 DEF IsBare, IsName
  <1>5. CASE solid # {}
    <2>1. solid \subseteq 1..Len(n)
      BY <1>1
    <2>2. PICK f, l : f = First(solid) /\ l = Last(solid)
      OBVIOUS
    <2>3. b = SubSeq(d, f, l)
      <3>1. b = SubSeq(d, First(solid), Last(solid))
        BY <1>5 DEF Sanitize
      <3> HIDE DEF d, solid
      <3> QED
        BY <2>2, <3>1
    <2> HIDE DEF solid, d
    <2>4. f \in solid /\ \A j \in solid : f <= j
      <3>1. solid \subseteq Nat /\ solid # {}
        BY <1>5, <2>1
      <3>2. First(solid) \in solid /\ \A j \in solid : First(solid) <= j
        BY <3>1, FirstIn
      <3> QED
        BY <2>2, <3>2
    <2>5. l \in solid
      BY <1>1, <1>5, <2>1, <2>2, LastIn
    <2>6. f \in Int /\ l \in Int /\ 1 <= f /\ l <= Len(d) /\ f <= l
      BY <1>1, <1>3, <2>1, <2>4, <2>5
    <2>7. /\ SubSeq(d, f, l) \in Seq(Pieces)
          /\ Len(SubSeq(d, f, l)) = IF f <= l THEN l - f + 1 ELSE 0
          /\ \A i \in 1..(l - f + 1) : SubSeq(d, f, l)[i] = d[f + i - 1]
      BY <1>3, <2>6, Slices
    <2>8. b \in Seq(Pieces) /\ Len(b) = l - f + 1 /\ \A i \in 1..(l - f + 1) : b[i] = d[f + i - 1]
      BY <2>3, <2>6, <2>7
    <2>9. b # <<>>
      BY <2>6, <2>8
    <2>10. \A i \in DOMAIN b : b[i] # "@"
      <3>1. DOMAIN b = 1..(l - f + 1)
        BY <2>8
      <3>2. \A i \in 1..(l - f + 1) : f + i - 1 \in 1..Len(n)
        BY <1>1, <1>3, <2>6
      <3> QED
        BY <1>3, <2>8, <3>1, <3>2
    <2> QED
      BY <2>8, <2>9, <2>10 DEF IsBare, IsName
  <1> QED
    BY <1>4, <1>5

\* Numbers keep a name bare, and different numbers make different names.
LEMMA NumberedIs ==
    ASSUME NEW a, IsName(a), NEW n \in Nat, NEW b, b = Numbered(a, n)
    PROVE  /\ IsName(b) /\ (IsBare(a) => IsBare(b))
           /\ Len(a) \in Nat /\ Len(b) = Len(a) + IF n = 1 THEN 0 ELSE n + 1
  <1>1. CASE n = 1
    BY <1>1 DEF Numbered, IsName
  <1>2. CASE n # 1
    <2>1. PICK e : e = a \o <<"-">>
      OBVIOUS
    <2>2. PICK s : s = [i \in 1..n |-> "|"]
      OBVIOUS
    <2>3. b = e \o s
      <3>1. b = a \o <<"-">> \o [i \in 1..n |-> "|"]
        BY <1>2 DEF Numbered, Join, Strokes
      <3> QED
        BY <2>1, <2>2, <3>1
    <2>4. s \in Seq(Pieces) /\ Len(s) = n /\ \A i \in 1..Len(s) : s[i] # "@"
      <3>1. [i \in 1..n |-> "|"] \in Seq(Pieces)
        BY PiecesAssumption, IsASeq
      <3>2. s \in Seq(Pieces) /\ DOMAIN s = 1..n /\ \A i \in 1..n : s[i] = "|"
        BY <2>2, <3>1
      <3>3. Len(s) = n
        BY <3>2
      <3> QED
        BY <3>2, <3>3
    <2>5. <<"-">> \in Seq(Pieces) /\ Len(<<"-">>) = 1 /\ <<"-">>[1] # "@"
      BY PiecesAssumption
    <2>6. /\ e \in Seq(Pieces) /\ Len(e) = Len(a) + 1 /\ Len(a) \in Nat
          /\ \A i \in 1..Len(a) : e[i] = a[i]
          /\ e[Len(a) + 1] = "-"
      <3>1. a \in Seq(Pieces)
        BY DEF IsName
      <3> QED
        BY <2>1, <2>5, <3>1
    <2>7. /\ b \in Seq(Pieces) /\ Len(b) = Len(e) + n
          /\ \A i \in 1..Len(e) : b[i] = e[i]
          /\ \A i \in 1..n : b[Len(e) + i] = s[i]
      <3>1. e \in Seq(Pieces) /\ s \in Seq(Pieces)
        BY <2>4, <2>6
      <3>2. /\ b \in Seq(Pieces) /\ Len(b) = Len(e) + Len(s)
            /\ \A i \in 1..Len(e) : b[i] = e[i]
            /\ \A i \in 1..Len(s) : b[Len(e) + i] = s[i]
        BY <2>3, <3>1, Joined2
      <3> QED
        BY <2>4, <3>2
    <2>8. b # <<>>
      BY <2>6, <2>7
    <2>9. ASSUME IsBare(a) PROVE \A i \in DOMAIN b : b[i] # "@"
      <3>1. \A i \in 1..Len(a) : a[i] # "@"
        BY <2>9 DEF IsBare, IsName
      <3>2. DOMAIN b = 1..(Len(e) + n)
        BY <2>7
      <3> SUFFICES ASSUME NEW i \in 1..(Len(e) + n) PROVE b[i] # "@"
        BY <3>2
      <3>3. CASE i <= Len(a)
        BY <2>6, <2>7, <3>1, <3>3
      <3>4. CASE i = Len(a) + 1
        BY <2>6, <2>7, <3>4
      <3>5. CASE i > Len(a) + 1
        <4>1. i - Len(e) \in 1..n /\ Len(e) + (i - Len(e)) = i
          BY <2>6, <3>5
        <4> QED
          BY <2>4, <2>7, <4>1
      <3> QED
        BY <2>6, <3>3, <3>4, <3>5
    <2> QED
      BY <1>2, <2>6, <2>7, <2>8, <2>9 DEF IsBare, IsName
  <1> QED
    BY <1>1, <1>2

\* So a search that found n of them in use, in a table of m names, has n <= m.
LEMMA Pigeons ==
    ASSUME NEW m \in Nat, NEW f, DOMAIN f \subseteq 1..m, NEW a, IsName(a), NEW n \in Nat,
           \A k \in 1..n : \E i \in DOMAIN f : Numbered(a, k) = f[i]
    PROVE  n <= m
  <1> DEFINE at(k) == CHOOSE i \in DOMAIN f : Numbered(a, k) = f[i]
             g == [k \in 1..n |-> at(k)]
  <1>1. \A k \in 1..n : at(k) \in 1..m /\ f[at(k)] = Numbered(a, k)
    OBVIOUS
  <1>2. ASSUME NEW k \in 1..n, NEW l \in 1..n, at(k) = at(l) PROVE k = l
    <2>1. PICK x : x = Numbered(a, k)
      OBVIOUS
    <2>2. x = Numbered(a, l) /\ k \in Nat /\ l \in Nat
      BY <1>1, <1>2, <2>1
    <2>3. Len(x) = Len(a) + (IF k = 1 THEN 0 ELSE k + 1) /\ Len(a) \in Nat
      BY <2>1, <2>2, NumberedIs
    <2>4. Len(x) = Len(a) + (IF l = 1 THEN 0 ELSE l + 1)
      BY <2>2, NumberedIs
    <2> QED
      BY <2>2, <2>3, <2>4
  <1> HIDE DEF at
  <1>3. g \in Injection(1..n, 1..m)
    BY <1>1, <1>2 DEF Injection, IsInjective
  <1>4. IsFiniteSet(1..m) /\ Cardinality(1..n) = n /\ Cardinality(1..m) = m
    BY FS_Interval
  <1> HIDE DEF g
  <1>5. Cardinality(1..n) <= Cardinality(1..m)
    BY <1>3, <1>4, FS_Injection
  <1> QED
    BY <1>4, <1>5

-----------------------------------------------------------------------------
(* Tables.                                                                 *)

\* A text between two that name no server names the servers it did.
LEMMA Embedded ==
    ASSUME NEW a, NEW m, NEW b, IsSeq(a), IsSeq(m), IsSeq(b),
           ServersAt(a) = {}, ServersAt(b) = {}, OneTable(m)
    PROVE  IsSeq(a \o m \o b) /\ OneTable(a \o m \o b)
  <1> DEFINE am == a \o m
             amb == am \o b
  <1>1. /\ IsSeq(am) /\ Len(am) = Len(a) + Len(m)
        /\ \A i \in 1..Len(am) : am[i] = IF i <= Len(a) THEN a[i] ELSE m[i - Len(a)]
    BY ConcatIsSeq
  <1> HIDE DEF am
  <1>2. /\ IsSeq(amb) /\ Len(amb) = Len(am) + Len(b)
        /\ \A i \in 1..Len(amb) : amb[i] = IF i <= Len(am) THEN am[i] ELSE b[i - Len(am)]
    BY <1>1, ConcatIsSeq
  <1> HIDE DEF amb
  <1>3. Len(a) \in Nat /\ Len(m) \in Nat /\ Len(b) \in Nat
    BY DEF IsSeq
  <1>4. /\ DOMAIN amb = 1..Len(amb) /\ DOMAIN a = 1..Len(a)
        /\ DOMAIN m = 1..Len(m) /\ DOMAIN b = 1..Len(b)
    BY <1>2 DEF IsSeq
  <1>5. ASSUME NEW i \in ServersAt(amb)
        PROVE  i - Len(a) \in ServersAt(m) /\ amb[i] = m[i - Len(a)] /\ i \in Int
    <2>1. i \in 1..Len(amb) /\ amb[i][1] = "mcp"
      BY <1>4 DEF ServersAt
    <2>2. ~(i <= Len(a))
      <3> SUFFICES ASSUME i <= Len(a) PROVE FALSE
        OBVIOUS
      <3>1. i \in 1..Len(a) /\ amb[i] = a[i]
        BY <1>1, <1>2, <1>3, <2>1
      <3> QED
        BY <1>4, <2>1, <3>1 DEF ServersAt
    <2>3. i <= Len(am)
      <3> SUFFICES ASSUME ~(i <= Len(am)) PROVE FALSE
        OBVIOUS
      <3>1. i - Len(am) \in 1..Len(b) /\ amb[i] = b[i - Len(am)]
        BY <1>1, <1>2, <1>3, <2>1
      <3> QED
        BY <1>4, <2>1, <3>1 DEF ServersAt
    <2>4. i - Len(a) \in 1..Len(m) /\ amb[i] = m[i - Len(a)]
      BY <1>1, <1>2, <1>3, <2>1, <2>2, <2>3
    <2> QED
      BY <1>4, <2>1, <2>4 DEF ServersAt
  <1>6. OneTable(amb)
    <2> SUFFICES ASSUME NEW i \in ServersAt(amb), NEW j \in ServersAt(amb), amb[i][2] = amb[j][2]
                 PROVE  i = j
      BY DEF OneTable
    <2>1. i - Len(a) = j - Len(a)
      BY <1>5 DEF OneTable
    <2> QED
      BY <1>3, <1>5, <2>1
  <1> QED
    BY <1>2, <1>6 DEF am, amb

\* A text made of lines of one that names no server names none.
LEMMA PartNamesNone ==
    ASSUME NEW c, IsSeq(c), ServersAt(c) = {}, NEW d \in Seq({c[i] : i \in 1..Len(c)})
    PROVE  IsSeq(d) /\ ServersAt(d) = {}
  <1>1. DOMAIN c = 1..Len(c)
    BY DEF IsSeq
  <1>2. \A i \in 1..Len(c) : c[i][1] # "mcp"
    BY <1>1 DEF ServersAt
  <1>3. \A j \in DOMAIN d : d[j] \in {c[i] : i \in 1..Len(c)}
    OBVIOUS
  <1>4. \A j \in DOMAIN d : d[j][1] # "mcp"
    BY <1>2, <1>3
  <1> QED
    BY <1>4, SeqIsSeq DEF ServersAt

LEMMA ConcatNamesNone ==
    ASSUME NEW a, NEW b, IsSeq(a), IsSeq(b), ServersAt(a) = {}, ServersAt(b) = {}
    PROVE  IsSeq(a \o b) /\ ServersAt(a \o b) = {}
  <1> DEFINE ab == a \o b
  <1>1. /\ IsSeq(ab) /\ Len(ab) = Len(a) + Len(b)
        /\ \A i \in 1..Len(ab) : ab[i] = IF i <= Len(a) THEN a[i] ELSE b[i - Len(a)]
    BY ConcatIsSeq
  <1> HIDE DEF ab
  <1>2. /\ DOMAIN ab = 1..Len(ab) /\ DOMAIN a = 1..Len(a) /\ DOMAIN b = 1..Len(b)
        /\ Len(a) \in Nat /\ Len(b) \in Nat
    BY <1>1 DEF IsSeq
  <1>3. \A i \in DOMAIN ab : ab[i][1] # "mcp"
    BY <1>1, <1>2 DEF ServersAt
  <1> QED
    BY <1>1, <1>3 DEF ServersAt, ab

\* One line that is not a server's.
LEMMA OtherLine ==
    ASSUME NEW l, l[1] # "mcp"
    PROVE  IsSeq(<<l>>) /\ ServersAt(<<l>>) = {}
  <1>1. <<l>> \in Seq({l}) /\ DOMAIN <<l>> = {1} /\ <<l>>[1] = l
    OBVIOUS
  <1>2. IsSeq(<<l>>)
    BY <1>1, SeqIsSeq
  <1>3. \A i \in DOMAIN <<l>> : <<l>>[i][1] # "mcp"
    BY <1>1
  <1> QED
    BY <1>2, <1>3 DEF ServersAt

\* A generated region has one table for every alias.
LEMMA BlockOneTable ==
    ASSUME NEW cs, NEW names, IsSeq(cs), DOMAIN cs \subseteq DOMAIN names, Injective(names)
    PROVE  IsSeq(Block(cs, names)) /\ OneTable(Block(cs, names))
  <1>1. IsSeq(Tables(cs, names)) /\ OneTable(Tables(cs, names))
    <2> DEFINE line(i) == <<"mcp", names[i], <<cs[i].repo, cs[i].server>>>>
    <2>1. Len(cs) \in Nat /\ DOMAIN cs = 1..Len(cs)
      BY DEF IsSeq
    <2>2. Tables(cs, names) = [i \in 1..Len(cs) |-> line(i)]
      BY <2>1 DEF Tables
    <2>3. \A i \in 1..Len(cs) : line(i)[2] = names[i]
      OBVIOUS
    <2> HIDE DEF line
    <2>4. IsSeq(Tables(cs, names))
      <3>1. Tables(cs, names) \in Seq({line(i) : i \in 1..Len(cs)})
        BY <2>1, <2>2, IsASeq
      <3> QED
        BY <3>1, SeqIsSeq
    <2>5. OneTable(Tables(cs, names))
      BY <2>1, <2>2, <2>3 DEF OneTable, ServersAt, Injective
    <2> QED
      BY <2>4, <2>5
  <1>2. /\ IsSeq(<<StartMark(Region0)>>) /\ ServersAt(<<StartMark(Region0)>>) = {}
        /\ IsSeq(<<EndMark(Region0)>>) /\ ServersAt(<<EndMark(Region0)>>) = {}
    BY OtherLine DEF StartMark, EndMark
  <1> QED
    BY <1>1, <1>2, Embedded DEF Block

\* Nor does putting the region into a text that names no server add another.
LEMMA UpsertOneTable ==
    ASSUME NEW c, NEW block, IsSeq(c), ServersAt(c) = {}, ~Unfinished(c),
           IsSeq(block), OneTable(block)
    PROVE  IsSeq(Upsert(c, block)) /\ OneTable(Upsert(c, block))
  <1> DEFINE T == {c[i] : i \in 1..Len(c)}
  <1>1. c \in Seq(T)
    BY IsSeqSeq
  <1>2. CASE HasStart(c, Region0)
    <2>1. HasRegion(c, Region0)
      BY <1>2 DEF Unfinished
    <2>2. /\ Before(c, Region0) \in Seq(T)
          /\ After(c, Region0) \in Seq(T)
      BY <1>1, <2>1, AroundRegion
    <2>3. /\ IsSeq(Before(c, Region0)) /\ ServersAt(Before(c, Region0)) = {}
          /\ IsSeq(After(c, Region0)) /\ ServersAt(After(c, Region0)) = {}
      BY <2>2, PartNamesNone
    <2>4. Upsert(c, block) = Before(c, Region0) \o block \o After(c, Region0)
      BY <1>2 DEF Upsert, Replace
    <2> QED
      BY <2>3, <2>4, Embedded
  <1>3. CASE ~HasStart(c, Region0) /\ IsBlank(c)
    BY <1>3 DEF Upsert
  <1>4. CASE ~HasStart(c, Region0) /\ ~IsBlank(c)
    <2>1. Trim(c) \in Seq(T)
      BY <1>1, TrimmedText
    <2>2. IsSeq(Trim(c)) /\ ServersAt(Trim(c)) = {}
      BY <2>1, PartNamesNone
    <2>3. IsSeq(<<Blank>>) /\ ServersAt(<<Blank>>) = {}
      BY OtherLine DEF Blank
    <2>4. IsSeq(<<>>) /\ ServersAt(<<>>) = {}
      BY DEF IsSeq, ServersAt
    <2> DEFINE gap == Trim(c) \o <<Blank>>
    <2>5. IsSeq(gap) /\ ServersAt(gap) = {}
      BY <2>2, <2>3, ConcatNamesNone
    <2> HIDE DEF gap
    <2>6. IsSeq(gap \o block \o <<>>) /\ OneTable(gap \o block \o <<>>)
      BY <2>4, <2>5, Embedded
    <2>7. IsSeq(gap \o block)
      BY <2>5, ConcatIsSeq
    <2>8. gap \o block \o <<>> = gap \o block
      BY <2>7, IsSeqSeq, ConcatEmptySeq
    <2> QED
      BY <1>4, <2>6, <2>8 DEF Upsert, gap
  <1> QED
    BY <1>2, <1>3, <1>4

-----------------------------------------------------------------------------
(* The config.                                                             *)

\* A block in the place of all the lines after p, blank ones: at the end.
LEMMA PutAtEnd ==
    ASSUME NEW T, NEW c \in Seq(T), ~HasStart(c, Region0), NEW m \in Seq(T), IsBlock(m, Region0),
           NEW p \in 0..Len(c), \A i \in (p + 1)..Len(c) : c[i] = Blank,
           NEW g \in Seq(T), IsBlank(g), NEW d, d = SubSeq(c, 1, p) \o (g \o m)
    PROVE  d \in Seq(T) /\ Keeps(c, d, Region0)
  <1>1. p \in Nat /\ Len(c) \in Nat /\ p <= Len(c)
    OBVIOUS
  <1>2. <<>> \in Seq(T) /\ IsBlank(<<>>)
    BY DEF IsBlank
  <1>3. PICK a, x : a = SubSeq(c, 1, p) /\ x = g \o m
    OBVIOUS
  <1>4. a \in Seq(T) /\ x \in Seq(T)
    <2>1. SubSeq(c, 1, p) \in Seq(T)
      BY <1>1, Slices
    <2> QED
      BY <1>3, <2>1
  <1>5. SubSeq(c, Len(c) + 1, Len(c)) = <<>>
    BY <1>1, SubSeqEmpty
  <1>6. x \o <<>> = x /\ (a \o x) \o <<>> = a \o x
    <2>1. a \o x \in Seq(T)
      BY <1>4
    <2> QED
      BY <1>4, <2>1, ConcatEmptySeq
  <1>7. d = Spliced(c, p, Len(c), g \o m \o <<>>)
    <2>1. d = a \o x
      BY <1>3
    <2>2. Spliced(c, p, Len(c), g \o m \o <<>>) = (a \o (x \o <<>>)) \o <<>>
      BY <1>3, <1>5 DEF Spliced
    <2> QED
      BY <1>6, <2>1, <2>2
  <1>8. \A i \in (Len(c) + 1)..Len(c) : c[i] # Blank => \E j \in Headers(c) : Len(c) < j /\ j <= i
    BY <1>1
  <1>9. IsPut(T, c, d, Region0, Region0, m)
    <2>1. PICK q : q = Len(c)
      OBVIOUS
    <2>2. q \in Nat /\ q <= Len(c) /\ p <= q /\ \A i \in (p + 1)..q : c[i] = Blank
      BY <1>1, <2>1
    <2>3. \A i \in (q + 1)..Len(c) : c[i] # Blank => \E j \in Headers(c) : q < j /\ j <= i
      BY <1>8, <2>1
    <2>4. d = Spliced(c, p, q, g \o m \o <<>>)
      BY <1>7, <2>1
    <2> QED
      BY <1>1, <1>2, <2>2, <2>3, <2>4, BlockAdded
  <1> QED
    BY <1>9 DEF IsPut, Keeps

\* What upsertGeneratedBlock makes of a text keeps the lines of the user.
LEMMA UpsertKeeps ==
    ASSUME NEW T, Blank \in T, NEW c \in Seq(T), NEW m \in Seq(T), IsBlock(m, Region0),
           ~Unfinished(c), NEW d, d = Upsert(c, m)
    PROVE  d \in Seq(T) /\ (~Exposed(c, Region0) => Keeps(c, d, Region0))
  <1>1. CASE HasStart(c, Region0)
    <2>1. HasRegion(c, Region0) /\ d = Replace(c, Region0, m)
      BY <1>1 DEF Unfinished, Upsert
    <2>2. \A i \in 1..(StartOf(c, Region0) - 1) : c[i] # StartMark(Region0)
      BY <2>1, NoEarlierStart
    <2>3. /\ d \in Seq(T)
          /\ ~Exposed(c, Region0) \/ Headers(m) = {} => IsPut(T, c, d, Region0, Region0, m)
      BY <2>1, <2>2, RegionReplaced
    <2> QED
      BY <2>3 DEF IsPut, Keeps
  <1>2. CASE ~HasStart(c, Region0) /\ IsBlank(c)
    <2>1. d = m /\ <<>> \in Seq(T) /\ IsBlank(<<>>)
      BY <1>2 DEF Upsert, IsBlank
    <2>2. 0 \in 0..Len(c) /\ \A i \in (0 + 1)..Len(c) : c[i] = Blank
      BY <1>2 DEF IsBlank
    <2>3. d = SubSeq(c, 1, 0) \o (<<>> \o m)
      <3>1. SubSeq(c, 1, 0) = <<>>
        BY SubSeqEmpty
      <3>2. <<>> \o m = m
        BY ConcatEmptySeq
      <3> QED
        BY <2>1, <3>1, <3>2
    <2>4. d \in Seq(T) /\ Keeps(c, d, Region0)
      BY <1>2, <2>1, <2>2, <2>3, PutAtEnd
    <2> QED
      BY <2>4
  <1>3. CASE ~HasStart(c, Region0) /\ ~IsBlank(c)
    <2>1. PICK t : t = Trim(c)
      OBVIOUS
    <2>2. PICK p : p = Len(t)
      OBVIOUS
    <2>3. IsTrimmed(T, c, t)
      BY <2>1, Trimmed
    <2>4. /\ p \in 0..Len(c) /\ t = SubSeq(c, 1, p) /\ t \in Seq(T)
          /\ \A i \in (p + 1)..Len(c) : c[i] = Blank
      BY <2>2, <2>3 DEF IsTrimmed
    <2>5. <<Blank>> \in Seq(T) /\ IsBlank(<<Blank>>)
      BY Gaps
    <2>6. d = (t \o <<Blank>>) \o m
      BY <1>3, <2>1 DEF Upsert
    <2>7. (t \o <<Blank>>) \o m = t \o (<<Blank>> \o m)
      <3>1. PICK g : g = <<Blank>>
        OBVIOUS
      <3>2. t \in Seq(T) /\ g \in Seq(T) /\ m \in Seq(T)
        BY <2>4, <2>5, <3>1
      <3>3. Associates(t, g, m)
        BY <3>2, Associative
      <3> QED
        BY <3>1, <3>3 DEF Associates
    <2>8. d = SubSeq(c, 1, p) \o (<<Blank>> \o m)
      BY <2>4, <2>6, <2>7
    <2>9. d \in Seq(T) /\ Keeps(c, d, Region0)
      BY <1>3, <2>4, <2>5, <2>8, PutAtEnd
    <2> QED
      BY <2>9
  <1> QED
    BY <1>1, <1>2, <1>3

\* The region for candidates of the workspace is a text ...
LEMMA BlockIsText ==
    ASSUME NEW cs, IsSeq(cs), \A i \in DOMAIN cs : cs[i].repo \in Dirs, NEW names,
           NEW m, m = Block(cs, names)
    PROVE  m \in Seq({m[i] : i \in 1..Len(m)}) /\ IsText(m) /\ IsBlock(m, Region0)
  <1> DEFINE line(i) == <<"mcp", names[i], <<cs[i].repo, cs[i].server>>>>
             marks == {StartMark(Region0), EndMark(Region0)}
  <1>1. Len(cs) \in Nat /\ DOMAIN cs = 1..Len(cs)
    BY DEF IsSeq
  <1>2. \A i \in 1..Len(cs) : line(i)[1] = "mcp" /\ line(i)[3][1] \in Dirs
    BY <1>1
  <1>3. PICK n : n = Len(cs)
    OBVIOUS
  <1>4. PICK t : t = Tables(cs, names)
    OBVIOUS
  <1>5. t = [i \in 1..n |-> line(i)]
    BY <1>1, <1>3, <1>4 DEF Tables
  <1> DEFINE T == {line(i) : i \in 1..n} \cup marks
  <1>6. n \in Nat /\ \A i \in 1..n : line(i) \in T
    BY <1>1, <1>3
  <1> HIDE DEF line
  <1>7. t \in Seq(T) /\ DOMAIN t = 1..n /\ \A i \in 1..n : t[i] = line(i)
    BY <1>5, <1>6, IsASeq
  <1>8. \A i \in 1..Len(t) : t[i][1] = "mcp"
    BY <1>2, <1>3, <1>7
  <1>9. \A l \in T : IsLine(l)
    BY <1>2, <1>3, LinesAssumption DEF IsLine
  <1>10. m = <<StartMark(Region0)>> \o t \o <<EndMark(Region0)>>
    BY <1>4 DEF Block
  <1>11. StartMark(Region0) \in T /\ EndMark(Region0) \in T
    OBVIOUS
  <1> HIDE DEF T
  <1>12. m \in Seq(T) /\ IsBlock(m, Region0)
    BY <1>7, <1>8, <1>10, <1>11, BlockIsBlock
  <1> QED
    BY <1>9, <1>12, SeqIsSeq, IsSeqSeq DEF IsText

\* ... and what it is put into stays one.
LEMMA TextsMade ==
    ASSUME NEW c, IsSeq(c), IsText(c), ~Unfinished(c), NEW cs, IsSeq(cs),
           \A i \in DOMAIN cs : cs[i].repo \in Dirs, NEW names,
           NEW d, d = Upsert(c, Block(cs, names))
    PROVE  IsText(d) /\ (~Exposed(c, Region0) => Keeps(c, d, Region0))
  <1>1. PICK m : m = Block(cs, names)
    OBVIOUS
  <1>2. m \in Seq({m[i] : i \in 1..Len(m)}) /\ IsText(m) /\ IsBlock(m, Region0)
    BY <1>1, BlockIsText
  <1>3. c \in Seq({c[i] : i \in 1..Len(c)})
    BY IsSeqSeq
  <1> DEFINE T == {c[i] : i \in 1..Len(c)} \cup {m[i] : i \in 1..Len(m)} \cup {Blank}
  <1>4. Blank \in T /\ c \in Seq(T) /\ m \in Seq(T)
    BY <1>2, <1>3
  <1>5. \A l \in T : IsLine(l)
    BY <1>2, LinesAssumption DEF IsText, IsLine
  <1> HIDE DEF T
  <1>6. d \in Seq(T) /\ (~Exposed(c, Region0) => Keeps(c, d, Region0))
    BY <1>1, <1>2, <1>4, UpsertKeeps
  <1> QED
    BY <1>5, <1>6 DEF IsText

-----------------------------------------------------------------------------
(* What the steps do to the candidates and their aliases.                  *)

Found == {cands[k] : k \in DOMAIN cands}
Kept(r) == {j \in Servers(workspace[r]) :
               Wanted(r, workspace[r].value[j]) /\ Ready(policy, workspace[r].value[j])}
Name(r, j) == workspace[r].value[j].name

\* A source that is read brings a candidate for each server it keeps, and reports
\* the others.
LEMMA SourceRead ==
    ASSUME IInv, ReadSource, ~UNCHANGED gathered
    PROVE  \E i \in todo : \E r \in Dirs :
              /\ r = Sources[i] /\ workspace[r] \notin {Absent, Broken}
              /\ todo' = todo \ {i} /\ UNCHANGED <<pc, result>>
              /\ IsSeq(cands') /\ Len(cands) <= Len(cands')
              /\ Found' = Found \cup {Candidate(policy, r, Name(r, j)) : j \in Kept(r)}
              /\ skipped' = skipped \cup {<<r, Name(r, j)>> : j \in Servers(workspace[r]) \ Kept(r)}
  <1>1. PICK i : i = First(todo)
    OBVIOUS
  <1>2. PICK r : r = Sources[i]
    OBVIOUS
  <1>3. i \in todo /\ r \in Dirs
    <2>1. Repos \in Seq(Dirs) /\ <<Root>> \in Seq(Dirs)
      BY WorkspacesAssumption DEF Dirs
    <2>2. Sources \in Seq(Dirs)
      BY <2>1 DEF Sources
    <2>3. todo \subseteq Nat /\ todo \subseteq DOMAIN Sources /\ todo # {}
      BY <2>2 DEF IInv, ReadSource
    <2>4. i \in todo
      BY <1>1, <2>3, FirstIn
    <2> QED
      BY <1>2, <2>2, <2>3, <2>4
  <1> DEFINE file == workspace[r]
             S == [j \in DOMAIN file.value |-> Candidate(policy, r, file.value[j].name)]
             listed == Servers(file)
             wanted == {j \in listed : Wanted(r, file.value[j])}
             kept == {j \in wanted : Ready(policy, file.value[j])}
  <1>4. /\ file \notin {Absent, Broken} /\ todo' = todo \ {i}
        /\ cands' = cands \o Pick(S, kept)
        /\ skipped' = skipped \cup {<<r, file.value[j].name>> : j \in listed \ kept}
        /\ UNCHANGED <<pc, result>>
    BY <1>1, <1>2 DEF ReadSource
  <1>5. kept = Kept(r)
    BY DEF Kept
  <1>6. Len(file.value) \in Nat /\ DOMAIN file.value = 1..Len(file.value)
    BY <1>3, <1>4, WorkspacesAssumption DEF IInv, IsFile
  <1>7. kept \in SUBSET (1..Len(file.value))
    BY <1>6 DEF Servers
  <1>8. PICK K : K = kept
    OBVIOUS
  <1>9. PICK p : p = Pick(S, K)
    OBVIOUS
  <1> DEFINE c(j) == Candidate(policy, r, Name(r, j))
  <1>10. \A j \in K : S[j] = c(j)
    BY <1>6, <1>7, <1>8 DEF Name
  <1> HIDE DEF S, kept, file, c
  <1>11. /\ p \in Seq({S[j] : j \in K})
         /\ {p[k] : k \in DOMAIN p} = {S[j] : j \in K}
    <2>1. PICK n, s : n = Len(file.value) /\ s = S
      OBVIOUS
    <2>2. n \in Nat /\ K \in SUBSET (1..n) /\ p = Pick(s, K)
      BY <1>6, <1>7, <1>8, <1>9, <2>1
    <2>3. Pick(s, K) \in Seq({s[j] : j \in K})
      BY <2>2, Picked
    <2>4. {p[k] : k \in DOMAIN p} = {s[j] : j \in K}
      BY <2>2, AllPicked
    <2> QED
      BY <2>1, <2>2, <2>3, <2>4
  <1>12. cands' = cands \o p /\ IsSeq(cands) /\ IsSeq(p)
    BY <1>4, <1>8, <1>9, <1>11, SeqIsSeq DEF IInv
  <1>13. /\ IsSeq(cands') /\ Len(cands') = Len(cands) + Len(p)
         /\ \A k \in 1..(Len(cands) + Len(p)) :
               cands'[k] = IF k <= Len(cands) THEN cands[k] ELSE p[k - Len(cands)]
    BY <1>12, ConcatIsSeq
  <1>14. /\ Len(cands) \in Nat /\ Len(p) \in Nat /\ DOMAIN cands = 1..Len(cands)
         /\ DOMAIN p = 1..Len(p) /\ DOMAIN cands' = 1..Len(cands')
    BY <1>12, <1>13 DEF IsSeq
  <1>15. Found' = Found \cup {p[k] : k \in DOMAIN p}
    <2>1. ASSUME NEW k \in DOMAIN cands' PROVE cands'[k] \in Found \cup {p[l] : l \in DOMAIN p}
      <3>1. CASE k <= Len(cands)
        BY <1>13, <1>14, <3>1 DEF Found
      <3>2. CASE ~(k <= Len(cands))
        <4>1. k - Len(cands) \in DOMAIN p
          BY <1>13, <1>14, <3>2
        <4> QED
          BY <1>13, <1>14, <3>2, <4>1
      <3> QED
        BY <3>1, <3>2
    <2>2. ASSUME NEW k \in DOMAIN cands PROVE cands[k] \in Found'
      <3>1. k \in DOMAIN cands' /\ cands'[k] = cands[k]
        BY <1>13, <1>14
      <3> QED
        BY <3>1 DEF Found
    <2>3. ASSUME NEW k \in DOMAIN p PROVE p[k] \in Found'
      <3>1. Len(cands) + k \in DOMAIN cands' /\ cands'[Len(cands) + k] = p[k]
        BY <1>13, <1>14
      <3> QED
        BY <3>1 DEF Found
    <2> QED
      BY <2>1, <2>2, <2>3 DEF Found
  <1>16. {S[j] : j \in K} = {c(j) : j \in Kept(r)}
    BY <1>5, <1>8, <1>10
  <1>17. Found' = Found \cup {c(j) : j \in Kept(r)}
    BY <1>11, <1>15, <1>16
  <1>18. Len(cands) <= Len(cands')
    BY <1>13, <1>14
  <1> QED
    BY <1>2, <1>3, <1>4, <1>5, <1>13, <1>17, <1>18 DEF c, file, Name

-----------------------------------------------------------------------------
(* The first part of the invariant: no server gets two tables.             *)

LEMMA InvInit == Init => IInv
  <1> SUFFICES ASSUME Init PROVE IInv
    OBVIOUS
  <1>1. config \in Seq(Lines)
    BY ConfigsAssumption DEF Init
  <1>2. IsSeq(config)
    BY <1>1, SeqIsSeq
  <1>3. IsSeq(<<>>) /\ ServersAt(<<>>) = {} /\ Injective(<<>>)
    BY DEF IsSeq, ServersAt, Injective
  <1> QED
    BY <1>2, <1>3 DEF Init, IInv, OneTablePerServer, OneTable, Beyond

\* An alias that is not in use stays the alias of one candidate.
LEMMA AssignInjective ==
    ASSUME NEW i, NEW name, Injective(alias), name \notin Used, Assign(i, name)
    PROVE  Injective(alias')
  BY DEF Assign, Injective, Used

LEMMA InvStep == IInv /\ [Next]_vars => IInv'
  <1> SUFFICES ASSUME IInv, [Next]_vars PROVE IInv'
    OBVIOUS
  <1> USE DEF OneTablePerServer, Beyond
  <1>0. IsSeq(<<>>) /\ ServersAt(<<>>) = {} /\ Injective(<<>>) /\ OneTable(<<>>)
    BY DEF IsSeq, ServersAt, Injective, OneTable
  <1>1. CASE Start
    BY <1>0, <1>1 DEF Start, IInv, disk
  <1>2. CASE ReadPolicy
    BY <1>2 DEF ReadPolicy, IInv, End, disk, gathered, aliasing
  <1>3. CASE ReadManifest
    BY <1>3 DEF ReadManifest, IInv, End, disk, gathered, aliasing
  <1>4. CASE ReadConfig
    BY <1>4 DEF ReadConfig, IInv, Panics, disk, gathered, aliasing
  <1>5. CASE Discover
    BY <1>5 DEF Discover, IInv, disk, inputs, aliasing
  <1>6. CASE ReadSource
    <2>1. UNCHANGED <<disk, inputs, aliasing, out>> /\ pc = "sources"
      BY <1>6 DEF ReadSource
    <2>2. todo' \subseteq DOMAIN Sources /\ IsSeq(cands')
      <3>1. CASE UNCHANGED gathered
        BY <3>1 DEF IInv, gathered
      <3>2. CASE ~UNCHANGED gathered
        BY <1>6, <3>2, SourceRead DEF IInv
      <3> QED
        BY <3>1, <3>2
    <2> QED
      BY <1>6, <2>1, <2>2 DEF IInv, disk, inputs, aliasing
  <1>7. CASE AssignExplicit
    <2>1. Injective(alias')
      BY <1>7, AssignInjective DEF AssignExplicit, IInv
    <2> QED
      BY <1>7, <2>1 DEF AssignExplicit, IInv, End, disk, inputs, gathered
  <1>8. CASE Propose \/ NextSuffix
    BY <1>8 DEF Propose, NextSuffix, IInv, disk, inputs, gathered
  <1>9. CASE AssignDerived
    <2>1. Injective(alias')
      BY <1>9, AssignInjective DEF AssignDerived, IInv
    <2> QED
      BY <1>9, <2>1 DEF AssignDerived, IInv, disk, inputs, gathered
  <1>10. CASE Plan
    <2>1. UNCHANGED <<disk, inputs, gathered, aliasing>> /\ pc = "sources"
      BY <1>10 DEF Plan
    <2>2. IsSeq(out') /\ OneTable(out')
      <3>1. CASE Unfinished(text)
        BY <1>10, <3>1 DEF Plan, IInv
      <3>2. CASE ~Unfinished(text)
        <4>1. DOMAIN cands \subseteq DOMAIN alias
          BY <1>10 DEF Plan
        <4>2. IsSeq(Block(cands, alias)) /\ OneTable(Block(cands, alias))
          BY <4>1, BlockOneTable DEF IInv
        <4> QED
          BY <1>10, <2>1, <3>2, <4>2, UpsertOneTable DEF Plan, IInv
      <3> QED
        BY <3>1, <3>2
    <2> QED
      BY <2>1, <2>2 DEF IInv, disk, inputs, gathered, aliasing
  <1>11. CASE Truncate \/ Fill
    BY <1>0, <1>11 DEF Truncate, Fill, End, IInv, locals, inputs, gathered, aliasing
  <1>12. CASE CallFails \/ Crash \/ UNCHANGED vars
    BY <1>12 DEF CallFails, Crash, End, IInv, vars, disk, locals, inputs, gathered, aliasing
  <1>13. CASE WriteFails
    <2>1. PICK n \in 0..Len(out) : config' = SubSeq(out, 1, n)
      BY <1>13 DEF WriteFails
    <2>2. IsSeq(config')
      <3>1. out \in Seq({out[i] : i \in 1..Len(out)}) /\ Len(out) \in Nat
        BY IsSeqSeq DEF IInv, IsSeq
      <3>2. \A i \in 1..n : out[i] \in {out[j] : j \in 1..Len(out)}
        BY <3>1
      <3>3. SubSeq(out, 1, n) \in Seq({out[i] : i \in 1..Len(out)})
        BY <3>1, <3>2, SubSeqProperties
      <3> QED
        BY <2>1, <3>3, SeqIsSeq
    <2> QED
      BY <1>13, <2>2 DEF WriteFails, End, IInv, locals, inputs, gathered, aliasing
  <1>14. CASE EditConfig
    <2>1. config' \in Seq(Lines)
      BY <1>14, ConfigsAssumption DEF EditConfig
    <2>2. IsSeq(config')
      BY <2>1, SeqIsSeq
    <2> QED
      BY <1>14, <2>2 DEF EditConfig, IInv, locals, inputs, gathered, aliasing
  <1>15. CASE EditWorkspace
    BY <1>15 DEF EditWorkspace, IInv, locals, inputs, gathered, aliasing
  <1> QED
    BY <1>1, <1>2, <1>3, <1>4, <1>5, <1>6, <1>7, <1>8, <1>9, <1>10, <1>11, <1>12, <1>13,
       <1>14, <1>15 DEF Next, Step

-----------------------------------------------------------------------------
(* Types.                                                                  *)

\* The names that aliases are made from, and the aliases; and the search for a
\* suffix has found all smaller ones in use.
Named ==
    /\ IsPolicy(policy)
    /\ \A c \in Found : c.repo \in Dirs /\ IsName(c.server) /\ IsName(c.asked)
    /\ \A name \in Used : IsBare(name)
    /\ pc = "unique" =>
          /\ Pending(FALSE) # {} /\ suffix # 0 /\ IsBare(base)
          /\ \A k \in 1..(suffix - 1) : Numbered(base, k) \in Used

TypeInv == IInv /\ TypeOK /\ Named

\* What policy and workspace say gives candidates their names.
LEMMA CandidateNamed ==
    ASSUME TypeInv, NEW r \in Dirs, NEW j \in Servers(workspace[r]), workspace[r] \notin {Absent, Broken},
           NEW c, c = Candidate(policy, r, Name(r, j))
    PROVE  c.repo = r /\ c.server = Name(r, j) /\ IsName(c.server) /\ IsName(c.asked)
  <1>1. PICK n : n = Name(r, j)
    OBVIOUS
  <1>2. IsName(n)
    <2>1. IsFile(workspace[r]) /\ j \in DOMAIN workspace[r].value
      BY WorkspacesAssumption DEF TypeInv, IInv, Servers
    <2> QED
      BY <1>1, <2>1 DEF IsFile, Name
  <1>3. PICK asked, prefix : asked = ServerRule(policy, r, n).alias /\ prefix = RepoRule(policy, r).prefix
    OBVIOUS
  <1>4. IsName(asked) /\ IsName(prefix)
    <2>1. IsName(<<>>)
      BY DEF IsName
    <2>2. IsPolicy(policy)
      BY DEF TypeInv, Named
    <2> QED
      BY <1>3, <2>1, <2>2 DEF ServerRule, RepoRule, SilentServer, SilentRepo, IsPolicy
  <1>5. IsName(Join(prefix, n))
    <2>1. <<"-">> \in Seq(Pieces) /\ prefix \in Seq(Pieces) /\ n \in Seq(Pieces)
      BY <1>2, <1>4, PiecesAssumption DEF IsName
    <2> QED
      BY <2>1 DEF IsName, Join
  <1>6. /\ c.repo = r /\ c.server = n
        /\ c.asked = CASE asked # <<>> -> asked
                       [] asked = <<>> /\ prefix # <<>> -> Join(prefix, n)
                       [] OTHER -> <<>>
    BY <1>1, <1>3 DEF Candidate
  <1>7. IsName(c.asked)
    <2>1. IsName(<<>>)
      BY DEF IsName
    <2> QED
      BY <1>4, <1>5, <1>6, <2>1
  <1> QED
    BY <1>1, <1>2, <1>6, <1>7

\* Every wish is bare, and so is a qualified name.
LEMMA WishBare ==
    ASSUME TypeInv, NEW c \in Found
    PROVE  IsBare(Sanitize(c.asked)) /\ IsBare(Qualified(c)) /\ IsBare(Wish(c))
  <1>1. c.repo \in Dirs /\ IsName(c.server) /\ IsName(c.asked)
    BY DEF TypeInv, Named
  <1>2. IsName(Join(<<c.repo>>, c.server))
    <2>1. <<"-">> \in Seq(Pieces) /\ <<c.repo>> \in Seq(Pieces) /\ c.server \in Seq(Pieces)
      BY <1>1, PiecesAssumption DEF IsName
    <2> QED
      BY <2>1 DEF IsName, Join
  <1>3. IsBare(Sanitize(c.asked)) /\ IsBare(Qualified(c)) /\ IsBare(Sanitize(c.server))
    BY <1>1, <1>2, Sanitized DEF Qualified
  <1> QED
    BY <1>3 DEF Wish

\* A new alias for a pending candidate.
LEMMA Assigned ==
    ASSUME TypeInv, NEW explicit, Pending(explicit) # {}, NEW i, i = First(Pending(explicit)),
           NEW name, IsBare(name), Assign(i, name), UNCHANGED cands
    PROVE  /\ i \in DOMAIN cands
           /\ DOMAIN alias' \subseteq DOMAIN cands'
           /\ \A n \in Used' : IsBare(n)
  <1>1. DOMAIN cands \subseteq Nat
    BY DEF TypeInv, IInv, IsSeq
  <1>2. Pending(explicit) \subseteq Nat /\ Pending(explicit) \subseteq DOMAIN cands
    BY <1>1 DEF Pending
  <1>3. i \in Pending(explicit)
    BY <1>2, FirstIn
  <1>4. DOMAIN alias' = DOMAIN alias \cup {i}
        /\ \A j \in DOMAIN alias' : alias'[j] = IF j = i THEN name ELSE alias[j]
    BY DEF Assign
  <1>5. \A j \in DOMAIN alias' : IsBare(alias'[j])
    <2>1. \A j \in DOMAIN alias : IsBare(alias[j])
      BY DEF TypeInv, Named, Used
    <2> QED
      BY <1>4, <2>1
  <1> QED
    BY <1>2, <1>3, <1>4, <1>5 DEF Used, TypeInv, TypeOK

\* The config is a text, whatever was cut off it.
LEMMA CutIsText ==
    ASSUME NEW c, IsSeq(c), IsText(c), NEW n \in 0..Len(c), NEW d, d = SubSeq(c, 1, n)
    PROVE  IsText(d)
  <1>1. PICK T : T = {c[i] : i \in 1..Len(c)}
    OBVIOUS
  <1>2. c \in Seq(T) /\ Len(c) \in Nat
    BY <1>1, IsSeqSeq DEF IsSeq
  <1>3. \A l \in T : IsLine(l)
    BY <1>1, <1>2 DEF IsText
  <1>4. SubSeq(c, 1, n) \in Seq(T)
    BY <1>2, Slices
  <1> QED
    BY <1>3, <1>4 DEF IsText

LEMMA LinesAreText ==
    ASSUME NEW c \in Seq(Lines)
    PROVE  IsText(c)
  BY DEF IsText, IsLine

LEMMA TypesInit == Init => TypeInv
  <1> SUFFICES ASSUME Init PROVE TypeInv
    OBVIOUS
  <1>1. IInv
    BY InvInit
  <1>2. IsText(config) /\ IsText(<<>>)
    BY ConfigsAssumption, LinesAreText DEF Init, IsText
  <1>3. TypeOK
    <2>1. explicitPolicy \in BOOLEAN /\ dry \in BOOLEAN /\ quiet \in BOOLEAN /\ stable \in BOOLEAN
      BY DEF Init
    <2>2. DOMAIN cands = {} /\ DOMAIN alias = {} /\ Used = {} /\ Len(cands) = 0
      BY DEF Init, Used
    <2>3. suffix \in 0..(Len(cands) + 1) /\ events \in 0..MaxEvents
      BY <2>2, MaxEventsAssumption DEF Init
    <2>4. /\ workspace \in Workspaces /\ policyFile \in Policies /\ manifestFile \in Manifests
          /\ pc \in Places /\ result \in Results /\ todo = {}
      BY DEF Init, Places, Results
    <2>5. IsText(config) /\ IsText(text) /\ IsText(out)
      BY <1>2 DEF Init
    <2> QED
      BY <2>1, <2>2, <2>3, <2>4, <2>5 DEF TypeOK
  <1>4. Named
    BY DEF Init, Named, IsPolicy, DefaultPolicy, Found, Used
  <1> QED
    BY <1>1, <1>3, <1>4 DEF TypeInv

\* The parts of the invariant.
Disk == workspace \in Workspaces /\ policyFile \in Policies /\ manifestFile \in Manifests
Texts == IsText(config) /\ IsText(text) /\ IsText(out)
Where == pc \in Places /\ result \in Results /\ events \in 0..MaxEvents
Flags == explicitPolicy \in BOOLEAN /\ dry \in BOOLEAN /\ quiet \in BOOLEAN /\ stable \in BOOLEAN
Indexed ==
    /\ todo \subseteq DOMAIN Sources /\ DOMAIN alias \subseteq DOMAIN cands
    /\ suffix \in 0..(Len(cands) + 1)

LEMMA Parts ==
    ASSUME Named
    PROVE  TypeOK <=> Disk /\ Texts /\ Where /\ Flags /\ Indexed
  <1>1. \A i \in DOMAIN cands : cands[i].repo \in Dirs
    BY DEF Named, Found
  <1>2. \A name \in Used : name # <<>> /\ "@" \notin {name[i] : i \in DOMAIN name}
    BY DEF Named, IsBare
  <1> QED
    BY <1>1, <1>2 DEF TypeOK, Disk, Texts, Where, Flags, Indexed

\* Steps that leave candidates and aliases alone.
LEMMA NamedStays ==
    ASSUME Named, UNCHANGED <<cands, alias, base, suffix>>, IsPolicy(policy'), pc' = "unique" => pc = "unique"
    PROVE  Named'
  BY DEF Named, Found, Used, Pending

LEMMA TypesStep == TypeInv /\ [Next]_vars => TypeInv'
  <1> SUFFICES ASSUME TypeInv, [Next]_vars PROVE TypeInv'
    OBVIOUS
  <1>0. /\ IInv /\ IInv' /\ Named
        /\ Disk /\ Texts /\ Where /\ Flags /\ Indexed
    BY InvStep, Parts DEF TypeInv
  <1> SUFFICES Named' /\ Disk' /\ Texts' /\ Where' /\ Flags' /\ Indexed'
    <2>1. Named' => (TypeOK' <=> Disk' /\ Texts' /\ Where' /\ Flags' /\ Indexed')
      BY Parts, PTL
    <2> QED
      BY <1>0, <2>1 DEF TypeInv
  <1>p. IsPolicy(policy)
    BY <1>0 DEF Named
  <1>1. CASE Start
    <2>1. IsText(<<>>)
      BY DEF IsText
    <2>2. Named'
      BY <1>1 DEF Start, Named, IsPolicy, DefaultPolicy, Found, Used
    <2>3. Disk' /\ Texts'
      BY <1>0, <1>1, <2>1 DEF Start, disk, Disk, Texts
    <2>4. Where'
      BY <1>0, <1>1 DEF Start, Where, Places, Results
    <2>5. Flags'
      BY <1>0, <1>1 DEF Start, Flags
    <2>6. Indexed'
      BY <1>0, <1>1 DEF Start, Indexed
    <2> QED
      BY <2>2, <2>3, <2>4, <2>5, <2>6
  <1>2. CASE ReadPolicy \/ ReadManifest \/ ReadConfig \/ Discover
    <2>1. UNCHANGED <<disk, explicitPolicy, dry, cands, aliasing, out, events>>
      BY <1>2 DEF ReadPolicy, ReadManifest, ReadConfig, Discover, gathered, inputs
    <2>2. text' \in {text, config} /\ quiet' \in {quiet, TRUE} /\ stable' \in {stable, TRUE}
      BY <1>2 DEF ReadPolicy, ReadManifest, ReadConfig, Discover, inputs
    <2>3. pc' \in {"manifest", "config", "panicked", "discover", "sources", "done"} /\ result' \in {result, "failed"}
      BY <1>2 DEF ReadPolicy, ReadManifest, ReadConfig, Discover, End
    <2>4. IsPolicy(policy')
      <3>1. CASE UNCHANGED policy
        BY <1>p, <3>1
      <3>2. CASE ~UNCHANGED policy
        <4>1. policyFile \notin {Absent, Broken} /\ policy' = policyFile.value
          BY <1>2, <3>2 DEF ReadPolicy, ReadManifest, ReadConfig, Discover, inputs
        <4> QED
          BY <1>0, <4>1, PoliciesAssumption DEF Disk
      <3> QED
        BY <3>1, <3>2
    <2>5. Named'
      BY <1>0, <2>1, <2>3, <2>4, NamedStays DEF aliasing
    <2>6. Disk' /\ Texts'
      BY <1>0, <2>1, <2>2 DEF disk, Disk, Texts
    <2>7. Where'
      BY <1>0, <2>1, <2>3 DEF Where, Places, Results
    <2>8. Flags'
      BY <1>0, <2>1, <2>2 DEF Flags
    <2>9. Indexed'
      BY <1>0, <2>1 DEF Indexed, IInv, aliasing
    <2> QED
      BY <2>5, <2>6, <2>7, <2>8, <2>9
  <1>3. CASE ReadSource
    <2>1. UNCHANGED <<disk, inputs, aliasing, out, quiet, stable, events>> /\ pc = "sources"
      BY <1>3 DEF ReadSource
    <2>2. Disk' /\ Texts' /\ Flags'
      BY <1>0, <2>1 DEF disk, inputs, Disk, Texts, Flags
    <2>3. CASE UNCHANGED gathered
      <3>1. pc' \in {"sources", "done"} /\ result' \in {result, "failed"}
        BY <1>3, <2>1 DEF ReadSource, End
      <3>2. Where'
        BY <1>0, <2>1, <3>1 DEF Where, Places, Results
      <3>3. Named'
        BY <1>0, <1>p, <2>1, <2>3, <3>1, NamedStays DEF inputs, aliasing, gathered
      <3>4. Indexed'
        BY <1>0, <2>1, <2>3 DEF Indexed, aliasing, gathered
      <3> QED
        BY <2>2, <3>2, <3>3, <3>4
    <2>4. CASE ~UNCHANGED gathered
      <3>1. PICK i \in todo, r \in Dirs :
                /\ workspace[r] \notin {Absent, Broken} /\ UNCHANGED <<pc, result>>
                /\ IsSeq(cands') /\ Len(cands) <= Len(cands')
                /\ Found' = Found \cup {Candidate(policy, r, Name(r, j)) : j \in Kept(r)}
        BY <1>0, <1>3, <2>4, SourceRead
      <3>2. \A c \in Found' : c.repo \in Dirs /\ IsName(c.server) /\ IsName(c.asked)
        <4>1. ASSUME NEW j \in Kept(r), NEW c, c = Candidate(policy, r, Name(r, j))
              PROVE  c.repo \in Dirs /\ IsName(c.server) /\ IsName(c.asked)
          <5>1. j \in Servers(workspace[r])
            BY DEF Kept
          <5>2. c.repo = r /\ IsName(c.server) /\ IsName(c.asked)
            BY <3>1, <4>1, <5>1, CandidateNamed
          <5> QED
            BY <5>2
        <4>2. \A c \in Found : c.repo \in Dirs /\ IsName(c.server) /\ IsName(c.asked)
          BY <1>0 DEF Named
        <4> QED
          BY <3>1, <4>1, <4>2
      <3>3. Named'
        <4>1. IsPolicy(policy') /\ pc' # "unique" /\ \A name \in Used' : IsBare(name)
          BY <1>0, <1>p, <2>1, <3>1 DEF Named, Used, inputs, aliasing
        <4> QED
          BY <3>2, <4>1 DEF Named
      <3>4. Indexed'
        <4>1. Len(cands) \in Nat /\ DOMAIN cands = 1..Len(cands) /\ Len(cands') \in Nat /\ DOMAIN cands' = 1..Len(cands')
          BY <1>0 DEF IInv, IsSeq
        <4> QED
          BY <1>0, <2>1, <3>1, <4>1 DEF Indexed, IInv, aliasing
      <3> QED
        BY <1>0, <2>1, <2>2, <3>1, <3>3, <3>4 DEF Where
    <2> QED
      BY <2>3, <2>4
  <1>4. CASE AssignExplicit
    <2>1. UNCHANGED <<disk, inputs, gathered, base, suffix, out, quiet, stable, events>> /\ pc = "sources"
      BY <1>4 DEF AssignExplicit
    <2>2. pc' \in {"sources", "done"} /\ result' \in {result, "failed"}
      BY <1>4, <2>1 DEF AssignExplicit, End
    <2>3. Disk' /\ Texts' /\ Flags'
      BY <1>0, <2>1 DEF disk, inputs, Disk, Texts, Flags
    <2>4. Where'
      BY <1>0, <2>1, <2>2 DEF Where, Places, Results
    <2>5. CASE UNCHANGED alias
      <3>1. Named'
        BY <1>0, <1>p, <2>1, <2>2, <2>5, NamedStays DEF inputs, gathered
      <3> QED
        BY <1>0, <2>1, <2>3, <2>4, <2>5, <3>1 DEF Indexed, gathered
    <2>6. CASE ~UNCHANGED alias
      <3>1. PICK i : i = First(Pending(TRUE))
        OBVIOUS
      <3>2. PICK name : name = Sanitize(cands[i].asked)
        OBVIOUS
      <3>3. Pending(TRUE) # {} /\ Assign(i, name) /\ UNCHANGED cands
        BY <1>4, <2>1, <2>6, <3>1, <3>2 DEF AssignExplicit, gathered
      <3>4. i \in DOMAIN cands
        <4>1. DOMAIN cands \subseteq Nat
          BY <1>0 DEF IInv, IsSeq
        <4>2. Pending(TRUE) \subseteq Nat /\ Pending(TRUE) \subseteq DOMAIN cands
          BY <4>1 DEF Pending
        <4> QED
          BY <3>1, <3>3, <4>2, FirstIn
      <3>5. IsBare(name)
        <4>1. cands[i] \in Found
          BY <3>4 DEF Found
        <4> QED
          BY <3>2, <4>1, WishBare
      <3>6. DOMAIN alias' \subseteq DOMAIN cands' /\ \A n \in Used' : IsBare(n)
        BY <3>1, <3>3, <3>5, Assigned
      <3>7. Named'
        BY <1>0, <2>1, <2>2, <3>6 DEF Named, Found, inputs, gathered
      <3> QED
        BY <1>0, <2>1, <2>3, <2>4, <3>6, <3>7 DEF Indexed, gathered
    <2> QED
      BY <2>5, <2>6
  <1>5. CASE Propose
    <2>1. /\ UNCHANGED <<disk, inputs, gathered, alias, out, result, quiet, stable, events>>
          /\ suffix' = 1 /\ pc' = "unique" /\ Pending(FALSE) # {}
      BY <1>5 DEF Propose
    <2>2. PICK i : i = First(Pending(FALSE))
      OBVIOUS
    <2>3. i \in DOMAIN cands /\ cands[i] \in Found
      <3>1. DOMAIN cands \subseteq Nat
        BY <1>0 DEF IInv, IsSeq
      <3>2. Pending(FALSE) \subseteq Nat /\ Pending(FALSE) \subseteq DOMAIN cands
        BY <3>1 DEF Pending
      <3> QED
        BY <2>1, <2>2, <3>2, FirstIn DEF Found
    <2>4. base' \in {Qualified(cands[i]), Wish(cands[i])}
      BY <1>5, <2>2 DEF Propose
    <2>5. IsBare(base')
      BY <2>3, <2>4, WishBare
    <2>6. Named'
      <3>1. 1..(suffix' - 1) = {}
        <4>1. suffix' = 1
          BY <2>1
        <4> QED
          BY <4>1
      <3>2. Found' = Found /\ Used' = Used /\ Pending(FALSE)' = Pending(FALSE) /\ policy' = policy
        BY <2>1 DEF Found, Used, Pending, inputs, gathered
      <3>3. /\ IsPolicy(policy') /\ Pending(FALSE)' # {} /\ suffix' # 0
            /\ \A c \in Found' : c.repo \in Dirs /\ IsName(c.server) /\ IsName(c.asked)
            /\ \A name \in Used' : IsBare(name)
        <4>1. IsPolicy(policy')
          BY <1>0, <3>2 DEF Named
        <4>2. \A c \in Found' : c.repo \in Dirs /\ IsName(c.server) /\ IsName(c.asked)
          BY <1>0, <3>2 DEF Named
        <4>3. \A name \in Used' : IsBare(name)
          BY <1>0, <3>2 DEF Named
        <4>4. Pending(FALSE)' # {}
          BY <2>1, <3>2
        <4>5. suffix' # 0
          <5>1. suffix' = 1
            BY <2>1
          <5> QED
            BY <5>1
        <4> QED
          BY <4>1, <4>2, <4>3, <4>4, <4>5
      <3> QED
        BY <2>5, <3>1, <3>3 DEF Named
    <2>7. Disk' /\ Texts' /\ Flags'
      BY <1>0, <2>1 DEF disk, inputs, Disk, Texts, Flags
    <2>8. Where'
      BY <1>0, <2>1 DEF Where, Places
    <2>9. Indexed'
      <3>1. Len(cands) \in Nat
        BY <1>0 DEF IInv, IsSeq
      <3> QED
        BY <1>0, <2>1, <3>1 DEF Indexed, gathered
    <2> QED
      BY <2>6, <2>7, <2>8, <2>9
  <1>6. CASE NextSuffix
    <2>1. /\ UNCHANGED <<disk, inputs, gathered, alias, base, out, pc, result, quiet, stable, events>>
          /\ suffix' = suffix + 1 /\ pc = "unique" /\ Numbered(base, suffix) \in Used
      BY <1>6 DEF NextSuffix
    <2>2. /\ suffix # 0 /\ IsBare(base) /\ Pending(FALSE) # {} /\ suffix \in Nat
          /\ \A k \in 1..(suffix - 1) : Numbered(base, k) \in Used
      <3>1. suffix \in Nat
        BY <1>0 DEF Indexed
      <3>2. /\ suffix # 0 /\ IsBare(base) /\ Pending(FALSE) # {}
            /\ \A k \in 1..(suffix - 1) : Numbered(base, k) \in Used
        BY <1>0, <2>1 DEF Named
      <3> QED
        BY <3>1, <3>2
    <2>3. \A k \in 1..suffix : Numbered(base, k) \in Used
      BY <2>1, <2>2
    <2>4. suffix <= Len(cands)
      <3>1. PICK m, f, a, n : m = Len(cands) /\ f = alias /\ a = base /\ n = suffix
        OBVIOUS
      <3>2. m \in Nat /\ DOMAIN f \subseteq 1..m /\ IsName(a) /\ n \in Nat
        BY <1>0, <2>2, <3>1 DEF IInv, IsSeq, Indexed, IsBare
      <3>3. \A k \in 1..n : \E i \in DOMAIN f : Numbered(a, k) = f[i]
        BY <2>3, <3>1 DEF Used
      <3>4. n <= m
        BY <3>2, <3>3, Pigeons
      <3> QED
        BY <3>1, <3>4
    <2>5. Named'
      <3>1. Found' = Found /\ Used' = Used /\ Pending(FALSE)' = Pending(FALSE) /\ policy' = policy /\ base' = base
        BY <2>1 DEF Found, Used, Pending, inputs, gathered
      <3>2. suffix' - 1 = suffix /\ suffix' # 0
        BY <2>1, <2>2
      <3>3. \A k \in 1..(suffix' - 1) : Numbered(base', k) \in Used'
        BY <2>3, <3>1, <3>2
      <3>4. /\ IsPolicy(policy') /\ Pending(FALSE)' # {} /\ IsBare(base')
            /\ \A c \in Found' : c.repo \in Dirs /\ IsName(c.server) /\ IsName(c.asked)
            /\ \A name \in Used' : IsBare(name)
        <4>1. IsPolicy(policy')
          BY <1>0, <3>1 DEF Named
        <4>2. \A c \in Found' : c.repo \in Dirs /\ IsName(c.server) /\ IsName(c.asked)
          BY <1>0, <3>1 DEF Named
        <4>3. \A name \in Used' : IsBare(name)
          BY <1>0, <3>1 DEF Named
        <4>4. Pending(FALSE)' # {}
          BY <2>2, <3>1
        <4>5. IsBare(base')
          BY <2>2, <3>1
        <4> QED
          BY <4>1, <4>2, <4>3, <4>4, <4>5
      <3> QED
        BY <3>2, <3>3, <3>4 DEF Named
    <2>6. Disk' /\ Texts' /\ Flags' /\ Where'
      BY <1>0, <2>1 DEF disk, inputs, Disk, Texts, Flags, Where
    <2>7. Indexed'
      <3>1. Len(cands) \in Nat
        BY <1>0 DEF IInv, IsSeq
      <3> QED
        BY <1>0, <2>1, <2>2, <2>4, <3>1 DEF Indexed, gathered
    <2> QED
      BY <2>5, <2>6, <2>7
  <1>7. CASE AssignDerived
    <2>1. /\ UNCHANGED <<disk, inputs, gathered, base, suffix, out, result, quiet, stable, events>>
          /\ pc = "unique" /\ pc' = "sources"
      BY <1>7 DEF AssignDerived
    <2>2. Pending(FALSE) # {} /\ IsBare(base) /\ suffix \in Nat
      <3>1. suffix \in Nat
        BY <1>0 DEF Indexed
      <3>2. Pending(FALSE) # {} /\ IsBare(base)
        BY <1>0, <2>1 DEF Named
      <3> QED
        BY <3>1, <3>2
    <2>3. PICK i, name : i = First(Pending(FALSE)) /\ name = Numbered(base, suffix)
      OBVIOUS
    <2>4. IsBare(name)
      BY <2>2, <2>3, NumberedIs DEF IsBare
    <2>5. Assign(i, name) /\ UNCHANGED cands
      BY <1>7, <2>1, <2>3 DEF AssignDerived, gathered
    <2>6. DOMAIN alias' \subseteq DOMAIN cands' /\ \A n \in Used' : IsBare(n)
      BY <2>2, <2>3, <2>4, <2>5, Assigned
    <2>7. Named'
      BY <1>0, <2>1, <2>6 DEF Named, Found, inputs, gathered
    <2>8. Disk' /\ Texts' /\ Flags'
      BY <1>0, <2>1 DEF disk, inputs, Disk, Texts, Flags
    <2>9. Where'
      BY <1>0, <2>1 DEF Where, Places
    <2> QED
      BY <1>0, <2>1, <2>6, <2>7, <2>8, <2>9 DEF Indexed, gathered
  <1>8. CASE Plan
    <2>1. UNCHANGED <<disk, inputs, gathered, aliasing, quiet, stable, events>>
      BY <1>8 DEF Plan
    <2>2. pc' \in {"done", "write"} /\ result' \in {result, "failed", "previewed"}
      BY <1>8 DEF Plan, End
    <2>3. IsText(out')
      <3>1. CASE Unfinished(text)
        BY <1>0, <1>8, <3>1 DEF Plan, Texts
      <3>2. CASE ~Unfinished(text)
        <4>1. out' = Upsert(text, Block(cands, alias))
          BY <1>8, <3>2 DEF Plan
        <4>2. IsSeq(text) /\ IsText(text) /\ IsSeq(cands) /\ \A i \in DOMAIN cands : cands[i].repo \in Dirs
          BY <1>0 DEF IInv, Texts, Named, Found
        <4> QED
          BY <3>2, <4>1, <4>2, TextsMade
      <3> QED
        BY <3>1, <3>2
    <2>4. Named'
      BY <1>0, <1>p, <2>1, <2>2, NamedStays DEF inputs, gathered, aliasing
    <2>5. Disk' /\ Texts'
      BY <1>0, <2>1, <2>3 DEF disk, inputs, Disk, Texts
    <2>6. Where'
      BY <1>0, <2>1, <2>2 DEF Where, Places, Results
    <2>7. Flags' /\ Indexed'
      BY <1>0, <2>1 DEF inputs, gathered, aliasing, Flags, Indexed
    <2> QED
      BY <2>4, <2>5, <2>6, <2>7
  <1>9. CASE Truncate \/ Fill \/ WriteFails \/ EditConfig
    <2>1. /\ UNCHANGED <<workspace, policyFile, manifestFile, locals, stable>>
          /\ quiet' \in {quiet, FALSE} /\ events' \in {events, events + 1}
          /\ pc' \in {pc, "truncated", "done"} /\ result' \in {result, "written", "failed"}
      BY <1>9 DEF Truncate, Fill, WriteFails, EditConfig, End, Happens
    <2>2. events' \in 0..MaxEvents
      BY <1>0, <1>9, MaxEventsAssumption DEF Where, Happens, Truncate, Fill, WriteFails, EditConfig
    <2>3. IsText(config')
      <3>1. CASE Truncate
        BY <3>1 DEF Truncate, IsText
      <3>2. CASE Fill
        BY <1>0, <3>2 DEF Fill, Texts
      <3>3. CASE WriteFails
        <4>1. PICK n \in 0..Len(out) : config' = SubSeq(out, 1, n)
          BY <3>3 DEF WriteFails
        <4>2. IsSeq(out) /\ IsText(out)
          BY <1>0 DEF IInv, Texts
        <4> QED
          BY <4>1, <4>2, CutIsText
      <3>4. CASE EditConfig
        <4>1. config' \in Seq(Lines)
          BY <3>4, ConfigsAssumption DEF EditConfig
        <4> QED
          BY <4>1, LinesAreText
      <3> QED
        BY <1>9, <3>1, <3>2, <3>3, <3>4
    <2>4. Named'
      BY <1>0, <1>p, <2>1, NamedStays DEF locals, inputs, gathered, aliasing
    <2>5. Disk' /\ Texts'
      BY <1>0, <2>1, <2>3 DEF locals, inputs, Disk, Texts
    <2>6. Where'
      BY <1>0, <2>1, <2>2 DEF Where, Places, Results
    <2>7. Flags' /\ Indexed'
      BY <1>0, <2>1 DEF locals, inputs, gathered, aliasing, Flags, Indexed
    <2> QED
      BY <2>4, <2>5, <2>6, <2>7
  <1>10. CASE CallFails \/ Crash \/ EditWorkspace \/ UNCHANGED vars
    <2>1. /\ UNCHANGED <<policyFile, manifestFile, config, locals, quiet>>
          /\ workspace' = workspace \/ workspace' \in Workspaces
          /\ stable' \in {stable, FALSE} /\ events' \in {events, events + 1}
          /\ pc' \in {pc, "idle", "done"} /\ result' \in {result, "failed"}
      BY <1>10 DEF CallFails, Crash, EditWorkspace, End, Happens, vars, disk
    <2>2. events' \in 0..MaxEvents
      BY <1>0, <1>10, MaxEventsAssumption DEF Where, Happens, CallFails, Crash, EditWorkspace, vars
    <2>3. Named'
      BY <1>0, <1>p, <2>1, NamedStays DEF locals, inputs, gathered, aliasing
    <2>4. Disk' /\ Texts'
      BY <1>0, <2>1 DEF locals, inputs, Disk, Texts
    <2>5. Where'
      BY <1>0, <2>1, <2>2 DEF Where, Places, Results
    <2>6. Flags' /\ Indexed'
      BY <1>0, <2>1 DEF locals, inputs, gathered, aliasing, Flags, Indexed
    <2> QED
      BY <2>3, <2>4, <2>5, <2>6
  <1> QED
    BY <1>1, <1>2, <1>3, <1>4, <1>5, <1>6, <1>7, <1>8, <1>9, <1>10 DEF Next, Step

-----------------------------------------------------------------------------
(* What is written, and who is written.                                    *)

\* What a run has rendered, and that its write leaves just that.
Rendered ==
    /\ pc # "done" => result = "none"
    /\ pc \in {"write", "truncated"} \/ Wrote =>
          out = Upsert(text, Block(cands, alias)) /\ ~Unfinished(text)
    /\ Wrote /\ quiet => config = out

\* The sources that exist; those read so far are sorted as policy says.
Present == {i \in DOMAIN Sources : Exists(Sources[i])}
Settled ==
    /\ todo \subseteq Present
    /\ \A i \in Present \ todo :
          /\ workspace[Sources[i]] # Broken
          /\ \A j \in Kept(Sources[i]) : <<Sources[i], Name(Sources[i], j)>> \in Chosen
          /\ \A j \in Servers(workspace[Sources[i]]) \ Kept(Sources[i]) :
                <<Sources[i], Name(Sources[i], j)>> \in skipped
    /\ \A x \in Chosen : \E i \in Present \ todo : \E j \in Kept(Sources[i]) :
          x = <<Sources[i], Name(Sources[i], j)>>
    /\ \A x \in skipped : \E i \in Present \ todo :
          \E j \in Servers(workspace[Sources[i]]) \ Kept(Sources[i]) :
             x = <<Sources[i], Name(Sources[i], j)>>

Collecting == pc = "sources" \/ Gathered
Sorted ==
    /\ pc \in {"policy", "manifest", "config", "discover"} => cands = <<>> /\ skipped = {}
    /\ Gathered => todo = {}
    /\ Collecting /\ stable => Settled

LEMMA RenderedStep == IInv /\ Rendered /\ [Next]_vars => Rendered'
  <1> SUFFICES ASSUME IInv, Rendered, [Next]_vars PROVE Rendered'
    OBVIOUS
  <1> USE DEF Rendered, Wrote
  <1>1. CASE Start
    BY <1>1 DEF Start
  <1>2. CASE ReadPolicy \/ ReadManifest \/ ReadConfig \/ Discover
    BY <1>2 DEF ReadPolicy, ReadManifest, ReadConfig, Discover, End
  <1>3. CASE ReadSource \/ AssignExplicit
    BY <1>3 DEF ReadSource, AssignExplicit, End
  <1>4. CASE Propose \/ NextSuffix \/ AssignDerived
    BY <1>4 DEF Propose, NextSuffix, AssignDerived
  <1>5. CASE Plan
    <2>1. UNCHANGED <<text, cands, alias>> /\ result = "none"
      BY <1>5 DEF Plan, inputs, gathered, aliasing
    <2>2. CASE Unfinished(text)
      BY <1>5, <2>2 DEF Plan, End
    <2>3. CASE ~Unfinished(text)
      <3>1. out' = Upsert(text, Block(cands, alias))
        BY <1>5, <2>3 DEF Plan
      <3>2. (pc' = "done" /\ result' = "previewed") \/ (pc' = "write" /\ result' = "none")
        BY <1>5, <2>1, <2>3 DEF Plan, End
      <3> QED
        BY <2>1, <2>3, <3>1, <3>2
    <2> QED
      BY <2>2, <2>3
  <1>6. CASE Truncate \/ Fill \/ WriteFails
    <2>1. UNCHANGED <<text, cands, alias, out>>
      BY <1>6 DEF Truncate, Fill, WriteFails, locals, inputs, gathered, aliasing
    <2> QED
      BY <1>6, <2>1 DEF Truncate, Fill, WriteFails, End
  <1>7. CASE CallFails \/ Crash \/ EditConfig \/ EditWorkspace \/ UNCHANGED vars
    <2>1. UNCHANGED <<text, cands, alias, out>>
      BY <1>7 DEF CallFails, Crash, EditConfig, EditWorkspace, vars, locals, inputs, gathered, aliasing
    <2> QED
      BY <1>7, <2>1 DEF CallFails, Crash, EditConfig, EditWorkspace, vars, disk, End
  <1> QED
    BY <1>1, <1>2, <1>3, <1>4, <1>5, <1>6, <1>7 DEF Next, Step

\* Nothing is sorted anew while nobody changes what it depends on.
LEMMA SettledStays ==
    ASSUME UNCHANGED <<workspace, policy, manifest, todo, cands, skipped>>
    PROVE  Settled' <=> Settled
  BY DEF Settled, Present, Exists, Chosen, Kept, Wanted, Name

LEMMA ChosenFound == Chosen = {<<c.repo, c.server>> : c \in Found}
  BY DEF Chosen, Found

\* One more source is read.
LEMMA OneMoreSource ==
    ASSUME TypeInv, Settled, ReadSource, ~UNCHANGED gathered
    PROVE  Settled'
  <1>1. PICK i \in todo, r \in Dirs :
            /\ r = Sources[i] /\ workspace[r] \notin {Absent, Broken}
            /\ todo' = todo \ {i}
            /\ Found' = Found \cup {Candidate(policy, r, Name(r, j)) : j \in Kept(r)}
            /\ skipped' = skipped \cup {<<r, Name(r, j)>> : j \in Servers(workspace[r]) \ Kept(r)}
    BY SourceRead DEF TypeInv
  <1>2. UNCHANGED <<workspace, policy, manifest>>
    BY DEF ReadSource, disk, inputs
  <1>3. Present' = Present
    BY <1>2 DEF Present, Exists
  <1>4. \A q : Kept(q)' = Kept(q) /\ \A j : Name(q, j)' = Name(q, j)
    BY <1>2 DEF Kept, Wanted, Name
  <1>5. Chosen' = Chosen \cup {<<r, Name(r, j)>> : j \in Kept(r)}
    <2>1. Chosen' = {<<c.repo, c.server>> : c \in Found'}
      BY DEF Chosen, Found
    <2>2. ASSUME NEW j \in Kept(r), NEW c, c = Candidate(policy, r, Name(r, j))
          PROVE  <<c.repo, c.server>> = <<r, Name(r, j)>>
      <3>1. j \in Servers(workspace[r])
        BY DEF Kept
      <3>2. c.repo = r /\ c.server = Name(r, j)
        BY <1>1, <2>2, <3>1, CandidateNamed
      <3> QED
        BY <3>2
    <2> QED
      BY <1>1, <2>1, <2>2, ChosenFound
  <1>6. i \in Present /\ Present \ todo' = (Present \ todo) \cup {i}
    BY <1>1 DEF Settled
  <1>7. todo' \subseteq Present'
    BY <1>1, <1>3 DEF Settled
  <1>8. ASSUME NEW k \in Present \ todo'
        PROVE  /\ workspace[Sources[k]] # Broken
               /\ \A j \in Kept(Sources[k]) : <<Sources[k], Name(Sources[k], j)>> \in Chosen'
               /\ \A j \in Servers(workspace[Sources[k]]) \ Kept(Sources[k]) :
                     <<Sources[k], Name(Sources[k], j)>> \in skipped'
    <2>1. CASE k = i
      BY <1>1, <1>5, <2>1
    <2>2. CASE k # i
      <3>1. k \in Present \ todo
        BY <1>6, <2>2
      <3> QED
        BY <1>1, <1>5, <3>1 DEF Settled
    <2> QED
      BY <2>1, <2>2
  <1>9. ASSUME NEW x \in Chosen'
        PROVE  \E k \in Present \ todo' : \E j \in Kept(Sources[k]) : x = <<Sources[k], Name(Sources[k], j)>>
    <2>1. CASE x \in Chosen
      BY <1>6, <2>1 DEF Settled
    <2>2. CASE x \notin Chosen
      BY <1>1, <1>5, <1>6, <2>2
    <2> QED
      BY <2>1, <2>2
  <1>10. ASSUME NEW x \in skipped'
         PROVE  \E k \in Present \ todo' : \E j \in Servers(workspace[Sources[k]]) \ Kept(Sources[k]) :
                   x = <<Sources[k], Name(Sources[k], j)>>
    <2>1. CASE x \in skipped
      BY <1>6, <2>1 DEF Settled
    <2>2. CASE x \notin skipped
      BY <1>1, <1>6, <2>2
    <2> QED
      BY <2>1, <2>2
  <1> QED
    BY <1>2, <1>3, <1>4, <1>7, <1>8, <1>9, <1>10 DEF Settled

LEMMA SortedStep == TypeInv /\ Rendered /\ Sorted /\ [Next]_vars => Sorted'
  <1> SUFFICES ASSUME TypeInv, Rendered, Sorted, [Next]_vars PROVE Sorted'
    OBVIOUS
  <1> USE DEF Sorted, Collecting, Gathered
  <1>0. pc # "done" => result = "none"
    BY DEF Rendered
  <1>1. CASE Start
    BY <1>1 DEF Start
  <1>2. CASE ReadPolicy \/ ReadManifest \/ ReadConfig
    BY <1>0, <1>2 DEF ReadPolicy, ReadManifest, ReadConfig, End, gathered
  <1>3. CASE Discover
    <2>1. /\ todo' = Present /\ UNCHANGED <<workspace, cands, skipped, result>>
          /\ pc' = "sources" /\ cands = <<>> /\ skipped = {} /\ result = "none"
      BY <1>0, <1>3 DEF Discover, Present, Exists, disk
    <2>2. Present' = Present /\ Chosen' = {}
      BY <2>1 DEF Present, Exists, Chosen
    <2>3. Settled'
      BY <2>1, <2>2 DEF Settled
    <2> QED
      BY <2>1, <2>3
  <1>4. CASE ReadSource
    <2>1. pc = "sources" /\ result = "none" /\ UNCHANGED <<workspace, policy, manifest, stable>>
      BY <1>0, <1>4 DEF ReadSource, disk, inputs
    <2>2. CASE UNCHANGED gathered
      <3>1. UNCHANGED <<todo, cands, skipped>>
        BY <2>2 DEF gathered
      <3>2. Settled' <=> Settled
        BY <2>1, <3>1, SettledStays
      <3>3. (pc' = "done" /\ result' = "failed") \/ (pc' = "sources" /\ result' = "none")
        BY <1>4, <2>1 DEF ReadSource, End
      <3> QED
        BY <2>1, <3>1, <3>2, <3>3
    <2>3. CASE ~UNCHANGED gathered
      <3>1. pc' = "sources" /\ result' = "none"
        BY <1>4, <2>1, <2>3 DEF ReadSource
      <3>2. stable => Settled'
        BY <1>4, <2>1, <2>3, OneMoreSource
      <3> QED
        BY <2>1, <3>1, <3>2
    <2> QED
      BY <2>2, <2>3
  <1>5. CASE AssignExplicit \/ Propose \/ NextSuffix \/ AssignDerived \/ Plan
    <2>1. UNCHANGED <<workspace, policy, manifest, todo, cands, skipped, stable>>
      BY <1>5 DEF AssignExplicit, Propose, NextSuffix, AssignDerived, Plan, disk, inputs, gathered
    <2>2. Settled' <=> Settled
      BY <2>1, SettledStays
    <2>3. pc \in {"sources", "unique"} /\ todo = {}
      BY <1>5 DEF AssignExplicit, Propose, NextSuffix, AssignDerived, Plan
    <2>4. pc' \in {"sources", "unique", "write", "done"}
      BY <1>5 DEF AssignExplicit, Propose, NextSuffix, AssignDerived, Plan, End
    <2> QED
      BY <2>1, <2>2, <2>3, <2>4
  <1>6. CASE Truncate \/ Fill \/ WriteFails \/ CallFails \/ Crash \/ EditConfig \/ UNCHANGED vars
    <2>1. UNCHANGED <<workspace, policy, manifest, todo, cands, skipped, stable>>
      BY <1>6 DEF Truncate, Fill, WriteFails, CallFails, Crash, EditConfig, vars, disk, locals, inputs, gathered
    <2>2. Settled' <=> Settled
      BY <2>1, SettledStays
    <2>3. \/ pc' = "truncated" /\ pc = "write" /\ result' = result
          \/ pc' = "done" /\ result' = "written" /\ pc = "truncated"
          \/ pc' = "done" /\ result' = "failed"
          \/ pc' = "idle" /\ result' = "none"
          \/ pc' = pc /\ result' = result
      BY <1>0, <1>6 DEF Truncate, Fill, WriteFails, CallFails, Crash, EditConfig, End, vars
    <2> QED
      BY <2>1, <2>2, <2>3
  <1>7. CASE EditWorkspace
    BY <1>7 DEF EditWorkspace, locals, gathered
  <1> QED
    BY <1>1, <1>2, <1>3, <1>4, <1>5, <1>6, <1>7 DEF Next, Step

-----------------------------------------------------------------------------
(* What follows.                                                           *)

\* Every directory of the workspace is a source.
LEMMA SourcesCover ==
    ASSUME NEW r \in Dirs
    PROVE  \E i \in DOMAIN Sources : Sources[i] = r
  <1>1. PICK a : a = <<Root>>
    OBVIOUS
  <1>2. a \in Seq(Dirs) /\ Repos \in Seq(Dirs) /\ Len(a) = 1 /\ a[1] = Root
    BY <1>1, WorkspacesAssumption DEF Dirs
  <1>3. PICK s : s = a \o Repos
    OBVIOUS
  <1>4. /\ s \in Seq(Dirs) /\ Len(s) = Len(a) + Len(Repos)
        /\ \A i \in 1..Len(a) : s[i] = a[i]
        /\ \A i \in 1..Len(Repos) : s[Len(a) + i] = Repos[i]
    <2>1. PICK T, b : T = Dirs /\ b = Repos
      OBVIOUS
    <2>2. a \in Seq(T) /\ b \in Seq(T) /\ s = a \o b
      BY <1>2, <1>3, <2>1
    <2>3. /\ s \in Seq(T) /\ Len(s) = Len(a) + Len(b)
          /\ \A i \in 1..Len(a) : s[i] = a[i]
          /\ \A i \in 1..Len(b) : s[Len(a) + i] = b[i]
      BY <2>2, Joined2
    <2> QED
      BY <2>1, <2>3
  <1>5. DOMAIN s = 1..(1 + Len(Repos)) /\ Len(Repos) \in Nat /\ DOMAIN Repos = 1..Len(Repos)
    BY <1>2, <1>4
  <1>6. \E i \in DOMAIN s : s[i] = r
    <2>1. CASE r = Root
      BY <1>2, <1>4, <1>5, <2>1
    <2>2. CASE r # Root
      <3>1. PICK i \in DOMAIN Repos : Repos[i] = r
        BY <2>2 DEF Dirs
      <3>2. 1 + i \in DOMAIN s /\ s[1 + i] = r
        BY <1>2, <1>4, <1>5, <3>1
      <3> QED
        BY <3>2
    <2> QED
      BY <2>1, <2>2
  <1>7. s = Sources
    BY <1>1, <1>3 DEF Sources
  <1> QED
    BY <1>6, <1>7

\* Sorted sources honour the policy.
LEMMA SettledHonours == TypeInv /\ Settled /\ todo = {} => PolicyHonoured
  <1> SUFFICES ASSUME TypeInv, Settled, todo = {} PROVE PolicyHonoured
    OBVIOUS
  <1>1. ASSUME NEW x \in Chosen, x \in skipped PROVE FALSE
    <2>1. PICK i \in Present : \E j \in Kept(Sources[i]) : x = <<Sources[i], Name(Sources[i], j)>>
      BY DEF Settled
    <2>2. PICK k \in Present : \E l \in Servers(workspace[Sources[k]]) \ Kept(Sources[k]) :
              x = <<Sources[k], Name(Sources[k], l)>>
      BY <1>1 DEF Settled
    <2>3. i \in DOMAIN Sources /\ k \in DOMAIN Sources /\ Sources[i] = Sources[k]
      BY <2>1, <2>2 DEF Present
    <2>4. i = k
      BY <2>3, SourcesAssumption
    <2>5. PICK r : r = Sources[i]
      OBVIOUS
    <2>j. PICK j \in Kept(r) : x = <<r, Name(r, j)>>
      BY <2>1, <2>5
    <2>l. PICK l \in Servers(workspace[r]) \ Kept(r) : x = <<r, Name(r, l)>>
      BY <2>2, <2>4, <2>5
    <2>6. /\ j \in Servers(workspace[r]) /\ l \in Servers(workspace[r])
          /\ j \in Kept(r) /\ l \notin Kept(r) /\ Name(r, j) = Name(r, l)
          /\ workspace[r] \notin {Absent, Broken}
      <3>1. workspace[r] \notin {Absent, Broken}
        BY <2>1, <2>5 DEF Settled, Present, Exists
      <3>2. j \in Servers(workspace[r])
        BY <2>j DEF Kept
      <3> QED
        BY <2>j, <2>l, <3>1, <3>2
    <2>7. r \in Dirs
      <3>1. Repos \in Seq(Dirs) /\ <<Root>> \in Seq(Dirs)
        BY WorkspacesAssumption DEF Dirs
      <3>2. Sources \in Seq(Dirs)
        BY <3>1 DEF Sources
      <3> QED
        BY <2>3, <2>5, <3>2
    <2>8. IsFile(workspace[r]) /\ j \in DOMAIN workspace[r].value /\ l \in DOMAIN workspace[r].value
      BY <2>6, <2>7, WorkspacesAssumption DEF TypeInv, IInv, Servers
    <2> QED
      BY <2>6, <2>8 DEF IsFile, Name
  <1>2. ASSUME NEW r \in Dirs, Exists(r), NEW i \in Servers(workspace[r]),
               NEW s, s = workspace[r].value[i]
        PROVE  /\ IF i \in Kept(r) THEN <<r, s.name>> \in Chosen ELSE <<r, s.name>> \in skipped
    <2>1. PICK k \in DOMAIN Sources : Sources[k] = r
      BY SourcesCover
    <2>2. k \in Present \ todo
      BY <1>2, <2>1 DEF Present
    <2>3. Name(r, i) = s.name
      BY <1>2 DEF Name
    <2> QED
      BY <2>1, <2>2, <2>3 DEF Settled
  <1>3. ASSUME NEW r \in Dirs, NEW i \in Servers(workspace[r]), NEW s, s = workspace[r].value[i],
               ServerRule(policy, r, s.name).enabled = "no" \/
               (IF r = Root THEN ~policy.includeRoot ELSE RepoRule(policy, r).enabled = "no")
        PROVE  i \notin Kept(r)
    BY <1>3 DEF Kept, Wanted, ServerEnabled, RepoAllowed
  <1>4. ASSUME NEW r \in Dirs, NEW i \in Servers(workspace[r]), NEW s, s = workspace[r].value[i],
               ServerRule(policy, r, s.name).enabled = "yes", s.status = "ready",
               IF r = Root THEN policy.includeRoot ELSE RepoRule(policy, r).enabled = "yes"
        PROVE  i \in Kept(r)
    BY <1>4 DEF Kept, Wanted, ServerEnabled, RepoAllowed, Ready
  <1> QED
    BY <1>1, <1>2, <1>3, <1>4 DEF PolicyHonoured

Inv == TypeInv /\ Rendered /\ Sorted

LEMMA Always == Spec => []Inv
  <1>1. Init => Inv
    <2>1. Init => TypeInv
      BY TypesInit
    <2>2. Init => Rendered
      BY DEF Init, Rendered, Wrote
    <2>3. Init => Sorted
      BY DEF Init, Sorted, Collecting, Gathered
    <2> QED
      BY <2>1, <2>2, <2>3 DEF Inv
  <1>2. Inv /\ [Next]_vars => Inv'
    BY TypesStep, RenderedStep, SortedStep DEF Inv, TypeInv
  <1> QED
    BY <1>1, <1>2, PTL DEF Spec

\* The types of the state for every workspace, policy, config and number of
\* servers: the config consists of lines whatever happens to it, aliases are bare
\* names of candidates, and the search for a suffix tries no more than there are
\* candidates, and one.
THEOREM Typed == Spec => []TypeOK
  <1>1. Inv => TypeOK
    BY DEF Inv, TypeInv
  <1> QED
    BY <1>1, Always, PTL

\* Whatever the policy, the workspace and the config are, what SyncGlobal writes
\* has at most one table for every server name: aliases are unique, and no run
\* gets further than reading a config in which a server has a table.
THEOREM OneTableEach == Spec => []OneTablePerServer
  <1>1. Inv => OneTablePerServer
    BY DEF Inv, TypeInv, IInv
  <1> QED
    BY <1>1, Always, PTL

\* A run that nobody interfered with loses none of the user's lines and moves none
\* to another table, whatever is written and wherever the region was.
THEOREM LinesKept == Spec => []UserLinesKept
  <1>1. Inv => UserLinesKept
    <2> SUFFICES ASSUME Inv, Wrote, quiet, ~Exposed(text, Region0)
                 PROVE  Keeps(text, config, Region0)
      BY DEF UserLinesKept
    <2>1. config = Upsert(text, Block(cands, alias)) /\ ~Unfinished(text)
      BY DEF Inv, Rendered
    <2>2. IsSeq(text) /\ IsText(text) /\ IsSeq(cands) /\ \A i \in DOMAIN cands : cands[i].repo \in Dirs
      BY DEF Inv, TypeInv, IInv, TypeOK
    <2> QED
      BY <2>1, <2>2, TextsMade
  <1> QED
    BY <1>1, Always, PTL

\* No server is lost or reported twice, and what policy says of a server and its
\* repository outweighs the lists, for all policies, manifests and workspaces.
THEOREM PolicyFirst == Spec => []PolicyHonoured
  <1>1. Inv => PolicyHonoured
    <2> SUFFICES ASSUME Inv, Gathered, stable PROVE PolicyHonoured
      BY DEF PolicyHonoured
    <2> QED
      BY SettledHonours DEF Inv, Sorted, Collecting
  <1> QED
    BY <1>1, Always, PTL
=============================================================================
