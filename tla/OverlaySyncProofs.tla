-------------------------- MODULE OverlaySyncProofs --------------------------
(***************************************************************************)
(* Proofs about OverlaySync for every projection, whatever the files hold   *)
(* and however often others save them: what a publish puts into a file and  *)
(* leaves in it, and that the run implements Publication for each of them.  *)
(***************************************************************************)
EXTENDS OverlaySync, MarkedRegionProofs

\* A block placed in a config that has no region keeps all there is.
LEMMA BlockPlaced ==
    ASSUME NEW T, Blank \in T, NEW c \in Seq(T), ~HasStart(c, Workspace), ~HasStart(c, Legacy),
           NEW m \in Seq(T), IsBlock(m, Workspace), NEW d, d = Place(c, m)
    PROVE  IsPut(T, c, d, Legacy, Workspace, m)
  <1> DEFINE i == Split(Trim(c), Headers(Trim(c)))
  <1>1. PICK t : t = Trim(c)
    OBVIOUS
  <1>2. /\ t \in Seq(T) /\ ~HasStart(t, Legacy) /\ ~HasStart(t, Workspace)
        /\ OwnLines(c, Legacy) = OwnLines(t, Legacy) /\ Meaning(c, Legacy) \subseteq Meaning(t, Legacy)
    BY <1>1, TrimKeeps
  <1>3. i \in 1..(Len(t) + 1) /\ (i \in Headers(t) \/ i = Len(t) + 1)
    <2>1. CASE Headers(t) = {}
      BY <1>1, <1>2, <2>1 DEF Split
    <2>2. CASE Headers(t) # {}
      <3>1. Headers(t) \subseteq Nat /\ Headers(t) \subseteq 1..Len(t)
        BY <1>2 DEF Headers
      <3>2. i \in Headers(t)
        BY <1>1, <2>2, <3>1, FirstIn DEF Split
      <3> HIDE DEF i
      <3> QED
        BY <1>2, <3>1, <3>2
    <2> QED
      BY <2>1, <2>2
  <1>4. PICK pre, a, b : pre = SubSeq(t, 1, i - 1) /\ a = Trim(pre) /\ b = SubSeq(t, i, Len(t))
    OBVIOUS
  <1>5. d = (IF a = <<>> THEN <<>> ELSE a \o <<Blank>>) \o m \o (IF b = <<>> THEN <<>> ELSE <<Blank>> \o b)
    BY <1>1, <1>4 DEF Place
  <1> HIDE DEF i
  <1>6. /\ Len(t) \in Nat /\ i \in Nat /\ i - 1 \in Nat /\ i - 1 <= Len(t)
        /\ (i - 1) + 1 = i /\ 1 <= i /\ i - 1 \in Int
    BY <1>2, <1>3
  <1>7. pre \in Seq(T) /\ Len(pre) = i - 1 /\ \A k \in 1..(i - 1) : pre[k] = t[k]
    <2>1. /\ pre \in Seq(T) /\ Len(pre) = (IF 1 <= i - 1 THEN (i - 1) - 1 + 1 ELSE 0)
          /\ \A k \in 1..((i - 1) - 1 + 1) : pre[k] = t[1 + k - 1]
      <3>1. 1 \in Int /\ i - 1 \in Int /\ 1 <= 1
        BY <1>6
      <3> QED
        BY <1>2, <1>4, <1>6, <3>1, Slices
    <2> QED
      BY <1>6, <2>1
  <1>8. IsTrimmed(T, pre, a)
    BY <1>4, <1>7, Trimmed
  <1>9. PICK l, q : l = Len(a) /\ q = i - 1
    OBVIOUS
  <1>10. /\ a \in Seq(T) /\ l \in Nat /\ q \in Nat /\ l <= q /\ q <= Len(t)
         /\ \A k \in (l + 1)..q : t[k] = Blank
    BY <1>6, <1>7, <1>8, <1>9 DEF IsTrimmed
  <1>11. a = SubSeq(t, 1, l)
    <2> DEFINE s == SubSeq(t, 1, l)
    <2>1. /\ s \in Seq(T) /\ Len(s) = (IF 1 <= l THEN l - 1 + 1 ELSE 0)
          /\ \A k \in 1..(l - 1 + 1) : s[k] = t[1 + k - 1]
      <3>1. 1 \in Int /\ l \in Int /\ 1 <= 1 /\ l <= Len(t)
        BY <1>6, <1>10
      <3> QED
        BY <1>2, <3>1, Slices
    <2> HIDE DEF s
    <2>2. Len(a) = Len(s) /\ \A k \in 1..Len(a) : a[k] = s[k]
      <3>1. Len(s) = l /\ \A k \in 1..l : s[k] = t[k]
        BY <1>10, <2>1
      <3>2. \A k \in 1..l : a[k] = pre[k] /\ pre[k] = t[k]
        BY <1>7, <1>8, <1>9, <1>10 DEF IsTrimmed
      <3> QED
        BY <1>9, <3>1, <3>2
    <2>3. a = s
      BY <1>10, <2>1, <2>2, SeqEqual
    <2> QED
      BY <2>3 DEF s
  <1>12. b \in Seq(T) /\ b = SubSeq(t, q + 1, Len(t))
    <2>1. i \in Int /\ Len(t) \in Int /\ Len(t) <= Len(t)
      BY <1>6
    <2>2. b \in Seq(T)
      BY <1>2, <1>4, <1>6, <2>1, Slices
    <2> QED
      BY <1>4, <1>6, <1>9, <2>2
  <1>13. PICK g, h : g = (IF a = <<>> THEN <<>> ELSE <<Blank>>) /\ h = (IF b = <<>> THEN <<>> ELSE <<Blank>>)
    OBVIOUS
  <1>14. g \in Seq(T) /\ IsBlank(g) /\ h \in Seq(T) /\ IsBlank(h)
    BY <1>13, Gaps
  <1>15. d = ((a \o g) \o m) \o (h \o b)
    <2>1. (IF a = <<>> THEN <<>> ELSE a \o <<Blank>>) = a \o g
      <3>1. a = <<>> => a \o g = <<>>
        BY <1>10, <1>13, ConcatEmptySeq
      <3> QED
        BY <1>13, <3>1
    <2>2. (IF b = <<>> THEN <<>> ELSE <<Blank>> \o b) = h \o b
      <3>1. b = <<>> => h \o b = <<>>
        BY <1>12, <1>13, ConcatEmptySeq
      <3> QED
        BY <1>13, <3>1
    <2> QED
      BY <1>5, <2>1, <2>2
  <1>16. d = Spliced(t, l, q, g \o m \o h)
    <2>1. Regroups(a, g, m, h, b)
      <3>1. a \in Seq(T) /\ g \in Seq(T) /\ h \in Seq(T) /\ b \in Seq(T)
        BY <1>10, <1>12, <1>14
      <3> QED
        BY <3>1, Regrouped
    <2> QED
      BY <1>11, <1>12, <1>15, <2>1 DEF Regroups, Spliced
  <1>17. \A k \in (q + 1)..Len(t) : t[k] # Blank => \E j \in Headers(t) : q < j /\ j <= k
    BY <1>3, <1>6, <1>9
  <1>18. IsPut(T, t, d, Legacy, Workspace, m)
    <2>1. t \in Seq(T) /\ ~HasStart(t, Legacy) /\ ~HasStart(t, Workspace)
      BY <1>2
    <2> QED
      BY <1>10, <1>14, <1>16, <1>17, <2>1, BlockAdded
  <1> QED
    BY <1>2, <1>18 DEF IsPut

-----------------------------------------------------------------------------
(* Rendering.                                                               *)

LEMMA IsTextOf ==
    ASSUME NEW T, NEW c \in Seq(T)
    PROVE  IsText(c)
  BY SeqDef DEF IsText, Elements

LEMMA EntriesAre ==
    ASSUME NEW w \in Projections, NEW p \in Providers, NEW e, e = w[p]
    PROVE  /\ Len(e) \in Nat /\ DOMAIN e = 1..Len(e)
           /\ \A i \in 1..Len(e) : e[i] = <<e[i][1], e[i][2]>> /\ e[i][1] \in Prefixed
           /\ \A x \in Elements(e) : x[1] \in Prefixed
  <1>1. /\ IsText(e)
        /\ \A i \in DOMAIN e : e[i] = <<e[i][1], e[i][2]>> /\ e[i][1] \in Prefixed
    BY ProjectionsAssumption
  <1>2. Len(e) \in Nat /\ DOMAIN e = 1..Len(e)
    BY <1>1 DEF IsText
  <1> QED
    BY <1>1, <1>2 DEF Elements

LEMMA BlockOfEntries ==
    ASSUME NEW e, Len(e) \in Nat, DOMAIN e = 1..Len(e), NEW m, m = Block(e)
    PROVE  /\ IsBlock(m, Workspace) /\ m \in Seq(Elements(m)) /\ Len(m) = Len(e) + 2
           /\ \A i \in 1..Len(e) : m[i + 1] = <<"mcp", e[i][1], e[i][2]>>
  <1> DEFINE t == [i \in DOMAIN e |-> <<"mcp", e[i][1], e[i][2]>>]
             T == {StartMark(Workspace), EndMark(Workspace)} \cup {t[i] : i \in 1..Len(e)}
  <1>1. \A i \in 1..Len(e) : t[i] \in T
    OBVIOUS
  <1>2. /\ t \in Seq(T) /\ Len(t) = Len(e) /\ \A i \in 1..Len(t) : t[i][1] = "mcp"
        /\ \A i \in 1..Len(t) : t[i] = <<"mcp", e[i][1], e[i][2]>>
    <2> HIDE DEF T
    <2> QED
      BY <1>1, IsASeq
  <1>3. m = <<StartMark(Workspace)>> \o t \o <<EndMark(Workspace)>>
    BY DEF Block
  <1>4. StartMark(Workspace) \in T /\ EndMark(Workspace) \in T
    OBVIOUS
  <1> HIDE DEF t, T
  <1>5. PICK u, U, o : u = t /\ U = T /\ o = Workspace
    OBVIOUS
  <1>6. /\ StartMark(o) \in U /\ EndMark(o) \in U /\ u \in Seq(U)
        /\ \A i \in 1..Len(u) : u[i][1] = "mcp"
        /\ m = <<StartMark(o)>> \o u \o <<EndMark(o)>>
    BY <1>2, <1>3, <1>4, <1>5
  <1>7. /\ m \in Seq(U) /\ IsBlock(m, o) /\ Len(m) = Len(u) + 2
        /\ \A i \in 1..Len(u) : m[i + 1] = u[i]
    <2>1. m \in Seq(U) /\ IsBlock(m, o)
      BY <1>6, BlockIsBlock
    <2>2. Len(m) = Len(u) + 2
      BY <1>6, BlockIsBlock
    <2>3. \A i \in 1..Len(u) : m[i + 1] = u[i]
      BY <1>6, BlockIsBlock
    <2> QED
      BY <2>1, <2>2, <2>3
  <1>8. m \in Seq(Elements(m))
    BY <1>7, IsTextOf DEF IsText
  <1> QED
    BY <1>2, <1>5, <1>7, <1>8

\* A region that holds the block of the entries holds the entries.
LEMMA SharedOfBlock ==
    ASSUME NEW T, NEW d \in Seq(T), NEW e, Len(e) \in Nat, DOMAIN e = 1..Len(e),
           \A i \in 1..Len(e) : e[i] = <<e[i][1], e[i][2]>>,
           NEW m, m = Block(e), Holds(d, Workspace, m)
    PROVE  {<<d[i][2], d[i][3]>> : i \in {j \in Region(d, Workspace) : d[j][1] = "mcp"}} = Elements(e)
  <1>1. /\ IsBlock(m, Workspace) /\ Len(m) = Len(e) + 2
        /\ \A i \in 1..Len(e) : m[i + 1] = <<"mcp", e[i][1], e[i][2]>>
    BY BlockOfEntries
  <1>2. PICK s, z : s = StartOf(d, Workspace) /\ z = EndOf(d, Workspace)
    OBVIOUS
  <1>3. /\ Region(d, Workspace) = s..z /\ Len(m) = z - s + 1 /\ s \in Nat /\ z \in Nat
        /\ \A k \in 1..Len(m) : m[k] = d[s + k - 1]
    BY <1>2, HeldLines
  <1>4. m[1][1] # "mcp" /\ m[Len(m)][1] # "mcp"
    BY <1>1 DEF IsBlock, StartMark, EndMark
  <1>5. ASSUME NEW i \in Region(d, Workspace), d[i][1] = "mcp"
        PROVE  <<d[i][2], d[i][3]>> \in Elements(e)
    <2>1. i - s + 1 \in 1..Len(m) /\ s + (i - s + 1) - 1 = i
      BY <1>1, <1>3
    <2>2. m[i - s + 1] = d[i]
      BY <1>3, <2>1
    <2>3. i - s + 1 # 1 /\ i - s + 1 # Len(m)
      BY <1>4, <1>5, <2>2
    <2>4. i - s \in 1..Len(e) /\ (i - s) + 1 = i - s + 1
      BY <1>1, <1>3, <2>1, <2>3
    <2>5. d[i] = <<"mcp", e[i - s][1], e[i - s][2]>>
      BY <1>1, <2>2, <2>4
    <2>6. <<d[i][2], d[i][3]>> = e[i - s]
      BY <2>4, <2>5
    <2> QED
      BY <2>4, <2>6 DEF Elements
  <1>6. ASSUME NEW j \in 1..Len(e)
        PROVE  \E i \in Region(d, Workspace) : d[i][1] = "mcp" /\ <<d[i][2], d[i][3]>> = e[j]
    <2>1. j + 1 \in 1..Len(m) /\ s + (j + 1) - 1 = s + j /\ s + j \in Region(d, Workspace)
      BY <1>1, <1>3
    <2>2. d[s + j] = <<"mcp", e[j][1], e[j][2]>>
      <3>1. m[j + 1] = d[s + (j + 1) - 1]
        BY <1>3, <2>1
      <3> QED
        BY <1>1, <2>1, <3>1
    <2> QED
      BY <2>1, <2>2
  <1> QED
    BY <1>5, <1>6 DEF Elements

-----------------------------------------------------------------------------
(* What a publish does to config.toml.                                       *)

\* The block is the region of d, and the lines around it are the user's of c.
IsUpserted(T, c, d, m) ==
    /\ d \in Seq(T) /\ Holds(d, Workspace, m)
    /\ OwnLines(c, Target(c)) = OwnLines(d, Workspace)
    /\ ~Exposed(c, Target(c)) => Meaning(c, Target(c)) \subseteq Meaning(d, Workspace)

LEMMA UpsertIs ==
    ASSUME NEW T, Blank \in T, NEW c \in Seq(T), ~Unclosed(c),
           NEW m \in Seq(T), IsBlock(m, Workspace), NEW d, d = Upsert(c, m)
    PROVE  IsUpserted(T, c, d, m)
  <1>1. CASE HasStart(c, Workspace) \/ HasStart(c, Legacy)
    <2>1. PICK o, w : o = Target(c) /\ w = Workspace
      OBVIOUS
    <2>2. HasRegion(c, o) /\ d = Replace(c, o, m)
      BY <1>1, <2>1 DEF Unclosed, Target, Upsert, Refresh
    <2>3. \A i \in 1..(StartOf(c, o) - 1) : c[i] # StartMark(w)
      <3>1. CASE o = w
        BY <2>2, <3>1, NoEarlierStart
      <3>2. CASE o # w
        <4>1. StartOf(c, o) \in 1..Len(c) /\ Len(c) \in Nat /\ DOMAIN c = 1..Len(c)
          BY <2>2, RegionBounds
        <4>2. ~HasStart(c, w)
          BY <2>1, <3>2 DEF Target
        <4> QED
          BY <4>1, <4>2 DEF HasStart, Positions
      <3> QED
        BY <3>1, <3>2
    <2>4. IsBlock(m, w)
      BY <2>1
    <2>5. /\ d \in Seq(T) /\ Holds(d, w, m) /\ OwnLines(c, o) = OwnLines(d, w)
          /\ ~Exposed(c, o) \/ Headers(m) = {} => IsPut(T, c, d, o, w, m)
      BY <2>2, <2>3, <2>4, RegionReplaced
    <2> QED
      BY <2>1, <2>5 DEF IsUpserted, IsPut
  <1>2. CASE ~HasStart(c, Workspace) /\ ~HasStart(c, Legacy)
    <2>1. d = Place(c, m) /\ Target(c) = Legacy
      BY <1>2 DEF Upsert, Target
    <2>2. IsPut(T, c, d, Legacy, Workspace, m)
      BY <1>2, <2>1, BlockPlaced
    <2> QED
      BY <2>1, <2>2 DEF IsUpserted, IsPut
  <1> QED
    BY <1>1, <1>2

\* A text that holds the block is left as it is.
LEMMA UpsertSettles ==
    ASSUME NEW T, NEW d \in Seq(T), NEW m, Holds(d, Workspace, m)
    PROVE  Target(d) = Workspace /\ HasRegion(d, Workspace) /\ Upsert(d, m) = d
  <1>1. HasRegion(d, Workspace) /\ HasStart(d, Workspace)
    BY DEF Holds, HasRegion
  <1>2. PICK o : o = Workspace
    OBVIOUS
  <1>3. HasRegion(d, o) /\ m = SubSeq(d, StartOf(d, o), EndOf(d, o))
    BY <1>1, <1>2 DEF Holds
  <1>4. Replace(d, o, m) = d
    BY <1>3, ReplaceSettles
  <1> QED
    BY <1>1, <1>2, <1>4 DEF Target, Upsert, Refresh

LEMMA UpsertUnclosed ==
    ASSUME NEW c, Unclosed(c), NEW m
    PROVE  Upsert(c, m) = c
  BY DEF Unclosed, Target, Upsert, Refresh

-----------------------------------------------------------------------------
(* What a publish does to a file.                                            *)

IsFile(p, f) == IF p = "codex" THEN IsText(f.body) ELSE IsBody(f.body)
OwnAfter(p, part) == IF p = "codex" THEN part ELSE RecodedOwn(part)

\* d is a publication of the projection w over f.
IsPublished(p, f, w, d) ==
    /\ IsFile(p, d) /\ d.kind = "present" /\ Rendered(p, d, w) = d
    /\ Own(p, d) = OwnAfter(p, Own(p, f))
    /\ Shared(p, d) = Elements(w[p]) \/ (p = "codex" /\ d.body = f.body /\ Unclosed(f.body))
    /\ p = "codex" /\ ~Exposed(f.body, Target(f.body)) =>
          Meaning(f.body, Target(f.body)) \subseteq Meaning(d.body, Target(d.body))

LEMMA WiderText ==
    ASSUME NEW S, NEW T, S \subseteq T, NEW c \in Seq(S)
    PROVE  c \in Seq(T)
  OBVIOUS

LEMMA RenderedCodex ==
    ASSUME NEW f, IsFile("codex", f), NEW w \in Projections, NEW d, d = Rendered("codex", f, w)
    PROVE  IsPublished("codex", f, w, d)
  <1>1. PICK c, e, m : c = f.body /\ e = w["codex"] /\ m = Block(e)
    OBVIOUS
  <1>2. /\ Len(e) \in Nat /\ DOMAIN e = 1..Len(e)
        /\ \A i \in 1..Len(e) : e[i] = <<e[i][1], e[i][2]>>
    <2>1. "codex" \in Providers
      BY DEF Providers, Order
    <2> QED
      BY <1>1, <2>1, EntriesAre
  <1>3. IsBlock(m, Workspace) /\ m \in Seq(Elements(m))
    BY <1>1, <1>2, BlockOfEntries
  <1>4. PICK T : T = Elements(c) \cup Elements(m) \cup {Blank}
    OBVIOUS
  <1>5. c \in Seq(T) /\ m \in Seq(T) /\ Blank \in T
    <2>1. c \in Seq(Elements(c))
      BY <1>1 DEF IsFile, IsText
    <2>2. Elements(c) \subseteq T /\ Elements(m) \subseteq T /\ Blank \in T
      BY <1>4
    <2> QED
      BY <1>3, <2>1, <2>2, WiderText
  <1>6. d = [kind |-> "present", body |-> Upsert(c, m)]
    BY <1>1 DEF Rendered
  <1>7. CASE Unclosed(c)
    <2>1. d.body = c /\ d.kind = "present" /\ Rendered("codex", d, w) = d
      BY <1>1, <1>6, <1>7, UpsertUnclosed DEF Rendered
    <2> QED
      BY <1>1, <1>7, <2>1 DEF IsPublished, IsFile, Own, OwnAfter
  <1>8. CASE ~Unclosed(c)
    <2>1. PICK b : b = Upsert(c, m)
      OBVIOUS
    <2>2. IsUpserted(T, c, b, m)
      BY <1>3, <1>5, <1>8, <2>1, UpsertIs
    <2>3. b \in Seq(T) /\ Holds(b, Workspace, m)
      BY <2>2 DEF IsUpserted
    <2>4. Target(b) = Workspace /\ Upsert(b, m) = b
      BY <2>3, UpsertSettles
    <2>5. d.body = b /\ d.kind = "present" /\ Rendered("codex", d, w) = d
      BY <1>1, <1>6, <2>1, <2>4 DEF Rendered
    <2>6. Shared("codex", d) = Elements(e)
      <3>1. {<<b[i][2], b[i][3]>> : i \in {j \in Region(b, Workspace) : b[j][1] = "mcp"}} = Elements(e)
        BY <1>1, <1>2, <2>3, SharedOfBlock
      <3> QED
        BY <2>4, <2>5, <3>1 DEF Shared
    <2>7. IsText(b)
      BY <2>3, IsTextOf
    <2>8. Own("codex", d) = Own("codex", f)
      BY <1>1, <2>2, <2>4, <2>5 DEF Own, IsUpserted
    <2>9. ~Exposed(c, Target(c)) => Meaning(c, Target(c)) \subseteq Meaning(b, Target(b))
      BY <2>2, <2>4 DEF IsUpserted
    <2> QED
      BY <1>1, <2>5, <2>6, <2>7, <2>8, <2>9 DEF IsPublished, IsFile, OwnAfter
  <1> QED
    BY <1>7, <1>8

\* Recoding is done once and for all.
LEMMA RecodedOnce ==
    ASSUME NEW o, \A x \in o : x[2] \in DOMAIN Recoded
    PROVE  /\ Recode(Recode(o)) = Recode(o)
           /\ \A x \in Recode(o) : x[2] \in DOMAIN Recoded /\ \E y \in o : x[1] = y[1]
  <1>1. ASSUME NEW y \in o PROVE Recoded[y[2]] \in DOMAIN Recoded /\ Recoded[Recoded[y[2]]] = Recoded[y[2]]
    BY RecodedAssumption
  <1>2. \A x \in Recode(o) : \E y \in o : x = <<y[1], Recoded[y[2]]>>
    BY DEF Recode
  <1>3. \A x \in Recode(o) : <<x[1], Recoded[x[2]]>> = x
    BY <1>1, <1>2
  <1>4. Recode(Recode(o)) = {<<x[1], Recoded[x[2]]>> : x \in Recode(o)}
    BY DEF Recode
  <1>5. Recode(Recode(o)) = Recode(o)
    <2> HIDE DEF Recode
    <2> QED
      BY <1>3, <1>4
  <1>6. \A x \in Recode(o) : x[2] \in DOMAIN Recoded /\ \E y \in o : x[1] = y[1]
    BY <1>1, <1>2
  <1> QED
    BY <1>5, <1>6

LEMMA RenderedJson ==
    ASSUME NEW p \in Providers, p # "codex", NEW f, IsFile(p, f), NEW w \in Projections,
           NEW d, d = Rendered(p, f, w)
    PROVE  IsPublished(p, f, w, d)
  <1>1. \A x \in Elements(w[p]) : x[1] \in Prefixed
    BY EntriesAre
  <1>2. PICK s, o, E : s = f.body.servers /\ o = {x \in s : x[1] \notin Prefixed} /\ E = Elements(w[p])
    OBVIOUS
  <1>3. PICK r, v : r = Recode(o) /\ v = Recoded[f.body.rest]
    OBVIOUS
  <1>4. /\ \A x \in o : x[2] \in DOMAIN Recoded
        /\ f.body.rest \in DOMAIN Recoded
    BY <1>2 DEF IsFile, IsBody
  <1>5. v \in DOMAIN Recoded /\ Recoded[v] = v
    BY <1>3, <1>4, RecodedAssumption
  <1>6. /\ Recode(r) = r
        /\ \A x \in r : x[2] \in DOMAIN Recoded /\ x[1] \notin Prefixed
    BY <1>2, <1>3, <1>4, RecodedOnce
  <1>7. Merge(s, w[p]) = r \cup E
    BY <1>2, <1>3 DEF Merge
  <1>8. d = [kind |-> "present",
             body |-> [canonical |-> TRUE, rest |-> v, misplaced |-> "nothing", servers |-> r \cup E]]
    BY <1>2, <1>3, <1>7 DEF Rendered
  <1>9. /\ d.kind = "present" /\ d.body.rest = v /\ d.body.misplaced = "nothing"
        /\ d.body.servers = r \cup E
    BY <1>8
  <1>10. {x \in r \cup E : x[1] \notin Prefixed} = r
    BY <1>1, <1>2, <1>6
  <1>11. Merge(r \cup E, w[p]) = r \cup E
    BY <1>2, <1>6, <1>10 DEF Merge
  <1>12. Rendered(p, d, w) = d
    BY <1>5, <1>8, <1>9, <1>11 DEF Rendered
  <1>13. Own(p, d) = <<v, "nothing", r>>
    BY <1>9, <1>10 DEF Own
  <1>14. Own(p, f) = <<f.body.rest, f.body.misplaced, o>>
    BY <1>2 DEF Own
  <1>15. Own(p, d) = OwnAfter(p, Own(p, f))
    BY <1>3, <1>13, <1>14 DEF OwnAfter, RecodedOwn
  <1>16. Shared(p, d) = Elements(w[p])
    BY <1>1, <1>2, <1>6, <1>9 DEF Shared
  <1>17. IsFile(p, d)
    BY <1>1, <1>2, <1>5, <1>6, <1>9 DEF IsFile, IsBody
  <1> QED
    BY <1>9, <1>12, <1>15, <1>16, <1>17 DEF IsPublished

LEMMA RenderedIs ==
    ASSUME NEW p \in Providers, NEW f, IsFile(p, f), NEW w \in Projections, NEW d, d = Rendered(p, f, w)
    PROVE  IsPublished(p, f, w, d)
  BY RenderedCodex, RenderedJson

-----------------------------------------------------------------------------
(* The inductive invariant.                                                  *)

\* What the run reports as up to date is published, as long as it is alone.
IInv ==
    /\ TypeOK
    /\ DOMAIN file = Providers /\ \A p \in Providers : IsFile(p, file[p])
    /\ pc \in {"apply", "install"} => IsFile(Here, read) /\ out = Rendered(Here, read, wanted)
    /\ calm => wanted = projection
    /\ calm => \A p \in Providers : status[p] \in {"unchanged", "updated"} =>
                  Published(p) \/ (p = "codex" /\ Unclosed(file[p].body))

LEMMA Places ==
    /\ Providers = {"claude", "codex", "gemini"} /\ DOMAIN Order = 1..3 /\ Len(Order) = 3
    /\ \A i \in 1..3 : Order[i] \in Providers
    /\ \A i, j \in 1..3 : Order[i] = Order[j] => i = j
    /\ \A p \in Providers : \E i \in 1..3 : p = Order[i]
  BY DEF Providers, Order

LEMMA InvInit == Init => IInv
  <1> SUFFICES ASSUME Init PROVE IInv
    OBVIOUS
  <1>1. PICK c \in Files["claude"], x \in Files["codex"], g \in Files["gemini"] :
            file = [claude |-> c, codex |-> x, gemini |-> g]
    BY DEF Init
  <1>2. DOMAIN file = Providers /\ \A p \in Providers : IsFile(p, file[p])
    BY <1>1, Places, FilesAssumption DEF IsFile
  <1>3. status \in [Providers -> Statuses]
    BY DEF Init, NoStatus, Statuses
  <1>4. /\ projection \in Projections /\ wanted \in Projections /\ pc = "idle" /\ mode \in Modes
        /\ at \in DOMAIN Order /\ failed = FALSE /\ calm = TRUE /\ events \in 0..MaxEvents
    BY Places, MaxEventsAssumption DEF Init
  <1>5. TypeOK
    BY <1>3, <1>4 DEF TypeOK
  <1> QED
    BY <1>2, <1>5 DEF Init, IInv, NoStatus

\* The run's report on a file, whatever it did to it.
LEMMA Reporting ==
    ASSUME TypeOK, pc \in {"apply", "install"}, NEW what \in Statuses \ {"none"}, Report(what),
           projection' \in Projections, calm' \in BOOLEAN, events' \in 0..MaxEvents
    PROVE  /\ TypeOK' /\ pc' \in {"render", "done"} /\ Here \in Providers
           /\ status'[Here] = what /\ \A p \in Providers \ {Here} : status'[p] = status[p]
  <1>1. /\ at \in 1..3 /\ Here \in Providers /\ status \in [Providers -> Statuses]
        /\ \A i \in 1..3 : (status[Order[i]] # "none") <=> i < at
    BY Places DEF TypeOK, Here
  <1>2. status' = [status EXCEPT ![Here] = what]
    BY DEF Report
  <1>3. status'[Here] = what /\ \A p \in Providers \ {Here} : status'[p] = status[p]
    BY <1>1, <1>2
  <1>4. status' \in [Providers -> Statuses]
    BY <1>1, <1>2
  <1>5. \A i \in 1..3 : (status'[Order[i]] # "none") <=> i < at + 1
    <2> TAKE i \in 1..3
    <2>1. CASE i = at
      BY <1>1, <1>3, <2>1 DEF Here
    <2>2. CASE i # at
      <3>1. Order[i] \in Providers \ {Here}
        BY <1>1, <2>2, Places DEF Here
      <3> QED
        BY <1>1, <1>3, <2>2, <3>1
    <2> QED
      BY <2>1, <2>2
  <1>6. CASE at = 3
    <2>1. pc' = "done" /\ at' = at
      BY <1>6, Places DEF Report
    <2>2. \A p \in Providers : status'[p] # "none"
      BY <1>5, <1>6, Places
    <2>3. TypeOK'
      BY <1>1, <1>4, <2>1, <2>2, Places DEF TypeOK, Report
    <2> QED
      BY <1>1, <1>3, <2>1, <2>3
  <1>7. CASE at # 3
    <2>1. pc' = "render" /\ at' = at + 1
      BY <1>7, Places DEF Report
    <2>2. at' \in 1..3
      BY <1>1, <1>7, <2>1
    <2>3. TypeOK'
      BY <1>4, <1>5, <2>1, <2>2, Places DEF TypeOK, Report
    <2> QED
      BY <1>1, <1>3, <2>1, <2>3
  <1> QED
    BY <1>6, <1>7

\* A file that holds what was rendered is published.
LEMMA OutIsPublished ==
    ASSUME IInv, pc \in {"apply", "install"}, calm
    PROVE  LET p == Here IN
           \/ Shared(p, out) = Elements(projection[p]) /\ Rendered(p, out, projection) = out
           \/ p = "codex" /\ Unclosed(out.body)
  <1>1. PICK p : p = Here
    OBVIOUS
  <1>2. p \in Providers /\ IsFile(p, read) /\ out = Rendered(p, read, wanted) /\ wanted \in Projections
    BY <1>1, Places DEF IInv, TypeOK, Here
  <1>3. IsPublished(p, read, wanted, out)
    BY <1>2, RenderedIs
  <1> QED
    BY <1>1, <1>3 DEF IsPublished, IInv

\* The report on a file and what is said of all of them.
LEMMA ReportStep ==
    ASSUME IInv, pc \in {"apply", "install"}, NEW what \in Statuses \ {"none"}, Report(what),
           UNCHANGED <<projection, calm>>, events' \in 0..MaxEvents,
           DOMAIN file' = Providers, \A p \in Providers \ {Here} : file'[p] = file[p],
           IsFile(Here, file'[Here]),
           what \in {"unchanged", "updated"} => file'[Here] = out
    PROVE  IInv'
  <1>1. PICK h : h = Here
    OBVIOUS
  <1>2. /\ TypeOK' /\ pc' \in {"render", "done"} /\ h \in Providers
        /\ status'[h] = what /\ \A p \in Providers \ {h} : status'[p] = status[p]
    <2>1. projection' \in Projections /\ calm' \in BOOLEAN
      BY DEF IInv, TypeOK
    <2> QED
      BY <1>1, <2>1, Reporting DEF IInv
  <1>4. \A p \in Providers : IsFile(p, file'[p])
    BY <1>1 DEF IInv
  <1>3. UNCHANGED wanted /\ (calm' => wanted' = projection')
    BY DEF IInv, Report
  <1>5. ASSUME calm', NEW p \in Providers, status'[p] \in {"unchanged", "updated"}
        PROVE  Published(p)' \/ (p = "codex" /\ Unclosed(file'[p].body))
    <2>1. CASE p = h
      <3>1. file'[p] = out /\ calm
        BY <1>1, <1>2, <1>5, <2>1
      <3>2. \/ Shared(p, out) = Elements(projection[p]) /\ Rendered(p, out, projection) = out
            \/ p = "codex" /\ Unclosed(out.body)
        BY <1>1, <2>1, <3>1, OutIsPublished
      <3> QED
        BY <3>1, <3>2 DEF Published
    <2>2. CASE p # h
      BY <1>1, <1>2, <1>5, <2>2 DEF IInv, Published
    <2> QED
      BY <2>1, <2>2
  <1> QED
    BY <1>2, <1>3, <1>4, <1>5 DEF IInv

LEMMA Beginning == ASSUME IInv, Begin PROVE IInv'
  <1>1. \A p \in Providers : status'[p] = "none"
    BY DEF Begin, NoStatus
  <1>2. status' \in [Providers -> Statuses]
    BY DEF Begin, NoStatus, Statuses
  <1>3. at' = 1 /\ pc' = "render" /\ \A i \in 1..3 : status'[Order[i]] = "none" /\ ~(i < at')
    BY <1>1, Places DEF Begin, Forget
  <1>4. /\ projection' \in Projections /\ wanted' \in Projections /\ mode' \in Modes /\ at' \in DOMAIN Order
        /\ failed' = FALSE /\ calm' = TRUE /\ events' \in 0..MaxEvents
    BY <1>3, Places DEF IInv, TypeOK, Begin
  <1>5. TypeOK'
    BY <1>2, <1>3, <1>4, Places DEF TypeOK
  <1> QED
    BY <1>1, <1>3, <1>5 DEF IInv, Begin

\* The steps that leave the files, the sources and the report alone.
LEMMA QuietStep ==
    ASSUME IInv, TypeOK', UNCHANGED <<projection, file, status, wanted, calm>>,
           pc' \in {"apply", "install"} => IsFile(Here', read') /\ out' = Rendered(Here', read', wanted)
    PROVE  IInv'
  BY DEF IInv, Published

LEMMA Rendering == ASSUME IInv, Render PROVE IInv'
  <1>1. TypeOK'
    BY DEF IInv, TypeOK, Render
  <1>2. UNCHANGED <<projection, file, status, wanted, calm, at>>
    BY DEF Render
  <1>3. ASSUME pc' = "apply"
        PROVE  IsFile(Here', read') /\ out' = Rendered(Here', read', wanted)
    <2>1. read' = file[Here] /\ out' = Rendered(Here, file[Here], wanted) /\ Here' = Here
      BY <1>3, <1>2 DEF Render, Here
    <2>2. Here \in Providers
      BY Places DEF IInv, TypeOK, Here
    <2> QED
      BY <2>1, <2>2 DEF IInv
  <1>4. pc' \in {"apply", "done"}
    BY DEF Render
  <1> QED
    BY <1>1, <1>2, <1>3, <1>4, QuietStep

LEMMA HereIs == TypeOK => Here \in Providers
  BY Places DEF TypeOK, Here

LEMMA Applying == ASSUME IInv, Apply PROVE IInv'
  <1>1. pc = "apply" /\ UNCHANGED <<projection, file, calm, events>>
    BY DEF Apply
  <1>2. /\ Here \in Providers /\ DOMAIN file = Providers /\ IsFile(Here, file[Here]) /\ events \in 0..MaxEvents
    BY HereIs DEF IInv, TypeOK
  <1>3. ASSUME NEW what \in {"unchanged", "out_of_date", "would_update"}, Report(what),
               what = "unchanged" => file[Here] = out
        PROVE  IInv'
    <2>1. what \in Statuses \ {"none"}
      BY DEF Statuses
    <2> QED
      BY <1>1, <1>2, <1>3, <2>1, ReportStep
  <1>4. CASE file[Here] = out
    BY <1>3, <1>4 DEF Apply
  <1>5. CASE file[Here] # out /\ mode = "check"
    BY <1>3, <1>5 DEF Apply
  <1>6. CASE file[Here] # out /\ mode = "dry-run"
    BY <1>3, <1>6 DEF Apply
  <1>7. CASE file[Here] # out /\ mode # "check" /\ mode # "dry-run"
    <2>1. pc' = "install" /\ UNCHANGED <<mode, wanted, at, read, out, status, failed>>
      BY <1>7 DEF Apply
    <2>2. TypeOK'
      BY <1>1, <2>1 DEF IInv, TypeOK
    <2>3. IsFile(Here', read') /\ out' = Rendered(Here', read', wanted)
      BY <1>1, <2>1 DEF IInv, Here
    <2> QED
      BY <1>1, <2>1, <2>2, <2>3, QuietStep
  <1> QED
    BY <1>4, <1>5, <1>6, <1>7

LEMMA Installing == ASSUME IInv, Install PROVE IInv'
  <1>1. /\ pc = "install" /\ Report("updated") /\ file' = [file EXCEPT ![Here] = out]
        /\ UNCHANGED <<projection, calm, events>>
    BY DEF Install
  <1>2. /\ Here \in Providers /\ DOMAIN file = Providers /\ IsFile(Here, read) /\ events \in 0..MaxEvents
        /\ out = Rendered(Here, read, wanted) /\ wanted \in Projections
    BY <1>1, HereIs DEF IInv, TypeOK
  <1>3. file'[Here] = out /\ DOMAIN file' = Providers /\ \A p \in Providers \ {Here} : file'[p] = file[p]
    BY <1>1, <1>2
  <1>4. IsFile(Here, out)
    BY <1>2, RenderedIs DEF IsPublished
  <1>5. "updated" \in Statuses \ {"none"}
    BY DEF Statuses
  <1> QED
    BY <1>1, <1>2, <1>3, <1>4, <1>5, ReportStep

LEMMA Failing ==
    ASSUME IInv, RunFails \/ ApplyFails \/ Crash
    PROVE  IInv'
  <1>1. Happens /\ events' \in 0..MaxEvents
    BY MaxEventsAssumption DEF Happens, RunFails, ApplyFails, Crash, IInv, TypeOK
  <1>2. CASE RunFails
    <2>1. TypeOK' /\ pc' = "done" /\ UNCHANGED <<projection, file, status, wanted, calm>>
      BY <1>1, <1>2 DEF IInv, TypeOK, RunFails
    <2> QED
      BY <2>1, QuietStep
  <1>3. CASE ApplyFails
    <2>1. /\ pc \in {"apply", "install"} /\ Report("error") /\ UNCHANGED <<projection, file, calm>>
      BY <1>3 DEF ApplyFails
    <2>2. Here \in Providers /\ DOMAIN file' = Providers /\ IsFile(Here, file'[Here])
      BY <2>1, HereIs DEF IInv
    <2>3. "error" \in Statuses \ {"none"}
      BY DEF Statuses
    <2> QED
      BY <1>1, <2>1, <2>2, <2>3, ReportStep
  <1>4. CASE Crash
    <2>1. at' = 1 /\ pc' = "idle" /\ UNCHANGED <<projection, file, mode, wanted, status, failed, calm>>
      BY <1>4 DEF Crash, Forget
    <2>2. TypeOK'
      BY <1>1, <2>1, Places DEF IInv, TypeOK
    <2> QED
      BY <2>1, <2>2, QuietStep
  <1> QED
    BY <1>2, <1>3, <1>4

LEMMA Disturbing ==
    ASSUME IInv, (\E p \in Providers : Save(p)) \/ EditSources
    PROVE  IInv'
  <1>1. Happens /\ events' \in 0..MaxEvents /\ calm' = FALSE
    BY MaxEventsAssumption DEF Happens, Save, EditSources, IInv, TypeOK
  <1>2. /\ UNCHANGED <<pc, mode, wanted, at, read, out, status, failed>> /\ projection' \in Projections
    BY DEF Save, EditSources, IInv, TypeOK
  <1>3. TypeOK'
    BY <1>1, <1>2 DEF IInv, TypeOK
  <1>4. DOMAIN file' = Providers /\ \A p \in Providers : IsFile(p, file'[p])
    <2>1. CASE EditSources
      BY <2>1 DEF EditSources, IInv
    <2>2. ASSUME NEW p \in Providers, Save(p)
          PROVE  DOMAIN file' = Providers /\ \A q \in Providers : IsFile(q, file'[q])
      <3>1. PICK f \in Files[p] : file' = [file EXCEPT ![p] = f]
        BY <2>2 DEF Save
      <3>2. IsFile(p, f)
        BY FilesAssumption DEF IsFile
      <3> QED
        BY <3>1, <3>2 DEF IInv
    <2> QED
      BY <2>1, <2>2
  <1>5. pc \in {"apply", "install"} => IsFile(Here', read') /\ out' = Rendered(Here', read', wanted')
    BY <1>2 DEF IInv, Here
  <1> QED
    BY <1>1, <1>2, <1>3, <1>4, <1>5 DEF IInv

LEMMA InvStep == IInv /\ [Next]_vars => IInv'
  <1> SUFFICES ASSUME IInv, [Next]_vars PROVE IInv'
    OBVIOUS
  <1>1. CASE UNCHANGED vars
    <2>1. TypeOK' /\ UNCHANGED <<projection, file, status, wanted, calm, pc, at, read, out>>
      BY <1>1 DEF IInv, TypeOK, vars
    <2>2. pc \in {"apply", "install"} => IsFile(Here', read') /\ out' = Rendered(Here', read', wanted)
      BY <2>1 DEF IInv, Here
    <2> QED
      BY <2>1, <2>2, QuietStep
  <1> QED
    BY <1>1, Beginning, Rendering, Applying, Installing, Failing, Disturbing DEF Next

LEMMA Always == Spec => []IInv
  <1>1. Init => IInv
    BY InvInit
  <1>2. IInv /\ [Next]_vars => IInv'
    BY InvStep
  <1> QED
    BY <1>1, <1>2, PTL DEF Spec

\* The types of the state, for any files, projections and number of events.
THEOREM Typed == Spec => []TypeOK
  <1>1. IInv => TypeOK
    BY DEF IInv
  <1> QED
    BY <1>1, Always, PTL

\* A run that reports nothing but files that are up to date or updated has
\* published to each of them, and another run would leave them as they are,
\* whatever was in the files; a config.toml with an unclosed region excepted.
THEOREM CleanRunHasPublished == Spec => []CleanRunPublishes
  <1>1. IInv => CleanRunPublishes
    BY DEF IInv, CleanRunPublishes, Reported
  <1> QED
    BY <1>1, Always, PTL

\* No publish moves a line of config.toml to another table, whatever the config
\* and the projection are, but for lines behind a region without a server.
THEOREM TablesStay == Spec => TablesKept
  <1>1. ASSUME IInv, Install, Here = "codex", ~Exposed(read.body, Target(read.body))
        PROVE  Meaning(read.body, Target(read.body))
                  \subseteq Meaning(file["codex"].body', Target(file["codex"].body'))
    <2>1. IsFile("codex", read) /\ out = Rendered("codex", read, wanted) /\ wanted \in Projections
      BY <1>1 DEF IInv, TypeOK, Install
    <2>2. IsPublished("codex", read, wanted, out)
      BY <2>1, RenderedCodex
    <2>3. file'["codex"] = out
      BY <1>1, Places DEF IInv, Install
    <2> QED
      BY <1>1, <2>2, <2>3 DEF IsPublished
  <1>2. IInv /\ [Next]_vars =>
          [Install /\ Here = "codex" /\ ~Exposed(read.body, Target(read.body)) =>
             Meaning(read.body, Target(read.body))
               \subseteq Meaning(file["codex"].body', Target(file["codex"].body'))]_vars
    BY <1>1
  <1> QED
    BY <1>2, Always, PTL DEF Spec, TablesKept

-----------------------------------------------------------------------------
(* The run implements Publication for each file.                            *)

\* The two parts of a file, and the steps that Publication has for them.
Parts(p) == <<Own(p, file[p]), Shared(p, file[p])>>

PublicationStep(p) ==
    \/ Parts(p)' \in SavedParts[p] /\ Looked(p)' = Looked(p)
    \/ Looked(p)' = Parts(p) /\ Parts(p)' = Parts(p)
    \/ /\ Looked(p) # <<>> /\ Looked(p)' = <<>> /\ Parts(p)'[1] = OwnAfter(p, Looked(p)[1])
       /\ Parts(p)'[2] \in WantedParts[p] \/ Parts(p)'[2] = Looked(p)[2]
    \/ Looked(p)' = <<>> /\ Parts(p)' = Parts(p)
    \/ Looked(p)' = Looked(p) /\ Parts(p)' = Parts(p)

LEMMA InitParts ==
    ASSUME Init, NEW p \in Providers
    PROVE  Parts(p) \in SavedParts[p] /\ Looked(p) = <<>>
  <1>1. file[p] \in Files[p]
    BY Places DEF Init
  <1> QED
    BY <1>1 DEF Parts, SavedParts, Looked, Init

\* The run leaves a file it is not at alone.
LEMMA Elsewhere ==
    ASSUME NEW p \in Providers, file'[p] = file[p], ~(pc' \in {"apply", "install"} /\ Here' = p)
    PROVE  PublicationStep(p)
  BY DEF PublicationStep, Parts, Looked

LEMMA RunSteps ==
    ASSUME IInv, NEW p \in Providers, Begin \/ Render \/ Apply \/ Install \/ RunFails \/ ApplyFails \/ Crash
    PROVE  PublicationStep(p)
  <1>1. ASSUME Report("unchanged") \/ Report("out_of_date") \/ Report("would_update") \/ Report("error"),
               UNCHANGED file
        PROVE  PublicationStep(p)
    <2>1. pc' \notin {"apply", "install"}
      BY <1>1 DEF Report
    <2> QED
      BY <1>1, <2>1, Elsewhere
  <1>2. CASE Begin \/ RunFails \/ ApplyFails \/ Crash
    BY <1>1, <1>2, Elsewhere DEF Begin, RunFails, ApplyFails, Crash
  <1>3. CASE Render
    <2>1. UNCHANGED <<file, at>> /\ Here' = Here
      BY <1>3 DEF Render, Here
    <2>2. CASE pc' = "apply" /\ Here = p
      <3>1. read' = file[p]
        BY <1>3, <2>2 DEF Render
      <3> QED
        BY <2>1, <2>2, <3>1 DEF PublicationStep, Parts, Looked
    <2>3. CASE ~(pc' = "apply" /\ Here = p)
      BY <1>3, <2>1, <2>3, Elsewhere DEF Render
    <2> QED
      BY <2>2, <2>3
  <1>4. CASE Apply
    <2>1. CASE pc' = "install" /\ UNCHANGED <<mode, wanted, at, read, out, status, failed>>
      BY <1>4, <2>1 DEF Apply, PublicationStep, Parts, Looked, Here
    <2>2. CASE Report("unchanged") \/ Report("out_of_date") \/ Report("would_update")
      BY <1>1, <1>4, <2>2 DEF Apply
    <2> QED
      BY <1>4, <2>1, <2>2 DEF Apply
  <1>5. CASE Install
    <2>1. /\ pc = "install" /\ pc' \notin {"apply", "install"} /\ file' = [file EXCEPT ![Here] = out]
          /\ DOMAIN file = Providers
      BY <1>5 DEF Install, Report, IInv
    <2>2. CASE Here # p
      BY <2>1, <2>2, Elsewhere
    <2>3. CASE Here = p
      <3>1. IsFile(p, read) /\ out = Rendered(p, read, wanted) /\ wanted \in Projections /\ file'[p] = out
        BY <2>1, <2>3 DEF IInv, TypeOK
      <3>2. IsPublished(p, read, wanted, out)
        BY <3>1, RenderedIs
      <3>3. Own(p, out) = OwnAfter(p, Own(p, read))
        BY <3>2 DEF IsPublished
      <3>4. Shared(p, out) = Elements(wanted[p]) \/ Shared(p, out) = Shared(p, read)
        BY <3>2 DEF IsPublished, Shared
      <3>5. Looked(p) = <<Own(p, read), Shared(p, read)>> /\ Looked(p)' = <<>>
        BY <2>1, <2>3 DEF Looked
      <3>6. Parts(p)' = <<Own(p, out), Shared(p, out)>>
        BY <3>1 DEF Parts
      <3>7. Elements(wanted[p]) \in WantedParts[p]
        BY <3>1 DEF WantedParts
      <3> QED
        BY <3>3, <3>4, <3>5, <3>6, <3>7 DEF PublicationStep
    <2> QED
      BY <2>2, <2>3
  <1> QED
    BY <1>2, <1>3, <1>4, <1>5

LEMMA OtherSteps ==
    ASSUME IInv, NEW p \in Providers, (\E q \in Providers : Save(q)) \/ EditSources \/ UNCHANGED vars
    PROVE  PublicationStep(p)
  <1>1. UNCHANGED <<pc, at, read>>
    BY DEF Save, EditSources, vars
  <1>2. Looked(p)' = Looked(p)
    BY <1>1 DEF Looked, Here
  <1>3. CASE file'[p] = file[p]
    BY <1>2, <1>3 DEF PublicationStep, Parts
  <1>4. CASE file'[p] # file[p]
    <2>1. PICK q \in Providers : Save(q)
      BY <1>4 DEF EditSources, vars
    <2>2. file'[p] \in Files[p]
      BY <1>4, <2>1 DEF IInv, Save
    <2> QED
      BY <1>2, <2>2 DEF PublicationStep, Parts, SavedParts
  <1> QED
    BY <1>3, <1>4

LEMMA EveryStep ==
    ASSUME IInv, [Next]_vars, NEW p \in Providers
    PROVE  PublicationStep(p)
  BY RunSteps, OtherSteps DEF Next

LEMMA PublishesClaude == Spec => Claude!Spec
  <1>1. "claude" \in Providers
    BY Places
  <1>2. Init => Claude!Init
    BY <1>1, InitParts DEF Parts, Claude!Init
  <1>3. IInv /\ [Next]_vars => [Claude!Next]_Claude!vars
    <2> SUFFICES ASSUME IInv, [Next]_vars PROVE [Claude!Next]_Claude!vars
      OBVIOUS
    <2>1. PublicationStep("claude")
      BY <1>1, EveryStep
    <2> QED
      BY <2>1 DEF PublicationStep, Parts, Claude!Next, Claude!vars, Claude!Save, Claude!Look, Claude!Write,
                  Claude!Publish, Claude!PutBack, Claude!GiveUp, OwnAfter, RecodedOwn
  <1> QED
    BY <1>2, <1>3, Always, PTL DEF Spec, Claude!Spec

LEMMA PublishesCodex == Spec => Codex!Spec
  <1>1. "codex" \in Providers
    BY Places
  <1>2. Init => Codex!Init
    BY <1>1, InitParts DEF Parts, Codex!Init
  <1>3. IInv /\ [Next]_vars => [Codex!Next]_Codex!vars
    <2> SUFFICES ASSUME IInv, [Next]_vars PROVE [Codex!Next]_Codex!vars
      OBVIOUS
    <2>1. PublicationStep("codex")
      BY <1>1, EveryStep
    <2> QED
      BY <2>1 DEF PublicationStep, Parts, Codex!Next, Codex!vars, Codex!Save, Codex!Look, Codex!Write,
                  Codex!Publish, Codex!PutBack, Codex!GiveUp, OwnAfter, SplicedOwn
  <1> QED
    BY <1>2, <1>3, Always, PTL DEF Spec, Codex!Spec

LEMMA PublishesGemini == Spec => Gemini!Spec
  <1>1. "gemini" \in Providers
    BY Places
  <1>2. Init => Gemini!Init
    BY <1>1, InitParts DEF Parts, Gemini!Init
  <1>3. IInv /\ [Next]_vars => [Gemini!Next]_Gemini!vars
    <2> SUFFICES ASSUME IInv, [Next]_vars PROVE [Gemini!Next]_Gemini!vars
      OBVIOUS
    <2>1. PublicationStep("gemini")
      BY <1>1, EveryStep
    <2> QED
      BY <2>1 DEF PublicationStep, Parts, Gemini!Next, Gemini!vars, Gemini!Save, Gemini!Look, Gemini!Write,
                  Gemini!Publish, Gemini!PutBack, Gemini!GiveUp, OwnAfter, RecodedOwn
  <1> QED
    BY <1>2, <1>3, Always, PTL DEF Spec, Gemini!Spec

\* For each file the run implements Publication, whatever the files and the
\* projections are, and whatever fails, dies or is saved in between.
THEOREM RunPublishesWhole == Spec => PublishesWhole
  BY PublishesClaude, PublishesCodex, PublishesGemini DEF PublishesWhole
=============================================================================
