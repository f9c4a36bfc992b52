------------------------- MODULE MarkedRegionProofs -------------------------
(***************************************************************************)
(* Facts about the text surgery of MarkedRegion, for every text: where the *)
(* first and the last position of a set are, and which lines of a text its *)
(* parts hold.                                                             *)
(***************************************************************************)
EXTENDS MarkedRegion, Integers, SequenceTheorems, FiniteSetTheorems,
        WellFoundedInduction, TLAPS

\* A set of positions that is not empty has a first one.
LEMMA FirstIn ==
    ASSUME NEW S, S \subseteq Nat, S # {}
    PROVE  First(S) \in S /\ \A j \in S : First(S) <= j
  <1>1. PICK i \in S : \A j \in S : ~(<<j, i>> \in OpToRel(<, Nat))
    BY NatLessThanWellFounded, WFMin
  <1>2. ASSUME NEW j \in S PROVE i <= j
    <2>1. i \in Nat /\ j \in Nat
      OBVIOUS
    <2>2. <<j, i>> \in Nat \X Nat /\ <<j, i>>[1] = j /\ <<j, i>>[2] = i
      BY <2>1
    <2>3. j < i => <<j, i>> \in OpToRel(<, Nat)
      BY <2>2 DEF OpToRel
    <2>4. ~(j < i)
      BY <1>1, <2>3, Zenon
    <2> QED
      BY <2>1, <2>4
  <1> QED
    BY <1>2 DEF First

\* And, if it is a set of positions of a text, a last one.
LEMMA LastIn ==
    ASSUME NEW n \in Nat, NEW S, S \subseteq 1..n, S # {}
    PROVE  Last(S) \in S /\ \A j \in S : j <= Last(S)
  <1> DEFINE M == {n - i : i \in S}
  <1>1. M \subseteq Nat /\ M # {}
    <2>1. PICK i \in S : TRUE
      OBVIOUS
    <2>2. n - i \in M
      BY <2>1
    <2>3. \A j \in S : n - j \in Nat
      OBVIOUS
    <2> QED
      BY <2>2, <2>3
  <1>2. PICK m \in M : \A k \in M : m <= k
    <2> HIDE DEF M
    <2> QED
      BY <1>1, FirstIn
  <1>3. PICK i \in S : m = n - i
    BY <1>2
  <1>4. \A j \in S : j <= i
    BY <1>2, <1>3
  <1> QED
    BY <1>4 DEF Last

\* Where a region is: its markers are positions of the text, in order.
LEMMA RegionBounds ==
    ASSUME NEW T, NEW c \in Seq(T), NEW o, HasRegion(c, o)
    PROVE  StartOf(c, o) \in 1..Len(c) /\ EndOf(c, o) \in 1..Len(c) /\ StartOf(c, o) < EndOf(c, o)
  <1>1. StartOf(c, o) \in Positions(c, StartMark(o))
    <2>1. Positions(c, StartMark(o)) \subseteq Nat /\ Positions(c, StartMark(o)) # {}
      BY DEF Positions, HasRegion, HasStart
    <2> QED
      BY <2>1, FirstIn DEF StartOf
  <1>2. EndOf(c, o) \in EndsOf(c, o)
    <2>1. EndsOf(c, o) \subseteq Nat /\ EndsOf(c, o) # {}
      BY DEF EndsOf, Positions, HasRegion
    <2> QED
      BY <2>1, FirstIn DEF EndOf
  <1> QED
    BY <1>1, <1>2 DEF Positions, EndsOf

\* The text around a region is made of lines of the text.
LEMMA AroundRegion ==
    ASSUME NEW T, NEW c \in Seq(T), NEW o, HasRegion(c, o)
    PROVE  /\ Before(c, o) \in Seq({c[i] : i \in 1..Len(c)})
           /\ After(c, o) \in Seq({c[i] : i \in 1..Len(c)})
  <1> DEFINE U == {c[i] : i \in 1..Len(c)}
  <1>1. StartOf(c, o) \in 1..Len(c) /\ EndOf(c, o) \in 1..Len(c)
    BY RegionBounds
  <1>2. \A i \in 1..(StartOf(c, o) - 1) : c[i] \in U
    BY <1>1
  <1>3. \A i \in (EndOf(c, o) + 1)..Len(c) : c[i] \in U
    BY <1>1
  <1>4. StartOf(c, o) - 1 \in Int /\ EndOf(c, o) + 1 \in Int /\ Len(c) \in Int
    BY <1>1
  <1> HIDE DEF U
  <1>5. Before(c, o) \in Seq(U)
    BY <1>2, <1>4, SubSeqProperties DEF Before
  <1>6. After(c, o) \in Seq(U)
    BY <1>3, <1>4, SubSeqProperties DEF After
  <1> QED
    BY <1>5, <1>6 DEF U

\* So is the text without its trailing blank lines.
LEMMA TrimmedText ==
    ASSUME NEW T, NEW c \in Seq(T)
    PROVE  Trim(c) \in Seq({c[i] : i \in 1..Len(c)})
  <1> DEFINE U == {c[i] : i \in 1..Len(c)}
  <1>1. CASE Filled(c) = {}
    BY <1>1 DEF Trim
  <1>2. CASE Filled(c) # {}
    <2>1. Filled(c) \subseteq 1..Len(c) /\ Len(c) \in Nat
      BY DEF Filled
    <2>2. Last(Filled(c)) \in 1..Len(c)
      BY <1>2, <2>1, LastIn
    <2>3. \A i \in 1..Last(Filled(c)) : c[i] \in U
      BY <2>2
    <2> QED
      BY <1>2, <2>2, <2>3, SubSeqProperties DEF Trim
  <1> QED
    BY <1>1, <1>2

-----------------------------------------------------------------------------
(* Sequences.                                                              *)

\* A sequence, of whatever elements.
IsSeq(c) == Len(c) \in Nat /\ c \in [1..Len(c) -> {c[i] : i \in 1..Len(c)}]

LEMMA SeqIsSeq ==
    ASSUME NEW T, NEW c \in Seq(T)
    PROVE  IsSeq(c)
  BY DEF IsSeq

LEMMA IsSeqSeq ==
    ASSUME NEW c, IsSeq(c)
    PROVE  c \in Seq({c[i] : i \in 1..Len(c)})
  BY SeqDef DEF IsSeq

\* Counting the members of a set of positions up to each position passes every
\* number up to the size of the set.
LEMMA Counted ==
    ASSUME NEW n \in Nat, NEW I \in SUBSET (1..n), NEW k \in 1..Cardinality(I)
    PROVE  \E i \in I : Cardinality({j \in I : j <= i}) = k
  <1> DEFINE upto(i) == {j \in I : j <= i}
             count(i) == Cardinality(upto(i))
             S == {i \in 0..n : k <= count(i)}
  <1>0. I \subseteq 1..n /\ \A j \in I : j \in Nat /\ 1 <= j /\ j <= n
    OBVIOUS
  <1>1. IsFiniteSet(I) /\ \A i \in Int : IsFiniteSet(upto(i))
    <2>1. IsFiniteSet(1..n)
      BY FS_Interval
    <2>2. IsFiniteSet(I)
      BY <1>0, <2>1, FS_Subset
    <2>3. \A i \in Int : upto(i) \subseteq I
      OBVIOUS
    <2> HIDE DEF upto
    <2> QED
      BY <2>2, <2>3, FS_Subset
  <1>2. \A i \in Int : count(i) \in Nat
    BY <1>1, FS_CardinalityType
  <1>3. n \in S
    <2>1. upto(n) = I
      BY <1>0
    <2> HIDE DEF upto
    <2> QED
      BY <2>1
  <1>4. PICK i \in S : \A j \in S : i <= j
    <2> HIDE DEF S
    <2>1. S \subseteq Nat /\ S # {}
      BY <1>3 DEF S
    <2> QED
      BY <2>1, FirstIn
  <1>5. i \in Nat /\ i <= n /\ k <= count(i) /\ k \in Nat /\ k # 0
    <2>1. Cardinality(I) \in Nat
      BY <1>1, FS_CardinalityType
    <2> QED
      BY <2>1
  <1>6. i # 0
    <2>1. upto(0) = {}
      <3>1. \A j \in I : ~(j <= 0)
        BY <1>0
      <3> QED
        BY <3>1
    <2>2. count(0) = 0
      <3> HIDE DEF upto
      <3> QED
        BY <2>1, FS_EmptySet
    <2> HIDE DEF count
    <2> QED
      BY <1>5, <2>2
  <1>7. i - 1 \in 0..n /\ i - 1 \in Int
    BY <1>5, <1>6
  <1>8. count(i - 1) < k
    <2> HIDE DEF count
    <2>1. i - 1 \notin S
      <3> HIDE DEF S
      <3> QED
        BY <1>4, <1>5, <1>7
    <2>2. ~(k <= count(i - 1))
      BY <1>7, <2>1
    <2> QED
      BY <1>2, <1>5, <1>7, <2>2
  <1>9. i \in I
    <2> SUFFICES ASSUME i \notin I PROVE FALSE
      OBVIOUS
    <2>1. upto(i) = upto(i - 1)
      <3>1. \A j \in I : j <= i <=> j <= i - 1
        BY <1>0, <1>5
      <3> QED
        BY <3>1
    <2>2. count(i) = count(i - 1)
      BY <2>1
    <2> HIDE DEF count
    <2> QED
      BY <1>2, <1>5, <1>7, <1>8, <2>2
  <1>10. count(i) = count(i - 1) + 1
    <2>1. \A j \in I : j <= i <=> j <= i - 1 \/ j = i
      BY <1>0, <1>5
    <2>2. upto(i) = upto(i - 1) \cup {i} /\ i \notin upto(i - 1)
      <3>1. upto(i) \subseteq upto(i - 1) \cup {i}
        BY <2>1
      <3>2. upto(i - 1) \cup {i} \subseteq upto(i)
        BY <1>9, <2>1
      <3>3. i \notin upto(i - 1)
        BY <1>5
      <3> QED
        BY <3>1, <3>2, <3>3
    <2> HIDE DEF upto
    <2> QED
      BY <1>1, <1>7, <2>2, FS_AddElement
  <1>11. count(i) = k
    <2> HIDE DEF count
    <2> QED
      BY <1>2, <1>5, <1>7, <1>8, <1>10
  <1> QED
    BY <1>9, <1>11

\* Pick selects from a sequence: what it returns are the elements asked for.
LEMMA Picked ==
    ASSUME NEW n \in Nat, NEW s, NEW I \in SUBSET (1..n)
    PROVE  Pick(s, I) \in Seq({s[i] : i \in I})
  <1>1. Cardinality(I) \in Nat
    <2>1. IsFiniteSet(1..n)
      BY FS_Interval
    <2>2. IsFiniteSet(I)
      BY <2>1, FS_Subset
    <2> QED
      BY <2>2, FS_CardinalityType
  <1> DEFINE at(k) == CHOOSE i \in I : Cardinality({j \in I : j <= i}) = k
  <1>2. Pick(s, I) = [k \in 1..Cardinality(I) |-> s[at(k)]]
    BY DEF Pick
  <1>3. \A k \in 1..Cardinality(I) : at(k) \in I
    BY Counted
  <1> HIDE DEF at
  <1>4. \A k \in 1..Cardinality(I) : s[at(k)] \in {s[i] : i \in I}
    BY <1>3
  <1> QED
    BY <1>1, <1>2, <1>4, IsASeq

\* And they are all of them.
LEMMA AllPicked ==
    ASSUME NEW n \in Nat, NEW s, NEW I \in SUBSET (1..n), NEW t, t = Pick(s, I)
    PROVE  {t[k] : k \in DOMAIN t} = {s[i] : i \in I}
  <1> DEFINE upto(i) == {j \in I : j <= i}
             at(k) == CHOOSE i \in I : Cardinality({j \in I : j <= i}) = k
  <1>0. I \subseteq 1..n /\ \A j \in I : j \in Nat /\ 1 <= j /\ j <= n
    OBVIOUS
  <1>1. t = [k \in 1..Cardinality(I) |-> s[at(k)]]
    BY DEF Pick
  <1>2. IsFiniteSet(I) /\ Cardinality(I) \in Nat
    <2>1. IsFiniteSet(1..n)
      BY FS_Interval
    <2>2. IsFiniteSet(I)
      BY <1>0, <2>1, FS_Subset
    <2> QED
      BY <2>2, FS_CardinalityType
  <1>3. ASSUME NEW i \in I
        PROVE  /\ IsFiniteSet(upto(i)) /\ Cardinality(upto(i)) \in Nat
               /\ Cardinality(upto(i)) <= Cardinality(I)
    <2>1. upto(i) \in SUBSET I
      OBVIOUS
    <2> HIDE DEF upto
    <2>2. IsFiniteSet(upto(i)) /\ Cardinality(upto(i)) <= Cardinality(I)
      BY <1>2, <2>1, FS_Subset
    <2> QED
      BY <2>2, FS_CardinalityType
  \* Two members of I are never counted alike.
  <1>4. ASSUME NEW i \in I, NEW j \in I, i < j
        PROVE  Cardinality(upto(i)) # Cardinality(upto(j))
    <2>1. i \in Nat /\ j \in Nat
      BY <1>0
    <2>2. upto(i) \subseteq upto(j) /\ j \in upto(j) /\ j \notin upto(i)
      <3>1. \A k \in I : k <= i => k <= j
        BY <1>0, <1>4, <2>1
      <3>2. j <= j /\ ~(j <= i)
        BY <1>4, <2>1
      <3> QED
        BY <3>1, <3>2
    <2>3. IsFiniteSet(upto(j))
      BY <1>3
    <2> HIDE DEF upto
    <2> QED
      BY <2>2, <2>3, FS_Subset
  <1>5. ASSUME NEW i \in I
        PROVE  Cardinality(upto(i)) \in 1..Cardinality(I) /\ at(Cardinality(upto(i))) = i
    <2>1. i \in upto(i)
      BY <1>0
    <2>2. Cardinality(upto(i)) # 0
      <3> HIDE DEF upto
      <3> QED
        BY <1>3, <2>1, FS_EmptySet
    <2>3. Cardinality(upto(i)) \in 1..Cardinality(I)
      <3> HIDE DEF upto
      <3> QED
        BY <1>2, <1>3, <2>2
    <2>4. at(Cardinality(upto(i))) \in I /\ Cardinality(upto(at(Cardinality(upto(i))))) = Cardinality(upto(i))
      OBVIOUS
    <2>5. PICK j : j = at(Cardinality(upto(i)))
      OBVIOUS
    <2>6. j \in I /\ Cardinality(upto(j)) = Cardinality(upto(i))
      BY <2>4, <2>5
    <2>7. ~(i < j) /\ ~(j < i)
      <3> HIDE DEF upto
      <3> QED
        BY <1>4, <2>6
    <2>8. i = j
      BY <1>0, <2>6, <2>7
    <2> QED
      BY <2>3, <2>5, <2>8
  <1>6. ASSUME NEW k \in 1..Cardinality(I) PROVE at(k) \in I
    BY Counted
  <1>7. DOMAIN t = 1..Cardinality(I) /\ \A k \in 1..Cardinality(I) : t[k] = s[at(k)]
    BY <1>1
  <1> HIDE DEF at, upto
  <1>8. ASSUME NEW i \in I PROVE s[i] \in {t[k] : k \in DOMAIN t}
    BY <1>5, <1>7
  <1>9. ASSUME NEW k \in DOMAIN t PROVE t[k] \in {s[i] : i \in I}
    BY <1>6, <1>7
  <1> QED
    BY <1>8, <1>9

\* One text after another.
LEMMA ConcatIsSeq ==
    ASSUME NEW a, NEW b, IsSeq(a), IsSeq(b)
    PROVE  /\ IsSeq(a \o b) /\ Len(a \o b) = Len(a) + Len(b)
           /\ \A i \in 1..(Len(a) + Len(b)) :
                 (a \o b)[i] = IF i <= Len(a) THEN a[i] ELSE b[i - Len(a)]
  <1> DEFINE T == {a[i] : i \in 1..Len(a)} \cup {b[i] : i \in 1..Len(b)}
  <1>1. a \in Seq(T) /\ b \in Seq(T)
    BY SeqDef DEF IsSeq
  <1> HIDE DEF T
  <1> QED
    BY <1>1, ConcatProperties, SeqIsSeq

-----------------------------------------------------------------------------
(* Two texts that are alike but for a stretch in the middle.                *)

\* The lines after p up to q of c are those after p up to r of d.
Alike(c, d, p, q, r) ==
    /\ p <= q /\ q <= Len(c) /\ p <= r /\ r <= Len(d) /\ Len(c) - q = Len(d) - r
    /\ \A i \in 1..p : c[i] = d[i]
    /\ \A i \in (q + 1)..Len(c) : c[i] = d[i - q + r]

\* All of the stretch that is not blank is region, and nothing else is.
Apart(c, o, p, q) ==
    \A i \in 1..Len(c) : c[i] # Blank => (i \in Region(c, o) <=> p < i /\ i <= q)

\* No line behind the stretch gets under a header that it was not under: the new
\* stretch has no header, or the old one had one, or the lines have their own.
Sheltered(c, d, p, q, r) ==
    \/ \A i \in Headers(d) : ~(p < i /\ i <= r)
    \/ \E i \in Headers(c) : p < i /\ i <= q
    \/ \A i \in (q + 1)..Len(c) : c[i] # Blank => \E j \in Headers(c) : q < j /\ j <= i

\* The greatest position is the only one.
LEMMA LastIs ==
    ASSUME NEW n \in Nat, NEW S, S \subseteq 1..n, NEW i \in S, \A j \in S : j <= i
    PROVE  Last(S) = i
  <1>1. Last(S) \in S /\ \A j \in S : j <= Last(S)
    BY LastIn
  <1>2. i \in 1..n /\ Last(S) \in 1..n
    BY <1>1
  <1>3. i <= Last(S) /\ Last(S) <= i
    BY <1>1
  <1> QED
    BY <1>2, <1>3

LEMMA FirstIs ==
    ASSUME NEW S, S \subseteq Nat, NEW i \in S, \A j \in S : i <= j
    PROVE  First(S) = i
  <1>1. First(S) \in S /\ \A j \in S : First(S) <= j
    BY FirstIn
  <1>2. i <= First(S) /\ First(S) <= i /\ i \in Nat /\ First(S) \in Nat
    BY <1>1
  <1> QED
    BY <1>2

\* Where a line outside the stretch of c is in d.
LEMMA Moved ==
    ASSUME NEW T, NEW c \in Seq(T), NEW d \in Seq(T), NEW p \in Nat, NEW q \in Nat, NEW r \in Nat,
           Alike(c, d, p, q, r), NEW i \in 1..Len(c), i <= p \/ q < i,
           NEW k, k = IF i <= p THEN i ELSE i - q + r
    PROVE  k \in 1..Len(d) /\ d[k] = c[i] /\ (k <= p \/ r < k)
  <1>1. Len(c) \in Nat /\ Len(d) \in Nat
    OBVIOUS
  <1>2. CASE i <= p
    BY <1>1, <1>2 DEF Alike
  <1>3. CASE ~(i <= p)
    BY <1>1, <1>3 DEF Alike
  <1> QED
    BY <1>2, <1>3

LEMMA OwnLinesStay ==
    ASSUME NEW T, NEW c \in Seq(T), NEW d \in Seq(T), NEW p \in Nat, NEW q \in Nat, NEW r \in Nat,
           NEW o1, NEW o2, Alike(c, d, p, q, r), Apart(c, o1, p, q), Apart(d, o2, p, r)
    PROVE  OwnLines(c, o1) \subseteq OwnLines(d, o2)
  <1> SUFFICES ASSUME NEW i \in Outside(c, o1) PROVE c[i] \in OwnLines(d, o2)
    BY DEF OwnLines
  <1>1. i \in 1..Len(c) /\ i \notin Region(c, o1) /\ c[i] # Blank
    BY DEF Outside
  <1>2. i <= p \/ q < i
    BY <1>1 DEF Apart
  <1> DEFINE k == IF i <= p THEN i ELSE i - q + r
  <1>3. k \in 1..Len(d) /\ d[k] = c[i] /\ (k <= p \/ r < k)
    BY <1>1, <1>2, Moved
  <1>4. k \in Nat
    BY <1>3
  <1> HIDE DEF k
  <1>5. k \notin Region(d, o2)
    BY <1>1, <1>3, <1>4 DEF Apart
  <1>6. k \in Outside(d, o2)
    BY <1>1, <1>3, <1>5 DEF Outside
  <1> QED
    BY <1>3, <1>6 DEF OwnLines

\* A line below the stretch that is under no header of the stretch keeps its table.
LEMMA TableStays ==
    ASSUME NEW T, NEW c \in Seq(T), NEW d \in Seq(T), NEW p \in Nat, NEW q \in Nat, NEW r \in Nat,
           NEW o1, NEW o2, Alike(c, d, p, q, r), Apart(c, o1, p, q), Apart(d, o2, p, r),
           Sheltered(c, d, p, q, r),
           NEW i \in Outside(c, o1), InOwnTable(c, o1, i),
           NEW k, k = IF i <= p THEN i ELSE i - q + r
    PROVE  TableOf(d, k) = TableOf(c, i) /\ InOwnTable(d, o2, k)
  <1>1. i \in 1..Len(c) /\ i \notin Region(c, o1) /\ c[i] # Blank
    BY DEF Outside
  <1>2. i <= p \/ q < i
    BY <1>1 DEF Apart
  <1>3. k \in 1..Len(d) /\ d[k] = c[i] /\ (k <= p \/ r < k)
    BY <1>1, <1>2, Moved
  <1>4. /\ Len(c) \in Nat /\ Len(d) \in Nat /\ i \in Nat /\ k \in Nat
        /\ DOMAIN c = 1..Len(c) /\ DOMAIN d = 1..Len(d)
    BY <1>1, <1>3
  <1>5. /\ Headers(c) \subseteq 1..Len(c) /\ \A h \in Headers(c) : c[h] # Blank
        /\ Headers(d) \subseteq 1..Len(d) /\ \A h \in Headers(d) : d[h] # Blank
    BY <1>4 DEF Headers, Blank
  <1>6. HeadersOver(c, i) \subseteq 1..Len(c) /\ HeadersOver(d, k) \subseteq 1..Len(d)
    BY <1>5 DEF HeadersOver
  \* Headers before the stretch are the same in both texts.
  <1>7. \A h \in 1..p : h \in Headers(c) <=> h \in Headers(d)
    BY <1>4 DEF Headers, Alike
  \* So are those behind it, in their places.
  <1>8. \A h \in (q + 1)..Len(c) : h \in Headers(c) <=> h - q + r \in Headers(d)
    BY <1>4 DEF Headers, Alike
  <1>9. i \in Headers(c) <=> k \in Headers(d)
    BY <1>1, <1>3, <1>4 DEF Headers
  \* Where both lines are under the same headers, all is well.
  <1>10. ASSUME HeadersOver(d, k) = HeadersOver(c, i), \A h \in HeadersOver(d, k) : h <= p
         PROVE  TableOf(d, k) = TableOf(c, i) /\ InOwnTable(d, o2, k)
    <2>1. CASE HeadersOver(d, k) = {}
      BY <1>10, <2>1 DEF TableOf, InOwnTable
    <2>2. CASE HeadersOver(d, k) # {}
      <3> DEFINE l == Last(HeadersOver(d, k))
      <3>1. l \in HeadersOver(d, k) /\ l \in 1..Len(d)
        BY <1>4, <1>6, <2>2, LastIn
      <3> HIDE DEF l
      <3>2. l \in Headers(d) /\ l <= p /\ l \in Nat
        BY <1>10, <3>1 DEF HeadersOver
      <3>3. d[l] = c[l]
        BY <3>1, <3>2 DEF Alike
      <3>4. l \notin Region(d, o2)
        BY <1>5, <3>1, <3>2 DEF Apart
      <3> QED
        BY <1>10, <2>2, <3>3, <3>4 DEF TableOf, InOwnTable, l
    <2> QED
      BY <2>1, <2>2
  <1>11. CASE i \in Headers(c)
    BY <1>9, <1>10, <1>11 DEF HeadersOver
  <1>12. CASE i \notin Headers(c) /\ i <= p
    <2>1. k = i /\ p <= Len(c) /\ p <= Len(d)
      BY <1>4, <1>12 DEF Alike
    <2>2. HeadersOver(d, k) = HeadersOver(c, i) /\ \A h \in HeadersOver(d, k) : h <= p
      <3>1. \A h : h \in Headers(c) /\ h < i <=> h \in Headers(d) /\ h < i
        BY <1>4, <1>5, <1>7, <1>12, <2>1
      <3>2. HeadersOver(c, i) = {h \in Headers(c) : h < i} /\ HeadersOver(d, k) = {h \in Headers(d) : h < i}
        BY <1>9, <1>12, <2>1 DEF HeadersOver
      <3>3. \A h \in Headers(d) : h < i => h <= p
        BY <1>4, <1>5, <1>12
      <3> QED
        BY <3>1, <3>2, <3>3
    <2> QED
      BY <1>10, <2>2
  <1>13. CASE i \notin Headers(c) /\ ~(i <= p)
    <2>1. k = i - q + r /\ q < i /\ r < k
      BY <1>2, <1>4, <1>13 DEF Alike
    <2>2. /\ HeadersOver(c, i) = {h \in Headers(c) : h < i}
          /\ HeadersOver(d, k) = {h \in Headers(d) : h < k}
      BY <1>9, <1>13 DEF HeadersOver
    <2>3. CASE \E h \in Headers(c) : q < h /\ h < i
      <3> DEFINE l == Last(HeadersOver(c, i))
                 m == l - q + r
      <3>1. PICK h0 \in Headers(c) : q < h0 /\ h0 < i
        BY <2>3
      <3>2. l \in HeadersOver(c, i) /\ \A h \in HeadersOver(c, i) : h <= l
        <4>1. HeadersOver(c, i) # {}
          BY <2>2, <3>1
        <4> QED
          BY <1>4, <1>6, <4>1, LastIn
      <3> HIDE DEF l
      <3>3. l \in Headers(c) /\ l < i /\ l \in 1..Len(c) /\ q < l
        <4>1. l \in Headers(c) /\ l < i /\ l \in 1..Len(c) /\ h0 \in 1..Len(c)
          BY <1>5, <2>2, <3>1, <3>2
        <4>2. h0 <= l
          BY <2>2, <3>1, <3>2
        <4> QED
          BY <3>1, <4>1, <4>2
      <3>4. m \in Headers(d) /\ m < k /\ r < m /\ m \in 1..Len(d)
        BY <1>4, <1>5, <1>8, <2>1, <3>3
      <3>5. d[m] = c[l]
        BY <1>4, <3>3 DEF Alike
      <3>6. \A h \in HeadersOver(d, k) : h <= m
        <4> SUFFICES ASSUME NEW h \in Headers(d), h < k, ~(h <= r) PROVE h <= m
          <5>1. \A h \in Headers(d) : h <= r => h <= m
            BY <1>4, <1>5, <3>4
          <5> QED
            BY <2>2, <5>1
        <4>1. h \in 1..Len(d) /\ h - r + q \in (q + 1)..Len(c) /\ (h - r + q) - q + r = h /\ h - r + q < i
          BY <1>4, <1>5, <2>1 DEF Alike
        <4>2. h - r + q \in Headers(c)
          BY <1>8, <4>1
        <4>3. h - r + q <= l
          BY <2>2, <3>2, <4>1, <4>2
        <4> QED
          BY <1>4, <3>3, <4>1, <4>3
      <3> HIDE DEF m
      <3>7. Last(HeadersOver(d, k)) = m
        <4>1. m \in HeadersOver(d, k)
          BY <2>2, <3>4
        <4> QED
          BY <1>4, <1>6, <3>6, <4>1, LastIs
      <3>8. m \notin Region(d, o2)
        BY <1>4, <1>5, <3>4 DEF Apart
      <3>9. HeadersOver(c, i) # {} /\ HeadersOver(d, k) # {}
        BY <2>2, <3>2, <3>4
      <3> QED
        BY <3>5, <3>7, <3>8, <3>9 DEF TableOf, InOwnTable, l
    <2>4. CASE ~ \E h \in Headers(c) : q < h /\ h < i
      <3>1. \A h \in Headers(c) : h < i => h <= q
        BY <1>4, <1>5, <2>4
      \* The line is under no header of the stretch ...
      <3>2. \A h \in Headers(c) : ~(p < h /\ h <= q)
        <4>1. CASE HeadersOver(c, i) = {}
          BY <1>4, <1>5, <2>1, <2>2, <4>1
        <4>2. CASE HeadersOver(c, i) # {}
          <5> DEFINE l == Last(HeadersOver(c, i))
          <5>1. l \in HeadersOver(c, i) /\ \A h \in HeadersOver(c, i) : h <= l
            BY <1>4, <1>6, <4>2, LastIn
          <5>2. l \notin Region(c, o1)
            BY <4>2 DEF InOwnTable
          <5> HIDE DEF l
          <5>3. l \in Headers(c) /\ l < i /\ l \in 1..Len(c)
            BY <1>5, <2>2, <5>1
          <5>4. ~(p < l /\ l <= q)
            BY <1>5, <5>2, <5>3 DEF Apart
          <5>5. l <= p
            BY <1>4, <3>1, <5>3, <5>4
          <5>6. \A h \in Headers(c) : h <= q => h < i
            BY <1>4, <1>5, <2>1
          <5>7. \A h \in Headers(c) : h <= q => h <= l
            BY <2>2, <5>1, <5>6
          <5> QED
            BY <1>4, <1>5, <5>3, <5>5, <5>7
        <4> QED
          BY <4>1, <4>2
      \* ... nor will it be.
      <3>3. \A h \in Headers(d) : ~(p < h /\ h <= r)
        <4>1. i \in (q + 1)..Len(c)
          BY <1>1, <1>4, <2>1
        <4>2. ~ \E j \in Headers(c) : q < j /\ j <= i
          BY <1>4, <1>5, <1>13, <2>4
        <4> QED
          BY <1>1, <3>2, <4>1, <4>2 DEF Sheltered
      <3>4. \A h \in Headers(d) : h < k => h <= r
        <4> SUFFICES ASSUME NEW h \in Headers(d), h < k, ~(h <= r) PROVE FALSE
          OBVIOUS
        <4>1. h - r + q \in (q + 1)..Len(c) /\ (h - r + q) - q + r = h /\ h - r + q < i /\ q < h - r + q
          BY <1>4, <1>5, <2>1 DEF Alike
        <4>2. h - r + q \in Headers(c)
          BY <1>8, <4>1
        <4> QED
          BY <2>4, <4>1, <4>2
      <3>5. \A h \in Headers(d) : h < k <=> h <= p
        BY <1>4, <1>5, <2>1, <3>3, <3>4 DEF Alike
      <3>6. \A h \in Headers(c) : h < i <=> h <= p
        BY <1>4, <1>5, <2>1, <3>1, <3>2 DEF Alike
      <3>7. \A h : h \in Headers(c) /\ h <= p <=> h \in Headers(d) /\ h <= p
        BY <1>4, <1>5, <1>7
      <3> QED
        BY <1>10, <2>2, <3>5, <3>6, <3>7
    <2> QED
      BY <2>3, <2>4
  <1> QED
    BY <1>11, <1>12, <1>13

\* What lies outside the stretch is kept: the lines, and what they mean.
LEMMA StretchReplaced ==
    ASSUME NEW T, NEW c \in Seq(T), NEW d \in Seq(T), NEW p \in Nat, NEW q \in Nat, NEW r \in Nat,
           NEW o1, NEW o2, Alike(c, d, p, q, r), Apart(c, o1, p, q), Apart(d, o2, p, r)
    PROVE  /\ OwnLines(c, o1) = OwnLines(d, o2)
           /\ Sheltered(c, d, p, q, r) => Meaning(c, o1) \subseteq Meaning(d, o2)
  <1>1. Len(c) \in Nat /\ Len(d) \in Nat
    OBVIOUS
  <1>2. Alike(d, c, p, r, q)
    BY <1>1 DEF Alike
  <1>3. OwnLines(c, o1) \subseteq OwnLines(d, o2) /\ OwnLines(d, o2) \subseteq OwnLines(c, o1)
    BY <1>2, OwnLinesStay
  <1>4. ASSUME Sheltered(c, d, p, q, r), NEW i \in Outside(c, o1), InOwnTable(c, o1, i)
        PROVE  <<TableOf(c, i), c[i]>> \in Meaning(d, o2)
    <2> DEFINE k == IF i <= p THEN i ELSE i - q + r
    <2>1. i \in 1..Len(c) /\ i \notin Region(c, o1) /\ c[i] # Blank
      BY DEF Outside
    <2>2. i <= p \/ q < i
      BY <2>1 DEF Apart
    <2>3. k \in 1..Len(d) /\ d[k] = c[i] /\ (k <= p \/ r < k)
      BY <2>1, <2>2, Moved
    <2>4. TableOf(d, k) = TableOf(c, i) /\ InOwnTable(d, o2, k)
      BY <1>4, TableStays
    <2> HIDE DEF k
    <2>5. k \in Outside(d, o2)
      BY <2>1, <2>3 DEF Apart, Outside
    <2> QED
      BY <2>3, <2>4, <2>5 DEF Meaning
  <1> QED
    BY <1>3, <1>4 DEF Meaning

-----------------------------------------------------------------------------
(* A stretch replaced in a text, and the block in it.                       *)

LEMMA Slices ==
    ASSUME NEW T, NEW c \in Seq(T), NEW p \in Int, NEW q \in Int, 1 <= p, q <= Len(c)
    PROVE  /\ SubSeq(c, p, q) \in Seq(T)
           /\ Len(SubSeq(c, p, q)) = IF p <= q THEN q - p + 1 ELSE 0
           /\ \A i \in 1..(q - p + 1) : SubSeq(c, p, q)[i] = c[p + i - 1]
  <1>1. \A i \in p..q : c[i] \in T
    OBVIOUS
  <1> QED
    BY <1>1, SubSeqProperties

\* One text after another, and three.
LEMMA Joined2 ==
    ASSUME NEW T, NEW a \in Seq(T), NEW b \in Seq(T), NEW d, d = a \o b
    PROVE  /\ d \in Seq(T) /\ Len(d) = Len(a) + Len(b) /\ Len(a) \in Nat /\ Len(b) \in Nat
           /\ \A i \in 1..Len(a) : d[i] = a[i]
           /\ \A i \in 1..Len(b) : d[Len(a) + i] = b[i]
  <1>1. /\ d \in Seq(T) /\ Len(d) = Len(a) + Len(b)
        /\ \A i \in 1..(Len(a) + Len(b)) : d[i] = IF i <= Len(a) THEN a[i] ELSE b[i - Len(a)]
    BY ConcatProperties
  <1>2. Len(a) \in Nat /\ Len(b) \in Nat
    OBVIOUS
  <1>3. ASSUME NEW i \in 1..Len(b) PROVE d[Len(a) + i] = b[i]
    <2>1. Len(a) + i \in 1..(Len(a) + Len(b)) /\ ~(Len(a) + i <= Len(a)) /\ (Len(a) + i) - Len(a) = i
      BY <1>2
    <2>2. d[Len(a) + i] = IF Len(a) + i <= Len(a) THEN a[Len(a) + i] ELSE b[(Len(a) + i) - Len(a)]
      BY <1>1, <2>1
    <2> QED
      BY <2>1, <2>2
  <1>4. \A i \in 1..Len(a) : d[i] = a[i]
    BY <1>1, <1>2
  <1> QED
    BY <1>1, <1>2, <1>3, <1>4

LEMMA Joined3 ==
    ASSUME NEW T, NEW a \in Seq(T), NEW m \in Seq(T), NEW b \in Seq(T), NEW d, d = a \o m \o b
    PROVE  /\ d \in Seq(T) /\ Len(d) = Len(a) + Len(m) + Len(b)
           /\ Len(a) \in Nat /\ Len(m) \in Nat /\ Len(b) \in Nat
           /\ \A i \in 1..Len(a) : d[i] = a[i]
           /\ \A i \in 1..Len(m) : d[Len(a) + i] = m[i]
           /\ \A i \in 1..Len(b) : d[Len(a) + Len(m) + i] = b[i]
  <1>1. PICK am : am = a \o m
    OBVIOUS
  <1>2. /\ am \in Seq(T) /\ Len(am) = Len(a) + Len(m) /\ Len(a) \in Nat /\ Len(m) \in Nat
        /\ \A i \in 1..Len(a) : am[i] = a[i]
        /\ \A i \in 1..Len(m) : am[Len(a) + i] = m[i]
    BY <1>1, Joined2
  <1>3. d = am \o b /\ am \in Seq(T)
    BY <1>1, <1>2
  <1>4. /\ d \in Seq(T) /\ Len(d) = Len(am) + Len(b) /\ Len(b) \in Nat
        /\ \A i \in 1..Len(am) : d[i] = am[i]
        /\ \A i \in 1..Len(b) : d[Len(am) + i] = b[i]
    BY <1>3, Joined2
  <1> QED
    BY <1>2, <1>4

\* The lines after p up to q replaced by m.
Spliced(c, p, q, m) == SubSeq(c, 1, p) \o m \o SubSeq(c, q + 1, Len(c))

\* What holds of such a text d.
IsSpliced(T, c, d, p, q, m) ==
    /\ d \in Seq(T) /\ Alike(c, d, p, q, p + Len(m)) /\ Len(m) \in Nat
    /\ Len(d) = p + Len(m) + (Len(c) - q)
    /\ \A i \in 1..Len(m) : d[p + i] = m[i]

LEMMA SplicedText ==
    ASSUME NEW T, NEW c \in Seq(T), NEW m \in Seq(T), NEW p \in Nat, NEW q \in Nat,
           p <= q, q <= Len(c), NEW d, d = Spliced(c, p, q, m)
    PROVE  IsSpliced(T, c, d, p, q, m)
  <1> DEFINE a == SubSeq(c, 1, p)
             b == SubSeq(c, q + 1, Len(c))
  <1>1. p \in Int /\ q + 1 \in Int /\ Len(c) \in Nat /\ 1 \in Int /\ Len(c) \in Int
    OBVIOUS
  <1>2. /\ a \in Seq(T) /\ Len(a) = p
        /\ \A i \in 1..p : a[i] = c[i]
    <2>1. /\ a \in Seq(T) /\ Len(a) = (IF 1 <= p THEN p - 1 + 1 ELSE 0)
          /\ \A i \in 1..(p - 1 + 1) : a[i] = c[1 + i - 1]
      BY <1>1, Slices
    <2> HIDE DEF a
    <2> QED
      BY <1>1, <2>1
  <1>3. /\ b \in Seq(T) /\ Len(b) = Len(c) - q
        /\ \A i \in 1..(Len(c) - q) : b[i] = c[q + i]
    <2>1. /\ b \in Seq(T) /\ Len(b) = (IF q + 1 <= Len(c) THEN Len(c) - (q + 1) + 1 ELSE 0)
          /\ \A i \in 1..(Len(c) - (q + 1) + 1) : b[i] = c[(q + 1) + i - 1]
      BY <1>1, Slices
    <2> HIDE DEF b
    <2> QED
      BY <1>1, <2>1
  <1>4. d = a \o m \o b
    BY DEF Spliced
  <1> HIDE DEF a, b
  <1>5. /\ d \in Seq(T) /\ Len(d) = Len(a) + Len(m) + Len(b) /\ Len(m) \in Nat
        /\ \A i \in 1..Len(a) : d[i] = a[i]
        /\ \A i \in 1..Len(m) : d[Len(a) + i] = m[i]
        /\ \A i \in 1..Len(b) : d[Len(a) + Len(m) + i] = b[i]
    <2>1. a \in Seq(T) /\ b \in Seq(T)
      BY <1>2, <1>3
    <2> QED
      BY <1>4, <2>1, Joined3
  <1>6. \A i \in 1..p : c[i] = d[i]
    BY <1>2, <1>5
  <1>7. ASSUME NEW i \in (q + 1)..Len(c)
        PROVE  c[i] = d[i - q + (p + Len(m))]
    <2>1. i - q \in 1..(Len(c) - q) /\ q + (i - q) = i /\ Len(a) + Len(m) + (i - q) = i - q + (p + Len(m))
      BY <1>1, <1>2, <1>5
    <2>2. b[i - q] = c[q + (i - q)]
      BY <1>3, <2>1
    <2>3. d[Len(a) + Len(m) + (i - q)] = b[i - q]
      BY <1>3, <1>5, <2>1
    <2> QED
      BY <2>1, <2>2, <2>3
  <1>8. Len(c) - q = Len(d) - (p + Len(m)) /\ p <= p + Len(m) /\ p + Len(m) <= Len(d)
    BY <1>1, <1>2, <1>3, <1>5
  <1> QED
    BY <1>1, <1>2, <1>3, <1>5, <1>6, <1>7, <1>8 DEF Alike, IsSpliced

\* A generated block: markers and, between them, servers.
IsBlock(m, o) ==
    /\ Len(m) >= 2 /\ m[1] = StartMark(o) /\ m[Len(m)] = EndMark(o)
    /\ \A i \in 2..(Len(m) - 1) : m[i][1] = "mcp"

\* The region of d is the block m, after u lines.
BlockAt(d, o, u, m) ==
    /\ HasRegion(d, o) /\ StartOf(d, o) = u + 1 /\ EndOf(d, o) = u + Len(m)
    /\ Region(d, o) = (u + 1)..(u + Len(m))
    /\ SubSeq(d, StartOf(d, o), EndOf(d, o)) = m

\* In a text that has no start marker before it, the block is the region.
LEMMA BlockIsRegion ==
    ASSUME NEW T, NEW d \in Seq(T), NEW m \in Seq(T), NEW o, NEW u \in Nat,
           IsBlock(m, o), u + Len(m) <= Len(d), \A i \in 1..Len(m) : d[u + i] = m[i],
           \A i \in 1..u : d[i] # StartMark(o)
    PROVE  BlockAt(d, o, u, m)
  <1>1. Len(d) \in Nat /\ Len(m) \in Nat /\ Len(m) >= 2 /\ DOMAIN d = 1..Len(d)
    BY DEF IsBlock
  <1>2. d[u + 1] = StartMark(o) /\ u + 1 \in 1..Len(d)
    BY <1>1 DEF IsBlock
  <1>3. StartOf(d, o) = u + 1 /\ HasStart(d, o)
    <2>1. Positions(d, StartMark(o)) \subseteq Nat /\ u + 1 \in Positions(d, StartMark(o))
      BY <1>1, <1>2 DEF Positions
    <2>2. \A j \in Positions(d, StartMark(o)) : u + 1 <= j
      BY <1>1 DEF Positions
    <2> QED
      BY <2>1, <2>2, FirstIs DEF StartOf, HasStart
  <1>4. d[u + Len(m)] = EndMark(o) /\ u + Len(m) \in 1..Len(d) /\ u + 1 < u + Len(m)
    BY <1>1 DEF IsBlock
  <1>5. \A i \in (u + 2)..(u + Len(m) - 1) : d[i] # EndMark(o)
    <2> SUFFICES ASSUME NEW i \in (u + 2)..(u + Len(m) - 1) PROVE d[i] # EndMark(o)
      OBVIOUS
    <2>1. i - u \in 2..(Len(m) - 1) /\ i - u \in 1..Len(m) /\ u + (i - u) = i
      BY <1>1
    <2>2. d[u + (i - u)] = m[i - u] /\ m[i - u][1] = "mcp"
      BY <2>1 DEF IsBlock
    <2> QED
      BY <2>1, <2>2 DEF EndMark
  <1>6. EndOf(d, o) = u + Len(m) /\ HasRegion(d, o)
    <2>1. EndsOf(d, o) \subseteq Nat /\ u + Len(m) \in EndsOf(d, o)
      BY <1>1, <1>3, <1>4 DEF EndsOf, Positions
    <2>2. \A j \in EndsOf(d, o) : u + Len(m) <= j
      <3> SUFFICES ASSUME NEW j \in EndsOf(d, o), j < u + Len(m) PROVE FALSE
        BY <1>1, <2>1
      <3>1. j \in 1..Len(d) /\ d[j] = EndMark(o) /\ u + 1 < j
        BY <1>1, <1>3 DEF EndsOf, Positions
      <3>2. j \in (u + 2)..(u + Len(m) - 1)
        BY <1>1, <3>1
      <3> QED
        BY <1>5, <3>1, <3>2
    <2> QED
      BY <1>3, <2>1, <2>2, FirstIs DEF EndOf, HasRegion
  <1>7. Region(d, o) = (u + 1)..(u + Len(m))
    BY <1>3, <1>6 DEF Region
  <1>8. SubSeq(d, u + 1, u + Len(m)) = m
    <2> DEFINE s == SubSeq(d, u + 1, u + Len(m))
    <2>1. /\ s \in Seq(T)
          /\ Len(s) = IF u + 1 <= u + Len(m) THEN (u + Len(m)) - (u + 1) + 1 ELSE 0
          /\ \A i \in 1..((u + Len(m)) - (u + 1) + 1) : s[i] = d[(u + 1) + i - 1]
      <3>1. u + 1 \in Int /\ u + Len(m) \in Int /\ 1 <= u + 1
        BY <1>1
      <3> QED
        BY <3>1, Slices
    <2> HIDE DEF s
    <2>2. Len(s) = Len(m) /\ \A i \in 1..Len(s) : s[i] = m[i]
      <3>1. Len(s) = Len(m) /\ (u + Len(m)) - (u + 1) + 1 = Len(m)
        BY <1>1, <2>1
      <3>2. \A i \in 1..Len(m) : (u + 1) + i - 1 = u + i
        BY <1>1
      <3> QED
        BY <2>1, <3>1, <3>2
    <2>3. s = m
      BY <2>1, <2>2, SeqEqual
    <2> QED
      BY <2>3 DEF s
  <1> QED
    BY <1>3, <1>6, <1>7, <1>8 DEF BlockAt

\* Replacing a region by what it holds changes nothing.
LEMMA ReplaceSettles ==
    ASSUME NEW T, NEW c \in Seq(T), NEW o, HasRegion(c, o),
           NEW m, m = SubSeq(c, StartOf(c, o), EndOf(c, o))
    PROVE  Replace(c, o, m) = c
  <1> DEFINE s == StartOf(c, o)
             e == EndOf(c, o)
  <1>1. s \in 1..Len(c) /\ e \in 1..Len(c) /\ s < e /\ Len(c) \in Nat
    BY RegionBounds
  <1>2. Before(c, o) = SubSeq(c, 1, s - 1) /\ After(c, o) = SubSeq(c, e + 1, Len(c))
    BY DEF Before, After
  <1> HIDE DEF s, e
  <1>3. /\ 1 \in 1..(Len(c) + 1) /\ s - 1 \in (1 - 1)..Len(c) /\ e \in (s - 1)..Len(c)
        /\ (s - 1) + 1 = s /\ e \in (1 - 1)..Len(c) /\ Len(c) \in e..Len(c)
    BY <1>1
  <1>4. SubSeq(c, 1, s - 1) \o SubSeq(c, s, e) = SubSeq(c, 1, e)
    BY <1>3, ConcatAdjacentSubSeq
  <1>5. SubSeq(c, 1, e) \o SubSeq(c, e + 1, Len(c)) = SubSeq(c, 1, Len(c))
    BY <1>3, ConcatAdjacentSubSeq
  <1>6. SubSeq(c, 1, Len(c)) = c
    BY SubSeqFull
  <1> QED
    BY <1>2, <1>4, <1>5, <1>6 DEF Replace, s, e

\* What holds of a text d that came from c by putting the block m where no region
\* of the owners o1 and o2 was.
Holds(d, o, m) == HasRegion(d, o) /\ SubSeq(d, StartOf(d, o), EndOf(d, o)) = m
IsPut(T, c, d, o1, o2, m) ==
    d \in Seq(T) /\ Holds(d, o2, m)
    /\ OwnLines(c, o1) = OwnLines(d, o2) /\ Meaning(c, o1) \subseteq Meaning(d, o2)

\* A region replaced by a block, which may be another owner's.
LEMMA RegionReplaced ==
    ASSUME NEW T, NEW c \in Seq(T), NEW m \in Seq(T), NEW o1, NEW o2,
           HasRegion(c, o1), IsBlock(m, o2),
           \A i \in 1..(StartOf(c, o1) - 1) : c[i] # StartMark(o2),
           NEW d, d = Replace(c, o1, m)
    PROVE  /\ d \in Seq(T) /\ Holds(d, o2, m) /\ OwnLines(c, o1) = OwnLines(d, o2)
           /\ ~Exposed(c, o1) \/ Headers(m) = {} => IsPut(T, c, d, o1, o2, m)
  <1> DEFINE p == StartOf(c, o1) - 1
             q == EndOf(c, o1)
  <1>1. /\ p \in Nat /\ q \in 1..Len(c) /\ q \in Nat /\ p <= q /\ Len(c) \in Nat
        /\ Len(m) \in Nat /\ q <= Len(c) /\ p + 1 = StartOf(c, o1) /\ p < q
        /\ DOMAIN c = 1..Len(c) /\ DOMAIN m = 1..Len(m)
    BY RegionBounds
  <1>2. d = Spliced(c, p, q, m)
    BY DEF Replace, Before, After, Spliced
  <1>3. Region(c, o1) = (p + 1)..q
    BY <1>1 DEF Region
  <1>4. c[q] = EndMark(o1)
    <2>1. EndsOf(c, o1) \subseteq Nat /\ EndsOf(c, o1) # {}
      BY DEF EndsOf, Positions, HasRegion
    <2> QED
      BY <2>1, FirstIn DEF EndOf, EndsOf, Positions
  <1>5. \A i \in 1..p : c[i] # StartMark(o2)
    OBVIOUS
  <1> HIDE DEF p, q
  <1>r. PICK r : r = p + Len(m)
    OBVIOUS
  <1>6. /\ d \in Seq(T) /\ Alike(c, d, p, q, r) /\ Len(d) = p + Len(m) + (Len(c) - q)
        /\ \A i \in 1..Len(m) : d[p + i] = m[i]
    <2>1. p \in Nat /\ q \in Nat /\ p <= q /\ q <= Len(c)
      BY <1>1
    <2>2. IsSpliced(T, c, d, p, q, m)
      BY <1>2, <2>1, SplicedText
    <2> QED
      BY <1>r, <2>2 DEF IsSpliced
  <1>7. r \in Nat /\ r <= Len(d) /\ Len(d) \in Nat /\ DOMAIN d = 1..Len(d)
    BY <1>1, <1>6, <1>r
  <1>8. \A i \in 1..p : d[i] # StartMark(o2)
    BY <1>5, <1>6 DEF Alike
  <1>9. /\ HasRegion(d, o2) /\ Region(d, o2) = (p + 1)..r
        /\ SubSeq(d, StartOf(d, o2), EndOf(d, o2)) = m
    <2>1. p \in Nat /\ p + Len(m) <= Len(d) /\ d \in Seq(T)
      BY <1>1, <1>6, <1>7, <1>r
    <2>2. \A i \in 1..Len(m) : d[p + i] = m[i]
      BY <1>6
    <2>3. BlockAt(d, o2, p, m)
      BY <1>8, <2>1, <2>2, BlockIsRegion
    <2> QED
      BY <1>r, <2>3 DEF BlockAt
  <1>10. Apart(c, o1, p, q) /\ Apart(d, o2, p, r)
    BY <1>1, <1>3, <1>7, <1>9 DEF Apart
  <1>11. ASSUME Headers(m) = {} PROVE Sheltered(c, d, p, q, r)
    <2>1. ASSUME NEW h \in Headers(d), p < h, h <= r PROVE FALSE
      <3>1. h - p \in 1..Len(m) /\ p + (h - p) = h
        BY <1>1, <1>7, <1>r, <2>1 DEF Headers
      <3>2. d[h] = m[h - p]
        BY <1>6, <3>1
      <3>3. h - p \in Headers(m)
        BY <1>1, <3>1, <3>2 DEF Headers
      <3> QED
        BY <1>11, <3>3
    <2> QED
      BY <2>1 DEF Sheltered
  <1>12. ASSUME ~Exposed(c, o1) PROVE Sheltered(c, d, p, q, r)
    <2>1. CASE Headers(c) \cap Region(c, o1) # {}
      <3>1. PICK h \in Headers(c) : h \in Region(c, o1)
        BY <2>1
      <3>2. p < h /\ h <= q
        BY <1>1, <1>3, <3>1
      <3> QED
        BY <3>2 DEF Sheltered
    <2>2. CASE Headers(c) \cap Region(c, o1) = {}
      <3>1. ASSUME NEW i \in (q + 1)..Len(c), c[i] # Blank
            PROVE  \E j \in Headers(c) : q < j /\ j <= i
        <4>1. Headers(c) \cap (q..i) # {}
          BY <1>12, <2>2, <3>1 DEF Exposed, q
        <4>2. PICK h \in Headers(c) : h \in q..i
          BY <4>1
        <4>3. h # q
          BY <1>4 DEF Headers, EndMark
        <4> QED
          BY <1>1, <4>2, <4>3
      <3> QED
        BY <3>1 DEF Sheltered
    <2> QED
      BY <2>1, <2>2
  <1>13. /\ OwnLines(c, o1) = OwnLines(d, o2)
         /\ Sheltered(c, d, p, q, r) => Meaning(c, o1) \subseteq Meaning(d, o2)
    BY <1>1, <1>6, <1>7, <1>10, StretchReplaced
  <1> QED
    BY <1>6, <1>9, <1>11, <1>12, <1>13 DEF IsPut, Holds

\* The region removed from a text that has no other start marker.
LEMMA RegionRemoved ==
    ASSUME NEW T, NEW c \in Seq(T), NEW o, HasRegion(c, o),
           \A i, j \in Positions(c, StartMark(o)) : i = j,
           NEW d, d = Remove(c, o)
    PROVE  /\ d \in Seq(T) /\ ~HasStart(d, o)
           /\ OwnLines(c, o) = OwnLines(d, o) /\ Meaning(c, o) \subseteq Meaning(d, o)
  <1> DEFINE p == StartOf(c, o) - 1
             q == EndOf(c, o)
  <1>1. /\ p \in Nat /\ q \in 1..Len(c) /\ q \in Nat /\ p <= q /\ Len(c) \in Nat
        /\ q <= Len(c) /\ p + 1 = StartOf(c, o) /\ p < q /\ DOMAIN c = 1..Len(c)
    BY RegionBounds
  <1>2. d = Spliced(c, p, q, <<>>)
    <2>1. Before(c, o) \in Seq(T)
      <3>1. 1 \in Int /\ p \in Int /\ 1 <= 1 /\ p <= Len(c)
        BY <1>1
      <3> QED
        BY <3>1, Slices DEF Before
    <2>2. Before(c, o) \o <<>> = Before(c, o)
      BY <2>1, ConcatEmptySeq
    <2> QED
      BY <2>2 DEF Remove, Before, After, Spliced
  <1>3. Region(c, o) = (p + 1)..q
    BY <1>1 DEF Region
  <1>4. p + 1 \in Positions(c, StartMark(o))
    <2>1. Positions(c, StartMark(o)) \subseteq Nat /\ Positions(c, StartMark(o)) # {}
      BY DEF Positions, HasRegion, HasStart
    <2> QED
      BY <1>1, <2>1, FirstIn DEF StartOf
  <1> HIDE DEF p, q
  <1>5. PICK x : x = <<>>
    OBVIOUS
  <1>6. /\ d \in Seq(T) /\ Alike(c, d, p, q, p) /\ Len(d) = p + (Len(c) - q)
    <2>1. /\ p \in Nat /\ q \in Nat /\ p <= q /\ q <= Len(c)
          /\ x \in Seq(T) /\ d = Spliced(c, p, q, x)
      BY <1>1, <1>2, <1>5
    <2>2. IsSpliced(T, c, d, p, q, x)
      BY <2>1, SplicedText
    <2>3. p + Len(x) = p
      BY <1>1, <1>5
    <2> QED
      BY <2>2, <2>3 DEF IsSpliced
  <1>7. Len(d) \in Nat /\ DOMAIN d = 1..Len(d)
    BY <1>6
  <1>8. ~HasStart(d, o)
    <2> SUFFICES ASSUME NEW k \in 1..Len(d), d[k] = StartMark(o) PROVE FALSE
      BY <1>7 DEF HasStart, Positions
    <2> DEFINE i == IF k <= p THEN k ELSE k - p + q
    <2>1. i \in 1..Len(c) /\ c[i] = d[k] /\ i # p + 1
      <3>1. CASE k <= p
        BY <1>1, <1>6, <3>1 DEF Alike
      <3>2. CASE ~(k <= p)
        <4>1. i \in (q + 1)..Len(c) /\ i - q + p = k
          BY <1>1, <1>6, <3>2
        <4>2. c[i] = d[i - q + p]
          BY <1>6, <4>1 DEF Alike
        <4> QED
          BY <1>1, <4>1, <4>2
      <3> QED
        BY <3>1, <3>2
    <2>2. i \in Positions(c, StartMark(o))
      BY <1>1, <2>1 DEF Positions
    <2> QED
      BY <1>4, <2>1, <2>2
  <1>9. Apart(c, o, p, q) /\ Apart(d, o, p, p)
    <2>1. Apart(c, o, p, q)
      BY <1>1, <1>3 DEF Apart
    <2>2. Region(d, o) = {}
      BY <1>8 DEF Region, HasRegion
    <2> QED
      BY <1>1, <1>7, <2>1, <2>2 DEF Apart
  <1>10. Sheltered(c, d, p, q, p)
    BY <1>1, <1>7 DEF Sheltered, Headers
  <1> QED
    BY <1>1, <1>6, <1>8, <1>9, <1>10, StretchReplaced

\* A block, with blank lines around it, in the place of blank lines, ahead of a
\* header or at the end.
LEMMA BlockAdded ==
    ASSUME NEW T, NEW c \in Seq(T), NEW o1, NEW o2, ~HasStart(c, o1), ~HasStart(c, o2),
           NEW p \in Nat, NEW q \in Nat, p <= q, q <= Len(c), \A i \in (p + 1)..q : c[i] = Blank,
           NEW g \in Seq(T), NEW m \in Seq(T), NEW h \in Seq(T), IsBlank(g), IsBlank(h), IsBlock(m, o2),
           \A i \in (q + 1)..Len(c) : c[i] # Blank => \E j \in Headers(c) : q < j /\ j <= i,
           NEW d, d = Spliced(c, p, q, g \o m \o h)
    PROVE  IsPut(T, c, d, o1, o2, m)
  <1>1. PICK x : x = g \o m \o h
    OBVIOUS
  <1>2. /\ x \in Seq(T) /\ Len(x) = Len(g) + Len(m) + Len(h)
        /\ Len(g) \in Nat /\ Len(m) \in Nat /\ Len(h) \in Nat
        /\ \A i \in 1..Len(g) : x[i] = g[i]
        /\ \A i \in 1..Len(m) : x[Len(g) + i] = m[i]
        /\ \A i \in 1..Len(h) : x[Len(g) + Len(m) + i] = h[i]
    BY <1>1, Joined3
  <1> DEFINE r == p + Len(x)
             u == p + Len(g)
  <1>3. /\ d \in Seq(T) /\ Alike(c, d, p, q, r) /\ Len(d) = p + Len(x) + (Len(c) - q)
        /\ \A i \in 1..Len(x) : d[p + i] = x[i]
    <2>1. x \in Seq(T) /\ d = Spliced(c, p, q, x)
      BY <1>1, <1>2
    <2>2. IsSpliced(T, c, d, p, q, x)
      BY <2>1, SplicedText
    <2> QED
      BY <2>2 DEF IsSpliced
  <1>4. /\ Len(c) \in Nat /\ Len(d) \in Nat /\ r \in Nat /\ u \in Nat /\ r <= Len(d) /\ u + Len(m) <= r
        /\ DOMAIN c = 1..Len(c) /\ DOMAIN d = 1..Len(d) /\ Len(x) \in Nat
    <2>1. Len(c) \in Nat /\ Len(d) \in Nat /\ DOMAIN c = 1..Len(c) /\ DOMAIN d = 1..Len(d)
      BY <1>3
    <2>2. Len(x) \in Nat /\ Len(g) + Len(m) <= Len(x) /\ Len(g) \in Nat /\ Len(m) \in Nat
      <3>1. /\ Len(x) = Len(g) + Len(m) + Len(h)
            /\ Len(g) \in Nat /\ Len(m) \in Nat /\ Len(h) \in Nat
        BY <1>2
      <3> QED
        BY <3>1
    <2>3. Len(d) = p + Len(x) + (Len(c) - q)
      BY <1>3
    <2> QED
      BY <2>1, <2>2, <2>3
  <1>5. \A i \in 1..Len(g) : d[p + i] = Blank
    <2>1. \A i \in 1..Len(g) : i \in 1..Len(x) /\ g[i] = Blank
      BY <1>2, <1>4 DEF IsBlank
    <2> QED
      BY <1>2, <1>3, <2>1
  <1>6. \A i \in 1..Len(m) : d[u + i] = m[i]
    <2> SUFFICES ASSUME NEW i \in 1..Len(m) PROVE d[u + i] = m[i]
      OBVIOUS
    <2>1. Len(g) + i \in 1..Len(x) /\ p + (Len(g) + i) = u + i
      BY <1>2, <1>4
    <2>2. d[p + (Len(g) + i)] = x[Len(g) + i] /\ x[Len(g) + i] = m[i]
      BY <1>2, <1>3, <2>1
    <2> QED
      BY <2>1, <2>2
  <1>7. \A i \in 1..Len(h) : d[u + Len(m) + i] = Blank
    <2> SUFFICES ASSUME NEW i \in 1..Len(h) PROVE d[u + Len(m) + i] = Blank
      OBVIOUS
    <2>1. Len(g) + Len(m) + i \in 1..Len(x) /\ p + (Len(g) + Len(m) + i) = u + Len(m) + i
      BY <1>2, <1>4
    <2>2. d[p + (Len(g) + Len(m) + i)] = x[Len(g) + Len(m) + i] /\ x[Len(g) + Len(m) + i] = h[i]
      BY <1>2, <1>3, <2>1
    <2>3. h[i] = Blank
      BY DEF IsBlank
    <2> QED
      BY <2>1, <2>2, <2>3
  <1>8. \A i \in 1..u : d[i] # StartMark(o2)
    <2> SUFFICES ASSUME NEW i \in 1..u PROVE d[i] # StartMark(o2)
      OBVIOUS
    <2>1. CASE i <= p
      <3>1. d[i] = c[i] /\ i \in 1..Len(c)
        BY <1>3, <1>4, <2>1 DEF Alike
      <3> QED
        BY <1>4, <3>1 DEF HasStart, Positions
    <2>2. CASE ~(i <= p)
      <3>1. i - p \in 1..Len(g) /\ p + (i - p) = i
        BY <1>2, <1>4, <2>2
      <3>2. d[i] = Blank
        BY <1>5, <3>1
      <3> QED
        BY <3>2 DEF Blank, StartMark
    <2> QED
      BY <2>1, <2>2
  <1> HIDE DEF r, u
  <1>9. /\ HasRegion(d, o2) /\ Region(d, o2) = (u + 1)..(u + Len(m))
        /\ SubSeq(d, StartOf(d, o2), EndOf(d, o2)) = m
    <2>1. u + Len(m) <= Len(d)
      BY <1>2, <1>4
    <2>2. BlockAt(d, o2, u, m)
      BY <1>3, <1>4, <1>6, <1>8, <2>1, BlockIsRegion
    <2> QED
      BY <2>2 DEF BlockAt
  <1>10. Apart(c, o1, p, q)
    <2>1. Region(c, o1) = {}
      BY DEF Region, HasRegion
    <2> QED
      BY <1>4, <2>1 DEF Apart
  <1>11. Apart(d, o2, p, r)
    <2> SUFFICES ASSUME NEW i \in 1..Len(d), d[i] # Blank
                 PROVE  i \in (u + 1)..(u + Len(m)) <=> p < i /\ i <= r
      BY <1>9 DEF Apart
    <2>1. i \in Nat
      OBVIOUS
    <2>2. ~(p < i /\ i <= u)
      <3> SUFFICES ASSUME p < i, i <= u PROVE FALSE
        OBVIOUS
      <3>1. i - p \in 1..Len(g) /\ p + (i - p) = i
        BY <1>2, <1>4, <2>1 DEF u
      <3> QED
        BY <1>5, <3>1
    <2>3. ~(u + Len(m) < i /\ i <= r)
      <3> SUFFICES ASSUME u + Len(m) < i, i <= r PROVE FALSE
        OBVIOUS
      <3>1. i - u - Len(m) \in 1..Len(h) /\ u + Len(m) + (i - u - Len(m)) = i
        BY <1>2, <1>4, <2>1 DEF r, u
      <3> QED
        BY <1>7, <3>1
    <2> QED
      BY <1>2, <1>4, <2>1, <2>2, <2>3 DEF u
  <1>12. /\ OwnLines(c, o1) = OwnLines(d, o2)
         /\ Sheltered(c, d, p, q, r) => Meaning(c, o1) \subseteq Meaning(d, o2)
    <2>1. d \in Seq(T) /\ Alike(c, d, p, q, r) /\ r \in Nat
      BY <1>3, <1>4
    <2> QED
      BY <2>1, <1>10, <1>11, StretchReplaced
  <1> QED
    BY <1>3, <1>9, <1>12 DEF Sheltered, IsPut, Holds

\* A gap is one blank line or none.
LEMMA Gaps ==
    ASSUME NEW T, Blank \in T
    PROVE  <<Blank>> \in Seq(T) /\ IsBlank(<<Blank>>) /\ <<>> \in Seq(T) /\ IsBlank(<<>>)
  BY DEF IsBlank

\* Before the line i, if that is a header or there is none.
LEMMA InsertedAt ==
    ASSUME NEW T, Blank \in T, NEW c \in Seq(T), NEW o1, NEW o2, ~HasStart(c, o1), ~HasStart(c, o2),
           NEW i \in 1..(Len(c) + 1), i \in Headers(c) \/ i = Len(c) + 1,
           NEW m \in Seq(T), IsBlock(m, o2), NEW d, d = InsertAt(c, i, m)
    PROVE  IsPut(T, c, d, o1, o2, m)
  <1> DEFINE a == SubSeq(c, 1, i - 1)
             b == SubSeq(c, i, Len(c))
  <1>1. PICK x, y : x = <<>> /\ y = <<Blank>>
    OBVIOUS
  <1>2. x \in Seq(T) /\ IsBlank(x) /\ y \in Seq(T) /\ IsBlank(y)
    BY <1>1, Gaps
  <1>3. Len(c) \in Nat /\ i \in Nat /\ i - 1 \in Nat /\ i - 1 <= Len(c) /\ (i - 1) + 1 = i /\ 1 <= i
    OBVIOUS
  <1>4. a \in Seq(T) /\ Len(a) = i - 1 /\ \A k \in 1..(i - 1) : a[k] = c[k]
    <2>1. /\ a \in Seq(T) /\ Len(a) = (IF 1 <= i - 1 THEN (i - 1) - 1 + 1 ELSE 0)
          /\ \A k \in 1..((i - 1) - 1 + 1) : a[k] = c[1 + k - 1]
      <3>1. 1 \in Int /\ i - 1 \in Int /\ 1 <= 1
        BY <1>3
      <3> QED
        BY <1>3, <3>1, Slices
    <2> HIDE DEF a
    <2> QED
      BY <1>3, <2>1
  <1>5. b \in Seq(T)
    BY <1>3, Slices
  <1>6. \A k \in (i - 1 + 1)..Len(c) : c[k] # Blank => \E j \in Headers(c) : i - 1 < j /\ j <= k
    BY <1>3
  <1>7. CASE IsBlank(a)
    <2>1. d = Spliced(c, 0, i - 1, x \o m \o x)
      <3>1. d = m \o b
        BY <1>7 DEF InsertAt
      <3>2. x \o m = m /\ m \o x = m
        BY <1>1, ConcatEmptySeq
      <3>3. SubSeq(c, 1, 0) = x
        BY <1>1, SubSeqEmpty
      <3>4. SubSeq(c, i - 1 + 1, Len(c)) = b
        BY <1>3
      <3> QED
        BY <3>1, <3>2, <3>3, <3>4 DEF Spliced
    <2>2. \A k \in (0 + 1)..(i - 1) : c[k] = Blank
      <3>1. \A k \in 1..(i - 1) : a[k] = Blank
        <4> HIDE DEF a
        <4>1. DOMAIN a = 1..(i - 1)
          BY <1>4
        <4> QED
          BY <1>7, <4>1 DEF IsBlank
      <3> HIDE DEF a
      <3> QED
        BY <1>3, <1>4, <3>1
    <2>3. 0 \in Nat /\ i - 1 \in Nat /\ 0 <= i - 1 /\ i - 1 <= Len(c)
      BY <1>3
    <2> HIDE DEF a, b
    <2>4. PICK q : q = i - 1
      OBVIOUS
    <2>5. /\ d = Spliced(c, 0, q, x \o m \o x) /\ q \in Nat /\ 0 <= q /\ q <= Len(c)
          /\ \A k \in (0 + 1)..q : c[k] = Blank
          /\ \A k \in (q + 1)..Len(c) : c[k] # Blank => \E j \in Headers(c) : q < j /\ j <= k
      BY <1>6, <2>1, <2>2, <2>3, <2>4
    <2> QED
      BY <1>2, <2>5, BlockAdded
  <1>8. CASE ~IsBlank(a)
    <2>1. d = Spliced(c, i - 1, i - 1, y \o m \o x)
      <3>1. d = (a \o y \o m) \o b
        BY <1>1, <1>8 DEF InsertAt
      <3>2. y \o m \in Seq(T) /\ (y \o m) \o x = y \o m /\ a \o (y \o m) = (a \o y) \o m
        <4>1. y \o m \in Seq(T)
          BY <1>2
        <4>2. (a \o y) \o m = a \o (y \o m)
          <5>1. PICK z : z = a
            OBVIOUS
          <5>2. z \in Seq(T) /\ y \in Seq(T)
            BY <1>2, <1>4, <5>1
          <5>3. (z \o y) \o m = z \o (y \o m)
            BY <5>2, ConcatAssociative
          <5> QED
            BY <5>1, <5>3
        <4> QED
          BY <1>1, <4>1, <4>2, ConcatEmptySeq
      <3>4. SubSeq(c, i - 1 + 1, Len(c)) = b
        BY <1>3
      <3> QED
        BY <3>1, <3>2, <3>4 DEF Spliced
    <2> HIDE DEF a, b
    <2>4. PICK q : q = i - 1
      OBVIOUS
    <2>5. /\ d = Spliced(c, q, q, y \o m \o x) /\ q \in Nat /\ q <= q /\ q <= Len(c)
          /\ \A k \in (q + 1)..q : c[k] = Blank
          /\ \A k \in (q + 1)..Len(c) : c[k] # Blank => \E j \in Headers(c) : q < j /\ j <= k
      BY <1>3, <1>6, <2>1, <2>4
    <2> QED
      BY <1>2, <2>5, BlockAdded
  <1> QED
    BY <1>7, <1>8

\* So does Insert of mcpsync.
LEMMA Inserted ==
    ASSUME NEW T, Blank \in T, NEW c \in Seq(T), NEW o, ~HasStart(c, o),
           NEW m \in Seq(T), IsBlock(m, o), NEW d, d = Insert(c, m)
    PROVE  IsPut(T, c, d, o, o, m)
  <1> DEFINE i == Split(c, Bracketed(c))
  <1>1. i \in 1..(Len(c) + 1) /\ (i \in Headers(c) \/ i = Len(c) + 1)
    <2>1. CASE Bracketed(c) = {}
      BY <2>1 DEF Split
    <2>2. CASE Bracketed(c) # {}
      <3>1. Bracketed(c) \subseteq Nat /\ Bracketed(c) \subseteq Headers(c) /\ Headers(c) \subseteq 1..Len(c)
        BY DEF Bracketed, Headers
      <3>2. i \in Bracketed(c)
        BY <2>2, <3>1, FirstIn DEF Split
      <3> HIDE DEF i
      <3> QED
        BY <3>1, <3>2
    <2> QED
      BY <2>1, <2>2
  <1>2. d = InsertAt(c, i, m)
    BY DEF Insert
  <1> HIDE DEF i
  <1> QED
    BY <1>1, <1>2, InsertedAt

\* A generated block is one: markers around servers.
LEMMA BlockIsBlock ==
    ASSUME NEW T, NEW o, StartMark(o) \in T, EndMark(o) \in T, NEW t \in Seq(T),
           \A i \in 1..Len(t) : t[i][1] = "mcp",
           NEW m, m = <<StartMark(o)>> \o t \o <<EndMark(o)>>
    PROVE  /\ m \in Seq(T) /\ IsBlock(m, o) /\ Len(m) = Len(t) + 2
           /\ \A i \in 1..Len(t) : m[i + 1] = t[i]
  <1>1. PICK a, b : a = <<StartMark(o)>> /\ b = <<EndMark(o)>>
    OBVIOUS
  <1>2. a \in Seq(T) /\ Len(a) = 1 /\ a[1] = StartMark(o) /\ b \in Seq(T) /\ Len(b) = 1 /\ b[1] = EndMark(o)
    BY <1>1
  <1>3. m = a \o t \o b
    BY <1>1
  <1>4. /\ m \in Seq(T) /\ Len(m) = Len(a) + Len(t) + Len(b) /\ Len(t) \in Nat
        /\ \A i \in 1..Len(a) : m[i] = a[i]
        /\ \A i \in 1..Len(t) : m[Len(a) + i] = t[i]
        /\ \A i \in 1..Len(b) : m[Len(a) + Len(t) + i] = b[i]
    BY <1>2, <1>3, Joined3
  <1>5. m[1] = StartMark(o) /\ m[Len(m)] = EndMark(o) /\ Len(m) = Len(t) + 2
    <2>1. 1 \in 1..Len(a) /\ 1 \in 1..Len(b) /\ Len(a) + Len(t) + 1 = Len(m)
      BY <1>2, <1>4
    <2>2. m[1] = a[1] /\ m[Len(a) + Len(t) + 1] = b[1]
      BY <1>4, <2>1
    <2> QED
      BY <1>2, <1>4, <2>1, <2>2
  <1>6. ASSUME NEW i \in 1..Len(t) PROVE m[i + 1] = t[i]
    <2>1. Len(a) + i = i + 1
      BY <1>2
    <2> QED
      BY <1>4, <2>1
  <1>7. ASSUME NEW i \in 2..(Len(m) - 1) PROVE m[i][1] = "mcp"
    <2>1. i - 1 \in 1..Len(t) /\ (i - 1) + 1 = i
      BY <1>4, <1>5
    <2>2. m[(i - 1) + 1] = t[i - 1]
      BY <1>6, <2>1
    <2> QED
      BY <2>1, <2>2
  <1> QED
    BY <1>4, <1>5, <1>6, <1>7 DEF IsBlock

\* The text without its trailing blank lines: where it ends, and that it keeps all
\* there is where no region is.
IsTrimmed(T, c, t) ==
    /\ t \in Seq(T) /\ Len(t) \in 0..Len(c)
    /\ t = SubSeq(c, 1, Len(t))
    /\ \A i \in 1..Len(t) : t[i] = c[i]
    /\ \A i \in (Len(t) + 1)..Len(c) : c[i] = Blank
    /\ IsBlank(c) <=> t = <<>>

LEMMA Trimmed ==
    ASSUME NEW T, NEW c \in Seq(T), NEW t, t = Trim(c)
    PROVE  IsTrimmed(T, c, t)
  <1>1. Len(c) \in Nat /\ DOMAIN c = 1..Len(c)
    OBVIOUS
  <1>2. CASE Filled(c) = {}
    <2>1. t = <<>> /\ Len(t) = 0 /\ t \in Seq(T)
      BY <1>2 DEF Trim
    <2>2. SubSeq(c, 1, 0) = <<>>
      BY SubSeqEmpty
    <2>3. IsBlank(c) /\ \A i \in 1..Len(c) : c[i] = Blank
      BY <1>1, <1>2 DEF Filled, IsBlank
    <2> QED
      BY <1>1, <2>1, <2>2, <2>3 DEF IsTrimmed
  <1>3. CASE Filled(c) # {}
    <2> DEFINE l == Last(Filled(c))
    <2>1. Filled(c) \subseteq 1..Len(c)
      BY <1>1 DEF Filled
    <2>2. l \in Filled(c) /\ \A j \in Filled(c) : j <= l
      BY <1>1, <1>3, <2>1, LastIn
    <2>3. t = SubSeq(c, 1, l)
      BY <1>3 DEF Trim
    <2> HIDE DEF l
    <2>4. l \in 1..Len(c) /\ l \in Int /\ l \in Nat /\ c[l] # Blank
      BY <2>1, <2>2 DEF Filled
    <2>5. /\ t \in Seq(T) /\ Len(t) = (IF 1 <= l THEN l - 1 + 1 ELSE 0)
          /\ \A i \in 1..(l - 1 + 1) : t[i] = c[1 + i - 1]
      <3>1. 1 \in Int /\ l \in Int /\ 1 <= 1 /\ l <= Len(c)
        BY <2>4
      <3> QED
        BY <2>3, <3>1, Slices
    <2>6. Len(t) = l /\ \A i \in 1..l : t[i] = c[i]
      BY <2>4, <2>5
    <2>7. \A i \in (l + 1)..Len(c) : c[i] = Blank
      <3> SUFFICES ASSUME NEW i \in (l + 1)..Len(c), c[i] # Blank PROVE FALSE
        OBVIOUS
      <3>1. i \in Filled(c)
        BY <1>1, <2>4 DEF Filled
      <3>2. i <= l
        BY <2>2, <3>1
      <3> QED
        BY <2>4, <3>2
    <2>8. ~IsBlank(c) /\ t # <<>>
      <3>1. ~IsBlank(c)
        BY <1>1, <2>4 DEF IsBlank
      <3>2. Len(t) # 0
        BY <2>4, <2>6
      <3> QED
        BY <3>1, <3>2
    <2> QED
      BY <2>3, <2>4, <2>5, <2>6, <2>7, <2>8 DEF IsTrimmed
  <1> QED
    BY <1>2, <1>3

LEMMA TrimKeeps ==
    ASSUME NEW T, NEW c \in Seq(T), NEW o, ~HasStart(c, o), NEW t, t = Trim(c)
    PROVE  /\ t \in Seq(T) /\ ~HasStart(t, o)
           /\ OwnLines(c, o) = OwnLines(t, o) /\ Meaning(c, o) \subseteq Meaning(t, o)
  <1>1. IsTrimmed(T, c, t)
    BY Trimmed
  <1>2. PICK l, n : l = Len(t) /\ n = Len(c)
    OBVIOUS
  <1>3. /\ t \in Seq(T) /\ l \in Nat /\ n \in Nat /\ l <= n /\ DOMAIN c = 1..n /\ DOMAIN t = 1..l
        /\ \A i \in 1..l : t[i] = c[i]
        /\ \A i \in (l + 1)..n : c[i] = Blank
    BY <1>1, <1>2 DEF IsTrimmed
  <1>4. ~HasStart(t, o)
    BY <1>3 DEF HasStart, Positions
  <1>5. Region(c, o) = {} /\ Region(t, o) = {}
    BY <1>4 DEF Region, HasRegion
  <1>6. Alike(c, t, l, n, l)
    BY <1>2, <1>3 DEF Alike
  <1>7. Apart(c, o, l, n) /\ Apart(t, o, l, l)
    BY <1>2, <1>3, <1>5 DEF Apart
  <1>8. Sheltered(c, t, l, n, l)
    BY <1>2, <1>3 DEF Sheltered
  <1> QED
    BY <1>3, <1>4, <1>6, <1>7, <1>8, StretchReplaced

\* Concatenation, which may be regrouped.
Associates(a, b, c) == (a \o b) \o c = a \o (b \o c)
LEMMA Associative ==
    ASSUME NEW T, NEW a \in Seq(T), NEW b \in Seq(T), NEW c \in Seq(T)
    PROVE  Associates(a, b, c)
  <1>1. (a \o b) \o c = a \o (b \o c)
    BY ConcatAssociative
  <1> QED
    BY <1>1 DEF Associates
LEMMA Concat ==
    ASSUME NEW T, NEW a \in Seq(T), NEW b \in Seq(T), NEW c, c = a \o b
    PROVE  c \in Seq(T)
  OBVIOUS

\* Two texts with gaps around a block are the same however they are put together.
Regroups(a, g, m, h, b) == ((a \o g) \o m) \o (h \o b) = (a \o ((g \o m) \o h)) \o b
LEMMA Regrouped ==
    ASSUME NEW T, NEW a \in Seq(T), NEW g \in Seq(T), NEW m \in Seq(T), NEW h \in Seq(T), NEW b \in Seq(T)
    PROVE  Regroups(a, g, m, h, b)
  <1>1. PICK gm, agm : gm = g \o m /\ agm = a \o gm
    OBVIOUS
  <1>2. gm \in Seq(T)
    BY <1>1, Concat
  <1>3. agm \in Seq(T)
    BY <1>1, <1>2, Concat
  <1>4. Associates(a, g, m) /\ Associates(a, gm, h) /\ Associates(agm, h, b)
    BY <1>2, <1>3, Associative
  <1> QED
    BY <1>1, <1>4, Zenon DEF Associates, Regroups

\* Before a region there is no start marker of its owner.
LEMMA NoEarlierStart ==
    ASSUME NEW T, NEW c \in Seq(T), NEW o, HasRegion(c, o)
    PROVE  \A i \in 1..(StartOf(c, o) - 1) : c[i] # StartMark(o)
  <1>1. Positions(c, StartMark(o)) \subseteq Nat /\ Positions(c, StartMark(o)) # {}
    BY DEF Positions, HasRegion, HasStart
  <1>2. \A j \in Positions(c, StartMark(o)) : StartOf(c, o) <= j
    BY <1>1, FirstIn DEF StartOf
  <1>3. StartOf(c, o) \in 1..Len(c)
    BY RegionBounds
  <1> QED
    BY <1>2, <1>3 DEF Positions

\* The lines of a region that holds a block are those of the block.
LEMMA HeldLines ==
    ASSUME NEW T, NEW d \in Seq(T), NEW o, NEW m, Holds(d, o, m)
    PROVE  /\ Region(d, o) = StartOf(d, o)..EndOf(d, o) /\ Len(m) = EndOf(d, o) - StartOf(d, o) + 1
           /\ StartOf(d, o) \in Nat /\ EndOf(d, o) \in Nat
           /\ \A k \in 1..Len(m) : m[k] = d[StartOf(d, o) + k - 1]
  <1>1. PICK s, e : s = StartOf(d, o) /\ e = EndOf(d, o)
    OBVIOUS
  <1>2. s \in 1..Len(d) /\ e \in 1..Len(d) /\ s < e /\ Len(d) \in Nat
    BY <1>1, RegionBounds DEF Holds
  <1>3. s \in Int /\ e \in Int /\ 1 <= s /\ e <= Len(d)
    BY <1>2
  <1>4. /\ Len(m) = (IF s <= e THEN e - s + 1 ELSE 0)
        /\ \A k \in 1..(e - s + 1) : m[k] = d[s + k - 1]
    <2>1. m = SubSeq(d, s, e)
      BY <1>1 DEF Holds
    <2> QED
      BY <1>3, <2>1, Slices
  <1>5. Len(m) = e - s + 1
    BY <1>2, <1>4
  <1> QED
    BY <1>1, <1>2, <1>4, <1>5 DEF Region, Holds
=============================================================================
