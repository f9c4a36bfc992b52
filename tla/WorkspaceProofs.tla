-------------------------- MODULE WorkspaceProofs ---------------------------
(***************************************************************************)
(* Proofs about Workspace, for any directories, scenarios, overlays and      *)
(* policies: the invariant of every behaviour, and that each of its          *)
(* properties follows from it.  The parts:                                  *)
(*   - sets of numbers and finite sets in the order of a key, folds and       *)
(*     sequences;                                                           *)
(*   - what is finite: a baseline report, an audit; and what is generated as  *)
(*     the manifest;                                                        *)
(*   - one checkout: which findings of the baseline depend on what the        *)
(*     generators write (two checks, and one of the launchers), what they     *)
(*     leave behind, and what the other verdicts make of it;                 *)
(*   - the notes of the cycles;                                             *)
(*   - the invariant, WorkspaceInv, step by step;                            *)
(*   - artifacts and their checks, manifest and check, audit and candidate.  *)
(***************************************************************************)
EXTENDS Workspace, FiniteSetTheorems, SequenceTheorems, WellFoundedInduction, TLAPS

-----------------------------------------------------------------------------
(* A set of numbers that is not empty has a least one.                       *)
LEMMA LeastIn ==
    ASSUME NEW S, S \subseteq Nat, S # {}
    PROVE  \E i \in S : \A j \in S : i <= j
<1>1. PICK i \in S : \A j \in S : ~(<<j, i>> \in OpToRel(<, Nat))
    BY NatLessThanWellFounded, WFMin
<1>2. ASSUME NEW j \in S PROVE i <= j
    <2>1. i \in Nat /\ j \in Nat
        OBVIOUS
    <2>2. <<j, i>> \in Nat \X Nat /\ <<j, i>>[1] = j /\ <<j, i>>[2] = i
        BY <2>1
    <2>3. j < i => <<j, i>> \in OpToRel(<, Nat)
        BY <2>2 DEF OpToRel
    <2>4. ~(j < i)
        BY <1>1, <2>3, Zenon
    <2> QED BY <2>1, <2>4
<1> QED BY <1>2

(* A finite set has an element with the least key.                           *)
LEMMA LeastKey ==
    ASSUME NEW S, IsFiniteSet(S), S # {}, NEW key, \A x \in S : key[x] \in Int
    PROVE  \E x \in S : \A y \in S : key[x] <= key[y]
<1> DEFINE HasLeast(T) == \E x \in T : \A y \in T : key[x] <= key[y]
           sizes == {Cardinality(T) : T \in {T \in SUBSET S : T # {} /\ ~HasLeast(T)}}
<1> SUFFICES ASSUME ~HasLeast(S) PROVE FALSE
    OBVIOUS
<1>1. \A T \in SUBSET S : IsFiniteSet(T) /\ Cardinality(T) \in Nat
    BY FS_Subset, FS_CardinalityType
<1>2. Cardinality(S) \in sizes
    OBVIOUS
<1>3. PICK n \in sizes : \A m \in sizes : n <= m
    <2>1. sizes \subseteq Nat
        BY <1>1
    <2> HIDE DEF sizes
    <2> QED BY <1>2, <2>1, LeastIn
<1>4. PICK T \in SUBSET S : T # {} /\ ~HasLeast(T) /\ n = Cardinality(T)
    BY <1>3
<1>5. PICK x \in T : TRUE
    BY <1>4
<1> DEFINE U == T \ {x}
<1>6. Cardinality(U) < n /\ U \in SUBSET S
    <2>1. Cardinality(U) = n - 1
        BY <1>1, <1>4, FS_RemoveElement
    <2> QED BY <1>1, <1>4, <2>1
<1>7. U # {} => HasLeast(U)
    <2> SUFFICES ASSUME U # {}, ~HasLeast(U) PROVE FALSE
        OBVIOUS
    <2>1. Cardinality(U) \in sizes
        BY <1>6
    <2>2. n <= Cardinality(U) /\ n \in Nat /\ Cardinality(U) \in Nat
        BY <1>1, <1>3, <1>4, <1>6, <2>1
    <2> QED BY <1>6, <2>2
<1>8. CASE U = {}
    <2>1. \A y \in T : key[x] <= key[y]
        BY <1>5, <1>8
    <2> QED BY <1>4, <2>1
<1>9. CASE U # {}
    <2>1. PICK m \in U : \A y \in U : key[m] <= key[y]
        BY <1>7, <1>9
    <2>2. CASE key[x] <= key[m]
        <3>1. \A y \in T : key[x] <= key[y]
            BY <2>1, <2>2
        <3> QED BY <1>4, <3>1
    <2>3. CASE ~(key[x] <= key[m])
        <3>1. key[m] <= key[x] /\ m \in T
            BY <2>3
        <3>2. \A y \in T : key[m] <= key[y]
            BY <2>1, <3>1
        <3> QED BY <1>4, <3>1, <3>2
    <2> QED BY <2>2, <2>3
<1> QED BY <1>8, <1>9

(* So a finite set can be put in the order of a key.                         *)
Ordered(order, n, key) ==
    \A i, j \in 1..n : i < j => order[i] # order[j] /\ key[order[i]] <= key[order[j]]

(* A finite set can be put in the order of any key.                          *)
LEMMA OrderExists ==
    ASSUME NEW S, IsFiniteSet(S), NEW key \in [S -> Int]
    PROVE  \E order \in [1..Cardinality(S) -> S] : Ordered(order, Cardinality(S), key)
<1> DEFINE Has(T) == \E order \in [1..Cardinality(T) -> T] : Ordered(order, Cardinality(T), key)
           sizes == {Cardinality(T) : T \in {T \in SUBSET S : ~Has(T)}}
<1> SUFFICES ASSUME ~Has(S) PROVE FALSE
    OBVIOUS
<1>1. \A T \in SUBSET S : IsFiniteSet(T) /\ Cardinality(T) \in Nat
    BY FS_Subset, FS_CardinalityType
<1>2. Cardinality(S) \in sizes
    OBVIOUS
<1>3. PICK n \in sizes : \A m \in sizes : n <= m
    <2>1. sizes \subseteq Nat
        BY <1>1
    <2> HIDE DEF sizes
    <2> QED BY <1>2, <2>1, LeastIn
<1>4. PICK T \in SUBSET S : ~Has(T) /\ n = Cardinality(T)
    BY <1>3
<1>5. n \in Nat /\ IsFiniteSet(T)
    BY <1>1, <1>4
<1>6. T # {}
    <2> SUFFICES ASSUME T = {} PROVE FALSE
        OBVIOUS
    <2>1. n = 0
        BY <1>4, FS_EmptySet
    <2>2. 1..n = {}
        BY <2>1
    <2>3. [i \in 1..n |-> i] \in [1..n -> T]
        BY <2>2
    <2>4. Ordered([i \in 1..n |-> i], n, key)
        BY <2>2 DEF Ordered
    <2> QED BY <1>4, <2>3, <2>4
<1>7. PICK x \in T : \A y \in T : key[x] <= key[y]
    BY <1>5, <1>6, LeastKey
<1> DEFINE U == T \ {x}
<1>8. Cardinality(U) = n - 1 /\ U \in SUBSET S /\ n - 1 \in Nat
    <2>1. Cardinality(U) = n - 1
        BY <1>4, <1>5, FS_RemoveElement
    <2> QED BY <1>1, <2>1
<1>9. Has(U)
    <2> SUFFICES ASSUME ~Has(U) PROVE FALSE
        OBVIOUS
    <2>1. Cardinality(U) \in sizes
        BY <1>8
    <2>2. n <= Cardinality(U)
        <3> HIDE DEF sizes
        <3> QED BY <1>3, <2>1
    <2> QED BY <1>5, <1>8, <2>2
<1>10. PICK rest \in [1..(n - 1) -> U] : Ordered(rest, n - 1, key)
    BY <1>8, <1>9
<1> DEFINE order == [i \in 1..n |-> IF i = 1 THEN x ELSE rest[i - 1]]
<1>11. order \in [1..n -> T]
    BY <1>5, <1>10
<1>12. Ordered(order, n, key)
    <2> SUFFICES ASSUME NEW i \in 1..n, NEW j \in 1..n, i < j
                 PROVE  order[i] # order[j] /\ key[order[i]] <= key[order[j]]
        BY DEF Ordered
    <2>1. order[j] = rest[j - 1] /\ j - 1 \in 1..(n - 1)
        BY <1>5
    <2>2. CASE i = 1
        BY <1>7, <1>10, <2>1, <2>2
    <2>3. CASE i # 1
        <3>1. order[i] = rest[i - 1] /\ i - 1 \in 1..(n - 1) /\ i - 1 < j - 1
            BY <1>5, <2>3
        <3> QED BY <1>10, <2>1, <3>1 DEF Ordered
    <2> QED BY <2>2, <2>3
<1> QED BY <1>4, <1>11, <1>12

(* So the order that the model speaks of is one, and has everything in it.   *)
LEMMA InOrderIs ==
    ASSUME NEW S, IsFiniteSet(S), NEW key \in [S -> Int]
    PROVE  /\ Cardinality(S) \in Nat
           /\ InOrder(S, key) \in [1..Cardinality(S) -> S]
           /\ Ordered(InOrder(S, key), Cardinality(S), key)
           /\ \A x \in S : \E i \in 1..Cardinality(S) : InOrder(S, key)[i] = x
<1>1. PICK n : n = Cardinality(S)
    OBVIOUS
<1>2. n \in Nat
    BY <1>1, FS_CardinalityType
<1>3. PICK f : f = InOrder(S, key)
    OBVIOUS
<1>4. f \in [1..n -> S] /\ Ordered(f, n, key)
    <2>1. \E order \in [1..Cardinality(S) -> S] : Ordered(order, Cardinality(S), key)
        BY OrderExists
    <2>2. InOrder(S, key) = CHOOSE order \in [1..Cardinality(S) -> S] : Ordered(order, Cardinality(S), key)
        BY DEF InOrder, Ordered
    <2> HIDE DEF Ordered
    <2> QED BY <1>1, <1>3, <2>1, <2>2
<1>5. f \in Injection(1..n, S)
    <2>1. \A i, j \in 1..n : i # j => f[i] # f[j]
        <3> TAKE i, j \in 1..n
        <3>1. i # j => i < j \/ j < i
            BY <1>2
        <3> QED BY <1>4, <3>1 DEF Ordered
    <2> QED BY <1>4, <2>1 DEF Injection, IsInjective
<1>6. IsFiniteSet(1..n) /\ Cardinality(1..n) = n
    BY <1>2, FS_Interval
<1>7. f \in Surjection(1..n, S)
    BY <1>1, <1>5, <1>6, FS_Injection
<1> QED BY <1>1, <1>2, <1>3, <1>4, <1>7 DEF Surjection

(* What is picked from a sequence: its elements at these positions, in order.*)
PickedBy(g, m, I, s, picked) ==
    /\ g \in [1..m -> I] /\ picked = [k \in 1..m |-> s[g[k]]]
    /\ \A j, k \in 1..m : j < k => g[j] < g[k]
    /\ \A i \in I : \E k \in 1..m : g[k] = i

(* And that is what Pick does.                                               *)
LEMMA PickIs ==
    ASSUME NEW n \in Nat, NEW I \in SUBSET (1..n), NEW s
    PROVE  \E m \in Nat : \E g : PickedBy(g, m, I, s, Pick(s, I))
<1>1. IsFiniteSet(I)
    <2>1. IsFiniteSet(1..n)
        BY FS_Interval
    <2> QED BY <2>1, FS_Subset
<1>2. PICK key : key = [i \in I |-> i]
    OBVIOUS
<1>3. \A i \in I : key[i] = i /\ i \in Int
    BY <1>2
<1>4. PICK m, g : m = Cardinality(I) /\ g = InOrder(I, key)
    OBVIOUS
<1>5. /\ m \in Nat /\ g \in [1..m -> I] /\ Ordered(g, m, key)
      /\ \A i \in I : \E k \in 1..m : g[k] = i
    <2>1. key \in [I -> Int]
        BY <1>2, <1>3
    <2>2. /\ InOrder(I, key) \in [1..Cardinality(I) -> I] /\ Cardinality(I) \in Nat
          /\ Ordered(InOrder(I, key), Cardinality(I), key)
          /\ \A i \in I : \E k \in 1..Cardinality(I) : InOrder(I, key)[k] = i
        BY <1>1, <2>1, InOrderIs
    <2> QED BY <1>4, <2>2
<1>6. \A j, k \in 1..m : j < k => g[j] < g[k]
    <2> SUFFICES ASSUME NEW j \in 1..m, NEW k \in 1..m, j < k PROVE g[j] < g[k]
        OBVIOUS
    <2>1. g[j] \in I /\ g[k] \in I
        BY <1>5
    <2>2. g[j] # g[k] /\ key[g[j]] <= key[g[k]]
        BY <1>5 DEF Ordered
    <2>3. key[g[j]] = g[j] /\ key[g[k]] = g[k] /\ g[j] \in Int /\ g[k] \in Int
        BY <1>3, <2>1
    <2> QED BY <2>2, <2>3
<1>7. Pick(s, I) = [k \in 1..m |-> s[g[k]]]
    BY <1>2, <1>4 DEF Pick
<1> QED BY <1>5, <1>6, <1>7 DEF PickedBy

(* Induction along a range of numbers, for the sequences that are folded.    *)
Passes(g, m, n, T) == \A i \in m..n : i # m /\ g[i - 1] \in T => g[i] \in T
FoldsTo(f, n, start, step) == f[0] = start /\ \A i \in 1..n : f[i] = step[i][f[i - 1]]

(* What holds at the start of a range and passes on holds at its end.        *)
LEMMA Reaches ==
    ASSUME NEW n \in Nat, NEW m \in 0..n, NEW T, NEW g, g[m] \in T, Passes(g, m, n, T)
    PROVE  g[n] \in T
<1> DEFINE bad == {i \in m..n : g[i] \notin T}
<1> SUFFICES ASSUME g[n] \notin T PROVE FALSE
    OBVIOUS
<1>1. n \in bad /\ bad \subseteq Nat
    OBVIOUS
<1>2. PICK i \in bad : \A j \in bad : i <= j
    <2> HIDE DEF bad
    <2> QED BY <1>1, LeastIn
<1>3. i \in m..n /\ i # m
    OBVIOUS
<1>4. i - 1 \in m..n /\ ~(i <= i - 1)
    BY <1>3
<1>5. i - 1 \notin bad
    BY <1>2, <1>4
<1> QED BY <1>3, <1>4, <1>5 DEF Passes

(* A fold is defined: each step has what it needs of the one before.         *)
LEMMA FoldExists ==
    ASSUME NEW n \in Nat, NEW T, NEW start \in T, NEW step \in [1..n -> [T -> T]]
    PROVE  \E f \in [0..n -> T] : FoldsTo(f, n, start, step)
<1> DEFINE Has(m) == \E f \in [0..m -> T] : f[0] = start /\ \A i \in 1..m : f[i] = step[i][f[i - 1]]
<1>1. Has(0)
    <2>1. [i \in 0..0 |-> start] \in [0..0 -> T]
        OBVIOUS
    <2>2. [i \in 0..0 |-> start][0] = start /\ 1..0 = {}
        OBVIOUS
    <2> QED BY <2>1, <2>2
<1>2. ASSUME NEW m \in 1..n, Has(m - 1) PROVE Has(m)
    <2>1. PICK f \in [0..(m - 1) -> T] : f[0] = start /\ \A i \in 1..(m - 1) : f[i] = step[i][f[i - 1]]
        BY <1>2
    <2> DEFINE g == [i \in 0..m |-> IF i = m THEN step[m][f[m - 1]] ELSE f[i]]
    <2>2. f[m - 1] \in T
        BY <2>1
    <2>3. step[m][f[m - 1]] \in T
        BY <2>2
    <2>4. g \in [0..m -> T]
        BY <2>3
    <2>5. g[0] = start /\ \A i \in 1..m : g[i] = step[i][g[i - 1]]
        <3>1. ASSUME NEW i \in 1..m PROVE g[i] = step[i][g[i - 1]]
            <4>1. i - 1 \in 0..m /\ i - 1 # m /\ g[i - 1] = f[i - 1]
                OBVIOUS
            <4>2. CASE i = m
                BY <4>1, <4>2
            <4>3. CASE i # m
                <5>1. i \in 1..(m - 1) /\ g[i] = f[i]
                    BY <4>3
                <5> QED BY <2>1, <4>1, <5>1
            <4> QED BY <4>2, <4>3
        <3>2. g[0] = f[0]
            OBVIOUS
        <3> HIDE DEF g
        <3> QED BY <2>1, <3>1, <3>2
    <2> QED BY <2>4, <2>5
<1>3. PICK held : held = [m \in 0..n |-> IF Has(m) THEN 1 ELSE 0]
    OBVIOUS
<1> HIDE DEF Has
<1>4. \A m \in 0..n : held[m] \in {1} <=> Has(m)
    BY <1>3
<1>5. 0 \in 0..n /\ held[0] \in {1}
    BY <1>1, <1>4
<1>6. Passes(held, 0, n, {1})
    <2> SUFFICES ASSUME NEW i \in 0..n, i # 0, held[i - 1] \in {1} PROVE held[i] \in {1}
        BY DEF Passes
    <2>1. i - 1 \in 0..n /\ i \in 1..n
        OBVIOUS
    <2> QED BY <1>2, <1>4, <2>1
<1>7. held[n] \in {1}
    BY <1>5, <1>6, Reaches
<1>8. Has(n)
    BY <1>4, <1>7
<1> QED BY <1>8 DEF Has, FoldsTo

(* The total of counts is a count, and nothing without any.                  *)
LEMMA TotalIs ==
    ASSUME NEW numbers \in Seq(Nat)
    PROVE  Total(numbers) \in Nat /\ (Len(numbers) = 0 => Total(numbers) = 0)
<1>0. PICK n : n = Len(numbers)
    OBVIOUS
<1> DEFINE isSum(f) == f = [i \in 0..n |-> IF i = 0 THEN 0 ELSE f[i - 1] + numbers[i]]
<1>1. n \in Nat /\ numbers \in [1..n -> Nat]
    BY <1>0, LenProperties
<1>2. PICK step : step = [i \in 1..n |-> [x \in Nat |-> x + numbers[i]]]
    OBVIOUS
<1>3. step \in [1..n -> [Nat -> Nat]]
    BY <1>1, <1>2
<1>4. PICK f \in [0..n -> Nat] : f[0] = 0 /\ \A i \in 1..n : f[i] = step[i][f[i - 1]]
    <2>1. PICK T : T = Nat
        OBVIOUS
    <2>2. 0 \in T /\ step \in [1..n -> [T -> T]]
        BY <1>3, <2>1
    <2>3. \E f \in [0..n -> T] : FoldsTo(f, n, 0, step)
        BY <1>1, <2>2, FoldExists
    <2> QED BY <2>1, <2>3 DEF FoldsTo
<1>5. isSum(f)
    <2>1. ASSUME NEW i \in 0..n PROVE f[i] = IF i = 0 THEN 0 ELSE f[i - 1] + numbers[i]
        <3>1. CASE i = 0
            BY <1>4, <3>1
        <3>2. CASE i # 0
            <4>1. i \in 1..n /\ i - 1 \in 0..n
                BY <1>1, <3>2
            <4>2. f[i - 1] \in Nat
                BY <4>1
            <4> QED BY <1>2, <1>4, <3>2, <4>1, <4>2
        <3> QED BY <3>1, <3>2
    <2> QED BY <2>1
<1>6. PICK g : isSum(g) /\ Total(numbers) = g[n]
    <2>1. Total(numbers) = (CHOOSE g : isSum(g))[n]
        BY <1>0 DEF Total
    <2> HIDE DEF isSum
    <2> QED BY <1>5, <2>1
<1>7. g[0] = 0
    BY <1>1, <1>6
<1>8. \A i \in 1..n : g[i - 1] \in Nat => g[i] \in Nat
    <2> SUFFICES ASSUME NEW i \in 1..n, g[i - 1] \in Nat PROVE g[i] \in Nat
        OBVIOUS
    <2>1. i \in 0..n /\ i # 0 /\ numbers[i] \in Nat
        BY <1>1
    <2>2. g[i] = g[i - 1] + numbers[i]
        BY <1>6, <2>1
    <2> QED BY <2>1, <2>2
<1> HIDE DEF isSum
<1>9. g[n] \in Nat
    <2>1. PICK T : T = Nat
        OBVIOUS
    <2>2. g[0] \in T /\ 0 \in 0..n /\ Passes(g, 0, n, T)
        BY <1>1, <1>7, <1>8, <2>1 DEF Passes
    <2>3. g[n] \in T
        BY <1>1, <2>2, Reaches
    <2> QED BY <2>1, <2>3
<1> QED BY <1>0, <1>6, <1>7, <1>9

(* What sequences put one behind the other hold, each of them held.          *)
LEMMA FlattenIs ==
    ASSUME NEW T, NEW seqs \in Seq(Seq(T))
    PROVE  FlattenSeq(seqs) \in Seq(T)
<1>0. PICK n : n = Len(seqs)
    OBVIOUS
<1> DEFINE isFlat(f) == f = [i \in 1..n |-> IF i = 1 THEN seqs[i] ELSE f[i - 1] \o seqs[i]]
<1>1. n \in Nat /\ seqs \in [1..n -> Seq(T)]
    BY <1>0, LenProperties
<1>2. CASE n = 0
    <2>1. seqs = <<>>
        BY <1>0, <1>2, EmptySeq
    <2> QED BY <1>2, <1>0, <2>1, EmptySeq DEF FlattenSeq
<1>3. CASE n # 0
    <2>1. PICK step : step = [i \in 1..n |-> [x \in Seq(T) |-> x \o seqs[i]]]
        OBVIOUS
    <2>2. step \in [1..n -> [Seq(T) -> Seq(T)]]
        <3>1. \A i \in 1..n : \A x \in Seq(T) : x \o seqs[i] \in Seq(T)
            BY <1>1, ConcatProperties
        <3> QED BY <2>1, <3>1
    <2>3. PICK f \in [0..n -> Seq(T)] : f[0] = <<>> /\ \A i \in 1..n : f[i] = step[i][f[i - 1]]
        <3>1. <<>> \in Seq(T)
            BY EmptySeq
        <3>2. PICK U, start : U = Seq(T) /\ start = <<>>
            OBVIOUS
        <3>3. start \in U /\ step \in [1..n -> [U -> U]]
            BY <2>2, <3>1, <3>2
        <3>4. \E f \in [0..n -> U] : FoldsTo(f, n, start, step)
            BY <1>1, <3>3, FoldExists
        <3> QED BY <3>2, <3>4 DEF FoldsTo
    <2>4. \A i \in 1..n : i - 1 \in 0..n /\ i \in 0..n /\ f[i] = f[i - 1] \o seqs[i]
        <3> TAKE i \in 1..n
        <3>1. i - 1 \in 0..n /\ i \in 0..n
            BY <1>1
        <3>2. f[i - 1] \in Seq(T)
            BY <3>1
        <3> QED BY <2>1, <2>3, <3>1, <3>2
    <2>5. PICK h : h = [i \in 1..n |-> f[i]]
        OBVIOUS
    <2>6. isFlat(h)
        <3>1. ASSUME NEW i \in 1..n PROVE f[i] = IF i = 1 THEN seqs[i] ELSE h[i - 1] \o seqs[i]
            <4>1. CASE i = 1
                <5>1. f[1] = <<>> \o seqs[1]
                    <6>1. f[1] = f[1 - 1] \o seqs[1]
                        BY <2>4, <4>1
                    <6>2. 1 - 1 = 0
                        OBVIOUS
                    <6> QED BY <2>3, <6>1, <6>2
                <5>2. seqs[1] \in Seq(T)
                    BY <1>1, <4>1
                <5> QED BY <4>1, <5>1, <5>2, ConcatEmptySeq
            <4>2. CASE i # 1
                <5>1. i - 1 \in 1..n
                    BY <1>1, <4>2
                <5> QED BY <2>4, <2>5, <4>2, <5>1
            <4> QED BY <4>1, <4>2
        <3> QED BY <2>5, <3>1
    <2>7. PICK g : isFlat(g) /\ FlattenSeq(seqs) = g[n]
        <3>1. FlattenSeq(seqs) = (CHOOSE g : isFlat(g))[n]
            BY <1>0, <1>3 DEF FlattenSeq
        <3> HIDE DEF isFlat
        <3> QED BY <2>6, <3>1
    <2>8. g[1] \in Seq(T)
        BY <1>1, <1>3, <2>7
    <2>9. Passes(g, 1, n, Seq(T))
        <3> SUFFICES ASSUME NEW i \in 1..n, i # 1, g[i - 1] \in Seq(T) PROVE g[i] \in Seq(T)
            BY DEF Passes
        <3>1. i \in 1..n /\ i # 1 /\ seqs[i] \in Seq(T)
            BY <1>1
        <3>2. g[i] = g[i - 1] \o seqs[i]
            BY <2>7, <3>1
        <3> QED BY <3>1, <3>2, ConcatProperties
    <2> HIDE DEF isFlat
    <2>10. 1 \in 0..n
        BY <1>1, <1>3
    <2>11. g[n] \in Seq(T)
        BY <1>1, <2>8, <2>9, <2>10, Reaches
    <2> QED BY <2>7, <2>11
<1> QED BY <1>2, <1>3

(* The image of a finite set is finite.                                      *)
LEMMA FiniteImage ==
    ASSUME NEW S, IsFiniteSet(S), NEW f
    PROVE  IsFiniteSet({f[x] : x \in S})
<1> DEFINE T == {f[x] : x \in S}
           g == [x \in S |-> f[x]]
<1>1. g \in Surjection(S, T)
    BY DEF Surjection
<1> HIDE DEF T, g
<1>2. IsFiniteSet(T)
    BY <1>1, FS_Surjection
<1> QED BY <1>2 DEF T

-----------------------------------------------------------------------------
(* A baseline report is finite.                                              *)
LEMMA FilesAreFinite ==
    ASSUME NEW c, IsCheckout(c)
    PROVE  /\ IsFiniteSet(RequiredFileFindings(c)) /\ IsFiniteSet(RetiredFindings(c))
           /\ IsFiniteSet(CanonicalFindings(c)) /\ IsFiniteSet(SettingsFindings(c))
           /\ IsFiniteSet(ProfileFindings(c)) /\ IsFiniteSet(WrapperFindings(c))
           /\ IsFiniteSet(McpSyncFindings(c)) /\ IsFiniteSet(DiscoveryFindings(c))
           /\ IsFiniteSet(AwarenessFindings(c))
<1>1. \A a, b : IsFiniteSet({}) /\ IsFiniteSet({a}) /\ IsFiniteSet({a, b})
    <2> TAKE a, b
    <2>1. IsFiniteSet({a}) /\ {a, b} = {a} \cup {b}
        BY FS_Singleton
    <2> QED BY <2>1, FS_AddElement, FS_EmptySet
<1>2. \A S, T : IsFiniteSet(S) /\ IsFiniteSet(T) => IsFiniteSet(S \cup T)
    BY FS_Union
<1>3. \A x, y : IsFiniteSet(x) => IsFiniteSet(When(y, x))
    BY <1>1 DEF When
<1>4. IsFiniteSet(RequiredFiles) /\ IsFiniteSet(RetiredMirrors) /\ IsFiniteSet(SyncWrappers)
    <2>1. RequiredFiles = {"AGENTS.md", "CLAUDE.md"} \cup {".claude/settings.json", ".codex/config.toml"}
        BY DEF RequiredFiles
    <2>2. RetiredMirrors = {"GEMINI.md", ".gemini/settings.json"} \cup {".github/copilot-instructions.md", ".clinerules"}
        BY DEF RetiredMirrors
    <2> QED BY <1>1, <1>2, <2>1, <2>2 DEF SyncWrappers
<1>5. IsFiniteSet(RequiredFileFindings(c))
    <2>1. PICK f : f = [x \in RequiredFiles |-> Finding("required_file", x, Exists(c, x))]
        OBVIOUS
    <2>2. RequiredFileFindings(c) = {f[x] : x \in RequiredFiles}
        BY <2>1 DEF RequiredFileFindings, Findings
    <2> QED BY <1>4, <2>2, FiniteImage
<1>6. IsFiniteSet(RetiredFindings(c))
    <2>1. PICK f : f = [x \in RetiredMirrors |-> Finding("retired_provider_mirror", x, ~Exists(c, x))]
        OBVIOUS
    <2>2. RetiredFindings(c) = {f[x] : x \in RetiredMirrors}
        BY <2>1 DEF RetiredFindings, Findings
    <2> QED BY <1>4, <2>2, FiniteImage
<1>7. \A f, check, fine : IsFiniteSet(IfThere(c, f, check, fine))
    BY <1>1, <1>3 DEF IfThere
<1>8. IsFiniteSet(CanonicalFindings(c)) /\ IsFiniteSet(SettingsFindings(c))
    BY <1>2, <1>7 DEF CanonicalFindings, SettingsFindings
<1>9. IsFiniteSet(ProfileFindings(c))
    BY <1>1, <1>2, <1>3 DEF ProfileFindings
<1>10. IsFiniteSet(WrapperFindings(c))
    <2>1. PICK W : W = {w \in SyncWrappers : Exists(c, w)}
        OBVIOUS
    <2>2. IsFiniteSet(W)
        BY <1>4, <2>1, FS_Subset
    <2>3. PICK f : f = [w \in W |-> Finding("sync_wrapper_portability", w,
              ~Says(c, w, "git toplevel") /\ (Says(c, w, "go run") => Says(c, w, "GOWORK=off")))]
        OBVIOUS
    <2>4. WrapperFindings(c) = {f[w] : w \in W}
        BY <2>1, <2>3 DEF WrapperFindings, Findings
    <2> QED BY <2>2, <2>4, FiniteImage
<1>11. IsFiniteSet(McpSyncFindings(c)) /\ IsFiniteSet(DiscoveryFindings(c)) /\ IsFiniteSet(AwarenessFindings(c))
    BY <1>1, <1>3 DEF McpSyncFindings, DiscoveryFindings, AwarenessFindings
<1> QED BY <1>5, <1>6, <1>8, <1>9, <1>10, <1>11

(* The errors of skillsync, and what it would do, are finitely many.         *)
LEMMA SkillReportIsFinite ==
    ASSUME NEW c, IsCheckout(c), NEW mode
    PROVE  IsFiniteSet(SkillReport(c, mode))
<1>1. \A a : IsFiniteSet({}) /\ IsFiniteSet({a})
    BY FS_Singleton, FS_EmptySet
<1>2. \A S, T : IsFiniteSet(S) /\ IsFiniteSet(T) => IsFiniteSet(S \cup T)
    BY FS_Union
<1>3. \A x, y : IsFiniteSet(x) => IsFiniteSet(When(y, x))
    BY <1>1 DEF When
<1>4. IsFiniteSet(c.listed) /\ IsFiniteSet(c.strays) /\ IsFiniteSet(DOMAIN c.mirrors)
    <2>1. PICK S : c.mirrors \in Seq(S)
        BY DEF IsCheckout
    <2>2. PICK n : n = Len(c.mirrors)
        OBVIOUS
    <2>3. n \in Nat /\ DOMAIN c.mirrors = 1..n
        BY <2>1, <2>2, LenProperties
    <2>4. IsFiniteSet(1..n)
        BY <2>3, FS_Interval
    <2> QED BY <2>3, <2>4 DEF IsCheckout
<1>5. \A I : I \subseteq DOMAIN c.mirrors => IsFiniteSet(I)
    BY <1>4, FS_Subset
<1>6. PICK at : at = [i \in DOMAIN c.mirrors |-> c.mirrors[i].dir]
    OBVIOUS
<1>7. \A I : I \subseteq DOMAIN c.mirrors => IsFiniteSet({c.mirrors[i].dir : i \in I})
    <2> SUFFICES ASSUME NEW I, I \subseteq DOMAIN c.mirrors PROVE IsFiniteSet({c.mirrors[i].dir : i \in I})
        OBVIOUS
    <2>1. PICK image : image = {at[i] : i \in I}
        OBVIOUS
    <2>2. IsFiniteSet(I)
        BY <1>5
    <2>3. IsFiniteSet(image)
        BY <2>1, <2>2, FiniteImage
    <2>4. {c.mirrors[i].dir : i \in I} = image
        <3>1. \A i \in I : at[i] = c.mirrors[i].dir
            BY <1>6
        <3> QED BY <2>1, <3>1
    <2> QED BY <2>3, <2>4
<1>8. IsFiniteSet(SkillErrors(c, mode))
    <2>1. PICK B : B = {c.mirrors[i].dir : i \in Blocked(c)}
        OBVIOUS
    <2>2. PICK T : T = {c.mirrors[i].dir : i \in Taken(c, mode)}
        OBVIOUS
    <2>3. PICK U : U = {s \in c.listed : ~Usable(c, s, mode)}
        OBVIOUS
    <2>4. IsFiniteSet(B)
        BY <1>7, <2>1 DEF Blocked
    <2>5. IsFiniteSet(T)
        BY <1>7, <2>2 DEF Taken, Asked
    <2>6. IsFiniteSet(U)
        BY <1>4, <2>3, FS_Subset
    <2>7. IsFiniteSet(When(NoValidator(mode), {mode}))
        BY <1>1, <1>3
    <2>8. PICK V : V = When(NoValidator(mode), {mode})
        OBVIOUS
    <2>9. SkillErrors(c, mode) \in {{SurfaceFile}, B, V \cup U \cup T}
        BY <2>1, <2>2, <2>3, <2>8, Zenon DEF SkillErrors
    <2>10. IsFiniteSet(V \cup U)
        BY <1>2, <2>6, <2>7, <2>8
    <2>11. IsFiniteSet(V \cup U \cup T)
        BY <1>2, <2>5, <2>10
    <2>12. IsFiniteSet({SurfaceFile})
        BY <1>1
    <2> QED BY <2>4, <2>9, <2>11, <2>12, Zenon
<1>9. PICK error : error = [e \in SkillErrors(c, mode) |-> Action("error", e)]
    OBVIOUS
<1>10. PICK E : E = {error[e] : e \in SkillErrors(c, mode)}
    OBVIOUS
<1>11. PICK done : done = [i \in DOMAIN c.mirrors |-> Action(c.mirrors[i].stands, c.mirrors[i].dir)]
    OBVIOUS
<1>12. PICK M : M = {done[i] : i \in Reached(c, mode)}
    OBVIOUS
<1>13. PICK gone : gone = [dir \in c.strays |-> Action("remove", dir)]
    OBVIOUS
<1>14. PICK R : R = {gone[dir] : dir \in c.strays}
    OBVIOUS
<1>15. Reached(c, mode) \subseteq DOMAIN c.mirrors
    BY DEF Reached, Asked
<1>16. IsFiniteSet(E)
    BY <1>8, <1>10, FiniteImage
<1>17. IsFiniteSet(M)
    <2>1. IsFiniteSet(Reached(c, mode))
        BY <1>5, <1>15
    <2> QED BY <1>12, <2>1, FiniteImage
<1>18. IsFiniteSet(When(SkillErrors(c, mode) = {}, R))
    <2>1. IsFiniteSet(R)
        BY <1>4, <1>14, FiniteImage
    <2> QED BY <1>3, <2>1
<1>19. SkillReport(c, mode) = E \cup M \cup When(SkillErrors(c, mode) = {}, R)
    <2>1. E = {Action("error", e) : e \in SkillErrors(c, mode)}
        BY <1>9, <1>10
    <2>2. M = {Action(c.mirrors[i].stands, c.mirrors[i].dir) : i \in Reached(c, mode)}
        BY <1>11, <1>12, <1>15
    <2>3. R = {Action("remove", dir) : dir \in c.strays}
        BY <1>13, <1>14
    <2> QED BY <2>1, <2>2, <2>3 DEF SkillReport
<1>20. IsFiniteSet(E \cup M)
    BY <1>2, <1>16, <1>17
<1> QED BY <1>2, <1>18, <1>19, <1>20

(* So are those about what is in the files and directories.                  *)
LEMMA ContentsAreFinite ==
    ASSUME NEW c, IsCheckout(c)
    PROVE  /\ IsFiniteSet(AgentFindings(c)) /\ IsFiniteSet(NamingFindings(c))
           /\ IsFiniteSet(SurfaceFindings(c)) /\ IsFiniteSet(SkillSyncFindings(c))
           /\ IsFiniteSet(LauncherFindings(c)) /\ IsFiniteSet(PortabilityFindings(c))
<1>1. \A a : IsFiniteSet({}) /\ IsFiniteSet({a})
    BY FS_Singleton, FS_EmptySet
<1>2. \A S, T : IsFiniteSet(S) /\ IsFiniteSet(T) => IsFiniteSet(S \cup T)
    BY FS_Union
<1>3. \A x, y : IsFiniteSet(x) => IsFiniteSet(When(y, x))
    BY <1>1 DEF When
<1>4. /\ IsFiniteSet(DOMAIN c.files) /\ IsFiniteSet(DOMAIN c.skills)
      /\ IsFiniteSet(c.listed) /\ IsFiniteSet(c.servers) /\ IsFiniteSet(c.roles)
      /\ c.agents \in Seq(ToSet(c.agents))
    BY DEF IsCheckout
<1>5. IsFiniteSet(AgentFindings(c))
    <2>1. PICK D : D = DOMAIN c.agents
        OBVIOUS
    <2>2. IsFiniteSet(D)
        BY <1>4, <2>1, LenProperties, FS_Interval
    <2>3. PICK f : f = [i \in D |-> Finding("agy_agent_layout", c.agents[i][1],
              c.agents[i][2] # "unreadable" /\ \A j \in 1..(i - 1) : c.agents[j][2] # c.agents[i][2])]
        OBVIOUS
    <2>4. AgentFindings(c) = {f[i] : i \in D}
        BY <2>1, <2>3 DEF AgentFindings
    <2> QED BY <2>2, <2>4, FiniteImage
<1>6. IsFiniteSet(NamingFindings(c))
    <2>1. PICK f : f = [role \in c.roles |-> Finding("agent_naming", role.name, ~role.dashed)]
        OBVIOUS
    <2>2. NamingFindings(c) = {f[role] : role \in c.roles}
        BY <2>1 DEF NamingFindings
    <2> QED BY <1>4, <2>2, FiniteImage
<1>7. IsFiniteSet(SurfaceFindings(c))
    <2>1. PICK f : f = [s \in c.listed |-> Finding("skill_file", s, s \in DOMAIN c.skills /\ c.skills[s] # "none")]
        OBVIOUS
    <2>2. PICK F : F = {f[s] : s \in c.listed}
        OBVIOUS
    <2>3. IsFiniteSet(F)
        BY <1>4, <2>2, FiniteImage
    <2>4. SurfaceFindings(c) \in {{Finding("skill_surface", "absent", TRUE)}, {Finding("skill_surface", "version", FALSE)},
                                  {Finding("skill_surface", "version", TRUE)} \cup F}
        BY <2>1, <2>2 DEF SurfaceFindings, Findings
    <2> QED BY <1>1, <1>2, <2>3, <2>4
<1>8. IsFiniteSet(SkillSyncFindings(c))
    <2>1. PICK report : report = SkillReport(c, "auto")
        OBVIOUS
    <2>2. IsFiniteSet(report)
        BY <2>1, SkillReportIsFinite
    <2>3. PICK f : f = [r \in report |-> FindingOn("skill_sync", r.about, r.action, ~Drifted(r.action))]
        OBVIOUS
    <2>4. PICK F : F = {f[r] : r \in report}
        OBVIOUS
    <2>5. IsFiniteSet(F)
        BY <2>2, <2>4, FiniteImage
    <2>6. SkillSyncFindings(c) = When(HasSkillsDir(c), F)
        BY <2>1, <2>3, <2>4 DEF SkillSyncFindings
    <2> QED BY <1>3, <2>5, <2>6
<1>9. IsFiniteSet(LauncherFindings(c))
    <2>1. PICK S : S = {s \in c.servers : ~s.hidden}
        OBVIOUS
    <2>2. IsFiniteSet(S)
        BY <1>4, <2>1, FS_Subset
    <2>3. PICK f : f = [s \in S |-> Finding("mcp_portability", s.name, s.launch \in {"portable", "empty"})]
        OBVIOUS
    <2>4. PICK F : F = {f[s] : s \in S}
        OBVIOUS
    <2>5. IsFiniteSet(F)
        BY <2>2, <2>4, FiniteImage
    <2>6. PICK none, config : none = Finding("mcp_portability", "no servers", TRUE)
                              /\ config = Finding("mcp_portability", "config", FALSE)
        OBVIOUS
    <2>7. PICK first, second : LauncherFindings(c) = When(first, IF c.servers = {} THEN {none} ELSE F)
                                                     \cup When(second, {config})
        BY <2>1, <2>3, <2>4, <2>6 DEF LauncherFindings
    <2> QED BY <1>1, <1>2, <1>3, <2>5, <2>7
<1>10. IsFiniteSet(PortabilityFindings(c))
    <2>1. PICK S : S = {s \in DOMAIN c.skills : c.skills[s] # "none"}
        OBVIOUS
    <2>2. IsFiniteSet(S)
        BY <1>4, <2>1, FS_Subset
    <2>3. PICK f : f = [s \in S |-> Finding("skill_portability", s, c.skills[s] # "unportable")]
        OBVIOUS
    <2>4. PortabilityFindings(c) = {f[s] : s \in S}
        BY <2>1, <2>3 DEF PortabilityFindings, Findings
    <2> QED BY <2>2, <2>4, FiniteImage
<1> QED BY <1>5, <1>6, <1>7, <1>8, <1>9, <1>10

(* So are those against the policy of the workspace.                         *)
LEMMA PolicyIsFinite ==
    ASSUME NEW d, NEW c, NEW p, IsPolicy(p), NEW today
    PROVE  /\ IsFiniteSet(PinFindings(c, p.lifecycle, today))
           /\ IsFiniteSet(SpecFindings(c, NearBy(d, p.target), today))
           /\ IsFiniteSet(DriftFindings(d, c, NearBy(d, p.expectations)))
<1>1. \A a : IsFiniteSet({}) /\ IsFiniteSet({a})
    BY FS_Singleton, FS_EmptySet
<1>2. \A x, y : IsFiniteSet(x) => IsFiniteSet(When(y, x))
    BY <1>1 DEF When
<1>3. IsFiniteSet(PinFindings(c, p.lifecycle, today))
    <2>1. CASE p.lifecycle \in {Absent, Broken}
        BY <1>1, <2>1 DEF PinFindings
    <2>2. CASE p.lifecycle \notin {Absent, Broken}
        <3>1. IsFiniteSet(p.lifecycle)
            BY <2>2 DEF IsPolicy
        <3>2. PICK M : M = Tracked(p.lifecycle)
            OBVIOUS
        <3>3. IsFiniteSet(M)
            <4>1. M \subseteq p.lifecycle
                BY <3>2 DEF Tracked
            <4> QED BY <3>1, <4>1, FS_Subset
        <3>4. PICK of : of = [m \in M |-> {FindingOn("model_pin_freshness", f, m.id, PinAllowed(m, today)) :
                                             f \in {f \in PinFiles : Says(c, f, m.id)}}]
            OBVIOUS
        <3>5. ASSUME NEW m \in M PROVE IsFiniteSet(of[m])
            <4>1. PICK F : F = {f \in PinFiles : Says(c, f, m.id)}
                OBVIOUS
            <4>2. IsFiniteSet(PinFiles)
                <5>1. PICK s : s = <<".codex/config.toml", ".claude/settings.json", ".mcp.json", ".ralphrc",
                                     ".agents/roles", ".codex/agents">>
                    OBVIOUS
                <5>2. PICK n : n = 6
                    OBVIOUS
                <5>3. IsFiniteSet(1..n)
                    <6>1. 1 \in Int /\ n \in Int
                        BY <5>2
                    <6> QED BY <6>1, FS_Interval
                <5>4. PinFiles = {s[i] : i \in 1..n}
                    BY <5>1, <5>2 DEF PinFiles
                <5> QED BY <5>3, <5>4, FiniteImage
            <4>3. IsFiniteSet(F)
                BY <4>1, <4>2, FS_Subset
            <4>4. PICK g : g = [f \in F |-> FindingOn("model_pin_freshness", f, m.id, PinAllowed(m, today))]
                OBVIOUS
            <4>5. of[m] = {g[f] : f \in F}
                BY <3>4, <4>1, <4>4
            <4> QED BY <4>3, <4>5, FiniteImage
        <3>6. PICK U : U = {of[m] : m \in M}
            OBVIOUS
        <3>7. IsFiniteSet(U) /\ \A T \in U : IsFiniteSet(T)
            BY <3>3, <3>5, <3>6, FiniteImage
        <3>8. PinFindings(c, p.lifecycle, today) = UNION U
            <4> DEFINE pins(m) == {FindingOn("model_pin_freshness", f, m.id, PinAllowed(m, today)) :
                                     f \in {f \in PinFiles : Says(c, f, m.id)}}
            <4>1. PinFindings(c, p.lifecycle, today) = UNION {pins(m) : m \in M}
                BY <2>2, <3>2 DEF PinFindings
            <4>2. of = [m \in M |-> pins(m)]
                BY <3>4
            <4> HIDE DEF pins
            <4>3. U = {pins(m) : m \in M}
                BY <3>6, <4>2
            <4> QED BY <4>1, <4>3
        <3> QED BY <3>7, <3>8, FS_UNION
    <2> QED BY <2>1, <2>2
<1>4. IsFiniteSet(SpecFindings(c, NearBy(d, p.target), today))
    BY <1>1, <1>2 DEF SpecFindings
<1>5. IsFiniteSet(DriftFindings(d, c, NearBy(d, p.expectations)))
    <2>1. PICK registry : registry = NearBy(d, p.expectations)
        OBVIOUS
    <2>2. CASE registry \in {Absent, Broken}
        BY <1>1, <2>1, <2>2 DEF DriftFindings
    <2>3. CASE registry \notin {Absent, Broken}
        <3>1. IsFiniteSet(registry) /\ \A e \in registry : IsFiniteSet(e.expected \cup e.forbidden)
            BY <2>1, <2>3 DEF IsPolicy, NearBy
        <3>2. PICK mine : mine = {e \in registry : d \in e.repos}
            OBVIOUS
        <3>3. IsFiniteSet(mine)
            BY <3>1, <3>2, FS_Subset
        <3>4. PICK of : of = [e \in mine |-> ExpectationFindings(c, e)]
            OBVIOUS
        <3>5. ASSUME NEW e \in mine PROVE IsFiniteSet(of[e])
            <4>1. PICK E : E = e.expected \cup e.forbidden
                OBVIOUS
            <4>2. PICK wrong : wrong = {f \in E : (f \in e.expected /\ ~Says(c, e.file, f))
                                                  \/ (f \in e.forbidden /\ Says(c, e.file, f))}
                OBVIOUS
            <4>3. IsFiniteSet(wrong)
                BY <3>1, <3>2, <4>1, <4>2, FS_Subset
            <4>4. PICK g : g = [f \in wrong |-> FindingOn("config_drift", e.id, f, FALSE)]
                OBVIOUS
            <4>5. PICK F : F = {g[f] : f \in wrong}
                OBVIOUS
            <4>6. IsFiniteSet(F)
                BY <4>3, <4>5, FiniteImage
            <4>7. \E one : ExpectationFindings(c, e) \in {{one}, F}
                BY <4>1, <4>2, <4>4, <4>5 DEF ExpectationFindings
            <4> QED BY <1>1, <3>4, <4>6, <4>7
        <3>6. PICK U : U = {of[e] : e \in mine}
            OBVIOUS
        <3>7. IsFiniteSet(U) /\ \A T \in U : IsFiniteSet(T)
            BY <3>3, <3>5, <3>6, FiniteImage
        <3>8. IsFiniteSet(UNION U)
            BY <3>7, FS_UNION
        <3>9. PICK unclear : unclear = {e \in registry : d \in e.unclear}
            OBVIOUS
        <3>10. PICK g : g = [e \in unclear |-> FindingOn("config_drift", e.id, "pattern", FALSE)]
            OBVIOUS
        <3>11. PICK F : F = {g[e] : e \in unclear}
            OBVIOUS
        <3>12. IsFiniteSet(F)
            <4>1. IsFiniteSet(unclear)
                BY <3>1, <3>9, FS_Subset
            <4> QED BY <3>11, <4>1, FiniteImage
        <3>13. F = {FindingOn("config_drift", e.id, "pattern", FALSE) : e \in {e \in registry : d \in e.unclear}}
            BY <3>9, <3>10, <3>11
        <3>14. \E rest : DriftFindings(d, c, registry) = F \cup rest /\ rest \in {{Finding("config_drift", "none", TRUE)}, UNION U}
            <4>1. U = {ExpectationFindings(c, e) : e \in mine}
                BY <3>4, <3>6
            <4>2. DriftFindings(d, c, registry) =
                      {FindingOn("config_drift", e.id, "pattern", FALSE) : e \in {e \in registry : d \in e.unclear}}
                      \cup IF mine = {} THEN {Finding("config_drift", "none", TRUE)}
                           ELSE UNION {ExpectationFindings(c, e) : e \in mine}
                BY <2>3, <3>2, Zenon DEF DriftFindings
            <4> QED BY <3>13, <4>1, <4>2, Zenon
        <3>15. \A rest \in {{Finding("config_drift", "none", TRUE)}, UNION U} : IsFiniteSet(rest)
            BY <1>1, <3>8
        <3>16. PICK rest : /\ DriftFindings(d, c, registry) = F \cup rest
                           /\ rest \in {{Finding("config_drift", "none", TRUE)}, UNION U}
            BY <3>14, Zenon
        <3>17. IsFiniteSet(rest)
            BY <3>15, <3>16, Zenon
        <3>18. IsFiniteSet(F \cup rest)
            BY <3>12, <3>17, FS_Union
        <3>19. IsFiniteSet(DriftFindings(d, c, registry))
            BY <3>16, <3>18, Zenon
        <3> QED BY <2>1, <3>19
    <2> QED BY <2>2, <2>3
<1> QED BY <1>3, <1>4, <1>5

(* So a report has a number of failures.                                     *)
LEMMA ReportIsFinite ==
    ASSUME NEW d, NEW c, IsCheckout(c), NEW p, IsPolicy(p), NEW today
    PROVE  Cardinality(Failed(BaselineReport(d, c, p, today))) \in Nat
<1>1. \A S, T : IsFiniteSet(S) /\ IsFiniteSet(T) => IsFiniteSet(S \cup T)
    BY FS_Union
<1>2. PICK A : A = RequiredFileFindings(c) \cup RetiredFindings(c) \cup CanonicalFindings(c)
                   \cup SettingsFindings(c) \cup ProfileFindings(c) \cup WrapperFindings(c)
                   \cup McpSyncFindings(c) \cup DiscoveryFindings(c) \cup AwarenessFindings(c)
    OBVIOUS
<1>3. IsFiniteSet(A)
    BY <1>1, <1>2, FilesAreFinite
<1>4. PICK B : B = AgentFindings(c) \cup NamingFindings(c) \cup SurfaceFindings(c)
                   \cup SkillSyncFindings(c) \cup LauncherFindings(c) \cup PortabilityFindings(c)
    OBVIOUS
<1>5. IsFiniteSet(B)
    BY <1>1, <1>4, ContentsAreFinite
<1>6. PICK C : C = PinFindings(c, p.lifecycle, today) \cup SpecFindings(c, NearBy(d, p.target), today)
                   \cup DriftFindings(d, c, NearBy(d, p.expectations))
    OBVIOUS
<1>7. IsFiniteSet(C)
    BY <1>1, <1>6, PolicyIsFinite
<1>8. BaselineReport(d, c, p, today) = A \cup B \cup C
    BY <1>2, <1>4, <1>6 DEF BaselineReport
<1>9. IsFiniteSet(A \cup B \cup C)
    BY <1>1, <1>3, <1>5, <1>7
<1>10. Failed(BaselineReport(d, c, p, today)) \subseteq A \cup B \cup C
    BY <1>8 DEF Failed
<1>11. IsFiniteSet(Failed(BaselineReport(d, c, p, today)))
    BY <1>9, <1>10, FS_Subset
<1> QED BY <1>11, FS_CardinalityType

(* What of a manifest that was generated the rest depends on.               *)
IsManifest(m) ==
    /\ m \in Seq(ToSet(m))
    /\ \A j \in DOMAIN m : m[j].at = m[j].name /\ m[j].name \in Dirs \ Linked
    /\ \A i, j \in DOMAIN m : m[i].name = m[j].name => m[i] = m[j]

(* What an audit counts in a checkout is finite.                            *)
LEMMA ShellIsFinite ==
    ASSUME NEW c, IsCheckout(c), NEW roles
    PROVE  /\ IsFiniteSet(ShellFiles(c, roles)) /\ Cardinality(ShellFiles(c, roles)) \in Nat
           /\ ShellLines(c, roles) \in Nat
           /\ ShellFiles(c, roles) = {} => ShellLines(c, roles) = 0
<1>1. PICK F : F = ShellFiles(c, roles)
    OBVIOUS
<1>2. F \subseteq DOMAIN c.shell
    BY <1>1 DEF ShellFiles
<1>3. IsFiniteSet(F) /\ Cardinality(F) \in Nat
    BY <1>2, FS_Subset, FS_CardinalityType DEF IsCheckout
<1>4. PICK key : key = [f \in DOMAIN c.shell |-> 0]
    OBVIOUS
<1>5. PICK order \in [1..Cardinality(F) -> F] : order = InOrder(F, key)
    <2>1. PICK restricted : restricted = [f \in F |-> 0]
        OBVIOUS
    <2>2. restricted \in [F -> Int]
        BY <2>1
    <2>3. InOrder(F, restricted) \in [1..Cardinality(F) -> F]
        BY <1>3, <2>2, InOrderIs
    <2>4. InOrder(F, key) = InOrder(F, restricted)
        <3>1. PICK N : N = Cardinality(F)
            OBVIOUS
        <3>2. \A f \in F : key[f] = restricted[f]
            BY <1>2, <1>4, <2>1
        <3>3. \A f \in [1..N -> F] : \A i, j \in 1..N : key[f[i]] = restricted[f[i]] /\ key[f[j]] = restricted[f[j]]
            <4> TAKE f \in [1..N -> F]
            <4> TAKE i, j \in 1..N
            <4>1. f[i] \in F /\ f[j] \in F
                OBVIOUS
            <4> QED BY <3>2, <4>1
        <3> QED BY <3>1, <3>3 DEF InOrder
    <2> QED BY <2>3, <2>4
<1>6. PICK numbers : numbers = [i \in 1..Cardinality(F) |-> c.shell[order[i]].lines]
    OBVIOUS
<1>7. ShellLines(c, roles) = Total(numbers)
    BY <1>1, <1>4, <1>5, <1>6 DEF ShellLines
<1>8. numbers \in Seq(Nat) /\ Len(numbers) = Cardinality(F)
    <2>1. \A i \in 1..Cardinality(F) : c.shell[order[i]].lines \in Nat
        BY <1>2, <1>5 DEF IsCheckout
    <2>2. numbers \in [1..Cardinality(F) -> Nat]
        BY <1>6, <2>1
    <2>3. PICK n : n = Cardinality(F)
        OBVIOUS
    <2>4. numbers \in [1..n -> Nat] /\ n \in Nat
        BY <1>3, <2>2, <2>3
    <2>5. numbers \in Seq(Nat)
        BY <2>4, SeqDef
    <2> QED BY <2>3, <2>4, <2>5, LenProperties
<1>9. F = {} => Cardinality(F) = 0
    BY FS_EmptySet
<1> QED BY <1>1, <1>3, <1>7, <1>8, <1>9, TotalIs

(* The score of a repository is a number.                                    *)
LEMMA PriorityIs ==
    ASSUME NEW c, IsCheckout(c), NEW failed \in Nat
    PROVE  PriorityOf(c, failed) \in Int
<1>1. /\ Cardinality(ShellFiles(c, {"stateful_workflow"})) \in Nat
      /\ Cardinality(ShellFiles(c, {"structured_parser"})) \in Nat
      /\ MigratableLines(c) \in Nat
    BY ShellIsFinite DEF MigratableLines
<1>2. Cardinality(HookFiles(c)) \in Nat
    <2>1. HookFiles(c) \subseteq DOMAIN c.hooks /\ IsFiniteSet(DOMAIN c.hooks)
        BY DEF HookFiles, IsCheckout
    <2> QED BY <2>1, FS_Subset, FS_CardinalityType
<1>3. Cardinality(SkillDirsWithoutEntry(c)) \in Nat
    <2>1. SkillDirsWithoutEntry(c) \subseteq DOMAIN c.skills /\ IsFiniteSet(DOMAIN c.skills)
        BY DEF SkillDirsWithoutEntry, IsCheckout
    <2> QED BY <2>1, FS_Subset, FS_CardinalityType
<1>4. MigratableLines(c) \div 20 \in Int
    BY <1>1
<1> QED BY <1>1, <1>2, <1>3, <1>4 DEF PriorityOf

(* A repository of the audit is the one that was selected, with numbers.     *)
LEMMA AuditRepoIs ==
    ASSUME NEW t, AreCheckouts(t), NEW r, Present(t, r.at), NEW p, IsPolicy(p), NEW today
    PROVE  LET a == AuditRepo(r, t, p, today) IN
           /\ a.name = r.name /\ a.at = r.at
           /\ a.failed \in Nat /\ a.score \in Int
           /\ ~r.baseline => a.failed = 0
<1>1. PICK c : c = t[r.at]
    OBVIOUS
<1>2. IsCheckout(c)
    BY <1>1 DEF Present, AreCheckouts
<1>3. PICK failed : failed = IF r.baseline THEN Cardinality(Failed(BaselineReport(r.at, c, p, today))) ELSE 0
    OBVIOUS
<1>4. failed \in Nat /\ (~r.baseline => failed = 0)
    BY <1>2, <1>3, ReportIsFinite
<1>5. PriorityOf(c, failed) \in Int
    BY <1>2, <1>4, PriorityIs
<1>6. AuditRepo(r, t, p, today) = [name |-> r.name, at |-> r.at, failed |-> failed,
          findings |-> RepoFindings(c, failed, today), score |-> PriorityOf(c, failed)]
    BY <1>1, <1>3 DEF AuditRepo
<1> QED BY <1>4, <1>5, <1>6

(* What is selected is there, and is there to be audited.                    *)
LEMMA SelectedIs ==
    ASSUME NEW m, m # Absent => IsManifest(m), NEW t, AreCheckouts(t), NEW all
    PROVE  /\ IsFiniteSet(Selected(m, t, all))
           /\ \A r \in Selected(m, t, all) :
                 /\ Present(t, r.at) /\ r.name = r.at /\ r.name \in Dirs \ Linked
<1>1. CASE m = Absent
    <2>1. PICK f, L : L = Live(t) /\ f = [d \in L |-> [name |-> d, at |-> d, baseline |-> FALSE]]
        OBVIOUS
    <2>2. L \subseteq Dirs \ Linked /\ \A d \in L : Present(t, d)
        BY <2>1 DEF Live
    <2>3. IsFiniteSet(L)
        BY <2>2, DirsAssumption, FS_Subset
    <2>4. Selected(m, t, all) = {f[d] : d \in L}
        BY <1>1, <2>1 DEF Selected
    <2>5. IsFiniteSet({f[d] : d \in L})
        BY <2>3, FiniteImage
    <2>6. \A d \in L : f[d].name = d /\ f[d].at = d
        BY <2>1
    <2> QED BY <2>2, <2>4, <2>5, <2>6
<1>2. CASE m # Absent
    <2>1. PICK J : J = {j \in DOMAIN m : InScope(m[j], all) /\ Present(t, m[j].at)}
        OBVIOUS
    <2>2. PICK f : f = [j \in J |-> [name |-> m[j].name, at |-> m[j].at, baseline |-> m[j].baseline]]
        OBVIOUS
    <2>3. IsFiniteSet(J)
        <3>1. IsFiniteSet(DOMAIN m)
            BY <1>2, LenProperties, FS_Interval DEF IsManifest
        <3> QED BY <2>1, <3>1, FS_Subset
    <2>4. Selected(m, t, all) = {f[j] : j \in J}
        BY <1>2, <2>1, <2>2 DEF Selected
    <2>5. IsFiniteSet({f[j] : j \in J})
        BY <2>3, FiniteImage
    <2>6. \A j \in J : /\ f[j].name = m[j].name /\ f[j].at = m[j].at /\ Present(t, m[j].at)
                       /\ m[j].at = m[j].name /\ m[j].name \in Dirs \ Linked
        BY <1>2, <2>1, <2>2 DEF IsManifest
    <2> QED BY <2>4, <2>5, <2>6
<1> QED BY <1>1, <1>2

IsAudit(audit, n, selected, t, p, today) ==
    /\ DOMAIN audit = 1..n /\ Len(audit) = n /\ audit \in Seq(ToSet(audit))
    /\ \A i \in 1..n : \E r \in selected : audit[i] = AuditRepo(r, t, p, today)
    /\ \A r \in selected : \E i \in 1..n : audit[i] = AuditRepo(r, t, p, today)
    /\ \A i, j \in 1..n : i < j => audit[i].score >= audit[j].score
    /\ \A i \in 1..n : audit[i].score \in Int /\ audit[i].failed \in Nat

(* The audit has every selected repository in it, the highest score first.   *)
LEMMA AuditIs ==
    ASSUME NEW m, m # Absent => IsManifest(m), NEW t, AreCheckouts(t), NEW all, NEW p, IsPolicy(p), NEW today
    PROVE  \E n \in Nat : IsAudit(Audit(m, t, all, p, today), n, Selected(m, t, all), t, p, today)
<1>1. PICK S, f : S = Selected(m, t, all) /\ f = [r \in S |-> AuditRepo(r, t, p, today)]
    OBVIOUS
<1>2. IsFiniteSet(S) /\ \A r \in S : Present(t, r.at)
    BY <1>1, SelectedIs
<1>3. PICK A : A = {f[r] : r \in S}
    OBVIOUS
<1>4. IsFiniteSet(A)
    BY <1>2, <1>3, FiniteImage
<1>5. \A a \in A : a.score \in Int /\ a.failed \in Nat
    BY <1>1, <1>2, <1>3, AuditRepoIs
<1>6. PICK key : key = [a \in A |-> -a.score]
    OBVIOUS
<1>7. key \in [A -> Int]
    BY <1>5, <1>6
<1>8. PICK n, audit : n = Cardinality(A) /\ audit = InOrder(A, key)
    OBVIOUS
<1>9. Audit(m, t, all, p, today) = audit
    <2>1. A = {AuditRepo(r, t, p, today) : r \in Selected(m, t, all)}
        BY <1>1, <1>3
    <2> QED BY <1>6, <1>8, <2>1 DEF Audit
<1>10. n \in Nat /\ audit \in [1..n -> A] /\ Ordered(audit, n, key) /\ \A a \in A : \E i \in 1..n : audit[i] = a
    BY <1>4, <1>7, <1>8, InOrderIs
<1>11. audit \in Seq(A) /\ Len(audit) = n /\ DOMAIN audit = 1..n /\ audit \in Seq(ToSet(audit))
    <2>1. audit \in Seq(A)
        BY <1>10, SeqDef
    <2>2. DOMAIN audit = 1..n /\ Len(audit) = n
        BY <1>10, <2>1, LenProperties
    <2>3. \A i \in 1..n : audit[i] \in ToSet(audit)
        BY <2>2 DEF ToSet
    <2>4. audit \in [1..n -> ToSet(audit)]
        BY <1>10, <2>3
    <2> QED BY <1>10, <2>1, <2>2, <2>4, SeqDef
<1>12. \A i, j \in 1..n : i < j => audit[i].score >= audit[j].score
    <2> SUFFICES ASSUME NEW i \in 1..n, NEW j \in 1..n, i < j PROVE audit[i].score >= audit[j].score
        OBVIOUS
    <2>1. audit[i] \in A /\ audit[j] \in A
        BY <1>10
    <2>2. key[audit[i]] <= key[audit[j]]
        BY <1>10 DEF Ordered
    <2>3. key[audit[i]] = -audit[i].score /\ key[audit[j]] = -audit[j].score
        BY <1>6, <2>1
    <2>4. audit[i].score \in Int /\ audit[j].score \in Int
        BY <1>5, <2>1
    <2> QED BY <2>2, <2>3, <2>4
<1>13. \A i \in 1..n : \E r \in S : audit[i] = AuditRepo(r, t, p, today)
    BY <1>1, <1>3, <1>10
<1>14. \A r \in S : \E i \in 1..n : audit[i] = AuditRepo(r, t, p, today)
    <2> SUFFICES ASSUME NEW r \in S PROVE \E i \in 1..n : audit[i] = AuditRepo(r, t, p, today)
        OBVIOUS
    <2>1. AuditRepo(r, t, p, today) \in A
        BY <1>1, <1>3
    <2> QED BY <1>10, <2>1
<1>15. \A i \in 1..n : audit[i].score \in Int /\ audit[i].failed \in Nat
    BY <1>5, <1>10
<1>16. IsAudit(audit, n, S, t, p, today)
    BY <1>11, <1>12, <1>13, <1>14, <1>15 DEF IsAudit
<1> QED BY <1>1, <1>9, <1>10, <1>16

KeptIn(in, t, d) == d \in Live(t) /\ DecisionOn(in, d).state # "removed_from_active_baseline"
Twice(names, d) == \E j, k \in DOMAIN names : j < k /\ names[j] = d /\ names[k] = d
Directories(catalog) == [i \in DOMAIN catalog |-> DirectoryOf(catalog[i])]

(* What is picked from a sequence by what is in it: it is there as often.    *)
Chosen(names, m, T, n, s) ==
    /\ names \in [1..m -> T]
    /\ \A d : (\E k \in 1..m : names[k] = d) <=> d \in T /\ \E i \in 1..n : s[i] = d
    /\ \A d \in T : Twice(names, d) <=> Twice(s, d)

(* What is picked from a sequence because of what it is keeps its repeats.   *)
LEMMA PickedTwice ==
    ASSUME NEW n \in Nat, NEW s, DOMAIN s = 1..n, NEW T, NEW I, I = {i \in 1..n : s[i] \in T}
    PROVE  \E m \in Nat : Chosen(Pick(s, I), m, T, n, s)
<1>0. I \in SUBSET (1..n)
    OBVIOUS
<1>1. PICK m \in Nat : \E g : PickedBy(g, m, I, s, Pick(s, I))
    BY <1>0, PickIs
<1>20. PICK g : PickedBy(g, m, I, s, Pick(s, I))
    BY <1>1
<1>21. /\ g \in [1..m -> I] /\ Pick(s, I) = [k \in 1..m |-> s[g[k]]]
       /\ \A j, k \in 1..m : j < k => g[j] < g[k]
       /\ \A i \in I : \E k \in 1..m : g[k] = i
    BY <1>20 DEF PickedBy
<1>2. PICK names : names = [k \in 1..m |-> s[g[k]]]
    OBVIOUS
<1>3. \A k \in 1..m : g[k] \in 1..n /\ names[k] = s[g[k]] /\ names[k] \in T
    BY <1>21, <1>2
<1>4. names \in [1..m -> T] /\ DOMAIN names = 1..m
    BY <1>2, <1>3
<1>5. \A d : (\E k \in 1..m : names[k] = d) <=> d \in T /\ \E i \in 1..n : s[i] = d
    <2> TAKE d
    <2>1. ASSUME NEW k \in 1..m, names[k] = d PROVE d \in T /\ \E i \in 1..n : s[i] = d
        BY <1>3, <2>1
    <2>2. ASSUME NEW i \in 1..n, s[i] = d, d \in T PROVE \E k \in 1..m : names[k] = d
        <3>1. i \in I
            BY <2>2
        <3> QED BY <1>21, <1>2, <2>2, <3>1
    <2> QED BY <2>1, <2>2
<1>6. \A d \in T : Twice(names, d) <=> Twice(s, d)
    <2> TAKE d \in T
    <2>1. ASSUME NEW j \in 1..m, NEW k \in 1..m, j < k, names[j] = d, names[k] = d PROVE Twice(s, d)
        <3>1. g[j] < g[k] /\ g[j] \in DOMAIN s /\ g[k] \in DOMAIN s /\ s[g[j]] = d /\ s[g[k]] = d
            BY <1>21, <1>3, <2>1
        <3> QED BY <3>1 DEF Twice
    <2>2. ASSUME NEW x \in 1..n, NEW y \in 1..n, x < y, s[x] = d, s[y] = d PROVE Twice(names, d)
        <3>1. PICK j \in 1..m : g[j] = x
            BY <1>21, <2>2
        <3>2. PICK k \in 1..m : g[k] = y
            BY <1>21, <2>2
        <3>3. ~(k < j) /\ k # j
            <4>1. k < j => y < x
                BY <1>21, <3>1, <3>2
            <4> QED BY <2>2, <3>1, <3>2, <4>1
        <3>4. j < k
            BY <3>3
        <3>5. names[j] = d /\ names[k] = d /\ j \in DOMAIN names /\ k \in DOMAIN names
            BY <1>3, <1>4, <2>2, <3>1, <3>2
        <3> QED BY <3>4, <3>5 DEF Twice
    <2> QED BY <1>4, <2>1, <2>2 DEF Twice
<1>7. Chosen(names, m, T, n, s)
    BY <1>4, <1>5, <1>6 DEF Chosen
<1>8. names = Pick(s, I)
    BY <1>2, <1>21
<1> QED BY <1>7, <1>8

(* What is generated lists what is live and not removed, the catalog's as    *)
(* often as it lists them.                                                 *)
Lists(names, m, in, t, manifested) ==
    /\ names \in [1..m -> {d \in Live(t) : KeptIn(in, t, d)}]
    /\ manifested = [k \in 1..m |-> GeneratedRepo(in, t[names[k]], names[k])]
    /\ \A d : (\E k \in 1..m : names[k] = d) <=> KeptIn(in, t, d)
    /\ \A d : KeptIn(in, t, d) => (Twice(names, d) <=> Twice(Directories(in.catalog), d))

(* That is what the generator makes of inputs that it can read.              *)
LEMMA GeneratedIs ==
    ASSUME NEW in, AreInputs(in), CanGenerate(in), NEW t
    PROVE  \E m \in Nat : \E names : Lists(names, m, in, t, GenerateManifest(in, t))
<1>1. PICK listed, L : listed = Directories(in.catalog) /\ L = Len(in.catalog)
    OBVIOUS
<1>2. PICK others, K : others = Live(t) \ ToSet(listed) /\ K = Cardinality(others)
    OBVIOUS
<1>3. L \in Nat /\ DOMAIN listed = 1..L /\ listed \in Seq(ToSet(listed)) /\ Len(listed) = L
    <2>1. in.catalog \in Seq(ToSet(in.catalog))
        BY DEF AreInputs, CanGenerate
    <2>2. L \in Nat /\ DOMAIN in.catalog = 1..L
        BY <1>1, <2>1, LenProperties
    <2>3. DOMAIN listed = 1..L /\ listed = [i \in 1..L |-> listed[i]]
        BY <1>1, <2>2 DEF Directories
    <2>4. \A i \in 1..L : listed[i] \in ToSet(listed)
        BY <2>3 DEF ToSet
    <2>5. listed \in [1..L -> ToSet(listed)]
        BY <2>3, <2>4
    <2>6. listed \in Seq(ToSet(listed))
        BY <2>2, <2>5, SeqDef
    <2> QED BY <2>2, <2>3, <2>6, LenProperties
<1>4. IsFiniteSet(others)
    <2>1. others \subseteq Dirs
        BY <1>2 DEF Live
    <2> QED BY <2>1, DirsAssumption, FS_Subset
<1>5. PICK key, rest : key = [d \in others |-> 0] /\ rest = InOrder(others, key)
    OBVIOUS
<1>6. /\ K \in Nat /\ rest \in [1..K -> others]
      /\ \A i, j \in 1..K : i < j => rest[i] # rest[j]
      /\ \A x \in others : \E i \in 1..K : rest[i] = x
    <2>1. key \in [others -> Int]
        BY <1>5
    <2>2. /\ Cardinality(others) \in Nat /\ InOrder(others, key) \in [1..Cardinality(others) -> others]
          /\ Ordered(InOrder(others, key), Cardinality(others), key)
          /\ \A x \in others : \E i \in 1..Cardinality(others) : InOrder(others, key)[i] = x
        BY <1>4, <2>1, InOrderIs
    <2>3. /\ K \in Nat /\ rest \in [1..K -> others] /\ Ordered(rest, K, key)
          /\ \A x \in others : \E i \in 1..K : rest[i] = x
        BY <1>2, <1>5, <2>2
    <2> QED BY <2>3 DEF Ordered
<1>7. PICK T, s : T = ToSet(listed) \cup others /\ s = listed \o rest
    OBVIOUS
<1>8. /\ DOMAIN s = 1..(L + K) /\ L + K \in Nat
      /\ \A i \in 1..L : s[i] = listed[i]
      /\ \A k \in 1..K : s[L + k] = rest[k]
    <2>1. rest \in Seq(T) /\ listed \in Seq(T)
        <3>1. rest \in [1..K -> T] /\ listed \in [1..L -> T]
            BY <1>3, <1>6, <1>7, LenProperties
        <3> QED BY <1>3, <1>6, <3>1, SeqDef
    <2>2. Len(rest) = K
        BY <1>6, <2>1, LenProperties
    <2>3. s \in Seq(T) /\ Len(s) = L + K
        BY <1>3, <1>7, <2>1, <2>2, ConcatProperties
    <2>4. DOMAIN s = 1..(L + K)
        BY <2>3, LenProperties
    <2>5. \A i \in 1..(L + K) : s[i] = IF i <= L THEN listed[i] ELSE rest[i - L]
        BY <1>3, <1>7, <2>1, <2>2, ConcatProperties
    <2>6. \A k \in 1..K : L + k \in 1..(L + K) /\ ~(L + k <= L) /\ (L + k) - L = k
        BY <1>3, <1>6
    <2>7. \A i \in 1..L : i \in 1..(L + K) /\ i <= L
        BY <1>3, <1>6
    <2> QED BY <1>3, <1>6, <2>4, <2>5, <2>6, <2>7
<1>9. \A i \in 1..(L + K) : i \in 1..L \/ \E k \in 1..K : i = L + k
    <2> TAKE i \in 1..(L + K)
    <2>1. i > L => i - L \in 1..K /\ i = L + (i - L)
        BY <1>3, <1>6
    <2>2. ~(i > L) => i \in 1..L
        BY <1>3, <1>6
    <2> QED BY <2>1, <2>2
<1>10. \A d \in Live(t) : \E i \in 1..(L + K) : s[i] = d
    <2> TAKE d \in Live(t)
    <2>1. CASE d \in ToSet(listed)
        <3>1. PICK i \in 1..L : listed[i] = d
            BY <1>3, <2>1 DEF ToSet
        <3> QED BY <1>3, <1>6, <1>8, <3>1
    <2>2. CASE d \notin ToSet(listed)
        <3>1. PICK k \in 1..K : rest[k] = d
            BY <1>2, <1>6, <2>2
        <3>2. L + k \in 1..(L + K)
            BY <1>3, <1>6
        <3> QED BY <1>8, <3>1, <3>2
    <2> QED BY <2>1, <2>2
<1>11. \A d : Twice(s, d) <=> Twice(listed, d)
    <2> TAKE d
    <2>1. ASSUME NEW i \in 1..L, NEW j \in 1..L, i < j, listed[i] = d, listed[j] = d PROVE Twice(s, d)
        <3>1. i \in DOMAIN s /\ j \in DOMAIN s
            BY <1>3, <1>6, <1>8
        <3> QED BY <1>8, <2>1, <3>1 DEF Twice
    <2>2. ASSUME NEW i \in 1..(L + K), NEW j \in 1..(L + K), i < j, s[i] = d, s[j] = d PROVE Twice(listed, d)
        <3>1. CASE j \in 1..L
            <4>1. i \in 1..L
                BY <1>3, <2>2, <3>1
            <4> QED BY <1>3, <1>8, <2>2, <3>1, <4>1 DEF Twice
        <3>2. CASE j \notin 1..L
            <4>1. PICK k \in 1..K : j = L + k
                BY <1>9, <3>2
            <4>2. s[j] = rest[k] /\ rest[k] \in others
                BY <1>6, <1>8, <4>1
            <4>3. CASE i \in 1..L
                <5>1. listed[i] = d /\ d \in ToSet(listed)
                    BY <1>3, <1>8, <2>2, <4>3 DEF ToSet
                <5> QED BY <1>2, <2>2, <4>2, <5>1
            <4>4. CASE i \notin 1..L
                <5>1. PICK l \in 1..K : i = L + l
                    BY <1>9, <4>4
                <5>2. l < k
                    BY <1>3, <2>2, <4>1, <5>1
                <5>3. s[i] = rest[l]
                    BY <1>8, <5>1
                <5> QED BY <1>6, <2>2, <4>2, <5>2, <5>3
            <4> QED BY <4>3, <4>4
        <3> QED BY <3>1, <3>2
    <2> QED BY <1>3, <1>8, <2>1, <2>2 DEF Twice
<1>12. PICK Staying, I : Staying = {d \in Live(t) : KeptIn(in, t, d)} /\ I = {i \in 1..(L + K) : s[i] \in Staying}
    OBVIOUS
<1>13. PICK m \in Nat : Chosen(Pick(s, I), m, Staying, L + K, s)
    <2>1. PICK n \in Nat : n = L + K
        BY <1>8
    <2> QED BY <1>8, <1>12, <2>1, PickedTwice
<1>17. PICK names : names = Pick(s, I)
    OBVIOUS
<1>18. /\ names \in [1..m -> Staying]
       /\ \A d : (\E k \in 1..m : names[k] = d) <=> d \in Staying /\ \E i \in 1..(L + K) : s[i] = d
       /\ \A d \in Staying : Twice(names, d) <=> Twice(s, d)
    BY <1>13, <1>17 DEF Chosen
<1>14. GenerateManifest(in, t) = [k \in 1..m |-> GeneratedRepo(in, t[names[k]], names[k])]
    <2>1. I = {i \in DOMAIN s : s[i] \in Live(t) /\ DecisionOn(in, s[i]).state # "removed_from_active_baseline"}
        BY <1>8, <1>12 DEF KeptIn
    <2>2. s = listed \o InOrder(Live(t) \ ToSet(listed), [d \in Live(t) \ ToSet(listed) |-> 0])
        BY <1>2, <1>5, <1>7
    <2>3. listed = [i \in DOMAIN in.catalog |-> DirectoryOf(in.catalog[i])]
        BY <1>1 DEF Directories
    <2>4. DOMAIN names = 1..m /\ names = Pick(s, I)
        BY <1>17, <1>18
    <2> QED BY <2>1, <2>2, <2>3, <2>4 DEF GenerateManifest
<1>15. \A d : (\E k \in 1..m : names[k] = d) <=> KeptIn(in, t, d)
    BY <1>10, <1>12, <1>18 DEF KeptIn
<1>16. \A d : KeptIn(in, t, d) => (Twice(names, d) <=> Twice(Directories(in.catalog), d))
    BY <1>1, <1>11, <1>12, <1>18 DEF KeptIn
<1> QED BY <1>12, <1>13, <1>14, <1>15, <1>16, <1>18 DEF Lists

(* And so what is generated is a manifest.                                   *)
LEMMA GeneratedIsManifest ==
    ASSUME NEW in, AreInputs(in), CanGenerate(in), NEW t
    PROVE  IsManifest(GenerateManifest(in, t))
<1>7. PICK m \in Nat : \E names : Lists(names, m, in, t, GenerateManifest(in, t))
    BY GeneratedIs
<1>8. PICK names : Lists(names, m, in, t, GenerateManifest(in, t))
    BY <1>7
<1>1. /\ names \in [1..m -> {d \in Live(t) : KeptIn(in, t, d)}]
      /\ GenerateManifest(in, t) = [k \in 1..m |-> GeneratedRepo(in, t[names[k]], names[k])]
    BY <1>8 DEF Lists
<1>2. PICK M : M = GenerateManifest(in, t)
    OBVIOUS
<1>3. DOMAIN M = 1..m /\ \A k \in 1..m : M[k] = GeneratedRepo(in, t[names[k]], names[k])
    BY <1>1, <1>2
<1>4. \A k \in 1..m : M[k].name = names[k] /\ M[k].at = names[k] /\ names[k] \in Dirs \ Linked
    <2> TAKE k \in 1..m
    <2>1. names[k] \in Live(t)
        BY <1>1
    <2> QED BY <1>3, <2>1 DEF GeneratedRepo, Live
<1>5. M \in Seq(ToSet(M))
    <2>1. \A k \in 1..m : M[k] \in ToSet(M)
        BY <1>3 DEF ToSet
    <2>2. M \in [1..m -> ToSet(M)]
        BY <1>1, <1>2, <2>1
    <2> QED BY <2>2, SeqDef
<1>6. \A i, j \in DOMAIN M : M[i].name = M[j].name => M[i] = M[j]
    BY <1>3, <1>4
<1> QED BY <1>2, <1>3, <1>4, <1>5, <1>6 DEF IsManifest

-----------------------------------------------------------------------------
(* What the generators leave of a checkout: everything but what they write. *)
SameSources(c, s) ==
    /\ s.files = c.files /\ s.skills = c.skills /\ s.listed = c.listed /\ s.servers = c.servers
    /\ s.profiles = c.profiles /\ s.agents = c.agents /\ s.roles = c.roles /\ s.spec = c.spec
    /\ s.rejects = c.rejects

(* They write what is in the mirrors, but where there is nothing to write    *)
(* nothing is written.                                                     *)
Mirror(c) == [of : c.listed, dir : STRING, stands : {"unchanged", "create", "update", "blocked"}]
SameMirrors(c, s) ==
    /\ DOMAIN s.mirrors = DOMAIN c.mirrors
    /\ \A i \in DOMAIN c.mirrors :
          /\ s.mirrors[i].of = c.mirrors[i].of /\ s.mirrors[i].dir = c.mirrors[i].dir
          /\ s.mirrors[i].stands = "blocked" <=> c.mirrors[i].stands = "blocked"

(* Each generator, and both together, touch nothing else.                    *)
LEMMA SkillsSyncedKeeps ==
    ASSUME NEW c, IsCheckout(c)
    PROVE  /\ SameSources(c, SkillsSynced(c)) /\ IsCheckout(SkillsSynced(c)) /\ SameMirrors(c, SkillsSynced(c))
           /\ SkillsSynced(c).block = c.block /\ SkillsSynced(c).faulty = c.faulty
           /\ \A i \in Reached(c, "auto") : SkillsSynced(c).mirrors[i].stands = Settled(c.mirrors[i].stands)
           /\ SkillErrors(c, "auto") = {} => SkillsSynced(c).strays = {}
<1>1. PICK kept : kept = MirrorsSynced(c)
    OBVIOUS
<1>2. PICK gone : gone = IF SkillErrors(c, "auto") = {} THEN {} ELSE c.strays
    OBVIOUS
<1>3. c.mirrors \in Seq(Mirror(c))
    BY DEF IsCheckout, Mirror
<1>4. PICK n : n = Len(c.mirrors)
    OBVIOUS
<1>5. n \in Nat /\ DOMAIN c.mirrors = 1..n /\ \A i \in 1..n : c.mirrors[i] \in Mirror(c)
    BY <1>3, <1>4, LenProperties, ElementOfSeq
<1>6. ASSUME NEW i \in 1..n
      PROVE  /\ kept[i] \in Mirror(c) /\ kept[i].of = c.mirrors[i].of /\ kept[i].dir = c.mirrors[i].dir
             /\ kept[i].stands = "blocked" <=> c.mirrors[i].stands = "blocked"
             /\ i \in Reached(c, "auto") => kept[i].stands = Settled(c.mirrors[i].stands)
    <2>1. PICK m \in Mirror(c) : m = c.mirrors[i]
        BY <1>5
    <2>2. kept[i] = IF i \in Reached(c, "auto") THEN [m EXCEPT !.stands = Settled(m.stands)] ELSE m
        BY <1>1, <1>5, <2>1 DEF MirrorsSynced
    <2>3. Settled(m.stands) \in {"unchanged", "create", "update", "blocked"}
          /\ (Settled(m.stands) = "blocked" <=> m.stands = "blocked")
        BY DEF Mirror, Settled
    <2> QED BY <2>1, <2>2, <2>3 DEF Mirror
<1>7. kept \in Seq(Mirror(c)) /\ DOMAIN kept = 1..n
    <2>1. kept \in [1..n -> Mirror(c)]
        BY <1>1, <1>5, <1>6 DEF MirrorsSynced
    <2> QED BY <1>5, <2>1, SeqDef
<1>8. SkillsSynced(c) = [c EXCEPT !.mirrors = kept, !.strays = gone]
    <2>1. SkillsSynced(c) = [c EXCEPT !.mirrors = MirrorsSynced(c),
                                      !.strays = IF SkillErrors(c, "auto") = {} THEN {} ELSE c.strays]
        BY Zenon DEF SkillsSynced
    <2> QED BY <1>1, <1>2, <2>1, Zenon
<1>9. IsFiniteSet(gone)
    BY <1>2, FS_EmptySet DEF IsCheckout
<1>10. PICK s : s = [c EXCEPT !.mirrors = kept, !.strays = gone]
    OBVIOUS
<1>11. /\ s.mirrors = kept /\ s.strays = gone /\ DOMAIN s = DOMAIN c
       /\ \A field \in DOMAIN c \ {"mirrors", "strays"} : s[field] = c[field]
    BY <1>10 DEF IsCheckout
<1>12. SameSources(c, s) /\ s.block = c.block /\ s.faulty = c.faulty
    BY <1>10 DEF IsCheckout, SameSources
<1>13. Mirror(s) = Mirror(c) /\ s.mirrors \in Seq(Mirror(s))
    BY <1>7, <1>11, <1>12 DEF SameSources, Mirror
<1>14. IsCheckout(s)
    <2>1. /\ s.git = c.git /\ s.hooks = c.hooks /\ s.shell = c.shell
        BY <1>10 DEF IsCheckout
    <2>2. s.mirrors \in Seq([of : s.listed, dir : STRING, stands : {"unchanged", "create", "update", "blocked"}])
        BY <1>13 DEF Mirror
    <2> QED BY <1>9, <1>11, <1>12, <2>1, <2>2 DEF IsCheckout, SameSources
<1>15. SameMirrors(c, s)
    BY <1>5, <1>6, <1>7, <1>11 DEF SameMirrors
<1>16. \A i \in Reached(c, "auto") : s.mirrors[i].stands = Settled(c.mirrors[i].stands)
    <2>1. Reached(c, "auto") \subseteq 1..n
        BY <1>5 DEF Reached, Asked
    <2> QED BY <1>6, <1>11, <2>1
<1> QED BY <1>2, <1>8, <1>10, <1>11, <1>12, <1>14, <1>15, <1>16

(* The second generator.                                                     *)
LEMMA McpSyncedKeeps ==
    ASSUME NEW c, IsCheckout(c)
    PROVE  /\ SameSources(c, McpSynced(c)) /\ IsCheckout(McpSynced(c))
           /\ McpSynced(c).mirrors = c.mirrors /\ McpSynced(c).strays = c.strays
BY DEF IsCheckout, SameSources, McpSynced

(* Both of them together.                                                    *)
LEMMA RemediedKeeps ==
    ASSUME NEW c, IsCheckout(c), NEW commands
    PROVE  SameSources(c, Remedied(c, commands)) /\ IsCheckout(Remedied(c, commands))
BY SkillsSyncedKeeps, McpSyncedKeeps DEF SameSources, Remedied

-----------------------------------------------------------------------------
(* The report without the findings that depend on what the generators write. *)
Unmoved(d, c, p, today) ==
    UNION {RequiredFileFindings(c), RetiredFindings(c), CanonicalFindings(c), SettingsFindings(c),
           AgentFindings(c), ProfileFindings(c), NamingFindings(c), SurfaceFindings(c),
           WrapperFindings(c), DiscoveryFindings(c), AwarenessFindings(c), PortabilityFindings(c),
           PinFindings(c, p.lifecycle, today),
           SpecFindings(c, NearBy(d, p.target), today),
           DriftFindings(d, c, NearBy(d, p.expectations))}

(* A report consists of those and of three sets more.                        *)
LEMMA ReportSplits ==
    ASSUME NEW d, NEW c, NEW p, NEW today
    PROVE  BaselineReport(d, c, p, today) =
               Unmoved(d, c, p, today) \cup SkillSyncFindings(c) \cup McpSyncFindings(c) \cup LauncherFindings(c)
BY DEF BaselineReport, Unmoved

(* The sources alone decide about those.                                     *)
LEMMA SourcesDecide ==
    ASSUME NEW d, NEW c, NEW s, NEW p, NEW today, SameSources(c, s)
    PROVE  Unmoved(d, s, p, today) = Unmoved(d, c, p, today)
<1>1. /\ RequiredFileFindings(s) = RequiredFileFindings(c)
      /\ RetiredFindings(s) = RetiredFindings(c)
    BY DEF SameSources, RequiredFileFindings, RetiredFindings, Exists
<1>2. /\ CanonicalFindings(s) = CanonicalFindings(c)
      /\ SettingsFindings(s) = SettingsFindings(c)
    BY DEF SameSources, CanonicalFindings, SettingsFindings, IfThere, Says, Parses, Exists
<1>3. /\ AgentFindings(s) = AgentFindings(c)
      /\ ProfileFindings(s) = ProfileFindings(c)
      /\ NamingFindings(s) = NamingFindings(c)
    BY DEF SameSources, AgentFindings, ProfileFindings, NamingFindings, Says, Parses, Exists
<1>4. SurfaceFindings(s) = SurfaceFindings(c)
    BY DEF SameSources, SurfaceFindings, Says, Exists
<1>5. /\ WrapperFindings(s) = WrapperFindings(c)
      /\ DiscoveryFindings(s) = DiscoveryFindings(c)
      /\ AwarenessFindings(s) = AwarenessFindings(c)
      /\ PortabilityFindings(s) = PortabilityFindings(c)
    BY DEF SameSources, WrapperFindings, DiscoveryFindings, AwarenessFindings, PortabilityFindings, Says, Parses, Exists
<1>6. /\ PinFindings(s, p.lifecycle, today) = PinFindings(c, p.lifecycle, today)
      /\ SpecFindings(s, NearBy(d, p.target), today) = SpecFindings(c, NearBy(d, p.target), today)
    BY DEF SameSources, PinFindings, SpecFindings, Says, Exists
<1>7. DriftFindings(d, s, NearBy(d, p.expectations)) = DriftFindings(d, c, NearBy(d, p.expectations))
    <2>1. \A e : ExpectationFindings(s, e) = ExpectationFindings(c, e)
        BY DEF SameSources, ExpectationFindings, Says, Parses, Exists
    <2> QED BY <2>1 DEF DriftFindings
<1> QED BY <1>1, <1>2, <1>3, <1>4, <1>5, <1>6, <1>7 DEF Unmoved

(* A finding is about the check that it was made for.                        *)
LEMMA FindingFields ==
    ASSUME NEW check, NEW about, NEW passed
    PROVE  Finding(check, about, passed).check = check /\ Finding(check, about, passed).passed = passed
BY DEF Finding, FindingOn

(* None of those is about the two generated parts, and only some of them are *)
(* about the settings.                                                     *)
LEMMA OtherChecks ==
    ASSUME NEW d, NEW c, NEW p, NEW today, NEW f \in Unmoved(d, c, p, today)
    PROVE  /\ f.check \notin {"skill_sync", "mcp_sync"}
           /\ f.check = "claude_settings_json" => f \in SettingsFindings(c)
<1>1. CASE f \in RequiredFileFindings(c) \cup RetiredFindings(c) \cup CanonicalFindings(c) \cup SettingsFindings(c)
    BY <1>1 DEF RequiredFileFindings, RetiredFindings, CanonicalFindings, SettingsFindings, IfThere,
                Findings, When, Finding, FindingOn
<1>2. CASE f \in AgentFindings(c) \cup ProfileFindings(c) \cup NamingFindings(c) \cup SurfaceFindings(c)
    BY <1>2 DEF AgentFindings, ProfileFindings, NamingFindings, SurfaceFindings, Findings, When, Finding, FindingOn
<1>3. CASE f \in WrapperFindings(c) \cup PortabilityFindings(c)
    <2> DEFINE fits(w) == /\ ~Says(c, w, "git toplevel")
                          /\ Says(c, w, "go run") => Says(c, w, "GOWORK=off")
               wrapped(w) == Finding("sync_wrapper_portability", w, fits(w))
               carried(s) == Finding("skill_portability", s, c.skills[s] # "unportable")
    <2>1. \A w : wrapped(w).check = "sync_wrapper_portability" /\ carried(w).check = "skill_portability"
        BY DEF Finding, FindingOn
    <2>2. /\ WrapperFindings(c) = {wrapped(w) : w \in {w \in SyncWrappers : Exists(c, w)}}
          /\ PortabilityFindings(c) = {carried(s) : s \in {s \in DOMAIN c.skills : c.skills[s] # "none"}}
        BY DEF WrapperFindings, PortabilityFindings, Findings
    <2> HIDE DEF wrapped, carried
    <2> QED BY <1>3, <2>1, <2>2
<1>7. CASE f \in DiscoveryFindings(c) \cup AwarenessFindings(c)
    <2>1. \A about, passed : Finding("mcp_discovery", about, passed).check = "mcp_discovery"
        BY FindingFields
    <2>2. \A about, passed : Finding("a2a_awareness", about, passed).check = "a2a_awareness"
        BY FindingFields
    <2> QED BY <1>7, <2>1, <2>2 DEF DiscoveryFindings, AwarenessFindings, When
<1>4. CASE f \in PinFindings(c, p.lifecycle, today)
    BY <1>4 DEF PinFindings, Finding, FindingOn
<1>5. CASE f \in SpecFindings(c, NearBy(d, p.target), today)
    BY <1>5 DEF SpecFindings, When, Finding, FindingOn
<1>6. CASE f \in DriftFindings(d, c, NearBy(d, p.expectations))
    <2>1. \A e : \A g \in ExpectationFindings(c, e) : g.check = "config_drift"
        BY DEF ExpectationFindings, Finding, FindingOn
    <2>2. \A about, detail, passed : FindingOn("config_drift", about, detail, passed).check = "config_drift"
        BY DEF FindingOn
    <2>3. \A about, passed : Finding("config_drift", about, passed).check = "config_drift"
        BY FindingFields
    <2>4. f.check = "config_drift"
        BY <1>6, <2>1, <2>2, <2>3 DEF DriftFindings
    <2> QED BY <2>4
<1> QED BY <1>1, <1>2, <1>3, <1>4, <1>5, <1>6, <1>7 DEF Unmoved

(* When the findings of the two generated parts fail.                       *)
SkillFinding(r) == FindingOn("skill_sync", r.about, r.action, ~Drifted(r.action))
LEMMA SkillFindingsFail ==
    ASSUME NEW c
    PROVE  /\ \A f \in SkillSyncFindings(c) : f.check = "skill_sync"
           /\ (\E f \in SkillSyncFindings(c) : ~f.passed)
                  <=> HasSkillsDir(c) /\ \E r \in SkillReport(c, "auto") : Drifted(r.action)
           /\ \A r : SkillFinding(r).passed = ~Drifted(r.action) /\ SkillFinding(r).detail = r.action
           /\ \A f : f \in SkillSyncFindings(c)
                         <=> HasSkillsDir(c) /\ \E r \in SkillReport(c, "auto") : f = SkillFinding(r)
<1>1. SkillSyncFindings(c) = IF HasSkillsDir(c) THEN {SkillFinding(r) : r \in SkillReport(c, "auto")} ELSE {}
    BY DEF SkillSyncFindings, SkillFinding, When
<1>2. \A r : /\ SkillFinding(r).check = "skill_sync" /\ SkillFinding(r).passed = ~Drifted(r.action)
              /\ SkillFinding(r).detail = r.action
    BY DEF SkillFinding, FindingOn
<1> QED BY <1>1, <1>2

(* The same of the second part.                                              *)
LEMMA McpFindingsFail ==
    ASSUME NEW c
    PROVE  /\ \A f \in McpSyncFindings(c) : f.check = "mcp_sync"
           /\ (\E f \in McpSyncFindings(c) : ~f.passed)
                  <=> Exists(c, ".mcp.json") /\ McpReport(c) # "leftover" /\ Drifted(McpReport(c))
<1> DEFINE it == Finding("mcp_sync", "block", ~Drifted(McpReport(c)))
<1>1. it.check = "mcp_sync" /\ it.passed = ~Drifted(McpReport(c))
    BY FindingFields
<1>2. McpSyncFindings(c) = IF Exists(c, ".mcp.json") /\ McpReport(c) # "leftover" THEN {it} ELSE {}
    BY DEF McpSyncFindings, When
<1> HIDE DEF it
<1> QED BY <1>1, <1>2

(* The third set is about launchers.                                         *)
LEMMA LauncherFindingsAre ==
    ASSUME NEW c
    PROVE  \A f \in LauncherFindings(c) : f.check = "mcp_portability"
<1> DEFINE one(s) == Finding("mcp_portability", s.name, s.launch \in {"portable", "empty"})
           none == Finding("mcp_portability", "no servers", TRUE)
           config == Finding("mcp_portability", "config", FALSE)
<1>1. \A s : one(s).check = "mcp_portability"
    BY FindingFields
<1>2. none.check = "mcp_portability" /\ config.check = "mcp_portability"
    BY DEF Finding, FindingOn
<1>3. LauncherFindings(c) \subseteq {one(s) : s \in {s \in c.servers : ~s.hidden}} \cup {none, config}
    BY DEF LauncherFindings, When
<1> HIDE DEF one, none, config
<1> QED BY <1>1, <1>2, <1>3

(* Which of the two checks fails in a report.                               *)
LEMMA ReportFails ==
    ASSUME NEW d, NEW c, NEW p, NEW today
    PROVE  /\ "skill_sync" \in ChecksOf(Failed(BaselineReport(d, c, p, today)))
                  <=> HasSkillsDir(c) /\ \E r \in SkillReport(c, "auto") : Drifted(r.action)
           /\ "mcp_sync" \in ChecksOf(Failed(BaselineReport(d, c, p, today)))
                  <=> Exists(c, ".mcp.json") /\ McpReport(c) # "leftover" /\ Drifted(McpReport(c))
BY ReportSplits, OtherChecks, SkillFindingsFail, McpFindingsFail, LauncherFindingsAre DEF ChecksOf, Failed

(* A configuration of the servers that can be generated stands as the block  *)
(* does, or is left to the repository.                                      *)
LEMMA McpReportIs ==
    ASSUME NEW c, IsCheckout(c)
    PROVE  McpReport(c) \in {"error", "unchanged", "update", "leftover"}
BY DEF McpReport, IsCheckout

-----------------------------------------------------------------------------
(* What the generators leave behind.  Which mirrors they reach, and which    *)
(* errors they meet, is not for them to change.                             *)
LEMMA ErrorsStay ==
    ASSUME NEW c, NEW s, SameSources(c, s), SameMirrors(c, s), NEW mode
    PROVE  Reached(s, mode) = Reached(c, mode) /\ SkillErrors(s, mode) = SkillErrors(c, mode)
<1>1. SurfaceRead(s) = SurfaceRead(c)
    BY DEF SameSources, SurfaceRead, Parses, Says, Exists
<1>2. Blocked(s) = Blocked(c)
    BY DEF SameMirrors, Blocked
<1>3. \A x : Usable(s, x, mode) = Usable(c, x, mode)
    BY DEF SameSources, Usable, Rejects
<1>4. Asked(s, mode) = Asked(c, mode) /\ Asked(c, mode) \subseteq DOMAIN c.mirrors
    BY <1>3 DEF SameMirrors, Asked
<1>5. Taken(s, mode) = Taken(c, mode)
    <2>1. \A i \in Asked(c, mode) : s.mirrors[i].dir = c.mirrors[i].dir
        BY <1>4 DEF SameMirrors
    <2> QED BY <1>4, <2>1 DEF Taken
<1>6. Aborts(s) = Aborts(c)
    BY <1>1, <1>2 DEF Aborts
<1>7. {s.mirrors[i].dir : i \in Blocked(s)} = {c.mirrors[i].dir : i \in Blocked(c)}
    BY <1>2 DEF Blocked, SameMirrors
<1>8. {s.mirrors[i].dir : i \in Taken(s, mode)} = {c.mirrors[i].dir : i \in Taken(c, mode)}
    BY <1>4, <1>5 DEF Taken, SameMirrors
<1>9. {x \in s.listed : ~Usable(s, x, mode)} = {x \in c.listed : ~Usable(c, x, mode)}
    BY <1>3 DEF SameSources
<1> QED BY <1>1, <1>4, <1>5, <1>6, <1>7, <1>8, <1>9 DEF Reached, SkillErrors

(* What skillsync has reached follows its source, and what it purges is gone *)
(* unless there was an error: but for errors that were there before, nothing *)
(* is left to do.                                                          *)
LEMMA SkillsSettle ==
    ASSUME NEW c, IsCheckout(c), NEW r \in SkillReport(SkillsSynced(c), "auto"), Drifted(r.action)
    PROVE  r \in SkillReport(c, "auto") /\ r.action = "error"
<1>1. PICK s : s = SkillsSynced(c)
    OBVIOUS
<1>2. Reached(s, "auto") = Reached(c, "auto") /\ SkillErrors(s, "auto") = SkillErrors(c, "auto")
    BY <1>1, SkillsSyncedKeeps, ErrorsStay
<1>3. CASE \E e \in SkillErrors(s, "auto") : r = Action("error", e)
    BY <1>2, <1>3 DEF SkillReport, Action
<1>4. ASSUME NEW i \in Reached(s, "auto"), r = Action(s.mirrors[i].stands, s.mirrors[i].dir)
      PROVE  FALSE
    <2>1. r.action = Settled(c.mirrors[i].stands)
        BY <1>1, <1>2, <1>4, SkillsSyncedKeeps DEF Action
    <2>2. c.mirrors[i].stands # "blocked"
        BY <1>2, <1>4 DEF Reached, Aborts, Blocked, Asked
    <2>3. c.mirrors[i].stands \in {"unchanged", "create", "update", "blocked"}
        <3>1. c.mirrors \in Seq(Mirror(c)) /\ i \in DOMAIN c.mirrors
            BY <1>2, <1>4 DEF IsCheckout, Mirror, Reached, Asked
        <3>2. c.mirrors[i] \in Mirror(c)
            BY <3>1
        <3> QED BY <3>2 DEF Mirror
    <2> QED BY <2>1, <2>2, <2>3 DEF Settled, Drifted
<1>5. CASE SkillErrors(s, "auto") = {} /\ \E dir \in s.strays : r = Action("remove", dir)
    BY <1>1, <1>2, <1>5, SkillsSyncedKeeps
<1>6. r \in SkillReport(s, "auto")
    BY <1>1
<1>7. \/ \E e \in SkillErrors(s, "auto") : r = Action("error", e)
      \/ \E i \in Reached(s, "auto") : r = Action(s.mirrors[i].stands, s.mirrors[i].dir)
      \/ SkillErrors(s, "auto") = {} /\ \E dir \in s.strays : r = Action("remove", dir)
    BY <1>6 DEF SkillReport, When
<1> QED BY <1>3, <1>4, <1>5, <1>7

(* Whether the servers can be generated, and what from, depends on sources.  *)
LEMMA SourcesResolve ==
    ASSUME NEW c, NEW s, SameSources(c, s)
    PROVE  /\ Generated(s) = Generated(c) /\ Resolves(s) = Resolves(c)
           /\ HasSkillsDir(s) = HasSkillsDir(c)
           /\ \A f : Exists(s, f) = Exists(c, f)
           /\ s.block = c.block => McpReport(s) = McpReport(c)
           /\ s.mirrors = c.mirrors /\ s.strays = c.strays
                  => \A mode : SkillReport(s, mode) = SkillReport(c, mode)
<1>1. \A f, phrase : Exists(s, f) = Exists(c, f) /\ Parses(s, f) = Parses(c, f) /\ Says(s, f, phrase) = Says(c, f, phrase)
    BY DEF SameSources, Exists, Parses, Says
<1>2. FromProfiles(s) = FromProfiles(c)
    BY <1>1 DEF FromProfiles
<1>3. Generated(s) = Generated(c)
    BY <1>2 DEF Generated, SameSources
<1>4. Resolves(s) = Resolves(c)
    <2>1. ProfilesInOrder(s) = ProfilesInOrder(c)
        BY <1>1 DEF ProfilesInOrder, SameSources
    <2> QED BY <1>2, <1>3, <2>1 DEF Resolves
<1>5. HasSkillsDir(s) = HasSkillsDir(c)
    BY <1>1 DEF HasSkillsDir, SameSources
<1>6. s.block = c.block => McpReport(s) = McpReport(c)
    <2>1. Unmarked(s) = Unmarked(c)
        BY <1>1, Zenon DEF Unmarked
    <2> HIDE DEF Unmarked
    <2> QED BY <1>1, <1>4, <2>1, Zenon DEF McpReport
<1>7. ASSUME s.mirrors = c.mirrors, s.strays = c.strays, NEW mode
      PROVE  SkillReport(s, mode) = SkillReport(c, mode)
    <2>1. Reached(s, mode) = Reached(c, mode) /\ SkillErrors(s, mode) = SkillErrors(c, mode)
        BY <1>7, ErrorsStay DEF SameMirrors
    <2> QED BY <1>7, <2>1 DEF SkillReport
<1> QED BY <1>1, <1>3, <1>4, <1>5, <1>6, <1>7

(* The generated servers follow their source, if there was no error.         *)
LEMMA McpSettles ==
    ASSUME NEW c, IsCheckout(c), McpReport(c) # "error"
    PROVE  McpReport(McpSynced(c)) = "unchanged"
<1> DEFINE s == McpSynced(c)
<1>1. /\ Exists(s, ConfigFile) = Exists(c, ConfigFile) /\ Parses(s, ".mcp.json") = Parses(c, ".mcp.json")
      /\ Says(s, ProfileFile, "repo local owner") = Says(c, ProfileFile, "repo local owner")
    BY McpSyncedKeeps DEF SameSources, Exists, Parses, Says
<1>2. Resolves(s) = Resolves(c) /\ Unmarked(s) = Unmarked(c)
    <2>1. \A f, phrase : Says(s, f, phrase) = Says(c, f, phrase)
        BY McpSyncedKeeps DEF SameSources, Exists, Says
    <2>2. Unmarked(s) = Unmarked(c)
        BY <2>1, Zenon DEF Unmarked
    <2> QED BY <2>2, McpSyncedKeeps, SourcesResolve
<1>3. CASE McpReport(c) = "unchanged"
    BY <1>3 DEF McpSynced
<1>4. CASE McpReport(c) # "unchanged"
    <2>1. s.block = "unchanged"
        BY <1>4 DEF McpSynced, IsCheckout
    <2>2. McpReport(s) \in {"error", "unchanged"}
        BY <2>1, Zenon DEF McpReport
    <2>3. McpReport(s) # "error"
        BY <1>1, <1>2, <2>1, Zenon DEF McpReport
    <2> QED BY <2>2, <2>3
<1> QED BY <1>3, <1>4

(* A launcher that the baseline did not see before is one that the generator *)
(* let through, from a profile.                                             *)
LEMMA LaunchersStay ==
    ASSUME NEW c, IsCheckout(c), NEW commands,
           \E f \in LauncherFindings(Remedied(c, commands)) : ~f.passed,
           \A f \in LauncherFindings(c) : f.passed
    PROVE  FromProfiles(c) /\ Resolves(c) /\ Generated(c) \cap LetThrough # {}
<1> DEFINE s == Remedied(c, commands)
           one(x) == Finding("mcp_portability", x.name, x.launch \in {"portable", "empty"})
           none == Finding("mcp_portability", "no servers", TRUE)
           config == Finding("mcp_portability", "config", FALSE)
           listed(x) == IF x.servers = {} THEN {none} ELSE {one(y) : y \in {y \in x.servers : ~y.hidden}}
           asked(x) == Parses(x, ".mcp.json") /\ Exists(x, ConfigFile)
                       /\ (x.faulty \/ Says(x, ConfigFile, "cwd = .") \/ Says(x, ConfigFile, "go run"))
<1>1. \A x : LauncherFindings(x) = (IF Parses(x, ".mcp.json") THEN listed(x) ELSE {}) \cup (IF asked(x) THEN {config} ELSE {})
    BY DEF LauncherFindings, When
<1>2. SameSources(c, s)
    BY RemediedKeeps
<1>3. \A f, phrase : Exists(s, f) = Exists(c, f) /\ Parses(s, f) = Parses(c, f) /\ Says(s, f, phrase) = Says(c, f, phrase)
    BY <1>2 DEF SameSources, Exists, Parses, Says
<1>4. listed(s) = listed(c)
    BY <1>2 DEF SameSources
<1>5. config.passed = FALSE /\ \A y : one(y).passed = (y.launch \in {"portable", "empty"})
    BY DEF Finding, FindingOn
<1> HIDE DEF listed, config
<1>6. asked(s) /\ ~asked(c)
    BY <1>1, <1>3, <1>4, <1>5
<1>7. s.faulty /\ ~c.faulty
    BY <1>3, <1>6
<1>8. /\ McpReport(c) \notin {"error", "unchanged"}
      /\ Generated(c) \cap LetThrough # {}
    <2>1. PICK t : t = (IF "skill_sync" \in commands THEN SkillsSynced(c) ELSE c)
        OBVIOUS
    <2>2. SameSources(c, t) /\ IsCheckout(t) /\ t.block = c.block /\ t.faulty = c.faulty
        BY <2>1, SkillsSyncedKeeps DEF SameSources
    <2>3. s = IF "mcp_sync" \in commands THEN McpSynced(t) ELSE t
        BY <2>1 DEF Remedied
    <2>4. s = McpSynced(t) /\ McpReport(t) \notin {"error", "unchanged"}
        BY <1>7, <2>2, <2>3 DEF McpSynced
    <2>5. s.faulty => Generated(t) \cap LetThrough # {}
        BY <2>4, <2>2 DEF McpSynced, IsCheckout
    <2> QED BY <1>7, <2>2, <2>4, <2>5, SourcesResolve
<1>9. Resolves(c)
    BY <1>8 DEF McpReport
<1>10. FromProfiles(c)
    <2> SUFFICES ASSUME ~FromProfiles(c) PROVE FALSE
        OBVIOUS
    <2>1. PICK y \in c.servers : ~y.hidden /\ y.launch \in LetThrough
        BY <1>8 DEF Generated
    <2>2. one(y) \in LauncherFindings(c)
        BY <1>1, <1>3, <1>6, <2>1 DEF listed
    <2>3. y.launch \notin {"portable", "empty"}
        BY <2>1 DEF LetThrough
    <2> QED BY <1>5, <2>2, <2>3
<1> QED BY <1>8, <1>9, <1>10

-----------------------------------------------------------------------------
(* The three properties of one state, from the types of its checkouts.       *)
LEMMA RemedyOf ==
    ASSUME NEW d, NEW c, IsCheckout(c), NEW p, NEW today
    PROVE  LET before == Failed(BaselineReport(d, c, p, today))
               after == Failed(BaselineReport(d, Remedied(c, Commands(before)), p, today))
           IN  /\ ChecksOf(after) \ ChecksOf(before)
                      \subseteq IF FromProfiles(c) /\ Resolves(c) /\ Generated(c) \cap LetThrough # {}
                                THEN {"mcp_portability"} ELSE {}
               /\ {f \in after : f.check = "skill_sync"} \subseteq {f \in before : f.detail = "error"}
               /\ "mcp_sync" \in ChecksOf(after) => McpErrors(c) /\ "mcp_sync" \in ChecksOf(before)
<1> DEFINE before == Failed(BaselineReport(d, c, p, today))
           commands == Commands(before)
           s == Remedied(c, commands)
           after == Failed(BaselineReport(d, s, p, today))
           t == IF "skill_sync" \in commands THEN SkillsSynced(c) ELSE c
<1>1. /\ "skill_sync" \in commands <=> "skill_sync" \in ChecksOf(before)
      /\ "mcp_sync" \in commands <=> "mcp_sync" \in ChecksOf(before)
    BY DEF Commands, ChecksOf, Failed
<1>2. SameSources(c, t) /\ IsCheckout(t) /\ t.block = c.block
    BY SkillsSyncedKeeps DEF SameSources
<1>3. s = IF "mcp_sync" \in commands THEN McpSynced(t) ELSE t
    BY DEF Remedied
<1>4. SameSources(c, s) /\ IsCheckout(s) /\ s.mirrors = t.mirrors /\ s.strays = t.strays
    BY <1>2, <1>3, RemediedKeeps, McpSyncedKeeps
<1> HIDE DEF before, commands, s, after, t
<1>5. ASSUME NEW f \in after, f.check = "skill_sync"
      PROVE  f \in before /\ f.detail = "error"
    <2>1. f \in SkillSyncFindings(s) /\ ~f.passed
        BY <1>5, ReportSplits, OtherChecks, McpFindingsFail, LauncherFindingsAre DEF after, Failed
    <2>2. PICK r \in SkillReport(s, "auto") : f = SkillFinding(r) /\ Drifted(r.action) /\ HasSkillsDir(s)
        BY <2>1, SkillFindingsFail
    <2>3. SkillReport(s, "auto") = SkillReport(t, "auto")
        <3>1. SameSources(t, s)
            BY <1>2, <1>4 DEF SameSources
        <3> QED BY <1>4, <3>1, SourcesResolve
    <2>4. HasSkillsDir(c)
        BY <2>2, <1>4, SourcesResolve
    <2>5. "skill_sync" \in commands
        <3> SUFFICES ASSUME "skill_sync" \notin commands PROVE FALSE
            OBVIOUS
        <3>1. r \in SkillReport(c, "auto")
            BY <2>2, <2>3 DEF t
        <3> QED BY <1>1, <2>2, <2>4, <3>1, ReportFails DEF before
    <2>6. r \in SkillReport(c, "auto") /\ r.action = "error"
        BY <2>2, <2>3, <2>5, SkillsSettle DEF t
    <2>7. f \in SkillSyncFindings(c) /\ f.detail = "error"
        BY <2>2, <2>4, <2>6, SkillFindingsFail
    <2> QED BY <2>1, <2>7, ReportSplits DEF before, Failed
<1>6. "mcp_sync" \in ChecksOf(after) => McpErrors(c) /\ "mcp_sync" \in ChecksOf(before)
    <2> SUFFICES ASSUME "mcp_sync" \in ChecksOf(after)
                 PROVE  McpErrors(c) /\ "mcp_sync" \in ChecksOf(before)
        OBVIOUS
    <2>1. Exists(s, ".mcp.json") /\ McpReport(s) # "leftover" /\ Drifted(McpReport(s))
        BY ReportFails DEF after
    <2>2. McpReport(t) = McpReport(c) /\ Exists(c, ".mcp.json")
        BY <1>2, <1>4, <2>1, SourcesResolve
    <2>3. "mcp_sync" \in commands
        BY <1>1, <1>3, <2>1, <2>2, ReportFails DEF before
    <2>4. s = McpSynced(t)
        BY <1>3, <2>3
    <2>5. McpReport(s) # "unchanged"
        BY <2>1 DEF Drifted
    <2> QED BY <1>1, <1>2, <2>2, <2>3, <2>4, <2>5, McpSettles DEF McpErrors
<1>7. ASSUME NEW f \in after, f.check \notin ChecksOf(before)
      PROVE  /\ f.check = "mcp_portability"
             /\ FromProfiles(c) /\ Resolves(c) /\ Generated(c) \cap LetThrough # {}
    <2>1. f.check \notin {"skill_sync", "mcp_sync"}
        BY <1>5, <1>6, <1>7 DEF ChecksOf
    <2>2. Unmoved(d, s, p, today) = Unmoved(d, c, p, today)
        BY <1>4, SourcesDecide
    <2>3. f \in LauncherFindings(s) /\ ~f.passed
        BY <1>7, <2>1, <2>2, ReportSplits, SkillFindingsFail, McpFindingsFail DEF after, before, Failed, ChecksOf
    <2>4. f.check = "mcp_portability"
        BY <2>3, LauncherFindingsAre
    <2>5. \A g \in LauncherFindings(c) : g.passed
        BY <1>7, <2>4, LauncherFindingsAre, ReportSplits DEF before, Failed, ChecksOf
    <2> QED BY <2>3, <2>4, <2>5, LaunchersStay DEF s
<1>8. ChecksOf(after) \ ChecksOf(before)
          \subseteq IF FromProfiles(c) /\ Resolves(c) /\ Generated(c) \cap LetThrough # {}
                    THEN {"mcp_portability"} ELSE {}
    BY <1>7 DEF ChecksOf
<1>9. {f \in after : f.check = "skill_sync"} \subseteq {f \in before : f.detail = "error"}
    BY <1>5
<1> QED BY <1>6, <1>8, <1>9 DEF before, after, s, commands

(* The same of every checkout in place.                                      *)
LEMMA CheckoutsRemedy ==
    ASSUME AreCheckouts(tree)
    PROVE  CommandsRemedy
<1> SUFFICES ASSUME NEW d \in Dirs, Present(tree, d)
             PROVE  LET c == tree[d]
                        before == Failed(ReportOn(d, c))
                        after == Failed(ReportOn(d, Remedied(c, Commands(before))))
                    IN  /\ ChecksOf(after) \ ChecksOf(before)
                               \subseteq IF FromProfiles(c) /\ Resolves(c) /\ Generated(c) \cap LetThrough # {}
                                         THEN {"mcp_portability"} ELSE {}
                        /\ {f \in after : f.check = "skill_sync"} \subseteq {f \in before : f.detail = "error"}
                        /\ "mcp_sync" \in ChecksOf(after) => McpErrors(c)
    BY DEF CommandsRemedy
<1>1. IsCheckout(tree[d])
    BY DEF AreCheckouts, Present
<1> QED BY <1>1, RemedyOf DEF ReportOn

-----------------------------------------------------------------------------
(* What a validator complains of is an error of skillsync.                   *)
LEMMA ComplaintIsError ==
    ASSUME NEW c, NEW mode, Complains(c, mode)
    PROVE  SkillErrors(c, mode) # {}
<1>1. CASE ~SurfaceRead(c)
    BY <1>1 DEF SkillErrors
<1>2. CASE SurfaceRead(c) /\ Aborts(c)
    BY <1>2 DEF SkillErrors, Aborts
<1>3. CASE ~Aborts(c)
    <2>1. \A x : Rejects(c, x, mode) => ~Usable(c, x, mode)
        BY DEF Usable
    <2>2. \/ mode \in When(NoValidator(mode), {mode})
          \/ \E x \in c.listed : ~Usable(c, x, mode)
        BY <2>1 DEF Complains, When
    <2> QED BY <1>3, <2>2 DEF SkillErrors, Aborts
<1> QED BY <1>1, <1>2, <1>3

(* Where no validator complains, they make no difference.                    *)
LEMMA ValidatorsAgree ==
    ASSUME NEW c, IsCheckout(c), NEW mode, NEW other, ~Complains(c, mode), ~Complains(c, other)
    PROVE  SkillReport(c, mode) = SkillReport(c, other)
<1>1. \A x \in c.listed : Usable(c, x, mode) = Usable(c, x, other)
    BY DEF Complains, Usable
<1>2. \A i \in DOMAIN c.mirrors : c.mirrors[i].of \in c.listed
    <2>1. \A i \in DOMAIN c.mirrors : c.mirrors[i] \in Mirror(c)
        <3>1. c.mirrors \in Seq(Mirror(c))
            BY DEF IsCheckout, Mirror
        <3> QED BY <3>1
    <2> QED BY <2>1 DEF Mirror
<1>3. Asked(c, mode) = Asked(c, other)
    BY <1>1, <1>2 DEF Asked
<1>4. Taken(c, mode) = Taken(c, other) /\ Reached(c, mode) = Reached(c, other)
    BY <1>3 DEF Taken, Reached
<1>5. When(NoValidator(mode), {mode}) = {} /\ When(NoValidator(other), {other}) = {}
    BY DEF When, Complains
<1>6. {x \in c.listed : ~Usable(c, x, mode)} = {x \in c.listed : ~Usable(c, x, other)}
    BY <1>1
<1>7. SkillErrors(c, mode) = SkillErrors(c, other)
    BY <1>4, <1>5, <1>6 DEF SkillErrors
<1> QED BY <1>4, <1>7 DEF SkillReport

(* The baseline and the source contract on one checkout.                     *)
LEMMA ContractOf ==
    ASSUME NEW d, IsCheckout(tree[d]), Exists(tree[d], SurfaceFile), Exists(tree[d], ".mcp.json"),
           tree[d].localSkills = "none", tree[d].localMcp = "none", NEW o
    PROVE  /\ Complains(tree[d], o.validator) => ~SkillsKept(tree[d], o)
           /\ Complains(tree[d], "auto") => Judged(d, tree[d]) # {}
           /\ ~Complains(tree[d], o.validator) /\ ~Complains(tree[d], "auto")
                  => ((SkillsKept(tree[d], o) /\ McpKept(tree[d]))
                          <=> (Judged(d, tree[d]) = {} /\ McpReport(tree[d]) # "leftover"))
<1> DEFINE c == tree[d]
<1>1. HasSkillsDir(c)
    BY DEF HasSkillsDir
<1>2. "skill_sync" \in Judged(d, c) <=> \E r \in SkillReport(c, "auto") : Drifted(r.action)
    BY <1>1, ReportFails DEF Judged, ReportOn
<1>3. "mcp_sync" \in Judged(d, c) <=> McpReport(c) # "leftover" /\ Drifted(McpReport(c))
    BY ReportFails DEF Judged, ReportOn
<1>4. SkillsKept(c, o) <=> \A r \in SkillReport(c, o.validator) : ~Drifted(r.action)
    BY DEF SkillsKept, LocalVerdict
<1>5. McpKept(c) <=> McpReport(c) = "unchanged"
    BY DEF McpKept, LocalVerdict
<1>6. (McpReport(c) = "unchanged") <=> (McpReport(c) # "leftover" /\ ~Drifted(McpReport(c)))
    BY McpReportIs DEF Drifted
<1>7. Judged(d, c) \subseteq {"skill_sync", "mcp_sync"}
    BY DEF Judged
<1>8. Judged(d, c) = {} <=> "skill_sync" \notin Judged(d, c) /\ "mcp_sync" \notin Judged(d, c)
    BY <1>7
<1>9. \A mode : Complains(c, mode) => \E r \in SkillReport(c, mode) : Drifted(r.action)
    <2> SUFFICES ASSUME NEW mode, Complains(c, mode)
                 PROVE  \E r \in SkillReport(c, mode) : Drifted(r.action)
        OBVIOUS
    <2>1. PICK e \in SkillErrors(c, mode) : TRUE
        BY ComplaintIsError
    <2>2. Action("error", e) \in SkillReport(c, mode)
        BY <2>1 DEF SkillReport
    <2>3. Drifted(Action("error", e).action)
        BY DEF Action, Drifted
    <2> QED BY <2>2, <2>3
<1>10. ~Complains(c, o.validator) /\ ~Complains(c, "auto") => SkillReport(c, o.validator) = SkillReport(c, "auto")
    BY ValidatorsAgree
<1> HIDE DEF c
<1>11. Complains(c, "auto") => "skill_sync" \in Judged(d, c)
    BY <1>2, <1>9
<1>12. Complains(c, o.validator) => ~SkillsKept(c, o)
    BY <1>4, <1>9
<1>13. ~Complains(c, o.validator) /\ ~Complains(c, "auto")
           => (SkillsKept(c, o) <=> "skill_sync" \notin Judged(d, c))
    BY <1>2, <1>4, <1>10
<1> QED BY <1>3, <1>5, <1>6, <1>8, <1>11, <1>12, <1>13 DEF c

(* And on every checkout that the contract reports.                          *)
LEMMA ContractsAgree ==
    ASSUME AreCheckouts(tree), NEW mode, NEW overlay
    PROVE  ContractAgrees(mode, overlay)
<1> DEFINE relocated == ApplyOverlay(manifest, overlay)
           o == SkipInventory(mode)
           repos == ContractRepos(relocated, tree, o)
<1>1. KeptOf(o, relocated, tree) = [d \in repos |-> RepoKept(tree[d], o)]
    BY DEF KeptOf
<1>2. \A d \in repos : Present(tree, d)
    BY DEF ContractRepos
<1>3. \A d \in repos : IsCheckout(tree[d])
    BY <1>2 DEF Present, AreCheckouts
<1>4. o.validator = mode
    BY DEF SkipInventory, Everything
<1> HIDE DEF repos, o
<1>5. ASSUME NEW d \in repos, LooksAtSkills(tree[d], o), LooksAtMcp(tree[d], o),
             tree[d].localSkills = "none", tree[d].localMcp = "none"
      PROVE  /\ Complains(tree[d], mode) => ~RepoKept(tree[d], o)
             /\ Complains(tree[d], "auto") => Judged(d, tree[d]) # {}
             /\ ~Complains(tree[d], mode) /\ ~Complains(tree[d], "auto")
                    => RepoKept(tree[d], o) = (Judged(d, tree[d]) = {} /\ McpReport(tree[d]) # "leftover")
    <2>1. RepoKept(tree[d], o) = (SkillsKept(tree[d], o) /\ McpKept(tree[d]))
        BY <1>5 DEF RepoKept
    <2>2. Exists(tree[d], SurfaceFile) /\ Exists(tree[d], ".mcp.json")
        BY <1>5 DEF LooksAtSkills, LooksAtMcp
    <2> QED BY <1>3, <1>4, <1>5, <2>1, <2>2, ContractOf
<1> QED BY <1>1, <1>5 DEF ContractAgrees, o

(* The baseline check judges what the relocated manifest calls a target, or, *)
(* when it cannot be relocated, what the scan finds.                         *)
LEMMA AllTargetsJudged ==
    ASSUME manifest # Absent, NEW overlay
    PROVE  TargetsJudged(overlay)
<1>1. CASE OverlayFits(manifest, overlay)
    <2>1. PICK relocated : relocated = ApplyOverlay(manifest, overlay)
        OBVIOUS
    <2>2. BaselineTargets(manifest, overlay, tree) =
              {relocated[j].at : j \in {j \in DOMAIN relocated :
                  relocated[j].baseline /\ Present(tree, relocated[j].at) /\ tree[relocated[j].at].cloned}}
        BY <1>1, <2>1 DEF BaselineTargets
    <2> QED BY <1>1, <2>1, <2>2 DEF TargetsJudged
<1>2. CASE ~OverlayFits(manifest, overlay)
    <2>1. BaselineTargets(manifest, overlay, tree) = Live(tree) \ NotScanned
        BY <1>2 DEF BaselineTargets
    <2>2. \A d : Present(tree, d) /\ tree[d].cloned /\ d \notin Linked => d \in Live(tree)
        BY DEF Live, Present
    <2> QED BY <1>2, <2>1, <2>2 DEF TargetsJudged
<1> QED BY <1>1, <1>2

(* What one half looks at and the other does not, the whole looks at.        *)
LEMMA HalvesAgree ==
    ASSUME NEW mode, NEW overlay
    PROVE  HalvesMakeWhole(mode, overlay)
<1> DEFINE relocated == ApplyOverlay(manifest, overlay)
           repos(o) == ContractRepos(relocated, tree, o)
           report(o) == ContractReport(o, day, inputs, overlay, policy.global, manifest, tree)
           allKept(o) == \A d \in repos(o) : RepoKept(tree[d], o)
           whole == Everything(mode)
           skills == SkillsOnly(mode)
           tools == ToolsOnly(mode)
<1>1. AsksArtifacts(whole) /\ AsksArtifacts(tools) /\ ~AsksArtifacts(skills)
    BY DEF AsksArtifacts, Everything, SkillsOnly, ToolsOnly
<1>2. /\ ContractRuns(whole, inputs, overlay, policy.global, manifest, tree)
             = ContractRuns(tools, inputs, overlay, policy.global, manifest, tree)
      /\ ContractRuns(whole, inputs, overlay, policy.global, manifest, tree)
             => ContractRuns(skills, inputs, overlay, policy.global, manifest, tree)
    BY <1>1 DEF ContractRuns
<1>3. \A o : /\ report(o).workspace = CheckManifest(inputs, relocated, tree)
              /\ report(o).kept = [d \in repos(o) |-> RepoKept(tree[d], o)]
    BY DEF ContractReport, KeptOf
<1>4. report(whole).artifacts = report(tools).artifacts /\ report(skills).artifacts = Kinds
    BY <1>1 DEF ContractReport
<1>5. \A c : /\ LooksAtSkills(c, whole) = LooksAtSkills(c, skills) /\ ~LooksAtSkills(c, tools)
              /\ LooksAtMcp(c, whole) = LooksAtMcp(c, tools) /\ ~LooksAtMcp(c, skills)
              /\ SkillsKept(c, whole) = SkillsKept(c, skills)
    BY DEF LooksAtSkills, LooksAtMcp, SkillsKept, Everything, SkillsOnly, ToolsOnly
<1>6. allKept(whole) <=> allKept(skills) /\ allKept(tools)
    <2>1. \A o : allKept(o) <=>
              \A j \in DOMAIN relocated :
                  /\ relocated[j].baseline /\ Present(tree, relocated[j].at)
                  /\ LooksAtSkills(tree[relocated[j].at], o) \/ LooksAtMcp(tree[relocated[j].at], o)
                  => RepoKept(tree[relocated[j].at], o)
        BY DEF ContractRepos
    <2>2. \A o, c : RepoKept(c, o) <=> (LooksAtSkills(c, o) => SkillsKept(c, o)) /\ (LooksAtMcp(c, o) => McpKept(c))
        BY DEF RepoKept
    <2> HIDE DEF relocated, allKept, whole, skills, tools
    <2> QED BY <1>5, <2>1, <2>2
<1>7. \A o : ContractPasses(report(o)) <=>
              /\ Failed(CheckManifest(inputs, relocated, tree)) = {}
              /\ allKept(o)
              /\ report(o).artifacts = Kinds
    <2> HIDE DEF report, relocated, repos
    <2> QED BY <1>3 DEF ContractPasses
<1>8. \A o : Passing(o, overlay) <=> ContractRuns(o, inputs, overlay, policy.global, manifest, tree)
                                      /\ ContractPasses(report(o))
    BY DEF Passing
<1>9. \A o : Passing(o, overlay) \in BOOLEAN
    BY DEF Passing
<1> HIDE DEF report, allKept, relocated, repos, whole, skills, tools
<1>10. Passing(whole, overlay) <=> Passing(skills, overlay) /\ Passing(tools, overlay)
    BY <1>2, <1>4, <1>6, <1>7, <1>8
<1> QED BY <1>9, <1>10 DEF HalvesMakeWhole, whole, skills, tools

(* The fleet audit and the baseline on one checkout.                         *)
LEMMA FleetOf ==
    ASSUME NEW d
    PROVE  FleetPasses(d, tree[d], policy, day)
               = (BaselinePasses(ReportOn(d, tree[d])) /\ Exists(tree[d], SurfaceFile))
<1> DEFINE c == tree[d]
<1>1. "skill_sync" \in ChecksOf(Failed(ReportOn(d, c)))
          <=> HasSkillsDir(c) /\ \E r \in SkillReport(c, "auto") : Drifted(r.action)
    BY ReportFails DEF ReportOn
<1>2. "mcp_sync" \in ChecksOf(Failed(ReportOn(d, c)))
          <=> Exists(c, ".mcp.json") /\ McpReport(c) # "leftover" /\ Drifted(McpReport(c))
    BY ReportFails DEF ReportOn
<1>3. BaselinePasses(ReportOn(d, c)) => ChecksOf(Failed(ReportOn(d, c))) = {}
    BY DEF BaselinePasses, ChecksOf
<1>4. ~Exists(c, SurfaceFile) => SkillErrors(c, "auto") # {}
    BY DEF SkillErrors, SurfaceRead, Parses
<1>5. Exists(c, SurfaceFile) => HasSkillsDir(c)
    BY DEF HasSkillsDir
<1>6. SkillErrors(c, "auto") # {} => \E r \in SkillReport(c, "auto") : Drifted(r.action)
    <2>1. \A e \in SkillErrors(c, "auto") : Action("error", e) \in SkillReport(c, "auto")
        BY DEF SkillReport
    <2>2. \A e : Drifted(Action("error", e).action)
        BY DEF Action, Drifted
    <2> QED BY <2>1, <2>2
<1>7. McpErrors(c) => McpReport(c) # "leftover" /\ Drifted(McpReport(c))
    BY DEF McpErrors, Drifted
<1>8. FleetPasses(d, c, policy, day)
          = (BaselinePasses(ReportOn(d, c)) /\ SkillErrors(c, "auto") = {} /\ (Exists(c, ".mcp.json") => ~McpErrors(c)))
    BY DEF FleetPasses, ReportOn
<1> HIDE DEF c
<1> QED BY <1>1, <1>2, <1>3, <1>4, <1>5, <1>6, <1>7, <1>8 DEF c

(* So all verdicts on the workspace agree.                                   *)
LEMMA CheckoutsAgree ==
    ASSUME AreCheckouts(tree)
    PROVE  VerdictsAgree
<1>1. ASSUME manifest # Absent, NEW overlay
      PROVE  /\ TargetsJudged(overlay)
             /\ \A mode : ContractAgrees(mode, overlay) /\ HalvesMakeWhole(mode, overlay)
    BY <1>1, AllTargetsJudged, ContractsAgree, HalvesAgree
<1>2. \A d \in Live(tree) :
          FleetReport(tree, policy, day)[d] = (BaselinePasses(ReportOn(d, tree[d])) /\ Exists(tree[d], SurfaceFile))
    BY FleetOf DEF FleetReport
<1>3. DOMAIN FleetReport(tree, policy, day) = Live(tree)
    BY DEF FleetReport
<1> QED BY <1>1, <1>2, <1>3 DEF VerdictsAgree

-----------------------------------------------------------------------------
(* Of a lane without a human to a work tree without open ends: every state   *)
(* of git that waits for a human has a blocker that the lane looks at.       *)
LEMMA GitIsClear ==
    ASSUME NEW git \in GitType, git.ok, GitBlockers(git) \cap CleanupBlockers = {}
    PROVE  git.dirty = 0 /\ git.behind = 0 /\ git.head \in Mainline \cup {"detached"}
<1>1. ~(git.dirty > 0) /\ ~(git.behind > 0) /\ ~OffMainline(git)
    BY DEF GitBlockers, CleanupBlockers, When
<1>2. git.dirty \in Nat /\ git.behind \in Nat /\ git.head # NoBranch
    BY DEF GitType
<1>3. git.head \in Mainline \cup {"detached"}
    BY <1>1, <1>2 DEF OffMainline, BranchName, Mainline, NoBranch
<1> QED BY <1>1, <1>2, <1>3

(* A lane without a human has none of the blockers that a lane looks at.     *)
LEMMA ScoreIsSafe ==
    ASSUME AreCheckouts(tree), NEW repo, NEW mode, ScoreRepo(repo, tree, mode, policy, day).lane = "full_auto_candidate"
    PROVE  /\ Present(tree, repo.at) /\ repo.scope \in ActiveScopes
           /\ mode \notin {"passive", "archived"}
           /\ repo.baseline => BaselinePasses(ReportOn(repo.at, tree[repo.at]))
           /\ LET git == tree[repo.at].git IN
              git.ok => git.dirty = 0 /\ git.behind = 0 /\ git.head \in Mainline \cup {"detached"}
<1> DEFINE c == tree[repo.at]
           failing == repo.baseline /\ ~BaselinePasses(BaselineReport(repo.at, c, policy, day))
           blockers == PolicyBlockers(repo, mode) \cup GitBlockers(c.git) \cup When(failing, {"baseline failing"})
<1>1. Present(tree, repo.at)
    BY DEF ScoreRepo
<1>2. \E score : LaneFor(blockers, score) = "full_auto_candidate"
    BY <1>1 DEF ScoreRepo
<1>3. blockers \cap ReviewBlockers = {} /\ blockers \cap CleanupBlockers = {}
    BY <1>2 DEF LaneFor
<1>4. repo.scope \in ActiveScopes /\ mode \notin {"passive", "archived"}
    BY <1>3 DEF PolicyBlockers, When, ReviewBlockers
<1>5. ~failing
    BY <1>3 DEF When, CleanupBlockers
<1>6. c.git \in GitType
    BY <1>1 DEF Present, AreCheckouts, IsCheckout
<1>7. c.git.ok => c.git.dirty = 0 /\ c.git.behind = 0 /\ c.git.head \in Mainline \cup {"detached"}
    BY <1>3, <1>6, GitIsClear
<1> QED BY <1>1, <1>4, <1>5, <1>7 DEF ReportOn

(* Entries of the manifest with one name are one entry.                      *)
OneEntryPerName ==
    manifest # Absent =>
        \A i, j \in DOMAIN manifest : manifest[i].name = manifest[j].name => manifest[i] = manifest[j]

(* So every scorecard is safe.                                               *)
LEMMA CheckoutsAreSafe ==
    ASSUME AreCheckouts(tree), OneEntryPerName
    PROVE  AutonomyIsSafe
<1> SUFFICES ASSUME NEW card \in Cards(TRUE), card.lane = "full_auto_candidate",
                    NEW j \in DOMAIN manifest, manifest[j].name = card.repo
             PROVE  LET repo == manifest[j] IN
                    /\ Present(tree, repo.at) /\ repo.scope \in ActiveScopes
                    /\ ModeOf(policy.modes, repo.name) \notin {"passive", "archived"}
                    /\ repo.baseline => BaselinePasses(ReportOn(repo.at, tree[repo.at]))
                    /\ LET git == tree[repo.at].git IN
                       git.ok => git.dirty = 0 /\ git.behind = 0 /\ git.head \in Mainline \cup {"detached"}
    BY DEF AutonomyIsSafe
<1>1. manifest # Absent
    BY DEF Cards
<1>2. PICK i \in DOMAIN manifest :
          card = ScoreRepo(manifest[i], tree, ModeOf(policy.modes, manifest[i].name), policy, day)
    BY <1>1 DEF Cards, Scorecard
<1>3. card.repo = manifest[i].name
    BY <1>2 DEF ScoreRepo
<1>4. manifest[i] = manifest[j]
    BY <1>1, <1>3 DEF OneEntryPerName
<1> QED BY <1>2, <1>4, ScoreIsSafe

-----------------------------------------------------------------------------
(* The cycle on its own.  Its inductive invariant adds two facts: among the   *)
(* notes that exist there is a latest, and a cycle that is gated had nothing *)
(* to carry forward when it was let through.                                *)
HasLatest == DOMAIN notes # {} => \E n \in DOMAIN notes : IsLatest(n)
GatedIsClear == building # NoCycle /\ building.gated => building.note.carried = {}
CycleInv == CycleTypeOK /\ HasLatest /\ GatedIsClear /\ NothingForgotten

USE CycleAssumption

(* Of a set of numbers there is only one that no other exceeds.             *)
LEMMA GreatestIsUnique ==
    ASSUME NEW S \in SUBSET Nat, NEW n \in S, \A m \in S : m <= n
    PROVE  (CHOOSE k \in S : k \in S /\ \A m \in S : m <= k) = n
<1>1. \A k \in S : (\A m \in S : m <= k) => k = n
    <2> SUFFICES ASSUME NEW k \in S, \A m \in S : m <= k PROVE k = n
        OBVIOUS
    <2>1. k <= n /\ n <= k /\ k \in Nat /\ n \in Nat
        OBVIOUS
    <2> QED BY <2>1
<1> QED BY <1>1

(* Whatever is the greatest of the notes is the latest note.                 *)
LEMMA LatestIs ==
    ASSUME CycleTypeOK, NEW n, IsLatest(n)
    PROVE  Latest = n
<1>1. DOMAIN notes \in SUBSET Nat /\ n \in DOMAIN notes /\ \A m \in DOMAIN notes : m <= n
    BY DEF IsLatest, CycleTypeOK
<1> QED BY <1>1, GreatestIsUnique DEF Latest, IsLatest

(* The latest note is there, unless there is none at all.                    *)
LEMMA LatestExists ==
    ASSUME CycleTypeOK, HasLatest
    PROVE  IF DOMAIN notes = {} THEN Latest = NoNote ELSE IsLatest(Latest) /\ Latest \in CycleIds
<1>1. CASE DOMAIN notes = {}
    BY <1>1 DEF Latest
<1>2. CASE DOMAIN notes # {}
    <2>1. PICK n \in DOMAIN notes : IsLatest(n)
        BY <1>2 DEF HasLatest
    <2>2. Latest = n
        BY <2>1, LatestIs
    <2> QED BY <1>2, <2>1, <2>2 DEF CycleTypeOK
<1> QED BY <1>1, <1>2

(* What is known of the latest note and of what is open in it.               *)
LEMMA LatestType ==
    ASSUME CycleTypeOK, HasLatest
    PROVE  /\ Latest \in Nat
           /\ Latest = NoNote <=> DOMAIN notes = {}
           /\ Latest # NoNote => Latest \in DOMAIN notes
           /\ \A m \in DOMAIN notes : m \in Nat /\ m <= Latest
           /\ OpenIn(Latest) \subseteq Items
<1>1. CASE DOMAIN notes = {}
    BY <1>1, LatestExists DEF NoNote, OpenIn
<1>2. CASE DOMAIN notes # {}
    <2>1. Latest \in CycleIds /\ IsLatest(Latest)
        BY <1>2, LatestExists
    <2>2. Latest \in Nat /\ Latest # NoNote
        BY <2>1 DEF NoNote
    <2>3. Latest \in DOMAIN notes /\ \A m \in DOMAIN notes : m <= Latest
        BY <2>1 DEF IsLatest
    <2>4. notes[Latest].open \subseteq Items
        BY <2>3 DEF CycleTypeOK, NoteType
    <2> QED BY <1>2, <2>2, <2>3, <2>4 DEF OpenIn, CycleTypeOK
<1> QED BY <1>1, <1>2

(* What a cycle builds is a note.                                           *)
LEMMA NewNoteType ==
    ASSUME CycleTypeOK, NEW previous \in CycleIds \cup {NoNote}, NEW queue \in SUBSET Repos
    PROVE  NewNote(previous, queue) \in NoteType
<1>1. OpenIn(previous) \subseteq Items \cup {Unreadable}
    BY DEF OpenIn, CycleTypeOK, NoteType
<1>2. QueueOf(previous) \subseteq Repos
    BY DEF QueueOf, Known, CycleTypeOK, NoteType
<1>3. Known(previous) \in BOOLEAN
    BY DEF Known
<1> QED BY <1>1, <1>2, <1>3 DEF NewNote, NoteType

-----------------------------------------------------------------------------
(* The steps, one by one.                                                   *)
LEMMA InitHolds == CycleInit => CycleInv
BY DEF CycleInit, CycleInv, CycleTypeOK, HasLatest, GatedIsClear, NothingForgotten

(* A cycle that starts keeps the invariant of the notes.                      *)
LEMMA BuildKeeps ==
    ASSUME CycleInv, NEW id \in CycleIds, NEW previous \in CycleIds \cup {NoNote},
           NEW required \in BOOLEAN, NEW acknowledged \in BOOLEAN, NEW queue \in SUBSET Repos,
           BuildCycle(id, previous, required, acknowledged, queue)
    PROVE  CycleInv'
<1> USE DEF BuildCycle, CycleInv
<1>1. NewNote(previous, queue) \in NoteType
    BY NewNoteType
<1>2. (previous = Latest) \in BOOLEAN
    OBVIOUS
<1>3. CycleTypeOK'
    BY <1>1, <1>2 DEF CycleTypeOK
<1>4. Latest' = Latest /\ OpenIn(Latest)' = OpenIn(Latest)
    BY DEF Latest, IsLatest, OpenIn
<1>5. HasLatest'
    BY DEF HasLatest, IsLatest
<1>6. GatedIsClear'
    <2>1. building'.gated => required /\ ~acknowledged
        OBVIOUS
    <2>2. building'.gated => OpenIn(previous) = {}
        BY <2>1 DEF GateOpen
    <2> QED BY <2>2 DEF GatedIsClear, NewNote
<1>7. NothingForgotten'
    BY <1>4 DEF NothingForgotten
<1> QED BY <1>3, <1>5, <1>6, <1>7

(* Whichever note the cycle writes, there is a latest note afterwards: the   *)
(* new one unless its name comes before the latest.                         *)
LEMMA LatestAfterWrite ==
    ASSUME CycleInv, NEW item \in Items, WriteNote(item)
    PROVE  /\ CycleTypeOK' /\ HasLatest'
           /\ Latest' = IF building.id < Latest THEN Latest ELSE building.id
<1> USE DEF CycleInv
<1> DEFINE id == building.id
<1>1. id \in CycleIds /\ building.note \in NoteType
    BY DEF WriteNote, CycleTypeOK
<1>2. [building.note EXCEPT !.open = {item}] \in NoteType
    BY <1>1 DEF NoteType
<1>3. DOMAIN notes' = DOMAIN notes \cup {id}
    BY DEF WriteNote
<1>4. \A n \in DOMAIN notes' : notes'[n] \in NoteType
    BY <1>2, <1>3 DEF WriteNote, CycleTypeOK
<1>5. CycleTypeOK'
    <2>1. OpenIn(Latest) \subseteq Items
        BY LatestType
    <2>2. building' = NoCycle /\ noted' = noted \cup {item} /\ applied' = applied
        BY DEF WriteNote
    <2>3. waived' \subseteq waived \cup {item} \cup OpenIn(Latest)
        BY DEF WriteNote
    <2>4. late' \subseteq late \cup OpenIn(Latest)
        BY DEF WriteNote
    <2> QED BY <1>1, <1>3, <1>4, <2>1, <2>2, <2>3, <2>4 DEF CycleTypeOK
<1>6. id \in Nat /\ Latest \in Nat /\ id # NoNote
    BY <1>1, LatestType DEF NoNote
<1>7. \A m \in DOMAIN notes : m \in Nat /\ m <= Latest
    BY LatestType
<1> DEFINE n == IF id < Latest THEN Latest ELSE id
<1>8. n \in DOMAIN notes'
    BY <1>3, <1>6, LatestType DEF NoNote
<1>9. \A m \in DOMAIN notes' : m <= n
    BY <1>3, <1>6, <1>7
<1>10. DOMAIN notes' \in SUBSET Nat
    BY <1>3, <1>6, <1>7
<1>11. (CHOOSE k \in DOMAIN notes' : k \in DOMAIN notes' /\ \A m \in DOMAIN notes' : m <= k) = n
    <2> HIDE DEF n
    <2> QED BY <1>8, <1>9, <1>10, GreatestIsUnique
<1>12. Latest' = n
    BY <1>8, <1>11 DEF Latest, IsLatest
<1>13. HasLatest'
    BY <1>8, <1>9 DEF HasLatest, IsLatest
<1> QED BY <1>5, <1>12, <1>13

(* So does the note that it writes.                                          *)
LEMMA WriteKeeps ==
    ASSUME CycleInv, NEW item \in Items, WriteNote(item)
    PROVE  CycleInv'
<1>1. CycleTypeOK' /\ HasLatest'
    BY LatestAfterWrite
<1>2. GatedIsClear'
    BY DEF WriteNote, GatedIsClear
<1> DEFINE id == building.id
<1>3. id \in Nat /\ Latest \in Nat /\ id # NoNote /\ id \in DOMAIN notes'
    <2>1. id \in CycleIds
        BY DEF CycleInv, WriteNote, CycleTypeOK
    <2> QED BY <2>1, LatestType DEF CycleInv, WriteNote, NoNote
<1>4. /\ noted' = noted \cup {item} /\ applied' = applied
      /\ waived \subseteq waived' /\ late \subseteq late'
    BY DEF WriteNote
<1>5. noted \subseteq applied \cup waived \cup late \cup OpenIn(Latest)
    BY DEF CycleInv, NothingForgotten
<1>6. CASE id < Latest
    <2>1. Latest' = Latest
        BY <1>6, LatestAfterWrite
    <2>2. Latest \in DOMAIN notes /\ Latest # id /\ Latest # NoNote
        BY <1>3, <1>6, LatestType DEF CycleInv, NoNote
    <2>3. Latest \in DOMAIN notes' /\ notes'[Latest] = notes[Latest]
        BY <2>2 DEF WriteNote
    <2>4. OpenIn(Latest)' = OpenIn(Latest)
        BY <2>1, <2>2, <2>3 DEF OpenIn
    <2>5. item \in waived'
        BY <1>6 DEF WriteNote
    <2>6. NothingForgotten'
        BY <1>4, <1>5, <2>4, <2>5 DEF NothingForgotten
    <2> QED BY <1>1, <1>2, <2>6 DEF CycleInv
<1>7. CASE ~(id < Latest)
    <2>1. Latest' = id
        BY <1>7, LatestAfterWrite
    <2>2. notes'[id].open = {item}
        <3>1. notes'[id] = [building.note EXCEPT !.open = {item}]
            BY <1>3 DEF WriteNote
        <3>2. building.note \in NoteType
            BY DEF CycleInv, WriteNote, CycleTypeOK
        <3> QED BY <3>1, <3>2 DEF NoteType
    <2>3. OpenIn(Latest)' = {item}
        BY <1>3, <2>1, <2>2 DEF OpenIn
    <2>4. OpenIn(Latest) \subseteq waived' \cup late'
        <3>1. CASE building.gated
            <4>1. building.note.carried = {}
                BY <3>1 DEF CycleInv, GatedIsClear, WriteNote
            <4> QED BY <1>7, <4>1 DEF WriteNote
        <3>2. CASE ~building.gated
            BY <1>7, <3>2 DEF WriteNote
        <3> QED BY <3>1, <3>2
    <2>5. NothingForgotten'
        BY <1>4, <1>5, <2>3, <2>4 DEF NothingForgotten
    <2> QED BY <1>1, <1>2, <2>5 DEF CycleInv
<1> QED BY <1>6, <1>7

(* So does a cycle that is dropped.                                          *)
LEMMA DropKeeps ==
    ASSUME CycleInv, DropCycle
    PROVE  CycleInv'
BY DEF CycleInv, DropCycle, CycleTypeOK, HasLatest, GatedIsClear, NothingForgotten, Latest, IsLatest, OpenIn

(* What people do to the notes leaves the set of notes as it is.             *)
LEMMA AddKeeps ==
    ASSUME CycleInv, NEW item \in Items, AddItem(item)
    PROVE  CycleInv'
<1> USE DEF CycleInv, AddItem
<1>1. Latest \in DOMAIN notes
    BY LatestType
<1>2. DOMAIN notes' = DOMAIN notes
    OBVIOUS
<1>3. CycleTypeOK'
    BY <1>1, <1>2 DEF CycleTypeOK, NoteType
<1>4. HasLatest' /\ Latest' = Latest
    BY <1>2 DEF HasLatest, Latest, IsLatest
<1>5. GatedIsClear'
    BY DEF GatedIsClear
<1>6. notes'[Latest].open = notes[Latest].open \cup {item}
    BY <1>1 DEF CycleTypeOK, NoteType
<1>7. OpenIn(Latest)' = OpenIn(Latest) \cup {item}
    BY <1>1, <1>2, <1>4, <1>6 DEF OpenIn
<1>8. NothingForgotten'
    BY <1>7 DEF NothingForgotten
<1> QED BY <1>3, <1>4, <1>5, <1>8

(* So does whoever checks an item off.                                       *)
LEMMA CheckOffKeeps ==
    ASSUME CycleInv, NEW n \in CycleIds, NEW item \in Items, CheckOff(n, item)
    PROVE  CycleInv'
<1> USE DEF CycleInv, CheckOff
<1>1. DOMAIN notes' = DOMAIN notes
    OBVIOUS
<1>2. CycleTypeOK'
    BY <1>1 DEF CycleTypeOK, NoteType
<1>3. HasLatest' /\ Latest' = Latest
    BY <1>1 DEF HasLatest, Latest, IsLatest
<1>4. GatedIsClear'
    BY DEF GatedIsClear
<1>5. OpenIn(Latest) \subseteq OpenIn(Latest)' \cup {item}
    <2>1. CASE Latest = NoNote
        BY <2>1 DEF OpenIn
    <2>2. CASE Latest # NoNote
        <3>1. Latest \in DOMAIN notes
            BY <2>2, LatestType
        <3>2. notes[Latest].open \subseteq notes'[Latest].open \cup {item}
            BY <3>1 DEF CycleTypeOK, NoteType
        <3> QED BY <1>1, <1>3, <2>2, <3>1, <3>2 DEF OpenIn
    <2> QED BY <2>1, <2>2
<1>6. NothingForgotten'
    BY <1>5 DEF NothingForgotten
<1> QED BY <1>2, <1>3, <1>4, <1>6

(* So does every step.                                                       *)
LEMMA StepKeeps == CycleInv /\ [CycleNext]_cycleVars => CycleInv'
<1> SUFFICES ASSUME CycleInv, [CycleNext]_cycleVars PROVE CycleInv'
    OBVIOUS
<1>1. CASE UNCHANGED cycleVars
    BY <1>1 DEF cycleVars, CycleInv, CycleTypeOK, HasLatest, GatedIsClear, NothingForgotten, Latest, IsLatest, OpenIn
<1>2. ASSUME NEW id \in CycleIds, NEW previous \in CycleIds \cup {NoNote}, NEW required \in BOOLEAN,
             NEW acknowledged \in BOOLEAN, NEW queue \in SUBSET Repos,
             BuildCycle(id, previous, required, acknowledged, queue)
      PROVE  CycleInv'
    BY <1>2, BuildKeeps
<1>3. ASSUME NEW item \in Items, WriteNote(item) PROVE CycleInv'
    BY <1>3, WriteKeeps
<1>4. CASE DropCycle
    BY <1>4, DropKeeps
<1>5. ASSUME NEW item \in Items, AddItem(item) PROVE CycleInv'
    BY <1>5, AddKeeps
<1>6. ASSUME NEW n \in CycleIds, NEW item \in Items, CheckOff(n, item) PROVE CycleInv'
    BY <1>6, CheckOffKeeps
<1> QED BY <1>1, <1>2, <1>3, <1>4, <1>5, <1>6 DEF CycleNext

(* And so it always holds.                                                   *)
LEMMA AlwaysCycleInv == CycleSpec => []CycleInv
<1>1. CycleInv /\ [CycleNext]_cycleVars => CycleInv'
    BY StepKeeps
<1> QED BY <1>1, InitHolds, PTL DEF CycleSpec

(* The notes stay what BuildCycle and WriteMarkdown make them.               *)
THEOREM NotesAreNotes == CycleSpec => []CycleTypeOK
<1>1. CycleInv => CycleTypeOK
    BY DEF CycleInv
<1> QED BY <1>1, AlwaysCycleInv, PTL

(* However many cycles run, what was noted is applied, open in the latest     *)
(* note, left behind by choice, or came too late for the cycle that went past *)
(* it: --require-notes-applied never loses an item that it could have seen.  *)
THEOREM NoNoteForgotten == CycleSpec => []NothingForgotten
<1>1. CycleInv => NothingForgotten
    BY DEF CycleInv
<1> QED BY <1>1, AlwaysCycleInv, PTL

-----------------------------------------------------------------------------
(* The invariant of every behaviour, and what follows from it.  A file on    *)
(* disk is torn, or has the day of its run on it, except a report of the     *)
(* contract, which has none.                                               *)
Stamped(kind, stamp) == kind # "contract" => stamp \in Nat \ {0}
FilesAreStamped == \A f \in DOMAIN docs : docs[f] = Torn \/ Stamped(f.kind, docs[f].stamp)
FilesAreNamed == \A f \in DOMAIN docs : f.kind \in SavedKinds /\ f.name \in ArtifactNames /\ f.ext \in {"json", "md"}
IsRun(w) ==
    /\ w = [kind |-> w.kind, name |-> w.name, stamp |-> w.stamp, todo |-> w.todo, contents |-> w.contents]
    /\ w.kind \in SavedKinds /\ w.name \in ArtifactNames /\ w.todo \in Requests
    /\ Stamped(w.kind, w.stamp)
WorldInv ==
    /\ scenario \in DOMAIN Scenarios
    /\ AreCheckouts(tree) /\ AreInputs(inputs) /\ IsPolicy(policy) /\ day \in Nat \ {0}
    /\ manifest # Absent => IsManifest(manifest)
    /\ generating # Absent => IsManifest(generating)
ArtifactInv == FilesAreNamed /\ FilesAreStamped /\ (writing # NoRun => IsRun(writing))
WorkspaceInv == WorldInv /\ ArtifactInv /\ CycleInv

(* The scenario limits what comes of the workspace; a generated manifest     *)
(* names every entry after its directory; a generator leaves a checkout.    *)
LEMMA WorldInitially == Init => WorldInv
<1> SUFFICES ASSUME Init PROVE WorldInv
    OBVIOUS
<1>1. scenario \in DOMAIN Scenarios /\ generating = Absent
    BY DEF Init
<1>2. PICK start \in Scenarios[scenario].starts :
          /\ tree = start.tree /\ inputs = start.inputs /\ policy = start.policy /\ day = start.day
          /\ manifest = IF start.listed THEN GenerateManifest(inputs, tree) ELSE Absent
    BY DEF Init
<1>3. /\ AreCheckouts(tree) /\ AreInputs(inputs) /\ IsPolicy(policy) /\ day \in Nat \ {0}
      /\ start.listed => CanGenerate(inputs)
    BY <1>1, <1>2, ScenarioAssumption
<1>4. start.listed => IsManifest(manifest)
    BY <1>2, <1>3, GeneratedIsManifest
<1> QED BY <1>1, <1>2, <1>3, <1>4 DEF WorldInv

(* What people and other programs change stays within the scenario.          *)
LEMMA ChangeKeeps ==
    ASSUME WorldInv, Change
    PROVE  WorldInv'
<1>1. scenario' = scenario /\ manifest' = manifest /\ generating' = generating
    BY DEF Change, Spend
<1>2. \/ \E d \in Dirs : \E c \in Scenarios[scenario].checkouts[d] : ChangeCheckout(d, c)
      \/ \E in \in Scenarios[scenario].inputs : ChangeInputs(in)
      \/ \E p \in Scenarios[scenario].policies : ChangePolicy(p)
      \/ \E to \in Scenarios[scenario].days : TimePasses(to)
    BY DEF Change
<1>3. CASE \E d \in Dirs : \E c \in Scenarios[scenario].checkouts[d] : ChangeCheckout(d, c)
    <2>0. PICK d \in Dirs : \E c \in Scenarios[scenario].checkouts[d] : ChangeCheckout(d, c)
        BY <1>3
    <2>1. PICK c \in Scenarios[scenario].checkouts[d] : ChangeCheckout(d, c)
        BY <2>0
    <2>2. tree' = [tree EXCEPT ![d] = c] /\ UNCHANGED <<inputs, policy, day>>
        BY <2>1 DEF ChangeCheckout
    <2>3. c = Absent \/ IsCheckout(c)
        BY <2>1, ScenarioAssumption DEF WorldInv
    <2>4. AreCheckouts(tree')
        BY <2>2, <2>3 DEF WorldInv, AreCheckouts
    <2> QED BY <1>1, <2>2, <2>4 DEF WorldInv
<1>4. CASE \E in \in Scenarios[scenario].inputs : ChangeInputs(in)
    <2>1. PICK in \in Scenarios[scenario].inputs : inputs' = in /\ UNCHANGED <<tree, policy, day>>
        BY <1>4 DEF ChangeInputs
    <2>2. AreInputs(in)
        BY ScenarioAssumption DEF WorldInv
    <2> QED BY <1>1, <2>1, <2>2 DEF WorldInv
<1>5. CASE \E p \in Scenarios[scenario].policies : ChangePolicy(p)
    <2>1. PICK p \in Scenarios[scenario].policies : policy' = p /\ UNCHANGED <<tree, inputs, day>>
        BY <1>5 DEF ChangePolicy
    <2>2. IsPolicy(p)
        BY ScenarioAssumption DEF WorldInv
    <2> QED BY <1>1, <2>1, <2>2 DEF WorldInv
<1>6. CASE \E to \in Scenarios[scenario].days : TimePasses(to)
    <2>1. PICK to \in Scenarios[scenario].days : to > day /\ day' = to /\ UNCHANGED <<tree, inputs, policy>>
        BY <1>6 DEF TimePasses
    <2>2. to \in Nat /\ day \in Nat \ {0}
        BY ScenarioAssumption DEF WorldInv
    <2>3. to \in Nat \ {0}
        BY <2>1, <2>2
    <2> QED BY <1>1, <2>1, <2>3 DEF WorldInv
<1> QED BY <1>2, <1>3, <1>4, <1>5, <1>6

(* What a run has built as the manifest is one, and so is what it writes.    *)
LEMMA GenerateKeeps ==
    ASSUME WorldInv, StartManifest \/ EmptyManifest \/ FinishManifest \/ StopManifest
    PROVE  WorldInv'
<1>1. scenario' = scenario /\ UNCHANGED <<tree, inputs, policy, day>>
    BY DEF StartManifest, EmptyManifest, FinishManifest, StopManifest, Spend, bounds, places
<1>2. CASE StartManifest
    <2>1. IsManifest(generating')
        BY <1>2, GeneratedIsManifest DEF StartManifest, WorldInv
    <2> QED BY <1>1, <1>2, <2>1 DEF StartManifest, WorldInv
<1>3. CASE EmptyManifest
    BY <1>1, <1>3 DEF EmptyManifest, WorldInv
<1>4. CASE FinishManifest
    BY <1>1, <1>4 DEF FinishManifest, WorldInv
<1>5. CASE StopManifest
    BY <1>1, <1>5 DEF StopManifest, WorldInv
<1> QED BY <1>2, <1>3, <1>4, <1>5

(* A checkout whose generated files were renewed is a checkout.              *)
LEMMA RemedyKeeps ==
    ASSUME WorldInv, NEW d \in Dirs, Remedy(d)
    PROVE  WorldInv'
<1>1. scenario' = scenario /\ UNCHANGED <<manifest, generating, inputs, policy, day>>
    BY DEF Remedy, Spend
<1>2. PICK commands : tree' = [tree EXCEPT ![d] = Remedied(tree[d], commands)]
    BY DEF Remedy
<1>3. IsCheckout(tree[d])
    BY DEF Remedy, Present, WorldInv, AreCheckouts
<1>4. AreCheckouts(tree')
    BY <1>2, <1>3, RemediedKeeps DEF WorldInv, AreCheckouts
<1> QED BY <1>1, <1>4 DEF WorldInv

(* The queue of an audit names repositories.                                *)
LEMMA QueueIs ==
    ASSUME WorldInv, NEW all
    PROVE  BaselineQueue(AuditNow(all)) \in SUBSET Repos
<1>1. PICK audit : audit = AuditNow(all)
    OBVIOUS
<1>2. PICK n \in Nat : IsAudit(audit, n, Selected(manifest, tree, all), tree, policy, day)
    BY <1>1, AuditIs DEF WorldInv, AuditNow
<1>3. ASSUME NEW i \in 1..n PROVE audit[i].name \in Repos
    <2>1. PICK r \in Selected(manifest, tree, all) : audit[i] = AuditRepo(r, tree, policy, day)
        BY <1>2 DEF IsAudit
    <2>2. Present(tree, r.at) /\ r.name \in Dirs \ Linked
        BY SelectedIs DEF WorldInv
    <2>3. audit[i].name = r.name
        BY <2>1, <2>2, AuditRepoIs DEF WorldInv
    <2> QED BY <2>2, <2>3, ReposAssumption
<1>4. DOMAIN audit = 1..n
    BY <1>2 DEF IsAudit
<1> QED BY <1>1, <1>3, <1>4 DEF BaselineQueue

(* A run is started for a file of its kind, on a day.                        *)
LEMMA SavingKeeps ==
    ASSUME ArtifactInv, NEW kind \in SavedKinds, NEW name \in ArtifactNames, NEW todo \in Requests,
           NEW stamp, Stamped(kind, stamp), NEW body, NEW page, StartSaving(kind, name, todo, stamp, body, page)
    PROVE  ArtifactInv'
<1>1. writing' = [kind |-> kind, name |-> name, stamp |-> stamp, todo |-> todo,
                  contents |-> [json |-> body, md |-> page]]
      /\ docs' = docs
    BY DEF StartSaving
<1>2. IsRun(writing')
    BY <1>1 DEF IsRun
<1> QED BY <1>1, <1>2 DEF ArtifactInv, FilesAreNamed, FilesAreStamped

(* A run that starts is one of its kind, with the day on it.                 *)
LEMMA StartKeeps ==
    ASSUME WorldInv, ArtifactInv, NEW kind \in SavedKinds, NEW name \in ArtifactNames, NEW todo \in Requests,
           StartArtifact(kind, name, todo)
    PROVE  ArtifactInv'
<1>1. Stamped(kind, day) /\ Stamped("contract", 0)
    BY DEF Stamped, WorldInv
<1>2. CASE kind \in Kinds /\ StartWriting(kind, name, todo, day, inputs, policy.global, manifest, tree)
    BY <1>1, <1>2, SavingKeeps DEF StartWriting
<1>3. CASE /\ kind = "contract"
           /\ \E o \in Options \cap Scenarios[scenario].options, overlay \in Overlays :
                 StartContract(o, name, todo, day, inputs, overlay, policy.global, manifest, tree)
    BY <1>1, <1>3, SavingKeeps DEF StartContract
<1>4. CASE /\ kind = "surface"
           /\ \E o \in Options \cap Scenarios[scenario].options :
                 StartSurfaceIndex(o.validator, name, todo, day, inputs, policy.global, manifest, tree)
    <2>1. PICK mode : StartSurfaceIndex(mode, name, todo, day, inputs, policy.global, manifest, tree)
        BY <1>4
    <2>2. \E index, page : StartSaving(kind, name, todo, day, index, page)
        BY <1>4, <2>1 DEF StartSurfaceIndex
    <2> QED BY <1>1, <2>2, SavingKeeps
<1>5. CASE /\ kind = "primitives"
           /\ \E overlay \in Overlays : StartPrimitiveIndex(name, todo, day, overlay, inputs, manifest, tree)
    BY <1>1, <1>5, SavingKeeps DEF StartPrimitiveIndex
<1> QED BY <1>2, <1>3, <1>4, <1>5 DEF StartArtifact

(* What is put on disk is torn, or of the run.                               *)
LEMMA PutKeeps ==
    ASSUME ArtifactInv, writing # NoRun, NEW contents, Put(NextFile, contents),
           contents = Torn \/ Stamped(writing.kind, contents.stamp)
    PROVE  FilesAreNamed' /\ FilesAreStamped'
<1>1. IsRun(writing) /\ FilesAreNamed /\ FilesAreStamped
    BY DEF ArtifactInv
<1>2. PICK ext : ext \in {"json", "md"} /\ ext = Head(writing.todo)
    BY <1>1 DEF IsRun, Requests
<1>3. PICK f : f = NextFile /\ f.kind = writing.kind /\ f.name = writing.name /\ f.ext = ext
    BY <1>2 DEF NextFile, File
<1>4. docs' = [g \in DOMAIN docs \cup {f} |-> IF g = f THEN contents ELSE docs[g]]
    BY <1>3 DEF Put
<1>5. FilesAreNamed'
    BY <1>1, <1>2, <1>3, <1>4 DEF FilesAreNamed, IsRun
<1>6. FilesAreStamped'
    BY <1>1, <1>3, <1>4 DEF FilesAreStamped
<1> QED BY <1>5, <1>6

(* What a run writes, or tears, is stamped, or torn.                         *)
LEMMA GoOnKeeps ==
    ASSUME ArtifactInv, GoOnWriting
    PROVE  ArtifactInv'
<1>1. writing # NoRun /\ IsRun(writing)
    BY DEF GoOnWriting, WriteFile, TearFile, StopWriting, ArtifactInv
<1>2. CASE WriteFile
    <2>1. NextContents.stamp = writing.stamp
        BY DEF NextContents
    <2>2. FilesAreNamed' /\ FilesAreStamped'
        BY <1>1, <1>2, <2>1, PutKeeps DEF WriteFile, IsRun
    <2>3. CASE Len(writing.todo) = 1
        BY <1>2, <2>2, <2>3 DEF WriteFile, Stop, ArtifactInv
    <2>4. CASE Len(writing.todo) # 1
        <3>1. writing' = [writing EXCEPT !.todo = Tail(@)]
            BY <1>2, <2>4 DEF WriteFile
        <3>2. Tail(writing.todo) \in Requests
            <4>1. PICK todo : todo = writing.todo
                OBVIOUS
            <4>2. todo \in Requests /\ Len(todo) # 1
                BY <1>1, <2>4, <4>1 DEF IsRun
            <4>3. todo = <<"json", "md">>
                BY <4>2 DEF Requests
            <4>4. Tail(todo) = <<"md">>
                BY <4>3
            <4> QED BY <4>1, <4>4 DEF Requests
        <3>3. writing' = [kind |-> writing.kind, name |-> writing.name, stamp |-> writing.stamp,
                          todo |-> Tail(writing.todo), contents |-> writing.contents]
            BY <1>1, <3>1 DEF IsRun
        <3>4. IsRun(writing')
            BY <1>1, <3>2, <3>3 DEF IsRun
        <3> QED BY <2>2, <3>4 DEF ArtifactInv
    <2> QED BY <2>3, <2>4
<1>3. CASE TearFile
    <2>1. FilesAreNamed' /\ FilesAreStamped'
        BY <1>1, <1>3, PutKeeps DEF TearFile
    <2> QED BY <1>3, <2>1 DEF TearFile, Stop, ArtifactInv
<1>4. CASE StopWriting
    BY <1>4 DEF StopWriting, Stop, ArtifactInv, FilesAreNamed, FilesAreStamped
<1> QED BY <1>2, <1>3, <1>4 DEF GoOnWriting

(* Every checkout is one, every name in the manifest has one entry, and every *)
(* file on disk is torn or stamped, whatever happens; and the notes are those *)
(* of cycles.                                                              *)
THEOREM WorkspaceInvariant == Spec => []WorkspaceInv
<1>1. Init => WorkspaceInv
    <2>1. Init => ArtifactInv
        BY DEF Init, ArtifactInit, ArtifactInv, FilesAreNamed, FilesAreStamped
    <2> QED BY <2>1, WorldInitially, InitHolds DEF Init, WorkspaceInv
<1>2. WorkspaceInv /\ [Next]_vars => WorkspaceInv'
    <2> SUFFICES ASSUME WorldInv, ArtifactInv, CycleInv, [Next]_vars PROVE WorkspaceInv'
        BY DEF WorkspaceInv
    <2>1. UNCHANGED <<scenario, places, manifest, generating>> => WorldInv'
        BY DEF WorldInv, places
    <2>2. UNCHANGED artifactVars => ArtifactInv'
        BY DEF artifactVars, ArtifactInv, FilesAreNamed, FilesAreStamped
    <2>3. UNCHANGED cycleVars => CycleInv'
        BY StepKeeps
    <2>4. CASE Change
        BY <2>2, <2>3, <2>4, ChangeKeeps DEF Change, WorkspaceInv
    <2>5. CASE StartManifest \/ EmptyManifest \/ FinishManifest \/ StopManifest
        <3>1. WorldInv'
            BY <2>5, GenerateKeeps
        <3>2. UNCHANGED <<artifactVars, cycleVars>>
            BY <2>5 DEF StartManifest, EmptyManifest, FinishManifest, StopManifest
        <3> QED BY <2>2, <2>3, <3>1, <3>2 DEF WorkspaceInv
    <2>6. CASE \E d \in Dirs : Remedy(d)
        BY <2>2, <2>3, <2>6, RemedyKeeps DEF Remedy, WorkspaceInv
    <2>7. ASSUME NEW id \in CycleIds, NEW previous \in CycleIds \cup {NoNote}, NEW required \in BOOLEAN,
                 NEW acknowledged \in BOOLEAN, NEW all \in BOOLEAN, RunCycle(id, previous, required, acknowledged, all)
          PROVE  WorkspaceInv'
        <3>1. UNCHANGED <<scenario, places, manifest, generating, artifactVars>>
            BY <2>7 DEF RunCycle, Spend
        <3>2. CycleInv'
            BY <2>7, QueueIs, BuildKeeps DEF RunCycle
        <3> QED BY <2>1, <2>2, <3>1, <3>2 DEF WorkspaceInv
    <2>8. CASE FinishCycle \/ EditNotes
        <3>1. UNCHANGED <<scenario, places, manifest, generating, artifactVars>>
            BY <2>8 DEF FinishCycle, EditNotes, bounds
        <3>2. CycleInv'
            BY <2>8, WriteKeeps, DropKeeps, AddKeeps, CheckOffKeeps DEF FinishCycle, EditNotes
        <3> QED BY <2>1, <2>2, <3>1, <3>2 DEF WorkspaceInv
    <2>9. CASE \E save \in Scenarios[scenario].saves : StartArtifact(save[1], save[2], save[3])
        <3>1. PICK save \in Scenarios[scenario].saves : StartArtifact(save[1], save[2], save[3])
            BY <2>9
        <3>2. save[1] \in SavedKinds /\ save[2] \in ArtifactNames /\ save[3] \in Requests
            BY <3>1, ScenarioAssumption DEF WorldInv
        <3>3. UNCHANGED <<scenario, places, manifest, generating, cycleVars>>
            BY <3>1 DEF StartArtifact, Spend
        <3>4. ArtifactInv'
            BY <3>1, <3>2, StartKeeps
        <3> QED BY <2>1, <2>3, <3>3, <3>4 DEF WorkspaceInv
    <2>10. CASE GoOnWriting
        <3>1. UNCHANGED <<scenario, places, manifest, generating, cycleVars>>
            BY <2>10 DEF GoOnWriting, Spend, bounds
        <3> QED BY <2>1, <2>3, <2>10, <3>1, GoOnKeeps DEF WorkspaceInv
    <2>11. CASE UNCHANGED vars
        BY <2>1, <2>2, <2>3, <2>11 DEF vars, bounds, WorkspaceInv
    <2> QED BY <2>4, <2>5, <2>6, <2>7, <2>8, <2>9, <2>10, <2>11 DEF Next
<1> QED BY <1>1, <1>2, PTL DEF Spec

(* The workspace, the artifacts and the notes stay what they are made of.    *)
THEOREM WorkspaceTypes == Spec => []TypeOK
<1>1. WorkspaceInv => TypeOK
    BY DEF WorkspaceInv, WorldInv, ArtifactInv, CycleInv, FilesAreNamed, IsRun, IsManifest, TypeOK
<1> QED BY <1>1, WorkspaceInvariant, PTL

(* The commands that a baseline report offers leave nothing of what they are *)
(* offered for but errors that it named, and break nothing but the launcher  *)
(* rule, and that only where a profile brings in a launcher that the sync    *)
(* lets through (remediationForCheck, guard.go, validatePortableLaunch).     *)
THEOREM EveryCommandRemedies == Spec => []CommandsRemedy
<1>1. WorkspaceInv => CommandsRemedy
    BY CheckoutsRemedy DEF WorkspaceInv, WorldInv
<1> QED BY <1>1, WorkspaceInvariant, PTL

(* Baseline, source contract and fleet audit agree on every checkout, under  *)
(* every overlay and validator mode, up to what the validator of one of them *)
(* complains of (sourcecontract.Check, fleetaudit.Audit, baselineguard.Check *)
(* and DiscoverWorkspaceTargetsWithOverlay).                                *)
THEOREM AllVerdictsAgree == Spec => []VerdictsAgree
<1>1. WorkspaceInv => VerdictsAgree
    BY CheckoutsAgree DEF WorkspaceInv, WorldInv
<1> QED BY <1>1, WorkspaceInvariant, PTL

(* No repository gets a lane without a human while something in it that git   *)
(* or the baseline shows waits for one (laneFor, readiness.go).             *)
THEOREM NoUnsafeAutonomy == Spec => []AutonomyIsSafe
<1>1. WorkspaceInv => AutonomyIsSafe
    BY CheckoutsAreSafe DEF WorkspaceInv, WorldInv, IsManifest, OneEntryPerName
<1> QED BY <1>1, WorkspaceInvariant, PTL

-----------------------------------------------------------------------------
IsSeq(s) == s \in Seq(ToSet(s))

(* A function on a range that starts with one is a sequence.                 *)
LEMMA FunctionsAreSeqs ==
    ASSUME NEW n \in Nat, NEW s, DOMAIN s = 1..n, s = [i \in 1..n |-> s[i]]
    PROVE  IsSeq(s) /\ Len(s) = n /\ \A x : x \in ToSet(s) <=> \E i \in 1..n : s[i] = x
<1>1. \A x : x \in ToSet(s) <=> \E i \in 1..n : s[i] = x
    BY DEF ToSet
<1>2. s \in [1..n -> ToSet(s)]
    BY <1>1
<1>3. s \in Seq(ToSet(s))
    BY <1>2, SeqDef
<1> QED BY <1>1, <1>3, LenProperties DEF IsSeq

(* What is in the one sequence was in one of the sequences.                  *)
LEMMA FlattenHolds ==
    ASSUME NEW n \in Nat, NEW seqs, DOMAIN seqs = 1..n, seqs = [i \in 1..n |-> seqs[i]],
           \A i \in 1..n : IsSeq(seqs[i])
    PROVE  /\ IsSeq(FlattenSeq(seqs))
           /\ \A x \in ToSet(FlattenSeq(seqs)) : \E i \in 1..n : x \in ToSet(seqs[i])
<1>1. PICK U : U = UNION {ToSet(seqs[i]) : i \in 1..n}
    OBVIOUS
<1>2. \A i \in 1..n : seqs[i] \in Seq(U)
    <2> TAKE i \in 1..n
    <2>1. PICK m \in Nat : seqs[i] \in [1..m -> ToSet(seqs[i])]
        BY SeqDef DEF IsSeq
    <2>2. seqs[i] \in [1..m -> U]
        BY <1>1, <2>1
    <2> QED BY <2>2, SeqDef
<1>3. seqs \in Seq(Seq(U))
    <2>1. seqs \in [1..n -> Seq(U)]
        BY <1>2
    <2>2. PICK V : V = Seq(U)
        OBVIOUS
    <2>3. seqs \in Seq(V)
        BY <2>1, <2>2, SeqDef
    <2> QED BY <2>2, <2>3
<1>4. PICK s : s = FlattenSeq(seqs)
    OBVIOUS
<1>5. s \in Seq(U)
    BY <1>3, <1>4, FlattenIs
<1>6. PICK m \in Nat : s \in [1..m -> U]
    BY <1>5, SeqDef
<1>7. IsSeq(s) /\ \A x \in ToSet(s) : x \in U
    BY <1>6, FunctionsAreSeqs
<1> QED BY <1>1, <1>4, <1>7

(* What is in two sequences put together was in one of them.                 *)
LEMMA ConcatHolds ==
    ASSUME NEW s, IsSeq(s), NEW t, IsSeq(t)
    PROVE  IsSeq(s \o t) /\ \A x \in ToSet(s \o t) : x \in ToSet(s) \/ x \in ToSet(t)
<1>1. PICK U, S, T : S = ToSet(s) /\ T = ToSet(t) /\ U = S \cup T
    OBVIOUS
<1>2. PICK m \in Nat, n \in Nat : s \in [1..m -> S] /\ t \in [1..n -> T]
    BY <1>1, SeqDef DEF IsSeq
<1>3. s \in Seq(U) /\ t \in Seq(U)
    <2>1. s \in [1..m -> U] /\ t \in [1..n -> U]
        BY <1>1, <1>2
    <2> QED BY <2>1, SeqDef
<1>4. PICK r : r = s \o t
    OBVIOUS
<1>5. r \in Seq(U)
    BY <1>3, <1>4, ConcatProperties
<1>6. PICK k \in Nat : r \in [1..k -> U]
    BY <1>5, SeqDef
<1>7. IsSeq(r) /\ \A x \in ToSet(r) : x \in U
    BY <1>6, FunctionsAreSeqs
<1> QED BY <1>1, <1>4, <1>7

(* There is nothing in the empty sequence.                                   *)
LEMMA EmptyHolds == IsSeq(<<>>) /\ ToSet(<<>>) = {}
BY EmptySeq DEF IsSeq, ToSet

(* Entries for some providers differ in the provider and its name only.      *)
LEMMA EntriesHold ==
    ASSUME NEW providers, NEW stem, NEW repo, NEW from, NEW type, NEW launch
    PROVE  LET s == EntriesFor(providers, stem, repo, from, type, launch) IN
           /\ IsSeq(s)
           /\ \A e \in ToSet(s) : e.repo = repo /\ e.from = from /\ e.type = type /\ e.launch = launch
<1>1. PICK all, n, I : all = <<"codex", "claude", "gemini">> /\ n = 3 /\ I = {i \in DOMAIN all : all[i] \in providers}
    OBVIOUS
<1>2. I \in SUBSET (1..n) /\ n \in Nat
    BY <1>1
<1>3. PICK m \in Nat : \E g : PickedBy(g, m, I, all, Pick(all, I))
    BY <1>2, PickIs
<1>4. PICK order : order = Pick(all, I)
    OBVIOUS
<1>5. DOMAIN order = 1..m
    BY <1>3, <1>4 DEF PickedBy
<1>6. PICK s : s = [i \in 1..m |-> Entry(order[i], stem, repo, from, type, launch)]
    OBVIOUS
<1>7. EntriesFor(providers, stem, repo, from, type, launch) = s
    BY <1>1, <1>4, <1>5, <1>6 DEF EntriesFor
<1>8. DOMAIN s = 1..m /\ s = [i \in 1..m |-> s[i]]
    BY <1>6
<1>9. IsSeq(s) /\ \A x : x \in ToSet(s) <=> \E i \in 1..m : s[i] = x
    BY <1>8, FunctionsAreSeqs
<1>10. \A i \in 1..m : s[i].repo = repo /\ s[i].from = from /\ s[i].type = type /\ s[i].launch = launch
    BY <1>6 DEF Entry
<1> QED BY <1>7, <1>9, <1>10

(* A set of numbers within a range has a greatest one.                       *)
LEMMA GreatestIn ==
    ASSUME NEW n \in Nat, NEW S, S \subseteq 1..n, S # {}
    PROVE  \E i \in S : \A j \in S : j <= i
<1>1. IsFiniteSet(S)
    <2>1. IsFiniteSet(1..n)
        BY FS_Interval
    <2> QED BY <2>1, FS_Subset
<1>2. PICK key : key = [i \in S |-> -i]
    OBVIOUS
<1>3. \A i \in S : key[i] \in Int
    BY <1>2
<1>4. PICK i \in S : \A j \in S : key[i] <= key[j]
    BY <1>1, <1>3, LeastKey
<1>5. \A j \in S : j <= i
    <2> TAKE j \in S
    <2>1. key[i] = -i /\ key[j] = -j /\ i \in Int /\ j \in Int
        BY <1>2
    <2> QED BY <1>4, <2>1
<1> QED BY <1>5

EntryOf(m, name, default) == LastOf(m, LAMBDA r : r.name = name, default)

(* Whichever entry of a name is taken, it is the one that there is.          *)
LEMMA EntryIs ==
    ASSUME NEW m, IsManifest(m), NEW j \in DOMAIN m, NEW name, m[j].name = name, NEW default
    PROVE  /\ FirstOf(m, name) = m[j]
           /\ EntryOf(m, name, default) = m[j]
<1>1. PICK n \in Nat : DOMAIN m = 1..n
    BY LenProperties DEF IsManifest
<1>2. PICK S : S = {i \in DOMAIN m : m[i].name = name}
    OBVIOUS
<1>3. S \subseteq 1..n /\ S \subseteq Nat /\ S # {} /\ \A i \in S : m[i] = m[j]
    BY <1>1, <1>2 DEF IsManifest
<1>4. FirstOf(m, name) = m[j]
    <2>1. PICK i \in S : \A k \in S : i <= k
        BY <1>3, LeastIn
    <2>2. \A k \in 1..(i - 1) : m[k].name # name
        <3> SUFFICES ASSUME NEW k \in 1..(i - 1), m[k].name = name PROVE FALSE
            OBVIOUS
        <3>1. k \in S /\ ~(i <= k)
            BY <1>1, <1>2, <1>3
        <3> QED BY <2>1, <3>1
    <2>3. i \in DOMAIN m /\ m[i].name = name
        BY <1>2
    <2>4. PICK k : k = CHOOSE x \in DOMAIN m : m[x].name = name /\ \A l \in 1..(x - 1) : m[l].name # name
        OBVIOUS
    <2>5. k \in DOMAIN m /\ m[k].name = name
        BY <2>2, <2>3, <2>4
    <2>6. FirstOf(m, name) = m[k]
        BY <2>4 DEF FirstOf
    <2> QED BY <1>2, <1>3, <2>5, <2>6
<1>5. EntryOf(m, name, default) = m[j]
    <2>1. PICK i \in S : \A k \in S : k <= i
        BY <1>1, <1>3, GreatestIn
    <2>2. PICK i2 : i2 = CHOOSE x \in S : \A y \in S : y <= x
        OBVIOUS
    <2>3. i2 \in S
        BY <2>1, <2>2
    <2>4. EntryOf(m, name, default) = m[i2]
        BY <1>2, <1>3, <2>2 DEF EntryOf, LastOf
    <2> QED BY <1>3, <2>3, <2>4
<1> QED BY <1>2, <1>4, <1>5

(* The files that match what was built are whole, and of one day.            *)
LEMMA MatchedFiles ==
    ASSUME WorldInv, ArtifactInv, NEW kind, kind # "contract", NEW body, NEW page, FilesMatch(kind, body, page, day)
    PROVE  /\ {CheckedJson(kind), CheckedPage(kind)} \subseteq DOMAIN docs
           /\ Torn \notin {docs[CheckedJson(kind)], docs[CheckedPage(kind)]}
           /\ docs[CheckedJson(kind)] = [stamp |-> StampOf(kind, day), body |-> body]
           /\ docs[CheckedPage(kind)] = [stamp |-> StampOf(kind, day), body |-> page]
<1>1. PICK f, g, s : f = CheckedJson(kind) /\ g = CheckedPage(kind) /\ s = StampOf(kind, day)
    OBVIOUS
<1>2. f \in DOMAIN docs /\ g \in DOMAIN docs /\ docs[f] = [stamp |-> s, body |-> body] /\ docs[g] = [stamp |-> s, body |-> page]
    BY <1>1 DEF FilesMatch, Matches
<1>3. f.kind = kind
    BY <1>1 DEF CheckedJson, File
<1>4. s # 0
    <2>1. CASE docs[f] = Torn
        <3>1. s = day
            BY <1>1, <2>1 DEF StampOf
        <3> QED BY <3>1 DEF WorldInv
    <2>2. CASE docs[f] # Torn
        <3>1. s = docs[f].stamp
            BY <1>1, <1>2, <2>2 DEF StampOf
        <3>2. Stamped(f.kind, docs[f].stamp)
            BY <1>2, <2>2 DEF ArtifactInv, FilesAreStamped
        <3> QED BY <1>3, <3>1, <3>2 DEF Stamped
    <2> QED BY <2>1, <2>2
<1>5. \A x : [stamp |-> s, body |-> x] # Torn
    <2> TAKE x
    <2>1. [stamp |-> s, body |-> x].stamp = s /\ Torn.stamp = 0
        BY DEF Torn
    <2> QED BY <1>4, <2>1
<1> QED BY <1>1, <1>2, <1>5

(* Of the servers that an artifact shows, those of the repositories are the  *)
(* ones that are offered now.                                              *)
LEMMA OffersAreShown ==
    ASSUME NEW rules
    PROVE  LET servers == RuntimeServers(inputs, rules, manifest, tree)
               offered == {<<o[1], o[2].name>> : o \in
                              {o \in Offered(tree) : WhySkipped(rules, manifest, o[1], o[2]) = <<>>}}
           IN  {<<s.repo, s.server>> : s \in {s \in servers : s.repo # RootName}} = offered
<1>1. PICK O : O = {o \in Offered(tree) : WhySkipped(rules, manifest, o[1], o[2]) = <<>>}
    OBVIOUS
<1>2. PICK served : served = [o \in O |-> Served(o[1], MetaOf(manifest, o[1]), o[2])]
    OBVIOUS
<1>3. \A o \in O : served[o].repo = o[1] /\ served[o].server = o[2].name /\ o[1] # RootName
    <2> TAKE o \in O
    <2>1. o \in Offered(tree)
        BY <1>1
    <2>2. o[1] \in McpDirs(tree)
        BY <2>1 DEF Offered
    <2> QED BY <1>2, <2>2, RootAssumption DEF McpDirs, Served
<1>4. PICK R : R = RootServers(rules, inputs)
    OBVIOUS
<1>5. \A s \in R : s.repo = RootName
    BY <1>4 DEF RootServers, Served
<1>6. RuntimeServers(inputs, rules, manifest, tree) = R \cup {served[o] : o \in O}
    BY <1>1, <1>2, <1>4 DEF RuntimeServers
<1>7. {s \in R \cup {served[o] : o \in O} : s.repo # RootName} = {served[o] : o \in O}
    BY <1>3, <1>5
<1>8. {<<s.repo, s.server>> : s \in {served[o] : o \in O}} = {<<o[1], o[2].name>> : o \in O}
    BY <1>3
<1> QED BY <1>1, <1>6, <1>7, <1>8

(* An entry that no profile asked for launches as its source says.           *)
Follows(e) == e.type # "profile" => e.launch = SourceLaunch(e)

(* The servers of the workspace root do.                                     *)
LEMMA RootEntriesFollow ==
    IsSeq(RootEntries(inputs)) /\ \A e \in ToSet(RootEntries(inputs)) : Follows(e)
<1>1. CASE inputs.root = Absent
    BY <1>1, EmptyHolds DEF RootEntries
<1>2. CASE inputs.root # Absent
    <2>1. PICK n, I : n = 3 /\ I = {i \in DOMAIN Foundational : HasServer(inputs.root, Foundational[i])}
        OBVIOUS
    <2>2. I \in SUBSET (1..n) /\ n \in Nat
        BY <2>1 DEF Foundational
    <2>3. PICK m \in Nat : \E g : PickedBy(g, m, I, Foundational, Pick(Foundational, I))
        BY <2>2, PickIs
    <2>4. PICK found : found = Pick(Foundational, I)
        OBVIOUS
    <2>5. DOMAIN found = 1..m
        BY <2>3, <2>4 DEF PickedBy
    <2>6. PICK seqs : seqs = [i \in 1..m |->
              EntriesFor(Providers, <<found[i]>>, RootName, found[i], "root_foundational",
                         ServerNamed(inputs.root, found[i]).launch)]
        OBVIOUS
    <2>7. RootEntries(inputs) = FlattenSeq(seqs)
        BY <1>2, <2>1, <2>4, <2>5, <2>6 DEF RootEntries
    <2>8. \A i \in 1..m : IsSeq(seqs[i]) /\ \A e \in ToSet(seqs[i]) : Follows(e)
        <3> TAKE i \in 1..m
        <3>1. PICK launch : launch = ServerNamed(inputs.root, found[i]).launch
            OBVIOUS
        <3>2. seqs[i] = EntriesFor(Providers, <<found[i]>>, RootName, found[i], "root_foundational", launch)
            BY <2>6, <3>1
        <3>3. IsSeq(seqs[i]) /\ \A e \in ToSet(seqs[i]) : e.repo = RootName /\ e.from = found[i] /\ e.launch = launch
            BY <3>2, EntriesHold
        <3> QED BY <3>1, <3>3 DEF Follows, SourceLaunch
    <2>9. DOMAIN seqs = 1..m /\ seqs = [i \in 1..m |-> seqs[i]]
        BY <2>6
    <2> QED BY <2>7, <2>8, <2>9, FlattenHolds
<1> QED BY <1>1, <1>2

(* So do those of a repository, asked for or raw.                            *)
LEMMA ProfileEntriesFollow ==
    ASSUME manifest # Absent, IsManifest(manifest), AreCheckouts(tree),
           NEW j \in DOMAIN manifest, NEW c, c = tree[manifest[j].at], NEW p
    PROVE  LET s == ProfileEntries(manifest[j].name, c, p) IN
           IsSeq(s) /\ \A e \in ToSet(s) : Follows(e)
<1>1. PICK r : r = manifest[j]
    OBVIOUS
<1>2. FirstOf(manifest, r.name) = r /\ r.name \in Dirs
    BY <1>1, EntryIs DEF IsManifest
<1>3. PICK source : source = ServerNamed(c.servers, p.from).launch
    OBVIOUS
<1>10. PICK repo, from, asked, unasked, stem, launch :
           /\ repo = r.name /\ from = p.from
           /\ asked = p.global \cup Unasked(p.mode) /\ unasked = {"claude", "gemini"} /\ stem = <<r.name, "_", p.from>>
           /\ launch = IF p.launch # "inherited" THEN p.launch ELSE source
    OBVIOUS
<1>11. PICK of, bare : of = p.stem /\ bare = "raw_source"
    OBVIOUS
<1>4. PICK a, b : /\ a = EntriesFor(asked, of, repo, from, "profile", launch)
                  /\ b = EntriesFor(unasked, stem, repo, from, bare, source)
    OBVIOUS
<1>5. IsSeq(a) /\ \A e \in ToSet(a) : Follows(e)
    <2>1. IsSeq(a) /\ \A e \in ToSet(a) : e.type = "profile"
        BY <1>4, EntriesHold
    <2> QED BY <2>1 DEF Follows
<1>6. IsSeq(b) /\ \A e \in ToSet(b) : Follows(e)
    <2>1. IsSeq(b) /\ \A e \in ToSet(b) : e.repo = repo /\ e.from = from /\ e.launch = source
        BY <1>4, EntriesHold
    <2>2. \A e \in ToSet(b) : SourceLaunch(e) = source
        BY <1>1, <1>2, <1>3, <1>10, <2>1, RootAssumption DEF SourceLaunch
    <2> QED BY <2>1, <2>2 DEF Follows
<1>7. PICK raw : raw = (IF p.raw THEN b ELSE <<>>)
    OBVIOUS
<1>8. IsSeq(raw) /\ \A e \in ToSet(raw) : Follows(e)
    BY <1>6, <1>7, EmptyHolds
<1>9. ProfileEntries(r.name, c, p) = a \o raw
    BY <1>3, <1>4, <1>7, <1>10, <1>11 DEF ProfileEntries
<1> QED BY <1>1, <1>5, <1>8, <1>9, ConcatHolds

(* So does every entry of the projection.                                    *)
LEMMA EntriesFollow ==
    ASSUME manifest # Absent, WorldInv
    PROVE  \A e \in FirstEntries(ProviderCandidates(inputs, manifest, tree)) : Follows(e)
<1>0. IsManifest(manifest) /\ AreCheckouts(tree)
    BY DEF WorldInv
<1>1. PICK n \in Nat : DOMAIN manifest = 1..n
    BY <1>0, LenProperties DEF IsManifest
<1>2. PICK I : I = {j \in DOMAIN manifest :
                       LET r == manifest[j] IN
                       /\ r.baseline /\ Present(tree, r.at)
                       /\ Exists(tree[r.at], ".mcp.json") /\ Exists(tree[r.at], ProfileFile)}
    OBVIOUS
<1>3. I \in SUBSET (1..n)
    BY <1>1, <1>2
<1>4. PICK m \in Nat : \E g : PickedBy(g, m, I, manifest, Pick(manifest, I))
    BY <1>3, PickIs
<1>5. PICK repos : repos = Pick(manifest, I)
    OBVIOUS
<1>6. PICK g : PickedBy(g, m, I, manifest, repos)
    BY <1>4, <1>5
<1>7. DOMAIN repos = 1..m /\ \A i \in 1..m : g[i] \in I /\ repos[i] = manifest[g[i]]
    BY <1>6 DEF PickedBy
<1>8. repos = Profiled(manifest, tree)
    BY <1>2, <1>5 DEF Profiled
<1> DEFINE of(r) == FlattenSeq([i \in DOMAIN tree[r.at].profiles |->
                                   ProfileEntries(r.name, tree[r.at], tree[r.at].profiles[i])])
<1>9. PICK seqs : seqs = [i \in 1..m |-> of(repos[i])]
    OBVIOUS
<1>10. \A i \in 1..m : IsSeq(seqs[i]) /\ \A e \in ToSet(seqs[i]) : Follows(e)
    <2> TAKE i \in 1..m
    <2>1. PICK j \in DOMAIN manifest : repos[i] = manifest[j] /\ Present(tree, manifest[j].at)
        BY <1>2, <1>7
    <2>2. PICK c : c = tree[manifest[j].at]
        OBVIOUS
    <2>3. c.profiles \in Seq(ToSet(c.profiles))
        BY <1>0, <2>1, <2>2 DEF Present, AreCheckouts, IsCheckout
    <2>4. PICK k \in Nat : DOMAIN c.profiles = 1..k
        BY <2>3, LenProperties
    <2>5. PICK parts : parts = [x \in 1..k |-> ProfileEntries(manifest[j].name, c, c.profiles[x])]
        OBVIOUS
    <2>6. seqs[i] = FlattenSeq(parts)
        BY <1>9, <2>1, <2>2, <2>4, <2>5
    <2>7. \A x \in 1..k : IsSeq(parts[x]) /\ \A e \in ToSet(parts[x]) : Follows(e)
        BY <1>0, <2>2, <2>5, ProfileEntriesFollow
    <2>8. DOMAIN parts = 1..k /\ parts = [x \in 1..k |-> parts[x]]
        BY <2>5
    <2> QED BY <2>6, <2>7, <2>8, FlattenHolds
<1>11. PICK all : all = FlattenSeq(seqs)
    OBVIOUS
<1>12. IsSeq(all) /\ \A e \in ToSet(all) : Follows(e)
    <2>1. DOMAIN seqs = 1..m /\ seqs = [i \in 1..m |-> seqs[i]]
        BY <1>9
    <2> QED BY <1>10, <1>11, <2>1, FlattenHolds
<1>13. ProviderCandidates(inputs, manifest, tree) = RootEntries(inputs) \o all
    BY <1>7, <1>8, <1>9, <1>11 DEF ProviderCandidates
<1>14. PICK candidates : candidates = RootEntries(inputs) \o all
    OBVIOUS
<1>15. \A e \in ToSet(candidates) : Follows(e)
    BY <1>12, <1>14, RootEntriesFollow, ConcatHolds
<1>16. \A e \in FirstEntries(candidates) : e \in ToSet(candidates)
    BY DEF FirstEntries, ToSet
<1> QED BY <1>13, <1>14, <1>15, <1>16

(* Whoever reads an artifact that passes sees what there is.                 *)
LEMMA PassedIsSeen ==
    ASSUME WorldInv, ArtifactInv, NEW kind \in Kinds,
           ArtifactsPass(kind, day, inputs, policy.global, manifest, tree)
    PROVE  /\ ReaderSees(kind)
           /\ docs[CheckedJson(kind)] = [stamp |-> StampOf(kind, day),
                                         body |-> Build(kind, inputs, policy.global, manifest, tree)]
<1>1. PICK body : body = Build(kind, inputs, policy.global, manifest, tree)
    OBVIOUS
<1>2. CanBuild(kind, inputs, policy.global, manifest, tree) /\ FilesMatch(kind, body, Page(body), day)
    BY <1>1 DEF ArtifactsPass
<1>3. PICK json, page, stamp : /\ json = docs[CheckedJson(kind)] /\ page = docs[CheckedPage(kind)]
                               /\ stamp = StampOf(kind, day)
    OBVIOUS
<1>4. /\ {CheckedJson(kind), CheckedPage(kind)} \subseteq DOMAIN docs /\ Torn \notin {json, page}
      /\ json = [stamp |-> stamp, body |-> body] /\ page = [stamp |-> stamp, body |-> Page(body)]
    <2>1. kind # "contract"
        BY DEF Kinds
    <2> QED BY <1>2, <1>3, <2>1, MatchedFiles
<1>5. PICK rules, servers, entries : /\ rules = RulesOf(policy.global)
                                     /\ servers = RuntimeServers(inputs, rules, manifest, tree)
                                     /\ entries = IF kind = "projection" THEN FirstEntries(ProviderCandidates(inputs, manifest, tree)) ELSE {}
    OBVIOUS
<1>6. body.servers = servers /\ body.entries = entries
    BY <1>1, <1>2, <1>5 DEF Build
<1>7. Page(body).servers = PageServers(body)
    BY DEF Page
<1>8. PICK offered : offered = {<<o[1], o[2].name>> : o \in
                                   {o \in Offered(tree) : WhySkipped(rules, manifest, o[1], o[2]) = <<>>}}
    OBVIOUS
<1>9. {<<s.repo, s.server>> : s \in {s \in servers : s.repo # RootName}} = offered
    BY <1>5, <1>8, OffersAreShown
<1>10. {<<s.repo, s.server>> : s \in {s \in PageServers(body) : s.repo # RootName}} = offered
    <2>1. PICK shown : shown = [s \in servers |-> [repo |-> s.repo, server |-> s.server, scope |-> s.scope, status |-> s.status]]
        OBVIOUS
    <2>2. PageServers(body) = {shown[s] : s \in servers}
        BY <1>6, <2>1 DEF PageServers
    <2>3. \A s \in servers : shown[s].repo = s.repo /\ shown[s].server = s.server
        BY <2>1
    <2> HIDE DEF PageServers
    <2> QED BY <1>9, <2>2, <2>3
<1>11. \A e \in entries : Follows(e)
    <2>1. manifest # Absent
        BY <1>2 DEF CanBuild
    <2> QED BY <1>5, <2>1, EntriesFollow
<1>12. ReaderSees(kind)
    BY <1>3, <1>4, <1>5, <1>6, <1>7, <1>8, <1>9, <1>10, <1>11 DEF ReaderSees, Follows
<1> QED BY <1>1, <1>3, <1>4, <1>12

(* A repository that keeps its contract has nothing to regenerate, for a     *)
(* baseline whose validator does not complain.                              *)
LEMMA KeptIsJudged ==
    ASSUME NEW d, IsCheckout(tree[d]), NEW o, RepoKept(tree[d], o), LooksAtSkills(tree[d], o), LooksAtMcp(tree[d], o),
           tree[d].localSkills = "none", tree[d].localMcp = "none"
    PROVE  Unfaulted(d, tree[d], o.validator)
<1>1. SkillsKept(tree[d], o) /\ McpKept(tree[d])
    BY DEF RepoKept
<1>2. Exists(tree[d], SurfaceFile) /\ Exists(tree[d], ".mcp.json")
    BY DEF LooksAtSkills, LooksAtMcp
<1>3. ~Complains(tree[d], o.validator)
    BY <1>1, <1>2, ContractOf
<1>4. ~Complains(tree[d], "auto") => Judged(d, tree[d]) = {}
    BY <1>1, <1>2, <1>3, ContractOf
<1> QED BY <1>3, <1>4 DEF Unfaulted

(* So does whoever reads a saved report of the contract that passes.         *)
LEMMA ContractsSeen ==
    ASSUME WorldInv, ArtifactInv, NEW name, NEW o, NEW overlay,
           SavedContractPasses(name, o, day, inputs, overlay, policy.global, manifest, tree)
    PROVE  ContractSeen(name)
<1>1. PICK report, repos : /\ report = ContractReport(o, day, inputs, overlay, policy.global, manifest, tree)
                           /\ repos = ContractRepos(ApplyOverlay(manifest, overlay), tree, o)
    OBVIOUS
<1>2. PICK saved : saved = SavedContract(o, day, inputs, overlay, policy.global, manifest, tree)
    OBVIOUS
<1>3. docs[File("contract", name, "json")].body = saved /\ ContractPasses(saved.report)
    <2>1. PassesAsSaved(name, saved)
        BY <1>2 DEF SavedContractPasses
    <2> QED BY <2>1 DEF PassesAsSaved, Matches
<1>4. /\ saved.report = report
      /\ saved.rebuilt = [kind \in IF AsksArtifacts(o) THEN Kinds ELSE {} |->
                    [stamp |-> StampOf(kind, day), body |-> Build(kind, inputs, policy.global, manifest, tree)]]
    BY <1>1, <1>2 DEF SavedContract
<1>5. /\ report.kept = [d \in repos |-> RepoKept(tree[d], o)] /\ report.options = o
      /\ saved.would = [d \in repos |-> WouldDo(tree[d], o)]
      /\ AsksArtifacts(o) => report.artifacts = {kind \in Kinds : ArtifactsPass(kind, day, inputs, policy.global, manifest, tree)}
    BY <1>1, <1>2 DEF ContractReport, SavedContract, KeptOf
<1>6. ASSUME NEW kind \in DOMAIN saved.rebuilt
      PROVE  ReaderSees(kind) /\ saved.rebuilt[kind] = docs[CheckedJson(kind)]
    <2>1. AsksArtifacts(o) /\ kind \in Kinds
        BY <1>4
    <2>2. report.artifacts = Kinds
        BY <1>3, <1>4 DEF ContractPasses
    <2>3. ArtifactsPass(kind, day, inputs, policy.global, manifest, tree)
        BY <1>5, <2>1, <2>2
    <2>4. saved.rebuilt[kind] = [stamp |-> StampOf(kind, day), body |-> Build(kind, inputs, policy.global, manifest, tree)]
        BY <1>4, <2>1
    <2> QED BY <2>1, <2>3, <2>4, PassedIsSeen
<1>7. ASSUME NEW d \in repos, saved.would[d].skills # {}, saved.would[d].mcp # {}
      PROVE  Unfaulted(d, tree[d], o.validator)
    <2>1. /\ LooksAtSkills(tree[d], o) /\ tree[d].localSkills = "none"
          /\ LooksAtMcp(tree[d], o) /\ tree[d].localMcp = "none"
        BY <1>5, <1>7 DEF WouldDo, When
    <2>2. RepoKept(tree[d], o)
        BY <1>3, <1>4, <1>5 DEF ContractPasses
    <2>3. IsCheckout(tree[d])
        BY <1>1 DEF ContractRepos, Present, WorldInv, AreCheckouts
    <2> QED BY <2>1, <2>2, <2>3, KeptIsJudged
<1>8. DOMAIN report.kept = repos /\ report.options.validator = o.validator
    BY <1>5
<1> QED BY <1>3, <1>4, <1>6, <1>7, <1>8 DEF ContractSeen

(* So does whoever reads the surface index, as far as it claims to know.     *)
LEMMA IndexIsSeen ==
    ASSUME WorldInv, ArtifactInv, NEW mode, SurfaceIndexPasses(mode, day, inputs, policy.global, manifest, tree)
    PROVE  SurfacesSeen
<1>1. PICK report : report = ContractReport(Everything(mode), day, inputs, <<>>, policy.global, manifest, tree)
    OBVIOUS
<1>2. PICK index : index = BuildSurfaceIndex(mode, day, inputs, policy.global, manifest, tree)
    OBVIOUS
<1>3. PICK targets : targets = SelectSeq(manifest, LAMBDA r : r.baseline)
    OBVIOUS
<1>4. /\ index.passed = ContractPasses(report) /\ index.validator = mode
      /\ index.rows = [i \in DOMAIN targets |-> Row(targets[i], mode, report, inputs, policy.global, manifest, tree)]
    BY <1>1, <1>2, <1>3 DEF BuildSurfaceIndex
<1>5. PICK json, page : json = docs[CheckedJson("surface")] /\ page = docs[CheckedPage("surface")]
    OBVIOUS
<1>20. PICK kind, printed, built : kind = "surface" /\ printed = SurfacePage(index) /\ built = StampOf("surface", day)
    OBVIOUS
<1>6. PICK stamp : /\ Torn \notin {json, page}
                   /\ json = [stamp |-> stamp, body |-> index] /\ page = [stamp |-> stamp, body |-> SurfacePage(index)]
    <2>1. FilesMatch(kind, index, printed, day)
        BY <1>2, <1>20 DEF SurfaceIndexPasses, AreOnDisk
    <2>2. kind # "contract"
        BY <1>20
    <2>3. /\ Torn \notin {docs[CheckedJson(kind)], docs[CheckedPage(kind)]}
          /\ docs[CheckedJson(kind)] = [stamp |-> StampOf(kind, day), body |-> index]
          /\ docs[CheckedPage(kind)] = [stamp |-> StampOf(kind, day), body |-> printed]
        BY <2>1, <2>2, MatchedFiles
    <2>4. json = docs[CheckedJson(kind)] /\ page = docs[CheckedPage(kind)] /\ built = StampOf(kind, day)
        BY <1>5, <1>20
    <2>5. json = [stamp |-> built, body |-> index] /\ page = [stamp |-> built, body |-> SurfacePage(index)]
        BY <1>20, <2>3, <2>4, Zenon
    <2>6. Torn \notin {json, page}
        BY <2>3, <2>4, Zenon
    <2> QED BY <2>5, <2>6
<1>7. SurfacePage(index).passed = index.passed /\ SurfacePage(index).validator = index.validator
      /\ SurfacePage(index).rows = [i \in DOMAIN index.rows |-> RowOnPage(index.rows[i])]
    BY DEF SurfacePage
<1>8. ASSUME index.passed, NEW kind2 \in Kinds PROVE ReaderSees(kind2)
    <2>1. AsksArtifacts(Everything(mode))
        BY DEF AsksArtifacts, Everything
    <2>2. report.artifacts = {k \in Kinds : ArtifactsPass(k, day, inputs, policy.global, manifest, tree)}
        BY <1>1, <2>1 DEF ContractReport
    <2>3. report.artifacts = Kinds
        BY <1>4, <1>8 DEF ContractPasses
    <2> QED BY <2>2, <2>3, PassedIsSeen
<1>9. ASSUME NEW i \in DOMAIN index.rows
      PROVE  LET row == index.rows[i]
                 c == tree[row.entry.at]
             IN  /\ RowOnPage(row).repo = row.entry.name
                 /\ row.contract.status = "pass" /\ c.localSkills = "none" /\ c.localMcp = "none"
                        /\ LooksAtSkills(c, Everything("off")) /\ LooksAtMcp(c, Everything("off"))
                    => Unfaulted(row.entry.at, c, mode)
    <2>1. PICK row, repo, at : row = index.rows[i] /\ repo = targets[i] /\ at = repo.at
        OBVIOUS
    <2>2. PICK c, runtime : /\ c = (IF Present(tree, at) THEN tree[at] ELSE Vacant)
                            /\ runtime = RuntimeRow(repo.name, inputs, policy.global, manifest, tree)
        OBVIOUS
    <2>3. row = Row(repo, mode, report, inputs, policy.global, manifest, tree)
        BY <1>4, <2>1
    <2>4. row.entry = repo /\ row.contract = ContractStatus(at, c, runtime, report)
        <3>1. /\ row.entry = repo
              /\ row.contract = ContractStatus(repo.at, IF Present(tree, repo.at) THEN tree[repo.at] ELSE Vacant,
                                    RuntimeRow(repo.name, inputs, policy.global, manifest, tree), report)
            BY <2>3 DEF Row
        <3> QED BY <2>1, <2>2, <3>1
    <2>5. RowOnPage(row).repo = row.entry.name
        BY DEF RowOnPage
    <2>6. ASSUME row.contract.status = "pass", tree[at].localSkills = "none", tree[at].localMcp = "none",
                 LooksAtSkills(tree[at], Everything("off")), LooksAtMcp(tree[at], Everything("off"))
          PROVE  Unfaulted(at, tree[at], mode)
        <3>1. at \in DOMAIN report.kept /\ report.kept[at]
            <4>1. PICK status : status = ContractStatus(at, c, runtime, report) /\ status.status = "pass"
                BY <2>4, <2>6
            <4>2. CASE at \notin DOMAIN report.kept
                <5>1. \/ status.status = "runtime_projection_only"
                      \/ status.status = "not_checked"
                    BY <4>1, <4>2 DEF ContractStatus
                <5> QED BY <4>1, <5>1
            <4>3. CASE at \in DOMAIN report.kept /\ ~report.kept[at]
                <5>1. status.status = "fail"
                    BY <4>1, <4>3 DEF ContractStatus
                <5> QED BY <4>1, <5>1
            <4> QED BY <4>2, <4>3
        <3>2. PICK o, repos : /\ o = Everything(mode) /\ repos = ContractRepos(ApplyOverlay(manifest, <<>>), tree, o)
                              /\ report.kept = [d \in repos |-> RepoKept(tree[d], o)]
            BY <1>1 DEF ContractReport, KeptOf
        <3>3. at \in repos /\ RepoKept(tree[at], o)
            BY <3>1, <3>2
        <3>5. o.validator = mode /\ LooksAtSkills(tree[at], o) /\ LooksAtMcp(tree[at], o)
            BY <2>6, <3>2 DEF LooksAtSkills, LooksAtMcp, Everything
        <3>4. IsCheckout(tree[at])
            BY <3>2, <3>3 DEF ContractRepos, Present, WorldInv, AreCheckouts
        <3> QED BY <2>6, <3>3, <3>4, <3>5, KeptIsJudged
    <2> QED BY <2>1, <2>4, <2>5, <2>6
<1>10. \A i \in DOMAIN index.rows : SurfacePage(index).rows[i] = RowOnPage(index.rows[i])
    BY <1>7
<1>11. json.body = index /\ page.body = SurfacePage(index) /\ json.stamp = page.stamp
    BY <1>6
<1>12. /\ Torn \notin {json, page} /\ json.stamp = page.stamp
       /\ json.body.passed = page.body.passed
       /\ json.body.validator = mode /\ page.body.validator = mode
       /\ json.body.passed => \A kind2 \in Kinds : ReaderSees(kind2)
    BY <1>4, <1>6, <1>7, <1>8, <1>11
<1>13. ASSUME NEW i \in DOMAIN json.body.rows
       PROVE  LET row == json.body.rows[i]
                  c == tree[row.entry.at]
              IN  /\ page.body.rows[i].repo = row.entry.name
                  /\ row.contract.status = "pass" /\ c.localSkills = "none" /\ c.localMcp = "none"
                         /\ LooksAtSkills(c, Everything("off")) /\ LooksAtMcp(c, Everything("off"))
                     => Unfaulted(row.entry.at, c, mode)
    <2>1. i \in DOMAIN index.rows /\ json.body.rows[i] = index.rows[i] /\ page.body.rows[i] = RowOnPage(index.rows[i])
        BY <1>10, <1>11
    <2> QED BY <1>9, <2>1
<1> QED BY <1>5, <1>12, <1>13 DEF SurfacesSeen

(* Of the whole report, only these are about the settings.                   *)
LEMMA SettingsFindingsAre ==
    ASSUME NEW d, NEW c, NEW p, NEW today, NEW f \in BaselineReport(d, c, p, today), f.check = "claude_settings_json"
    PROVE  f \in SettingsFindings(c)
BY ReportSplits, OtherChecks, SkillFindingsFail, McpFindingsFail, LauncherFindingsAre

(* Settings that the baseline finds fault with do not parse.                 *)
LEMMA FaultySettings ==
    ASSUME NEW d, NEW c, NEW p, NEW today,
           Finding("claude_settings_json", SettingsFile, FALSE) \in BaselineReport(d, c, p, today)
    PROVE  Exists(c, SettingsFile) /\ ~Parses(c, SettingsFile)
<1>1. PICK f : f = Finding("claude_settings_json", SettingsFile, FALSE)
    OBVIOUS
<1>2. f.check = "claude_settings_json" /\ f.passed = FALSE
    BY <1>1 DEF Finding, FindingOn
<1>3. f \in SettingsFindings(c)
    BY <1>1, <1>2, SettingsFindingsAre
<1>4. \A about, passed : Finding("agy_hooks_json", about, passed).check = "agy_hooks_json"
    BY FindingFields
<1>5. Exists(c, SettingsFile) /\ f = Finding("claude_settings_json", SettingsFile, Parses(c, SettingsFile))
    BY <1>2, <1>3, <1>4 DEF SettingsFindings, IfThere, When, SettingsFile
<1>6. f.passed = Parses(c, SettingsFile)
    BY <1>5, FindingFields
<1> QED BY <1>2, <1>5, <1>6

(* A file that does not parse, and that somebody here answers for, fails.    *)
LEMMA FaultFails ==
    ASSUME NEW kind, NEW d, NEW f, NEW class \in Blocking, NEW faults, faults = {"does not parse"}, NEW count
    PROVE  Primitive(kind, d, f, class, faults, count).status = "fail"
BY DEF Primitive, Unclear

(* So does the index of a workspace that has one.                            *)
LEMMA FileFails ==
    ASSUME NEW d \in Walked(tree), NEW f \in {SettingsFile, ".mcp.json"}, Exists(tree[d], f), ~Parses(tree[d], f),
           Class(manifest, d, tree[d], f) \in Blocking
    PROVE  \E p \in BuildPrimitiveIndex(inputs, manifest, tree) : p.status = "fail"
<1>1. PICK c, faults : c = tree[d] /\ faults = FileNotes(c, f)
    OBVIOUS
<1>2. faults = {"does not parse"}
    BY <1>1 DEF FileNotes, Parses, Exists
<1>3. PICK class, count : /\ class = Class(manifest, d, c, f)
                          /\ count = IF f = ".mcp.json" /\ faults = {} THEN Cardinality(c.servers) ELSE 0
    OBVIOUS
<1>4. PICK p, kind : p = Primitive(kind, d, f, class, faults, count) /\ kind = "file"
    OBVIOUS
<1>5. p.status = "fail"
    <2>1. class \in Blocking
        BY <1>1, <1>3
    <2>2. Primitive(kind, d, f, class, faults, count).status = "fail"
        BY <1>2, <2>1, FaultFails, Zenon
    <2> QED BY <1>4, <2>2
<1>6. f \in PrimitiveFiles \cap DOMAIN c.files
    BY <1>1 DEF Exists, PrimitiveFiles
<1>7. p \in FilesOf(manifest, d, c)
    BY <1>1, <1>3, <1>4, <1>6 DEF FilesOf
<1>8. p \in BuildPrimitiveIndex(inputs, manifest, tree)
    BY <1>1, <1>7 DEF BuildPrimitiveIndex
<1> QED BY <1>5, <1>8

(* So an index that passes has seen no such file where it walks.             *)
LEMMA PrimitivesAreSeen ==
    ASSUME WorldInv, ArtifactInv, NEW overlay, PrimitiveIndexPasses(day, overlay, inputs, manifest, tree)
    PROVE  PrimitivesSeen
<1>1. PICK index, printed, kind : /\ index = BuildPrimitiveIndex(inputs, manifest, tree)
                                  /\ printed = PrimitivePage(index) /\ kind = "primitives"
    OBVIOUS
<1>2. FilesMatch(kind, index, printed, day) /\ (\A p \in index : p.status # "fail") /\ manifest # Absent
    BY <1>1 DEF PrimitiveIndexPasses, CanIndexPrimitives
<1>3. PICK json, page : json = docs[CheckedJson(kind)] /\ page = docs[CheckedPage(kind)]
    OBVIOUS
<1>4. Torn \notin {json, page} /\ json.stamp = page.stamp
    <2>1. kind # "contract"
        BY <1>1
    <2>2. /\ Torn \notin {docs[CheckedJson(kind)], docs[CheckedPage(kind)]}
          /\ docs[CheckedJson(kind)] = [stamp |-> StampOf(kind, day), body |-> index]
          /\ docs[CheckedPage(kind)] = [stamp |-> StampOf(kind, day), body |-> printed]
        BY <1>2, <2>1, MatchedFiles
    <2> QED BY <1>3, <2>2
<1>5. Broken # inputs.root
    <2> SUFFICES ASSUME inputs.root = Broken PROVE FALSE
        OBVIOUS
    <2>1. PICK class, faults, p : /\ class = "runtime_projection" /\ faults = {"does not parse"}
                                 /\ p = Primitive("file", RootName, ".mcp.json", class, faults, 0)
        OBVIOUS
    <2>2. p.status = "fail"
        <3>1. class \in Blocking
            BY <2>1 DEF Blocking
        <3> QED BY <2>1, <3>1, FaultFails
    <2>3. RootPrimitives(inputs) = {p}
        <3>1. inputs.root # Absent
            BY FilesAssumption
        <3> QED BY <2>1, <3>1 DEF RootPrimitives, When
    <2>4. p \in index
        BY <1>1, <2>3 DEF BuildPrimitiveIndex
    <2> QED BY <1>2, <2>2, <2>4
<1>6. ASSUME NEW d \in McpDirs(tree) \ NotWalked PROVE Parses(tree[d], ".mcp.json")
    <2> SUFFICES ASSUME ~Parses(tree[d], ".mcp.json") PROVE FALSE
        OBVIOUS
    <2>1. d \in Walked(tree) /\ Exists(tree[d], ".mcp.json")
        BY DEF McpDirs, Walked
    <2>2. Class(manifest, d, tree[d], ".mcp.json") \in Blocking
        BY DEF Class, OverlayFile, Blocking
    <2> QED BY <1>1, <1>2, <2>1, <2>2, FileFails
<1>7. ASSUME NEW j \in DOMAIN manifest, manifest[j].baseline, manifest[j].at \in Walked(tree),
             manifest[j].scope \notin {"compatibility_only", "upstream_or_reference"},
             Finding("claude_settings_json", SettingsFile, FALSE) \in ReportOn(manifest[j].at, tree[manifest[j].at])
      PROVE  FALSE
    <2>1. PICK d, c : d = manifest[j].at /\ c = tree[d]
        OBVIOUS
    <2>2. Exists(c, SettingsFile) /\ ~Parses(c, SettingsFile)
        BY <1>7, <2>1, FaultySettings DEF ReportOn
    <2>3. d = manifest[j].name /\ IsManifest(manifest)
        BY <1>2, <2>1 DEF WorldInv, IsManifest
    <2>4. PICK default : default = Unlisted
        OBVIOUS
    <2>5. EntryOf(manifest, d, default) = manifest[j]
        BY <2>3, EntryIs
    <2>6. ~Reference(manifest, d)
        <3>1. Reference(manifest, d) =
                  (EntryOf(manifest, d, Unlisted).scope \in {"compatibility_only", "upstream_or_reference"}
                       \/ ~EntryOf(manifest, d, Unlisted).baseline)
            BY DEF Reference, EntryOf
        <3> QED BY <1>7, <2>4, <2>5, <3>1
    <2>7. Class(manifest, d, c, SettingsFile) \in Blocking
        BY <2>6 DEF Class, Blocking, SettingsFile, OverlayFile
    <2> QED BY <1>1, <1>2, <1>7, <2>1, <2>2, <2>7, FileFails
<1> QED BY <1>1, <1>3, <1>4, <1>5, <1>6, <1>7 DEF PrimitivesSeen

(* All of them together.                                                     *)
LEMMA DriftSeen ==
    ASSUME WorldInv, ArtifactInv
    PROVE  DriftIsSeen
<1>1. \A kind \in Kinds : ArtifactsPass(kind, day, inputs, policy.global, manifest, tree) => ReaderSees(kind)
    BY PassedIsSeen
<1>2. \A name \in NamesOf("contract", "json"), o \in Options, overlay \in Overlays :
          SavedContractPasses(name, o, day, inputs, overlay, policy.global, manifest, tree) => ContractSeen(name)
    BY ContractsSeen
<1>3. \A mode \in Modes : SurfaceIndexPasses(mode, day, inputs, policy.global, manifest, tree) => SurfacesSeen
    BY IndexIsSeen
<1>4. \A overlay \in Overlays : PrimitiveIndexPasses(day, overlay, inputs, manifest, tree) => PrimitivesSeen
    BY PrimitivesAreSeen
<1> QED BY <1>1, <1>2, <1>3, <1>4 DEF DriftIsSeen

(* No check of an artifact passes over drift: what passes was written whole, by*)
(* one run, and is what would be built from the workspace now (ArtifactsPass,*)
(* SavedContractPasses, SurfaceIndexPasses, PrimitiveIndexPasses; the Check  *)
(* functions of the artifacts and CheckArtifact).                            *)
THEOREM AllDriftIsSeen == Spec => []DriftIsSeen
<1>1. WorkspaceInv => DriftIsSeen
    BY DriftSeen DEF WorkspaceInv
<1> QED BY <1>1, WorkspaceInvariant, PTL

-----------------------------------------------------------------------------
(* A directory is listed once unless it is listed twice.                     *)
LEMMA OnceIs ==
    ASSUME AreInputs(inputs), CanGenerate(inputs), NEW d
    PROVE  ListedOnce(d) <=> ~Twice(Directories(inputs.catalog), d)
<1>1. PICK listed, S : /\ listed = Directories(inputs.catalog)
                       /\ S = {i \in DOMAIN inputs.catalog : DirectoryOf(inputs.catalog[i]) = d}
    OBVIOUS
<1>2. PICK n \in Nat : DOMAIN inputs.catalog = 1..n
    <2>1. inputs.catalog \in Seq(ToSet(inputs.catalog))
        BY DEF AreInputs, CanGenerate
    <2> QED BY <2>1, LenProperties
<1>3. S \subseteq 1..n /\ S = {i \in DOMAIN listed : listed[i] = d}
    BY <1>1, <1>2 DEF Directories
<1>4. IsFiniteSet(S) /\ Cardinality(S) \in Nat
    <2>1. IsFiniteSet(1..n)
        BY FS_Interval
    <2> QED BY <1>3, <2>1, FS_Subset, FS_CardinalityType
<1>5. CASE Twice(listed, d)
    <2>1. PICK j \in S, k \in S : j < k
        BY <1>3, <1>5 DEF Twice
    <2>2. PICK pair : pair = {j, k}
        OBVIOUS
    <2>3. pair \subseteq S /\ j # k
        BY <1>3, <2>1, <2>2
    <2>4. Cardinality(pair) = 2
        <3>1. IsFiniteSet({j}) /\ Cardinality({j}) = 1
            BY FS_Singleton
        <3>2. k \notin {j} /\ pair = {j} \cup {k}
            BY <2>2, <2>3
        <3>3. Cardinality({j} \cup {k}) = Cardinality({j}) + 1
            BY <3>1, <3>2, FS_AddElement
        <3> QED BY <3>1, <3>2, <3>3
    <2>5. Cardinality(pair) <= Cardinality(S)
        BY <1>4, <2>3, FS_Subset
    <2>6. ~(Cardinality(S) <= 1)
        BY <1>4, <2>4, <2>5
    <2> QED BY <1>1, <1>5, <2>6 DEF ListedOnce
<1>6. CASE ~Twice(listed, d)
    <2>1. \A j, k \in S : j = k
        <3> SUFFICES ASSUME NEW j \in S, NEW k \in S, j # k PROVE FALSE
            OBVIOUS
        <3>1. j < k \/ k < j
            BY <1>3
        <3> QED BY <1>3, <1>6, <3>1 DEF Twice
    <2>2. Cardinality(S) <= 1
        <3>1. CASE S = {}
            BY <3>1, FS_EmptySet
        <3>2. CASE S # {}
            <4>1. PICK x \in S : TRUE
                BY <3>2
            <4>2. S = {x}
                BY <2>1, <4>1
            <4> QED BY <4>2, FS_Singleton
        <3> QED BY <3>1, <3>2
    <2> QED BY <1>1, <1>6, <2>2 DEF ListedOnce
<1> QED BY <1>1, <1>5, <1>6

(* What the check reads in a manifest that was just generated.               *)
LEMMA FreshNames ==
    ASSUME AreInputs(inputs), CanGenerate(inputs), NEW M, M = GenerateManifest(inputs, tree)
    PROVE  /\ \A d : d \in Names(M) <=> Kept(d)
           /\ \A d : Kept(d) => FirstOf(M, d) = Becomes(d) /\ Becomes(d).at = d /\ Present(tree, d)
           /\ \A d : d \in Repeated(M) <=> Kept(d) /\ ~ListedOnce(d)
<1>1. PICK m \in Nat : \E names : Lists(names, m, inputs, tree, M)
    BY GeneratedIs
<1>2. PICK names : Lists(names, m, inputs, tree, M)
    BY <1>1
<1>3. /\ names \in [1..m -> {d \in Live(tree) : KeptIn(inputs, tree, d)}]
      /\ M = [k \in 1..m |-> GeneratedRepo(inputs, tree[names[k]], names[k])]
      /\ \A d : (\E k \in 1..m : names[k] = d) <=> KeptIn(inputs, tree, d)
      /\ \A d : KeptIn(inputs, tree, d) => (Twice(names, d) <=> Twice(Directories(inputs.catalog), d))
    BY <1>2 DEF Lists
<1>4. \A d : Kept(d) = KeptIn(inputs, tree, d)
    BY DEF Kept, KeptIn
<1>5. \A d : Becomes(d).name = d /\ Becomes(d).at = d
    BY DEF Becomes, GeneratedRepo
<1>6. DOMAIN M = 1..m /\ \A k \in 1..m : M[k] = Becomes(names[k]) /\ M[k].name = names[k]
    BY <1>3, <1>5 DEF Becomes
<1>7. \A d : d \in Names(M) <=> Kept(d)
    BY <1>3, <1>4, <1>6 DEF Names
<1>8. ASSUME NEW d, Kept(d) PROVE FirstOf(M, d) = Becomes(d) /\ Becomes(d).at = d /\ Present(tree, d)
    <2>1. IsManifest(M)
        BY GeneratedIsManifest
    <2>2. PICK k \in 1..m : names[k] = d
        BY <1>3, <1>4, <1>8
    <2>3. FirstOf(M, d) = M[k]
        BY <1>6, <2>1, <2>2, EntryIs
    <2>4. Present(tree, d)
        BY <1>8 DEF Kept, Live
    <2> QED BY <1>5, <1>6, <2>2, <2>3, <2>4
<1>9. ASSUME NEW d PROVE d \in Repeated(M) <=> Kept(d) /\ ~ListedOnce(d)
    <2>1. d \in Repeated(M) <=> \E j \in 1..m : names[j] = d /\ \E k \in 1..(j - 1) : M[k].name = d
        BY <1>6 DEF Repeated
    <2>2. \A j \in 1..m : \A k : k \in 1..(j - 1) <=> k \in 1..m /\ k < j
        OBVIOUS
    <2>3. d \in Repeated(M) <=> Twice(names, d)
        <3>1. DOMAIN names = 1..m
            BY <1>3
        <3> QED BY <1>6, <2>1, <2>2, <3>1 DEF Twice
    <2>4. Twice(names, d) => Kept(d)
        BY <1>3, <1>4 DEF Twice
    <2>5. ListedOnce(d) <=> ~Twice(Directories(inputs.catalog), d)
        BY OnceIs
    <2> QED BY <1>3, <1>4, <2>3, <2>4, <2>5
<1> QED BY <1>7, <1>8, <1>9

AllPass(findings) == \A f \in findings : f.passed

(* The part of the check that is about directories.                          *)
LEMMA FreshDirectories ==
    ASSUME AreInputs(inputs), CanGenerate(inputs), NEW M, M = GenerateManifest(inputs, tree)
    PROVE  AllPass(DirectoryFindings(inputs, M, tree)) <=> \A d \in Dirs : Kept(d) => ListedOnce(d)
<1> DEFINE ok(n) == Present(tree, FirstOf(M, n).at) \/ ~DirectoryRequired(FirstOf(M, n), DecisionOn(inputs, n))
           there(n) == Finding("repo_directory", n, ok(n))
           double(n) == Finding("manifest_repo_unique", n, FALSE)
<1>1. DirectoryFindings(inputs, M, tree) = {there(n) : n \in Names(M)} \cup {double(n) : n \in Repeated(M)}
    BY DEF DirectoryFindings, Findings
<1>2. \A n : there(n).passed = ok(n) /\ double(n).passed = FALSE
    BY DEF Finding, FindingOn
<1>3. \A n \in Names(M) : ok(n)
    BY FreshNames
<1>4. \A d : d \in Repeated(M) <=> Kept(d) /\ ~ListedOnce(d)
    BY FreshNames
<1>5. \A d : Kept(d) => d \in Dirs
    BY DEF Kept, Live
<1> HIDE DEF ok, there, double
<1>6. AllPass({there(n) : n \in Names(M)} \cup {double(n) : n \in Repeated(M)}) <=> Repeated(M) = {}
    BY <1>2, <1>3 DEF AllPass
<1> QED BY <1>1, <1>4, <1>5, <1>6

(* The members of go.work that the check expects of a fresh manifest.        *)
Members == {d \in Dirs : Kept(d) /\ Becomes(d).goWork}
(* They are those that the inputs ask for.                                   *)
LEMMA FreshMembers ==
    ASSUME AreInputs(inputs), CanGenerate(inputs), NEW M, M = GenerateManifest(inputs, tree)
    PROVE  ExpectedMembers(M, tree) = Members
<1>1. \A d : Kept(d) => d \in Dirs
    BY DEF Kept, Live
<1>2. \A d : d \in Names(M) <=> Kept(d)
    BY FreshNames
<1>3. \A d : Kept(d) => FirstOf(M, d) = Becomes(d) /\ Becomes(d).at = d /\ Present(tree, d)
    BY FreshNames
<1> QED BY <1>1, <1>2, <1>3 DEF ExpectedMembers, Members

(* The parts of the check that are about them.                               *)
LEMMA FreshModules ==
    ASSUME AreInputs(inputs), CanGenerate(inputs), NEW M, M = GenerateManifest(inputs, tree)
    PROVE  AllPass(ModuleFindings(M, tree)) <=> \A d \in Members : Exists(tree[d], "go.mod")
<1> DEFINE ok(n) == Exists(tree[FirstOf(M, n).at], "go.mod")
           module(n) == Finding("go_module", n, ok(n))
<1>1. ModuleFindings(M, tree) = {module(n) : n \in Members}
    BY FreshMembers DEF ModuleFindings, Findings
<1>2. \A n : module(n).passed = ok(n)
    BY DEF Finding, FindingOn
<1>3. \A n \in Members : ok(n) <=> Exists(tree[n], "go.mod")
    <2>1. \A d : Kept(d) => FirstOf(M, d) = Becomes(d) /\ Becomes(d).at = d
        BY FreshNames
    <2> QED BY <2>1 DEF Members
<1> HIDE DEF ok, module
<1> QED BY <1>1, <1>2, <1>3 DEF AllPass

Written == IF inputs.goWork = Absent THEN {} ELSE inputs.goWork
(* What the check finds in go.work.                                          *)
LEMMA FreshGoWork ==
    ASSUME AreInputs(inputs), CanGenerate(inputs), NEW M, M = GenerateManifest(inputs, tree)
    PROVE  AllPass(MemberFindings(inputs, M, tree))
               <=> /\ Members \subseteq Written
                   /\ \A m \in Written \ Members : m \in DOMAIN Inside /\ Kept(Inside[m])
<1> DEFINE ok(m) == IF m \in Members THEN m \in Written ELSE LiesIn(m, Names(M))
           member(m) == Finding("go_work_member", m, ok(m))
<1>1. MemberFindings(inputs, M, tree) = {member(m) : m \in Members \cup Written}
    BY FreshMembers DEF MemberFindings, Findings, Written
<1>2. \A m : member(m).passed = ok(m)
    BY DEF Finding, FindingOn
<1>3. \A d : d \in Names(M) <=> Kept(d)
    BY FreshNames
<1>4. \A m \in Members : ok(m) <=> m \in Written
    OBVIOUS
<1>5. \A m \in Written \ Members : ok(m) <=> m \in DOMAIN Inside /\ Kept(Inside[m])
    BY <1>3 DEF LiesIn
<1> HIDE DEF ok, member
<1> QED BY <1>1, <1>2, <1>4, <1>5 DEF AllPass

(* The part that is about a decision.                                        *)
LEMMA FreshDecision ==
    ASSUME AreInputs(inputs), CanGenerate(inputs), NEW M, M = GenerateManifest(inputs, tree),
           NEW i \in DOMAIN inputs.decisions, NEW x, x = inputs.decisions[i]
    PROVE  AllPass(DecisionFindings(M, x)) <=> Obeyed(x)
<1>1. \A d : d \in Names(M) <=> Kept(d)
    BY FreshNames
<1>2. CASE x.repo \notin Names(M)
    <2> DEFINE missing == Finding("consolidation_manifest", x.repo, x.scope = "compatibility_only" \/ x.archive)
    <2>1. DecisionFindings(M, x) = {missing}
        BY <1>2 DEF DecisionFindings
    <2>2. missing.passed = (x.scope = "compatibility_only" \/ x.archive)
        BY DEF Finding, FindingOn
    <2>3. Obeyed(x) <=> (x.scope = "compatibility_only" \/ x.archive)
        BY <1>1, <1>2 DEF Obeyed
    <2> HIDE DEF missing
    <2> QED BY <2>1, <2>2, <2>3 DEF AllPass
<1>3. CASE x.repo \in Names(M)
    <2>1. PICK repo : repo = Becomes(x.repo)
        OBVIOUS
    <2>2. FirstOf(M, x.repo) = repo /\ Kept(x.repo)
        BY <1>1, <1>3, <2>1, FreshNames
    <2>3. repo.goWork \in BOOLEAN /\ repo.baseline \in BOOLEAN
        BY <2>1 DEF Becomes, GeneratedRepo, InferBaseline
    <2>4. {x.goWork, x.baseline} \subseteq {"unset", "yes", "no"}
        BY DEF AreInputs, CanGenerate
    <2> DEFINE merged == x.state = "merged_out_of_active_surface"
               scope == Finding("consolidation_scope", x.repo, repo.scope = "compatibility_only")
               work == Finding("consolidation_go_work_member", x.repo, ~repo.goWork)
               target == Finding("consolidation_baseline_target", x.repo, ~repo.baseline)
               scoped == Finding("consolidation_scope_override", x.repo, repo.scope = x.scope)
               worked == Finding("consolidation_go_work_member_override", x.repo, repo.goWork = (x.goWork = "yes"))
               targeted == Finding("consolidation_baseline_target_override", x.repo, repo.baseline = (x.baseline = "yes"))
    <2>5. /\ scope.passed = (repo.scope = "compatibility_only") /\ scoped.passed = (repo.scope = x.scope)
          /\ work.passed = ~repo.goWork /\ worked.passed = (repo.goWork = (x.goWork = "yes"))
          /\ target.passed = ~repo.baseline /\ targeted.passed = (repo.baseline = (x.baseline = "yes"))
        BY DEF Finding, FindingOn
    <2>6. DecisionFindings(M, x) =
              (IF merged THEN {scope, work, target} ELSE {})
              \cup (IF x.scope # "" THEN {scoped} ELSE {})
              \cup (IF x.goWork # "unset" THEN {worked} ELSE {})
              \cup (IF x.baseline # "unset" THEN {targeted} ELSE {})
        BY <1>3, <2>2 DEF DecisionFindings, When
    <2> HIDE DEF scope, work, target, scoped, worked, targeted
    <2>7. AllPass(DecisionFindings(M, x))
              <=> /\ merged => scope.passed /\ work.passed /\ target.passed
                  /\ x.scope # "" => scoped.passed
                  /\ x.goWork # "unset" => worked.passed
                  /\ x.baseline # "unset" => targeted.passed
        BY <2>6 DEF AllPass
    <2>8. Obeyed(x)
              <=> /\ merged => repo.scope = "compatibility_only" /\ ~repo.goWork /\ ~repo.baseline
                  /\ x.scope \in {"", repo.scope}
                  /\ x.goWork \in {"unset", IF repo.goWork THEN "yes" ELSE "no"}
                  /\ x.baseline \in {"unset", IF repo.baseline THEN "yes" ELSE "no"}
        BY <2>1, <2>2 DEF Obeyed
    <2>9. x.goWork # "unset" => (worked.passed <=> x.goWork = IF repo.goWork THEN "yes" ELSE "no")
        BY <2>3, <2>4, <2>5
    <2>10. x.baseline # "unset" => (targeted.passed <=> x.baseline = IF repo.baseline THEN "yes" ELSE "no")
        BY <2>3, <2>4, <2>5
    <2> QED BY <2>5, <2>7, <2>8, <2>9, <2>10
<1> QED BY <1>2, <1>3

(* All of it.                                                                *)
LEMMA FreshPasses ==
    ASSUME AreInputs(inputs)
    PROVE  FreshManifestPasses
<1> SUFFICES ASSUME CanGenerate(inputs)
             PROVE  Failed(CheckManifest(inputs, GenerateManifest(inputs, tree), tree)) = {} <=> InputsAgree
    BY DEF FreshManifestPasses
<1>1. PICK M : M = GenerateManifest(inputs, tree)
    OBVIOUS
<1>2. inputs.decisions # Broken
    BY DEF CanGenerate
<1>3. PICK first, rest : /\ first = DirectoryFindings(inputs, M, tree) \cup ModuleFindings(M, tree)
                         /\ rest = MemberFindings(inputs, M, tree) \cup MatrixFindings(inputs, M)
    OBVIOUS
<1>4. CheckManifest(inputs, M, tree) =
          IF inputs.goWork = Absent /\ Members # {} THEN first \cup {Finding("go_work_parse", "", FALSE)}
          ELSE first \cup rest
    BY <1>1, <1>2, <1>3, FreshMembers DEF CheckManifest
<1>5. AllPass(first) <=> (\A d \in Dirs : Kept(d) => ListedOnce(d)) /\ \A d \in Members : Exists(tree[d], "go.mod")
    <2>1. AllPass(first) <=> AllPass(DirectoryFindings(inputs, M, tree)) /\ AllPass(ModuleFindings(M, tree))
        BY <1>3 DEF AllPass
    <2> QED BY <1>1, <2>1, FreshDirectories, FreshModules
<1>6. AllPass(MatrixFindings(inputs, M)) <=> \A i \in DOMAIN inputs.decisions : Obeyed(inputs.decisions[i])
    <2> DEFINE about(i) == DecisionFindings(M, inputs.decisions[i])
    <2>1. MatrixFindings(inputs, M) = UNION {about(i) : i \in DOMAIN inputs.decisions}
        BY <1>2 DEF MatrixFindings
    <2>2. \A i \in DOMAIN inputs.decisions : AllPass(about(i)) <=> Obeyed(inputs.decisions[i])
        BY <1>1, FreshDecision
    <2> HIDE DEF about
    <2>3. AllPass(UNION {about(i) : i \in DOMAIN inputs.decisions}) <=> \A i \in DOMAIN inputs.decisions : AllPass(about(i))
        BY DEF AllPass
    <2> QED BY <2>1, <2>2, <2>3
<1>7. AllPass(rest) <=> AllPass(MemberFindings(inputs, M, tree)) /\ AllPass(MatrixFindings(inputs, M))
    BY <1>3 DEF AllPass
<1>8. AllPass(MemberFindings(inputs, M, tree))
          <=> /\ Members \subseteq Written
              /\ \A m \in Written \ Members : m \in DOMAIN Inside /\ Kept(Inside[m])
    BY <1>1, FreshGoWork
<1>9. MembersAgree <=> /\ Members \subseteq Written
                       /\ \A d \in Members : Exists(tree[d], "go.mod")
                       /\ \A m \in Written \ Members : m \in DOMAIN Inside /\ Kept(Inside[m])
    BY DEF MembersAgree, Members, Written
<1>10. \A findings : Failed(findings) = {} <=> AllPass(findings)
    BY DEF Failed, AllPass
<1>11. CASE inputs.goWork = Absent /\ Members # {}
    <2>1. ~(Members \subseteq Written)
        BY <1>11 DEF Written
    <2>2. PICK f : f = Finding("go_work_parse", "", FALSE)
        OBVIOUS
    <2>3. ~f.passed
        BY <2>2 DEF Finding, FindingOn
    <2>4. ~AllPass(first \cup {f})
        BY <2>3 DEF AllPass
    <2>5. CheckManifest(inputs, M, tree) = first \cup {f}
        BY <1>4, <1>11, <2>2
    <2> QED BY <1>1, <1>9, <1>10, <2>1, <2>4, <2>5 DEF InputsAgree
<1>12. CASE ~(inputs.goWork = Absent /\ Members # {})
    <2>1. CheckManifest(inputs, M, tree) = first \cup rest
        BY <1>4, <1>12
    <2>2. AllPass(first \cup rest) <=> AllPass(first) /\ AllPass(rest)
        BY DEF AllPass
    <2> QED BY <1>1, <1>5, <1>6, <1>7, <1>8, <1>9, <1>10, <2>1, <2>2 DEF InputsAgree
<1> QED BY <1>11, <1>12

(* Generator and check of the manifest agree: what was just generated passes *)
(* exactly if the inputs do not contradict each other (GenerateManifest, Check).*)
THEOREM FreshManifestsPass == Spec => []FreshManifestPasses
<1>1. WorkspaceInv => FreshManifestPasses
    BY FreshPasses DEF WorkspaceInv, WorldInv
<1> QED BY <1>1, WorkspaceInvariant, PTL

-----------------------------------------------------------------------------
(* What comes first stays first when it is picked.                           *)
LEMMA PickedFirst ==
    ASSUME NEW n \in Nat, NEW I \in SUBSET (1..n), 1 \in I, NEW s
    PROVE  \E m \in Nat : 1 <= m /\ DOMAIN Pick(s, I) = 1..m /\ Pick(s, I)[1] = s[1] /\ IsSeq(Pick(s, I))
<1>1. PICK m \in Nat : \E g : PickedBy(g, m, I, s, Pick(s, I))
    BY PickIs
<1>2. PICK g : PickedBy(g, m, I, s, Pick(s, I))
    BY <1>1
<1>3. PICK picked : picked = Pick(s, I)
    OBVIOUS
<1>4. /\ g \in [1..m -> I] /\ picked = [k \in 1..m |-> s[g[k]]]
      /\ \A j, k \in 1..m : j < k => g[j] < g[k]
      /\ \E k \in 1..m : g[k] = 1
    BY <1>2, <1>3 DEF PickedBy
<1>5. PICK k \in 1..m : g[k] = 1
    BY <1>4
<1>6. 1 \in 1..m /\ g[1] = 1
    <2>1. 1 \in 1..m
        OBVIOUS
    <2>2. g[1] \in 1..n
        BY <1>4, <2>1
    <2>3. 1 < k => g[1] < 1
        BY <1>4, <1>5, <2>1
    <2>4. ~(1 < k)
        BY <2>2, <2>3
    <2> QED BY <1>5, <2>1, <2>4
<1>7. DOMAIN picked = 1..m /\ picked[1] = s[1]
    BY <1>4, <1>6
<1>8. picked = [i \in 1..m |-> picked[i]]
    BY <1>4
<1>9. IsSeq(picked)
    BY <1>7, <1>8, FunctionsAreSeqs
<1> QED BY <1>3, <1>6, <1>7, <1>9

(* The first of those at the top is the first of the audit.                  *)
LEMMA TopIsFirst ==
    ASSUME NEW n \in Nat, NEW audit, DOMAIN audit = 1..n,
           \A i \in 1..n : audit[i].score \in Int,
           \A i, j \in 1..n : i < j => audit[i].score >= audit[j].score,
           TopRepos(audit) # <<>>
    PROVE  1 \in 1..n /\ TopRepos(audit)[1] = audit[1]
<1>1. PICK I, scoring : I = {i \in DOMAIN audit : audit[i].score > 0} /\ scoring = Pick(audit, I)
    OBVIOUS
<1>2. I \in SUBSET (1..n)
    BY <1>1
<1>3. PICK kept : kept = IF Len(scoring) < KeptTopRepos THEN Len(scoring) ELSE KeptTopRepos
    OBVIOUS
<1>4. TopRepos(audit) = SubSeq(scoring, 1, kept)
    BY <1>1, <1>3 DEF TopRepos
<1>5. I # {}
    <2> SUFFICES ASSUME I = {} PROVE FALSE
        OBVIOUS
    <2>1. PICK m \in Nat : \E g : PickedBy(g, m, I, audit, scoring)
        BY <1>1, <1>2, PickIs
    <2>2. PICK g : PickedBy(g, m, I, audit, scoring)
        BY <2>1
    <2>3. g \in [1..m -> I] /\ scoring = [k \in 1..m |-> audit[g[k]]]
        BY <2>2 DEF PickedBy
    <2>4. m = 0
        <3>1. 1 \in 1..m => g[1] \in I
            BY <2>3
        <3> QED BY <3>1
    <2>5. scoring = <<>>
        BY <2>3, <2>4
    <2>6. kept = 0
        BY <1>3, <2>5, KeptAssumption, EmptySeq
    <2>7. SubSeq(scoring, 1, 0) = <<>>
        OBVIOUS
    <2> QED BY <1>4, <2>6, <2>7
<1>6. 1 \in I /\ 1 \in 1..n
    <2>1. PICK i \in I : TRUE
        BY <1>5
    <2>2. i \in 1..n /\ audit[i].score > 0 /\ 1 \in 1..n
        BY <1>1, <1>2
    <2>3. audit[1].score >= audit[i].score
        <3>1. CASE i = 1
            BY <2>2, <3>1
        <3>2. CASE i # 1
            BY <2>2, <3>2
        <3> QED BY <3>1, <3>2
    <2>4. audit[1].score > 0
        BY <2>2, <2>3
    <2> QED BY <1>1, <2>2, <2>4
<1>7. PICK m \in Nat : 1 <= m /\ DOMAIN scoring = 1..m /\ scoring[1] = audit[1] /\ IsSeq(scoring)
    BY <1>1, <1>2, <1>6, PickedFirst
<1>8. Len(scoring) = m
    BY <1>7, LenProperties DEF IsSeq
<1>9. kept \in 1..m
    BY <1>3, <1>7, <1>8, KeptAssumption
<1>10. PICK S : S = ToSet(scoring)
    OBVIOUS
<1>11. scoring \in Seq(S)
    BY <1>7, <1>10 DEF IsSeq
<1>12. SubSeq(scoring, 1, kept)[1] = scoring[1]
    BY <1>8, <1>9, <1>11
<1> QED BY <1>4, <1>6, <1>7, <1>12

(* Advice is nothing, or one thing.                                          *)
LEMMA OneThing ==
    ASSUME NEW a, NEW e, a = <<>> \/ a = <<e>>
    PROVE  IsSeq(a) /\ \A x \in ToSet(a) : x = e
<1>1. CASE a = <<>>
    BY <1>1, EmptyHolds
<1>2. CASE a = <<e>>
    <2>1. DOMAIN a = 1..1 /\ a = [i \in 1..1 |-> a[i]] /\ a[1] = e
        BY <1>2
    <2> QED BY <2>1, FunctionsAreSeqs
<1> QED BY <1>1, <1>2

(* Of all advice, only the first is about shell code.                        *)
LEMMA FirstAdvice ==
    ASSUME NEW audit, NEW t, NEW lanes, NEW today, NEW i \in DOMAIN Recommendations(audit, t, lanes, today),
           Recommendations(audit, t, lanes, today)[i].area = "shell_migration"
    PROVE  LET top == TopRepos(audit) IN
           /\ top # <<>> /\ MigratableLines(t[top[1].at]) > 0
           /\ Recommendations(audit, t, lanes, today)[i].repo = top[1].name
<1> DEFINE top == TopRepos(audit)
           checkouts == {t[audit[k].at] : k \in DOMAIN audit}
           scanned == {audit[k].at : k \in DOMAIN audit}
           unscanned == {d \in Dirs \ (Linked \cup scanned) : Present(t, d) /\ t[d].roadmap # 0}
           about(severity, area, repo) == [severity |-> severity, area |-> area, repo |-> repo]
<1>21. PICK shell : shell = Advice(top # <<>> /\ MigratableLines(t[top[1].at]) > 0, "high", "shell_migration", top[1].name)
    OBVIOUS
<1>22. PICK hooks : hooks = Advice(\E c \in checkouts : HookFiles(c) # {}, "medium", "hook_surface", "")
    OBVIOUS
<1>23. PICK skills : skills = Advice(\E c \in checkouts : LacksSurface(c) \/ SkillDirsWithoutEntry(c) # {}, "high", "skill_contract", "")
    OBVIOUS
<1>24. PICK mirrors : mirrors = Advice(\E c \in checkouts : MirrorsWithoutSource(c), "medium", "generated_surface", "")
    OBVIOUS
<1>25. PICK baselines : baselines = Advice(BaselineQueue(audit) # {}, "high", "baseline_contract", "")
    OBVIOUS
<1>26. PICK lane : lane = Advice("cleanup_first" \in lanes, "high", "mutation_readiness", "")
    OBVIOUS
<1>27. PICK roadmaps : roadmaps = Advice(unscanned # {} \/ \E c \in checkouts : c.roadmap = 0 \/ Stale(c, today),
            "low", "roadmap_coverage", "")
    OBVIOUS
<1>28. PICK nothing : nothing = Advice(\A c \in checkouts : MigratableLines(c) = 0 /\ HookFiles(c) = {} /\ ~LacksSurface(c),
            "low", "maintenance", "")
    OBVIOUS
<1>2. Recommendations(audit, t, lanes, today) =
          shell \o hooks \o skills \o mirrors \o baselines \o lane \o roadmaps \o nothing
    BY <1>21, <1>22, <1>23, <1>24, <1>25, <1>26, <1>27, <1>28 DEF Recommendations
<1>3. /\ hooks \in {<<>>, <<about("medium", "hook_surface", "")>>}
      /\ skills \in {<<>>, <<about("high", "skill_contract", "")>>}
      /\ mirrors \in {<<>>, <<about("medium", "generated_surface", "")>>}
      /\ baselines \in {<<>>, <<about("high", "baseline_contract", "")>>}
      /\ lane \in {<<>>, <<about("high", "mutation_readiness", "")>>}
      /\ roadmaps \in {<<>>, <<about("low", "roadmap_coverage", "")>>}
      /\ nothing \in {<<>>, <<about("low", "maintenance", "")>>}
    BY <1>22, <1>23, <1>24, <1>25, <1>26, <1>27, <1>28 DEF Advice
<1>4. \/ shell = <<>>
      \/ /\ shell = <<about("high", "shell_migration", top[1].name)>>
         /\ top # <<>> /\ MigratableLines(t[top[1].at]) > 0
    BY <1>21 DEF Advice
<1> HIDE DEF top, checkouts, scanned, unscanned
<1>5. \A severity, area, repo : about(severity, area, repo).area = area /\ about(severity, area, repo).repo = repo
    OBVIOUS
<1> HIDE DEF about
<1> DEFINE elsewhere(s) == IsSeq(s) /\ \A e \in ToSet(s) : e.area # "shell_migration"
<1>6. /\ elsewhere(hooks) /\ elsewhere(skills) /\ elsewhere(mirrors) /\ elsewhere(baselines)
      /\ elsewhere(lane) /\ elsewhere(roadmaps) /\ elsewhere(nothing)
    <2>1. ASSUME NEW a, NEW severity, NEW area, area # "shell_migration", a \in {<<>>, <<about(severity, area, "")>>}
          PROVE  elsewhere(a)
        <3>1. PICK e : e = about(severity, area, "")
            OBVIOUS
        <3>2. a = <<>> \/ a = <<e>>
            BY <2>1, <3>1
        <3>3. IsSeq(a) /\ \A x \in ToSet(a) : x = e
            BY <3>2, OneThing
        <3>4. e.area = area
            BY <1>5, <3>1
        <3> QED BY <2>1, <3>3, <3>4
    <2> HIDE DEF elsewhere
    <2> QED BY <1>3, <2>1
<1>7. IsSeq(shell) /\ \A e \in ToSet(shell) : shell # <<>> /\ e.repo = top[1].name
    BY <1>4, <1>5, OneThing, EmptyHolds
<1> DEFINE good(s) == IsSeq(s) /\ \A e \in ToSet(s) : e.area = "shell_migration" => shell # <<>> /\ e.repo = top[1].name
<1>8. good(shell)
    BY <1>7
<1>9. \A s, r : good(s) /\ elsewhere(r) => good(s \o r)
    BY ConcatHolds
<1> HIDE DEF good, elsewhere
<1>10. PICK all : all = shell \o hooks \o skills \o mirrors \o baselines \o lane \o roadmaps \o nothing
    OBVIOUS
<1>11. good(all)
    BY <1>6, <1>8, <1>9, <1>10
<1>12. all[i] \in ToSet(all) /\ all[i].area = "shell_migration" /\ all[i] = Recommendations(audit, t, lanes, today)[i]
    BY <1>2, <1>10 DEF ToSet
<1> QED BY <1>4, <1>11, <1>12 DEF good, top

(* Where little is kept out of a report, what can be migrated is in it.      *)
LEMMA KeptFits ==
    ASSUME NEW c, IsCheckout(c), MigratableLines(c) > 0, ~(Cardinality(DOMAIN c.shell) > KeptShellFiles)
    PROVE  \E i \in DOMAIN LargestShellFiles(c) : ShellRole(c.shell[LargestShellFiles(c)[i]]) \in CandidateRoles
<1>1. PICK roles : roles = MigratableRoles
    OBVIOUS
<1>2. PICK p \in DOMAIN c.shell : ShellRole(c.shell[p]) \in CandidateRoles
    <2>1. ShellFiles(c, roles) # {}
        <3> SUFFICES ASSUME ShellFiles(c, roles) = {} PROVE FALSE
            OBVIOUS
        <3>1. ShellLines(c, roles) = 0
            BY ShellIsFinite
        <3> QED BY <1>1, <3>1 DEF MigratableLines
    <2> QED BY <1>1, <2>1 DEF ShellFiles, MigratableRoles, CandidateRoles
<1>3. PICK S, key, sorted, n : /\ S = DOMAIN c.shell /\ key = [f \in S |-> -c.shell[f].lines]
                               /\ sorted = InOrder(S, key) /\ n = Cardinality(S)
    OBVIOUS
<1>4. n \in Nat /\ sorted \in [1..n -> S] /\ \A x \in S : \E i \in 1..n : sorted[i] = x
    <2>1. IsFiniteSet(S)
        BY <1>3 DEF IsCheckout
    <2>2. key \in [S -> Int]
        <3>1. \A f \in S : c.shell[f].lines \in Nat
            BY <1>3 DEF IsCheckout
        <3>2. \A f \in S : -c.shell[f].lines \in Int
            BY <3>1
        <3> QED BY <1>3, <3>2
    <2>3. /\ Cardinality(S) \in Nat
          /\ InOrder(S, key) \in [1..Cardinality(S) -> S]
          /\ \A x \in S : \E i \in 1..Cardinality(S) : InOrder(S, key)[i] = x
        BY <2>1, <2>2, InOrderIs
    <2> QED BY <1>3, <2>3
<1>5. sorted \in Seq(S) /\ Len(sorted) = n
    <2>1. sorted \in Seq(S)
        BY <1>4, SeqDef
    <2> QED BY <1>4, <2>1, LenProperties
<1>6. PICK kept : kept = LargestShellFiles(c)
    OBVIOUS
<1>7. kept = SubSeq(sorted, 1, n)
    <2>1. (IF Len(sorted) < KeptShellFiles THEN Len(sorted) ELSE KeptShellFiles) = n
        BY <1>3, <1>4, <1>5, KeptAssumption
    <2>2. kept = SubSeq(sorted, 1, IF Len(sorted) < KeptShellFiles THEN Len(sorted) ELSE KeptShellFiles)
        BY <1>3, <1>6 DEF LargestShellFiles
    <2> QED BY <2>1, <2>2
<1>8. DOMAIN kept = 1..n /\ \A i \in 1..n : kept[i] = sorted[i]
    <2>1. \A i \in 1..n : sorted[i] \in S
        BY <1>4
    <2>2. /\ kept \in Seq(S) /\ Len(kept) = IF 1 <= n THEN n - 1 + 1 ELSE 0
          /\ \A i \in 1..(n - 1 + 1) : kept[i] = sorted[1 + i - 1]
        BY <1>4, <1>7, <2>1, SubSeqProperties
    <2>3. Len(kept) = n
        BY <1>4, <2>2
    <2>4. DOMAIN kept = 1..n
        BY <2>2, <2>3, LenProperties
    <2>5. \A i \in 1..n : i \in 1..(n - 1 + 1) /\ 1 + i - 1 = i
        BY <1>4
    <2> QED BY <2>2, <2>4, <2>5
<1>9. PICK i \in 1..n : sorted[i] = p
    BY <1>2, <1>3, <1>4
<1> QED BY <1>2, <1>6, <1>8, <1>9

(* So where shell code is to be migrated, the candidate is of that repository.*)
LEMMA CandidateFound ==
    ASSUME WorldInv
    PROVE  CandidateUnlessCrowded
<1> SUFFICES ASSUME NEW all \in BOOLEAN,
                    NEW i \in DOMAIN Recommendations(AuditNow(all), tree, {card.lane : card \in Cards(all)}, day),
                    Recommendations(AuditNow(all), tree, {card.lane : card \in Cards(all)}, day)[i].area = "shell_migration",
                    NEW k \in DOMAIN AuditNow(all),
                    AuditNow(all)[k].name =
                        Recommendations(AuditNow(all), tree, {card.lane : card \in Cards(all)}, day)[i].repo,
                    ~(Cardinality(DOMAIN tree[AuditNow(all)[k].at].shell) > KeptShellFiles)
             PROVE  ShellCandidate(AuditNow(all), tree).repo =
                        Recommendations(AuditNow(all), tree, {card.lane : card \in Cards(all)}, day)[i].repo
    BY DEF CandidateUnlessCrowded
<1>1. PICK audit, lanes, selected : /\ audit = AuditNow(all) /\ lanes = {card.lane : card \in Cards(all)}
                                    /\ selected = Selected(manifest, tree, all)
    OBVIOUS
<1>2. PICK n \in Nat : IsAudit(audit, n, selected, tree, policy, day)
    <2>1. \E n \in Nat : IsAudit(Audit(manifest, tree, all, policy, day), n, Selected(manifest, tree, all), tree, policy, day)
        BY AuditIs DEF WorldInv
    <2> QED BY <1>1, <2>1 DEF AuditNow
<1>3. PICK advice : advice = Recommendations(audit, tree, lanes, day)[i]
    OBVIOUS
<1>4. PICK top : top = TopRepos(audit)
    OBVIOUS
<1>5. top # <<>> /\ MigratableLines(tree[top[1].at]) > 0 /\ advice.repo = top[1].name
    BY <1>1, <1>3, <1>4, FirstAdvice
<1>6. 1 \in 1..n /\ DOMAIN audit = 1..n /\ top[1] = audit[1]
    BY <1>2, <1>4, <1>5, TopIsFirst DEF IsAudit
<1>7. \A j \in 1..n : audit[j].name = audit[j].at /\ IsCheckout(tree[audit[j].at])
    <2> TAKE j \in 1..n
    <2>1. PICK r \in selected : audit[j] = AuditRepo(r, tree, policy, day)
        BY <1>2 DEF IsAudit
    <2>2. Present(tree, r.at) /\ r.name = r.at
        BY <1>1, SelectedIs DEF WorldInv
    <2>3. audit[j].name = r.name /\ audit[j].at = r.at
        BY <2>1, <2>2, AuditRepoIs DEF WorldInv
    <2> QED BY <2>2, <2>3 DEF Present, WorldInv, AreCheckouts
<1>8. PICK first, c : first = audit[1] /\ c = tree[first.at]
    OBVIOUS
<1>9. audit[k].at = first.at /\ advice.repo = first.name
    BY <1>1, <1>3, <1>5, <1>6, <1>7, <1>8
<1>10. IsCheckout(c) /\ MigratableLines(c) > 0 /\ ~(Cardinality(DOMAIN c.shell) > KeptShellFiles)
    BY <1>1, <1>5, <1>6, <1>7, <1>8, <1>9
<1> DEFINE kept(r) == LargestShellFiles(tree[r.at])
           fitting(r) == {x \in DOMAIN kept(r) : ShellRole(tree[r.at].shell[kept(r)[x]]) \in CandidateRoles}
<1>11. PICK K, repos : /\ K = {x \in DOMAIN audit : MigratableLines(tree[audit[x].at]) > 0 /\ fitting(audit[x]) # {}}
                       /\ repos = Pick(audit, K)
    OBVIOUS
<1>12. ShellCandidate(audit, tree) =
           IF repos = <<>> THEN [repo |-> "", file |-> ""]
           ELSE [repo |-> repos[1].name, file |-> Pick(kept(repos[1]), fitting(repos[1]))[1]]
    BY <1>11 DEF ShellCandidate
<1>13. fitting(audit[1]) # {}
    BY <1>8, <1>10, KeptFits
<1>14. K \in SUBSET (1..n) /\ 1 \in K
    BY <1>6, <1>8, <1>10, <1>11, <1>13
<1>15. PICK m \in Nat : 1 <= m /\ DOMAIN repos = 1..m /\ repos[1] = audit[1]
    BY <1>11, <1>14, PickedFirst
<1> HIDE DEF kept, fitting
<1>16. repos # <<>>
    <2>1. DOMAIN <<>> = 1..0
        OBVIOUS
    <2>2. 1 \in 1..m /\ 1 \notin 1..0
        BY <1>15
    <2> QED BY <1>15, <2>1, <2>2
<1>17. ShellCandidate(audit, tree).repo = first.name
    BY <1>8, <1>12, <1>15, <1>16
<1> QED BY <1>1, <1>3, <1>9, <1>17

(* The cycle names a file of the repository that the audit recommends, unless*)
(* the report keeps too few of its files (addShellFile, isMigratableShellRole).*)
THEOREM EveryCandidateFound == Spec => []CandidateUnlessCrowded
<1>1. WorkspaceInv => CandidateUnlessCrowded
    BY CandidateFound DEF WorkspaceInv
<1> QED BY <1>1, WorkspaceInvariant, PTL
=============================================================================
