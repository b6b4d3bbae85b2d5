----------------------------- MODULE HeapProofs -----------------------------
(***************************************************************************)
(* Proofs about Heap for every heap length, red zone, size and alignment.  *)
(* Partition, Coalesced and RoomForRedZones support one another: that a    *)
(* carved or grown block leaves no two free ones side by side follows from *)
(* the partition, and that merge has one predecessor to look at as well.   *)
(*                                                                         *)
(* The first part is about sums: the counters of the heap, and those of    *)
(* the page allocator in PmmProofs, are compared with sums over blocks and *)
(* runs.  A sum of natural numbers is the number of the cells that the     *)
(* numbers stand for, and of finite sets of cells the cardinality is       *)
(* known.  The induction is that of the least counterexample: well-        *)
(* foundedness is stated for sets, and so needs no parameter that is an    *)
(* operator.                                                               *)
(***************************************************************************)
EXTENDS Heap, FiniteSetTheorems, WellFoundedInduction, TLAPS

(* What SumFunctionOnSet computes *)


\* f[a] cells for every a of S.
CellsOf(f, S) == {p \in S \X Nat : p[2] \in 1..f[p[1]]}

\* The equation of the recursion in SumFunctionOnSet.
Pick(s) == CHOOSE x \in s : TRUE
Recurs(g, f, S) ==
    g = [s \in SUBSET S |-> IF s = {} THEN 0 ELSE f[Pick(s)] + g[s \ {Pick(s)}]]

\* Every set of natural numbers has a least element.
LEMMA Smallest ==
    ASSUME NEW T, T \subseteq Nat, T # {}
    PROVE  \E x \in T : \A y \in T : x <= y
<1>1. PICK x \in T : \A y \in T : ~(<<y, x>> \in OpToRel(<, Nat))
  BY NatLessThanWellFounded, WFMin
<1>2. \A y \in T : ~(y < x)
  BY <1>1 DEF OpToRel
<1> QED
  BY <1>2

\* The cells of one more element.
LEMMA CellsAdd ==
    ASSUME NEW S, IsFiniteSet(S), NEW a, a \notin S, NEW f, f[a] \in Nat,
           IsFiniteSet(CellsOf(f, S))
    PROVE  /\ IsFiniteSet(CellsOf(f, S \cup {a}))
           /\ Cardinality(CellsOf(f, S \cup {a})) = Cardinality(CellsOf(f, S)) + f[a]
<1> DEFINE n == f[a]
           new == {<<a, k>> : k \in 1..n}
<1>1. IsFiniteSet(new) /\ Cardinality(new) = n
  <2> DEFINE h == [k \in 1..n |-> <<a, k>>]
  <2>1. IsFiniteSet(1..n) /\ Cardinality(1..n) = n
    BY FS_Interval
  <2>2. h \in [1..n -> new]
    OBVIOUS
  <2>3. \A j, k \in 1..n : h[j] = h[k] => j = k
    OBVIOUS
  <2>4. \A p \in new : \E k \in 1..n : h[k] = p
    OBVIOUS
  <2> HIDE DEF h
  <2>5. h \in Bijection(1..n, new)
    BY <2>2, <2>3, <2>4 DEF Bijection, Injection, Surjection, IsInjective
  <2>6. ExistsBijection(1..n, new)
    BY <2>5 DEF ExistsBijection
  <2> QED
    BY <2>1, <2>6, FS_Bijection
<1>2. CellsOf(f, S \cup {a}) = CellsOf(f, S) \cup new
  BY DEF CellsOf
<1>3. CellsOf(f, S) \cap new = {}
  BY DEF CellsOf
<1>4. /\ IsFiniteSet(CellsOf(f, S) \cup new)
      /\ Cardinality(CellsOf(f, S) \cup new) =
           Cardinality(CellsOf(f, S)) + Cardinality(new) - Cardinality(CellsOf(f, S) \cap new)
  BY <1>1, FS_Union
<1>5. Cardinality({}) = 0 /\ Cardinality(CellsOf(f, S)) \in Nat
  BY FS_EmptySet, FS_CardinalityType
<1> HIDE DEF new
<1>6. Cardinality(CellsOf(f, S) \cup new) = Cardinality(CellsOf(f, S)) + n - 0
  BY <1>1, <1>3, <1>4, <1>5
<1>7. Cardinality(CellsOf(f, S)) + n - 0 = Cardinality(CellsOf(f, S)) + n
  BY <1>5
<1> QED
  BY <1>2, <1>4, <1>6, <1>7

\* Induction over the subsets of a finite set, as the least counterexample.
LEMMA LeastSubset ==
    ASSUME NEW S, IsFiniteSet(S), NEW Bad, Bad \subseteq SUBSET S, Bad # {}, {} \notin Bad
    PROVE  \E s \in Bad : IsFiniteSet(s) /\ \A x \in s : s \ {x} \in (SUBSET S) \ Bad
<1> DEFINE T == {Cardinality(s) : s \in Bad}
<1>1. \A s \in SUBSET S : IsFiniteSet(s) /\ Cardinality(s) \in Nat
  BY FS_Subset, FS_CardinalityType
<1>2. T \subseteq Nat /\ T # {}
  BY <1>1
<1>3. PICK n \in T : \A m \in T : n <= m
  BY <1>2, Smallest
<1>4. PICK s \in Bad : Cardinality(s) = n
  BY <1>3
<1>5. ASSUME NEW x \in s PROVE s \ {x} \in (SUBSET S) \ Bad
  <2>1. Cardinality(s \ {x}) = Cardinality(s) - 1
    BY <1>1, FS_RemoveElement
  <2>2. s \ {x} \notin Bad
    <3>1. SUFFICES ASSUME s \ {x} \in Bad PROVE FALSE
      OBVIOUS
    <3>2. n <= Cardinality(s \ {x})
      BY <1>3, <3>1
    <3>3. Cardinality(s \ {x}) = n - 1 /\ n \in Nat
      BY <1>2, <1>4, <2>1
    <3> QED
      BY <3>2, <3>3
  <2> QED
    BY <2>2
<1> QED
  BY <1>1, <1>4, <1>5

\* The cells of a finite set are finite in number.
LEMMA CellsFinite ==
    ASSUME NEW S, IsFiniteSet(S), NEW f, \A a \in S : f[a] \in Nat
    PROVE  \A s \in SUBSET S : IsFiniteSet(CellsOf(f, s)) /\ Cardinality(CellsOf(f, s)) \in Nat
<1> DEFINE Bad == {s \in SUBSET S : ~IsFiniteSet(CellsOf(f, s))}
<1>1. CellsOf(f, {}) = {}
  BY DEF CellsOf
<1>2. {} \notin Bad
  BY <1>1, FS_EmptySet
<1>3. Bad = {}
  <2> SUFFICES ASSUME Bad # {} PROVE FALSE
    OBVIOUS
  <2>0. Bad \subseteq SUBSET S
    OBVIOUS
  <2> HIDE DEF Bad
  <2>1. PICK s \in Bad : IsFiniteSet(s) /\ \A x \in s : s \ {x} \in (SUBSET S) \ Bad
    BY <1>2, <2>0, LeastSubset
  <2> USE DEF Bad
  <2>2. PICK x \in s : TRUE
    BY <1>2
  <2>3. IsFiniteSet(CellsOf(f, s \ {x})) /\ IsFiniteSet(s \ {x}) /\ x \notin s \ {x} /\ f[x] \in Nat
    BY <2>1, <2>2, FS_Subset
  <2>4. IsFiniteSet(CellsOf(f, (s \ {x}) \cup {x}))
    BY <2>3, CellsAdd
  <2>5. (s \ {x}) \cup {x} = s
    BY <2>2
  <2> QED
    BY <2>4, <2>5
<1> QED
  BY <1>3, FS_CardinalityType

\* Counting the cells is a solution of the recursion, and the only one.
LEMMA SumIsCells ==
    ASSUME NEW S, IsFiniteSet(S), NEW f, \A a \in S : f[a] \in Nat
    PROVE  /\ \E g : Recurs(g, f, S)
           /\ \A g : Recurs(g, f, S) => g[S] = Cardinality(CellsOf(f, S))
<1> DEFINE w == [s \in SUBSET S |-> Cardinality(CellsOf(f, s))]
<1>1. \A s \in SUBSET S : IsFiniteSet(s) /\ IsFiniteSet(CellsOf(f, s))
  BY FS_Subset, CellsFinite
<1>2. ASSUME NEW s \in SUBSET S, NEW x \in s
      PROVE  Cardinality(CellsOf(f, s)) = f[x] + Cardinality(CellsOf(f, s \ {x}))
  <2>1. IsFiniteSet(s \ {x}) /\ IsFiniteSet(CellsOf(f, s \ {x})) /\ x \notin s \ {x} /\ f[x] \in Nat
    BY <1>1
  <2>2. (s \ {x}) \cup {x} = s
    OBVIOUS
  <2>3. Cardinality(CellsOf(f, (s \ {x}) \cup {x})) = Cardinality(CellsOf(f, s \ {x})) + f[x]
    BY <2>1, CellsAdd
  <2>4. Cardinality(CellsOf(f, s \ {x})) \in Nat
    BY <2>1, FS_CardinalityType
  <2>5. Cardinality(CellsOf(f, s)) = Cardinality(CellsOf(f, s \ {x})) + f[x]
    BY <2>2, <2>3
  <2> QED
    BY <2>1, <2>4, <2>5
<1>3. CellsOf(f, {}) = {} /\ Cardinality({}) = 0
  BY FS_EmptySet DEF CellsOf
<1>4. \A s \in SUBSET S : s # {} => Pick(s) \in s
  BY DEF Pick
<1>5. Recurs(w, f, S)
  <2>1. ASSUME NEW s \in SUBSET S
        PROVE  Cardinality(CellsOf(f, s)) =
                   IF s = {} THEN 0 ELSE f[Pick(s)] + w[s \ {Pick(s)}]
    <3>1. CASE s = {}
      BY <1>3, <3>1
    <3>2. CASE s # {}
      BY <1>2, <1>4, <3>2
    <3> QED
      BY <3>1, <3>2
  <2> QED
    BY <2>1 DEF Recurs
<1>6. ASSUME NEW g, Recurs(g, f, S) PROVE \A s \in SUBSET S : g[s] = Cardinality(CellsOf(f, s))
  <2> DEFINE Bad == {s \in SUBSET S : g[s] # Cardinality(CellsOf(f, s))}
  <2>1. \A s \in SUBSET S : g[s] = IF s = {} THEN 0 ELSE f[Pick(s)] + g[s \ {Pick(s)}]
    BY <1>6 DEF Recurs
  <2>2. {} \notin Bad
    BY <1>3, <2>1
  <2>3. Bad = {}
    <3> SUFFICES ASSUME Bad # {} PROVE FALSE
      OBVIOUS
    <3>0. Bad \subseteq SUBSET S
      OBVIOUS
    <3> HIDE DEF Bad
    <3>1. PICK s \in Bad : IsFiniteSet(s) /\ \A x \in s : s \ {x} \in (SUBSET S) \ Bad
      BY <2>2, <3>0, LeastSubset
    <3> USE DEF Bad
    <3>2. s \in SUBSET S /\ s # {} /\ Pick(s) \in s
      BY <2>2, <1>4
    <3>3. g[s] = f[Pick(s)] + Cardinality(CellsOf(f, s \ {Pick(s)}))
      BY <2>1, <3>1, <3>2
    <3> QED
      BY <1>2, <3>2, <3>3
  <2> QED
    BY <2>3
<1> QED
  BY <1>5, <1>6

\* A sum of natural numbers is the number of their cells.
LEMMA SumCounts ==
    ASSUME NEW S, IsFiniteSet(S), NEW f, \A a \in S : f[a] \in Nat
    PROVE  SumFunctionOnSet(f, S) = Cardinality(CellsOf(f, S))
<1> DEFINE it == CHOOSE g : Recurs(g, f, S)
<1>1. SumFunctionOnSet(f, S) = it[S]
  BY DEF SumFunctionOnSet, FoldFunctionOnSet, MapThenFoldSet, Recurs, Pick
<1>2. Recurs(it, f, S)
  BY SumIsCells
<1> QED
  BY <1>1, <1>2, SumIsCells

\* The laws of sums that the proofs about counters use.
LEMMA SumType ==
    ASSUME NEW S, IsFiniteSet(S), NEW f, \A a \in S : f[a] \in Nat
    PROVE  SumFunctionOnSet(f, S) \in Nat
BY SumCounts, CellsFinite

LEMMA SumOfNone == ASSUME NEW f PROVE SumFunctionOnSet(f, {}) = 0
<1>1. CellsOf(f, {}) = {}
  BY DEF CellsOf
<1>2. SumFunctionOnSet(f, {}) = Cardinality(CellsOf(f, {}))
  BY SumCounts, FS_EmptySet
<1> QED
  BY <1>1, <1>2, FS_EmptySet

LEMMA SumSame ==
    ASSUME NEW S, IsFiniteSet(S), NEW f, NEW g, \A a \in S : f[a] \in Nat /\ g[a] = f[a]
    PROVE  SumFunctionOnSet(g, S) = SumFunctionOnSet(f, S)
<1>1. CellsOf(g, S) = CellsOf(f, S)
  BY DEF CellsOf
<1>2. \A a \in S : g[a] \in Nat
  OBVIOUS
<1> QED
  BY <1>1, <1>2, SumCounts

LEMMA SumAdd ==
    ASSUME NEW S, IsFiniteSet(S), NEW a, a \notin S, NEW f, \A b \in S \cup {a} : f[b] \in Nat
    PROVE  SumFunctionOnSet(f, S \cup {a}) = SumFunctionOnSet(f, S) + f[a]
<1>1. IsFiniteSet(S \cup {a})
  BY FS_AddElement
<1>2. IsFiniteSet(CellsOf(f, S))
  BY CellsFinite
<1>3. Cardinality(CellsOf(f, S \cup {a})) = Cardinality(CellsOf(f, S)) + f[a]
  BY <1>2, CellsAdd
<1>4. SumFunctionOnSet(f, S \cup {a}) = Cardinality(CellsOf(f, S \cup {a}))
  BY <1>1, SumCounts
<1>5. SumFunctionOnSet(f, S) = Cardinality(CellsOf(f, S))
  BY SumCounts
<1> QED
  BY <1>3, <1>4, <1>5

-----------------------------------------------------------------------------
(* Heap *)


\* The state of the blocks, without the counters.
Blocks ==
    /\ len \in [Addr -> 0..H] /\ free \subseteq Starts
    /\ Partition /\ Coalesced /\ RoomForRedZones

Counters ==
    /\ usedmem \in Int /\ freemem \in Int /\ lost \in 0..MaxLost /\ halted \in BOOLEAN
    /\ CountersBalance

IInv == Blocks /\ Counters

\* Every block lies inside the heap.
LEMMA BlockInside ==
    ASSUME Blocks, NEW a \in Starts
    PROVE  /\ a \in Nat /\ len[a] \in Nat \ {0} /\ a < H /\ a + len[a] <= H
BY HAssumption DEF Blocks, Partition, Starts, Addr

LEMMA CarveBlocks ==
    ASSUME Blocks, NEW b \in free, NEW a \in Nat, b <= a,
           NEW n \in Nat, n > 2 * RZ, (a - b) + n <= len[b],
           Carve(b, a, n)
    PROVE  Blocks'
<1> DEFINE rest == len[b] - (a - b) - n
           R == IF rest > 0 THEN {a + n} ELSE {}
<1>0. /\ RZ \in Nat /\ H \in Nat \ {0} /\ n > 0
      /\ b \in Starts /\ b \in Nat /\ len[b] \in Nat \ {0} /\ b + len[b] <= H
  BY RZAssumption, HAssumption, BlockInside DEF Blocks
<1>1. /\ a \in Addr /\ rest \in Nat /\ (rest > 0 => a + n \in Addr)
      /\ a + n + rest = b + len[b]
  BY <1>0 DEF Addr
<1>2. /\ len' = [x \in Addr |->
                    CASE x = a -> n
                      [] x = b /\ x # a -> a - b
                      [] x = a + n /\ rest > 0 -> rest
                      [] OTHER -> len[x]]
      /\ free' = (free \ {b}) \cup (IF a # b THEN {b} ELSE {}) \cup R
  BY DEF Carve
<1>3. \A x \in Starts : x # b => x # a /\ (rest > 0 => x # a + n)
  BY <1>0, <1>1, BlockInside DEF Blocks, Partition
<1>4. /\ len'[a] = n /\ (a # b => len'[b] = a - b) /\ (rest > 0 => len'[a + n] = rest)
      /\ \A x \in Addr : x # a /\ x # b /\ ~(rest > 0 /\ x = a + n) => len'[x] = len[x]
  BY <1>0, <1>1, <1>2 DEF Starts
<1> HIDE DEF rest
<1>5. len' \in [Addr -> 0..H]
  <2>1. \A x \in Addr : len[x] \in 0..H
    BY DEF Blocks
  <2>2. n \in 0..H /\ a - b \in 0..H /\ rest \in 0..H
    BY <1>0, <1>1
  <2> QED
    BY <1>2, <2>1, <2>2
<1>6. Starts' = Starts \cup {a} \cup R
  <2>1. \A x : x \in Starts <=> x \in Addr /\ len[x] > 0
    BY DEF Starts
  <2>2. \A x : x \in Starts' <=> x \in Addr /\ len'[x] > 0
    BY DEF Starts
  <2>3. len'[a] > 0 /\ len'[b] > 0 /\ (rest > 0 => len'[a + n] > 0)
    BY <1>0, <1>1, <1>4
  <2> QED
    BY <1>0, <1>1, <1>4, <2>1, <2>2, <2>3
<1>7. free' \subseteq Starts'
  BY <1>0, <1>2, <1>6 DEF Blocks
<1>8. \A x \in Starts : x # b => len'[x] = len[x]
  <2>1. \A x \in Starts : x \in Addr
    BY DEF Starts
  <2> QED
    BY <1>3, <1>4, <2>1
<1>9. \A x \in Starts : x \in Nat /\ len[x] \in Nat \ {0} /\ x + len[x] <= H
  BY BlockInside
<1>10. Partition'
  <2>1. 0 \in Starts'
    BY <1>6 DEF Blocks, Partition
  <2>2. ASSUME NEW x \in Starts'
        PROVE  x + len'[x] = H \/ x + len'[x] \in Starts'
    <3>1. CASE x = a
      BY <1>0, <1>1, <1>4, <1>6, <3>1 DEF Blocks, Partition
    <3>2. CASE x = b /\ x # a
      BY <1>0, <1>1, <1>4, <1>6, <3>2
    <3>3. CASE rest > 0 /\ x = a + n
      BY <1>0, <1>1, <1>4, <1>6, <3>3 DEF Blocks, Partition
    <3>4. CASE x \in Starts /\ x # b
      BY <1>6, <1>8, <3>4 DEF Blocks, Partition
    <3> QED
      BY <1>6, <3>1, <3>2, <3>3, <3>4
  <2>3. ASSUME NEW x \in Starts', NEW y \in Starts'
        PROVE  y <= x \/ x + len'[x] <= y
    <3>1. \A z \in Starts : z <= b \/ b + len[b] <= z
      BY <1>0 DEF Blocks, Partition
    <3>2. CASE x \in Starts /\ x # b
      <4>1. b <= x \/ x + len[x] <= b
        BY <1>0, <3>2 DEF Blocks, Partition
      <4>2. CASE y \in Starts
        BY <1>8, <3>2, <4>2 DEF Blocks, Partition
      <4>3. CASE y = a
        BY <1>0, <1>1, <1>8, <1>9, <3>1, <3>2, <4>1, <4>3
      <4>4. CASE rest > 0 /\ y = a + n
        BY <1>0, <1>1, <1>8, <1>9, <3>1, <3>2, <4>1, <4>4
      <4> QED
        BY <1>6, <4>2, <4>3, <4>4
    <3>3. CASE x = a
      BY <1>0, <1>1, <1>4, <1>6, <1>9, <3>1, <3>3
    <3>4. CASE x = b /\ x # a
      BY <1>0, <1>1, <1>4, <1>6, <1>9, <3>1, <3>4
    <3>5. CASE rest > 0 /\ x = a + n
      BY <1>0, <1>1, <1>4, <1>6, <1>9, <3>1, <3>5
    <3> QED
      BY <1>6, <3>2, <3>3, <3>4, <3>5
  <2> QED
    BY <2>1, <2>2, <2>3 DEF Partition
<1>11. Coalesced'
  <2> SUFFICES ASSUME NEW x \in free', x + len'[x] \in free' PROVE FALSE
    BY DEF Coalesced
  <2>1. \A z \in free : z \in Starts /\ z + len[z] \notin free
    BY DEF Blocks, Coalesced
  <2>2. \A z \in Starts : z <= b \/ b + len[b] <= z
    BY <1>0 DEF Blocks, Partition
  <2>3. \A z \in Starts : z # b => b <= z \/ z + len[z] <= b
    BY <1>0 DEF Blocks, Partition
  <2>4. CASE x \in free /\ x # b
    <3>1. x \in Starts /\ x + len'[x] = x + len[x] /\ x + len[x] # b
      BY <1>8, <2>1, <2>4
    <3>2. rest > 0 => x + len[x] # a + n
      BY <1>0, <1>1, <1>9, <2>2, <2>3, <2>4, <3>1
    <3> QED
      BY <1>2, <2>1, <2>4, <3>1, <3>2
  <2>5. CASE x = b /\ a # b
    <3>1. x + len'[x] = a
      BY <1>0, <1>4, <2>5
    <3>2. a \notin free /\ a # a + n
      BY <1>0, <1>3, <2>1, <2>5
    <3> QED
      BY <1>2, <2>5, <3>1, <3>2
  <2>6. CASE rest > 0 /\ x = a + n
    BY <1>0, <1>1, <1>2, <1>4, <2>1, <2>6
  <2> QED
    BY <1>2, <2>4, <2>5, <2>6
<1>12. RoomForRedZones'
  BY <1>0, <1>2, <1>4, <1>6, <1>8 DEF Blocks, RoomForRedZones, Used
<1> QED
  BY <1>5, <1>7, <1>10, <1>11, <1>12 DEF Blocks

LEMMA GrowBlocks ==
    ASSUME Blocks, NEW a \in Addr, NEW n \in Nat, Grow(a, n)
    PROVE  Blocks'
<1> DEFINE next == a + len[a]
           need == n - len[a]
           rest == len[next] - need
           R == IF rest > 0 THEN {a + n} ELSE {}
<1>1. /\ a \in Used /\ need > 0 /\ next \in free /\ len[next] >= need
      /\ len' = [x \in Addr |->
                    CASE x = a -> n
                      [] x = a + n /\ len[next] > need -> len[next] - need
                      [] x = next -> 0
                      [] OTHER -> len[x]]
      /\ free' = (free \ {next}) \cup (IF len[next] > need THEN {a + n} ELSE {})
  BY DEF Grow
<1>2. /\ a \in Starts /\ a \notin free /\ next \in Starts /\ RZ \in Nat /\ H \in Nat
      /\ a \in Nat /\ len[a] \in Nat \ {0} /\ len[next] \in Nat \ {0}
      /\ next \in Nat /\ next + len[next] <= H
  BY <1>1, RZAssumption, HAssumption, BlockInside DEF Blocks, Used
<1>3. /\ need \in Nat /\ rest \in Nat /\ a + n = next + need /\ a + n + rest = next + len[next]
      /\ (rest > 0 <=> len[next] > need) /\ (rest > 0 => a + n \in Addr) /\ next \in Addr
  <2>1. need > 0 /\ len[next] >= need
    BY <1>1
  <2>2. need \in Nat /\ rest \in Nat /\ (rest > 0 <=> len[next] > need)
    BY <1>2, <2>1
  <2>3. a + n = next + need /\ a + n + rest = next + len[next]
    BY <1>2
  <2>4. next \in Addr
    BY <1>2 DEF Addr
  <2>5. rest > 0 => a + n \in Addr
    BY <1>2, <2>2, <2>3 DEF Addr
  <2> QED
    BY <2>2, <2>3, <2>4, <2>5
<1>4. /\ len'[a] = n /\ (rest > 0 => len'[a + n] = rest) /\ len'[next] = 0
      /\ \A x \in Addr : x # a /\ x # next /\ ~(rest > 0 /\ x = a + n) => len'[x] = len[x]
  BY <1>1, <1>2, <1>3
<1>5. free' = (free \ {next}) \cup R
  BY <1>1, <1>3
<1>6. len' \in [Addr -> 0..H]
  <2>1. \A x \in Addr : len[x] \in 0..H
    BY DEF Blocks
  <2>2. n \in 0..H /\ len[next] > need => len[next] - need \in 0..H
    BY <1>2, <1>3
  <2>3. n \in 0..H
    BY <1>1, <1>2, <1>3
  <2> QED
    BY <1>1, <1>2, <2>1, <2>2, <2>3
<1> HIDE DEF rest, need, next
<1>7. \A x \in Starts : x <= next \/ next + len[next] <= x
  BY <1>2 DEF Blocks, Partition
<1>8. \A x \in Starts : x \in Nat /\ len[x] \in Nat \ {0} /\ x \in Addr /\ x + len[x] <= H
  BY BlockInside DEF Starts
<1>9. rest > 0 => a + n \notin Starts
  BY <1>1, <1>2, <1>3, <1>7, <1>8
<1>13. a < next /\ next < a + n
  <2>1. need > 0
    BY <1>1 DEF need
  <2> QED
    BY <1>2, <1>3, <2>1 DEF next
<1>10. Starts' = (Starts \ {next}) \cup R
  <2>1. \A x : x \in Starts <=> x \in Addr /\ len[x] > 0
    BY DEF Starts
  <2>2. \A x : x \in Starts' <=> x \in Addr /\ len'[x] > 0
    BY DEF Starts
  <2>3. len'[a] > 0 /\ a # next /\ (rest > 0 => len'[a + n] > 0 /\ a + n # next) /\ ~(len'[next] > 0)
    BY <1>2, <1>4, <1>13
  <2> QED
    BY <1>2, <1>3, <1>4, <2>1, <2>2, <2>3
<1>11. \A x \in Starts : x # a /\ x # next => len'[x] = len[x]
  BY <1>4, <1>8, <1>9
<1>12. \A x, y \in Starts : y <= x \/ x + len[x] <= y
  BY DEF Blocks, Partition
<1>14. Partition'
  <2>1. 0 \in Starts'
    BY <1>2, <1>10, <1>13 DEF Blocks, Partition
  <2>2. ASSUME NEW x \in Starts'
        PROVE  x + len'[x] = H \/ x + len'[x] \in Starts'
    <3>1. CASE x = a
      <4>1. CASE rest > 0
        BY <1>4, <1>10, <3>1, <4>1
      <4>2. CASE rest = 0
        <5>1. a + n = H \/ a + n \in Starts
          BY <1>2, <1>3, <4>2 DEF Blocks, Partition
        <5> QED
          BY <1>2, <1>3, <1>4, <1>10, <1>13, <3>1, <5>1
      <4> QED
        BY <1>3, <4>1, <4>2
    <3>2. CASE rest > 0 /\ x = a + n
      <4>1. next + len[next] = H \/ next + len[next] \in Starts
        BY <1>2 DEF Blocks, Partition
      <4> QED
        BY <1>2, <1>3, <1>4, <1>10, <3>2, <4>1
    <3>3. CASE x \in Starts /\ x # a /\ x # next
      <4>1. x + len[x] = H \/ x + len[x] \in Starts
        BY <3>3 DEF Blocks, Partition
      <4>2. x + len[x] # next
        BY <1>2, <1>8, <1>12, <3>3 DEF next
      <4> QED
        BY <1>10, <1>11, <3>3, <4>1, <4>2
    <3> QED
      BY <1>10, <3>1, <3>2, <3>3
  <2>3. ASSUME NEW x \in Starts', NEW y \in Starts'
        PROVE  y <= x \/ x + len'[x] <= y
    <3>1. \A z \in Starts : z <= a \/ next <= z
      BY <1>2, <1>12 DEF next
    <3>2. CASE x \in Starts /\ x # a /\ x # next
      BY <1>2, <1>3, <1>7, <1>8, <1>10, <1>11, <1>12, <3>1, <3>2
    <3>3. CASE x = a
      BY <1>2, <1>3, <1>4, <1>7, <1>8, <1>10, <3>1, <3>3
    <3>4. CASE rest > 0 /\ x = a + n
      BY <1>2, <1>3, <1>4, <1>7, <1>8, <1>10, <1>13, <3>4
    <3> QED
      BY <1>10, <3>2, <3>3, <3>4
  <2> QED
    BY <2>1, <2>2, <2>3 DEF Partition
<1>15. Coalesced'
  <2> SUFFICES ASSUME NEW x \in free', x + len'[x] \in free' PROVE FALSE
    BY DEF Coalesced
  <2>1. \A z \in free : z \in Starts /\ z + len[z] \notin free
    BY DEF Blocks, Coalesced
  <2>2. CASE x \in free /\ x # next
    <3>1. x \in Starts /\ x # a /\ len'[x] = len[x]
      BY <1>2, <1>11, <2>1, <2>2
    <3>2. rest > 0 => x + len[x] # a + n
      BY <1>2, <1>3, <1>7, <1>8, <1>12, <1>13, <2>2, <3>1
    <3> QED
      BY <1>5, <2>1, <2>2, <3>1, <3>2
  <2>3. CASE rest > 0 /\ x = a + n
    <3>1. x + len'[x] = next + len[next] /\ x + len'[x] # a + n
      BY <1>2, <1>3, <1>4, <2>3
    <3> QED
      BY <1>1, <1>5, <2>1, <3>1 DEF next
  <2> QED
    BY <1>5, <2>2, <2>3
<1>16. RoomForRedZones'
  <2>1. n > 2 * RZ
    BY <1>1, <1>2 DEF Blocks, RoomForRedZones, need
  <2> QED
    BY <1>4, <1>5, <1>10, <1>11, <2>1 DEF Blocks, RoomForRedZones, Used
<1> QED
  BY <1>5, <1>6, <1>10, <1>14, <1>15, <1>16 DEF Blocks

\* All blocks between s and e become one free block.
LEMMA MergeBlocks ==
    ASSUME Blocks, NEW s \in Starts, NEW e \in Nat, s < e, e <= H,
           e = H \/ e \in Starts \ free,
           \A z \in free : z # s => z + len[z] # s,
           NEW D, \A z : z \in D <=> z \in Starts /\ s < z /\ z < e,
           len' = [x \in Addr |-> IF x = s THEN e - s ELSE IF x \in D THEN 0 ELSE len[x]],
           free' = (free \ D) \cup {s}
    PROVE  Blocks'
<1>1. \A x \in Starts : x \in Nat /\ len[x] \in Nat \ {0} /\ x \in Addr /\ x + len[x] <= H
  BY BlockInside DEF Starts
<1>2. /\ s \in Nat /\ s \in Addr /\ H \in Nat /\ RZ \in Nat
      /\ \A z : z \in D <=> z \in Starts /\ s < z /\ z < e
      /\ s \notin D /\ e \notin D
  BY <1>1, HAssumption, RZAssumption
<1>3. \A x, y \in Starts : y <= x \/ x + len[x] <= y
  BY DEF Blocks, Partition
<1>4. len' \in [Addr -> 0..H]
  <2>1. \A x \in Addr : len[x] \in 0..H
    BY DEF Blocks
  <2>2. e - s \in 0..H
    BY <1>2
  <2>3. \A x \in Addr : (IF x = s THEN e - s ELSE IF x \in D THEN 0 ELSE len[x]) \in 0..H
    BY <1>2, <2>1, <2>2
  <2> QED
    BY <2>3
<1>5. /\ len'[s] = e - s
      /\ \A x \in Addr : x # s => len'[x] = IF x \in D THEN 0 ELSE len[x]
  BY <1>2
<1>6. Starts' = Starts \ D
  <2>1. \A x : x \in Starts <=> x \in Addr /\ len[x] > 0
    BY DEF Starts
  <2>2. \A x : x \in Starts' <=> x \in Addr /\ len'[x] > 0
    BY DEF Starts
  <2>3. len'[s] > 0
    BY <1>2, <1>5
  <2> QED
    BY <1>2, <1>5, <2>1, <2>2, <2>3
<1>7. \A x \in Starts \ D : x # s => len'[x] = len[x] /\ (x < s \/ e <= x)
  BY <1>1, <1>2, <1>5
<1>8. Partition'
  <2>1. 0 \in Starts'
    BY <1>1, <1>2, <1>6 DEF Blocks, Partition
  <2>2. ASSUME NEW x \in Starts'
        PROVE  x + len'[x] = H \/ x + len'[x] \in Starts'
    <3>1. CASE x = s
      BY <1>2, <1>5, <1>6, <3>1
    <3>2. CASE x # s
      <4>1. x + len[x] = H \/ x + len[x] \in Starts
        BY <1>6 DEF Blocks, Partition
      <4>2. x + len[x] \notin D
        BY <1>1, <1>2, <1>3, <1>6, <1>7, <3>2
      <4> QED
        BY <1>6, <1>7, <3>2, <4>1, <4>2
    <3> QED
      BY <3>1, <3>2
  <2>3. ASSUME NEW x \in Starts', NEW y \in Starts'
        PROVE  y <= x \/ x + len'[x] <= y
    <3>1. CASE x = s
      BY <1>1, <1>2, <1>5, <1>6, <1>7, <3>1
    <3>2. CASE x # s
      BY <1>3, <1>6, <1>7, <3>2
    <3> QED
      BY <3>1, <3>2
  <2> QED
    BY <2>1, <2>2, <2>3 DEF Partition
<1>9. Coalesced'
  <2> SUFFICES ASSUME NEW x \in free', x + len'[x] \in free' PROVE FALSE
    BY DEF Coalesced
  <2>1. \A z \in free : z \in Starts /\ z + len[z] \notin free
    BY DEF Blocks, Coalesced
  <2>2. CASE x = s
    <3>1. x + len'[x] = e /\ e # s
      BY <1>2, <1>5, <2>2
    <3>2. e \notin free
      BY <1>1, <1>2, <2>1
    <3> QED
      BY <3>1, <3>2
  <2>3. CASE x # s
    <3>1. x \in free /\ x \in Starts \ D /\ len'[x] = len[x]
      BY <1>7, <2>1, <2>3
    <3> QED
      BY <2>1, <2>3, <3>1
  <2> QED
    BY <2>2, <2>3
<1>10. RoomForRedZones'
  BY <1>6, <1>7 DEF Blocks, RoomForRedZones, Used
<1>11. free' \subseteq Starts'
  BY <1>2, <1>6 DEF Blocks
<1> QED
  BY <1>4, <1>8, <1>9, <1>10, <1>11 DEF Blocks

LEMMA ReleaseBlocks ==
    ASSUME Blocks, NEW a \in Addr, Release(a)
    PROVE  Blocks'
<1> DEFINE next == a + len[a]
           withNext == IF next \in free THEN len[a] + len[next] ELSE len[a]
           prev == {p \in free : p + len[p] = a}
           e == a + withNext
           N == IF next \in free THEN {next} ELSE {}
<1>1. /\ a \in Used
      /\ len' = [x \in Addr |->
                    CASE x \in prev -> len[x] + withNext
                      [] x = a /\ prev = {} -> withNext
                      [] x = a /\ prev # {} -> 0
                      [] x = next /\ next \in free -> 0
                      [] OTHER -> len[x]]
      /\ free' = (free \ {next}) \cup (IF prev = {} THEN {a} ELSE {})
  BY DEF Before, Release
<1>2. \A x \in Starts : x \in Nat /\ len[x] \in Nat \ {0} /\ x \in Addr /\ x + len[x] <= H
  BY BlockInside DEF Starts
<1>3. \A x, y \in Starts : y <= x \/ x + len[x] <= y
  BY DEF Blocks, Partition
<1>4. \A x \in free : x \in Starts /\ x + len[x] \notin free
  BY DEF Blocks, Coalesced
<1>5. /\ a \in Starts /\ a \notin free /\ a \in Nat /\ len[a] \in Nat \ {0} /\ H \in Nat
      /\ next \in Nat /\ next <= H /\ a < next
  BY <1>1, <1>2, HAssumption DEF Used
<1>6. next = H \/ next \in Starts
  BY <1>5 DEF Blocks, Partition
<1>7. /\ e \in Nat /\ next <= e /\ e <= H /\ (e = H \/ e \in Starts \ free)
      /\ withNext = e - a
      /\ \A z : z \in N <=> z \in Starts /\ a < z /\ z < e
  <2>1. CASE next \in free
    <3>1. e = next + len[next] /\ next \in Starts /\ withNext = e - a
      BY <1>2, <1>4, <1>5, <2>1
    <3>2. e = H \/ e \in Starts
      BY <3>1 DEF Blocks, Partition
    <3>3. e \in Nat /\ next <= e /\ e <= H /\ e \notin free
      BY <1>2, <1>4, <2>1, <3>1
    <3>4. \A z \in Starts : z <= a \/ next <= z
      BY <1>3, <1>5
    <3>5. \A z \in Starts : z <= next \/ e <= z
      BY <1>3, <3>1
    <3>6. \A z : z \in N <=> z \in Starts /\ a < z /\ z < e
      <4> HIDE DEF next, e
      <4>1. next < e
        BY <1>2, <1>5, <3>1, <3>3
      <4> QED
        <5>1. N = {next}
          BY <2>1
        <5>2. ASSUME NEW z \in Starts, a < z, z < e PROVE z = next
          BY <1>2, <1>5, <3>3, <3>4, <3>5, <5>2
        <5> HIDE DEF N
        <5> QED
          BY <1>5, <3>1, <4>1, <5>1, <5>2
    <3> QED
      BY <3>1, <3>2, <3>3, <3>6
  <2>2. CASE next \notin free
    <3>1. e = next /\ withNext = e - a
      BY <1>5, <2>2
    <3>2. \A z \in Starts : z <= a \/ next <= z
      BY <1>3, <1>5
    <3>3. \A z : z \in N <=> z \in Starts /\ a < z /\ z < e
      <4>1. N = {}
        BY <2>2
      <4>2. ASSUME NEW z \in Starts, a < z, z < e PROVE FALSE
        <5> HIDE DEF next, e
        <5> QED
          BY <1>2, <1>5, <3>1, <3>2, <4>2
      <4> HIDE DEF N, e
      <4> QED
        BY <4>1, <4>2
    <3> QED
      BY <1>5, <1>6, <2>2, <3>1, <3>3
  <2> QED
    BY <2>1, <2>2
<1>8. CASE prev = {}
  <2>1. \A z \in free : z # a => z + len[z] # a
    BY <1>8
  <2>2. \A z : z \in N <=> z \in Starts /\ a < z /\ z < e
    BY <1>7
  <2>3. len' = [x \in Addr |-> IF x = a THEN e - a ELSE IF x \in N THEN 0 ELSE len[x]]
    BY <1>1, <1>5, <1>7, <1>8
  <2>4. free' = (free \ N) \cup {a}
    BY <1>1, <1>8
  <2> HIDE DEF e, N, next, withNext, prev
  <2>5. a \in Starts /\ e \in Nat /\ a < e /\ e <= H /\ (e = H \/ e \in Starts \ free)
    BY <1>5, <1>7
  <2> QED
    BY <2>1, <2>2, <2>3, <2>4, <2>5, MergeBlocks
<1>9. CASE prev # {}
  <2>1. PICK p \in free : p + len[p] = a
    BY <1>9
  <2>2. /\ p \in Starts /\ p \in Nat /\ len[p] \in Nat \ {0} /\ p < a /\ p # next
    <3>1. p \in Starts /\ p \in Nat /\ len[p] \in Nat \ {0}
      BY <1>2, <1>4
    <3>2. p < a
      BY <1>5, <2>1, <3>1
    <3> QED
      BY <1>5, <3>1, <3>2
  <2>3. prev = {p}
    <3>1. ASSUME NEW z \in free, z + len[z] = a PROVE z = p
      <4>1. z \in Starts /\ z \in Nat /\ len[z] \in Nat \ {0}
        BY <1>2, <1>4
      <4>2. (z <= p \/ a <= z) /\ (p <= z \/ a <= p)
        BY <1>3, <2>1, <2>2, <3>1, <4>1
      <4> QED
        BY <1>5, <2>2, <3>1, <4>1, <4>2
    <3> QED
      BY <2>1, <3>1
  <2>4. \A z \in free : z # p => z + len[z] # p
    BY <1>4
  <2>5. \A z : z \in N \cup {a} <=> z \in Starts /\ p < z /\ z < e
    <3>1. \A z \in Starts : z <= p \/ a <= z
      BY <1>3, <2>1, <2>2
    <3>2. \A z : z \in N <=> z \in Starts /\ a < z /\ z < e
      BY <1>7
    <3>3. e \in Nat /\ a < e
      BY <1>5, <1>7
    <3> HIDE DEF e, N, next, withNext
    <3>4. ASSUME NEW z \in Starts PROVE z \in N \cup {a} <=> p < z /\ z < e
      BY <1>2, <1>5, <2>2, <3>1, <3>2, <3>3
    <3> QED
      BY <1>5, <3>2, <3>4
  <2>6. len' = [x \in Addr |-> IF x = p THEN e - p ELSE IF x \in N \cup {a} THEN 0 ELSE len[x]]
    <3>1. len[p] + withNext = e - p
      <4> HIDE DEF e, N, next, withNext, prev
      <4> QED
        BY <1>5, <1>7, <2>1, <2>2
    <3>2. len' = [x \in Addr |-> CASE x = p -> e - p
                      [] x = a -> 0
                      [] x = next /\ next \in free -> 0
                      [] OTHER -> len[x]]
      BY <1>1, <1>9, <2>2, <2>3, <3>1
    <3> QED
      BY <2>2, <3>2
  <2>7. free' = (free \ (N \cup {a})) \cup {p}
    BY <1>1, <1>5, <1>9, <2>1, <2>2
  <2> HIDE DEF e, N, next, withNext, prev
  <2>8. p < e
    BY <1>5, <1>7, <2>2
  <2> QED
    BY <1>5, <1>7, <2>2, <2>4, <2>5, <2>6, <2>7, <2>8, MergeBlocks
<1> QED
  BY <1>8, <1>9

-----------------------------------------------------------------------------
(* The inductive invariant *)

LEMMA InitIInv == Init => IInv
<1> SUFFICES ASSUME Init PROVE IInv
  OBVIOUS
<1>1. Starts = {0} /\ 0 \in Addr
  BY HAssumption DEF Init, Starts, Addr
<1>2. len \in [Addr -> 0..H] /\ len[0] = H /\ free = {0}
  BY <1>1, HAssumption DEF Init
<1>3. Partition /\ Coalesced /\ RoomForRedZones
  BY <1>1, <1>2, HAssumption DEF Partition, Coalesced, RoomForRedZones, Used
<1>4. Counters
  <2>1. halted \in BOOLEAN
    BY DEF Init
  <2>2. /\ usedmem \in Int /\ freemem \in Int /\ lost \in 0..MaxLost
        /\ usedmem + freemem = H
    BY HAssumption, MaxLostAssumption DEF Init
  <2> QED
    BY <2>1, <2>2 DEF Counters, CountersBalance
<1> QED
  BY <1>1, <1>2, <1>3, <1>4 DEF IInv, Blocks

LEMMA FullFacts ==
    ASSUME NEW n \in Sizes
    PROVE  Full(n) \in Nat /\ Full(n) > 2 * RZ
BY SizesAssumption, RZAssumption DEF Full

\* The data behind the red zone is moved forward, if at all.
LEMMA FixType ==
    ASSUME NEW b \in Nat, NEW al \in Aligns
    PROVE  Fix(b, al) \in Nat
<1>1. al \in Nat \ {0} /\ b + RZ \in Nat
  BY AlignsAssumption, RZAssumption
<1>2. ASSUME NEW x \in Nat, NEW y \in Nat \ {0}
      PROVE  AlignUp(x, y) \in Nat /\ AlignUp(x, y) >= x
  <2>1. (x + (y - 1)) \div y \in Nat
    OBVIOUS
  <2> QED
    BY <2>1 DEF AlignUp
<1> QED
  BY <1>1, <1>2 DEF Fix

LEMMA NextIInv == IInv /\ [Next]_vars => IInv'
<1> SUFFICES ASSUME IInv, [Next]_vars PROVE IInv'
  OBVIOUS
<1>1. ASSUME NEW n \in Sizes, Alloc(Full(n)) PROVE IInv'
  <2>1. PICK b \in Addr : /\ FirstFit(b, Full(n)) /\ Carve(b, b, Full(n))
                          /\ Charge(Full(n)) /\ UNCHANGED <<lost, halted>>
    BY <1>1 DEF Alloc
  <2>2. b \in free /\ len[b] >= Full(n) /\ b \in Nat
    BY <2>1 DEF FirstFit, Addr
  <2>3. Blocks'
    BY <2>1, <2>2, FullFacts, CarveBlocks DEF IInv
  <2>4. Counters'
    BY <2>1, FullFacts, HAssumption DEF IInv, Counters, CountersBalance, Charge
  <2> QED
    BY <2>3, <2>4 DEF IInv
<1>2. ASSUME NEW n \in Sizes, NEW al \in Aligns, AllocAligned(Full(n), al) PROVE IInv'
  <2>1. PICK b \in Addr : /\ FirstFitAligned(b, Full(n), al)
                          /\ Carve(b, b + Fix(b, al), Full(n))
                          /\ Charge(Full(n)) /\ UNCHANGED <<lost, halted>>
    BY <1>2 DEF AllocAligned
  <2>2. b \in free /\ len[b] >= Full(n) + Fix(b, al) /\ b \in Nat /\ len[b] \in Nat
    BY <2>1 DEF FirstFitAligned, FitsAligned, Addr, IInv, Blocks
  <2>3. Fix(b, al) \in Nat /\ Full(n) \in Nat /\ Full(n) > 2 * RZ
    BY <2>2, FixType, FullFacts
  <2>4. /\ b + Fix(b, al) \in Nat /\ b <= b + Fix(b, al)
        /\ ((b + Fix(b, al)) - b) + Full(n) <= len[b]
    BY <2>2, <2>3
  <2>5. Blocks'
    BY <2>1, <2>2, <2>3, <2>4, CarveBlocks DEF IInv
  <2>6. Counters'
    BY <2>1, FullFacts, HAssumption DEF IInv, Counters, CountersBalance, Charge
  <2> QED
    BY <2>5, <2>6 DEF IInv
<1>3. ASSUME NEW n \in Sizes, NEW al \in Aligns, AllocAlignedFails(Full(n), al) PROVE IInv'
  <2>1. Blocks'
    BY <1>3 DEF AllocAlignedFails, IInv, Blocks, Partition, Coalesced, RoomForRedZones,
                Used, Starts
  <2>2. Counters'
    BY <1>3, FullFacts, HAssumption, MaxLostAssumption
       DEF AllocAlignedFails, IInv, Counters, CountersBalance, Charge
  <2> QED
    BY <2>1, <2>2 DEF IInv
<1>4. ASSUME NEW a \in Addr, NEW n \in Sizes, Grow(a, Full(n)) PROVE IInv'
  <2>1. Blocks'
    BY <1>4, FullFacts, GrowBlocks DEF IInv
  <2>2. Full(n) - len[a] \in Int /\ Charge(Full(n) - len[a]) /\ UNCHANGED <<lost, halted>>
    BY <1>4, FullFacts DEF Grow, IInv, Blocks
  <2>3. Counters'
    BY <2>2, HAssumption DEF IInv, Counters, CountersBalance, Charge
  <2> QED
    BY <2>1, <2>3 DEF IInv
<1>5. ASSUME NEW a \in Addr, Release(a) PROVE IInv'
  <2>1. Blocks'
    BY <1>5, ReleaseBlocks DEF IInv
  <2>2. /\ len[a] \in Nat /\ usedmem' = usedmem - len[a] /\ freemem' = freemem + len[a]
        /\ UNCHANGED <<lost, halted>>
    BY <1>5 DEF Before, Release, IInv, Blocks
  <2>3. usedmem' \in Int /\ freemem' \in Int /\ usedmem' + freemem' = H
    <3>1. usedmem \in Int /\ freemem \in Int /\ usedmem + freemem = H
      BY DEF IInv, Counters, CountersBalance
    <3>2. len[a] \in Int /\ usedmem' = usedmem - len[a] /\ freemem' = freemem + len[a]
      BY <2>2
    <3> QED
      BY <3>1, <3>2
  <2>4. Counters'
    BY <2>2, <2>3 DEF IInv, Counters, CountersBalance
  <2> QED
    BY <2>1, <2>4 DEF IInv
<1>6. CASE Halt
  BY <1>6 DEF Halt, IInv, Blocks, Counters, CountersBalance, Partition, Coalesced,
              RoomForRedZones, Used, Starts
<1>7. CASE UNCHANGED vars
  BY <1>7 DEF vars, IInv, Blocks, Counters, CountersBalance, Partition, Coalesced,
              RoomForRedZones, Used, Starts
<1> QED
  BY <1>1, <1>2, <1>3, <1>4, <1>5, <1>6, <1>7 DEF Next, AllocFails

LEMMA SpecIInv == Spec => []IInv
BY InitIInv, NextIInv, PTL DEF Spec

-----------------------------------------------------------------------------
\* The state of the heap stays in its ranges.
THEOREM TypeCorrect == Spec => []TypeOK
<1>1. IInv => TypeOK
  BY DEF IInv, Blocks, Counters, TypeOK
<1> QED
  BY <1>1, SpecIInv, PTL

\* No sequence of alloc, alloc_aligned, try_realloc and free makes two blocks
\* overlap or leaves a gap between them.
THEOREM HeapPartition == Spec => []Partition
<1>1. IInv => Partition
  BY DEF IInv, Blocks
<1> QED
  BY <1>1, SpecIInv, PTL

\* merge always leaves the free blocks maximal.
THEOREM HeapCoalesced == Spec => []Coalesced
<1>1. IInv => Coalesced
  BY DEF IInv, Blocks
<1> QED
  BY <1>1, SpecIInv, PTL

\* No used block is ever too small for its red zones.
THEOREM HeapRoom == Spec => []RoomForRedZones
<1>1. IInv => RoomForRedZones
  BY DEF IInv, Blocks
<1> QED
  BY <1>1, SpecIInv, PTL

\* The counters always add up to the length of the heap.
THEOREM HeapBalance == Spec => []CountersBalance
<1>1. IInv => CountersBalance
  BY DEF IInv, Counters
<1> QED
  BY <1>1, SpecIInv, PTL

\* A heap without used blocks is one free block: two neighbouring free blocks
\* would contradict Coalesced.
THEOREM HeapWhole == Spec => []FreedIsWhole
<1>1. ASSUME IInv, Used = {} PROVE len[0] = H
  <2>1. 0 \in Starts /\ Starts \subseteq free
    BY <1>1 DEF IInv, Blocks, Partition, Used
  <2>2. 0 + len[0] = H \/ 0 + len[0] \in Starts
    BY <1>1, <2>1 DEF IInv, Blocks, Partition
  <2>3. 0 + len[0] \notin free /\ len[0] \in Nat
    BY <1>1, <2>1, BlockInside DEF IInv, Blocks, Coalesced
  <2> QED
    BY <2>1, <2>2, <2>3
<1>2. IInv => FreedIsWhole
  BY <1>1 DEF FreedIsWhole
<1> QED
  BY <1>2, SpecIInv, PTL

\* Whatever is called in whatever order, the heap stays sound, for every length
\* of the heap, set of sizes and set of alignments.
THEOREM HeapSafe == Spec => []HeapSound
BY TypeCorrect, HeapPartition, HeapCoalesced, HeapRoom, HeapBalance, HeapWhole, PTL
   DEF HeapSound

-----------------------------------------------------------------------------
(* The counter of what is used *)

\* Used blocks and their lengths, as far as sums go.
LEMMA UsedSums ==
    ASSUME Blocks
    PROVE  /\ IsFiniteSet(Used)
           /\ \A x \in Used : len[x] \in Nat
           /\ SumFunctionOnSet(len, Used) \in Nat
<1>1. IsFiniteSet(Addr) /\ Used \subseteq Addr
  BY FS_Interval, HAssumption DEF Addr, Used, Starts
<1>2. \A x \in Used : len[x] \in Nat
  BY <1>1 DEF Blocks
<1>3. IsFiniteSet(Used)
  BY <1>1, FS_Subset
<1> QED
  BY <1>2, <1>3, SumType

\* One block more, of length n; one less; one of another length.
LEMMA SumMore ==
    ASSUME Blocks, NEW a, a \notin Used, Used' = Used \cup {a}, len'[a] \in Nat,
           \A x \in Used : len'[x] = len[x]
    PROVE  SumFunctionOnSet(len, Used)' = SumFunctionOnSet(len, Used) + len'[a]
<1>1. SumFunctionOnSet(len', Used) = SumFunctionOnSet(len, Used)
  BY UsedSums, SumSame
<1>2. SumFunctionOnSet(len', Used \cup {a}) = SumFunctionOnSet(len', Used) + len'[a]
  BY UsedSums, SumAdd
<1> QED
  BY <1>1, <1>2

LEMMA SumLess ==
    ASSUME Blocks, NEW a \in Used, Used' = Used \ {a}, \A x \in Used' : len'[x] = len[x]
    PROVE  SumFunctionOnSet(len, Used)' = SumFunctionOnSet(len, Used) - len[a]
<1> DEFINE R == Used \ {a}
<1>1. /\ IsFiniteSet(R) /\ a \notin R /\ R \cup {a} = Used
      /\ \A x \in R \cup {a} : len[x] \in Nat
  BY UsedSums, FS_Subset
<1>2. \A x \in R : len[x] \in Nat /\ len'[x] = len[x]
  BY <1>1
<1> HIDE DEF R
<1>3. SumFunctionOnSet(len', R) = SumFunctionOnSet(len, R)
  BY <1>1, <1>2, SumSame
<1>4. SumFunctionOnSet(len, R \cup {a}) = SumFunctionOnSet(len, R) + len[a]
  BY <1>1, SumAdd
<1>5. SumFunctionOnSet(len, R) \in Nat /\ len[a] \in Nat
  BY <1>1, SumType
<1>6. SumFunctionOnSet(len, R \cup {a}) = SumFunctionOnSet(len, Used)
  BY <1>1, Zenon
<1>7. SumFunctionOnSet(len, R) = SumFunctionOnSet(len, Used) - len[a]
  BY <1>4, <1>5, <1>6
<1> QED
  BY <1>3, <1>7 DEF R

LEMMA SumOther ==
    ASSUME Blocks, NEW a \in Used, Used' = Used, len'[a] \in Nat,
           \A x \in Used \ {a} : len'[x] = len[x]
    PROVE  SumFunctionOnSet(len, Used)' = SumFunctionOnSet(len, Used) - len[a] + len'[a]
<1> DEFINE R == Used \ {a}
<1>1. /\ IsFiniteSet(R) /\ a \notin R /\ R \cup {a} = Used
      /\ \A x \in R \cup {a} : len[x] \in Nat
  BY UsedSums, FS_Subset
<1>2. /\ \A x \in R : len[x] \in Nat /\ len'[x] = len[x]
      /\ \A x \in R \cup {a} : len'[x] \in Nat
  BY <1>1
<1> HIDE DEF R
<1>3. SumFunctionOnSet(len', R) = SumFunctionOnSet(len, R)
  BY <1>1, <1>2, SumSame
<1>4. SumFunctionOnSet(len, R \cup {a}) = SumFunctionOnSet(len, R) + len[a]
  BY <1>1, SumAdd
<1>5. SumFunctionOnSet(len', R \cup {a}) = SumFunctionOnSet(len', R) + len'[a]
  BY <1>1, <1>2, SumAdd
<1>6. SumFunctionOnSet(len, R) \in Nat /\ len[a] \in Nat
  BY <1>1, SumType
<1>7. /\ SumFunctionOnSet(len, R \cup {a}) = SumFunctionOnSet(len, Used)
      /\ SumFunctionOnSet(len', R \cup {a}) = SumFunctionOnSet(len', Used')
  BY <1>1, Zenon
<1> QED
  BY <1>3, <1>4, <1>5, <1>6, <1>7

\* Carve makes one used block and touches no other.
LEMMA CarveUsed ==
    ASSUME Blocks, NEW b \in free, NEW a \in Nat, b <= a,
           NEW n \in Nat, n > 2 * RZ, (a - b) + n <= len[b],
           Carve(b, a, n)
    PROVE  SumFunctionOnSet(len, Used)' = SumFunctionOnSet(len, Used) + n
<1> DEFINE rest == len[b] - (a - b) - n
<1>0. /\ RZ \in Nat /\ H \in Nat \ {0} /\ n > 0 /\ free \subseteq Starts
      /\ b \in Starts /\ b \in Nat /\ len[b] \in Nat \ {0} /\ b + len[b] <= H
  BY RZAssumption, HAssumption, BlockInside DEF Blocks
<1>1. /\ a \in Addr /\ b \in Addr /\ rest \in Nat /\ (rest > 0 => a + n \in Addr)
  BY <1>0 DEF Addr
<1>2. /\ len' = [x \in Addr |->
                    CASE x = a -> n
                      [] x = b /\ x # a -> a - b
                      [] x = a + n /\ rest > 0 -> rest
                      [] OTHER -> len[x]]
      /\ free' = (free \ {b}) \cup (IF a # b THEN {b} ELSE {})
                              \cup (IF rest > 0 THEN {a + n} ELSE {})
  BY DEF Carve
<1>3. \A x \in Starts : x # b => x # a /\ (rest > 0 => x # a + n)
  BY <1>0, <1>1, BlockInside DEF Blocks, Partition
<1>4. /\ len'[a] = n
      /\ \A x \in Addr : x # a /\ x # b /\ ~(rest > 0 /\ x = a + n) => len'[x] = len[x]
  BY <1>0, <1>1, <1>2 DEF Starts
<1> HIDE DEF rest
<1>5. a \notin Used /\ \A x \in Used : len'[x] = len[x]
  BY <1>3, <1>4 DEF Used, Starts
<1>6. Used' = Used \cup {a}
  <2>1. ASSUME NEW x \in Addr PROVE x \in Used' <=> x \in Used \/ x = a
    <3>1. CASE x = a
      BY <3>1, <1>0, <1>1, <1>2, <1>3, <1>4 DEF Used, Starts
    <3>2. CASE x # a /\ x = b
      BY <3>2, <1>0, <1>2 DEF Used, Starts
    <3>3. CASE x # a /\ x # b /\ rest > 0 /\ x = a + n
      BY <3>3, <1>2, <1>3 DEF Used, Starts
    <3>4. CASE x # a /\ x # b /\ ~(rest > 0 /\ x = a + n)
      BY <3>4, <1>2, <1>4 DEF Used, Starts
    <3> QED
      BY <3>1, <3>2, <3>3, <3>4
  <2> QED
    BY <2>1, <1>1 DEF Used, Starts
<1> QED
  BY <1>4, <1>5, <1>6, SumMore

\* try_realloc changes the length of its own block only.
LEMMA GrowUsed ==
    ASSUME Blocks, NEW a \in Addr, NEW n \in Nat, Grow(a, n)
    PROVE  SumFunctionOnSet(len, Used)' = SumFunctionOnSet(len, Used) + (n - len[a])
<1> DEFINE next == a + len[a]
           need == n - len[a]
<1>1. /\ a \in Used /\ need > 0 /\ next \in free /\ len[next] >= need
      /\ len' = [x \in Addr |->
                    CASE x = a -> n
                      [] x = a + n /\ len[next] > need -> len[next] - need
                      [] x = next -> 0
                      [] OTHER -> len[x]]
      /\ free' = (free \ {next}) \cup (IF len[next] > need THEN {a + n} ELSE {})
  BY DEF Grow
<1>2. /\ a \in Starts /\ next \in Starts /\ a \in Nat /\ len[a] \in Nat \ {0}
      /\ next \in Nat /\ len[next] \in Nat \ {0} /\ next + len[next] <= H /\ H \in Nat
  BY <1>1, BlockInside, HAssumption DEF Blocks, Used
<1>3. next < a + n /\ (len[next] > need => a + n < next + len[next] /\ a + n \in Addr)
  <2>1. need > 0
    BY <1>1
  <2> QED
    BY <2>1, <1>2 DEF Addr
<1>4. \A x \in Starts : x # next => ~(len[next] > need /\ x = a + n)
  BY <1>2, <1>3, BlockInside DEF Blocks, Partition
<1>5. a # next /\ len'[a] = n /\ n > 0
  BY <1>1, <1>2
<1> HIDE DEF next, need
<1>6. \A x \in Addr : x # a /\ x # next /\ ~(len[next] > need /\ x = a + n) => len'[x] = len[x]
  BY <1>1
<1>7. \A x \in Used \ {a} : len'[x] = len[x]
  BY <1>1, <1>4, <1>6 DEF Used, Starts
<1>8. Used' = Used
  <2>1. ASSUME NEW x \in Addr PROVE x \in Used' <=> x \in Used
    <3>1. CASE x = a
      BY <3>1, <1>1, <1>2, <1>4, <1>5 DEF Used, Starts
    <3>2. CASE x # a /\ x = next
      <4>1. next # a + n
        BY <1>2, <1>3
      <4>2. len'[x] = 0
        BY <3>2, <4>1, <1>1
      <4> QED
        BY <3>2, <4>2, <1>1 DEF Used, Starts
    <3>3. CASE x # a /\ x # next /\ len[next] > need /\ x = a + n
      BY <3>3, <1>1, <1>4 DEF Used, Starts
    <3>4. CASE x # a /\ x # next /\ ~(len[next] > need /\ x = a + n)
      BY <3>4, <1>1, <1>6 DEF Used, Starts
    <3> QED
      BY <3>1, <3>2, <3>3, <3>4
  <2> QED
    BY <2>1 DEF Used, Starts
<1>9. SumFunctionOnSet(len, Used)' = SumFunctionOnSet(len, Used) - len[a] + n
  BY <1>1, <1>5, <1>7, <1>8, SumOther
<1> QED
  BY <1>2, <1>9, UsedSums

\* free and merge take one block from the used ones and touch no other of them.
LEMMA ReleaseUsed ==
    ASSUME Blocks, NEW a \in Addr, Release(a)
    PROVE  SumFunctionOnSet(len, Used)' = SumFunctionOnSet(len, Used) - len[a]
<1> DEFINE next == a + len[a]
           withNext == IF next \in free THEN len[a] + len[next] ELSE len[a]
           prev == {p \in free : p + len[p] = a}
<1>1. /\ a \in Used
      /\ len' = [x \in Addr |->
                    CASE x \in prev -> len[x] + withNext
                      [] x = a /\ prev = {} -> withNext
                      [] x = a /\ prev # {} -> 0
                      [] x = next /\ next \in free -> 0
                      [] OTHER -> len[x]]
      /\ free' = (free \ {next}) \cup (IF prev = {} THEN {a} ELSE {})
  BY DEF Before, Release
<1>2. /\ a \in Starts /\ a \notin free /\ a \in Nat /\ len[a] \in Nat \ {0} /\ next # a
      /\ free \subseteq Starts /\ prev \subseteq free
  BY <1>1, BlockInside DEF Blocks, Used
<1>3. next \notin prev
  BY <1>2, BlockInside
<1> HIDE DEF next, withNext, prev
<1>4. \A x \in Addr : x \notin prev /\ x # a /\ ~(x = next /\ next \in free) => len'[x] = len[x]
  BY <1>1
<1>5. \A x \in Used \ {a} : len'[x] = len[x]
  BY <1>2, <1>4 DEF Used, Starts
<1>6. Used' = Used \ {a}
  <2>1. ASSUME NEW x \in Addr PROVE x \in Used' <=> x \in Used /\ x # a
    <3>1. CASE x \in prev
      BY <3>1, <1>1, <1>2, <1>3 DEF Used, Starts
    <3>2. CASE x \notin prev /\ x = a
      <4>1. prev # {} => len'[x] = 0
        BY <3>2, <1>1
      <4> QED
        BY <3>2, <4>1, <1>1 DEF Used, Starts
    <3>3. CASE x \notin prev /\ x # a /\ x = next /\ next \in free
      <4>1. len'[x] = 0
        BY <3>3, <1>1
      <4> QED
        BY <3>3, <4>1 DEF Used, Starts
    <3>4. CASE x \notin prev /\ x # a /\ ~(x = next /\ next \in free)
      <4>1. x \in Starts' <=> x \in Starts
        BY <3>4, <1>4 DEF Starts
      <4>2. x \in free' <=> x \in free
        BY <3>4, <1>1
      <4> QED
        BY <3>4, <4>1, <4>2 DEF Used
    <3> QED
      BY <3>1, <3>2, <3>3, <3>4
  <2> QED
    BY <2>1 DEF Used, Starts
<1> QED
  BY <1>1, <1>5, <1>6, SumLess

LEMMA NextUsed == IInv /\ UsedIsExact /\ [Next]_vars => UsedIsExact'
<1> SUFFICES ASSUME IInv, UsedIsExact, [Next]_vars PROVE UsedIsExact'
  OBVIOUS
<1> DEFINE S == SumFunctionOnSet(len, Used)
<1>0. S \in Nat /\ usedmem = S + lost /\ usedmem \in Int /\ lost \in Nat
  BY UsedSums, MaxLostAssumption DEF IInv, Counters, UsedIsExact
<1>1. ASSUME NEW n \in Sizes, Alloc(Full(n)) PROVE UsedIsExact'
  <2>1. PICK b \in Addr : /\ FirstFit(b, Full(n)) /\ Carve(b, b, Full(n))
                          /\ Charge(Full(n)) /\ UNCHANGED <<lost, halted>>
    BY <1>1 DEF Alloc
  <2>2. b \in free /\ len[b] >= Full(n) /\ b \in Nat
    BY <2>1 DEF FirstFit, Addr
  <2>3. S' = S + Full(n)
    BY <2>1, <2>2, FullFacts, CarveUsed DEF IInv
  <2> HIDE DEF S
  <2>4. usedmem' = S' + lost'
    BY <1>0, <2>1, <2>3, FullFacts DEF Charge
  <2> QED
    BY <2>4 DEF UsedIsExact, S
<1>2. ASSUME NEW n \in Sizes, NEW al \in Aligns, AllocAligned(Full(n), al) PROVE UsedIsExact'
  <2>1. PICK b \in Addr : /\ FirstFitAligned(b, Full(n), al)
                          /\ Carve(b, b + Fix(b, al), Full(n))
                          /\ Charge(Full(n)) /\ UNCHANGED <<lost, halted>>
    BY <1>2 DEF AllocAligned
  <2>2. b \in free /\ len[b] >= Full(n) + Fix(b, al) /\ b \in Nat /\ len[b] \in Nat
    BY <2>1 DEF FirstFitAligned, FitsAligned, Addr, IInv, Blocks
  <2>3. Fix(b, al) \in Nat /\ Full(n) \in Nat /\ Full(n) > 2 * RZ
    BY <2>2, FixType, FullFacts
  <2>4. /\ b + Fix(b, al) \in Nat /\ b <= b + Fix(b, al)
        /\ ((b + Fix(b, al)) - b) + Full(n) <= len[b]
    BY <2>2, <2>3
  <2>5. S' = S + Full(n)
    BY <2>1, <2>2, <2>3, <2>4, CarveUsed DEF IInv
  <2> HIDE DEF S
  <2>6. usedmem' = S' + lost'
    BY <1>0, <2>1, <2>3, <2>5 DEF Charge
  <2> QED
    BY <2>6 DEF UsedIsExact, S
<1>3. ASSUME NEW n \in Sizes, NEW al \in Aligns, AllocAlignedFails(Full(n), al)
      PROVE  UsedIsExact'
  <2>1. S' = S
    BY <1>3 DEF AllocAlignedFails, Used, Starts
  <2>2. usedmem' = usedmem + Full(n) /\ lost' = lost + Full(n)
    BY <1>3 DEF AllocAlignedFails, Charge
  <2> HIDE DEF S
  <2>3. usedmem' = S' + lost'
    BY <1>0, <2>1, <2>2, FullFacts
  <2> QED
    BY <2>3 DEF UsedIsExact, S
<1>4. ASSUME NEW a \in Addr, NEW n \in Sizes, Grow(a, Full(n)) PROVE UsedIsExact'
  <2>1. S' = S + (Full(n) - len[a])
    BY <1>4, FullFacts, GrowUsed DEF IInv
  <2>2. usedmem' = usedmem + (Full(n) - len[a]) /\ lost' = lost /\ len[a] \in Nat
    BY <1>4 DEF Grow, Charge, IInv, Blocks
  <2> HIDE DEF S
  <2>3. usedmem' = S' + lost'
    BY <1>0, <2>1, <2>2, FullFacts
  <2> QED
    BY <2>3 DEF UsedIsExact, S
<1>5. ASSUME NEW a \in Addr, Release(a) PROVE UsedIsExact'
  <2>1. S' = S - len[a]
    BY <1>5, ReleaseUsed DEF IInv
  <2>2. usedmem' = usedmem - len[a] /\ lost' = lost /\ len[a] \in Nat
    BY <1>5 DEF Release, IInv, Blocks
  <2> HIDE DEF S
  <2>3. usedmem' = S' + lost'
    BY <1>0, <2>1, <2>2
  <2> QED
    BY <2>3 DEF UsedIsExact, S
<1>6. CASE Halt
  BY <1>6 DEF Halt, UsedIsExact, Used, Starts
<1>7. CASE UNCHANGED vars
  BY <1>7 DEF vars, UsedIsExact, Used, Starts
<1> QED
  BY <1>1, <1>2, <1>3, <1>4, <1>5, <1>6, <1>7 DEF Next, AllocFails

LEMMA InitUsed == Init => UsedIsExact
<1> SUFFICES ASSUME Init PROVE UsedIsExact
  OBVIOUS
<1>1. Used = {}
  BY DEF Init, Used, Starts
<1>2. SumFunctionOnSet(len, Used) = 0
  BY <1>1, SumOfNone
<1> QED
  BY <1>2 DEF Init, UsedIsExact

\* usedmem is never off by a byte: alloc, alloc_aligned, try_realloc and free
\* charge exactly what the used blocks gain and lose, but for what
\* alloc_aligned charges without a block.
THEOREM HeapUsedIsExact == Spec => []UsedIsExact
BY InitIInv, NextIInv, InitUsed, NextUsed, PTL DEF Spec
=============================================================================
