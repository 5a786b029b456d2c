-------------------------- MODULE HeapCheckProofs --------------------------
(***************************************************************************)
(* The heap's counters are exact, the heap implements BlockAllocator, and  *)
(* at rest it passes its own validator, for every address space, set of    *)
(* disjoint regions, set of layouts and payload contents.                  *)
(*                                                                         *)
(* The sum that the counters are compared with and the walk of the         *)
(* validator are recursive functions; that they exist and obey their       *)
(* equations is proved by least counterexamples, from the                  *)
(* well-foundedness of < on Nat.                                           *)
(***************************************************************************)
EXTENDS HeapCoreProofs, HeapCheck, FiniteSetTheorems

-----------------------------------------------------------------------------
(* Induction, as least counterexamples.                                    *)

\* A nonempty set of naturals has a least element.
LEMMA LeastNat ==
  ASSUME NEW T, T \subseteq Nat, T # {}
  PROVE  \E x \in T : \A y \in T : x <= y
<1> DEFINE R == OpToRel(<, Nat)
<1>1. IsWellFoundedOn(R, Nat) BY Zenon, NatLessThanWellFounded
<1> HIDE DEF R
<1>2. PICK x \in T : \A y \in T : ~ (<<y, x>> \in R) BY Zenon, <1>1, WFMin
<1>3. ASSUME NEW y \in T, y < x PROVE <<y, x>> \in R
  BY Zenon, <1>3 DEF R, OpToRel
<1>4. ASSUME NEW y \in T PROVE x <= y
  <2>1. ~(y < x) BY Zenon, <1>2, <1>3
  <2>2. x \in Nat /\ y \in Nat BY Zenon
  <2> QED BY <2>1, <2>2
<1> QED BY Zenon, <1>4

\* A nonempty set of subsets of a finite set has one of which no element can be
\* removed without leaving the set.
LEMMA MinimalSubset ==
  ASSUME NEW S, IsFiniteSet(S), NEW Q, Q \subseteq SUBSET S, Q # {}
  PROVE  \E m \in Q : \A x \in m : m \ {x} \notin Q
<1> DEFINE T == {Cardinality(m) : m \in Q}
<1>1. \A m \in Q : IsFiniteSet(m) /\ Cardinality(m) \in Nat
  BY Zenon, FS_Subset, FS_CardinalityType
<1>2. T \subseteq Nat /\ T # {} BY Zenon, <1>1
<1>3. PICK k \in T : \A y \in T : k <= y BY Zenon, <1>2, LeastNat
<1>4. PICK m \in Q : Cardinality(m) = k BY Zenon, <1>3
<1>5. ASSUME NEW x \in m, m \ {x} \in Q PROVE FALSE
  <2>1. Cardinality(m \ {x}) = Cardinality(m) - 1 BY Zenon, <1>1, FS_RemoveElement
  <2>2. Cardinality(m) <= Cardinality(m \ {x}) BY Zenon, <1>3, <1>4, <1>5
  <2> QED BY <1>1, <2>1, <2>2
<1> QED BY Zenon, <1>5

-----------------------------------------------------------------------------
(* Sums over finite sets.                                                  *)

Some(s) == CHOOSE x \in s : TRUE
Summing(g, f, S) ==
  g = [s \in SUBSET S |-> IF s = {} THEN 0 ELSE f[Some(s)] + g[s \ {Some(s)}]]
Iter(f, S) == CHOOSE g : Summing(g, f, S)
Total(f, S) == Iter(f, S)[S]

\* The sum that Counted takes.
LEMMA TotalIsSum ==
  ASSUME NEW f, NEW S
  PROVE  MapThenSumSet(LAMBDA h : f[h], S) = Total(f, S)
BY Zenon DEF MapThenSumSet, MapThenFoldSet, Total, Iter, Summing, Some

LEMMA SomeIn ==
  ASSUME NEW s, s # {}
  PROVE  Some(s) \in s
BY Zenon DEF Some

\* The sum of every subset exists.
LEMMA SummingExists ==
  ASSUME NEW A, NEW f \in [A -> Int], NEW S \in SUBSET A, IsFiniteSet(S)
  PROVE  \E g \in [SUBSET S -> Int] : Summing(g, f, S)
<1> DEFINE Eq(g, s) == g[s] = IF s = {} THEN 0 ELSE f[Some(s)] + g[s \ {Some(s)}]
           Ok(k) == \E g \in [SUBSET S -> Int] :
                      \A s \in SUBSET S : Cardinality(s) <= k => Eq(g, s)
           Bad == {k \in Nat : ~Ok(k)}
<1>1. \A s \in SUBSET S : /\ IsFiniteSet(s) /\ Cardinality(s) \in Nat
                          /\ Cardinality(s) <= Cardinality(S)
  BY Zenon, FS_Subset, FS_CardinalityType
<1>2. \A s \in SUBSET S : s # {} =>
        /\ Some(s) \in A /\ s \ {Some(s)} \in SUBSET S
        /\ Cardinality(s) >= 1 /\ Cardinality(s \ {Some(s)}) = Cardinality(s) - 1
  <2> SUFFICES ASSUME NEW s \in SUBSET S, s # {}
               PROVE  /\ Some(s) \in A /\ s \ {Some(s)} \in SUBSET S
                      /\ Cardinality(s) >= 1
                      /\ Cardinality(s \ {Some(s)}) = Cardinality(s) - 1
    BY Zenon
  <2>1. Some(s) \in s BY Zenon, SomeIn
  <2>2. Cardinality(s) # 0 BY Zenon, <1>1, FS_EmptySet
  <2> QED BY <1>1, <2>1, <2>2, FS_RemoveElement
<1>3. Ok(0)
  <2> DEFINE g == [s \in SUBSET S |-> 0]
  <2>1. g \in [SUBSET S -> Int] OBVIOUS
  <2>2. ASSUME NEW s \in SUBSET S, Cardinality(s) <= 0 PROVE Eq(g, s)
    <3>1. s = {} BY <1>1, <2>2, FS_EmptySet
    <3> QED BY Zenon, <3>1
  <2> QED BY Zenon, <2>1, <2>2
<1>4. ASSUME NEW k \in Nat, Ok(k) PROVE Ok(k + 1)
  <2>1. PICK g \in [SUBSET S -> Int] :
          \A s \in SUBSET S : Cardinality(s) <= k => Eq(g, s)
    BY Zenon, <1>4
  <2> DEFINE h == [s \in SUBSET S |->
                     IF Cardinality(s) = k + 1 THEN f[Some(s)] + g[s \ {Some(s)}] ELSE g[s]]
  <2>2. \A s \in SUBSET S : Cardinality(s) = k + 1 => s # {}
    <3>1. Cardinality({}) = 0 /\ k + 1 # 0 BY FS_EmptySet
    <3> QED BY Zenon, <3>1
  <2>3. h \in [SUBSET S -> Int] BY <1>2, <2>2
  <2>4. ASSUME NEW s \in SUBSET S, Cardinality(s) <= k + 1 PROVE Eq(h, s)
    <3>1. CASE Cardinality(s) = k + 1
      <4>1. s # {} BY Zenon, <2>2, <3>1
      <4>2. h[s] = f[Some(s)] + g[s \ {Some(s)}] BY Zenon, <3>1
      <4>3. s \ {Some(s)} \in SUBSET S /\ Cardinality(s \ {Some(s)}) # k + 1
        BY <1>1, <1>2, <3>1, <4>1
      <4>4. h[s \ {Some(s)}] = g[s \ {Some(s)}] BY Zenon, <4>3
      <4> HIDE DEF h
      <4> QED BY Zenon, <4>1, <4>2, <4>4
    <3>2. CASE Cardinality(s) # k + 1
      <4>1. Cardinality(s) <= k BY <1>1, <2>4, <3>2
      <4>2. h[s] = g[s] BY Zenon, <3>2
      <4>3. Eq(g, s) BY Zenon, <2>1, <4>1
      <4>4. s # {} => h[s \ {Some(s)}] = g[s \ {Some(s)}]
        <5>1. s # {} => s \ {Some(s)} \in SUBSET S /\ Cardinality(s \ {Some(s)}) # k + 1
          BY <1>1, <1>2, <4>1
        <5> QED BY Zenon, <5>1
      <4> HIDE DEF h
      <4> QED BY Zenon, <4>2, <4>3, <4>4
    <3> QED BY Zenon, <3>1, <3>2
  <2> HIDE DEF h, Eq
  <2> QED BY Zenon, <2>3, <2>4
<1> HIDE DEF Ok
<1>5. Bad = {}
  <2> SUFFICES ASSUME Bad # {} PROVE FALSE
    BY Zenon
  <2>1. PICK k \in Bad : \A j \in Bad : k <= j BY Zenon, LeastNat
  <2>2. k # 0 /\ k \in Nat BY Zenon, <1>3, <2>1
  <2>3. k - 1 \in Nat /\ k - 1 \notin Bad BY <2>1, <2>2
  <2>4. Ok((k - 1) + 1) BY Zenon, <1>4, <2>3
  <2> QED BY <2>2, <2>4
<1>6. Ok(Cardinality(S))
  <2>1. Cardinality(S) \in Nat BY Zenon, FS_CardinalityType
  <2> QED BY Zenon, <1>5, <2>1
<1>7. PICK g \in [SUBSET S -> Int] : \A s \in SUBSET S : Eq(g, s)
  BY Zenon, <1>1, <1>6 DEF Ok
<1>8. Summing(g, f, S) BY Zenon, <1>7 DEF Summing
<1> QED BY Zenon, <1>8

\* So Iter has its defining property, and its values are integers.
LEMMA IterSums ==
  ASSUME NEW A, NEW f \in [A -> Int], NEW S \in SUBSET A, IsFiniteSet(S)
  PROVE  /\ Iter(f, S)[{}] = 0
         /\ \A s \in SUBSET S : s # {} =>
              Iter(f, S)[s] = f[Some(s)] + Iter(f, S)[s \ {Some(s)}]
         /\ \A s \in SUBSET S : Iter(f, S)[s] \in Int
<1> DEFINE g == Iter(f, S)
           Bad == {s \in SUBSET S : g[s] \notin Int}
<1>1. Summing(g, f, S)
  <2>1. \E x : Summing(x, f, S) BY Zenon, SummingExists
  <2> QED BY Zenon, <2>1 DEF Iter
<1> HIDE DEF g
<1>2. /\ g[{}] = 0
      /\ \A s \in SUBSET S : s # {} => g[s] = f[Some(s)] + g[s \ {Some(s)}]
  BY Zenon, <1>1 DEF Summing
<1>3. Bad = {}
  <2> SUFFICES ASSUME Bad # {} PROVE FALSE
    BY Zenon
  <2>1. PICK m \in Bad : \A x \in m : m \ {x} \notin Bad BY Zenon, MinimalSubset
  <2>2. m # {}
    <3>1. CASE m = {}
      <4>1. g[m] = 0 BY Zenon, <1>2, <3>1
      <4> QED BY <2>1, <4>1
    <3> QED BY Zenon, <3>1
  <2>3. Some(m) \in m BY Zenon, <2>2, SomeIn
  <2>4. g[m \ {Some(m)}] \in Int BY Zenon, <2>1, <2>3
  <2>5. f[Some(m)] \in Int BY Zenon, <2>1, <2>3
  <2>6. m \in SUBSET S /\ g[m] \notin Int BY Zenon, <2>1
  <2>7. g[m] = f[Some(m)] + g[m \ {Some(m)}] BY Zenon, <1>2, <2>2, <2>6
  <2> HIDE DEF Bad
  <2> QED BY <2>4, <2>5, <2>6, <2>7
<1> QED BY Zenon, <1>2, <1>3 DEF g

\* A sum depends only on what is summed.
LEMMA SameSum ==
  ASSUME NEW A, NEW f \in [A -> Int], NEW S \in SUBSET A, IsFiniteSet(S),
         NEW B, NEW h \in [B -> Int], NEW T \in SUBSET B, IsFiniteSet(T),
         NEW U \in SUBSET (S \cap T), \A x \in U : f[x] = h[x]
  PROVE  Iter(f, S)[U] = Iter(h, T)[U]
<1> DEFINE Bad == {s \in SUBSET U : Iter(f, S)[s] # Iter(h, T)[s]}
<1>1. Bad = {}
  <2> SUFFICES ASSUME Bad # {} PROVE FALSE
    BY Zenon
  <2>0. IsFiniteSet(U) BY Zenon, FS_Subset
  <2>1. PICK m \in Bad : \A x \in m : m \ {x} \notin Bad BY Zenon, <2>0, MinimalSubset
  <2>2. m \in SUBSET U /\ m \in SUBSET S /\ m \in SUBSET T /\ Iter(f, S)[m] # Iter(h, T)[m]
    BY Zenon, <2>1
  <2>3. m # {}
    <3>1. Iter(f, S)[{}] = 0 /\ Iter(h, T)[{}] = 0 BY IterSums
    <3> QED BY Zenon, <2>2, <3>1
  <2>4. Some(m) \in m BY Zenon, <2>3, SomeIn
  <2>5. Iter(f, S)[m \ {Some(m)}] = Iter(h, T)[m \ {Some(m)}] BY Zenon, <2>1, <2>4
  <2>6. f[Some(m)] = h[Some(m)] BY Zenon, <2>2, <2>4
  <2>7. Iter(f, S)[m] = f[Some(m)] + Iter(f, S)[m \ {Some(m)}] BY <2>2, <2>3, IterSums
  <2>8. Iter(h, T)[m] = h[Some(m)] + Iter(h, T)[m \ {Some(m)}] BY <2>2, <2>3, IterSums
  <2> QED BY <2>2, <2>5, <2>6, <2>7, <2>8
<1> QED BY Zenon, <1>1

LEMMA TotalSame ==
  ASSUME NEW A, NEW f \in [A -> Int], NEW B, NEW h \in [B -> Int],
         NEW S \in SUBSET (A \cap B), IsFiniteSet(S), \A x \in S : f[x] = h[x]
  PROVE  Total(f, S) = Total(h, S)
BY SameSum DEF Total

\* Any element can be split off.
LEMMA TotalRemove ==
  ASSUME NEW A, NEW f \in [A -> Int], NEW S \in SUBSET A, IsFiniteSet(S), NEW x \in S
  PROVE  Total(f, S) = f[x] + Total(f, S \ {x}) /\ Total(f, S \ {x}) \in Int
<1> DEFINE g == Iter(f, S)
           Bad == {s \in SUBSET S : \E y \in s : g[s] # f[y] + g[s \ {y}]}
<1>1. /\ g[{}] = 0
      /\ \A s \in SUBSET S : s # {} => g[s] = f[Some(s)] + g[s \ {Some(s)}]
      /\ \A s \in SUBSET S : g[s] \in Int
  BY Zenon, IterSums
<1> HIDE DEF g
<1>2. Bad = {}
  <2> SUFFICES ASSUME Bad # {} PROVE FALSE
    BY Zenon
  <2>1. PICK m \in Bad : \A y \in m : m \ {y} \notin Bad BY Zenon, MinimalSubset
  <2>2. PICK y \in m : g[m] # f[y] + g[m \ {y}] BY Zenon, <2>1
  <2> DEFINE z == Some(m)
  <2>3. z \in m BY Zenon, <2>2, SomeIn
  <2>4. m \in SUBSET S /\ g[m] = f[z] + g[m \ {z}] BY Zenon, <1>1, <2>1, <2>2
  <2> HIDE DEF z
  <2>5. y # z BY Zenon, <2>2, <2>4
  <2>6. g[m \ {z}] = f[y] + g[(m \ {z}) \ {y}]
    <3>1. m \ {z} \in SUBSET S /\ m \ {z} \notin Bad /\ y \in m \ {z}
      BY Zenon, <2>1, <2>3, <2>4, <2>5
    <3> QED BY Zenon, <3>1
  <2>7. g[m \ {y}] = f[z] + g[(m \ {y}) \ {z}]
    <3>1. m \ {y} \in SUBSET S /\ m \ {y} \notin Bad /\ z \in m \ {y}
      BY Zenon, <2>1, <2>3, <2>4, <2>5
    <3> QED BY Zenon, <3>1
  <2>8. (m \ {z}) \ {y} = (m \ {y}) \ {z} BY Zenon
  <2>9. f[y] \in Int /\ f[z] \in Int /\ g[(m \ {z}) \ {y}] \in Int
    <3>1. (m \ {z}) \ {y} \in SUBSET S /\ y \in A /\ z \in A BY Zenon, <2>3, <2>4
    <3> QED BY Zenon, <1>1, <3>1
  <2> HIDE DEF Bad
  <2>10. ASSUME NEW u, u = g[(m \ {z}) \ {y}], u \in Int
         PROVE  f[z] + (f[y] + u) = f[y] + (f[z] + u)
    BY <2>9, <2>10
  <2>11. g[m] = f[z] + (f[y] + g[(m \ {z}) \ {y}]) BY Zenon, <2>4, <2>6
  <2>12. f[y] + g[m \ {y}] = f[y] + (f[z] + g[(m \ {z}) \ {y}]) BY Zenon, <2>7, <2>8
  <2> QED BY Zenon, <2>2, <2>9, <2>10, <2>11, <2>12
<1>3. g[S] = f[x] + g[S \ {x}] BY Zenon, <1>2
<1>4. IsFiniteSet(S \ {x}) BY Zenon, FS_RemoveElement
<1>5. g[S \ {x}] = Total(f, S \ {x})
  BY <1>4, SameSum DEF g, Total
<1> QED BY Zenon, <1>1, <1>3, <1>5 DEF g, Total

\* The sum of nothing.
LEMMA TotalEmpty ==
  ASSUME NEW A, NEW f \in [A -> Int]
  PROVE  Total(f, {}) = 0
BY ZenonT(30), IterSums, FS_EmptySet DEF Total

\* The same for the sizes of chunks.
LEMMA SizesSame ==
  ASSUME NEW f \in [Addr -> Int], NEW h \in [Addr -> Int], NEW S \in SUBSET Addr,
         IsFiniteSet(S), \A x \in S : f[x] = h[x]
  PROVE  Total(f, S) = Total(h, S)
BY TotalSame

LEMMA SizesRemove ==
  ASSUME NEW f \in [Addr -> Int], NEW S \in SUBSET Addr, IsFiniteSet(S), NEW x \in S
  PROVE  Total(f, S) = f[x] + Total(f, S \ {x}) /\ Total(f, S \ {x}) \in Int
BY Zenon, TotalRemove

-----------------------------------------------------------------------------
(* The accounting, and the blocks as the clients see them.                 *)

USE DEF MIN_CHUNK, PROLOGUE_SIZE, EPILOGUE_SIZE, HEADER_SIZE,
        Base, Epilogue, First, Segments, Addr

\* The free chunks, the one a merge builds not counted.
FreeHeads == {h \in heads : ~inuse[h] /\ ~Freeing(h)}

\* The counters at every step: while dealloc merges, the chunk being freed is
\* in neither counter's new value yet.
CountInv ==
  /\ free_bytes = Total(size, FreeHeads) + (IF pc = "forward" THEN span_size - c_size ELSE 0)
  /\ alloc_count = Cardinality(DOMAIN live) + (IF pc = "forward" THEN 1 ELSE 0)

Blocks == [p \in DOMAIN live |-> [last  |-> p + size[p - HEADER_SIZE] - 1 - HEADER_SIZE,
                                  bytes |-> live[p]]]

\* What is finite.
LEMMA FreeFacts ==
  ASSUME IInv
  PROVE  /\ size \in [Addr -> Int] /\ FreeHeads \in SUBSET Addr /\ IsFiniteSet(FreeHeads)
         /\ IsFiniteSet(DOMAIN live) /\ Cardinality(DOMAIN live) \in Nat
         /\ Total(size, FreeHeads) \in Int
<1>1. /\ size \in [Addr -> Nat] /\ heads \in SUBSET Addr /\ DOMAIN live \in SUBSET Addr
      /\ MaxAddr \in Nat
  BY Zenon, ConstantAssumption DEF IInv, TypeOK
<1>2. size \in [Addr -> Int] /\ FreeHeads \in SUBSET Addr
  <2>1. \A x \in Addr : size[x] \in Int BY <1>1
  <2> QED BY Zenon, <1>1, <2>1 DEF FreeHeads
<1>3. IsFiniteSet(Addr)
  <2>1. 0 \in Int /\ MaxAddr \in Int BY <1>1
  <2> QED BY Zenon, <2>1, FS_Interval
<1>4. IsFiniteSet(FreeHeads) /\ IsFiniteSet(DOMAIN live) BY Zenon, <1>1, <1>2, <1>3, FS_Subset
<1>5. Cardinality(DOMAIN live) \in Nat BY Zenon, <1>4, FS_CardinalityType
<1>6. Total(size, FreeHeads) \in Int
  <2>1. FreeHeads \in SUBSET FreeHeads BY Zenon
  <2> QED BY Zenon, <1>2, <1>4, <2>1, IterSums DEF Total
<1> QED BY Zenon, <1>2, <1>4, <1>5, <1>6

\* A block is the payload of an in-use chunk, holds the bytes asked for, and
\* shares no granule with another one.
BlocksOK ==
  /\ DOMAIN Blocks = DOMAIN live
  /\ \A p \in DOMAIN live :
       /\ p \in Nat /\ p - 1 \in heads /\ inuse[p - 1] /\ ~Freeing(p - 1)
       /\ size[p - 1] \in Nat
       /\ (Blocks[p].last - p + 1) * CHUNK_ALIGN >= Blocks[p].bytes
       /\ \A q \in DOMAIN live : p # q => ~(p <= Blocks[q].last /\ q <= Blocks[p].last)

LEMMA BlocksFromIInv == IInv => BlocksOK
<1> SUFFICES ASSUME IInv PROVE BlocksOK
  BY Zenon
<1> USE DEF IInv
<1>1. ASSUME NEW p \in DOMAIN live
      PROVE  /\ p \in Nat /\ p - 1 \in heads /\ inuse[p - 1] /\ ~Freeing(p - 1)
             /\ size[p - 1] \in Nat /\ ChunkLen(p - 1) = size[p - 1]
             /\ size[p - 1] >= Needed(live[p]) /\ live[p] \in Nat
             /\ Blocks[p].last = p + size[p - 1] - 1 - 1 /\ Blocks[p].bytes = live[p]
  <2>1. PICK h \in heads : inuse[h] /\ ~Freeing(h) /\ p = h + 1 BY Zenon DEF LiveBlocks
  <2>2. h \in Nat /\ p - 1 = h /\ size[h] \in Nat /\ ChunkLen(h) = size[h] /\ p \in Nat
    BY <2>1, HeadFacts
  <2>3. Blocks[p].last = p + size[p - 1] - 1 - 1 /\ Blocks[p].bytes = live[p]
    BY Zenon DEF Blocks
  <2> QED BY <2>1, <2>2, <2>3 DEF LiveBlocks, TypeOK
<1>2. ASSUME NEW p \in DOMAIN live
      PROVE  (Blocks[p].last - p + 1) * CHUNK_ALIGN >= Blocks[p].bytes
  <2> DEFINE b == live[p]
             s == size[p - 1]
             d == (b + CHUNK_ALIGN - 1) \div CHUNK_ALIGN
  <2>1. b \in Nat /\ s \in Nat /\ p \in Nat BY Zenon, <1>1
  <2>2. s >= Needed(b) BY Zenon, <1>1
  <2> HIDE DEF b, s
  <2>3. Needed(b) \in Nat /\ d \in Nat /\ d + 1 <= Needed(b) BY Zenon, <2>1, NeededProperties
  <2>4. d * CHUNK_ALIGN >= b BY <2>1 DEF CHUNK_ALIGN
  <2> HIDE DEF d
  <2>5. d <= s - 1 BY <2>1, <2>2, <2>3
  <2>6. (s - 1) * CHUNK_ALIGN >= b BY <2>1, <2>3, <2>4, <2>5 DEF CHUNK_ALIGN
  <2>7. Blocks[p].last = p + s - 1 - 1 /\ Blocks[p].bytes = b BY Zenon, <1>1 DEF b, s
  <2>8. Blocks[p].last - p + 1 = s - 1 BY <2>1, <2>7
  <2> QED BY Zenon, <2>6, <2>7, <2>8
<1>3. ASSUME NEW p \in DOMAIN live, NEW q \in DOMAIN live, p # q
      PROVE  ~(p <= Blocks[q].last /\ q <= Blocks[p].last)
  <2>1. p - 1 < q - 1 \/ q - 1 < p - 1 BY <1>1, <1>3
  <2>2. p - 1 < q - 1 => (p - 1) + size[p - 1] <= q - 1 BY <1>1, HeadFacts
  <2>3. q - 1 < p - 1 => (q - 1) + size[q - 1] <= p - 1 BY <1>1, HeadFacts
  <2> QED BY <1>1, <2>1, <2>2, <2>3
<1>4. DOMAIN Blocks = DOMAIN live BY Zenon DEF Blocks
<1> QED BY Zenon, <1>1, <1>2, <1>3, <1>4 DEF BlocksOK

\* A step that changes no block.
LEMMA BlocksSame ==
  ASSUME IInv, live' = live,
         \A h \in heads : inuse[h] /\ ~Freeing(h) => size'[h] = size[h]
  PROVE  Blocks' = Blocks
<1>1. \A p \in DOMAIN live : size'[p - 1] = size[p - 1] BY Zenon, BlocksFromIInv DEF BlocksOK
<1> QED BY Zenon, <1>1 DEF Blocks

\* What Allocate and Release say, of the blocks before and after.
Allocates(b, d) ==
  \E p \in Addr \ DOMAIN b :
    /\ DOMAIN d = DOMAIN b \cup {p}
    /\ \A q \in DOMAIN b : d[q] = b[q] /\ ~(p <= b[q].last /\ q <= d[p].last)
    /\ (d[p].last - p + 1) * CHUNK_ALIGN >= d[p].bytes

Releases(b, d) == \E p \in DOMAIN b : d = [q \in DOMAIN b \ {p} |-> b[q]]

LEMMA AbstractSteps ==
  /\ Allocates(Blocks, Blocks') => Abstract!Next
  /\ Releases(Blocks, Blocks') => Abstract!Next
<1>1. Allocates(Blocks, Blocks') => Abstract!Allocate
  BY Zenon DEF Allocates, Blocks, Abstract!Allocate, Abstract!Overlap
<1>2. Releases(Blocks, Blocks') => Abstract!Release
  BY Zenon DEF Releases, Blocks, Abstract!Release
<1> QED BY Zenon, <1>1, <1>2 DEF Abstract!Next

\* Handing out the free chunk k.
LEMMA HandsOut ==
  ASSUME IInv, IInv', NEW k \in heads, ~inuse[k],
         live' = [p \in DOMAIN live \cup {k + 1} |-> IF p = k + 1 THEN request ELSE live[p]],
         \A h \in heads : h # k => size'[h] = size[h]
  PROVE  /\ Allocates(Blocks, Blocks')
         /\ Cardinality(DOMAIN live') = Cardinality(DOMAIN live) + 1
<1>0. k \in Nat BY Zenon, HeadFacts DEF IInv
<1>1. BlocksOK BY Zenon, BlocksFromIInv
<1>2. BlocksOK' BY BlocksFromIInv, PTL
<1> DEFINE p == k + 1
<1>3. p \notin DOMAIN live
  <2>1. p - 1 = k BY <1>0
  <2> QED BY Zenon, <1>1, <2>1 DEF BlocksOK
<1>4. DOMAIN live' = DOMAIN live \cup {p} BY Zenon
<1>5. p \in Addr BY Zenon, <1>4 DEF IInv, TypeOK
<1>6. ASSUME NEW q \in DOMAIN live PROVE Blocks'[q] = Blocks[q]
  <2>1. q # p /\ live'[q] = live[q] BY Zenon, <1>3
  <2>2. q - 1 \in heads /\ q - 1 # k BY Zenon, <1>1 DEF BlocksOK
  <2>3. size'[q - 1] = size[q - 1] BY Zenon, <2>2
  <2>4. q \in DOMAIN live' BY Zenon, <1>4
  <2> QED BY <2>1, <2>3, <2>4 DEF Blocks
<1>7. DOMAIN Blocks = DOMAIN live /\ DOMAIN Blocks' = DOMAIN live'
  BY Zenon DEF Blocks
<1>8. Allocates(Blocks, Blocks')
  <2>1. p \in DOMAIN live' BY Zenon, <1>4
  <2>2. ASSUME NEW q \in DOMAIN live
        PROVE  ~(p <= Blocks[q].last /\ q <= Blocks'[p].last)
    <3>1. q \in DOMAIN live' /\ q # p BY Zenon, <1>3, <1>4
    <3>2. ~(p <= Blocks'[q].last /\ q <= Blocks'[p].last) BY Zenon, <1>2, <2>1, <3>1 DEF BlocksOK
    <3> QED BY Zenon, <1>6, <3>2
  <2>3. (Blocks'[p].last - p + 1) * CHUNK_ALIGN >= Blocks'[p].bytes
    BY Zenon, <1>2, <2>1 DEF BlocksOK
  <2> HIDE DEF p
  <2> QED BY <1>3, <1>4, <1>5, <1>6, <1>7, <2>2, <2>3 DEF Allocates
<1>9. Cardinality(DOMAIN live') = Cardinality(DOMAIN live) + 1
  BY Zenon, <1>3, <1>4, FreeFacts, FS_AddElement
<1> QED BY Zenon, <1>8, <1>9

\* What every step guarantees: exact counters again, and a step of BlockAllocator
\* or none.
Accounted == CountInv' /\ (Blocks' = Blocks \/ Abstract!Next)

\* A step that frees or hands out nothing.
LEMMA QuietStep ==
  ASSUME IInv, IInv', CountInv, live' = live, heads' = heads,
         free_bytes' = free_bytes, alloc_count' = alloc_count,
         \A h \in heads : /\ size'[h] = size[h] /\ inuse'[h] = inuse[h]
                          /\ Freeing(h)' <=> Freeing(h),
         \/ pc # "forward" /\ pc' # "forward"
         \/ pc' = pc /\ span_size' = span_size /\ c_size' = c_size
  PROVE  Accounted
<1>1. FreeHeads' = FreeHeads BY Zenon DEF FreeHeads
<1>2. size \in [Addr -> Int] /\ FreeHeads \in SUBSET Addr /\ IsFiniteSet(FreeHeads)
  BY Zenon, FreeFacts
<1>3. size' \in [Addr -> Int]
  BY DEF IInv, TypeOK
<1>4. \A h \in FreeHeads : size'[h] = size[h] BY Zenon DEF FreeHeads
<1>5. Total(size', FreeHeads) = Total(size, FreeHeads) BY Zenon, <1>2, <1>3, <1>4, SizesSame
<1>6. CountInv' BY Zenon, <1>1, <1>5 DEF CountInv
<1>7. Blocks' = Blocks BY Zenon, BlocksSame
<1> QED BY Zenon, <1>6, <1>7 DEF Accounted

\* The steps that only move the walk or only count a refusal.
LEMMA WalkAccounted ==
  ASSUME IInv, IInv', CountInv,
         \/ \E l \in Layouts : alloc_refuse(l) \/ alloc_enter(l)
         \/ \E p \in FreeInputs : dealloc_refuse(p)
         \/ alloc_skip \/ alloc_next_segment \/ alloc_oom
  PROVE  Accounted
<1>1. /\ pc # "forward" /\ pc' # "forward"
      /\ size' = size /\ inuse' = inuse /\ heads' = heads /\ live' = live
      /\ free_bytes' = free_bytes /\ alloc_count' = alloc_count
  BY Zenon DEF alloc_refuse, alloc_enter, dealloc_refuse, Refuse, alloc_skip, OnChunk,
     alloc_next_segment, alloc_oom, tags, counts, ghosts
<1>2. \A h \in heads : Freeing(h)' <=> Freeing(h) BY Zenon, <1>1 DEF Freeing
<1> QED BY Zenon, <1>1, <1>2, QuietStep

LEMMA StutterAccounted ==
  ASSUME IInv, IInv', CountInv, UNCHANGED vars
  PROVE  Accounted
<1>1. /\ pc' = pc /\ span_size' = span_size /\ c_size' = c_size /\ span' = span
      /\ size' = size /\ inuse' = inuse /\ heads' = heads /\ live' = live
      /\ free_bytes' = free_bytes /\ alloc_count' = alloc_count
  BY Zenon DEF vars, tags, counts, merge, ghosts
<1>2. \A h \in heads : Freeing(h)' <=> Freeing(h) BY Zenon, <1>1 DEF Freeing
<1> QED BY Zenon, <1>1, <1>2, QuietStep

\* A client's write reaches no header.
LEMMA WriteAccounted ==
  ASSUME IInv, IInv', CountInv, NEW p \in DOMAIN live, NEW a \in p .. LastCell(p, live[p]),
         NEW v \in Payloads, ClientWrite(p, a, v)
  PROVE  Accounted
<1>1. /\ pc' = pc /\ span_size' = span_size /\ c_size' = c_size /\ span' = span
      /\ heads' = heads /\ live' = live
      /\ free_bytes' = free_bytes /\ alloc_count' = alloc_count
      /\ size' = [size EXCEPT ![a] = v.size] /\ inuse' = [inuse EXCEPT ![a] = v.inuse]
  BY Zenon DEF ClientWrite, counts, merge, ghosts
<1>2. a \notin heads BY Zenon, DisjointFromIInv DEF BlocksDisjoint, Extent
<1>3. \A h \in heads : h # a /\ h \in Addr BY Zenon, <1>2 DEF IInv, TypeOK
<1>4. \A h \in heads : size'[h] = size[h] /\ inuse'[h] = inuse[h]
  BY SMTT(30), <1>1, <1>3 DEF IInv, TypeOK
<1>5. \A h \in heads : Freeing(h)' <=> Freeing(h) BY Zenon, <1>1 DEF Freeing
<1> QED BY Zenon, <1>1, <1>4, <1>5, QuietStep

\* A new segment lies apart from every chunk.
LEMMA RegionApart ==
  ASSUME IInv, NEW r \in Regions, init_region(r), NEW h \in heads
  PROVE  /\ RegionBase(r) + 1 # h /\ RegionBase(r) + 1 \in Addr
         /\ size'[h] = size[h] /\ inuse'[h] = inuse[h]
         /\ size'[RegionBase(r) + 1] = RegionEnd(r) - RegionBase(r) - 1 - 1
         /\ ~inuse'[RegionBase(r) + 1]
<1> USE DEF IInv
<1> DEFINE lo == RegionBase(r)
           hi == RegionEnd(r)
           first == lo + 1
           epi == hi - 1
           fs == hi - lo - 1 - 1
<1>0. /\ hi >= lo + 2 + 1 + 1 /\ [base |-> lo, end |-> hi] \notin Installed /\ pc = "idle"
      /\ size' = [size EXCEPT ![lo] = 1, ![first] = fs, ![epi] = 1]
      /\ inuse' = [inuse EXCEPT ![lo] = TRUE, ![first] = FALSE, ![epi] = TRUE]
  BY Zenon DEF init_region
<1>1. lo \in Nat /\ hi \in Nat /\ hi <= MaxAddr + 1 /\ MaxAddr \in Nat
  BY Zenon, RegionProperties, ConstantAssumption
<1>2. h \in Nat /\ h \in Addr /\ ChunkLen(h) \in Nat BY Zenon, HeadFacts
<1>3. PICK i \in Segments : First(i) <= h /\ h + ChunkLen(h) <= Epilogue(i)
  BY Zenon, HeadFacts
<1>4. segments[i].end <= lo \/ hi <= Base(i)
  <2>1. PICK q \in Regions : segments[i] = [base |-> RegionBase(q), end |-> RegionEnd(q)]
    BY Zenon DEF SegmentsOK
  <2>2. segments[i] # [base |-> lo, end |-> hi] BY Zenon, <1>0 DEF Installed
  <2>3. q # r BY Zenon, <2>1, <2>2
  <2> QED BY <2>1, <2>3, RegionAssumption
<1> HIDE DEF lo, hi
<1>5. h # lo /\ h # first /\ h # epi
  BY <1>0, <1>1, <1>2, <1>3, <1>4, SegmentFacts
<1>6. first \in Addr /\ first # lo /\ first # epi
  BY <1>0, <1>1
<1> HIDE DEF first, epi, fs
<1>7. /\ size'[h] = size[h] /\ inuse'[h] = inuse[h] /\ size'[first] = fs /\ ~inuse'[first]
  BY <1>0, <1>2, <1>5, <1>6 DEF TypeOK
<1> QED BY Zenon, <1>5, <1>6, <1>7 DEF first, fs, lo, hi

LEMMA RegionAccounted ==
  ASSUME IInv, IInv', CountInv, NEW r \in Regions, init_region(r)
  PROVE  Accounted
<1> DEFINE first == RegionBase(r) + 1
           fs == RegionEnd(r) - RegionBase(r) - 1 - 1
<1>1. /\ pc = "idle" /\ pc' = "idle" /\ heads' = heads \cup {first} /\ live' = live
      /\ free_bytes' = free_bytes + fs /\ alloc_count' = alloc_count
  BY Zenon DEF init_region
<1>2. /\ \A h \in heads : first # h /\ size'[h] = size[h] /\ inuse'[h] = inuse[h]
  BY Zenon, RegionApart
<1>3. first \in heads' BY Zenon, <1>1
<1>4. size'[first] = fs /\ ~inuse'[first] /\ first \in Addr /\ fs \in Int
  <2> USE DEF IInv
  <2>1. /\ RegionBase(r) \in Nat /\ RegionEnd(r) \in Nat /\ RegionEnd(r) <= MaxAddr + 1
        /\ MaxAddr \in Nat
    BY Zenon, RegionProperties, ConstantAssumption
  <2>2. RegionEnd(r) >= RegionBase(r) + 2 + 1 + 1 BY Zenon DEF init_region
  <2>3. first \in Addr /\ fs \in Int BY <2>1, <2>2
  <2>4. first # RegionBase(r) /\ first # RegionEnd(r) - 1 BY <2>1, <2>2
  <2>5. /\ size' = [size EXCEPT ![RegionBase(r)] = 1, ![first] = fs, ![RegionEnd(r) - 1] = 1]
        /\ inuse' = [inuse EXCEPT ![RegionBase(r)] = TRUE, ![first] = FALSE,
                                  ![RegionEnd(r) - 1] = TRUE]
    BY Zenon DEF init_region
  <2>6. size \in [Addr -> Nat] /\ inuse \in [Addr -> BOOLEAN] BY Zenon DEF TypeOK
  <2> HIDE DEF first, fs
  <2> QED BY <2>3, <2>4, <2>5, <2>6
<1> HIDE DEF first, fs
<1>5. FreeHeads' = FreeHeads \cup {first} /\ first \notin FreeHeads
  BY Zenon, <1>1, <1>2, <1>4 DEF FreeHeads, Freeing
<1>6. size \in [Addr -> Int] /\ FreeHeads \in SUBSET Addr /\ IsFiniteSet(FreeHeads)
      /\ Total(size, FreeHeads) \in Int
  BY Zenon, FreeFacts
<1>7. size' \in [Addr -> Int] BY DEF IInv, TypeOK
<1>8. IsFiniteSet(FreeHeads') /\ FreeHeads' \in SUBSET Addr /\ FreeHeads' \ {first} = FreeHeads
  BY <1>4, <1>5, <1>6, FS_AddElement
<1>9. Total(size', FreeHeads') = fs + Total(size', FreeHeads)
  <2>1. first \in FreeHeads' BY Zenon, <1>5
  <2> QED BY Zenon, <1>4, <1>7, <1>8, <2>1, SizesRemove
<1>10. Total(size', FreeHeads) = Total(size, FreeHeads)
  <2>1. \A h \in FreeHeads : size'[h] = size[h] BY Zenon, <1>2 DEF FreeHeads
  <2> QED BY Zenon, <1>6, <1>7, <2>1, SizesSame
<1>11. free_bytes = Total(size, FreeHeads) BY <1>1, <1>6 DEF CountInv
<1>12. CountInv'
  <2>1. free_bytes' = Total(size', FreeHeads') BY <1>1, <1>4, <1>6, <1>9, <1>10, <1>11
  <2>2. Total(size', FreeHeads') \in Int BY <1>4, <1>6, <1>9, <1>10
  <2>3. alloc_count' = Cardinality(DOMAIN live') + 0 BY Zenon, <1>1 DEF CountInv
  <2> QED BY <1>1, <2>1, <2>2, <2>3 DEF CountInv
<1>13. Blocks' = Blocks BY Zenon, <1>1, <1>2, BlocksSame
<1> QED BY Zenon, <1>12, <1>13 DEF Accounted

\* The sums before and after an element leaves or enters the free chunks.
LEMMA SumLeaves ==
  ASSUME IInv, IInv', NEW x \in FreeHeads, FreeHeads' = FreeHeads \ {x},
         \A h \in FreeHeads : h # x => size'[h] = size[h]
  PROVE  /\ Total(size', FreeHeads') = Total(size, FreeHeads) - size[x]
         /\ Total(size', FreeHeads') \in Int /\ size[x] \in Int
<1>1. size \in [Addr -> Int] /\ FreeHeads \in SUBSET Addr /\ IsFiniteSet(FreeHeads)
  BY Zenon, FreeFacts
<1>2. size' \in [Addr -> Int] BY DEF IInv, TypeOK
<1>3. IsFiniteSet(FreeHeads \ {x}) /\ FreeHeads \ {x} \in SUBSET Addr
  BY Zenon, <1>1, FS_RemoveElement
<1>4. Total(size, FreeHeads) = size[x] + Total(size, FreeHeads \ {x})
      /\ Total(size, FreeHeads \ {x}) \in Int
  BY Zenon, <1>1, SizesRemove
<1>5. Total(size', FreeHeads \ {x}) = Total(size, FreeHeads \ {x})
  <2>1. \A h \in FreeHeads \ {x} : size'[h] = size[h] BY Zenon
  <2> QED BY Zenon, <1>1, <1>2, <1>3, <2>1, SizesSame
<1>6. size[x] \in Int BY Zenon, <1>1
<1> QED BY <1>4, <1>5, <1>6

LEMMA SumEnters ==
  ASSUME IInv, IInv', NEW x \in FreeHeads', x \notin FreeHeads, FreeHeads' = FreeHeads \cup {x},
         \A h \in FreeHeads : size'[h] = size[h]
  PROVE  /\ Total(size', FreeHeads') = Total(size, FreeHeads) + size'[x]
         /\ Total(size', FreeHeads') \in Int /\ size'[x] \in Int
<1>1. size \in [Addr -> Int] /\ FreeHeads \in SUBSET Addr /\ IsFiniteSet(FreeHeads)
      /\ Total(size, FreeHeads) \in Int
  BY Zenon, FreeFacts
<1>2. size' \in [Addr -> Int] BY DEF IInv, TypeOK
<1>3. IsFiniteSet(FreeHeads') /\ FreeHeads' \in SUBSET Addr /\ FreeHeads' \ {x} = FreeHeads
  <2>1. heads' \in SUBSET Addr BY Zenon DEF IInv, TypeOK
  <2>2. x \in Addr BY Zenon, <2>1 DEF FreeHeads
  <2>3. IsFiniteSet(FreeHeads') BY Zenon, <1>1, FS_AddElement
  <2> QED BY Zenon, <1>1, <2>2, <2>3
<1>4. Total(size', FreeHeads') = size'[x] + Total(size', FreeHeads)
  <2>1. Total(size', FreeHeads') = size'[x] + Total(size', FreeHeads' \ {x})
    BY ZenonT(30), <1>2, <1>3, SizesRemove
  <2> QED BY Zenon, <1>3, <2>1
<1>5. Total(size', FreeHeads) = Total(size, FreeHeads)
  BY Zenon, <1>1, <1>2, SizesSame
<1>6. size'[x] \in Int BY Zenon, <1>2, <1>3
<1> QED BY <1>1, <1>4, <1>5, <1>6

LEMMA TakeAccounted ==
  ASSUME IInv, IInv', CountInv, alloc_take
  PROVE  Accounted
<1> DEFINE k == chunk
<1>0. live' = [p \in DOMAIN live \cup {k + 1} |-> IF p = k + 1 THEN request ELSE live[p]]
  BY Zenon DEF alloc_take, HandOut
<1>1. /\ OnChunk /\ Fits /\ pc' = "idle" /\ size' = size /\ heads' = heads
      /\ inuse' = [inuse EXCEPT ![k] = TRUE]
      /\ free_bytes' = free_bytes - size[k] /\ alloc_count' = alloc_count + 1
  BY Zenon DEF alloc_take, HandOut
<1>2. /\ pc = "walk" /\ k \in heads /\ k \in Addr /\ inuse[k] = FALSE
      /\ \A h \in heads : ~Freeing(h)
  BY Zenon, <1>1, FoundFacts
<1> HIDE DEF k
<1>3. \A h \in heads : h \in Addr /\ (h # k => inuse'[h] = inuse[h]) /\ inuse'[k]
  BY Zenon, <1>1, <1>2 DEF IInv, TypeOK
<1>4. k \in FreeHeads /\ FreeHeads' = FreeHeads \ {k}
  BY Zenon, <1>1, <1>2, <1>3 DEF FreeHeads, Freeing
<1>5. Total(size', FreeHeads') = Total(size, FreeHeads) - size[k]
      /\ Total(size', FreeHeads') \in Int /\ size[k] \in Int
  BY Zenon, <1>1, <1>4, SumLeaves
<1>6. Allocates(Blocks, Blocks') /\ Cardinality(DOMAIN live') = Cardinality(DOMAIN live) + 1
  BY <1>0, <1>1, <1>2, HandsOut
<1>7. Total(size, FreeHeads) \in Int /\ Cardinality(DOMAIN live) \in Nat BY Zenon, FreeFacts
<1>8. free_bytes = Total(size, FreeHeads) /\ alloc_count = Cardinality(DOMAIN live)
  BY <1>2, <1>7 DEF CountInv
<1>9. CountInv'
  <2>1. free_bytes' = Total(size', FreeHeads') BY <1>1, <1>5, <1>8
  <2>2. alloc_count' = Cardinality(DOMAIN live') BY <1>1, <1>6, <1>8
  <2> QED BY SMTT(30), <1>1, <1>5, <1>6, <1>7, <2>1, <2>2 DEF CountInv
<1> QED BY Zenon, <1>6, <1>9, AbstractSteps DEF Accounted

LEMMA SplitAccounted ==
  ASSUME IInv, IInv', CountInv, alloc_split
  PROVE  Accounted
<1> DEFINE k == chunk
           nd == Needed(request)
           r == k + nd
           rest == size[k] - nd
<1>0. live' = [p \in DOMAIN live \cup {k + 1} |-> IF p = k + 1 THEN request ELSE live[p]]
  BY Zenon DEF alloc_split, HandOut
<1>1. /\ OnChunk /\ Fits /\ pc' = "idle" /\ heads' = heads \cup {r} /\ rest >= 2
      /\ size' = [size EXCEPT ![r] = rest, ![k] = nd]
      /\ inuse' = [inuse EXCEPT ![r] = FALSE, ![k] = TRUE]
      /\ free_bytes' = free_bytes - nd /\ alloc_count' = alloc_count + 1
  BY Zenon DEF alloc_split, HandOut, Splits
<1>2. /\ pc = "walk" /\ k \in heads /\ k \in Addr /\ k \in Nat /\ inuse[k] = FALSE
      /\ size[k] \in Nat /\ nd \in Nat /\ nd >= 2
      /\ \A h \in heads : ChunkLen(h) = size[h] /\ ~Freeing(h)
  BY Zenon, <1>1, FoundFacts
<1> HIDE DEF k, nd
<1>3. r \in Nat /\ k < r /\ r < k + size[k] /\ r \in Addr /\ rest \in Int
  <2>1. r \in heads' BY Zenon, <1>1
  <2>2. r \in Addr BY Zenon, <2>1 DEF IInv, TypeOK
  <2> QED BY <1>1, <1>2, <2>2
<1>4. r \notin heads
  <2>1. r \in heads => k + size[k] <= r BY <1>2, <1>3, HeadFacts DEF IInv
  <2> QED BY <1>2, <1>3, <2>1
<1> HIDE DEF r, rest
<1>5. /\ size'[r] = rest /\ ~inuse'[r] /\ inuse'[k] /\ r # k
      /\ \A h \in heads : h # k => h # r /\ size'[h] = size[h] /\ inuse'[h] = inuse[h]
  <2>1. r # k BY <1>2, <1>4
  <2>2. size \in [Addr -> Nat] /\ inuse \in [Addr -> BOOLEAN] /\ heads \in SUBSET Addr
    BY Zenon DEF IInv, TypeOK
  <2> QED BY <1>1, <1>2, <1>3, <1>4, <2>1, <2>2
<1>6. /\ k \in FreeHeads /\ r \in FreeHeads' /\ r \notin FreeHeads /\ r # k
      /\ FreeHeads' \ {r} = FreeHeads \ {k}
  BY Zenon, <1>1, <1>2, <1>4, <1>5 DEF FreeHeads, Freeing
<1>7. Total(size', FreeHeads') = Total(size, FreeHeads) - size[k] + rest
      /\ Total(size', FreeHeads') \in Int /\ Total(size, FreeHeads) \in Int
  <2>1. size \in [Addr -> Int] /\ FreeHeads \in SUBSET Addr /\ IsFiniteSet(FreeHeads)
        /\ Total(size, FreeHeads) \in Int
    BY Zenon, FreeFacts
  <2>2. size' \in [Addr -> Int] BY DEF IInv, TypeOK
  <2>3. /\ IsFiniteSet(FreeHeads \ {k}) /\ FreeHeads \ {k} \in SUBSET Addr
        /\ FreeHeads' \in SUBSET Addr /\ FreeHeads' = (FreeHeads \ {k}) \cup {r}
    <3>1. IsFiniteSet(FreeHeads \ {k}) BY Zenon, <2>1, FS_RemoveElement
    <3> QED BY Zenon, <1>3, <1>6, <2>1, <3>1
  <2>4. IsFiniteSet(FreeHeads') BY Zenon, <2>3, FS_AddElement
  <2>5. Total(size, FreeHeads) = size[k] + Total(size, FreeHeads \ {k})
        /\ Total(size, FreeHeads \ {k}) \in Int
    BY Zenon, <1>6, <2>1, SizesRemove
  <2>6. Total(size', FreeHeads') = size'[r] + Total(size', FreeHeads' \ {r})
    BY ZenonT(30), <1>6, <2>2, <2>3, <2>4, SizesRemove
  <2>7. Total(size', FreeHeads \ {k}) = Total(size, FreeHeads \ {k})
    <3>1. \A h \in FreeHeads \ {k} : size'[h] = size[h] BY Zenon, <1>5 DEF FreeHeads
    <3> QED BY Zenon, <2>1, <2>2, <2>3, <3>1, SizesSame
  <2>8. Total(size', FreeHeads') = rest + Total(size, FreeHeads \ {k})
    BY Zenon, <1>5, <1>6, <2>6, <2>7
  <2>9. rest \in Int /\ size[k] \in Int BY <1>2, <1>3
  <2> QED BY <2>1, <2>5, <2>8, <2>9
<1>8. Allocates(Blocks, Blocks') /\ Cardinality(DOMAIN live') = Cardinality(DOMAIN live) + 1
  <2>1. ~inuse[k] /\ \A h \in heads : h # k => size'[h] = size[h] BY Zenon, <1>2, <1>5
  <2> QED BY <1>0, <1>2, <2>1, HandsOut
<1>9. Cardinality(DOMAIN live) \in Nat BY Zenon, FreeFacts
<1>10. free_bytes = Total(size, FreeHeads) /\ alloc_count = Cardinality(DOMAIN live)
  BY <1>2, <1>7, <1>9 DEF CountInv
<1>11. CountInv'
  <2>1. free_bytes' = Total(size', FreeHeads') BY <1>1, <1>2, <1>7, <1>10 DEF rest
  <2>2. alloc_count' = Cardinality(DOMAIN live') BY <1>1, <1>8, <1>10
  <2> QED BY <1>1, <1>7, <1>8, <1>9, <2>1, <2>2 DEF CountInv
<1> QED BY Zenon, <1>8, <1>11, AbstractSteps DEF Accounted

LEMMA FreeAccounted ==
  ASSUME IInv, IInv', CountInv, NEW p \in FreeInputs, dealloc_enter(p)
  PROVE  Accounted
<1> DEFINE a == ChunkOf(p)
           g == PrevAddr(a)
<1>0. /\ pc = "idle" /\ WellPlaced(p) /\ inuse[a] /\ pc' = "forward" /\ c_size' = size[a]
      /\ live' = [q \in DOMAIN live \ {a + 1} |-> live[q]]
      /\ free_bytes' = free_bytes /\ alloc_count' = alloc_count
  BY SMTT(30) DEF dealloc_enter, Neutralise, counts
<1>1. a \in heads /\ a \in Nat /\ a \in Addr /\ size[a] \in Nat
  BY <1>0, DeallocTarget, HeadFacts DEF IInv
<1>2. \A h \in heads : ~Freeing(h) BY <1>0 DEF Freeing
<1>3. \/ previnuse[a] /\ span' = a /\ span_size' = size[a] /\ UNCHANGED <<tags, heads>>
      \/ /\ ~previnuse[a] /\ span' = g /\ span_size' = size[g] + size[a]
         /\ Neutralise(a) /\ heads' = heads \ {a}
  BY SMTT(30) DEF dealloc_enter
<1> HIDE DEF a
<1>4. a + 1 \in DOMAIN live BY Zenon, <1>0, <1>1, <1>2 DEF IInv, LiveBlocks
<1>5. Total(size, FreeHeads) \in Int /\ Cardinality(DOMAIN live) \in Nat
      /\ IsFiniteSet(DOMAIN live)
  BY Zenon, FreeFacts
<1>6. free_bytes = Total(size, FreeHeads) /\ alloc_count = Cardinality(DOMAIN live)
  BY <1>0, <1>5 DEF CountInv
<1>7. alloc_count' = Cardinality(DOMAIN live') + 1
  <2>1. DOMAIN live' = DOMAIN live \ {a + 1} BY Zenon, <1>0
  <2>2. Cardinality(DOMAIN live \ {a + 1}) = Cardinality(DOMAIN live) - 1
    BY <1>4, <1>5, FS_RemoveElement
  <2> QED BY <1>0, <1>5, <1>6, <2>1, <2>2
<1>8. \A h \in heads : h # a => size'[h] = size[h]
  BY Zenon, <1>3 DEF Neutralise, tags, IInv, TypeOK
<1>9. Releases(Blocks, Blocks')
  <2>1. DOMAIN Blocks = DOMAIN live BY Zenon DEF Blocks
  <2>2. ASSUME NEW q \in DOMAIN live \ {a + 1}
        PROVE  size'[q - 1] = size[q - 1] /\ live'[q] = live[q]
    <3>1. q - 1 \in heads /\ q \in Nat BY Zenon, BlocksFromIInv DEF BlocksOK
    <3>2. q - 1 # a BY <1>1, <3>1
    <3> QED BY <1>0, <1>8, <3>1, <3>2
  <2>3. DOMAIN live' = DOMAIN live \ {a + 1} BY Zenon, <1>0
  <2>4. Blocks' = [q \in DOMAIN live \ {a + 1} |-> Blocks[q]]
    BY Zenon, <2>2, <2>3 DEF Blocks
  <2> QED BY <1>4, <2>1, <2>4 DEF Releases
<1>10. free_bytes' = Total(size', FreeHeads') + (span_size' - c_size')
  <2>1. CASE previnuse[a] /\ span' = a /\ span_size' = size[a] /\ UNCHANGED <<tags, heads>>
    <3>1. size' = size /\ inuse' = inuse /\ heads' = heads BY Zenon, <2>1 DEF tags
    <3>2. FreeHeads' = FreeHeads BY <1>0, <1>2, <2>1, <3>1 DEF FreeHeads, Freeing
    <3> QED BY <1>0, <1>1, <1>5, <1>6, <2>1, <3>1, <3>2
  <2>2. CASE /\ ~previnuse[a] /\ span' = g /\ span_size' = size[g] + size[a]
             /\ Neutralise(a) /\ heads' = heads \ {a}
    <3>1. g \in heads /\ g + ChunkLen(g) = a /\ ~inuse[g]
      BY <1>0, <1>1, <2>2, FreePredecessor
    <3> HIDE DEF g
    <3>2. g # a BY <1>0, <3>1
    <3>3. \A h \in heads : h # a => inuse'[h] = inuse[h]
      BY SMTT(30), <2>2 DEF Neutralise, IInv, TypeOK
    <3>4. g \in FreeHeads /\ FreeHeads' = FreeHeads \ {g}
      BY <1>0, <1>2, <2>2, <3>1, <3>2, <3>3 DEF FreeHeads, Freeing
    <3>5. \A h \in FreeHeads : h # g => size'[h] = size[h]
      BY <1>0, <1>8 DEF FreeHeads
    <3>6. Total(size', FreeHeads') = Total(size, FreeHeads) - size[g] /\ size[g] \in Int
      BY Zenon, <3>4, <3>5, SumLeaves
    <3> QED BY <1>0, <1>1, <1>5, <1>6, <2>2, <3>6
  <2> QED BY Zenon, <1>3, <2>1, <2>2
<1>11. CountInv' BY <1>0, <1>7, <1>10 DEF CountInv
<1> QED BY <1>9, <1>11, AbstractSteps DEF Accounted

LEMMA AbsorbAccounted ==
  ASSUME IInv, IInv', CountInv, dealloc_absorb
  PROVE  Accounted
<1>0. /\ pc = "forward" /\ pc' = "forward" /\ n < Epilogue(seg_idx) /\ ~inuse[n]
      /\ size' = [size EXCEPT ![n] = 0] /\ inuse' = [inuse EXCEPT ![n] = FALSE]
      /\ span_size' = span_size + size[n] /\ span' = span /\ c_size' = c_size
      /\ heads' = heads \ {n} /\ live' = live
      /\ free_bytes' = free_bytes /\ alloc_count' = alloc_count
  BY Zenon DEF dealloc_absorb, Neutralise, Absorbable, counts
<1>1. n \in heads /\ n # span /\ span_size \in Nat /\ c_size \in Nat
  <2>1. /\ span \in Nat /\ span_size \in Nat /\ span_size >= 2 /\ n \in Nat
        /\ span + span_size = n /\ (n = Epilogue(seg_idx) \/ n \in heads)
        /\ seg_idx \in Segments
    BY ZenonT(30), <1>0, ForwardFacts
  <2>2. n \in heads BY <1>0, <2>1, SegmentFacts DEF IInv
  <2> QED BY <2>1, <2>2 DEF IInv, TypeOK
<1>2. \A h \in heads : h # n => size'[h] = size[h] /\ inuse'[h] = inuse[h]
  BY <1>0 DEF IInv, TypeOK
<1>3. n \in FreeHeads /\ FreeHeads' = FreeHeads \ {n}
  BY <1>0, <1>1, <1>2 DEF FreeHeads, Freeing
<1>4. Total(size', FreeHeads') = Total(size, FreeHeads) - size[n] /\ size[n] \in Int
  <2>1. \A h \in FreeHeads : h # n => size'[h] = size[h] BY Zenon, <1>2 DEF FreeHeads
  <2> QED BY Zenon, <1>3, <2>1, SumLeaves
<1>5. Total(size, FreeHeads) \in Int BY Zenon, FreeFacts
<1>6. CountInv' BY <1>0, <1>1, <1>4, <1>5 DEF CountInv
<1>7. Blocks' = Blocks
  <2>1. \A h \in heads : inuse[h] /\ ~Freeing(h) => size'[h] = size[h] BY SMTT(30), <1>0, <1>2
  <2> QED BY <1>0, <2>1, BlocksSame
<1> QED BY Zenon, <1>6, <1>7 DEF Accounted

LEMMA FinishAccounted ==
  ASSUME IInv, IInv', CountInv, dealloc_finish
  PROVE  Accounted
<1>0. /\ pc = "forward" /\ pc' = "idle"
      /\ size' = [size EXCEPT ![span] = span_size] /\ inuse' = [inuse EXCEPT ![span] = FALSE]
      /\ heads' = heads /\ live' = live
      /\ free_bytes' = free_bytes + c_size /\ alloc_count' = alloc_count - 1
  BY Zenon DEF dealloc_finish
<1>1. span \in heads /\ span_size \in Nat /\ c_size \in Nat /\ span \in Addr
  BY ZenonT(30), <1>0, ForwardFacts DEF IInv, TypeOK
<1>2. /\ size'[span] = span_size /\ ~inuse'[span]
      /\ \A h \in heads : h # span => size'[h] = size[h] /\ inuse'[h] = inuse[h]
  BY <1>0, <1>1 DEF IInv, TypeOK
<1>3. span \in FreeHeads' /\ span \notin FreeHeads /\ FreeHeads' = FreeHeads \cup {span}
  BY <1>0, <1>1, <1>2 DEF FreeHeads, Freeing
<1>4. Total(size', FreeHeads') = Total(size, FreeHeads) + span_size
      /\ Total(size', FreeHeads') \in Int
  <2>1. \A h \in FreeHeads : size'[h] = size[h] BY <1>2, <1>3 DEF FreeHeads
  <2> QED BY <1>2, <1>3, <2>1, SumEnters
<1>5. Total(size, FreeHeads) \in Int /\ Cardinality(DOMAIN live) \in Nat BY Zenon, FreeFacts
<1>6. CountInv' BY <1>0, <1>1, <1>4, <1>5 DEF CountInv
<1>7. Blocks' = Blocks
  <2>1. \A h \in heads : inuse[h] /\ ~Freeing(h) => size'[h] = size[h]
    BY <1>0, <1>2 DEF Freeing
  <2> QED BY <1>0, <2>1, BlocksSame
<1> QED BY Zenon, <1>6, <1>7 DEF Accounted

\* Every step keeps the counters exact and is a step of BlockAllocator or none.
LEMMA NextAccounted ==
  ASSUME IInv, IInv', CountInv, [Next]_vars
  PROVE  Accounted
<1>1. ASSUME NEW r \in Regions, init_region(r) PROVE Accounted
  BY <1>1, RegionAccounted
<1>2. ASSUME NEW l \in Layouts, alloc_refuse(l) \/ alloc_enter(l) PROVE Accounted
  BY <1>2, WalkAccounted
<1>3. ASSUME NEW p \in FreeInputs, dealloc_refuse(p) \/ dealloc_enter(p) PROVE Accounted
  BY <1>3, WalkAccounted, FreeAccounted
<1>4. CASE CallStep
  BY <1>4, WalkAccounted, SplitAccounted, TakeAccounted, AbsorbAccounted,
     DeallocOverrunStep, FinishAccounted
  DEF CallStep
<1>5. ASSUME NEW p \in DOMAIN live, NEW a \in p .. LastCell(p, live[p]),
             NEW v \in Payloads, ClientWrite(p, a, v)
      PROVE  Accounted
  BY <1>5, WriteAccounted
<1>6. CASE UNCHANGED vars
  BY <1>6, StutterAccounted
<1> QED BY <1>1, <1>2, <1>3, <1>4, <1>5, <1>6 DEF Next

LEMMA InitCounted == Init => CountInv
<1> SUFFICES ASSUME Init PROVE CountInv
  BY Zenon
<1>1. size \in [Addr -> Int] BY InitIInv, FreeFacts
<1>2. FreeHeads = {} /\ DOMAIN live = {} BY Zenon DEF Init, FreeHeads
<1>3. Total(size, FreeHeads) = 0 BY Zenon, <1>1, <1>2, TotalEmpty
<1>4. Cardinality(DOMAIN live) = 0 BY <1>2, FS_EmptySet
<1> QED BY <1>3, <1>4 DEF Init, CountInv

\* The counters are exact at every step of every call.
THEOREM CountInvariance == Spec => [](IInv /\ CountInv)
<1>1. IInv /\ IInv' /\ CountInv /\ [Next]_vars => CountInv'
  BY Zenon, NextAccounted DEF Accounted
<1> QED BY <1>1, InitIInv, InitCounted, NextIInv, PTL DEF Spec

\* The heap implements BlockAllocator: a block handed out keeps its place and its
\* extent until it is given back, holds what was asked for, and overlaps no
\* other one, for every set of regions, layouts and payload contents.
THEOREM ImplementsBlockAllocatorHolds == Spec => ImplementsBlockAllocator
<1>1. Init => Abstract!Init
  BY Zenon DEF Init, Abstract!Init
<1>2. IInv /\ IInv' /\ CountInv /\ [Next]_vars
        => [Abstract!Next]_([p \in DOMAIN live |->
              [last  |-> p + size[p - HEADER_SIZE] - 1 - HEADER_SIZE, bytes |-> live[p]]])
  BY Zenon, NextAccounted DEF Accounted, Blocks
<1> QED BY <1>1, <1>2, CountInvariance, PTL DEF Spec, ImplementsBlockAllocator, Abstract!Spec

-----------------------------------------------------------------------------
(* The validator.                                                          *)

\* The walk of check_invariants: how it is defined, and that it is defined.
Walks(i, W) ==
  W = [a \in Addr |-> IF a >= Epilogue(i) THEN a = Epilogue(i)
                      ELSE CheckChunk(i, a) /\ W[a + size[a]]]
Walker(i) == CHOOSE W : Walks(i, W)

LEMMA SegmentBounds ==
  ASSUME IInv, NEW i \in Segments
  PROVE  /\ First(i) \in Nat /\ Epilogue(i) \in Nat /\ Epilogue(i) \in Addr
         /\ First(i) < Epilogue(i) /\ MaxAddr \in Nat
<1>1. /\ segments[i].base \in Nat /\ segments[i].end \in Nat /\ MaxAddr \in Nat
      /\ segments[i].base + 4 <= segments[i].end /\ segments[i].end <= MaxAddr + 1
  BY Zenon, SegmentFacts DEF IInv
<1> QED BY <1>1

LEMMA WalkerExists ==
  ASSUME IInv, NEW i \in Segments
  PROVE  Walks(i, Walker(i))
<1>1. /\ Epilogue(i) \in Nat /\ Epilogue(i) \in Addr /\ MaxAddr \in Nat
      /\ size \in [Addr -> Nat]
  <2>1. size \in [Addr -> Nat] BY DEF IInv, TypeOK
  <2> QED BY <2>1, SegmentBounds
<1> DEFINE E == Epilogue(i)
           C(a) == CheckChunk(i, a)
           Good(S) == \A a \in S : IF a >= E THEN a = E ELSE C(a) /\ a + size[a] \in S
           W == [a \in Addr |-> \E S \in SUBSET Addr : a \in S /\ Good(S)]
<1>2. \A a \in Addr : C(a) => a + size[a] \in Addr
  BY SMTT(30), <1>1 DEF CheckChunk
<1> HIDE DEF E, C
<1>3. ASSUME NEW a \in Addr, a >= E PROVE W[a] <=> a = E
  <2>1. ASSUME a = E PROVE W[a]
    <3>1. {E} \in SUBSET Addr /\ a \in {E} /\ Good({E}) BY <1>1, <2>1 DEF E
    <3> QED BY Zenon, <3>1
  <2>2. ASSUME W[a] PROVE a = E BY Zenon, <1>3, <2>2
  <2> QED BY Zenon, <2>1, <2>2
<1>4. ASSUME NEW a \in Addr, ~(a >= E), W[a] PROVE C(a) /\ W[a + size[a]]
  <2>1. PICK S \in SUBSET Addr : a \in S /\ Good(S) BY Zenon, <1>4
  <2>2. C(a) /\ a + size[a] \in S BY <1>4, <2>1
  <2> QED BY <1>2, <2>1, <2>2
<1>5. ASSUME NEW a \in Addr, ~(a >= E), C(a), W[a + size[a]] PROVE W[a]
  <2>1. a + size[a] \in Addr BY <1>2, <1>5
  <2>2. PICK S \in SUBSET Addr : a + size[a] \in S /\ Good(S) BY <1>5, <2>1
  <2>3. S \cup {a} \in SUBSET Addr /\ a \in S \cup {a} /\ Good(S \cup {a})
    BY <1>5, <2>2
  <2> QED BY Zenon, <2>3
<1>6. \A a \in Addr : W[a] \in BOOLEAN BY Zenon
<1>7. W = [a \in Addr |-> W[a]] BY Zenon
<1> HIDE DEF W
<1>8. \A a \in Addr : W[a] = (IF a >= E THEN a = E ELSE C(a) /\ W[a + size[a]])
  BY <1>3, <1>4, <1>5, <1>6
<1>9. Walks(i, W) BY <1>7, <1>8 DEF Walks, E, C
<1> QED BY Zenon, <1>9 DEF Walker

\* A chunk of a segment passes the validator's tests, and ends at the next one.
LEMMA ChunkPasses ==
  ASSUME IInv, pc = "idle", NEW i \in Segments, NEW h \in heads,
         First(i) <= h, h < Epilogue(i)
  PROVE  /\ CheckChunk(i, h) /\ h \in Addr /\ h \in Nat /\ size[h] \in Nat /\ size[h] >= 2
         /\ \/ h + size[h] = Epilogue(i)
            \/ h + size[h] \in heads /\ h + size[h] < Epilogue(i)
<1>1. /\ h \in Nat /\ h \in Addr /\ size[h] \in Nat /\ inuse[h] \in BOOLEAN
      /\ ~Freeing(h) /\ ChunkLen(h) = size[h] /\ size[h] >= 2
  BY HeadFacts DEF IInv, Freeing
<1>2. PICK j \in Segments :
         /\ First(j) <= h /\ h + size[h] <= Epilogue(j)
         /\ h + size[h] = Epilogue(j) \/ h + size[h] \in heads
  BY <1>1, HeadFacts DEF IInv
<1>3. j = i BY <1>1, <1>2, SegmentFacts DEF IInv
<1>4. Epilogue(i) \in Nat BY SegmentBounds
<1>5. \/ h + size[h] = Epilogue(i)
      \/ h + size[h] \in heads /\ h + size[h] < Epilogue(i)
  BY SMTT(30), <1>1, <1>2, <1>3, <1>4
<1>6. /\ previnuse[h + size[h]] = inuse[h]
      /\ ~inuse[h] => prevsize[h + size[h]] = size[h] /\ inuse[h + size[h]]
  BY SMTT(30), <1>1 DEF IInv, BoundaryTags
<1>7. CheckChunk(i, h) BY SMTT(30), <1>1, <1>2, <1>3, <1>6 DEF CheckChunk
<1> QED BY <1>1, <1>5, <1>7

\* The walk reaches the epilogue: the last chunk at which it failed would pass.
LEMMA WalkPasses ==
  ASSUME IInv, pc = "idle", NEW i \in Segments
  PROVE  Walker(i)[First(i)]
<1>1. /\ Epilogue(i) \in Nat /\ Epilogue(i) \in Addr /\ MaxAddr \in Nat
      /\ First(i) < Epilogue(i) /\ First(i) \in Nat
  BY Zenon, SegmentBounds
<1> DEFINE W == Walker(i)
           Bad == {h \in heads : First(i) <= h /\ h < Epilogue(i) /\ ~W[h]}
           T == {MaxAddr - h : h \in Bad}
<1>2. \A a \in Addr :
        W[a] = (IF a >= Epilogue(i) THEN a = Epilogue(i) ELSE CheckChunk(i, a) /\ W[a + size[a]])
  BY Zenon, WalkerExists DEF Walks
<1>3. \A h \in heads : h \in Addr /\ h \in Nat BY DEF IInv, TypeOK
<1> HIDE DEF W
<1>4. Bad = {}
  <2> SUFFICES ASSUME Bad # {} PROVE FALSE
    BY Zenon
  <2>1. T # {} /\ T \subseteq Nat BY <1>1, <1>3
  <2>2. PICK t \in T : \A s \in T : t <= s BY Zenon, <2>1, LeastNat
  <2>3. PICK h \in Bad : t = MaxAddr - h BY Zenon, <2>2
  <2>4. ASSUME NEW g \in Bad PROVE g <= h
    <3>1. MaxAddr - h <= MaxAddr - g BY <2>2, <2>3
    <3>2. g \in Nat /\ h \in Nat BY Zenon, <1>3
    <3> QED BY <1>1, <3>1, <3>2
  <2>5. h \in heads /\ First(i) <= h /\ h < Epilogue(i) /\ ~W[h] BY <2>3
  <2>6. /\ CheckChunk(i, h) /\ h \in Addr /\ h \in Nat /\ size[h] \in Nat /\ size[h] >= 2
        /\ \/ h + size[h] = Epilogue(i)
           \/ h + size[h] \in heads /\ h + size[h] < Epilogue(i)
    BY SMTT(30), <2>5, ChunkPasses
  <2>7. W[h + size[h]]
    <3>1. CASE h + size[h] = Epilogue(i)
      <4>1. Epilogue(i) >= Epilogue(i) BY <1>1
      <4>2. W[Epilogue(i)] = (Epilogue(i) = Epilogue(i)) BY <1>1, <1>2, <4>1
      <4> QED BY Zenon, <3>1, <4>2
    <3>2. CASE h + size[h] \in heads /\ h + size[h] < Epilogue(i)
      <4>1. h + size[h] \notin Bad BY <2>4, <2>6
      <4>2. First(i) <= h + size[h] BY SMTT(30), <1>1, <2>5, <2>6
      <4> QED BY <3>2, <4>1, <4>2
    <3> QED BY <2>6, <3>1, <3>2
  <2>8. W[h]
    <3>1. ~(h >= Epilogue(i)) BY <1>1, <2>5, <2>6
    <3>2. W[h] = (CheckChunk(i, h) /\ W[h + size[h]]) BY <1>2, <2>6, <3>1
    <3> QED BY Zenon, <2>6, <2>7, <3>2
  <2> QED BY Zenon, <2>5, <2>8
<1>5. First(i) \in heads BY Zenon DEF IInv, Tiling
<1>6. First(i) <= First(i) BY SMTT(30), <1>3, <1>5
<1> QED BY <1>1, <1>4, <1>5, <1>6 DEF W

LEMMA ValidatorPasses ==
  ASSUME IInv, pc = "idle"
  PROVE  check_invariants
<1> SUFFICES ASSUME NEW i \in Segments
             PROVE  /\ size[Base(i)] = PROLOGUE_SIZE /\ inuse[Base(i)] /\ previnuse[Base(i)]
                    /\ Walker(i)[First(i)]
                    /\ size[Epilogue(i)] = EPILOGUE_SIZE /\ inuse[Epilogue(i)]
  BY Zenon DEF check_invariants, Walker, Walks
<1>1. Walker(i)[First(i)] BY Zenon, WalkPasses
<1> QED BY <1>1 DEF IInv, BoundaryTags

\* Without a block in use no chunk has a chunk behind it.
LEMMA CoalescedAtRest ==
  ASSUME IInv, pc = "idle"
  PROVE  Coalesced
<1> SUFFICES ASSUME DOMAIN live = {}, NEW i \in Segments
             PROVE  size[First(i)] = Epilogue(i) - First(i)
  BY Zenon DEF Coalesced
<1>1. \A h \in heads : ~inuse[h] BY Zenon DEF IInv, LiveBlocks, Freeing
<1>2. /\ First(i) \in heads /\ First(i) \in Int /\ Epilogue(i) \in Int
      /\ First(i) < Epilogue(i) /\ First(i) <= First(i)
  <2>1. First(i) \in heads BY Zenon DEF IInv, Tiling
  <2> QED BY <2>1, SegmentBounds
<1>3. First(i) + size[First(i)] = Epilogue(i) /\ size[First(i)] \in Nat
  <2>1. /\ size[First(i)] \in Nat
        /\ First(i) + size[First(i)] = Epilogue(i) \/ First(i) + size[First(i)] \in heads
    BY <1>2, ChunkPasses
  <2>2. inuse[First(i) + size[First(i)]] BY <1>1, <1>2 DEF IInv, BoundaryTags, Freeing
  <2> QED BY <1>1, <2>1, <2>2
<1> QED BY <1>2, <1>3

\* Whenever no call is in progress the heap passes its own validator, its
\* counters are exact and freed memory has coalesced, whatever calls were made
\* and whatever the clients wrote, for every set of regions.
THEOREM SoundAtRestHolds == Spec => []SoundAtRest
<1>1. IInv /\ CountInv => SoundAtRest
  <2> SUFFICES ASSUME IInv, CountInv, pc = "idle"
               PROVE  check_invariants /\ Counted /\ Coalesced
    BY Zenon DEF SoundAtRest
  <2>1. FreeHeads = {h \in heads : ~inuse[h]} BY Zenon DEF FreeHeads, Freeing
  <2>2. free_bytes = Total(size, FreeHeads) /\ alloc_count = Cardinality(DOMAIN live)
    BY FreeFacts DEF CountInv
  <2>3. Counted BY Zenon, <2>1, <2>2, TotalIsSum DEF Counted
  <2> QED BY <2>3, ValidatorPasses, CoalescedAtRest
<1> QED BY <1>1, CountInvariance, PTL

=============================================================================
