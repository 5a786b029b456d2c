---------------------------- MODULE FatTreeProofs ----------------------------
(***************************************************************************)
(* Proofs about FatDir, for volumes and directories of any size and for    *)
(* any paths: the tree.  Clients keep to files and empty directories       *)
(* (WellFormed).                                                           *)
(*                                                                         *)
(* A call changes the disk in one of five ways (Fill, Leak, Drop, Move,    *)
(* Relabel), and each of them keeps the invariant TreeInv.                 *)
(***************************************************************************)
EXTENDS FatDir, FiniteSetTheorems, TLAPS

-----------------------------------------------------------------------------
(* The tree, entry by entry.                                               *)

Entries ==
  [state : {"free", "live", "deleted"}, base : Seq(Letters), ext : Seq(Letters),
   attr : {"file", "dir", "volume"}, start : Nat]

Typed ==
  /\ used \subseteq Clusters /\ ROOT \in used
  /\ content \in [Clusters -> [SlotNrs -> Entries]]

\* Slot s of cluster c is a file or a directory.
Kid(c, s) == c \in Clusters /\ s \in SlotNrs /\ Child(content[c][s])

\* A kid of any cluster has c for its directory.
IsDir(c) ==
  c = ROOT \/ \E d, s : Kid(d, s) /\ content[d][s].attr = "dir" /\ content[d][s].start = c

\* Only directories have entries; what they lead to is in use and theirs alone.
Owned ==
  \A c, s : Kid(c, s) => IsDir(c) /\ content[c][s].start \in used \ {ROOT}
Own ==
  \A c, s, d, t : Kid(c, s) /\ Kid(d, t) /\ content[c][s].start = content[d][t].start =>
                    c = d /\ s = t

\* A directory begins with "." and "..".
Link(n, c) == [Blank EXCEPT !.state = "live", !.base = n, !.attr = "dir", !.start = c]
Linked ==
  \A c, s : Kid(c, s) /\ content[c][s].attr = "dir" =>
    /\ content[content[c][s].start][1] = Link(Dot, content[c][s].start)
    /\ content[content[c][s].start][2] = Link(DotDot, c)

\* Nothing else is called so.
DotsFirst ==
  \A c \in Clusters, s \in SlotNrs :
    /\ content[c][s].state = "live" /\ content[c][s].attr # "volume"
    /\ content[c][s].base \in {Dot, DotDot}
    => c # ROOT /\ s \in {1, 2}

\* No entry stands behind a slot that was never used.
Packed ==
  \A c \in Clusters, s, t \in SlotNrs :
    s < t /\ content[c][s].state = "free" => content[c][t].state = "free"

TreeInv == Typed /\ Owned /\ Own /\ Linked /\ DotsFirst /\ Packed

-----------------------------------------------------------------------------
(* What the searches of the driver find.                                   *)

\* A nonempty set of naturals has a least element.
LEMMA LeastNat ==
  ASSUME NEW T, T \subseteq Nat, T # {}
  PROVE  \E x \in T : \A y \in T : x <= y
<1> DEFINE R == OpToRel(<, Nat)
<1>1. IsWellFoundedOn(R, Nat) BY Zenon, NatLessThanWellFounded
<1> HIDE DEF R
<1>2. PICK x \in T : \A y \in T : ~ (<<y, x>> \in R) BY Zenon, <1>1, WFMin
<1>3. ASSUME NEW y \in T, y < x PROVE <<y, x>> \in R
  BY Zenon, <1>3 DEF R, OpToRel
<1>4. ASSUME NEW y \in T PROVE x <= y
  <2>1. ~(y < x) BY Zenon, <1>2, <1>3
  <2>2. x \in Nat /\ y \in Nat BY Zenon
  <2> QED BY <2>1, <2>2
<1> QED BY Zenon, <1>4

LEMMA Numbers ==
  /\ ROOT \in Clusters /\ 0 \notin SlotNrs /\ 0 \notin Clusters
  /\ Clusters \subseteq Nat /\ SlotNrs \subseteq Nat /\ {1, 2} \subseteq SlotNrs
  /\ \A s \in SlotNrs : \A t \in 1 .. s : t \in SlotNrs
BY FatDirAssumption DEF ROOT, Clusters, SlotNrs

\* find_entry_in_dir returns 0 or the first match in front of an unused slot.
LEMMA FindFinds ==
  ASSUME NEW d, NEW target
  PROVE  /\ Find(d, target) = 0 <=> Hits(d, target) = {}
         /\ Find(d, target) # 0 =>
              /\ Find(d, target) \in SlotNrs
              /\ Matches(content[d][Find(d, target)], target)
              /\ \A t \in Hits(d, target) : Find(d, target) <= t
<1>1. Hits(d, target) \subseteq SlotNrs BY Zenon DEF Hits
<1>2. CASE Hits(d, target) = {} BY Zenon, <1>2 DEF Find
<1>3. CASE Hits(d, target) # {}
  <2>1. \E s \in Hits(d, target) : \A t \in Hits(d, target) : s <= t
    BY Zenon, <1>1, <1>3, Numbers, LeastNat
  <2>2. /\ Find(d, target) \in Hits(d, target)
        /\ \A t \in Hits(d, target) : Find(d, target) <= t
    BY Zenon, <1>3, <2>1 DEF Find
  <2>3. Find(d, target) # 0 BY Zenon, <1>1, <2>2, Numbers
  <2> QED BY Zenon, <1>3, <2>2, <2>3 DEF Hits
<1> QED BY Zenon, <1>2, <1>3

LEMMA FirstFreeIs ==
  ASSUME FreeClusters # {}
  PROVE  FirstFree \in Clusters /\ FirstFree \notin used
<1>1. FreeClusters \subseteq Nat BY Zenon, Numbers DEF FreeClusters
<1>2. \E c \in FreeClusters : \A d \in FreeClusters : c <= d BY Zenon, <1>1, LeastNat
<1>3. FirstFree \in FreeClusters BY Zenon, <1>2 DEF FirstFree
<1> QED BY Zenon, <1>3 DEF FreeClusters

LEMMA FirstSlotIs ==
  ASSUME NEW d, Usable(d) # {}
  PROVE  /\ FirstSlot(d) \in SlotNrs /\ content[d][FirstSlot(d)].state # "live"
         /\ \A t \in SlotNrs : t < FirstSlot(d) => content[d][t].state = "live"
<1>1. Usable(d) \subseteq Nat BY Zenon, Numbers DEF Usable
<1>2. \E s \in Usable(d) : \A t \in Usable(d) : s <= t BY Zenon, <1>1, LeastNat
<1>3. FirstSlot(d) \in Usable(d) /\ \A t \in Usable(d) : FirstSlot(d) <= t
  BY Zenon, <1>2 DEF FirstSlot
<1>4. FirstSlot(d) \in SlotNrs /\ content[d][FirstSlot(d)].state # "live"
  BY Zenon, <1>3 DEF Usable
<1>5. ASSUME NEW t \in SlotNrs, t < FirstSlot(d) PROVE content[d][t].state = "live"
  <2>1. t \in Nat /\ FirstSlot(d) \in Nat BY Zenon, <1>4, Numbers
  <2>2. ~(FirstSlot(d) <= t) BY <1>5, <2>1
  <2> QED BY Zenon, <1>3, <2>2 DEF Usable
<1> QED BY Zenon, <1>4, <1>5

-----------------------------------------------------------------------------
(* Paths: Walk is a recursive function.                                    *)

LEMMA FromZero ==
  ASSUME NEW n \in Nat
  PROVE  /\ 0 \in 0 .. n /\ n \in 0 .. n /\ \A i \in 0 .. n : i \in Nat
         /\ \A i \in 1 .. n : i \in 0 .. n /\ i # 0 /\ i \in Nat /\ i - 1 \in 0 .. n
         /\ \A i \in 0 .. n : i # 0 => i \in 1 .. n
OBVIOUS

\* F gives, for each i, a function on Q; g begins with q and follows F.
StepsIn(n, Q, F)     == \A i \in 1 .. n : \A x \in Q : F[i][x] \in Q
Follows(g, n, q, F) == g[0] = q /\ \A i \in 1 .. n : g[i] = F[i][g[i - 1]]

\* A function on 0..n is determined by its first value and by how each value
\* follows from the one before: the least n without one would be one more than
\* an n that has one.
LEMMA Iterates ==
  ASSUME NEW n \in Nat, NEW Q, NEW q \in Q, NEW F, StepsIn(n, Q, F)
  PROVE  \E g \in [0 .. n -> Q] : Follows(g, n, q, F)
<1> DEFINE Iter(g, k) == g[0] = q /\ \A i \in 1 .. k : g[i] = F[i][g[i - 1]]
           Bad == {k \in 0 .. n : ~ \E g \in [0 .. k -> Q] : Iter(g, k)}
<1>1. Bad = {}
  <2> SUFFICES ASSUME Bad # {} PROVE FALSE
    BY Zenon
  <2>1. PICK k \in Bad : \A y \in Bad : k <= y
    <3>1. Bad \subseteq Nat BY Zenon, FromZero
    <3> HIDE DEF Bad
    <3> QED BY Zenon, <3>1, LeastNat
  <2>2. k \in 0 .. n /\ ~ \E g \in [0 .. k -> Q] : Iter(g, k) BY Zenon, <2>1
  <2>3. k # 0
    <3> DEFINE g == [i \in 0 .. 0 |-> q]
    <3>1. 0 \in 0 .. 0 /\ 1 .. 0 = {} OBVIOUS
    <3>2. g \in [0 .. 0 -> Q] /\ Iter(g, 0) BY Zenon, <3>1
    <3> QED BY Zenon, <2>2, <3>2
  <2>4. k - 1 \in 0 .. n /\ ~(k <= k - 1) BY <2>2, <2>3
  <2>5. k - 1 \notin Bad BY Zenon, <2>1, <2>4
  <2>6. PICK g \in [0 .. k - 1 -> Q] : Iter(g, k - 1) BY Zenon, <2>4, <2>5
  <2> DEFINE h == [i \in 0 .. k |-> IF i = k THEN F[k][g[k - 1]] ELSE g[i]]
  <2>7. /\ k - 1 \in 0 .. k - 1 /\ k \in 1 .. n /\ 0 \in 0 .. k /\ k \in 0 .. k
        /\ \A i \in 0 .. k : i # k => i \in 0 .. k - 1
        /\ \A i \in 1 .. k : i \in 0 .. k /\ i - 1 \in 0 .. k /\ i - 1 # k
        /\ \A i \in 1 .. k : i # k => i \in 1 .. k - 1
    BY <2>2, <2>3
  <2>8. g[k - 1] \in Q /\ F[k][g[k - 1]] \in Q BY Zenon, <2>7 DEF StepsIn
  <2>9. h \in [0 .. k -> Q] BY Zenon, <2>7, <2>8
  <2>10. h[0] = q BY Zenon, <2>3, <2>6, <2>7
  <2>11. ASSUME NEW i \in 1 .. k PROVE h[i] = F[i][h[i - 1]]
    <3>1. h[i - 1] = g[i - 1] BY Zenon, <2>7
    <3>2. CASE i = k BY Zenon, <2>7, <3>1, <3>2
    <3>3. CASE i # k
      <4>1. h[i] = g[i] BY Zenon, <2>7, <3>3
      <4>2. g[i] = F[i][g[i - 1]] BY Zenon, <2>6, <2>7, <3>3
      <4> QED BY Zenon, <3>1, <4>1, <4>2
    <3> QED BY Zenon, <3>2, <3>3
  <2> HIDE DEF h
  <2> QED BY Zenon, <2>2, <2>9, <2>10, <2>11
<1>2. n \in 0 .. n BY Zenon, FromZero
<1> QED BY Zenon, <1>1, <1>2 DEF Follows

\* One component of a path, from cluster c.
Onto(c, name) ==
  IF c \notin Clusters THEN 0
  ELSE LET s == Find(c, name) IN IF s = 0 THEN 0 ELSE content[c][s].start

Walking(g, comps) ==
  g = [i \in 0 .. Len(comps) |-> IF i = 0 THEN ROOT ELSE Onto(g[i - 1], comps[i])]
Walker(comps) == CHOOSE g : Walking(g, comps)

LEMMA WalkIsWalker ==
  ASSUME NEW comps, NEW n
  PROVE  Walk(comps, n) = Walker(comps)[n]
BY Zenon DEF Walk, Walker, Walking, Onto

LEMMA OntoNat ==
  ASSUME Typed, NEW c, NEW name
  PROVE  Onto(c, name) \in Nat
<1>0. 0 \in Nat OBVIOUS
<1>1. CASE c \in Clusters /\ Find(c, name) # 0
  <2>1. Find(c, name) \in SlotNrs BY Zenon, <1>1, FindFinds
  <2>2. content[c][Find(c, name)] \in Entries BY Zenon, <1>1, <2>1 DEF Typed
  <2>3. content[c][Find(c, name)].start \in Nat BY Zenon, <2>2 DEF Entries
  <2> QED BY Zenon, <1>1, <2>3 DEF Onto
<1>2. CASE ~(c \in Clusters /\ Find(c, name) # 0) BY Zenon, <1>0, <1>2 DEF Onto
<1> QED BY Zenon, <1>1, <1>2

\* The recursive equation of Walk.
LEMMA WalkSteps ==
  ASSUME Typed, NEW comps, Len(comps) \in Nat
  PROVE  /\ Walk(comps, 0) = ROOT
         /\ \A i \in 1 .. Len(comps) : Walk(comps, i) = Onto(Walk(comps, i - 1), comps[i])
<1> DEFINE n == Len(comps)
           F == [i \in 1 .. n |-> [c \in Nat |-> Onto(c, comps[i])]]
<1>1. \A i \in 1 .. n : \A c \in Nat : F[i][c] = Onto(c, comps[i]) /\ F[i][c] \in Nat
  BY Zenon, OntoNat
<1>2. ROOT \in Nat /\ n \in Nat BY Zenon, Numbers
<1>3. StepsIn(n, Nat, F) BY Zenon, <1>1 DEF StepsIn
<1> HIDE DEF F, n
<1>4. PICK g \in [0 .. n -> Nat] : Follows(g, n, ROOT, F) BY Zenon, <1>3, <1>2, Iterates
<1>5. ASSUME NEW i \in 0 .. n PROVE g[i] = IF i = 0 THEN ROOT ELSE Onto(g[i - 1], comps[i])
  <2>1. CASE i = 0 BY Zenon, <1>4, <2>1 DEF Follows
  <2>2. CASE i # 0
    <3>1. i \in 1 .. n /\ i - 1 \in 0 .. n BY Zenon, <1>2, <2>2, FromZero
    <3>2. g[i - 1] \in Nat BY Zenon, <3>1
    <3> QED BY Zenon, <1>1, <1>4, <2>2, <3>1, <3>2 DEF Follows
  <2> QED BY Zenon, <2>1, <2>2
<1>6. g = [i \in 0 .. n |-> g[i]] BY Zenon
<1>7. Walking(g, comps) BY Zenon, <1>5, <1>6 DEF Walking, n
<1>8. Walking(Walker(comps), comps) BY Zenon, <1>7 DEF Walker
<1>9. \A i \in 0 .. n : Walker(comps)[i]
                          = IF i = 0 THEN ROOT ELSE Onto(Walker(comps)[i - 1], comps[i])
  BY Zenon, <1>8 DEF Walking, n
<1>10. 0 \in 0 .. n /\ \A i \in 1 .. n : i \in 0 .. n /\ i # 0 BY Zenon, <1>2, FromZero
<1> QED BY Zenon, <1>9, <1>10, WalkIsWalker DEF n

LEMMA DirUsed ==
  ASSUME TreeInv, NEW c, IsDir(c)
  PROVE  c \in used /\ c \in Clusters
<1>1. c \in used
  <2>1. CASE c = ROOT BY Zenon, <2>1 DEF TreeInv, Typed
  <2>2. CASE c # ROOT
    <3>1. PICK d, s : Kid(d, s) /\ content[d][s].start = c BY Zenon, <2>2 DEF IsDir
    <3> QED BY Zenon, <3>1 DEF TreeInv, Owned
  <2> QED BY Zenon, <2>1, <2>2
<1> QED BY Zenon, <1>1 DEF TreeInv, Typed

\* A component that is a directory leads from a directory to a directory, also
\* when it is "." or "..".
LEMMA OntoDir ==
  ASSUME TreeInv, NEW c, IsDir(c), NEW name, Find(c, name) # 0,
         content[c][Find(c, name)].attr = "dir"
  PROVE  IsDir(Onto(c, name))
<1> DEFINE s == Find(c, name)
           e == content[c][s]
<1>1. c \in Clusters BY Zenon, DirUsed
<1>2. s \in SlotNrs /\ Matches(e, name) BY Zenon, FindFinds
<1>3. e.state = "live" /\ e.attr # "volume" BY Zenon, <1>2 DEF Matches, Named
<1>4. Onto(c, name) = e.start BY Zenon, <1>1 DEF Onto
<1>5. e.attr = "dir" OBVIOUS
<1> HIDE DEF s
<1>6. CASE e.base \notin {Dot, DotDot}
  BY Zenon, <1>1, <1>2, <1>3, <1>4, <1>5, <1>6 DEF IsDir, Kid, Child
<1>7. CASE e.base \in {Dot, DotDot}
  <2>1. c # ROOT /\ s \in {1, 2} BY Zenon, <1>1, <1>2, <1>3, <1>7 DEF TreeInv, DotsFirst
  <2>2. PICK d, t : Kid(d, t) /\ content[d][t].attr = "dir" /\ content[d][t].start = c
    BY Zenon, <2>1 DEF IsDir
  <2>3. content[c][1] = Link(Dot, c) /\ content[c][2] = Link(DotDot, d)
    BY Zenon, <2>2 DEF TreeInv, Linked
  <2>4. Link(Dot, c).start = c /\ Link(DotDot, d).start = d BY Zenon DEF Link, Blank
  <2>5. IsDir(d) BY Zenon, <2>2 DEF TreeInv, Owned
  <2> QED BY Zenon, <1>4, <2>1, <2>3, <2>4, <2>5
<1> QED BY Zenon, <1>6, <1>7

Depth(p) == Len(p.comps) - (IF p.slash THEN 0 ELSE 1)

LEMMA DepthIs ==
  ASSUME NEW p \in Paths
  PROVE  /\ Len(p.comps) \in Nat /\ Depth(p) \in 0 .. Len(p.comps)
         /\ Parent(p) = Walk(p.comps, Depth(p))
         /\ LastName(p) \in Seq(Letters)
<1>1. p.comps \in Seq(Seq(Letters)) /\ p.comps # <<>> /\ p.slash \in BOOLEAN
  BY Zenon, FatDirAssumption
<1>2. Len(p.comps) \in Nat /\ Len(p.comps) > 0 /\ Len(p.comps) \in 1 .. Len(p.comps)
  BY <1>1
<1>3. CASE p.slash
  <2>1. Depth(p) = Len(p.comps) BY <1>2, <1>3 DEF Depth
  <2>2. LastName(p) = <<>> BY <1>3 DEF LastName
  <2>3. <<>> \in Seq(Letters) OBVIOUS
  <2>4. Parent(p) = Walk(p.comps, Len(p.comps)) BY Zenon, <1>3 DEF Parent
  <2> QED BY <1>2, <2>1, <2>2, <2>3, <2>4
<1>4. CASE ~p.slash
  <2>1. Depth(p) = Len(p.comps) - 1 BY <1>2, <1>4 DEF Depth
  <2>2. LastName(p) = p.comps[Len(p.comps)] BY <1>4 DEF LastName
  <2>3. p.comps[Len(p.comps)] \in Seq(Letters) BY <1>1, <1>2
  <2>4. Parent(p) = Walk(p.comps, Len(p.comps) - 1) BY Zenon, <1>4 DEF Parent
  <2> QED BY <1>2, <2>1, <2>2, <2>3, <2>4
<1> QED BY Zenon, <1>3, <1>4

\* A path whose directories are directories leads to one.
LEMMA ParentIsDir ==
  ASSUME TreeInv, NEW p \in Paths, Traverses(p), Resolves(p)
  PROVE  IsDir(Parent(p)) /\ Parent(p) \in used /\ Parent(p) \in Clusters
<1> DEFINE m == Depth(p)
           At0(i) == Walk(p.comps, i)
           Bad == {i \in 0 .. m : At0(i) # 0 /\ ~IsDir(At0(i))}
<1>1. /\ Len(p.comps) \in Nat /\ m \in 0 .. Len(p.comps) /\ Parent(p) = At0(m)
  BY Zenon, DepthIs
<1>2. /\ At0(0) = ROOT
      /\ \A i \in 1 .. Len(p.comps) : At0(i) = Onto(At0(i - 1), p.comps[i])
  BY Zenon, <1>1, WalkSteps DEF TreeInv
<1>3. \A i \in 1 .. m : At0(i - 1) # 0 /\ Find(At0(i - 1), p.comps[i]) # 0 =>
                          content[At0(i - 1)][Find(At0(i - 1), p.comps[i])].attr = "dir"
  BY Zenon DEF Traverses, Depth
<1>4. IsDir(ROOT) BY Zenon DEF IsDir
<1>5. /\ m \in Nat /\ m \in 0 .. m /\ \A i \in 0 .. m : i \in Nat
      /\ \A i \in 0 .. m : i # 0 =>
           i \in 1 .. m /\ i \in 1 .. Len(p.comps) /\ i - 1 \in 0 .. m /\ ~(i <= i - 1)
  BY <1>1
<1> HIDE DEF m, At0
<1>6. Bad = {}
  <2> SUFFICES ASSUME Bad # {} PROVE FALSE
    BY Zenon
  <2>1. PICK i \in Bad : \A j \in Bad : i <= j
    <3>1. Bad \subseteq Nat BY Zenon, <1>5
    <3> HIDE DEF Bad
    <3> QED BY Zenon, <3>1, LeastNat
  <2>2. i \in 0 .. m /\ At0(i) # 0 /\ ~IsDir(At0(i)) BY Zenon, <2>1
  <2>3. i # 0 BY Zenon, <1>2, <1>4, <2>2
  <2>4. /\ i \in 1 .. m /\ i \in 1 .. Len(p.comps) /\ i - 1 \in 0 .. m /\ i - 1 \notin Bad
    BY Zenon, <1>5, <2>1, <2>2, <2>3
  <2>5. At0(i) = Onto(At0(i - 1), p.comps[i]) BY Zenon, <1>2, <2>4
  <2>6. /\ At0(i - 1) \in Clusters /\ Find(At0(i - 1), p.comps[i]) # 0
    BY Zenon, <2>2, <2>5 DEF Onto
  <2>7. At0(i - 1) # 0 BY Zenon, <2>6, Numbers
  <2>8. IsDir(At0(i - 1)) BY Zenon, <2>4, <2>7
  <2>9. content[At0(i - 1)][Find(At0(i - 1), p.comps[i])].attr = "dir"
    BY Zenon, <1>3, <2>4, <2>6, <2>7
  <2>10. IsDir(Onto(At0(i - 1), p.comps[i])) BY Zenon, <2>6, <2>8, <2>9, OntoDir
  <2> QED BY Zenon, <2>2, <2>5, <2>10
<1>7. IsDir(Parent(p)) BY Zenon, <1>1, <1>5, <1>6 DEF Resolves
<1> QED BY Zenon, <1>7, DirUsed

-----------------------------------------------------------------------------
(* Names and entries.                                                      *)

LEMMA DotNames == Dot \in Seq(Letters) /\ DotDot \in Seq(Letters) /\ Dot # DotDot
<1>1. "." \in Letters BY FatDirAssumption
<1>2. Dot \in Seq(Letters) BY <1>1 DEF Dot
<1>3. DotDot \in Seq(Letters) BY <1>1 DEF DotDot
<1>4. Len(Dot) = 1 /\ Len(DotDot) = 2 BY DEF Dot, DotDot
<1>5. Dot # DotDot BY <1>4
<1> QED BY Zenon, <1>2, <1>3, <1>5

LEMMA TakeIs ==
  ASSUME NEW s \in Seq(Letters), NEW n \in Nat
  PROVE  /\ Take(s, n) \in Seq(Letters) /\ Len(Take(s, n)) <= n /\ Len(Take(s, n)) <= Len(s)
         /\ \A i \in 1 .. Len(Take(s, n)) : Take(s, n)[i] = s[i]
         /\ Len(s) <= n => Take(s, n) = s
BY DEF Take

LEMMA FirstDotIs ==
  ASSUME NEW s \in Seq(Letters), HasExt(s)
  PROVE  /\ FirstDot(s) \in 1 .. Len(s)
         /\ \A i \in 1 .. Len(s) : i < FirstDot(s) => s[i] # "."
<1>1. Dots(s) \subseteq Nat /\ Dots(s) # {} BY DEF Dots, HasExt
<1>2. \E i \in Dots(s) : \A j \in Dots(s) : i <= j BY Zenon, <1>1, LeastNat
<1>3. FirstDot(s) \in Dots(s) /\ \A j \in Dots(s) : FirstDot(s) <= j BY Zenon, <1>2 DEF FirstDot
<1>4. FirstDot(s) \in 1 .. Len(s) BY Zenon, <1>3 DEF Dots
<1>5. ASSUME NEW i \in 1 .. Len(s), i < FirstDot(s) PROVE s[i] # "."
  <2>1. ~(FirstDot(s) <= i) BY <1>4, <1>5
  <2> QED BY Zenon, <1>3, <2>1 DEF Dots
<1> QED BY Zenon, <1>4, <1>5

\* What is in front of a name's first dot has no dot.
LEMMA BaseHasNoDot ==
  ASSUME NEW s \in Seq(Letters)
  PROVE  /\ BaseOf(s) \in Seq(Letters) /\ BaseOf(s) \notin {Dot, DotDot}
         /\ ExtOf(s) \in Seq(Letters)
         /\ Len(BaseOf(s)) <= BaseLen /\ Len(ExtOf(s)) <= ExtLen
<1> DEFINE t == IF HasExt(s) THEN SubSeq(s, 1, FirstDot(s) - 1) ELSE s
<1>0. BaseLen \in Nat /\ ExtLen \in Nat BY FatDirAssumption
<1>1. t \in Seq(Letters) /\ \A i \in 1 .. Len(t) : t[i] # "."
  <2>1. CASE HasExt(s) BY <2>1, FirstDotIs
  <2>2. CASE ~HasExt(s) BY <2>2 DEF HasExt, Dots
  <2> QED BY Zenon, <2>1, <2>2
<1>2. BaseOf(s) = Take(t, BaseLen) BY Zenon DEF BaseOf
<1> HIDE DEF t
<1>3. /\ BaseOf(s) \in Seq(Letters) /\ Len(BaseOf(s)) <= BaseLen /\ Len(BaseOf(s)) <= Len(t)
      /\ \A i \in 1 .. Len(BaseOf(s)) : BaseOf(s)[i] = t[i]
  BY <1>0, <1>1, <1>2, TakeIs
<1>4. \A i \in 1 .. Len(BaseOf(s)) : BaseOf(s)[i] # "." BY <1>1, <1>3
<1>5. BaseOf(s) \notin {Dot, DotDot} BY SMTT(20), <1>3, <1>4 DEF Dot, DotDot
<1>6. ExtOf(s) \in Seq(Letters) /\ Len(ExtOf(s)) <= ExtLen
  <2>1. CASE HasExt(s)
    <3>1. SubSeq(s, FirstDot(s) + 1, Len(s)) \in Seq(Letters) BY <2>1, FirstDotIs
    <3> QED BY Zenon, <1>0, <2>1, <3>1, TakeIs DEF ExtOf
  <2>2. CASE ~HasExt(s)
    <3>1. ExtOf(s) = <<>> BY Zenon, <2>2 DEF ExtOf
    <3> QED BY <1>0, <3>1
  <2> QED BY Zenon, <2>1, <2>2
<1> QED BY Zenon, <1>3, <1>5, <1>6

LEMMA EntryTypes ==
  /\ Blank \in Entries /\ \A e \in Entries : e.ext \in Seq(Letters) /\ e.start \in Nat
  /\ \A c \in Clusters : Link(Dot, c) \in Entries /\ Link(DotDot, c) \in Entries
<1>1. Blank \in Entries BY DEF Blank, Entries
<1>2. \A e \in Entries : e.ext \in Seq(Letters) /\ e.start \in Nat BY DEF Entries
<1>3. ASSUME NEW c \in Clusters PROVE Link(Dot, c) \in Entries /\ Link(DotDot, c) \in Entries
  <2>1. Dot \in Seq(Letters) /\ DotDot \in Seq(Letters) /\ <<>> \in Seq(Letters) /\ c \in Nat
    BY DotNames, Numbers
  <2> QED BY Zenon, <2>1 DEF Link, Blank, Entries
<1> QED BY Zenon, <1>1, <1>2, <1>3

\* A new directory has its two links and nothing else.
LEMMA NewDirIs ==
  ASSUME NEW k \in Clusters, NEW d \in Clusters
  PROVE  /\ NewDir(k, d) \in [SlotNrs -> Entries]
         /\ NewDir(k, d)[1] = Link(Dot, k) /\ NewDir(k, d)[2] = Link(DotDot, d)
         /\ \A s \in SlotNrs : s \notin {1, 2} => NewDir(k, d)[s] = Blank
<1> DEFINE a == Link(Dot, k)
           b == Link(DotDot, d)
<1>1. NewDir(k, d) = [Empty EXCEPT ![1] = a, ![2] = b] BY Zenon DEF NewDir, Link
<1>2. a \in Entries /\ b \in Entries /\ Blank \in Entries BY Zenon, EntryTypes
<1>3. Empty = [s \in SlotNrs |-> Blank] /\ 1 \in SlotNrs /\ 2 \in SlotNrs
  BY Zenon, Numbers DEF Empty
<1> HIDE DEF a, b
<1>4. /\ [Empty EXCEPT ![1] = a, ![2] = b] \in [SlotNrs -> Entries]
      /\ [Empty EXCEPT ![1] = a, ![2] = b][1] = a
      /\ [Empty EXCEPT ![1] = a, ![2] = b][2] = b
      /\ \A s \in SlotNrs : s \notin {1, 2} => [Empty EXCEPT ![1] = a, ![2] = b][s] = Blank
  BY <1>2, <1>3
<1> QED BY Zenon, <1>1, <1>4 DEF a, b

\* new is the old content with e in slot s of d.
Written(new, d, s, e) ==
  /\ new \in [Clusters -> [SlotNrs -> Entries]] /\ new[d][s] = e
  /\ \A c \in Clusters, t \in SlotNrs : ~(c = d /\ t = s) => new[c][t] = content[c][t]

\* Writing one entry.
LEMMA PutIs ==
  ASSUME Typed, NEW d \in Clusters, NEW s \in SlotNrs, NEW e \in Entries
  PROVE  Written(Put(d, s, e), d, s, e)
<1>1. content \in [Clusters -> [SlotNrs -> Entries]] BY Zenon DEF Typed
<1> DEFINE row == [content[d] EXCEPT ![s] = e]
<1>2. Put(d, s, e) = [content EXCEPT ![d] = row] BY Zenon DEF Put
<1>3. /\ row \in [SlotNrs -> Entries] /\ row[s] = e
      /\ \A t \in SlotNrs : t # s => row[t] = content[d][t]
  BY Zenon, <1>1
<1> HIDE DEF row
<1>4. /\ [content EXCEPT ![d] = row] \in [Clusters -> [SlotNrs -> Entries]]
      /\ [content EXCEPT ![d] = row][d] = row
      /\ \A c \in Clusters : c # d => [content EXCEPT ![d] = row][c] = content[c]
  BY Zenon, <1>1, <1>3
<1> QED BY Zenon, <1>2, <1>3, <1>4 DEF Written

-----------------------------------------------------------------------------
(* What the calls do to the tree.                                          *)

\* Entries outside of cluster k and of slot s of d stay as they are.
Same(d, s, k) ==
  \A c \in Clusters, t \in SlotNrs :
    c # k /\ ~(c = d /\ t = s) => content'[c][t] = content[c][t]

\* Cluster k is left alone or becomes a directory in d.
Emptied(k, d) ==
  \/ \A t \in SlotNrs : content'[k][t] = content[k][t]
  \/ content'[k] = NewDir(k, d)

\* The slot FirstSlot finds.
Opening(d, s) ==
  /\ s \in SlotNrs /\ content[d][s].state # "live"
  /\ \A t \in SlotNrs : t < s => content[d][t].state = "live"

\* Names keep to 8.3 and are stored as they are.
NameFits(n) == Text([Blank EXCEPT !.base = BaseOf(n), !.ext = ExtOf(n)]) = n
NamesFit    == \A p \in Paths : NameFits(LastName(p))

\* The new name of slot s of d is not empty and no other entry of d has it.
Fresh(d, s) ==
  /\ Text(content'[d][s]) # <<>>
  /\ \A t : Kid(d, t) => Text(content[d][t]) # Text(content'[d][s])

\* A file or a directory is created in slot s of d and gets cluster k.
Fill(d, s, k) ==
  /\ k \in Clusters /\ k \notin used /\ IsDir(d) /\ Opening(d, s) /\ Typed'
  /\ used' = used \cup {k} /\ Same(d, s, k) /\ Emptied(k, d)
  /\ content'[d][s].state = "live" /\ content'[d][s].base \notin {Dot, DotDot}
  /\ content'[d][s].attr \in {"file", "dir"} /\ content'[d][s].start = k
  /\ content'[d][s].attr = "dir" => content'[k] = NewDir(k, d)
  /\ NamesFit => Fresh(d, s)
  /\ it' = it

\* A cluster is taken and nothing refers to it: the directory had no slot.
Leak(d, k) ==
  /\ k \in Clusters /\ k \notin used /\ d \in Clusters /\ Typed'
  /\ used' = used \cup {k} /\ Same(d, 0, k) /\ Emptied(k, d)
  /\ ret'.f = "full" /\ it' = it

\* The entry in slot s of d is deleted and its cluster is freed.
Drop(d, s) ==
  /\ Kid(d, s) /\ Typed'
  /\ content[d][s].attr = "dir" => IsEmptyDir(content[d][s].start)
  /\ used' = used \ {content[d][s].start}
  /\ Same(d, s, 0) /\ content'[d][s].state = "deleted"
  /\ it' = Gone(d, s) /\ it.dir # content[d][s].start

\* The entry in slot s of d moves to slot s2 of d2.
Move(d, s, d2, s2) ==
  /\ Kid(d, s) /\ IsDir(d2) /\ Opening(d2, s2) /\ Typed' /\ used' = used
  /\ \A c \in Clusters, t \in SlotNrs :
       ~(c = d /\ t = s) /\ ~(c = d2 /\ t = s2) => content'[c][t] = content[c][t]
  /\ content'[d][s].state = "deleted"
  /\ content'[d2][s2].state = "live" /\ content'[d2][s2].base \notin {Dot, DotDot}
  /\ content'[d2][s2].attr = content[d][s].attr
  /\ content'[d2][s2].start = content[d][s].start
  /\ content[d][s].attr = "dir" => d = d2
  /\ NamesFit => Fresh(d2, s2)
  /\ it' = Gone(d, s)

\* The label is written to a slot of the root that no file has.
Relabel(s) ==
  /\ s \in SlotNrs /\ ~Kid(ROOT, s) /\ Typed' /\ used' = used /\ Same(ROOT, s, 0)
  /\ content'[ROOT][s].state = "live" /\ content'[ROOT][s].attr = "volume"
  /\ content[ROOT][s].state = "free" =>
       \A t \in SlotNrs : t < s => content[ROOT][t].state # "free"
  /\ it' = it

\* An entry that is called "." or ".." only if it may be.
Dotless(c, t, e) ==
  e.state = "live" /\ e.attr # "volume" /\ e.base \in {Dot, DotDot} => c # ROOT /\ t \in {1, 2}

LEMMA DotsStay ==
  ASSUME DotsFirst,
         \A c \in Clusters, t \in SlotNrs :
           content'[c][t] = content[c][t] \/ Dotless(c, t, content'[c][t])
  PROVE  DotsFirst'
<1> SUFFICES ASSUME NEW c \in Clusters, NEW t \in SlotNrs PROVE Dotless(c, t, content'[c][t])
  BY Zenon DEF DotsFirst, Dotless
<1>1. Dotless(c, t, content[c][t]) BY Zenon DEF DotsFirst, Dotless
<1> QED BY Zenon, <1>1

\* The slots of c in use are in front.
PackedIn(c) ==
  \A s, t \in SlotNrs : s < t /\ content[c][s].state = "free" => content[c][t].state = "free"

LEMMA PackedStays ==
  ASSUME Packed, NEW c \in Clusters,
         \A t \in SlotNrs : content'[c][t].state = "free" => content[c][t].state = "free",
         \A t \in SlotNrs : content[c][t].state = "free" /\ content'[c][t].state # "free" =>
           \A u \in SlotNrs : u < t => content'[c][u].state # "free"
  PROVE  PackedIn(c)'
<1> SUFFICES ASSUME NEW s \in SlotNrs, NEW t \in SlotNrs, s < t, content'[c][s].state = "free"
             PROVE  content'[c][t].state = "free"
  BY Zenon DEF PackedIn
<1>1. content[c][s].state = "free" BY Zenon
<1>2. content[c][t].state = "free" BY Zenon, <1>1 DEF Packed
<1> QED BY Zenon, <1>2

LEMMA PackedPrime ==
  ASSUME \A c \in Clusters : PackedIn(c)'
  PROVE  Packed'
BY Zenon DEF Packed, PackedIn

LEMMA NoKidsUnused ==
  ASSUME TreeInv, NEW k, k \notin used, NEW t
  PROVE  ~Kid(k, t)
BY Zenon, DirUsed DEF TreeInv, Owned

\* The cluster f_mkdir or f_open takes has no entries that count.
LEMMA EmptiedKids ==
  ASSUME TreeInv, NEW k \in Clusters, k \notin used, NEW d \in Clusters, Emptied(k, d)
  PROVE  /\ \A t : ~Kid(k, t)'
         /\ \A t \in SlotNrs : Dotless(k, t, content'[k][t])
         /\ PackedIn(k)'
<1>1. CASE \A t \in SlotNrs : content'[k][t] = content[k][t]
  <2>1. \A t : ~Kid(k, t)' BY Zenon, <1>1, NoKidsUnused DEF Kid
  <2>2. ASSUME NEW t \in SlotNrs PROVE Dotless(k, t, content'[k][t])
    <3>1. content'[k][t] = content[k][t] BY Zenon, <1>1
    <3>2. Dotless(k, t, content[k][t]) BY Zenon DEF TreeInv, DotsFirst, Dotless
    <3> QED BY Zenon, <3>1, <3>2
  <2>3. PackedIn(k)' BY Zenon, <1>1, PackedStays DEF TreeInv
  <2> QED BY Zenon, <2>1, <2>2, <2>3
<1>2. CASE content'[k] = NewDir(k, d)
  <2>1. /\ NewDir(k, d)[1] = Link(Dot, k) /\ NewDir(k, d)[2] = Link(DotDot, d)
        /\ \A s \in SlotNrs : s \notin {1, 2} => NewDir(k, d)[s] = Blank
    BY Zenon, NewDirIs
  <2>2. /\ Blank.state = "free"
        /\ \A c : Link(Dot, c).state = "live" /\ Link(DotDot, c).state = "live"
        /\ \A c : Link(Dot, c).base = Dot /\ Link(DotDot, c).base = DotDot
    BY Zenon DEF Blank, Link
  <2>3. \A t \in SlotNrs : t \notin {1, 2} => content'[k][t].state = "free"
    BY Zenon, <1>2, <2>1, <2>2
  <2>4. \A t \in {1, 2} : content'[k][t].state = "live" /\ content'[k][t].base \in {Dot, DotDot}
    BY Zenon, <1>2, <2>1, <2>2
  <2>5. \A t : ~Kid(k, t)' BY Zenon, <2>3, <2>4 DEF Kid, Child
  <2>6. ASSUME NEW s \in SlotNrs, NEW t \in SlotNrs, s < t, content'[k][s].state = "free"
        PROVE  content'[k][t].state = "free"
    <3>1. s \notin {1, 2} BY Zenon, <2>4, <2>6
    <3>2. t \notin {1, 2} BY <2>6, <3>1 DEF SlotNrs
    <3> QED BY Zenon, <2>3, <3>2
  <2>7. k # ROOT BY Zenon DEF TreeInv, Typed
  <2>8. ASSUME NEW t \in SlotNrs PROVE Dotless(k, t, content'[k][t])
    <3>1. CASE t \in {1, 2} BY Zenon, <2>7, <3>1 DEF Dotless
    <3>2. CASE t \notin {1, 2}
      <4>1. content'[k][t].state # "live" BY <2>3, <3>2
      <4> QED BY Zenon, <4>1 DEF Dotless
    <3> QED BY Zenon, <3>1, <3>2
  <2> QED BY Zenon, <2>5, <2>6, <2>8 DEF PackedIn
<1> QED BY Zenon, <1>1, <1>2 DEF Emptied

\* A directory keeps its links when its first two slots stay as they are.
LinksTo(x, c) == content[x][1] = Link(Dot, x) /\ content[x][2] = Link(DotDot, c)

LEMMA LinksStay ==
  ASSUME TreeInv, NEW c, NEW t, Kid(c, t), content[c][t].attr = "dir",
         NEW x, x = content[c][t].start,
         content'[x][1] = content[x][1], content'[x][2] = content[x][2]
  PROVE  LinksTo(x, c)'
<1>1. LinksTo(content[c][t].start, c) BY Zenon DEF TreeInv, Linked, LinksTo
<1>2. LinksTo(x, c) BY Zenon, <1>1
<1> QED BY Zenon, <1>2 DEF LinksTo

LEMMA LinkedPrime ==
  ASSUME \A c, t : Kid(c, t)' /\ content'[c][t].attr = "dir" => LinksTo(content[c][t].start, c)'
  PROVE  Linked'
<1> SUFFICES ASSUME NEW c, NEW t, Kid(c, t)', content'[c][t].attr = "dir"
             PROVE  /\ content'[content'[c][t].start][1] = Link(Dot, content'[c][t].start)
                    /\ content'[content'[c][t].start][2] = Link(DotDot, c)
  BY Zenon DEF Linked
<1>1. LinksTo(content[c][t].start, c)' BY Zenon
<1> QED BY Zenon, <1>1 DEF LinksTo

\* Directories stay directories while their entries stay.
LEMMA DirsStay ==
  ASSUME \A c, t : Kid(c, t) => Kid(c, t)' /\ content'[c][t] = content[c][t], NEW d, IsDir(d)
  PROVE  IsDir(d)'
<1>1. CASE d = ROOT BY Zenon, <1>1 DEF IsDir
<1>2. CASE d # ROOT
  <2>1. PICK c, t : Kid(c, t) /\ content[c][t].attr = "dir" /\ content[c][t].start = d
    BY Zenon, <1>2 DEF IsDir
  <2>2. Kid(c, t)' /\ content'[c][t].attr = "dir" /\ content'[c][t].start = d BY Zenon, <2>1
  <2> QED BY Zenon, <2>2 DEF IsDir
<1> QED BY Zenon, <1>1, <1>2

LEMMA OwnStays ==
  ASSUME Own, \A c, t : Kid(c, t)' => Kid(c, t) /\ content'[c][t] = content[c][t]
  PROVE  Own'
<1> SUFFICES ASSUME NEW c, NEW t, NEW e, NEW u, Kid(c, t)', Kid(e, u)',
                    content'[c][t].start = content'[e][u].start
             PROVE  c = e /\ t = u
  BY Zenon DEF Own
<1>1. /\ Kid(c, t) /\ content'[c][t] = content[c][t]
      /\ Kid(e, u) /\ content'[e][u] = content[e][u]
  BY Zenon
<1> QED BY Zenon, <1>1 DEF Own

\* All files and directories stay where and as they are.
KidsStay == \A c, t : (Kid(c, t)' <=> Kid(c, t)) /\ (Kid(c, t) => content'[c][t] = content[c][t])

LEMMA LeakKids ==
  ASSUME TreeInv, NEW d, NEW k, Leak(d, k)
  PROVE  KidsStay
<1> SUFFICES ASSUME k \in Clusters, k \notin used, d \in Clusters, Same(d, 0, k), Emptied(k, d)
             PROVE  KidsStay
  BY Zenon DEF Leak
<1>1. \A c, t : Kid(c, t) => c # k BY Zenon, NoKidsUnused
<1>2. \A c \in Clusters, t \in SlotNrs : c # k => content'[c][t] = content[c][t]
  BY Zenon, Numbers DEF Same
<1>3. \A c, t : Kid(c, t)' <=> Kid(c, t)
  BY Zenon, <1>1, <1>2, EmptiedKids DEF Kid
<1>4. \A c, t : Kid(c, t) => content'[c][t] = content[c][t]
  BY Zenon, <1>1, <1>2 DEF Kid
<1> QED BY Zenon, <1>3, <1>4 DEF KidsStay

LEMMA LeakKeeps ==
  ASSUME TreeInv, NEW d, NEW k, Leak(d, k)
  PROVE  TreeInv'
<1> SUFFICES ASSUME Typed', k \in Clusters, k \notin used, d \in Clusters, used' = used \cup {k},
                    Same(d, 0, k), Emptied(k, d), KidsStay
             PROVE  TreeInv'
  BY Zenon, LeakKids DEF Leak
<1>1. \A c \in Clusters, t \in SlotNrs : c # k => content'[c][t] = content[c][t]
  BY Zenon, Numbers DEF Same
<1>2. \A c, t : Kid(c, t)' <=> Kid(c, t) BY Zenon DEF KidsStay
<1>3. \A c, t : Kid(c, t) => content'[c][t] = content[c][t] BY Zenon DEF KidsStay
<1>4. \A c : IsDir(c) => IsDir(c)' BY Zenon, <1>2, <1>3, DirsStay
<1>5. Owned' BY Zenon, <1>2, <1>3, <1>4 DEF TreeInv, Owned
<1>6. Own' BY Zenon, <1>2, <1>3, OwnStays DEF TreeInv
<1>7. Linked'
  <2> SUFFICES ASSUME NEW c, NEW s, Kid(c, s)', content'[c][s].attr = "dir"
               PROVE  LinksTo(content[c][s].start, c)'
    BY Zenon, LinkedPrime
  <2>1. Kid(c, s) /\ content'[c][s] = content[c][s] BY Zenon, <1>2, <1>3
  <2> DEFINE x == content[c][s].start
  <2>2. x \in used BY Zenon, <2>1 DEF TreeInv, Owned
  <2>3. x \in Clusters /\ x # k BY Zenon, <2>2 DEF TreeInv, Typed
  <2>4. content'[x][1] = content[x][1] /\ content'[x][2] = content[x][2]
    BY Zenon, <1>1, <2>3, Numbers
  <2>5. LinksTo(x, c)' BY Zenon, <2>1, <2>4, LinksStay
  <2> QED BY Zenon, <2>1, <2>5
<1>8. DotsFirst' BY Zenon, <1>1, EmptiedKids, DotsStay DEF TreeInv
<1>9. Packed'
  <2>1. ASSUME NEW c \in Clusters, c # k PROVE PackedIn(c)'
    BY Zenon, <1>1, <2>1, PackedStays DEF TreeInv
  <2>2. PackedIn(k)' BY Zenon, EmptiedKids
  <2> QED BY Zenon, <2>1, <2>2, PackedPrime
<1> QED BY Zenon, <1>5, <1>6, <1>7, <1>8, <1>9 DEF TreeInv

\* Slot s of d is new, and the others stay as they are.
KidsGrow(d, s) ==
  /\ \A c, t : Kid(c, t)' <=> Kid(c, t) \/ (c = d /\ t = s)
  /\ \A c, t : Kid(c, t) => content'[c][t] = content[c][t] /\ ~(c = d /\ t = s)

LEMMA FillKids ==
  ASSUME TreeInv, NEW d, NEW s, NEW k, Fill(d, s, k)
  PROVE  KidsGrow(d, s)
<1> SUFFICES ASSUME Typed', k \in Clusters, k \notin used, IsDir(d), s \in SlotNrs,
                    content[d][s].state # "live",
                    \A t \in SlotNrs : t < s => content[d][t].state = "live",
                    used' = used \cup {k}, Same(d, s, k), Emptied(k, d),
                    content'[d][s].state = "live", content'[d][s].base \notin {Dot, DotDot},
                    content'[d][s].attr \in {"file", "dir"}, content'[d][s].start = k,
                    content'[d][s].attr = "dir" => content'[k] = NewDir(k, d)
             PROVE  KidsGrow(d, s)
  BY Zenon DEF Opening, Fill
<1>0. d \in used /\ d \in Clusters /\ d # k BY Zenon, DirUsed
<1>1. \A c, t : Kid(c, t) => c # k /\ ~(c = d /\ t = s)
  BY Zenon, NoKidsUnused DEF Kid, Child
<1>2. \A c \in Clusters, t \in SlotNrs : c # k /\ ~(c = d /\ t = s) =>
        content'[c][t] = content[c][t]
  BY Zenon DEF Same
<1>3. \A c, t : Kid(c, t)' <=> Kid(c, t) \/ (c = d /\ t = s)
  <2>1. Kid(d, s)' BY Zenon, <1>0 DEF Kid, Child
  <2>2. \A t : ~Kid(k, t)' BY Zenon, <1>0, EmptiedKids
  <2>3. \A c, t : c # k /\ ~(c = d /\ t = s) => (Kid(c, t)' <=> Kid(c, t)) BY Zenon, <1>2 DEF Kid
  <2> QED BY Zenon, <1>1, <2>1, <2>2, <2>3
<1>4. \A c, t : Kid(c, t) => content'[c][t] = content[c][t]
  BY Zenon, <1>1, <1>2 DEF Kid
<1> QED BY Zenon, <1>1, <1>3, <1>4 DEF KidsGrow

LEMMA FillKeeps ==
  ASSUME TreeInv, NEW d, NEW s, NEW k, Fill(d, s, k)
  PROVE  TreeInv'
<1>1. KidsGrow(d, s) BY Zenon, FillKids
<1> SUFFICES ASSUME Typed', k \in Clusters, k \notin used, IsDir(d), s \in SlotNrs,
                    content[d][s].state # "live",
                    \A t \in SlotNrs : t < s => content[d][t].state = "live",
                    used' = used \cup {k}, Same(d, s, k), Emptied(k, d),
                    content'[d][s].state = "live", content'[d][s].base \notin {Dot, DotDot},
                    content'[d][s].attr \in {"file", "dir"}, content'[d][s].start = k,
                    content'[d][s].attr = "dir" => content'[k] = NewDir(k, d)
             PROVE  TreeInv'
  BY Zenon DEF Opening, Fill
<1>2. d \in used /\ d \in Clusters /\ d # k BY Zenon, DirUsed
<1>3. \A c \in Clusters, t \in SlotNrs : c # k /\ ~(c = d /\ t = s) =>
        content'[c][t] = content[c][t]
  BY Zenon DEF Same
<1>4. \A c, t : Kid(c, t)' <=> Kid(c, t) \/ (c = d /\ t = s) BY Zenon, <1>1 DEF KidsGrow
<1>5. \A c, t : Kid(c, t) => content'[c][t] = content[c][t] BY Zenon, <1>1 DEF KidsGrow
<1>6. \A c : IsDir(c) => IsDir(c)' BY Zenon, <1>4, <1>5, DirsStay
<1>7. k # ROOT BY Zenon DEF TreeInv, Typed
<1>8. Owned'
  <2>1. ASSUME NEW c, NEW t, Kid(c, t)
        PROVE  IsDir(c)' /\ content'[c][t].start \in used' \ {ROOT}
    <3>1. IsDir(c) /\ content[c][t].start \in used \ {ROOT} BY Zenon, <2>1 DEF TreeInv, Owned
    <3>2. content'[c][t] = content[c][t] BY Zenon, <1>5, <2>1
    <3> QED BY Zenon, <1>6, <3>1, <3>2
  <2>2. IsDir(d)' /\ content'[d][s].start \in used' \ {ROOT} BY Zenon, <1>6, <1>7
  <2> QED BY Zenon, <1>4, <2>1, <2>2 DEF Owned
<1>9. Own'
  <2>1. ASSUME NEW c, NEW t, Kid(c, t) PROVE content'[c][t].start # k
    <3>1. content[c][t].start \in used BY Zenon, <2>1 DEF TreeInv, Owned
    <3>2. content'[c][t] = content[c][t] BY Zenon, <1>5, <2>1
    <3> QED BY Zenon, <3>1, <3>2
  <2>2. ASSUME NEW c, NEW t, NEW e, NEW u, Kid(c, t), Kid(e, u),
               content'[c][t].start = content'[e][u].start
        PROVE  c = e /\ t = u
    <3>1. content'[c][t] = content[c][t] /\ content'[e][u] = content[e][u] BY Zenon, <1>5, <2>2
    <3>2. content[c][t].start = content[e][u].start BY Zenon, <2>2, <3>1
    <3> QED BY Zenon, <2>2, <3>2 DEF TreeInv, Own
  <2> SUFFICES ASSUME NEW c, NEW t, NEW e, NEW u, Kid(c, t)', Kid(e, u)',
                      content'[c][t].start = content'[e][u].start
               PROVE  c = e /\ t = u
    BY Zenon DEF Own
  <2>3. CASE Kid(c, t) /\ Kid(e, u) BY Zenon, <2>2, <2>3
  <2>4. CASE ~(Kid(c, t) /\ Kid(e, u)) BY Zenon, <1>4, <2>1, <2>4
  <2> QED BY Zenon, <2>3, <2>4
<1>10. Linked'
  <2> SUFFICES ASSUME NEW c, NEW t, Kid(c, t)', content'[c][t].attr = "dir"
               PROVE  LinksTo(content[c][t].start, c)'
    BY Zenon, LinkedPrime
  <2>1. CASE Kid(c, t)
    <3>0. content'[c][t] = content[c][t] BY Zenon, <1>5, <2>1
    <3> DEFINE x == content[c][t].start
    <3>1. x \in used BY Zenon, <2>1 DEF TreeInv, Owned
    <3>2. x \in Clusters /\ x # k BY Zenon, <3>1 DEF TreeInv, Typed
    <3>3. content[x][1] = Link(Dot, x) /\ content[x][2] = Link(DotDot, c)
      BY Zenon, <2>1, <3>0 DEF TreeInv, Linked
    <3>4. content[x][1].state = "live" /\ content[x][2].state = "live"
      BY Zenon, <3>3 DEF Link, Blank
    <3> HIDE DEF x
    <3>5. ~(x = d /\ s \in {1, 2}) BY Zenon, <3>4
    <3>6. content'[x][1] = content[x][1] /\ content'[x][2] = content[x][2]
      BY Zenon, <1>3, <3>2, <3>5, Numbers
    <3>7. LinksTo(x, c)' BY Zenon, <2>1, <3>0, <3>6, LinksStay DEF x
    <3> QED BY Zenon, <3>0, <3>7 DEF x
  <2>2. CASE c = d /\ t = s
    <3>1. NewDir(k, d)[1] = Link(Dot, k) /\ NewDir(k, d)[2] = Link(DotDot, d)
      BY Zenon, <1>2, NewDirIs
    <3>2. content'[k] = NewDir(k, d) BY Zenon, <2>2
    <3>3. LinksTo(k, d)' BY Zenon, <3>1, <3>2 DEF LinksTo
    <3> QED BY Zenon, <2>2, <3>3
  <2> QED BY Zenon, <1>4, <2>1, <2>2
<1>11. DotsFirst'
  <2>1. Dotless(d, s, content'[d][s]) BY Zenon DEF Dotless
  <2>2. \A t \in SlotNrs : Dotless(k, t, content'[k][t]) BY Zenon, <1>2, EmptiedKids
  <2> QED BY Zenon, <1>3, <2>1, <2>2, DotsStay DEF TreeInv
<1>12. Packed'
  <2>1. PackedIn(k)' BY Zenon, <1>2, EmptiedKids
  <2>2. ASSUME NEW c \in Clusters, c # d, c # k PROVE PackedIn(c)'
    BY Zenon, <1>3, <2>2, PackedStays DEF TreeInv
  <2>3. PackedIn(d)'
    <3>1. \A t \in SlotNrs : t # s => content'[d][t] = content[d][t] BY Zenon, <1>2, <1>3
    <3>2. \A t \in SlotNrs : content'[d][t].state = "free" => content[d][t].state = "free"
      BY Zenon, <3>1
    <3>3. ASSUME NEW t \in SlotNrs, content[d][t].state = "free", content'[d][t].state # "free",
                 NEW u \in SlotNrs, u < t
          PROVE  content'[d][u].state # "free"
      <4>1. t = s BY Zenon, <3>1, <3>3
      <4>2. u # s BY <3>3, <4>1 DEF SlotNrs
      <4> QED BY Zenon, <3>1, <3>3, <4>1, <4>2
    <3> QED BY Zenon, <1>2, <3>2, <3>3, PackedStays DEF TreeInv
  <2> QED BY Zenon, <2>1, <2>2, <2>3, PackedPrime
<1> QED BY Zenon, <1>8, <1>9, <1>10, <1>11, <1>12 DEF TreeInv

\* A link is live and is no kid.
LEMMA LinksAreLive ==
  ASSUME TreeInv, NEW c, NEW t, Kid(c, t), content[c][t].attr = "dir",
         NEW x, x = content[c][t].start, NEW u \in {1, 2}
  PROVE  x \in Clusters /\ u \in SlotNrs /\ content[x][u].state = "live" /\ ~Kid(x, u)
<1>1. x \in used BY Zenon DEF TreeInv, Owned
<1>2. x \in Clusters BY Zenon, <1>1 DEF TreeInv, Typed
<1>3. content[x][1] = Link(Dot, x) /\ content[x][2] = Link(DotDot, c)
  BY ZenonT(30) DEF TreeInv, Linked
<1>4. /\ \A y : Link(Dot, y).state = "live" /\ Link(DotDot, y).state = "live"
      /\ \A y : Link(Dot, y).base = Dot /\ Link(DotDot, y).base = DotDot
  BY Zenon DEF Blank, Link
<1>5. content[x][u].state = "live" /\ content[x][u].base \in {Dot, DotDot} BY Zenon, <1>3, <1>4
<1> QED BY Zenon, <1>2, <1>5, Numbers DEF Kid, Child

\* Slot s of d is deleted, the others stay; nothing is left in its cluster.
KidsShrink(d, s) ==
  /\ \A c, t : Kid(c, t)' <=> Kid(c, t) /\ ~(c = d /\ t = s)
  /\ \A c, t : Kid(c, t)' => content'[c][t] = content[c][t]
  /\ \A t : ~Kid(content[d][s].start, t)

LEMMA DropKids ==
  ASSUME TreeInv, NEW d, NEW s, Drop(d, s)
  PROVE  KidsShrink(d, s)
<1> SUFFICES ASSUME Typed', NEW x, x = content[d][s].start, Kid(d, s),
                    content[d][s].attr = "dir" => IsEmptyDir(x), used' = used \ {x},
                    Same(d, s, 0), content'[d][s].state = "deleted"
             PROVE  KidsShrink(d, s)
  BY Zenon DEF Drop
<1>0. d \in Clusters /\ s \in SlotNrs /\ content[d][s].state = "live" BY Zenon DEF Kid, Child
<1>1. \A c \in Clusters, t \in SlotNrs : ~(c = d /\ t = s) => content'[c][t] = content[c][t]
  BY Zenon, Numbers DEF Same
<1>2. \A c, t : Kid(c, t)' <=> Kid(c, t) /\ ~(c = d /\ t = s)
  <2>1. ~Kid(d, s)' BY Zenon DEF Kid, Child
  <2>2. \A c, t : ~(c = d /\ t = s) => (Kid(c, t)' <=> Kid(c, t)) BY Zenon, <1>1 DEF Kid
  <2> QED BY Zenon, <2>1, <2>2
<1>3. \A c, t : Kid(c, t)' => Kid(c, t) /\ ~(c = d /\ t = s) /\ content'[c][t] = content[c][t]
  BY Zenon, <1>1, <1>2 DEF Kid
<1>4. x # ROOT BY Zenon DEF TreeInv, Owned
<1>5. \A t : ~Kid(x, t)
  <2> SUFFICES ASSUME NEW t, Kid(x, t) PROVE FALSE OBVIOUS
  <2>1. IsDir(x) BY Zenon DEF TreeInv, Owned
  <2>2. PICK e, u : Kid(e, u) /\ content[e][u].attr = "dir" /\ content[e][u].start = x
    BY Zenon, <1>4, <2>1 DEF IsDir
  <2>3. e = d /\ u = s BY Zenon, <2>2 DEF TreeInv, Own
  <2>4. IsEmptyDir(x) BY Zenon, <2>2, <2>3
  <2> QED BY Zenon, <2>4 DEF IsEmptyDir, Kid, Child
<1> QED BY Zenon, <1>2, <1>3, <1>5 DEF KidsShrink

LEMMA DropKeeps ==
  ASSUME TreeInv, NEW d, NEW s, Drop(d, s)
  PROVE  TreeInv'
<1>1. KidsShrink(d, s) BY Zenon, DropKids
<1> SUFFICES ASSUME Typed', NEW x, x = content[d][s].start, Kid(d, s),
                    content[d][s].attr = "dir" => IsEmptyDir(x), used' = used \ {x},
                    Same(d, s, 0), content'[d][s].state = "deleted"
             PROVE  TreeInv'
  BY Zenon DEF Drop
<1>2. d \in Clusters /\ s \in SlotNrs /\ content[d][s].state = "live" BY Zenon DEF Kid, Child
<1>3. \A c \in Clusters, t \in SlotNrs : ~(c = d /\ t = s) => content'[c][t] = content[c][t]
  BY Zenon, Numbers DEF Same
<1>4. \A c, t : Kid(c, t)' => Kid(c, t) /\ ~(c = d /\ t = s) /\ content'[c][t] = content[c][t]
  BY Zenon, <1>1 DEF KidsShrink
<1>5. \A c, t : Kid(c, t) /\ ~(c = d /\ t = s) => Kid(c, t)' BY Zenon, <1>1 DEF KidsShrink
<1>6. \A t : ~Kid(x, t) BY Zenon, <1>1 DEF KidsShrink
<1>7. ASSUME NEW c, NEW t, Kid(c, t)' PROVE IsDir(c)'
  <2>1. Kid(c, t) BY Zenon, <1>4, <1>7
  <2>2. IsDir(c) /\ c # x BY Zenon, <1>6, <2>1 DEF TreeInv, Owned
  <2>3. CASE c = ROOT BY Zenon, <2>3 DEF IsDir
  <2>4. CASE c # ROOT
    <3>1. PICK e, u : Kid(e, u) /\ content[e][u].attr = "dir" /\ content[e][u].start = c
      BY Zenon, <2>2, <2>4 DEF IsDir
    <3>2. ~(e = d /\ u = s) BY Zenon, <2>2, <3>1
    <3>3. Kid(e, u)' /\ content'[e][u] = content[e][u] BY Zenon, <1>4, <1>5, <3>1, <3>2
    <3> QED BY Zenon, <3>1, <3>3 DEF IsDir
  <2> QED BY Zenon, <2>3, <2>4
<1>8. Owned'
  <2> SUFFICES ASSUME NEW c, NEW t, Kid(c, t)'
               PROVE  IsDir(c)' /\ content'[c][t].start \in used' \ {ROOT}
    BY Zenon DEF Owned
  <2>1. Kid(c, t) /\ ~(c = d /\ t = s) /\ content'[c][t] = content[c][t] BY Zenon, <1>4
  <2>2. content[c][t].start \in used \ {ROOT} BY Zenon, <2>1 DEF TreeInv, Owned
  <2>3. content[c][t].start # x BY Zenon, <2>1 DEF TreeInv, Own
  <2> QED BY Zenon, <1>7, <2>1, <2>2, <2>3
<1>9. Own' BY Zenon, <1>4, OwnStays DEF TreeInv
<1>10. Linked'
  <2> SUFFICES ASSUME NEW c, NEW t, Kid(c, t)', content'[c][t].attr = "dir"
               PROVE  LinksTo(content[c][t].start, c)'
    BY Zenon, LinkedPrime
  <2>1. Kid(c, t) /\ content'[c][t] = content[c][t] BY Zenon, <1>4
  <2> DEFINE y == content[c][t].start
  <2>2. ASSUME NEW u \in {1, 2} PROVE y \in Clusters /\ u \in SlotNrs /\ ~(y = d /\ u = s)
    <3>1. y \in Clusters /\ u \in SlotNrs /\ ~Kid(y, u) BY Zenon, <2>1, LinksAreLive
    <3> QED BY Zenon, <3>1
  <2> HIDE DEF y
  <2>3. content'[y][1] = content[y][1] /\ content'[y][2] = content[y][2] BY Zenon, <1>3, <2>2
  <2>4. LinksTo(y, c)' BY Zenon, <2>1, <2>3, LinksStay DEF y
  <2> QED BY Zenon, <2>1, <2>4 DEF y
<1>11. DotsFirst'
  <2>1. Dotless(d, s, content'[d][s]) BY Zenon DEF Dotless
  <2> QED BY Zenon, <1>3, <2>1, DotsStay DEF TreeInv
<1>12. Packed'
  <2> SUFFICES ASSUME NEW c \in Clusters PROVE PackedIn(c)' BY Zenon, PackedPrime
  <2>1. \A t \in SlotNrs : content'[c][t].state = "free" <=> content[c][t].state = "free"
    BY Zenon, <1>2, <1>3
  <2> QED BY Zenon, <2>1, PackedStays DEF TreeInv
<1> QED BY Zenon, <1>8, <1>9, <1>10, <1>11, <1>12 DEF TreeInv

LEMMA RelabelKids ==
  ASSUME TreeInv, NEW s, Relabel(s)
  PROVE  KidsStay
<1> SUFFICES ASSUME Typed', used' = used, s \in SlotNrs, ~Kid(ROOT, s), Same(ROOT, s, 0),
                    content'[ROOT][s].state = "live", content'[ROOT][s].attr = "volume",
                    content[ROOT][s].state = "free" =>
                      \A t \in SlotNrs : t < s => content[ROOT][t].state # "free"
             PROVE  KidsStay
  BY Zenon DEF Relabel
<1>1. \A c \in Clusters, t \in SlotNrs : ~(c = ROOT /\ t = s) => content'[c][t] = content[c][t]
  BY Zenon, Numbers DEF Same
<1>2. \A c, t : Kid(c, t)' <=> Kid(c, t)
  <2>1. ~Kid(ROOT, s)' BY Zenon DEF Kid, Child
  <2>2. \A c, t : ~(c = ROOT /\ t = s) => (Kid(c, t)' <=> Kid(c, t)) BY Zenon, <1>1 DEF Kid
  <2> QED BY Zenon, <2>1, <2>2
<1>3. \A c, t : Kid(c, t) => content'[c][t] = content[c][t] BY Zenon, <1>1 DEF Kid
<1> QED BY Zenon, <1>2, <1>3 DEF KidsStay

LEMMA RelabelKeeps ==
  ASSUME TreeInv, NEW s, Relabel(s)
  PROVE  TreeInv'
<1>0. KidsStay BY Zenon, RelabelKids
<1> SUFFICES ASSUME Typed', used' = used, s \in SlotNrs, ~Kid(ROOT, s), Same(ROOT, s, 0),
                    content'[ROOT][s].state = "live", content'[ROOT][s].attr = "volume",
                    content[ROOT][s].state = "free" =>
                      \A t \in SlotNrs : t < s => content[ROOT][t].state # "free"
             PROVE  TreeInv'
  BY Zenon DEF Relabel
<1>1. \A c \in Clusters, t \in SlotNrs : ~(c = ROOT /\ t = s) => content'[c][t] = content[c][t]
  BY Zenon, Numbers DEF Same
<1>2. \A c, t : Kid(c, t)' <=> Kid(c, t) BY Zenon, <1>0 DEF KidsStay
<1>3. \A c, t : Kid(c, t) => content'[c][t] = content[c][t] BY Zenon, <1>0 DEF KidsStay
<1>4. \A c : IsDir(c) => IsDir(c)' BY Zenon, <1>2, <1>3, DirsStay
<1>5. Owned' BY Zenon, <1>2, <1>3, <1>4 DEF TreeInv, Owned
<1>6. Own' BY Zenon, <1>2, <1>3, OwnStays DEF TreeInv
<1>7. Linked'
  <2> SUFFICES ASSUME NEW c, NEW t, Kid(c, t)', content'[c][t].attr = "dir"
               PROVE  LinksTo(content[c][t].start, c)'
    BY Zenon, LinkedPrime
  <2>1. Kid(c, t) /\ content'[c][t] = content[c][t] BY Zenon, <1>2, <1>3
  <2> DEFINE y == content[c][t].start
  <2>2. y \in Clusters /\ y # ROOT
    <3>1. y \in used \ {ROOT} BY Zenon, <2>1 DEF TreeInv, Owned
    <3> QED BY Zenon, <3>1 DEF TreeInv, Typed
  <2> HIDE DEF y
  <2>3. content'[y][1] = content[y][1] /\ content'[y][2] = content[y][2]
    BY Zenon, <1>1, <2>2, Numbers
  <2>4. LinksTo(y, c)' BY Zenon, <2>1, <2>3, LinksStay DEF y
  <2> QED BY Zenon, <2>1, <2>4 DEF y
<1>8. DotsFirst'
  <2>1. Dotless(ROOT, s, content'[ROOT][s]) BY Zenon DEF Dotless
  <2> QED BY Zenon, <1>1, <2>1, DotsStay DEF TreeInv
<1>9. Packed'
  <2>1. ASSUME NEW c \in Clusters, c # ROOT PROVE PackedIn(c)'
    BY Zenon, <1>1, <2>1, PackedStays DEF TreeInv
  <2>2. PackedIn(ROOT)'
    <3>0. ROOT \in Clusters BY Zenon, Numbers
    <3>1. \A t \in SlotNrs : t # s => content'[ROOT][t] = content[ROOT][t] BY Zenon, <1>1, <3>0
    <3>2. \A t \in SlotNrs : content'[ROOT][t].state = "free" => content[ROOT][t].state = "free"
      BY Zenon, <3>1
    <3>3. ASSUME NEW t \in SlotNrs, content[ROOT][t].state = "free",
                 content'[ROOT][t].state # "free", NEW u \in SlotNrs, u < t
          PROVE  content'[ROOT][u].state # "free"
      <4>1. t = s BY Zenon, <3>1, <3>3
      <4>2. u # s BY <3>3, <4>1 DEF SlotNrs
      <4> QED BY Zenon, <3>1, <3>3, <4>1, <4>2
    <3> QED BY Zenon, <3>0, <3>2, <3>3, PackedStays DEF TreeInv
  <2> QED BY Zenon, <2>1, <2>2, PackedPrime
<1> QED BY Zenon, <1>5, <1>6, <1>7, <1>8, <1>9 DEF TreeInv

\* Slot s of d is gone and slot s2 of d2 is new; the others stay as they are.
Other(d, s, c, t)      == Kid(c, t) /\ ~(c = d /\ t = s)
KidsMove(d, s, d2, s2) ==
  /\ \A c, t : Kid(c, t)' <=> Other(d, s, c, t) \/ (c = d2 /\ t = s2)
  /\ \A c, t : Other(d, s, c, t) => content'[c][t] = content[c][t] /\ ~(c = d2 /\ t = s2)

LEMMA MoveKids ==
  ASSUME TreeInv, NEW d, NEW s, NEW d2, NEW s2, Move(d, s, d2, s2)
  PROVE  KidsMove(d, s, d2, s2)
<1>1. \A c \in Clusters, t \in SlotNrs :
        ~(c = d /\ t = s) /\ ~(c = d2 /\ t = s2) => content'[c][t] = content[c][t]
  BY Zenon DEF Move
<1>2. Kid(d, s) /\ IsDir(d2) /\ Opening(d2, s2) BY Zenon DEF Move
<1>3. ~Kid(d, s)' /\ ~Kid(d2, s2) /\ Kid(d2, s2)'
  BY Zenon, <1>2, DirUsed DEF Kid, Child, Move, Opening
<1>4. \A c, t : ~(c = d /\ t = s) /\ ~(c = d2 /\ t = s2) => (Kid(c, t)' <=> Kid(c, t))
  BY Zenon, <1>1 DEF Kid
<1>5. \A c, t : Kid(c, t)' <=> Other(d, s, c, t) \/ (c = d2 /\ t = s2)
  BY Zenon, <1>3, <1>4 DEF Other
<1>6. ASSUME NEW c, NEW t, Other(d, s, c, t)
      PROVE  content'[c][t] = content[c][t] /\ ~(c = d2 /\ t = s2)
  <2>1. ~(c = d2 /\ t = s2) /\ ~(c = d /\ t = s) BY Zenon, <1>3, <1>6 DEF Other
  <2>2. c \in Clusters /\ t \in SlotNrs BY Zenon, <1>6 DEF Other, Kid
  <2> QED BY Zenon, <1>1, <2>1, <2>2
<1> QED BY Zenon, <1>5, <1>6 DEF KidsMove

LEMMA MoveKeeps ==
  ASSUME TreeInv, NEW d, NEW s, NEW d2, NEW s2, Move(d, s, d2, s2)
  PROVE  TreeInv'
<1>1. KidsMove(d, s, d2, s2) BY Zenon, MoveKids
<1> SUFFICES ASSUME Kid(d, s), IsDir(d2), Opening(d2, s2), Typed', used' = used
             PROVE  TreeInv'
  BY Zenon DEF Move
<1> DEFINE x == content[d][s].start
<1>2. /\ d \in Clusters /\ s \in SlotNrs /\ content[d][s].state = "live"
      /\ d2 \in Clusters /\ ~(d = d2 /\ s = s2) /\ content[d][s].attr # "volume"
  BY Zenon, DirUsed DEF Kid, Child, Opening
<1>3. \A c \in Clusters, t \in SlotNrs :
        ~(c = d /\ t = s) /\ ~(c = d2 /\ t = s2) => content'[c][t] = content[c][t]
  BY Zenon DEF Move
<1>4. \A c, t : Kid(c, t)' <=> Other(d, s, c, t) \/ (c = d2 /\ t = s2)
  BY Zenon, <1>1 DEF KidsMove
<1>5. ASSUME NEW c, NEW t, Other(d, s, c, t)
      PROVE  content'[c][t] = content[c][t] /\ content[c][t].start # x
  <2>1. content[c][t].start # x BY Zenon, <1>5 DEF TreeInv, Own, Other
  <2> QED BY Zenon, <1>5, <1>1, <2>1 DEF KidsMove
<1>6. /\ content'[d2][s2].attr = content[d][s].attr
      /\ content'[d2][s2].start = content[d][s].start
      /\ content[d][s].attr = "dir" => d = d2
  BY Zenon DEF Move
<1> HIDE DEF x
<1>7. ASSUME NEW c, IsDir(c) PROVE IsDir(c)'
  <2>1. CASE c = ROOT BY Zenon, <2>1 DEF IsDir
  <2>2. CASE c # ROOT
    <3>1. PICK e, u : Kid(e, u) /\ content[e][u].attr = "dir" /\ content[e][u].start = c
      BY Zenon, <1>7, <2>2 DEF IsDir
    <3>2. CASE e = d /\ u = s
      <4>1. Kid(d2, s2)' /\ content'[d2][s2].attr = "dir" /\ content'[d2][s2].start = c
        BY Zenon, <1>4, <1>6, <3>1, <3>2
      <4> QED BY Zenon, <4>1 DEF IsDir
    <3>3. CASE ~(e = d /\ u = s)
      <4>0. Other(d, s, e, u) BY Zenon, <3>1, <3>3 DEF Other
      <4>1. Kid(e, u)' /\ content'[e][u] = content[e][u] BY Zenon, <1>4, <1>5, <4>0
      <4> QED BY Zenon, <3>1, <4>1 DEF IsDir
    <3> QED BY Zenon, <3>2, <3>3
  <2> QED BY Zenon, <2>1, <2>2
<1>8. Owned'
  <2> SUFFICES ASSUME NEW c, NEW t, Kid(c, t)'
               PROVE  IsDir(c)' /\ content'[c][t].start \in used' \ {ROOT}
    BY Zenon DEF Owned
  <2>1. CASE Other(d, s, c, t)
    <3>1. content'[c][t] = content[c][t] BY Zenon, <1>5, <2>1
    <3>2. IsDir(c) /\ content[c][t].start \in used \ {ROOT}
      BY Zenon, <2>1 DEF TreeInv, Owned, Other
    <3> QED BY Zenon, <1>7, <3>1, <3>2
  <2>2. CASE c = d2 /\ t = s2
    <3>1. x \in used \ {ROOT} BY Zenon DEF TreeInv, Owned, x
    <3> QED BY Zenon, <1>7, <1>6, <2>2, <3>1 DEF x
  <2> QED BY Zenon, <1>4, <2>1, <2>2
<1>9. Own'
  <2> SUFFICES ASSUME NEW c, NEW t, NEW e, NEW u, Kid(c, t)', Kid(e, u)',
                      content'[c][t].start = content'[e][u].start
               PROVE  c = e /\ t = u
    BY Zenon DEF Own
  <2>1. content'[d2][s2].start = x BY Zenon, <1>6 DEF x
  <2>2. \A e1, u1 : Other(d, s, e1, u1) =>
          content'[e1][u1] = content[e1][u1] /\ content[e1][u1].start # x
    BY Zenon, <1>5
  <2>3. CASE Other(d, s, c, t) /\ Other(d, s, e, u)
    <3>1. content[c][t].start = content[e][u].start BY Zenon, <2>2, <2>3
    <3> QED BY Zenon, <2>3, <3>1 DEF TreeInv, Own, Other
  <2>4. CASE ~Other(d, s, c, t)
    <3>1. c = d2 /\ t = s2 /\ content'[e][u].start = x BY Zenon, <1>4, <2>1, <2>4
    <3>2. ~Other(d, s, e, u) BY Zenon, <2>2, <3>1
    <3> QED BY Zenon, <1>4, <3>1, <3>2
  <2>5. CASE ~Other(d, s, e, u)
    <3>1. e = d2 /\ u = s2 /\ content'[c][t].start = x BY Zenon, <1>4, <2>1, <2>5
    <3>2. ~Other(d, s, c, t) BY Zenon, <2>2, <3>1
    <3> QED BY Zenon, <1>4, <3>1, <3>2
  <2> QED BY Zenon, <2>3, <2>4, <2>5
<1>10. ASSUME NEW c, NEW t, Kid(c, t), content[c][t].attr = "dir", NEW y, y = content[c][t].start
       PROVE  LinksTo(y, c)'
  <2>1. ASSUME NEW u \in {1, 2} PROVE content'[y][u] = content[y][u]
    <3>1. y \in Clusters /\ u \in SlotNrs /\ content[y][u].state = "live" /\ ~Kid(y, u)
      BY SMT, <1>10, LinksAreLive
    <3>2. ~(y = d2 /\ u = s2) BY Zenon, <3>1 DEF Opening
    <3> QED BY Zenon, <1>3, <3>1, <3>2
  <2>2. content'[y][1] = content[y][1] /\ content'[y][2] = content[y][2] BY Zenon, <2>1
  <2> QED BY Zenon, <1>10, <2>2, LinksStay
<1>11. Linked'
  <2> SUFFICES ASSUME NEW c, NEW t, Kid(c, t)', content'[c][t].attr = "dir"
               PROVE  LinksTo(content[c][t].start, c)'
    BY Zenon, LinkedPrime
  <2>1. CASE Other(d, s, c, t)
    <3>1. Kid(c, t) BY Zenon, <2>1 DEF Other
    <3>2. content'[c][t] = content[c][t] BY Zenon, <1>5, <2>1
    <3>3. content[c][t].attr = "dir" BY Zenon, <3>2
    <3>4. LinksTo(content[c][t].start, c)' BY Zenon, <1>10, <3>1, <3>2, <3>3
    <3> QED BY Zenon, <3>2, <3>4
  <2>2. CASE c = d2 /\ t = s2
    <3>1. content[d][s].attr = "dir" /\ d = d2 BY Zenon, <1>6, <2>2
    <3>2. content'[c][t].start = content[d][s].start BY Zenon, <1>6, <2>2
    <3> QED BY Zenon, <1>10, <2>2, <3>1, <3>2
  <2> QED BY Zenon, <1>4, <2>1, <2>2
<1>12. DotsFirst'
  <2>1. Dotless(d, s, content'[d][s]) BY Zenon DEF Dotless, Move
  <2>2. Dotless(d2, s2, content'[d2][s2]) BY Zenon DEF Dotless, Move
  <2> QED BY Zenon, <1>3, <2>1, <2>2, DotsStay DEF TreeInv
<1>13. Packed'
  <2> SUFFICES ASSUME NEW c \in Clusters PROVE PackedIn(c)' BY Zenon, PackedPrime
  <2>1. \A t \in SlotNrs : content'[c][t].state = "free" => content[c][t].state = "free"
    BY Zenon, <1>2, <1>3 DEF Move
  <2>2. \A t \in SlotNrs : ~(c = d2 /\ t = s2) =>
          (content[c][t].state = "free" => content'[c][t].state = "free")
    BY Zenon, <1>2, <1>3 DEF Move
  <2>3. ASSUME NEW t \in SlotNrs, content[c][t].state = "free", content'[c][t].state # "free",
               NEW u \in SlotNrs, u < t
        PROVE  content'[c][u].state # "free"
    <3>1. c = d2 /\ t = s2 BY Zenon, <2>2, <2>3
    <3>2. content[c][u].state = "live" BY Zenon, <2>3, <3>1 DEF Opening
    <3> QED BY Zenon, <2>1, <2>3, <3>2
  <2> QED BY Zenon, <2>1, <2>3, PackedStays DEF TreeInv
<1> QED BY Zenon, <1>8, <1>9, <1>11, <1>12, <1>13 DEF TreeInv

-----------------------------------------------------------------------------
(* What each call is.                                                      *)

\* The start of a link is a link.
LEMMA DotPrefix ==
  ASSUME NEW n \in Seq(Letters), IsPrefixOf(n, Dot) \/ IsPrefixOf(n, DotDot)
  PROVE  n \in {<<>>, Dot, DotDot}
<1>1. /\ Len(Dot) = 1 /\ Dot[1] = "." /\ Len(DotDot) = 2 /\ DotDot[1] = "." /\ DotDot[2] = "."
  BY DEF Dot, DotDot
<1>2. Len(n) \in 0 .. 2
  <2> DEFINE l == Len(n)
  <2>1. l <= 1 \/ l <= 2 BY <1>1 DEF IsPrefixOf
  <2>2. l \in Nat OBVIOUS
  <2> HIDE DEF l
  <2>3. l \in 0 .. 2 BY <2>1, <2>2
  <2> QED BY Zenon, <2>3 DEF l
<1>3. Dot \in Seq(Letters) /\ DotDot \in Seq(Letters) BY Zenon, DotNames
<1>4. \A i \in 1 .. Len(n) : n[i] = "."
  <2>1. CASE IsPrefixOf(n, Dot)
    <3>1. \A i \in 1 .. Len(n) : n[i] = Dot[i] BY <1>1, <1>3, <2>1 DEF IsPrefixOf
    <3>2. Len(n) <= 1 BY <1>1, <2>1 DEF IsPrefixOf
    <3> QED BY <1>1, <1>2, <3>1, <3>2
  <2>2. CASE IsPrefixOf(n, DotDot)
    <3>1. \A i \in 1 .. Len(n) : n[i] = DotDot[i] BY <1>1, <1>3, <2>2 DEF IsPrefixOf
    <3> QED BY <1>1, <1>2, <3>1
  <2> QED BY Zenon, <2>1, <2>2
<1>5. CASE Len(n) = 0 BY <1>5
<1>6. CASE Len(n) = 1 BY <1>4, <1>6 DEF Dot
<1>7. CASE Len(n) = 2 BY <1>4, <1>7 DEF DotDot
<1> QED BY <1>2, <1>5, <1>6, <1>7

\* What a name other than "." and ".." finds in a directory is a file or a
\* directory in it.
LEMMA FoundIsKid ==
  ASSUME TreeInv, NEW d, IsDir(d), NEW n \in Seq(Letters), n \notin {<<>>, Dot, DotDot},
         NEW s \in SlotNrs, Matches(content[d][s], n)
  PROVE  Kid(d, s)
<1> DEFINE e == content[d][s]
<1>1. d \in Clusters BY Zenon, DirUsed
<1>2. e.state = "live" /\ e.attr # "volume" /\ IsPrefixOf(n, Text(e))
  BY Zenon DEF Matches, Named
<1>3. SUFFICES ASSUME e.base \in {Dot, DotDot} PROVE FALSE
  BY Zenon, <1>1, <1>2 DEF Kid, Child
<1>4. d # ROOT /\ s \in {1, 2} BY Zenon, <1>1, <1>2, <1>3 DEF TreeInv, DotsFirst
<1>5. PICK c, t : Kid(c, t) /\ content[c][t].attr = "dir" /\ content[c][t].start = d
  BY Zenon, <1>4 DEF IsDir
<1>6. content[d][1] = Link(Dot, d) /\ content[d][2] = Link(DotDot, c)
  BY Zenon, <1>5 DEF TreeInv, Linked
<1>7. \A c1 : /\ Link(Dot, c1).base = Dot /\ Link(DotDot, c1).base = DotDot
              /\ Link(Dot, c1).ext = <<>> /\ Link(DotDot, c1).ext = <<>>
  BY Zenon DEF Link, Blank
<1>8. Text(e) \in {Dot, DotDot} BY Zenon, <1>4, <1>6, <1>7 DEF Text
<1> QED BY Zenon, <1>2, <1>8, DotPrefix

\* What a new entry is like.
LEMMA FreshEntry ==
  ASSUME NEW n \in Seq(Letters), NEW x \in Seq(Letters), NEW a \in {"file", "dir"},
         NEW k \in Clusters
  PROVE  [state |-> "live", base |-> BaseOf(n), ext |-> x, attr |-> a, start |-> k] \in Entries
<1>1. BaseOf(n) \in Seq(Letters) /\ k \in Nat BY Zenon, BaseHasNoDot, Numbers
<1> QED BY <1>1 DEF Entries

\* Where f_open and f_mkdir put what they make.
LEMMA CreatesWhere ==
  ASSUME WellFormed, TreeInv, NEW p \in Paths, Creatable(p)
  PROVE  /\ IsDir(Parent(p)) /\ Parent(p) \in Clusters /\ Parent(p) \in used
         /\ FirstFree \in Clusters /\ FirstFree \notin used /\ FirstFree # Parent(p)
         /\ LastName(p) \in Seq(Letters)
         /\ Usable(Parent(p)) # {} => Opening(Parent(p), FirstSlot(Parent(p)))
<1>1. IsDir(Parent(p)) /\ Parent(p) \in Clusters /\ Parent(p) \in used
  BY Zenon, ParentIsDir DEF Creatable
<1>2. FirstFree \in Clusters /\ FirstFree \notin used BY Zenon, FirstFreeIs DEF Creatable
<1>3. LastName(p) \in Seq(Letters) BY Zenon, DepthIs
<1>4. Usable(Parent(p)) # {} => Opening(Parent(p), FirstSlot(Parent(p)))
  BY Zenon, FirstSlotIs DEF Opening
<1> QED BY Zenon, <1>1, <1>2, <1>3, <1>4

LEMMA PrefixSelf == ASSUME NEW n \in Seq(Letters) PROVE IsPrefixOf(n, n)
BY DEF IsPrefixOf

\* A name that find_entry_in_dir does not find is the start of no name.
LEMMA NotFound ==
  ASSUME TreeInv, NEW d \in Clusters, NEW n, Find(d, n) = 0, NEW e, Text(e) # <<>>,
         IsPrefixOf(n, Text(e)), NEW t, Kid(d, t)
  PROVE  Text(content[d][t]) # Text(e)
<1> SUFFICES ASSUME Text(content[d][t]) = Text(e) PROVE FALSE OBVIOUS
<1>1. t \in SlotNrs /\ content[d][t].state = "live" /\ content[d][t].attr # "volume"
  BY Zenon DEF Kid, Child
<1>2. Matches(content[d][t], n) BY Zenon, <1>1 DEF Matches, Named
<1>3. ASSUME NEW u \in 1 .. t PROVE content[d][u].state # "free"
  <2>1. u \in SlotNrs BY Zenon, <1>1, Numbers
  <2>2. CASE u = t BY Zenon, <1>1, <2>2
  <2>3. CASE u # t
    <3>1. u < t BY <1>1, <2>3 DEF SlotNrs
    <3> QED BY Zenon, <1>1, <2>1, <3>1 DEF TreeInv, Packed
  <2> QED BY Zenon, <2>2, <2>3
<1>4. t \in Hits(d, n) BY Zenon, <1>1, <1>2, <1>3 DEF Hits
<1> QED BY Zenon, <1>4, FindFinds

LEMMA NewText ==
  ASSUME NamesFit, NEW p \in Paths, LastName(p) # <<>>, NEW e,
         e.base = BaseOf(LastName(p)), e.ext = ExtOf(LastName(p))
  PROVE  Text(e) = LastName(p) /\ Text(e) # <<>> /\ IsPrefixOf(LastName(p), Text(e))
<1> DEFINE n == LastName(p)
           f == [Blank EXCEPT !.base = BaseOf(n), !.ext = ExtOf(n)]
<1>1. Text(f) = n BY Zenon DEF NamesFit, NameFits
<1>2. f.base = e.base /\ f.ext = e.ext BY Zenon DEF Blank
<1>3. Text(e) = n BY Zenon, <1>1, <1>2 DEF Text
<1>4. IsPrefixOf(n, n) BY Zenon, DepthIs, PrefixSelf
<1> QED BY Zenon, <1>3, <1>4

LEMMA PrefixAppend ==
  ASSUME NEW a \in Seq(Letters), NEW b \in Seq(Letters)
  PROVE  IsPrefixOf(a, a \o b) /\ (a # <<>> => a \o b # <<>>)
BY DEF IsPrefixOf

\* Also when f_mkdir leaves the old extension behind the name.
LEMMA MkdirText ==
  ASSUME NamesFit, NEW p \in Paths, LastName(p) # <<>>, NEW e, NEW old \in Seq(Letters),
         e.base = BaseOf(LastName(p)), e.ext = MkdirExt(LastName(p), old)
  PROVE  Text(e) # <<>> /\ IsPrefixOf(LastName(p), Text(e))
<1> DEFINE n == LastName(p)
           f == [Blank EXCEPT !.base = BaseOf(n), !.ext = ExtOf(n)]
<1>1. f.base = BaseOf(n) /\ f.ext = ExtOf(n) BY Zenon DEF Blank
<1>2. Text(f) = n /\ Text(f) # <<>> /\ IsPrefixOf(n, Text(f)) BY Zenon, <1>1, NewText
<1>3. CASE e.ext = ExtOf(n)
  <2>1. Text(e) = Text(f) BY Zenon, <1>1, <1>3 DEF Text
  <2> QED BY Zenon, <1>2, <2>1
<1>4. CASE e.ext # ExtOf(n)
  <2>1. ~HasExt(n) /\ e.ext = old /\ ExtOf(n) = <<>> BY Zenon, <1>4 DEF MkdirExt, ExtOf
  <2>2. e.base = n BY Zenon, <1>1, <1>2, <2>1 DEF Text
  <2>3. Text(e) = n \o Dot \o old BY Zenon, <1>4, <2>1, <2>2 DEF Text
  <2>4. n \in Seq(Letters) /\ Dot \in Seq(Letters) BY Zenon, DepthIs, DotNames
  <2>5. n \o Dot \o old = n \o (Dot \o old) /\ Dot \o old \in Seq(Letters) BY <2>4
  <2> QED BY Zenon, <2>3, <2>4, <2>5, PrefixAppend
<1> QED BY Zenon, <1>3, <1>4

LEMMA f_open_newFills ==
  ASSUME WellFormed, TreeInv, NEW p \in Paths, f_open_new(p)
  PROVE  Fill(Parent(p), FirstSlot(Parent(p)), FirstFree)
<1> DEFINE d == Parent(p)
           s == FirstSlot(d)
           k == FirstFree
           e == [state |-> "live", base |-> BaseOf(LastName(p)), ext |-> ExtOf(LastName(p)),
                 attr |-> "file", start |-> k]
<1>1. /\ Creatable(p) /\ Usable(d) # {} /\ used' = used \cup {k}
      /\ content' = Put(d, s, e) /\ it' = it
      /\ LastName(p) # <<>> /\ Find(d, LastName(p)) = 0
  BY Zenon DEF f_open_new, Creates, Creatable, SlotOf
<1>2. /\ IsDir(d) /\ d \in Clusters /\ k \in Clusters /\ k \notin used /\ k # d
      /\ LastName(p) \in Seq(Letters) /\ Opening(d, s)
  BY Zenon, <1>1, CreatesWhere
<1>3. ExtOf(LastName(p)) \in Seq(Letters) /\ BaseOf(LastName(p)) \notin {Dot, DotDot}
  BY Zenon, <1>2, BaseHasNoDot
<1>4. e \in Entries BY Zenon, <1>2, <1>3, FreshEntry
<1>5. /\ e.state = "live" /\ e.base \notin {Dot, DotDot} /\ e.attr = "file" /\ e.start = k
  BY Zenon, <1>3
<1> HIDE DEF d, s, k, e
<1>6. Typed /\ d \in Clusters /\ s \in SlotNrs /\ e \in Entries
  BY Zenon, <1>2, <1>4 DEF Opening, TreeInv
<1>7. Written(content', d, s, e) BY Zenon, <1>1, <1>6, PutIs
<1>8. Typed' BY Zenon, <1>1, <1>2, <1>7 DEF TreeInv, Typed, Written
<1>9. Same(d, s, k) BY Zenon, <1>7 DEF Same, Written
<1>10. Emptied(k, d) BY Zenon, <1>2, <1>7 DEF Emptied, Written
<1>11. ASSUME NamesFit PROVE Fresh(d, s)
  <2>1. e.base = BaseOf(LastName(p)) /\ e.ext = ExtOf(LastName(p)) BY Zenon DEF e
  <2>2. Text(e) # <<>> /\ IsPrefixOf(LastName(p), Text(e)) BY Zenon, <1>1, <1>11, <2>1, NewText
  <2>3. \A t : Kid(d, t) => Text(content[d][t]) # Text(e) BY Zenon, <1>1, <1>2, <2>2, NotFound
  <2> QED BY Zenon, <2>2, <2>3, <1>7 DEF Fresh, Written
<1>12. Fill(d, s, k) BY Zenon, <1>1, <1>2, <1>5, <1>7, <1>8, <1>9, <1>10, <1>11 DEF Fill, Written
<1> QED BY Zenon, <1>12 DEF d, s, k

\* A directory's cluster gets its two links.
LEMMA ClearIs ==
  ASSUME NEW w \in [Clusters -> [SlotNrs -> Entries]], NEW k \in Clusters, NEW d \in Clusters
  PROVE  /\ [w EXCEPT ![k] = NewDir(k, d)] \in [Clusters -> [SlotNrs -> Entries]]
         /\ [w EXCEPT ![k] = NewDir(k, d)][k] = NewDir(k, d)
         /\ \A c \in Clusters : c # k => [w EXCEPT ![k] = NewDir(k, d)][c] = w[c]
BY Zenon, NewDirIs

LEMMA EmptyIsSeq == <<>> \in Seq(Letters)
OBVIOUS

LEMMA f_mkdirFills ==
  ASSUME WellFormed, TreeInv, NEW p \in Paths, f_mkdir(p)
  PROVE  Fill(Parent(p), FirstSlot(Parent(p)), FirstFree)
<1> DEFINE d == Parent(p)
           s == FirstSlot(d)
           k == FirstFree
           x == MkdirExt(LastName(p), content[d][s].ext)
           e == [state |-> "live", base |-> BaseOf(LastName(p)), ext |-> x,
                 attr |-> "dir", start |-> k]
           w == Put(d, s, e)
<1>1. /\ Creatable(p) /\ Usable(d) # {} /\ used' = used \cup {k}
      /\ content' = [w EXCEPT ![k] = NewDir(k, d)] /\ it' = it
      /\ LastName(p) # <<>> /\ Find(d, LastName(p)) = 0
  BY Zenon DEF f_mkdir, Creates, Creatable, SlotOf
<1>2. /\ IsDir(d) /\ d \in Clusters /\ k \in Clusters /\ k \notin used /\ k # d
      /\ LastName(p) \in Seq(Letters) /\ Opening(d, s)
  BY Zenon, <1>1, CreatesWhere
<1>3. ExtOf(LastName(p)) \in Seq(Letters) /\ BaseOf(LastName(p)) \notin {Dot, DotDot}
  BY Zenon, <1>2, BaseHasNoDot
<1>4. Typed /\ s \in SlotNrs BY Zenon, <1>2 DEF Opening, TreeInv
<1>5. content[d][s].ext \in Seq(Letters) BY Zenon, <1>2, <1>4, EntryTypes DEF Typed
<1>6. x \in Seq(Letters) BY Zenon, <1>3, <1>5, EmptyIsSeq DEF MkdirExt
<1> HIDE DEF x
<1>7. e \in Entries BY Zenon, <1>2, <1>6, FreshEntry
<1>8. e.state = "live" /\ e.base \notin {Dot, DotDot} /\ e.attr = "dir" /\ e.start = k
  BY Zenon, <1>3
<1> HIDE DEF d, s, k, e, w
<1>9. Written(w, d, s, e) BY Zenon, <1>2, <1>4, <1>7, PutIs DEF w
<1>10. w \in [Clusters -> [SlotNrs -> Entries]] BY Zenon, <1>9 DEF Written
<1>11. /\ content' \in [Clusters -> [SlotNrs -> Entries]] /\ content'[k] = NewDir(k, d)
       /\ \A c \in Clusters : c # k => content'[c] = w[c]
  BY Zenon, <1>1, <1>2, <1>10, ClearIs
<1>12. Typed' BY Zenon, <1>1, <1>2, <1>11 DEF TreeInv, Typed
<1>13. Same(d, s, k) BY Zenon, <1>9, <1>11 DEF Same, Written
<1>14. Emptied(k, d) BY Zenon, <1>11 DEF Emptied
<1>15. content'[d][s] = e BY Zenon, <1>2, <1>9, <1>11 DEF Written
<1>16. ASSUME NamesFit PROVE Fresh(d, s)
  <2>1. e.base = BaseOf(LastName(p)) /\ e.ext = x BY Zenon DEF e
  <2>2. Text(e) # <<>> /\ IsPrefixOf(LastName(p), Text(e))
    BY Zenon, <1>1, <1>5, <1>16, <2>1, MkdirText DEF x
  <2>3. \A t : Kid(d, t) => Text(content[d][t]) # Text(e) BY Zenon, <1>1, <1>2, <2>2, NotFound
  <2> QED BY Zenon, <2>2, <2>3, <1>15 DEF Fresh
<1>17. Fill(d, s, k)
  BY Zenon, <1>1, <1>2, <1>8, <1>11, <1>12, <1>13, <1>14, <1>15, <1>16 DEF Fill
<1> QED BY Zenon, <1>17 DEF d, s, k

LEMMA create_fullLeaks ==
  ASSUME WellFormed, TreeInv, NEW p \in Paths, NEW f, create_full(f, p)
  PROVE  Leak(Parent(p), FirstFree)
<1> DEFINE d == Parent(p)
           k == FirstFree
<1>1. /\ Creatable(p) /\ used' = used \cup {k} /\ it' = it /\ ret'.f = "full"
      /\ content' = IF f = "f_mkdir" THEN [content EXCEPT ![k] = NewDir(k, d)] ELSE content
  BY Zenon DEF create_full, Returns
<1>2. d \in Clusters /\ k \in Clusters /\ k \notin used BY Zenon, <1>1, CreatesWhere
<1> HIDE DEF d, k
<1>3. content \in [Clusters -> [SlotNrs -> Entries]] BY Zenon DEF TreeInv, Typed
<1>4. CASE f = "f_mkdir"
  <2>1. /\ content' \in [Clusters -> [SlotNrs -> Entries]] /\ content'[k] = NewDir(k, d)
        /\ \A c \in Clusters : c # k => content'[c] = content[c]
    BY Zenon, <1>1, <1>2, <1>3, <1>4, ClearIs
  <2>2. Typed' BY Zenon, <1>1, <1>2, <2>1 DEF TreeInv, Typed
  <2>3. Same(d, 0, k) /\ Emptied(k, d) BY Zenon, <2>1 DEF Same, Emptied
  <2> QED BY Zenon, <1>1, <1>2, <2>2, <2>3 DEF Leak, d, k
<1>5. CASE f # "f_mkdir"
  <2>1. content' = content BY Zenon, <1>1, <1>5
  <2>2. Typed' BY Zenon, <1>1, <1>2, <2>1 DEF TreeInv, Typed
  <2>3. Same(d, 0, k) /\ Emptied(k, d) BY Zenon, <2>1 DEF Same, Emptied
  <2> QED BY Zenon, <1>1, <1>2, <2>2, <2>3 DEF Leak, d, k
<1> QED BY Zenon, <1>4, <1>5

\* A name that is found in a directory is a kid of it.
LEMMA FoundWhere ==
  ASSUME WellFormed, TreeInv, NEW p \in Paths, Exists(p), Traverses(p),
         LastName(p) \notin {<<>>, Dot, DotDot}
  PROVE  /\ IsDir(Parent(p)) /\ Parent(p) \in Clusters /\ Kid(Parent(p), SlotOf(p))
         /\ SlotOf(p) \in SlotNrs /\ EntryOf(p) \in Entries
<1>1. IsDir(Parent(p)) /\ Parent(p) \in Clusters BY Zenon, ParentIsDir DEF Exists
<1>2. LastName(p) \in Seq(Letters) BY Zenon, DepthIs
<1>3. /\ SlotOf(p) \in SlotNrs /\ Matches(content[Parent(p)][SlotOf(p)], LastName(p))
  BY Zenon, FindFinds DEF Exists, SlotOf
<1>4. Kid(Parent(p), SlotOf(p)) BY Zenon, <1>1, <1>2, <1>3, FoundIsKid
<1>5. EntryOf(p) \in Entries BY Zenon, <1>1, <1>3 DEF EntryOf, TreeInv, Typed
<1> QED BY Zenon, <1>1, <1>3, <1>4, <1>5

LEMMA Restated ==
  ASSUME NEW e \in Entries
  PROVE  /\ [e EXCEPT !.state = "deleted"] \in Entries
         /\ [e EXCEPT !.state = "deleted"].state = "deleted"
BY DEF Entries

LEMMA f_unlinkDrops ==
  ASSUME WellFormed, TreeInv, NEW p \in Paths, f_unlink(p)
  PROVE  Drop(Parent(p), SlotOf(p))
<1> DEFINE d == Parent(p)
           s == SlotOf(p)
           e == [EntryOf(p) EXCEPT !.state = "deleted"]
           x == content[d][s].start
<1>1. /\ Exists(p) /\ Traverses(p) /\ LastName(p) \notin {<<>>, Dot, DotDot}
      /\ content[d][s].attr = "dir" => IsEmptyDir(x)
      /\ content' = Put(d, s, e) /\ used' = used \ {x} /\ it' = Gone(d, s) /\ it.dir # x
  BY Zenon DEF f_unlink, Unlinked, EntryOf
<1>2. d \in Clusters /\ Kid(d, s) /\ s \in SlotNrs /\ EntryOf(p) \in Entries
  BY Zenon, <1>1, FoundWhere
<1>3. e \in Entries /\ e.state = "deleted" BY Zenon, <1>2, Restated
<1>4. Typed BY Zenon DEF TreeInv
<1>5. x # ROOT BY Zenon, <1>2 DEF TreeInv, Owned
<1> HIDE DEF d, s, e
<1>6. Written(content', d, s, e) BY Zenon, <1>1, <1>2, <1>3, <1>4, PutIs
<1>7. Typed' BY Zenon, <1>1, <1>4, <1>5, <1>6 DEF Typed, Written
<1>8. Same(d, s, 0) /\ content'[d][s].state = "deleted" BY Zenon, <1>3, <1>6 DEF Same, Written
<1>9. Drop(d, s) BY Zenon, <1>1, <1>2, <1>7, <1>8 DEF Drop
<1> QED BY Zenon, <1>9 DEF d, s

\* v is w with slot s of d deleted; f is e under another name.
Marked(w, d, s)     == [w EXCEPT ![d][s].state = "deleted"]
IsMarked(v, w, d, s) ==
  /\ v \in [Clusters -> [SlotNrs -> Entries]]
  /\ v[d][s] = [w[d][s] EXCEPT !.state = "deleted"]
  /\ \A c \in Clusters, t \in SlotNrs : ~(c = d /\ t = s) => v[c][t] = w[c][t]
Retitle(e, b, x)    == [e EXCEPT !.base = b, !.ext = x]
IsRetitled(f, e, b, x) ==
  /\ f \in Entries /\ f.state = e.state /\ f.base = b /\ f.ext = x
  /\ f.attr = e.attr /\ f.start = e.start

LEMMA MarkIs ==
  ASSUME NEW w \in [Clusters -> [SlotNrs -> Entries]], NEW d \in Clusters, NEW s \in SlotNrs
  PROVE  IsMarked(Marked(w, d, s), w, d, s)
<1> DEFINE e == [w[d][s] EXCEPT !.state = "deleted"]
           row == [w[d] EXCEPT ![s] = e]
<1>1. e \in Entries BY Zenon, Restated
<1>2. Marked(w, d, s) = [w EXCEPT ![d] = row] BY Zenon DEF Marked
<1> HIDE DEF e
<1>3. /\ row \in [SlotNrs -> Entries] /\ row[s] = e
      /\ \A t \in SlotNrs : t # s => row[t] = w[d][t]
  BY Zenon, <1>1
<1> HIDE DEF row
<1>4. /\ [w EXCEPT ![d] = row] \in [Clusters -> [SlotNrs -> Entries]]
      /\ [w EXCEPT ![d] = row][d] = row
      /\ \A c \in Clusters : c # d => [w EXCEPT ![d] = row][c] = w[c]
  BY Zenon, <1>3
<1> QED BY Zenon, <1>2, <1>3, <1>4 DEF e, IsMarked

LEMMA RenamedEntry ==
  ASSUME NEW e \in Entries, NEW b \in Seq(Letters), NEW x \in Seq(Letters)
  PROVE  IsRetitled(Retitle(e, b, x), e, b, x)
BY Zenon DEF Entries, Retitle, IsRetitled

LEMMA f_renameMoves ==
  ASSUME WellFormed, TreeInv, NEW p \in Paths, NEW q \in Paths, f_rename(p, q)
  PROVE  Move(Parent(p), SlotOf(p), Parent(q), FirstSlot(Parent(q)))
<1> DEFINE d == Parent(p)
           s == SlotOf(p)
           d2 == Parent(q)
           s2 == FirstSlot(d2)
           b == BaseOf(LastName(q))
           x == ExtOf(LastName(q))
           o == EntryOf(p)
           e == Retitle(o, b, x)
           w == Put(d2, s2, e)
<1>1. /\ Exists(p) /\ Traverses(p) /\ LastName(p) \notin {<<>>, Dot, DotDot}
      /\ Resolves(q) /\ Traverses(q) /\ Usable(d2) # {}
      /\ o.attr = "dir" => d = d2
      /\ content' = Marked(w, d, s) /\ used' = used
      /\ LastName(q) # <<>> /\ Find(d2, LastName(q)) = 0 /\ it' = Gone(d, s)
  BY Zenon DEF f_rename, Retitle, Marked, SlotOf
<1>2. /\ IsDir(d) /\ d \in Clusters /\ Kid(d, s) /\ s \in SlotNrs
      /\ o \in Entries /\ o = content[d][s]
  BY Zenon, <1>1, FoundWhere DEF EntryOf
<1>3. IsDir(d2) /\ d2 \in Clusters BY Zenon, <1>1, ParentIsDir
<1>4. Opening(d2, s2) BY Zenon, <1>1, FirstSlotIs DEF Opening
<1>5. b \in Seq(Letters) /\ x \in Seq(Letters) /\ b \notin {Dot, DotDot}
  BY Zenon, BaseHasNoDot, DepthIs
<1> HIDE DEF b, x, d2, s2, d, s, o
<1>6. /\ e \in Entries /\ e.state = o.state /\ e.base = b /\ e.ext = x
      /\ e.attr = o.attr /\ e.start = o.start
  <2>1. o \in Entries /\ b \in Seq(Letters) /\ x \in Seq(Letters) BY Zenon, <1>2, <1>5
  <2>2. IsRetitled(e, o, b, x) BY Zenon, <2>1, RenamedEntry
  <2> QED BY Zenon, <2>2 DEF IsRetitled
<1> HIDE DEF e, w
<1>7. Typed /\ s2 \in SlotNrs BY Zenon, <1>4 DEF TreeInv, Opening
<1>8. Written(w, d2, s2, e) BY Zenon, <1>3, <1>6, <1>7, PutIs DEF w
<1>9. w \in [Clusters -> [SlotNrs -> Entries]] BY Zenon, <1>8 DEF Written
<1>10. /\ content' \in [Clusters -> [SlotNrs -> Entries]]
       /\ content'[d][s] = [w[d][s] EXCEPT !.state = "deleted"]
       /\ \A c \in Clusters, t \in SlotNrs : ~(c = d /\ t = s) => content'[c][t] = w[c][t]
  <2>1. d \in Clusters /\ s \in SlotNrs BY Zenon, <1>2
  <2>2. IsMarked(Marked(w, d, s), w, d, s) BY Zenon, <1>9, <2>1, MarkIs
  <2> QED BY Zenon, <1>1, <2>2 DEF IsMarked
<1>11. Typed' BY Zenon, <1>1, <1>7, <1>10 DEF Typed
<1>12. content[d][s].state = "live" /\ ~(d2 = d /\ s2 = s)
  BY Zenon, <1>2, <1>4 DEF Kid, Child, Opening
<1>13. content'[d2][s2] = e BY Zenon, <1>3, <1>7, <1>8, <1>10, <1>12 DEF Written
<1>14. content'[d][s].state = "deleted"
  <2>1. w[d][s] \in Entries BY Zenon, <1>2, <1>9
  <2> QED BY Zenon, <1>10, <2>1, Restated
<1>15. ASSUME NEW c \in Clusters, NEW t \in SlotNrs, ~(c = d /\ t = s), ~(c = d2 /\ t = s2)
       PROVE  content'[c][t] = content[c][t]
  <2>1. content'[c][t] = w[c][t] BY Zenon, <1>10, <1>15
  <2>2. w[c][t] = content[c][t] BY Zenon, <1>8, <1>15 DEF Written
  <2> QED BY Zenon, <2>1, <2>2
<1>16. ASSUME NamesFit PROVE Fresh(d2, s2)
  <2>1. e.base = BaseOf(LastName(q)) /\ e.ext = ExtOf(LastName(q)) BY Zenon, <1>6 DEF b, x
  <2>2. Text(e) # <<>> /\ IsPrefixOf(LastName(q), Text(e)) BY Zenon, <1>1, <1>16, <2>1, NewText
  <2>3. \A t : Kid(d2, t) => Text(content[d2][t]) # Text(e) BY Zenon, <1>1, <1>3, <2>2, NotFound
  <2> QED BY Zenon, <2>2, <2>3, <1>13 DEF Fresh
<1>17. /\ e.state = "live" /\ e.base \notin {Dot, DotDot}
       /\ e.attr = content[d][s].attr /\ e.start = content[d][s].start
       /\ content[d][s].attr = "dir" => d = d2
  BY Zenon, <1>1, <1>2, <1>5, <1>6, <1>12
<1>18. Kid(d, s) /\ IsDir(d2) /\ used' = used /\ it' = Gone(d, s) BY Zenon, <1>1, <1>2, <1>3
<1>19. Move(d, s, d2, s2)
  BY Zenon, <1>4, <1>11, <1>13, <1>14, <1>15, <1>16, <1>17, <1>18 DEF Move
<1> QED BY Zenon, <1>19 DEF d, s, d2, s2

\* Where f_setlabel writes.
LEMMA LabelSlotIs ==
  ASSUME LabelSlots # {},
         NEW s, s = CHOOSE t \in LabelSlots : \A u \in LabelSlots : t <= u
  PROVE  /\ s \in SlotNrs /\ ~Kid(ROOT, s)
         /\ content[ROOT][s].state = "free" =>
              \A t \in SlotNrs : t < s => content[ROOT][t].state # "free"
<1>1. LabelSlots \subseteq Nat BY Zenon, Numbers DEF LabelSlots
<1>2. \E t \in LabelSlots : \A u \in LabelSlots : t <= u BY Zenon, <1>1, LeastNat
<1>3. s \in LabelSlots /\ \A u \in LabelSlots : s <= u BY Zenon, <1>2
<1>4. s \in SlotNrs /\ ~Kid(ROOT, s) BY Zenon, <1>3 DEF LabelSlots, Kid, Child
<1>5. ASSUME content[ROOT][s].state = "free", NEW t \in SlotNrs, t < s,
             content[ROOT][t].state = "free"
      PROVE  FALSE
  <2>1. \A u \in 1 .. s - 1 : content[ROOT][u].state # "deleted"
    BY Zenon, <1>3, <1>5 DEF LabelSlots
  <2>2. s \in Nat /\ t \in Nat BY Zenon, <1>4, Numbers
  <2>3. \A u \in 1 .. t - 1 : u \in 1 .. s - 1 BY <1>5, <2>2
  <2>4. t \in LabelSlots BY Zenon, <1>5, <2>1, <2>3 DEF LabelSlots
  <2>5. s <= t BY Zenon, <1>3, <2>4
  <2> QED BY <1>5, <2>2, <2>5
<1> QED BY Zenon, <1>4, <1>5

LEMMA f_setlabelRelabels ==
  ASSUME TreeInv, NEW l \in Labels, f_setlabel(l)
  PROVE  (\E s : Relabel(s)) \/ (content' = content /\ used' = used /\ it' = it)
<1> DEFINE s == CHOOSE t \in LabelSlots : \A u \in LabelSlots : t <= u
           e == [Blank EXCEPT !.state = "live", !.base = l, !.attr = "volume"]
<1>1. /\ content' = IF LabelSlots = {} THEN content ELSE Put(ROOT, s, e)
      /\ used' = used /\ it' = it
  BY Zenon DEF f_setlabel
<1>2. Typed /\ ROOT \in Clusters BY Zenon, Numbers DEF TreeInv
<1>3. CASE LabelSlots = {}
  BY Zenon, <1>1, <1>3
<1>4. CASE LabelSlots # {}
  <2>1. l \in Seq(Letters) /\ 0 \in Nat BY FatDirAssumption
  <2>2. e \in Entries /\ e.state = "live" /\ e.attr = "volume"
    BY Zenon, <2>1, EmptyIsSeq DEF Entries, Blank
  <2>3. s = CHOOSE t \in LabelSlots : \A u \in LabelSlots : t <= u BY Zenon
  <2> HIDE DEF s, e
  <2>4. /\ s \in SlotNrs /\ ~Kid(ROOT, s)
        /\ content[ROOT][s].state = "free" =>
             \A t \in SlotNrs : t < s => content[ROOT][t].state # "free"
    BY Zenon, <1>4, <2>3, LabelSlotIs
  <2>5. Written(content', ROOT, s, e) BY Zenon, <1>1, <1>2, <1>4, <2>2, <2>4, PutIs
  <2>6. Typed' BY Zenon, <1>1, <1>2, <2>5 DEF Typed, Written
  <2>7. /\ Same(ROOT, s, 0) /\ content'[ROOT][s].state = "live"
        /\ content'[ROOT][s].attr = "volume"
    BY Zenon, <2>2, <2>5 DEF Same, Written
  <2>8. Relabel(s) BY Zenon, <1>1, <2>4, <2>6, <2>7 DEF Relabel
  <2> QED BY Zenon, <2>8
<1> QED BY Zenon, <1>3, <1>4

\* The calls that read a directory leave the disk alone.
Reads ==
  \/ \E p \in Paths : f_opendir(p)
  \/ \E p \in Paths, pattern \in Patterns : f_findfirst(p, pattern)
  \/ f_readdir \/ f_closedir

LEMMA ReadsOnly ==
  ASSUME Reads
  PROVE  used' = used /\ content' = content
BY Zenon DEF Reads, f_opendir, f_findfirst, Opened, f_readdir, f_closedir

\* What a step does to the disk and to the open Dir.
Changes ==
  \/ \E d, s, k : Fill(d, s, k)
  \/ \E d, k : Leak(d, k)
  \/ \E d, s : Drop(d, s)
  \/ \E d, s, d2, s2 : Move(d, s, d2, s2)
  \/ \E s : Relabel(s)
  \/ content' = content /\ used' = used /\ (it' = it \/ Reads)

LEMMA StepChanges ==
  ASSUME WellFormed, TreeInv, [Next]_vars
  PROVE  Changes
<1>1. CASE \E p \in Paths : f_open_new(p) BY Zenon, <1>1, f_open_newFills DEF Changes
<1>2. CASE \E p \in Paths : f_mkdir(p) BY Zenon, <1>2, f_mkdirFills DEF Changes
<1>3. CASE \E p \in Paths : f_unlink(p) BY Zenon, <1>3, f_unlinkDrops DEF Changes
<1>4. CASE \E p \in Paths, f \in {"f_open", "f_mkdir"} : create_full(f, p)
  BY Zenon, <1>4, create_fullLeaks DEF Changes
<1>5. CASE \E p, q \in Paths : f_rename(p, q) BY Zenon, <1>5, f_renameMoves DEF Changes
<1>6. CASE \E l \in Labels : f_setlabel(l) BY Zenon, <1>6, f_setlabelRelabels DEF Changes
<1>7. CASE \E p \in Paths, a \in BOOLEAN : f_chdir(p, a) BY Zenon, <1>7 DEF f_chdir, Changes
<1>8. CASE Reads BY Zenon, <1>8, ReadsOnly DEF Changes
<1>9. CASE UNCHANGED vars BY Zenon, <1>9 DEF vars, Changes
<1> QED BY Zenon, <1>1, <1>2, <1>3, <1>4, <1>5, <1>6, <1>7, <1>8, <1>9 DEF Next, Reads

LEMMA TreeSame ==
  ASSUME TreeInv, used' = used, content' = content
  PROVE  TreeInv'
<1>1. \A c, t : Kid(c, t)' <=> Kid(c, t) BY Zenon DEF Kid
<1>2. \A c : IsDir(c)' <=> IsDir(c) BY Zenon, <1>1 DEF IsDir
<1>3. Typed' BY Zenon DEF TreeInv, Typed
<1>4. Owned' BY Zenon, <1>1, <1>2 DEF TreeInv, Owned
<1>5. Own' BY Zenon, <1>1 DEF TreeInv, Own
<1>6. Linked' BY ZenonT(30), <1>1 DEF TreeInv, Linked
<1>7. DotsFirst' BY Zenon DEF TreeInv, DotsFirst
<1>8. Packed' BY Zenon DEF TreeInv, Packed
<1> QED BY Zenon, <1>3, <1>4, <1>5, <1>6, <1>7, <1>8 DEF TreeInv

LEMMA TreeInit == Init => TreeInv
<1> SUFFICES ASSUME Init PROVE TreeInv OBVIOUS
<1>1. used = {ROOT} /\ content = [c \in Clusters |-> Empty] BY Zenon DEF Init
<1>2. \A c \in Clusters, s \in SlotNrs : content[c][s] = Blank BY Zenon, <1>1 DEF Empty
<1>3. Blank.state = "free" BY Zenon DEF Blank
<1>4. \A c, s : ~Kid(c, s) BY <1>2, <1>3 DEF Kid, Child
<1>5. Typed
  <2>1. Empty \in [SlotNrs -> Entries] BY Zenon, EntryTypes DEF Empty
  <2> QED BY Zenon, <1>1, <2>1, Numbers DEF Typed
<1>6. Owned /\ Own /\ Linked BY Zenon, <1>4 DEF Owned, Own, Linked
<1>7. DotsFirst /\ Packed BY <1>2, <1>3 DEF DotsFirst, Packed
<1> QED BY Zenon, <1>5, <1>6, <1>7 DEF TreeInv

LEMMA TreeNext == ASSUME WellFormed PROVE TreeInv /\ [Next]_vars => TreeInv'
<1> SUFFICES ASSUME TreeInv, [Next]_vars PROVE TreeInv' OBVIOUS
<1>1. Changes BY Zenon, StepChanges
<1>2. CASE \E d, s, k : Fill(d, s, k) BY Zenon, <1>2, FillKeeps
<1>3. CASE \E d, k : Leak(d, k) BY Zenon, <1>3, LeakKeeps
<1>4. CASE \E d, s : Drop(d, s) BY Zenon, <1>4, DropKeeps
<1>5. CASE \E d, s, d2, s2 : Move(d, s, d2, s2) BY Zenon, <1>5, MoveKeeps
<1>6. CASE \E s : Relabel(s) BY Zenon, <1>6, RelabelKeeps
<1>7. CASE content' = content /\ used' = used BY Zenon, <1>7, TreeSame
<1> QED BY Zenon, <1>1, <1>2, <1>3, <1>4, <1>5, <1>6, <1>7 DEF Changes

-----------------------------------------------------------------------------
(* The directories the root leads to.                                      *)

Levels == MaxCluster - 3
DirSet == {c \in Clusters : IsDir(c)}

Climbing(g) == g = [n \in 0 .. Levels |-> IF n = 0 THEN {ROOT} ELSE Deeper(g[n - 1])]
Climb       == CHOOSE g : Climbing(g)

LEMMA DirsIsClimb == Dirs = Climb[Levels]
BY Zenon DEF Dirs, Climb, Climbing, Levels

\* An entry of a directory in ds that is a directory.
LEMMA DeeperIs ==
  ASSUME NEW ds, ds \subseteq Clusters, NEW c
  PROVE  c \in Deeper(ds) <=>
           \/ c \in ds
           \/ \E d \in ds, s \in SlotNrs :
                Kid(d, s) /\ content[d][s].attr = "dir" /\ content[d][s].start = c
<1>1. ASSUME NEW x \in ds \X SlotNrs, Child(At(x)), At(x).attr = "dir", c = At(x).start
      PROVE  \E d \in ds, s \in SlotNrs :
               Kid(d, s) /\ content[d][s].attr = "dir" /\ content[d][s].start = c
  <2>1. x[1] \in ds /\ x[2] \in SlotNrs OBVIOUS
  <2>2. Kid(x[1], x[2]) BY Zenon, <1>1, <2>1 DEF Kid, At
  <2> QED BY Zenon, <1>1, <2>1, <2>2 DEF At
<1>2. ASSUME NEW d \in ds, NEW s \in SlotNrs, Kid(d, s), content[d][s].attr = "dir",
             content[d][s].start = c
      PROVE  \E x \in ds \X SlotNrs : Child(At(x)) /\ At(x).attr = "dir" /\ c = At(x).start
  <2>1. <<d, s>> \in ds \X SlotNrs /\ <<d, s>>[1] = d /\ <<d, s>>[2] = s OBVIOUS
  <2>2. At(<<d, s>>) = content[d][s] BY Zenon, <2>1 DEF At
  <2>3. Child(At(<<d, s>>)) BY Zenon, <1>2, <2>2 DEF Kid
  <2> QED BY Zenon, <1>2, <2>1, <2>2, <2>3
<1>3. c \in Deeper(ds) <=>
        c \in ds \/ \E x \in ds \X SlotNrs : Child(At(x)) /\ At(x).attr = "dir" /\ c = At(x).start
  BY Zenon DEF Deeper
<1> QED BY Zenon, <1>1, <1>2, <1>3

LEMMA DeeperIn ==
  ASSUME TreeInv, NEW ds \in SUBSET DirSet
  PROVE  Deeper(ds) \in SUBSET DirSet
<1>1. ds \subseteq Clusters BY Zenon DEF DirSet
<1> SUFFICES ASSUME NEW c \in Deeper(ds) PROVE c \in DirSet OBVIOUS
<1>2. CASE c \in ds BY Zenon, <1>2
<1>3. CASE c \notin ds
  <2>1. IsDir(c) BY Zenon, <1>1, <1>3, DeeperIs DEF IsDir
  <2> QED BY Zenon, <2>1, DirUsed DEF DirSet
<1> QED BY Zenon, <1>2, <1>3

\* The recursive equation of Dirs.
LEMMA ClimbSteps ==
  ASSUME TreeInv
  PROVE  /\ Levels \in Nat /\ Climb[0] = {ROOT}
         /\ \A i \in 1 .. Levels : Climb[i] = Deeper(Climb[i - 1])
         /\ \A i \in 0 .. Levels : Climb[i] \subseteq DirSet
<1> DEFINE n == Levels
           Q == SUBSET DirSet
           F == [i \in 1 .. n |-> [ds \in Q |-> Deeper(ds)]]
<1>1. n \in Nat BY FatDirAssumption DEF Levels
<1>2. {ROOT} \in Q BY Zenon, Numbers DEF DirSet, IsDir
<1>3. \A i \in 1 .. n : \A ds \in Q : F[i][ds] = Deeper(ds) /\ F[i][ds] \in Q BY Zenon, DeeperIn
<1>4. StepsIn(n, Q, F) BY Zenon, <1>3 DEF StepsIn
<1> HIDE DEF F, n, Q
<1>5. PICK g \in [0 .. n -> Q] : Follows(g, n, {ROOT}, F) BY Zenon, <1>1, <1>2, <1>4, Iterates
<1>6. ASSUME NEW i \in 0 .. n PROVE g[i] = IF i = 0 THEN {ROOT} ELSE Deeper(g[i - 1])
  <2>1. CASE i = 0 BY Zenon, <1>5, <2>1 DEF Follows
  <2>2. CASE i # 0
    <3>1. i \in 1 .. n /\ i - 1 \in 0 .. n BY Zenon, <1>1, <2>2, FromZero
    <3>2. g[i - 1] \in Q BY Zenon, <3>1
    <3> QED BY Zenon, <1>3, <1>5, <2>2, <3>1, <3>2 DEF Follows
  <2> QED BY Zenon, <2>1, <2>2
<1>7. g = [i \in 0 .. n |-> g[i]] BY Zenon
<1>8. Climbing(g) BY Zenon, <1>6, <1>7 DEF Climbing, n
<1>9. Climbing(Climb) BY Zenon, <1>8 DEF Climb
<1>10. \A i \in 0 .. n : Climb[i] = IF i = 0 THEN {ROOT} ELSE Deeper(Climb[i - 1])
  BY Zenon, <1>9 DEF Climbing, n
<1>11. /\ 0 \in 0 .. n /\ \A i \in 1 .. n : i \in 0 .. n /\ i # 0
       /\ \A i \in 0 .. n : i \in Nat /\ (i # 0 => i - 1 \in 0 .. n /\ ~(i <= i - 1))
  BY <1>1
<1> DEFINE Bad == {i \in 0 .. n : ~(Climb[i] \in Q)}
<1>12. Bad = {}
  <2> SUFFICES ASSUME Bad # {} PROVE FALSE BY Zenon
  <2>1. PICK i \in Bad : \A j \in Bad : i <= j
    <3>1. Bad \subseteq Nat BY Zenon, <1>11
    <3> HIDE DEF Bad
    <3> QED BY Zenon, <3>1, LeastNat
  <2>2. i \in 0 .. n /\ Climb[i] \notin Q BY Zenon, <2>1
  <2>3. i # 0 BY Zenon, <1>2, <1>10, <2>2
  <2>4. i - 1 \in 0 .. n /\ i - 1 \notin Bad BY Zenon, <1>11, <2>1, <2>2, <2>3
  <2>5. Climb[i - 1] \in Q BY Zenon, <2>4
  <2>6. Climb[i] = Deeper(Climb[i - 1]) BY Zenon, <1>10, <2>2, <2>3
  <2> QED BY Zenon, <2>2, <2>5, <2>6, DeeperIn DEF Q
<1> QED BY Zenon, <1>1, <1>10, <1>11, <1>12 DEF n, Q

LEMMA KidsAre ==
  ASSUME TreeInv, NEW x \in Kids
  PROVE  /\ Kid(x[1], x[2]) /\ x = <<x[1], x[2]>> /\ At(x) = content[x[1]][x[2]]
         /\ IsDir(x[1]) /\ x[1] \in Dirs /\ x[2] \in SlotNrs
<1>1. x \in Dirs \X SlotNrs /\ Child(At(x)) BY Zenon DEF Kids
<1>2. x = <<x[1], x[2]>> /\ x[1] \in Dirs /\ x[2] \in SlotNrs BY <1>1
<1>3. Dirs \subseteq DirSet
  <2>1. Levels \in 0 .. Levels BY Zenon, ClimbSteps, FromZero
  <2> QED BY Zenon, <2>1, ClimbSteps, DirsIsClimb
<1>4. x[1] \in Clusters /\ IsDir(x[1]) BY Zenon, <1>2, <1>3 DEF DirSet
<1> QED BY Zenon, <1>1, <1>2, <1>4 DEF Kid, At

\* The links of a directory are found.
LEMMA DotsFound ==
  ASSUME TreeInv, NEW c, NEW s, Kid(c, s), content[c][s].attr = "dir",
         NEW x, x = content[c][s].start
  PROVE  /\ Find(x, Dot) = 1 /\ content[x][1].start = x
         /\ Find(x, DotDot) = 2 /\ content[x][2].start = c
<1>1. content[x][1] = Link(Dot, x) /\ content[x][2] = Link(DotDot, c) BY Zenon DEF TreeInv, Linked
<1>2. \A n, d : /\ Link(n, d).state = "live" /\ Link(n, d).attr = "dir" /\ Link(n, d).start = d
                /\ Text(Link(n, d)) = n
  BY Zenon DEF Link, Blank, Text
<1>3. /\ content[x][1].state = "live" /\ content[x][1].attr = "dir" /\ Text(content[x][1]) = Dot
      /\ content[x][2].state = "live" /\ content[x][2].attr = "dir" /\ Text(content[x][2]) = DotDot
      /\ content[x][1].start = x /\ content[x][2].start = c
  <2>1. /\ Link(Dot, x).state = "live" /\ Link(Dot, x).attr = "dir"
        /\ Text(Link(Dot, x)) = Dot /\ Link(Dot, x).start = x
    BY Zenon, <1>2
  <2>2. /\ Link(DotDot, c).state = "live" /\ Link(DotDot, c).attr = "dir"
        /\ Text(Link(DotDot, c)) = DotDot /\ Link(DotDot, c).start = c
    BY Zenon, <1>2
  <2> QED BY Zenon, <1>1, <2>1, <2>2
<1>4. /\ IsPrefixOf(Dot, Dot) /\ IsPrefixOf(DotDot, DotDot) /\ ~IsPrefixOf(DotDot, Dot)
      /\ Dot # <<>> /\ DotDot # <<>>
  <2>1. Len(Dot) = 1 /\ Len(DotDot) = 2 BY DEF Dot, DotDot
  <2>2. ~IsPrefixOf(DotDot, Dot) BY <2>1 DEF IsPrefixOf
  <2>3. Dot # <<>> /\ DotDot # <<>> BY <2>1
  <2> QED BY Zenon, <2>2, <2>3, DotNames, PrefixSelf
<1>5. "dir" # "volume" /\ "live" # "free" OBVIOUS
<1>6. /\ Matches(content[x][1], Dot) /\ Matches(content[x][2], DotDot)
      /\ ~Matches(content[x][1], DotDot)
  BY Zenon, <1>3, <1>4, <1>5 DEF Matches, Named
<1>7. \A t \in 1 .. 2 : t = 1 \/ t = 2 OBVIOUS
<1>8. \A t \in 1 .. 1 : t = 1 OBVIOUS
<1>9. 1 \in Hits(x, Dot) BY Zenon, <1>3, <1>5, <1>6, <1>8, Numbers DEF Hits
<1>10. 2 \in Hits(x, DotDot) BY Zenon, <1>3, <1>5, <1>6, <1>7, Numbers DEF Hits
<1>11. Find(x, Dot) \in SlotNrs /\ Find(x, Dot) <= 1 BY Zenon, <1>9, FindFinds
<1>12. /\ Find(x, DotDot) \in SlotNrs /\ Find(x, DotDot) <= 2
       /\ Matches(content[x][Find(x, DotDot)], DotDot)
  BY Zenon, <1>10, FindFinds
<1>13. Find(x, DotDot) # 1 BY Zenon, <1>6, <1>12
<1>14. Find(x, Dot) = 1 BY <1>11 DEF SlotNrs
<1>15. Find(x, DotDot) = 2 BY <1>12, <1>13 DEF SlotNrs
<1> QED BY Zenon, <1>3, <1>14, <1>15

LEMMA TreeInvSound == TreeInv => TreeSound
<1> SUFFICES ASSUME TreeInv PROVE TreeSound OBVIOUS
<1>1. InTree \subseteq used
  <2>1. ROOT \in used BY Zenon DEF TreeInv, Typed
  <2>2. ASSUME NEW x \in Kids PROVE At(x).start \in used
    <3>1. Kid(x[1], x[2]) /\ At(x) = content[x[1]][x[2]] BY Zenon, KidsAre
    <3>2. content[x[1]][x[2]].start \in used BY Zenon, <3>1 DEF TreeInv, Owned
    <3> QED BY Zenon, <3>1, <3>2
  <2> QED BY Zenon, <2>1, <2>2 DEF InTree
<1>2. ASSUME NEW x \in Kids, NEW y \in Kids
      PROVE  At(x).start # ROOT /\ (At(x).start = At(y).start => x = y)
  <2>1. /\ Kid(x[1], x[2]) /\ At(x) = content[x[1]][x[2]] /\ x = <<x[1], x[2]>>
        /\ Kid(y[1], y[2]) /\ At(y) = content[y[1]][y[2]] /\ y = <<y[1], y[2]>>
    BY Zenon, KidsAre
  <2>2. content[x[1]][x[2]].start # ROOT BY Zenon, <2>1 DEF TreeInv, Owned
  <2>3. content[x[1]][x[2]].start = content[y[1]][y[2]].start => x[1] = y[1] /\ x[2] = y[2]
    BY Zenon, <2>1 DEF TreeInv, Own
  <2> QED BY Zenon, <2>1, <2>2, <2>3
<1>3. ASSUME NEW x \in Kids, At(x).attr = "dir"
      PROVE  /\ Find(At(x).start, Dot) = 1 /\ content[At(x).start][1].start = At(x).start
             /\ Find(At(x).start, DotDot) = 2 /\ content[At(x).start][2].start = x[1]
  <2>1. Kid(x[1], x[2]) /\ At(x) = content[x[1]][x[2]] BY Zenon, KidsAre
  <2> DEFINE c == x[1]
             s == x[2]
             y == content[c][s].start
  <2>2. Kid(c, s) /\ content[c][s].attr = "dir" /\ y = content[c][s].start BY Zenon, <1>3, <2>1
  <2> HIDE DEF c, s, y
  <2>3. /\ Find(y, Dot) = 1 /\ content[y][1].start = y
        /\ Find(y, DotDot) = 2 /\ content[y][2].start = c
    BY SMT, <2>2, DotsFound
  <2> QED BY Zenon, <2>1, <2>3 DEF c, s, y
<1> QED BY Zenon, <1>1, <1>2, <1>3 DEF TreeSound

\* However clients make, delete and rename files and empty directories, on a
\* volume of any size and with any names: every entry of the tree has a cluster
\* in use of its own, and "." and ".." lead where they should.
THEOREM TreeSoundHolds == ASSUME WellFormed PROVE Spec => []TreeSound
<1> QED BY TreeInit, TreeNext, TreeInvSound, PTL DEF Spec

=============================================================================
