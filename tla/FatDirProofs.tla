---------------------------- MODULE FatDirProofs ----------------------------
(***************************************************************************)
(* More proofs about FatDir, from the invariant of FatTreeProofs: names,   *)
(* listings, and clusters that no entry leads to.                          *)
(***************************************************************************)
EXTENDS FatTreeProofs

-----------------------------------------------------------------------------
(* Names.                                                                  *)

\* Files and directories have names, and those of one directory differ.
HasName(c, s)     == Text(content[c][s]) # <<>>
SameName(c, s, t) == Text(content[c][s]) = Text(content[c][t])
Names ==
  /\ \A c, s : Kid(c, s) => HasName(c, s)
  /\ \A c, s, t : Kid(c, s) /\ Kid(c, t) /\ SameName(c, s, t) => s = t

\* Entries that stay as they are keep their names apart.
LEMMA NamesStay ==
  ASSUME Names, \A c, t : Kid(c, t)' => Kid(c, t) /\ content'[c][t] = content[c][t]
  PROVE  Names'
<1>1. ASSUME NEW c, NEW s, Kid(c, s)' PROVE HasName(c, s)'
  <2>1. Kid(c, s) /\ content'[c][s] = content[c][s] BY Zenon, <1>1
  <2>2. HasName(c, s) BY Zenon, <2>1 DEF Names
  <2> QED BY Zenon, <2>1, <2>2 DEF HasName
<1>2. ASSUME NEW c, NEW s, NEW t, Kid(c, s)', Kid(c, t)', SameName(c, s, t)' PROVE s = t
  <2>1. /\ Kid(c, s) /\ content'[c][s] = content[c][s]
        /\ Kid(c, t) /\ content'[c][t] = content[c][t]
    BY Zenon, <1>2
  <2>2. SameName(c, s, t) BY Zenon, <1>2, <2>1 DEF SameName
  <2> QED BY Zenon, <2>1, <2>2 DEF Names
<1> QED BY Zenon, <1>1, <1>2 DEF Names

\* An entry with a fresh name comes to slot s of d, and some may go.
LEMMA NamesGrow ==
  ASSUME Names, NEW d, NEW s, Fresh(d, s),
         \A c, t : Kid(c, t)' /\ ~(c = d /\ t = s) =>
                     Kid(c, t) /\ content'[c][t] = content[c][t]
  PROVE  Names'
<1>1. ASSUME NEW c, NEW u, Kid(c, u)' PROVE HasName(c, u)'
  <2>1. CASE c = d /\ u = s BY Zenon, <2>1 DEF Fresh, HasName
  <2>2. CASE ~(c = d /\ u = s)
    <3>1. Kid(c, u) /\ content'[c][u] = content[c][u] BY Zenon, <1>1, <2>2
    <3>2. HasName(c, u) BY Zenon, <3>1 DEF Names
    <3> QED BY Zenon, <3>1, <3>2 DEF HasName
  <2> QED BY Zenon, <2>1, <2>2
<1>2. ASSUME NEW u, Kid(d, u)', u # s PROVE ~SameName(d, u, s)' /\ ~SameName(d, s, u)'
  <2>1. Kid(d, u) /\ content'[d][u] = content[d][u] BY Zenon, <1>2
  <2>2. Text(content[d][u]) # Text(content'[d][s]) BY Zenon, <2>1 DEF Fresh
  <2>3. Text(content'[d][u]) # Text(content'[d][s]) BY Zenon, <2>1, <2>2
  <2> QED BY Zenon, <2>3 DEF SameName
<1>3. ASSUME NEW c, NEW u, NEW t, Kid(c, u)', Kid(c, t)', SameName(c, u, t)' PROVE u = t
  <2>1. CASE c = d /\ (u = s \/ t = s) BY Zenon, <1>2, <1>3, <2>1
  <2>2. CASE ~(c = d /\ (u = s \/ t = s))
    <3>1. Kid(c, u) /\ content'[c][u] = content[c][u] BY Zenon, <1>3, <2>2
    <3>2. Kid(c, t) /\ content'[c][t] = content[c][t] BY Zenon, <1>3, <2>2
    <3>3. SameName(c, u, t) BY Zenon, <1>3, <3>1, <3>2 DEF SameName
    <3> QED BY Zenon, <3>1, <3>2, <3>3 DEF Names
  <2> QED BY Zenon, <2>1, <2>2
<1> QED BY Zenon, <1>1, <1>3 DEF Names

LEMMA NamesInit == Init => Names
<1> SUFFICES ASSUME Init PROVE Names OBVIOUS
<1>1. \A c \in Clusters, s \in SlotNrs : content[c][s] = Blank BY Zenon DEF Init, Empty
<1>2. \A c, s : ~Kid(c, s) BY <1>1 DEF Kid, Child, Blank
<1> QED BY Zenon, <1>2 DEF Names

LEMMA NamesNext ==
  ASSUME WellFormed, NamesFit PROVE TreeInv /\ Names /\ [Next]_vars => Names'
<1> SUFFICES ASSUME TreeInv, Names, [Next]_vars PROVE Names' OBVIOUS
<1>1. Changes BY Zenon, StepChanges
<1>2. ASSUME KidsStay PROVE Names' BY Zenon, <1>2, NamesStay DEF KidsStay
<1>3. ASSUME NEW d, NEW s, NEW k, Fill(d, s, k) PROVE Names'
  <2>1. KidsGrow(d, s) /\ Fresh(d, s) BY Zenon, <1>3, FillKids DEF Fill
  <2>2. \A c, t : Kid(c, t)' /\ ~(c = d /\ t = s) => Kid(c, t) /\ content'[c][t] = content[c][t]
    BY Zenon, <2>1 DEF KidsGrow
  <2> QED BY Zenon, <2>1, <2>2, NamesGrow
<1>4. ASSUME NEW d, NEW s, Drop(d, s) PROVE Names'
  <2>1. KidsShrink(d, s) BY Zenon, <1>4, DropKids
  <2> QED BY Zenon, <2>1, NamesStay DEF KidsShrink
<1>5. ASSUME NEW d, NEW s, NEW d2, NEW s2, Move(d, s, d2, s2) PROVE Names'
  <2>1. KidsMove(d, s, d2, s2) /\ Fresh(d2, s2) BY Zenon, <1>5, MoveKids DEF Move
  <2>2. \A c, t : Kid(c, t)' /\ ~(c = d2 /\ t = s2) => Kid(c, t) /\ content'[c][t] = content[c][t]
    BY Zenon, <2>1 DEF KidsMove, Other
  <2> QED BY Zenon, <2>1, <2>2, NamesGrow
<1>6. CASE \E d, k : Leak(d, k) BY Zenon, <1>2, <1>6, LeakKids
<1>7. CASE \E s : Relabel(s) BY Zenon, <1>2, <1>7, RelabelKids
<1>8. CASE content' = content /\ used' = used
  <2>1. KidsStay BY Zenon, <1>8 DEF KidsStay, Kid
  <2> QED BY Zenon, <1>2, <2>1
<1> QED BY Zenon, <1>1, <1>3, <1>4, <1>5, <1>6, <1>7, <1>8 DEF Changes

LEMMA NamesUnique == TreeInv /\ Names => UniqueNames
<1> SUFFICES ASSUME TreeInv, Names, NEW x \in Kids, NEW y \in Kids, x[1] = y[1],
                    Text(At(x)) = Text(At(y))
             PROVE  x = y
  BY Zenon DEF UniqueNames
<1>1. /\ Kid(x[1], x[2]) /\ x = <<x[1], x[2]>> /\ At(x) = content[x[1]][x[2]]
      /\ Kid(y[1], y[2]) /\ y = <<y[1], y[2]>> /\ At(y) = content[y[1]][y[2]]
  BY Zenon, KidsAre
<1>2. x[2] = y[2] BY Zenon, <1>1 DEF Names, SameName
<1> QED BY Zenon, <1>1, <1>2

\* As long as names keep to 8.3, no directory comes to have two entries of one
\* name, also where f_mkdir leaves the extension of the slot's old entry behind
\* the new name.
THEOREM UniqueNamesHolds ==
  ASSUME WellFormed, NamesFit PROVE Spec => []UniqueNames
<1> QED BY TreeInit, TreeNext, NamesInit, NamesNext, NamesUnique, PTL DEF Spec

-----------------------------------------------------------------------------
(* Patterns: match_pattern is a recursive function, Like says what a pattern *)
(* means.                                                                    *)

\* The i-th symbol of the pattern takes the name from place x to place y.
Piece(name, pat, i, x, y) ==
  IF pat[i] = "*" THEN x <= y ELSE y = x + 1 /\ pat[i] \in {"?", name[y]}

\* The symbols after the p-th cut the rest of the name, from place n, so.
Cuts(name, pat, p, n, cut) ==
  /\ cut \in [p .. Len(pat) -> 0 .. Len(name)]
  /\ cut[p] = n /\ cut[Len(pat)] = Len(name)
  /\ \A i \in p + 1 .. Len(pat) : Piece(name, pat, i, cut[i - 1], cut[i])
Rest(name, pat, p) == {n \in 0 .. Len(name) : \E cut : Cuts(name, pat, p, n, cut)}

LEMMA RestLast ==
  ASSUME NEW name, NEW pat, Len(name) \in Nat, Len(pat) \in Nat
  PROVE  Rest(name, pat, Len(pat)) = {Len(name)}
<1> DEFINE N == Len(name)
           L == Len(pat)
           cut == [i \in L .. L |-> N]
<1>1. N \in 0 .. N /\ L \in L .. L /\ L + 1 .. L = {} OBVIOUS
<1>2. cut \in [L .. L -> 0 .. N] /\ cut[L] = N BY Zenon, <1>1
<1>3. Cuts(name, pat, L, N, cut) BY Zenon, <1>1, <1>2 DEF Cuts
<1>4. \A n, c : Cuts(name, pat, L, n, c) => n = N BY Zenon DEF Cuts
<1> HIDE DEF cut
<1> QED BY Zenon, <1>1, <1>3, <1>4 DEF Rest

LEMMA RestStep ==
  ASSUME NEW name, NEW pat, Len(name) \in Nat, Len(pat) \in Nat,
         NEW p \in 0 .. Len(pat), p # Len(pat), NEW n \in 0 .. Len(name)
  PROVE  n \in Rest(name, pat, p) <=>
           \E y \in Rest(name, pat, p + 1) : Piece(name, pat, p + 1, n, y)
<1> DEFINE N == Len(name)
           L == Len(pat)
<1>1. /\ p \in p .. L /\ p + 1 \in p .. L /\ L \in p .. L /\ p \in Nat
      /\ p + 1 \in p + 1 .. L /\ L \in p + 1 .. L /\ p + 1 - 1 = p /\ p + 1 # p /\ L # p
      /\ \A i \in p + 1 .. L : i \in p .. L /\ i # p
      /\ \A i \in p .. L : i # p => i \in p + 1 .. L
      /\ \A i \in p + 1 + 1 .. L :
           i \in p + 1 .. L /\ i - 1 \in p + 1 .. L /\ i # p /\ i - 1 # p /\ i - 1 \in p .. L
      /\ \A i \in p + 1 .. L : i # p + 1 => i \in p + 1 + 1 .. L
  OBVIOUS
<1>2. ASSUME NEW cut, Cuts(name, pat, p, n, cut)
      PROVE  \E y \in Rest(name, pat, p + 1) : Piece(name, pat, p + 1, n, y)
  <2> DEFINE c == [i \in p + 1 .. L |-> cut[i]]
             y == cut[p + 1]
  <2>1. /\ cut \in [p .. L -> 0 .. N] /\ cut[p] = n /\ cut[L] = N
        /\ \A i \in p + 1 .. L : Piece(name, pat, i, cut[i - 1], cut[i])
    BY Zenon, <1>2 DEF Cuts
  <2>2. y \in 0 .. N /\ Piece(name, pat, p + 1, n, y)
    <3>1. PICK q \in p + 1 .. L : q = p + 1 BY Zenon, <1>1
    <3>2. Piece(name, pat, q, cut[q - 1], cut[q]) BY Zenon, <2>1
    <3>3. q - 1 = p BY <3>1
    <3>4. cut[q] \in 0 .. N BY Zenon, <1>1, <2>1
    <3> QED BY Zenon, <2>1, <3>1, <3>2, <3>3, <3>4
  <2>3. c \in [p + 1 .. L -> 0 .. N] /\ c[p + 1] = y /\ c[L] = N BY Zenon, <1>1, <2>1
  <2>4. \A i \in p + 1 + 1 .. L : Piece(name, pat, i, c[i - 1], c[i]) BY Zenon, <1>1, <2>1
  <2>5. Cuts(name, pat, p + 1, y, c) BY Zenon, <2>3, <2>4 DEF Cuts
  <2> HIDE DEF c, y
  <2> QED BY Zenon, <2>2, <2>5 DEF Rest
<1>3. ASSUME NEW y \in 0 .. N, Piece(name, pat, p + 1, n, y),
             NEW c, Cuts(name, pat, p + 1, y, c)
      PROVE  n \in Rest(name, pat, p)
  <2> DEFINE cut == [i \in p .. L |-> IF i = p THEN n ELSE c[i]]
  <2>1. /\ c \in [p + 1 .. L -> 0 .. N] /\ c[p + 1] = y /\ c[L] = N
        /\ \A i \in p + 1 + 1 .. L : Piece(name, pat, i, c[i - 1], c[i])
    BY Zenon, <1>3 DEF Cuts
  <2>2. cut \in [p .. L -> 0 .. N] BY Zenon, <1>1, <2>1
  <2>3. cut[p] = n /\ cut[L] = N /\ cut[p + 1] = y BY Zenon, <1>1, <2>1
  <2>4. ASSUME NEW i \in p + 1 .. L PROVE Piece(name, pat, i, cut[i - 1], cut[i])
    <3>1. CASE i = p + 1
      <4>1. i - 1 = p BY <3>1
      <4>2. cut[i - 1] = n /\ cut[i] = y BY Zenon, <2>3, <3>1, <4>1
      <4> HIDE DEF cut
      <4> QED BY Zenon, <1>3, <3>1, <4>2
    <3>2. CASE i # p + 1
      <4>1. i \in p + 1 + 1 .. L BY Zenon, <1>1, <3>2
      <4>2. cut[i] = c[i] /\ cut[i - 1] = c[i - 1] BY Zenon, <1>1, <4>1
      <4> QED BY Zenon, <2>1, <4>1, <4>2
    <3> QED BY Zenon, <3>1, <3>2
  <2>5. Cuts(name, pat, p, n, cut) BY Zenon, <2>2, <2>3, <2>4 DEF Cuts
  <2> HIDE DEF cut
  <2> QED BY Zenon, <2>5 DEF Rest
<1> QED BY Zenon, <1>2, <1>3 DEF Rest

\* The places a star tries end here.
Reach(name) == IF Len(name) < BaseLen + ExtLen THEN Len(name) ELSE BaseLen + ExtLen

\* The recursive equation of match_pattern.
Tried(name, pat, p, n, rest) ==
  IF pat[p + 1] = "*" THEN \E k \in {n} \cup n .. Reach(name) : k \in rest
  ELSE n < Len(name) /\ pat[p + 1] \in {"?", name[n + 1]} /\ n + 1 \in rest
Matching(g, name, pat) ==
  g = [p \in 0 .. Len(pat) |->
         IF p = Len(pat) THEN {Len(name)}
         ELSE {n \in 0 .. Len(name) : Tried(name, pat, p, n, g[p + 1])}]
Matcher(name, pat) == CHOOSE g : Matching(g, name, pat)

LEMMA MatchIsMatcher ==
  ASSUME NEW name, NEW pat
  PROVE  match_pattern(name, pat) <=> pat = <<>> \/ 0 \in Matcher(name, pat)[0]
BY Zenon DEF match_pattern, Matcher, Matching, Tried, Reach

LEMMA TriedIs ==
  ASSUME NEW name, NEW pat, Len(name) \in Nat, NEW p \in Nat, NEW n \in 0 .. Len(name),
         NEW rest, rest \subseteq 0 .. Len(name), Reach(name) = Len(name)
  PROVE  Tried(name, pat, p, n, rest) <=> \E y \in rest : Piece(name, pat, p + 1, n, y)
<1> DEFINE N == Len(name)
<1>1. CASE pat[p + 1] = "*"
  <2>1. \A y \in rest : y \in n .. N <=> n <= y OBVIOUS
  <2>2. n \in n .. N OBVIOUS
  <2>3. Tried(name, pat, p, n, rest) <=> \E k \in {n} \cup n .. N : k \in rest
    BY Zenon, <1>1 DEF Tried
  <2>4. \A y : Piece(name, pat, p + 1, n, y) <=> n <= y BY Zenon, <1>1 DEF Piece
  <2> QED BY Zenon, <2>1, <2>2, <2>3, <2>4
<1>2. CASE pat[p + 1] # "*"
  <2>1. n + 1 \in rest => n < N OBVIOUS
  <2>2. Tried(name, pat, p, n, rest)
          <=> n < N /\ pat[p + 1] \in {"?", name[n + 1]} /\ n + 1 \in rest
    BY Zenon, <1>2 DEF Tried
  <2>3. \A y : Piece(name, pat, p + 1, n, y) <=> y = n + 1 /\ pat[p + 1] \in {"?", name[y]}
    BY Zenon, <1>2 DEF Piece
  <2> QED BY Zenon, <2>1, <2>2, <2>3
<1> QED BY Zenon, <1>1, <1>2

LEMMA MatcherIsRest ==
  ASSUME NEW name, NEW pat, Len(name) \in Nat, Len(pat) \in Nat, Reach(name) = Len(name)
  PROVE  Matcher(name, pat)[0] = Rest(name, pat, 0)
<1> DEFINE N == Len(name)
           L == Len(pat)
           R(p) == Rest(name, pat, p)
           m == Matcher(name, pat)
<1>1. \A p : R(p) \subseteq 0 .. N BY Zenon DEF Rest
<1>2. ASSUME NEW p \in 0 .. L, p # L
      PROVE  R(p) = {n \in 0 .. N : Tried(name, pat, p, n, R(p + 1))}
  <2>1. p \in Nat BY Zenon, FromZero
  <2>2. \A n \in 0 .. N : Tried(name, pat, p, n, R(p + 1))
                            <=> \E y \in R(p + 1) : Piece(name, pat, p + 1, n, y)
    BY Zenon, <1>1, <2>1, TriedIs
  <2>3. \A n \in 0 .. N : n \in R(p) <=> \E y \in R(p + 1) : Piece(name, pat, p + 1, n, y)
    BY Zenon, <1>2, RestStep
  <2> QED BY Zenon, <1>1, <2>2, <2>3
<1>3. R(L) = {N} BY Zenon, RestLast
<1>4. \A p \in 0 .. L : p # L => p + 1 \in 0 .. L OBVIOUS
<1> DEFINE g == [p \in 0 .. L |-> R(p)]
<1>5. ASSUME NEW p \in 0 .. L
      PROVE  g[p] = IF p = L THEN {N} ELSE {n \in 0 .. N : Tried(name, pat, p, n, g[p + 1])}
  <2>1. CASE p = L BY Zenon, <1>3, <2>1
  <2>2. CASE p # L
    <3>1. g[p] = R(p) /\ g[p + 1] = R(p + 1) BY Zenon, <1>4, <2>2
    <3> QED BY Zenon, <1>2, <2>2, <3>1
  <2> QED BY Zenon, <2>1, <2>2
<1>6. Matching(g, name, pat) BY Zenon, <1>5 DEF Matching
<1>7. Matching(m, name, pat)
  <2> HIDE DEF g
  <2> QED BY Zenon, <1>6 DEF Matcher
<1>8. \A p \in 0 .. L :
        m[p] = IF p = L THEN {N} ELSE {n \in 0 .. N : Tried(name, pat, p, n, m[p + 1])}
  <2> HIDE DEF m
  <2> QED BY Zenon, <1>7 DEF Matching
<1> DEFINE Bad == {i \in 0 .. L : m[L - i] # R(L - i)}
<1> HIDE DEF m
<1>9. Bad = {}
  <2> SUFFICES ASSUME Bad # {} PROVE FALSE BY Zenon
  <2>1. PICK i \in Bad : \A k \in Bad : i <= k
    <3>1. Bad \subseteq Nat BY Zenon, FromZero
    <3> HIDE DEF Bad
    <3> QED BY Zenon, <3>1, LeastNat
  <2>2. i \in 0 .. L /\ m[L - i] # R(L - i) BY Zenon, <2>1
  <2>3. L - 0 = L /\ L \in 0 .. L OBVIOUS
  <2>4. i # 0 BY Zenon, <1>3, <1>8, <2>2, <2>3
  <2>5. /\ i - 1 \in 0 .. L /\ ~(i <= i - 1) /\ L - i \in 0 .. L /\ L - i # L
        /\ L - i + 1 = L - (i - 1)
    BY <2>2, <2>4
  <2>6. m[L - i + 1] = R(L - i + 1) BY Zenon, <2>1, <2>5
  <2> DEFINE q == L - i
  <2>7. /\ q \in 0 .. L /\ q # L /\ m[q] # R(q) /\ m[q + 1] = R(q + 1)
    BY Zenon, <2>2, <2>5, <2>6
  <2> HIDE DEF q
  <2>8. m[q] = {n \in 0 .. N : Tried(name, pat, q, n, m[q + 1])} BY Zenon, <1>8, <2>7
  <2>9. R(q) = {n \in 0 .. N : Tried(name, pat, q, n, R(q + 1))} BY Zenon, <1>2, <2>7
  <2> QED BY Zenon, <2>7, <2>8, <2>9
<1>10. L \in 0 .. L /\ L - L = 0 OBVIOUS
<1> QED BY Zenon, <1>9, <1>10 DEF m

\* match_pattern takes the names that a pattern means.
LEMMA MatchIsLike ==
  ASSUME NEW name, NEW pat, Len(name) \in Nat, Len(pat) \in Nat,
         pat = <<>> \/ Len(name) <= BaseLen + ExtLen
  PROVE  match_pattern(name, pat) <=> Like(name, pat)
<1>1. CASE pat = <<>> BY Zenon, <1>1 DEF match_pattern, Like
<1>2. CASE pat # <<>>
  <2>0. Reach(name) = Len(name) BY <1>2, FatDirAssumption DEF Reach
  <2>1. match_pattern(name, pat) <=> 0 \in Rest(name, pat, 0)
    BY Zenon, <1>2, <2>0, MatchIsMatcher, MatcherIsRest
  <2>2. 0 \in 0 .. Len(name) /\ 0 + 1 .. Len(pat) = 1 .. Len(pat) OBVIOUS
  <2>3. 0 \in Rest(name, pat, 0) <=> \E cut : Cuts(name, pat, 0, 0, cut)
    BY Zenon, <2>2 DEF Rest
  <2>4. ASSUME NEW cut \in [0 .. Len(pat) -> 0 .. Len(name)], NEW i \in 1 .. Len(pat)
        PROVE  Piece(name, pat, i, cut[i - 1], cut[i]) <=>
                 IF pat[i] = "*" THEN cut[i - 1] <= cut[i]
                 ELSE cut[i] = cut[i - 1] + 1 /\ pat[i] \in {"?", name[cut[i]]}
    BY Zenon DEF Piece
  <2>5. Like(name, pat) <=> \E cut : Cuts(name, pat, 0, 0, cut)
    BY Zenon, <1>2, <2>2, <2>4 DEF Like, Cuts
  <2> QED BY Zenon, <2>1, <2>3, <2>5
<1> QED BY Zenon, <1>1, <1>2

-----------------------------------------------------------------------------
(* Reading a directory while it changes.                                   *)

Iterators ==
  [dir : Clusters, next : 1 .. SlotCount + 1, ended : BOOLEAN, pattern : Seq(Letters),
   seen : SUBSET Nat, kept : SUBSET SlotNrs]

\* The entry is the label, or it was returned if the pattern matches it.
Shown(e, s, seen, pattern) ==
  e.attr = "volume" \/ (s \in seen <=> match_pattern(Text(e), pattern))

\* A Dir i over the contents C with the clusters U in use: what was there from
\* the start and stayed is live, and what is behind the Dir was returned if it
\* should be.
ReadOk(i, C, U) ==
  /\ i \in Iterators /\ i.dir \in U
  /\ \A s \in i.kept : C[i.dir][s].state = "live"
  /\ \A s \in i.kept : s < i.next \/ i.ended => Shown(C[i.dir][s], s, i.seen, i.pattern)
  /\ \A s \in i.seen : s < i.next
Reading == it = NoDir \/ ReadOk(it, content, used)

\* Dir j is Dir i, or less of what was there has stayed.
Narrows(i, j) ==
  /\ j \in Iterators /\ j.kept \subseteq i.kept
  /\ j.dir = i.dir /\ j.next = i.next /\ j.ended = i.ended /\ j.pattern = i.pattern
  /\ j.seen = i.seen

\* What stayed is as it was, or it is the label.
KeptSame(j, C, D) ==
  \A s \in j.kept : \/ D[j.dir][s] = C[j.dir][s]
                    \/ D[j.dir][s].state = "live" /\ D[j.dir][s].attr = "volume"

LEMMA ReadStays ==
  ASSUME NEW i, NEW j, NEW C, NEW D, NEW U, NEW V,
         ReadOk(i, C, U), Narrows(i, j), KeptSame(j, C, D), i.dir \in V
  PROVE  ReadOk(j, D, V)
<1>1. /\ \A s \in i.kept : C[i.dir][s].state = "live"
      /\ \A s \in i.kept : s < i.next \/ i.ended => Shown(C[i.dir][s], s, i.seen, i.pattern)
      /\ \A s \in i.seen : s < i.next
  BY Zenon DEF ReadOk
<1>2. /\ j \in Iterators /\ j.kept \subseteq i.kept
      /\ j.dir = i.dir /\ j.next = i.next /\ j.ended = i.ended /\ j.pattern = i.pattern
      /\ j.seen = i.seen
  BY Zenon DEF Narrows
<1>3. ASSUME NEW s \in j.kept
      PROVE  /\ D[j.dir][s].state = "live"
             /\ s < j.next \/ j.ended => Shown(D[j.dir][s], s, j.seen, j.pattern)
  <2>1. s \in i.kept BY Zenon, <1>2
  <2>2. CASE D[j.dir][s] = C[j.dir][s]
    <3>1. D[j.dir][s] = C[i.dir][s] BY Zenon, <1>2, <2>2
    <3>2. s < j.next \/ j.ended => s < i.next \/ i.ended BY Zenon, <1>2
    <3>3. Shown(C[i.dir][s], s, i.seen, i.pattern) => Shown(D[j.dir][s], s, j.seen, j.pattern)
      BY Zenon, <1>2, <3>1
    <3> QED BY Zenon, <1>1, <2>1, <3>1, <3>2, <3>3
  <2>3. CASE D[j.dir][s].state = "live" /\ D[j.dir][s].attr = "volume"
    BY Zenon, <2>3 DEF Shown
  <2> QED BY Zenon, <2>2, <2>3 DEF KeptSame
<1>4. \A s \in j.seen : s < j.next BY Zenon, <1>1, <1>2
<1> QED BY Zenon, <1>2, <1>3, <1>4 DEF ReadOk

LEMMA NarrowsSelf ==
  ASSUME NEW i \in Iterators
  PROVE  Narrows(i, i)
BY Zenon DEF Narrows

LEMMA GoneNarrows ==
  ASSUME it \in Iterators, NEW d, NEW s
  PROVE  Narrows(it, Gone(d, s)) /\ (it.dir = d => s \notin Gone(d, s).kept)
<1>1. CASE it.dir = d
  <2> DEFINE j == [it EXCEPT !.kept = @ \ {s}]
  <2>1. Gone(d, s) = j BY Zenon, <1>1 DEF Gone
  <2>2. /\ j \in Iterators /\ j.kept = it.kept \ {s}
        /\ j.dir = it.dir /\ j.next = it.next /\ j.ended = it.ended /\ j.pattern = it.pattern
        /\ j.seen = it.seen
    BY DEF Iterators
  <2> HIDE DEF j
  <2>3. j.kept \subseteq it.kept /\ s \notin j.kept BY Zenon, <2>2
  <2> QED BY Zenon, <2>1, <2>2, <2>3 DEF Narrows
<1>2. CASE it.dir # d
  <2>1. Gone(d, s) = it BY Zenon, <1>2 DEF Gone
  <2> QED BY Zenon, <1>2, <2>1, NarrowsSelf
<1> QED BY Zenon, <1>1, <1>2

\* What stayed is a live slot of a directory.
LEMMA KeptLive ==
  ASSUME Typed, ReadOk(it, content, used), NEW s \in it.kept
  PROVE  it.dir \in Clusters /\ s \in SlotNrs /\ content[it.dir][s].state = "live"
<1>1. it \in Iterators /\ it.dir \in used BY Zenon DEF ReadOk
<1>2. it.dir \in Clusters BY Zenon, <1>1 DEF Typed
<1>3. it.kept \subseteq SlotNrs BY <1>1 DEF Iterators
<1> QED BY Zenon, <1>2, <1>3 DEF ReadOk

LEMMA ReadKeeps ==
  ASSUME Typed, ReadOk(it, content, used), Narrows(it, it'), it.dir \in used',
         \A s \in it'.kept : s \in SlotNrs /\ content[it.dir][s].state = "live" =>
           \/ content'[it.dir][s] = content[it.dir][s]
           \/ content'[it.dir][s].state = "live" /\ content'[it.dir][s].attr = "volume"
  PROVE  Reading'
<1>1. it'.kept \subseteq it.kept /\ it'.dir = it.dir BY Zenon DEF Narrows
<1>2. KeptSame(it', content, content') BY Zenon, <1>1, KeptLive DEF KeptSame
<1>3. ReadOk(it', content', used') BY Zenon, <1>2, ReadStays
<1> QED BY Zenon, <1>3 DEF Reading

\* Every file and directory, "." and ".." too, has a name.
LEMMA HasText ==
  ASSUME TreeInv, Names, NEW d \in Clusters, NEW s \in SlotNrs,
         content[d][s].state = "live", content[d][s].attr # "volume"
  PROVE  Text(content[d][s]) # <<>>
<1> DEFINE e == content[d][s]
<1>1. CASE e.base \notin {Dot, DotDot}
  <2>1. Kid(d, s) BY Zenon, <1>1 DEF Kid, Child
  <2> QED BY Zenon, <2>1 DEF Names, HasName
<1>2. CASE e.base \in {Dot, DotDot}
  <2>1. e.base # <<>> BY <1>2 DEF Dot, DotDot
  <2>2. e \in Entries BY Zenon DEF TreeInv, Typed
  <2>3. e.base \in Seq(Letters) /\ e.ext \in Seq(Letters) /\ Dot \in Seq(Letters)
    BY <2>2, FatDirAssumption DEF Entries, Dot
  <2> HIDE DEF e
  <2>4. e.base \o Dot \o e.ext # <<>> BY <2>1, <2>3
  <2> QED BY Zenon, <2>1, <2>4 DEF Text, e
<1> QED BY Zenon, <1>1, <1>2

\* f_readdir stops at the first place that it should.
Stops(d, s, pattern) ==
  Ends(d, s) \/ (Named(content[d][s]) /\ match_pattern(Text(content[d][s]), pattern))

LEMMA NextMatchIs ==
  ASSUME NEW d, NEW next \in 1 .. SlotCount + 1, NEW pattern
  PROVE  LET s == NextMatch(d, next, pattern) IN
           /\ s \in next .. SlotCount + 1 /\ Stops(d, s, pattern)
           /\ \A t \in next .. SlotCount + 1 : t < s => ~Stops(d, t, pattern)
<1> DEFINE from == {s \in next .. SlotCount + 1 : Stops(d, s, pattern)}
           s == NextMatch(d, next, pattern)
<1>1. /\ SlotCount + 1 \in next .. SlotCount + 1 /\ SlotCount + 1 \notin SlotNrs
      /\ next .. SlotCount + 1 \subseteq Nat
  BY FatDirAssumption DEF SlotNrs
<1>2. SlotCount + 1 \in from BY Zenon, <1>1 DEF Stops, Ends
<1>3. s = CHOOSE x \in from : \A t \in from : x <= t BY Zenon DEF NextMatch, Stops
<1>4. from \subseteq Nat BY Zenon, <1>1
<1>5. \A t \in next .. SlotCount + 1 : Stops(d, t, pattern) => t \in from BY Zenon
<1>6. \A t \in from : t \in next .. SlotCount + 1 /\ Stops(d, t, pattern) BY Zenon
<1> HIDE DEF from, s
<1>7. s \in from /\ \A t \in from : s <= t
  <2>1. \E x \in from : \A t \in from : x <= t BY Zenon, <1>2, <1>4, LeastNat
  <2> QED BY Zenon, <1>3, <2>1
<1>8. ASSUME NEW t \in next .. SlotCount + 1, t < s, Stops(d, t, pattern) PROVE FALSE
  <2>1. s <= t /\ s \in Nat /\ t \in Nat BY Zenon, <1>1, <1>4, <1>5, <1>7, <1>8
  <2> QED BY <1>8, <2>1
<1> QED BY Zenon, <1>6, <1>7, <1>8 DEF s

\* The entries that f_readdir passes over need not be returned.
LEMMA Passed ==
  ASSUME TreeInv, Names, ReadOk(it, content, used), NEW s \in it.kept, it.next <= s,
         \/ s < NextMatch(it.dir, it.next, it.pattern)
         \/ Ends(it.dir, NextMatch(it.dir, it.next, it.pattern))
  PROVE  s \notin it.seen /\ Shown(content[it.dir][s], s, it.seen, it.pattern)
<1> DEFINE d == it.dir
           e == content[d][s]
           x == NextMatch(d, it.next, it.pattern)
<1>1. it \in Iterators /\ it.next \in 1 .. SlotCount + 1 /\ \A t \in it.seen : t < it.next
  <2>1. it \in Iterators /\ \A t \in it.seen : t < it.next BY Zenon DEF ReadOk
  <2>2. it.next \in 1 .. SlotCount + 1 BY <2>1 DEF Iterators
  <2> QED BY Zenon, <2>1, <2>2
<1>2. d \in Clusters /\ s \in SlotNrs /\ e.state = "live" BY Zenon, KeptLive DEF TreeInv
<1>3. s \notin it.seen
  <2>1. s \in Nat /\ it.next \in Nat BY <1>1, <1>2 DEF SlotNrs
  <2>2. ~(s < it.next) BY <2>1
  <2> QED BY Zenon, <1>1, <2>2
<1>4. /\ x \in it.next .. SlotCount + 1 /\ Stops(d, x, it.pattern)
      /\ \A t \in it.next .. SlotCount + 1 : t < x => ~Stops(d, t, it.pattern)
  BY Zenon, <1>1, NextMatchIs
<1>5. s < x
  <2>1. CASE Ends(d, x)
    <3>1. x \in SlotNrs => content[d][x].state = "free" BY Zenon, <2>1 DEF Ends
    <3>2. x \in SlotNrs => ~(x < s) /\ x # s BY Zenon, <1>2, <3>1 DEF TreeInv, Packed
    <3> HIDE DEF x
    <3> QED BY <1>1, <1>2, <1>4, <3>2, FatDirAssumption DEF SlotNrs
  <2> QED BY Zenon, <2>1
<1>6. s \in it.next .. SlotCount + 1 BY <1>1, <1>2, FatDirAssumption DEF SlotNrs
<1>7. ~(Named(e) /\ match_pattern(Text(e), it.pattern)) BY Zenon, <1>4, <1>5, <1>6 DEF Stops
<1>8. e.attr # "volume" => Named(e) BY Zenon, <1>2, HasText DEF Named
<1> QED BY Zenon, <1>3, <1>7, <1>8 DEF Shown

LEMMA f_readdirReads ==
  ASSUME TreeInv, Names, ReadOk(it, content, used), f_readdir
  PROVE  ReadOk(it', content', used')
<1> DEFINE d == it.dir
           x == NextMatch(d, it.next, it.pattern)
           ShownIn(s, seen) == Shown(content[d][s], s, seen, it.pattern)
<1>1. /\ ~it.ended /\ content' = content /\ used' = used
      /\ it' = IF Ends(d, x) THEN [it EXCEPT !.ended = TRUE]
               ELSE [it EXCEPT !.next = x + 1, !.seen = @ \cup {x}]
  BY Zenon DEF f_readdir
<1>2. /\ it \in Iterators /\ d \in used
      /\ \A s \in it.kept : content[d][s].state = "live"
      /\ \A s \in it.kept : s < it.next \/ it.ended => ShownIn(s, it.seen)
      /\ \A s \in it.seen : s < it.next
  BY Zenon DEF ReadOk
<1>3. it.next \in 1 .. SlotCount + 1 /\ it.kept \subseteq SlotNrs /\ it.seen \subseteq Nat
  BY <1>2 DEF Iterators
<1>4. \A s \in it.kept : s < it.next \/ it.next <= s BY <1>3 DEF SlotNrs
<1>5. CASE Ends(d, x)
  <2> DEFINE j == [it EXCEPT !.ended = TRUE]
  <2>1. /\ j \in Iterators /\ j.dir = d /\ j.next = it.next /\ j.kept = it.kept
        /\ j.seen = it.seen /\ j.pattern = it.pattern
    BY Zenon, <1>2 DEF Iterators
  <2>2. it' = j BY Zenon, <1>1, <1>5
  <2> HIDE DEF j
  <2>3. \A s \in it.kept : ShownIn(s, it.seen) BY Zenon, <1>2, <1>4, <1>5, Passed
  <2>4. ReadOk(j, content, used) BY Zenon, <1>2, <2>1, <2>3 DEF ReadOk
  <2> QED BY Zenon, <1>1, <2>2, <2>4
<1>6. CASE ~Ends(d, x)
  <2> DEFINE j == [it EXCEPT !.next = x + 1, !.seen = @ \cup {x}]
  <2>1. /\ x \in it.next .. SlotCount + 1 /\ x \in SlotNrs
        /\ Named(content[d][x]) /\ match_pattern(Text(content[d][x]), it.pattern)
    BY Zenon, <1>3, <1>6, NextMatchIs DEF Stops, Ends
  <2>2. x \in Nat /\ x + 1 \in 1 .. SlotCount + 1 /\ it.next <= x
    <3> HIDE DEF x
    <3> QED BY <1>3, <2>1, FatDirAssumption DEF SlotNrs
  <2>3. /\ j \in Iterators /\ j.dir = d /\ j.next = x + 1 /\ j.kept = it.kept
        /\ j.seen = it.seen \cup {x} /\ j.pattern = it.pattern /\ j.ended = it.ended
    <3> HIDE DEF x
    <3> QED BY Zenon, <1>2, <2>2 DEF Iterators
  <2>4. it' = j BY Zenon, <1>1, <1>6
  <2>5. /\ \A s \in it.seen : s < x + 1
        /\ \A s \in it.kept : s < x + 1 => s < x \/ s = x
        /\ \A s \in it.kept : s < it.next => s # x
        /\ x < x + 1
    <3> HIDE DEF x
    <3> QED BY <1>2, <1>3, <2>2 DEF SlotNrs
  <2>6. ShownIn(x, it.seen \cup {x}) BY Zenon, <2>1 DEF Shown
  <2>7. ASSUME NEW s \in it.kept, s < x + 1 PROVE ShownIn(s, it.seen \cup {x})
    <3>1. CASE s = x BY Zenon, <2>6, <3>1
    <3>2. CASE s # x
      <4>1. ShownIn(s, it.seen)
        <5>1. CASE s < it.next BY Zenon, <1>2, <5>1
        <5>2. CASE it.next <= s BY Zenon, <2>5, <2>7, <3>2, <5>2, Passed
        <5> QED BY Zenon, <1>4, <5>1, <5>2
      <4> QED BY Zenon, <3>2, <4>1 DEF Shown
    <3> QED BY Zenon, <3>1, <3>2
  <2> HIDE DEF j
  <2>8. \A s \in j.seen : s < j.next BY Zenon, <2>3, <2>5
  <2>9. \A s \in j.kept : s < j.next \/ j.ended => Shown(content[d][s], s, j.seen, j.pattern)
    BY Zenon, <1>1, <2>3, <2>7
  <2>10. ReadOk(j, content, used) BY Zenon, <1>2, <2>3, <2>8, <2>9 DEF ReadOk
  <2> QED BY Zenon, <1>1, <2>4, <2>10
<1> QED BY Zenon, <1>5, <1>6

LEMMA OpenedReads ==
  ASSUME WellFormed, TreeInv, NEW p \in Paths, NEW pattern \in Seq(Letters), Opened(p, pattern)
  PROVE  ReadOk(it', content', used')
<1> DEFINE d == Parent(p)
           live == {s \in SlotNrs : content[d][s].state = "live"}
           j == [dir |-> d, next |-> 1, ended |-> FALSE, pattern |-> pattern, seen |-> {},
                 kept |-> live]
<1>1. /\ it' = j /\ used' = used /\ content' = content
      /\ Resolves(p) /\ Traverses(p)
  BY Zenon DEF Opened
<1>2. d \in Clusters /\ d \in used BY Zenon, <1>1, ParentIsDir
<1>3. live \subseteq SlotNrs /\ \A s \in live : content[d][s].state = "live" BY Zenon
<1> HIDE DEF live, d
<1>4. /\ j.dir = d /\ j.next = 1 /\ j.ended = FALSE /\ j.seen = {} /\ j.kept = live
      /\ j \in Iterators
  BY <1>2, <1>3, FatDirAssumption DEF Iterators
<1> HIDE DEF j
<1>5. \A s \in j.kept : ~(s < j.next)
  <2>1. \A s \in SlotNrs : ~(s < 1) BY DEF SlotNrs
  <2> QED BY Zenon, <1>3, <1>4, <2>1
<1>6. ReadOk(j, content, used) BY Zenon, <1>2, <1>3, <1>4, <1>5 DEF ReadOk
<1> QED BY Zenon, <1>1, <1>6

LEMMA ReadsKeep ==
  ASSUME WellFormed, TreeInv, Names, Reading, Reads
  PROVE  Reading'
<1>1. ASSUME NEW p \in Paths, f_opendir(p) PROVE Reading'
  <2>1. <<>> \in Seq(Letters) OBVIOUS
  <2>2. Opened(p, <<>>) BY Zenon, <1>1 DEF f_opendir
  <2> QED BY Zenon, <2>1, <2>2, OpenedReads DEF Reading
<1>2. ASSUME NEW p \in Paths, NEW pattern \in Patterns, f_findfirst(p, pattern) PROVE Reading'
  <2>1. pattern \in Seq(Letters) /\ BaseLen + ExtLen \in Nat BY FatDirAssumption
  <2>2. Take(pattern, BaseLen + ExtLen) \in Seq(Letters) BY Zenon, <2>1, TakeIs
  <2>3. Opened(p, Take(pattern, BaseLen + ExtLen)) BY Zenon, <1>2 DEF f_findfirst
  <2> QED BY Zenon, <2>2, <2>3, OpenedReads DEF Reading
<1>3. CASE f_readdir
  <2>1. it # NoDir BY Zenon, <1>3 DEF f_readdir
  <2> QED BY Zenon, <1>3, <2>1, f_readdirReads DEF Reading
<1>4. CASE f_closedir BY Zenon, <1>4 DEF f_closedir, Reading
<1> QED BY Zenon, <1>1, <1>2, <1>3, <1>4 DEF Reads

\* A Dir that is not open stays so.
LEMMA NotReading ==
  ASSUME it = NoDir, NEW d \in Clusters, NEW s
  PROVE  Gone(d, s) = it
<1>1. it.dir = 0 BY Zenon DEF NoDir
<1>2. it.dir # d BY Zenon, <1>1, Numbers
<1> QED BY Zenon, <1>2 DEF Gone

LEMMA FillReads ==
  ASSUME TreeInv, ReadOk(it, content, used), NEW d, NEW s, NEW k, Fill(d, s, k)
  PROVE  Reading'
<1>1. /\ k \notin used /\ Opening(d, s) /\ used' = used \cup {k} /\ Same(d, s, k) /\ it' = it
  BY Zenon DEF Fill
<1>2. it \in Iterators /\ it.dir \in used /\ Typed BY Zenon DEF ReadOk, TreeInv
<1>3. it.dir # k /\ it.dir \in used' /\ it.dir \in Clusters BY Zenon, <1>1, <1>2 DEF Typed
<1>4. Narrows(it, it') BY Zenon, <1>1, <1>2, NarrowsSelf
<1>5. \A t : t \in SlotNrs /\ content[it.dir][t].state = "live" =>
        content'[it.dir][t] = content[it.dir][t]
  BY Zenon, <1>1, <1>3 DEF Same, Opening
<1> QED BY Zenon, <1>2, <1>3, <1>4, <1>5, ReadKeeps

LEMMA LeakReads ==
  ASSUME TreeInv, ReadOk(it, content, used), NEW d, NEW k, Leak(d, k)
  PROVE  Reading'
<1>1. k \notin used /\ used' = used \cup {k} /\ Same(d, 0, k) /\ it' = it BY Zenon DEF Leak
<1>2. it \in Iterators /\ it.dir \in used /\ Typed BY Zenon DEF ReadOk, TreeInv
<1>3. it.dir # k /\ it.dir \in used' /\ it.dir \in Clusters BY Zenon, <1>1, <1>2 DEF Typed
<1>4. Narrows(it, it') BY Zenon, <1>1, <1>2, NarrowsSelf
<1>5. \A t \in SlotNrs : t # 0 BY Zenon, Numbers
<1>6. \A t \in SlotNrs : content'[it.dir][t] = content[it.dir][t]
  BY Zenon, <1>1, <1>3, <1>5 DEF Same
<1> QED BY Zenon, <1>2, <1>3, <1>4, <1>6, ReadKeeps

LEMMA DropReads ==
  ASSUME TreeInv, ReadOk(it, content, used), NEW d, NEW s, Drop(d, s)
  PROVE  Reading'
<1>1. /\ used' = used \ {content[d][s].start} /\ it.dir # content[d][s].start
      /\ Same(d, s, 0) /\ it' = Gone(d, s)
  BY Zenon DEF Drop
<1>2. it \in Iterators /\ it.dir \in used /\ Typed BY Zenon DEF ReadOk, TreeInv
<1>3. it.dir \in used' /\ it.dir \in Clusters BY Zenon, <1>1, <1>2 DEF Typed
<1>4. it.dir # 0 BY Zenon, <1>3, Numbers
<1>5. Narrows(it, it') /\ (it.dir = d => s \notin it'.kept) BY Zenon, <1>1, <1>2, GoneNarrows
<1>6. \A t \in it'.kept : t \in SlotNrs => content'[it.dir][t] = content[it.dir][t]
  BY Zenon, <1>1, <1>3, <1>4, <1>5 DEF Same
<1> QED BY Zenon, <1>2, <1>3, <1>5, <1>6, ReadKeeps

LEMMA MoveReads ==
  ASSUME TreeInv, ReadOk(it, content, used),
         NEW d, NEW s, NEW d2, NEW s2, Move(d, s, d2, s2)
  PROVE  Reading'
<1>1. /\ Opening(d2, s2) /\ used' = used /\ it' = Gone(d, s)
      /\ \A c \in Clusters, t \in SlotNrs :
           ~(c = d /\ t = s) /\ ~(c = d2 /\ t = s2) => content'[c][t] = content[c][t]
  BY Zenon DEF Move
<1>2. it \in Iterators /\ it.dir \in used /\ Typed BY Zenon DEF ReadOk, TreeInv
<1>3. it.dir \in used' /\ it.dir \in Clusters BY Zenon, <1>1, <1>2 DEF Typed
<1>4. Narrows(it, it') /\ (it.dir = d => s \notin it'.kept) BY Zenon, <1>1, <1>2, GoneNarrows
<1>5. ASSUME NEW t \in it'.kept, t \in SlotNrs, content[it.dir][t].state = "live"
      PROVE  content'[it.dir][t] = content[it.dir][t]
  <2>1. ~(it.dir = d2 /\ t = s2) BY Zenon, <1>1, <1>5 DEF Opening
  <2>2. ~(it.dir = d /\ t = s) BY Zenon, <1>4
  <2> QED BY Zenon, <1>1, <1>3, <1>5, <2>1, <2>2
<1> QED BY Zenon, <1>2, <1>3, <1>4, <1>5, ReadKeeps

LEMMA RelabelReads ==
  ASSUME TreeInv, ReadOk(it, content, used), NEW s, Relabel(s)
  PROVE  Reading'
<1>1. /\ used' = used /\ Same(ROOT, s, 0) /\ it' = it
      /\ content'[ROOT][s].state = "live" /\ content'[ROOT][s].attr = "volume"
  BY Zenon DEF Relabel
<1>2. it \in Iterators /\ it.dir \in used /\ Typed BY Zenon DEF ReadOk, TreeInv
<1>3. it.dir \in used' /\ it.dir \in Clusters BY Zenon, <1>1, <1>2 DEF Typed
<1>4. it.dir # 0 BY Zenon, <1>3, Numbers
<1>5. Narrows(it, it') BY Zenon, <1>1, <1>2, NarrowsSelf
<1>6. ASSUME NEW t \in SlotNrs
      PROVE  \/ content'[it.dir][t] = content[it.dir][t]
             \/ content'[it.dir][t].state = "live" /\ content'[it.dir][t].attr = "volume"
  <2>1. CASE it.dir = ROOT /\ t = s BY Zenon, <1>1, <2>1
  <2>2. CASE ~(it.dir = ROOT /\ t = s) BY Zenon, <1>1, <1>3, <1>4, <2>2 DEF Same
  <2> QED BY Zenon, <2>1, <2>2
<1> QED BY Zenon, <1>2, <1>3, <1>5, <1>6, ReadKeeps

LEMMA ReadingNext ==
  ASSUME WellFormed PROVE TreeInv /\ Names /\ Reading /\ [Next]_vars => Reading'
<1> SUFFICES ASSUME TreeInv, Names, Reading, [Next]_vars PROVE Reading' OBVIOUS
<1>1. Changes BY Zenon, StepChanges
<1>2. CASE it = NoDir
  <2>1. CASE it' = it BY Zenon, <1>2, <2>1 DEF Reading
  <2>2. CASE Reads BY Zenon, <2>2, ReadsKeep
  <2>3. CASE (\E d, s, k : Fill(d, s, k)) \/ (\E d, k : Leak(d, k)) \/ (\E s : Relabel(s))
    BY Zenon, <2>1, <2>3 DEF Fill, Leak, Relabel
  <2>4. CASE \E d, s : Drop(d, s)
    <3>1. PICK d, s : Drop(d, s) BY Zenon, <2>4
    <3>2. d \in Clusters /\ it' = Gone(d, s) BY Zenon, <3>1 DEF Drop, Kid
    <3> QED BY Zenon, <1>2, <2>1, <3>2, NotReading
  <2>5. CASE \E d, s, d2, s2 : Move(d, s, d2, s2)
    <3>1. PICK d, s, d2, s2 : Move(d, s, d2, s2) BY Zenon, <2>5
    <3>2. d \in Clusters /\ it' = Gone(d, s) BY Zenon, <3>1 DEF Move, Kid
    <3> QED BY Zenon, <1>2, <2>1, <3>2, NotReading
  <2> QED BY Zenon, <1>1, <2>1, <2>2, <2>3, <2>4, <2>5 DEF Changes
<1>3. CASE ReadOk(it, content, used)
  <2>1. CASE \E d, s, k : Fill(d, s, k) BY Zenon, <1>3, <2>1, FillReads
  <2>2. CASE \E d, k : Leak(d, k) BY Zenon, <1>3, <2>2, LeakReads
  <2>3. CASE \E d, s : Drop(d, s) BY Zenon, <1>3, <2>3, DropReads
  <2>4. CASE \E d, s, d2, s2 : Move(d, s, d2, s2) BY Zenon, <1>3, <2>4, MoveReads
  <2>5. CASE \E s : Relabel(s) BY Zenon, <1>3, <2>5, RelabelReads
  <2>6. CASE content' = content /\ used' = used /\ it' = it BY Zenon, <1>3, <2>6 DEF Reading
  <2>7. CASE Reads BY Zenon, <2>7, ReadsKeep
  <2> QED BY Zenon, <1>1, <2>1, <2>2, <2>3, <2>4, <2>5, <2>6, <2>7 DEF Changes
<1> QED BY Zenon, <1>2, <1>3 DEF Reading

\* While a pattern is matched, no name in the directory is as long as base, dot
\* and extension together can be: a star does not reach the end of such a name.
ShortNames ==
  it # NoDir /\ it.pattern # <<>> =>
    \A s \in it.kept : Len(Text(content[it.dir][s])) <= BaseLen + ExtLen

LEMMA ReadingComplete == TreeInv /\ Reading => (ShortNames => ReaddirComplete)
<1> SUFFICES ASSUME TreeInv, ReadOk(it, content, used), it # NoDir, ShortNames, it.ended,
                    NEW s \in it.kept, content[it.dir][s].attr # "volume"
             PROVE  s \in it.seen <=> Like(Text(content[it.dir][s]), it.pattern)
  BY Zenon DEF ReaddirComplete, Reading
<1> DEFINE e == content[it.dir][s]
<1>1. s \in it.seen <=> match_pattern(Text(e), it.pattern) BY Zenon DEF ReadOk, Shown
<1>2. it \in Iterators BY Zenon DEF ReadOk
<1>3. it.pattern \in Seq(Letters) BY <1>2 DEF Iterators
<1>4. it.dir \in Clusters /\ s \in SlotNrs BY Zenon, KeptLive DEF TreeInv
<1>5. e \in Entries BY Zenon, <1>4 DEF TreeInv, Typed
<1>6. e.base \in Seq(Letters) /\ e.ext \in Seq(Letters) /\ Dot \in Seq(Letters)
  BY <1>5, FatDirAssumption DEF Entries, Dot
<1>7. it.pattern = <<>> \/ Len(Text(e)) <= BaseLen + ExtLen BY Zenon DEF ShortNames
<1> HIDE DEF e
<1>8. Text(e) \in Seq(Letters) BY <1>6 DEF Text
<1> DEFINE name == Text(e)
           pat == it.pattern
<1> HIDE DEF name, pat
<1>9. Len(name) \in Nat /\ Len(pat) \in Nat BY <1>3, <1>8 DEF name, pat
<1>10. match_pattern(name, pat) <=> Like(name, pat) BY Zenon, <1>7, <1>9, MatchIsLike DEF name, pat
<1> QED BY Zenon, <1>1, <1>10 DEF name, pat, e

\* A listing that has ended has returned, of what was there from the start and
\* stayed, what the pattern means and nothing else, however files and directories
\* are made, deleted and renamed meanwhile; with a pattern, unless the directory
\* has one of the longest names.
THEOREM ReaddirCompleteHolds ==
  ASSUME WellFormed, NamesFit PROVE Spec => [](ShortNames => ReaddirComplete)
<1>1. Init => Reading BY Zenon DEF Init, Reading
<1> QED BY <1>1, TreeInit, TreeNext, NamesInit, NamesNext, ReadingNext, ReadingComplete,
     PTL DEF Spec

-----------------------------------------------------------------------------
(* Clusters that no entry leads to.                                        *)

\* c is a directory in d.
Below(d, c) == \E s : Kid(d, s) /\ content[d][s].attr = "dir" /\ content[d][s].start = c

\* A set that has the root and the directories in each of its members has all
\* directories: none is cut off.
Closed(S) == ROOT \in S /\ \A d \in S : \A c : Below(d, c) => c \in S
Rooted    == \A S \in SUBSET Clusters : Closed(S) => DirSet \subseteq S

LEMMA DirsBelow ==
  /\ \A c : IsDir(c) <=> c = ROOT \/ \E d : Below(d, c)
  /\ \A d, c : Below(d, c) => d \in Clusters
BY Zenon DEF IsDir, Below, Kid

LEMMA RootedStays ==
  ASSUME Rooted, \A d, c : Below(d, c)' <=> Below(d, c)
  PROVE  Rooted'
<1> SUFFICES ASSUME NEW S \in SUBSET Clusters, Closed(S)', NEW c \in Clusters, IsDir(c)'
             PROVE  c \in S
  BY Zenon DEF Rooted, DirSet
<1>1. Closed(S) BY Zenon DEF Closed
<1>2. (\A x : IsDir(x)' <=> x = ROOT \/ \E d : Below(d, x)') BY Zenon DEF IsDir, Below
<1>3. IsDir(c) BY Zenon, <1>2, DirsBelow
<1> QED BY Zenon, <1>1, <1>3 DEF Rooted, DirSet

LEMMA RootedGrows ==
  ASSUME Rooted, NEW e \in Clusters, IsDir(e), NEW k,
         \A d, c : Below(d, c)' <=> Below(d, c) \/ (d = e /\ c = k)
  PROVE  Rooted'
<1> SUFFICES ASSUME NEW S \in SUBSET Clusters, Closed(S)', NEW c \in Clusters, IsDir(c)'
             PROVE  c \in S
  BY Zenon DEF Rooted, DirSet
<1>1. Closed(S) BY Zenon DEF Closed
<1>2. DirSet \subseteq S BY Zenon, <1>1 DEF Rooted
<1>3. e \in S BY Zenon, <1>2 DEF DirSet
<1>4. k \in S BY Zenon, <1>3 DEF Closed
<1>5. c = ROOT \/ \E d : Below(d, c)' BY Zenon DEF IsDir, Below
<1>6. IsDir(c) \/ c = k BY Zenon, <1>5, DirsBelow
<1> QED BY Zenon, <1>2, <1>4, <1>6 DEF DirSet

LEMMA RootedShrinks ==
  ASSUME Rooted, NEW x \in Clusters, \A c : ~Below(x, c),
         \A d, c : Below(d, c)' <=> Below(d, c) /\ c # x
  PROVE  Rooted'
<1> SUFFICES ASSUME NEW S \in SUBSET Clusters, Closed(S)', NEW c \in Clusters, IsDir(c)'
             PROVE  c \in S
  BY Zenon DEF Rooted, DirSet
<1> DEFINE T == S \cup {x}
<1>1. T \in SUBSET Clusters BY Zenon
<1>2. Closed(T)
  <2>1. ROOT \in T BY Zenon DEF Closed
  <2>2. ASSUME NEW d \in T, NEW y, Below(d, y), y # x PROVE y \in T
    <3>1. Below(d, y)' /\ d \in S BY Zenon, <2>2
    <3> QED BY Zenon, <3>1 DEF Closed
  <2> HIDE DEF T
  <2>3. x \in T BY Zenon DEF T
  <2> QED BY Zenon, <2>1, <2>2, <2>3 DEF Closed
<1> HIDE DEF T
<1>3. DirSet \subseteq T BY Zenon, <1>1, <1>2 DEF Rooted
<1>4. CASE c = ROOT BY Zenon, <1>4 DEF Closed
<1>5. CASE c # ROOT
  <2>1. PICK d : Below(d, c)' BY Zenon, <1>5 DEF IsDir, Below
  <2>2. Below(d, c) /\ c # x BY Zenon, <2>1
  <2>3. IsDir(c) BY Zenon, <2>2, DirsBelow
  <2> QED BY Zenon, <1>3, <2>2, <2>3 DEF DirSet, T
<1> QED BY Zenon, <1>4, <1>5

LEMMA RootedInit == Init => Rooted
<1> SUFFICES ASSUME Init, NEW S \in SUBSET Clusters, Closed(S), NEW c \in Clusters, IsDir(c)
             PROVE  c \in S
  BY Zenon DEF Rooted, DirSet
<1>1. \A d \in Clusters, s \in SlotNrs : content[d][s] = Blank BY Zenon DEF Init, Empty
<1>2. \A d, s : ~Kid(d, s) BY <1>1 DEF Kid, Child, Blank
<1>3. c = ROOT BY Zenon, <1>2 DEF IsDir
<1> QED BY Zenon, <1>3 DEF Closed

LEMMA BelowGrows ==
  ASSUME NEW d, NEW s, KidsGrow(d, s), NEW e, NEW c
  PROVE  Below(e, c)' <=>
           Below(e, c) \/ (e = d /\ content'[d][s].attr = "dir" /\ content'[d][s].start = c)
<1>1. \A f, t : Kid(f, t)' <=> Kid(f, t) \/ (f = d /\ t = s) BY Zenon DEF KidsGrow
<1>2. \A f, t : Kid(f, t) => content'[f][t] = content[f][t] BY Zenon DEF KidsGrow
<1>3. ASSUME Below(e, c)
      PROVE  Below(e, c)'
  <2>1. PICK t : Kid(e, t) /\ content[e][t].attr = "dir" /\ content[e][t].start = c
    BY Zenon, <1>3 DEF Below
  <2>2. Kid(e, t)' /\ content'[e][t] = content[e][t] BY Zenon, <1>1, <1>2, <2>1
  <2> QED BY Zenon, <2>1, <2>2 DEF Below
<1>4. ASSUME e = d, content'[d][s].attr = "dir", content'[d][s].start = c
      PROVE  Below(e, c)'
  BY Zenon, <1>1, <1>4 DEF Below
<1>5. ASSUME Below(e, c)'
      PROVE  Below(e, c) \/ (e = d /\ content'[d][s].attr = "dir" /\ content'[d][s].start = c)
  <2>1. PICK t : Kid(e, t)' /\ content'[e][t].attr = "dir" /\ content'[e][t].start = c
    BY Zenon, <1>5 DEF Below
  <2>2. CASE e = d /\ t = s BY Zenon, <2>1, <2>2
  <2>3. CASE ~(e = d /\ t = s)
    <3>1. Kid(e, t) /\ content'[e][t] = content[e][t] BY Zenon, <1>1, <1>2, <2>1, <2>3
    <3> QED BY Zenon, <2>1, <3>1 DEF Below
  <2> QED BY Zenon, <2>2, <2>3
<1> QED BY Zenon, <1>3, <1>4, <1>5

LEMMA BelowShrinks ==
  ASSUME TreeInv, NEW d, NEW s, Kid(d, s), KidsShrink(d, s), NEW e, NEW c
  PROVE  Below(e, c)' <=> Below(e, c) /\ c # content[d][s].start
<1>1. \A f, t : Kid(f, t)' <=> Kid(f, t) /\ ~(f = d /\ t = s) BY Zenon DEF KidsShrink
<1>2. \A f, t : Kid(f, t)' => content'[f][t] = content[f][t] BY Zenon DEF KidsShrink
<1>3. ASSUME Below(e, c)' PROVE Below(e, c) /\ c # content[d][s].start
  <2>1. PICK t : Kid(e, t)' /\ content'[e][t].attr = "dir" /\ content'[e][t].start = c
    BY Zenon, <1>3 DEF Below
  <2>2. Kid(e, t) /\ ~(e = d /\ t = s) /\ content'[e][t] = content[e][t]
    BY Zenon, <1>1, <1>2, <2>1
  <2>3. content[e][t].start # content[d][s].start BY Zenon, <2>2 DEF TreeInv, Own
  <2> QED BY Zenon, <2>1, <2>2, <2>3 DEF Below
<1>4. ASSUME Below(e, c), c # content[d][s].start PROVE Below(e, c)'
  <2>1. PICK t : Kid(e, t) /\ content[e][t].attr = "dir" /\ content[e][t].start = c
    BY Zenon, <1>4 DEF Below
  <2>2. Kid(e, t)' BY Zenon, <1>1, <1>4, <2>1
  <2>3. content'[e][t] = content[e][t] BY Zenon, <1>2, <2>2
  <2> QED BY Zenon, <2>1, <2>2, <2>3 DEF Below
<1> QED BY Zenon, <1>3, <1>4

LEMMA BelowMoves ==
  ASSUME TreeInv, NEW d, NEW s, NEW d2, NEW s2, Move(d, s, d2, s2), NEW e, NEW c
  PROVE  Below(e, c)' <=> Below(e, c)
<1>0. KidsMove(d, s, d2, s2) BY Zenon, MoveKids
<1>1. \A f, t : Kid(f, t)' <=> Other(d, s, f, t) \/ (f = d2 /\ t = s2) BY Zenon, <1>0 DEF KidsMove
<1>2. \A f, t : Other(d, s, f, t) => content'[f][t] = content[f][t] BY Zenon, <1>0 DEF KidsMove
<1>3. /\ Kid(d, s) /\ content'[d2][s2].attr = content[d][s].attr
      /\ content'[d2][s2].start = content[d][s].start
      /\ content[d][s].attr = "dir" => d = d2
  BY Zenon DEF Move
<1>4. ASSUME Below(e, c)' PROVE Below(e, c)
  <2>1. PICK t : Kid(e, t)' /\ content'[e][t].attr = "dir" /\ content'[e][t].start = c
    BY Zenon, <1>4 DEF Below
  <2>2. CASE e = d2 /\ t = s2
    <3>1. d = e /\ content[d][s].attr = "dir" /\ content[d][s].start = c
      BY Zenon, <1>3, <2>1, <2>2
    <3> QED BY Zenon, <1>3, <3>1 DEF Below
  <2>3. CASE Other(d, s, e, t)
    <3>1. content'[e][t] = content[e][t] BY Zenon, <1>2, <2>3
    <3> QED BY Zenon, <2>1, <2>3, <3>1 DEF Below, Other
  <2> QED BY Zenon, <1>1, <2>1, <2>2, <2>3
<1>5. ASSUME Below(e, c) PROVE Below(e, c)'
  <2>1. PICK t : Kid(e, t) /\ content[e][t].attr = "dir" /\ content[e][t].start = c
    BY Zenon, <1>5 DEF Below
  <2>2. CASE e = d /\ t = s
    <3>1. e = d2 /\ content'[d2][s2].attr = "dir" /\ content'[d2][s2].start = c
      BY Zenon, <1>3, <2>1, <2>2
    <3>2. Kid(d2, s2)' BY Zenon, <1>1
    <3> QED BY Zenon, <3>1, <3>2 DEF Below
  <2>3. CASE ~(e = d /\ t = s)
    <3>1. Other(d, s, e, t) BY Zenon, <2>1, <2>3 DEF Other
    <3>2. Kid(e, t)' /\ content'[e][t] = content[e][t] BY Zenon, <1>1, <1>2, <3>1
    <3> QED BY Zenon, <2>1, <3>2 DEF Below
  <2> QED BY Zenon, <2>2, <2>3
<1> QED BY Zenon, <1>4, <1>5

\* Directories are made in directories, deleted when they are empty, and
\* renamed where they are.
LEMMA RootedNext ==
  ASSUME WellFormed PROVE TreeInv /\ Rooted /\ [Next]_vars => Rooted'
<1> SUFFICES ASSUME TreeInv, Rooted, [Next]_vars PROVE Rooted' OBVIOUS
<1>1. Changes BY Zenon, StepChanges
<1>2. ASSUME KidsStay PROVE Rooted'
  <2>1. \A d, c : Below(d, c)' <=> Below(d, c) BY Zenon, <1>2 DEF KidsStay, Below
  <2> QED BY Zenon, <2>1, RootedStays
<1>3. ASSUME NEW d, NEW s, NEW k, Fill(d, s, k) PROVE Rooted'
  <2>1. /\ KidsGrow(d, s) /\ IsDir(d) /\ d \in Clusters /\ content'[d][s].start = k
    BY Zenon, <1>3, FillKids, DirUsed DEF Fill
  <2>2. CASE content'[d][s].attr = "dir"
    <3>1. \A e, c : Below(e, c)' <=> Below(e, c) \/ (e = d /\ c = k)
      BY ZenonT(30), <2>1, <2>2, BelowGrows
    <3> QED BY Zenon, <2>1, <3>1, RootedGrows
  <2>3. CASE content'[d][s].attr # "dir"
    <3>1. \A e, c : Below(e, c)' <=> Below(e, c) BY Zenon, <2>1, <2>3, BelowGrows
    <3> QED BY Zenon, <3>1, RootedStays
  <2> QED BY Zenon, <2>2, <2>3
<1>4. ASSUME NEW d, NEW s, Drop(d, s) PROVE Rooted'
  <2> DEFINE x == content[d][s].start
  <2>1. KidsShrink(d, s) /\ Kid(d, s) BY Zenon, <1>4, DropKids DEF Drop
  <2>2. x \in used BY Zenon, <2>1 DEF TreeInv, Owned
  <2>3. x \in Clusters BY Zenon, <2>2 DEF TreeInv, Typed
  <2>4. \A c : ~Below(x, c) BY Zenon, <2>1 DEF KidsShrink, Below
  <2>5. \A e, c : Below(e, c)' <=> Below(e, c) /\ c # x BY Zenon, <2>1, BelowShrinks
  <2> HIDE DEF x
  <2> QED BY Zenon, <2>3, <2>4, <2>5, RootedShrinks
<1>5. ASSUME NEW d, NEW s, NEW d2, NEW s2, Move(d, s, d2, s2) PROVE Rooted'
  <2>1. \A e, c : Below(e, c)' <=> Below(e, c) BY Zenon, <1>5, BelowMoves
  <2> QED BY Zenon, <2>1, RootedStays
<1>6. CASE \E d, k : Leak(d, k) BY Zenon, <1>2, <1>6, LeakKids
<1>7. CASE \E s : Relabel(s) BY Zenon, <1>2, <1>7, RelabelKids
<1>8. CASE content' = content /\ used' = used
  <2>1. KidsStay BY Zenon, <1>8 DEF KidsStay, Kid
  <2> QED BY Zenon, <1>2, <2>1
<1> QED BY Zenon, <1>1, <1>3, <1>4, <1>5, <1>6, <1>7, <1>8 DEF Changes

-----------------------------------------------------------------------------
(* Dirs has every directory: a level that adds none is closed, and a volume  *)
(* has no more clusters than levels that add one.                            *)

Full(i) ==
  /\ ROOT \in Climb[i]
  /\ Deeper(Climb[i]) = Climb[i] \/ Cardinality(Climb[i]) >= i + 1

LEMMA ClimbFills ==
  ASSUME TreeInv, NEW i \in 0 .. Levels
  PROVE  Full(i)
<1>1. /\ Levels \in Nat /\ Climb[0] = {ROOT}
      /\ \A j \in 1 .. Levels : Climb[j] = Deeper(Climb[j - 1])
      /\ \A j \in 0 .. Levels : Climb[j] \subseteq DirSet
  BY Zenon, ClimbSteps
<1>2. IsFiniteSet(Clusters) BY FS_Interval, FatDirAssumption DEF Clusters
<1>3. \A j \in 0 .. Levels : Climb[j] \subseteq Clusters /\ IsFiniteSet(Climb[j])
  BY Zenon, <1>1, <1>2, FS_Subset DEF DirSet
<1> DEFINE Bad == {j \in 0 .. Levels : ~Full(j)}
<1> SUFFICES ASSUME Bad # {} PROVE FALSE BY Zenon
<1>4. PICK j \in Bad : \A k \in Bad : j <= k
  <2>1. Bad \subseteq Nat BY Zenon, <1>1, FromZero
  <2> HIDE DEF Bad
  <2> QED BY Zenon, <2>1, LeastNat
<1>5. j \in 0 .. Levels /\ ~Full(j) BY Zenon, <1>4
<1>6. j # 0
  <2>1. Cardinality({ROOT}) = 1 BY Zenon, FS_Singleton
  <2>2. Cardinality(Climb[0]) >= 0 + 1 BY <1>1, <2>1
  <2>3. ROOT \in Climb[0] BY Zenon, <1>1
  <2> QED BY Zenon, <1>5, <2>2, <2>3 DEF Full
<1>7. /\ j - 1 \in 0 .. Levels /\ ~(j <= j - 1) /\ j \in 1 .. Levels BY <1>1, <1>5, <1>6
<1>8. Full(j - 1) BY Zenon, <1>4, <1>7
<1>9. Climb[j] = Deeper(Climb[j - 1]) /\ Climb[j - 1] \subseteq Climb[j]
  BY Zenon, <1>1, <1>7 DEF Deeper
<1>10. ROOT \in Climb[j] BY Zenon, <1>8, <1>9 DEF Full
<1>11. CASE Deeper(Climb[j - 1]) = Climb[j - 1]
  <2>1. Deeper(Climb[j]) = Climb[j] BY Zenon, <1>9, <1>11
  <2> QED BY Zenon, <1>5, <1>10, <2>1 DEF Full
<1>12. CASE Deeper(Climb[j - 1]) # Climb[j - 1]
  <2> DEFINE S == Climb[j - 1]
             T == Climb[j]
  <2>1. IsFiniteSet(T) /\ S \subseteq T /\ S # T BY Zenon, <1>3, <1>5, <1>9, <1>12
  <2>2. Cardinality(S) >= j - 1 + 1 BY Zenon, <1>8, <1>12 DEF Full
  <2> HIDE DEF S, T
  <2>3. Cardinality(S) <= Cardinality(T) /\ Cardinality(S) # Cardinality(T)
    BY Zenon, <2>1, FS_Subset
  <2>4. Cardinality(S) \in Nat /\ Cardinality(T) \in Nat
    BY Zenon, <2>1, FS_CardinalityType, FS_Subset
  <2>5. Cardinality(T) >= j + 1 BY <1>5, <2>2, <2>3, <2>4
  <2> QED BY Zenon, <1>5, <1>10, <2>5 DEF Full, T
<1> QED BY Zenon, <1>11, <1>12

LEMMA DirsAll ==
  ASSUME TreeInv, Rooted
  PROVE  \A c : IsDir(c) <=> c \in Dirs
<1>1. Levels \in 0 .. Levels /\ Levels \in Nat BY Zenon, ClimbSteps, FromZero
<1>2. Dirs = Climb[Levels] /\ Dirs \subseteq DirSet /\ Full(Levels)
  BY Zenon, <1>1, ClimbSteps, ClimbFills, DirsIsClimb
<1>3. Dirs \subseteq Clusters BY Zenon, <1>2 DEF DirSet
<1>4. DirSet \subseteq Dirs
  <2>1. CASE Deeper(Dirs) = Dirs
    <3>1. Closed(Dirs)
      <4>1. ROOT \in Dirs BY Zenon, <1>2 DEF Full
      <4>2. ASSUME NEW d \in Dirs, NEW c, Below(d, c) PROVE c \in Dirs
        <5>1. \E s \in SlotNrs : Kid(d, s) /\ content[d][s].attr = "dir" /\ content[d][s].start = c
          BY Zenon, <4>2 DEF Below, Kid
        <5>2. c \in Deeper(Dirs) BY Zenon, <1>3, <5>1, DeeperIs
        <5> QED BY Zenon, <2>1, <5>2
      <4> QED BY Zenon, <4>1, <4>2 DEF Closed
    <3> QED BY Zenon, <1>3, <3>1 DEF Rooted
  <2>2. CASE Cardinality(Dirs) >= Levels + 1
    <3>1. IsFiniteSet(Clusters) /\ Cardinality(Clusters) = MaxCluster - 2
      <4>1. 2 \in Int /\ MaxCluster - 1 \in Int /\ ~(2 > MaxCluster - 1)
            /\ MaxCluster - 1 - 2 + 1 = MaxCluster - 2
        BY FatDirAssumption
      <4>2. /\ IsFiniteSet(Clusters)
            /\ Cardinality(Clusters) = IF 2 > MaxCluster - 1 THEN 0 ELSE MaxCluster - 1 - 2 + 1
        BY Zenon, <4>1, FS_Interval DEF Clusters
      <4> QED BY Zenon, <4>1, <4>2
    <3>2. Cardinality(Dirs) <= Cardinality(Clusters) /\ Cardinality(Dirs) \in Nat
      BY Zenon, <1>3, <3>1, FS_Subset, FS_CardinalityType
    <3>3. Cardinality(Dirs) = Cardinality(Clusters) BY <2>2, <3>1, <3>2, FatDirAssumption DEF Levels
    <3>4. Dirs = Clusters BY Zenon, <1>3, <3>1, <3>3, FS_Subset
    <3> QED BY Zenon, <3>4 DEF DirSet
  <2> QED BY Zenon, <1>2, <2>1, <2>2 DEF Full
<1> QED BY Zenon, <1>2, <1>4, DirUsed DEF DirSet

(* A cluster in use that no entry leads to is made only where no slot is     *)
(* left.                                                                     *)

Leads(c) == c = ROOT \/ \E d, s : Kid(d, s) /\ content[d][s].start = c

LEMMA InTreeIs == TreeInv /\ Rooted => \A c : c \in InTree <=> Leads(c)
<1> SUFFICES ASSUME TreeInv, Rooted, NEW c PROVE c \in InTree <=> Leads(c) OBVIOUS
<1>1. ASSUME c \in InTree PROVE Leads(c)
  <2>1. CASE c = ROOT BY Zenon, <2>1 DEF Leads
  <2>2. CASE c # ROOT
    <3>1. PICK x \in Kids : c = At(x).start BY Zenon, <1>1, <2>2 DEF InTree
    <3>2. Kid(x[1], x[2]) /\ At(x) = content[x[1]][x[2]] BY Zenon, KidsAre
    <3> QED BY Zenon, <3>1, <3>2 DEF Leads
  <2> QED BY Zenon, <2>1, <2>2
<1>2. ASSUME NEW d, NEW s, Kid(d, s), content[d][s].start = c PROVE c \in InTree
  <2>1. IsDir(d) /\ s \in SlotNrs /\ Child(content[d][s])
    BY Zenon, <1>2 DEF TreeInv, Owned, Kid, Child
  <2>2. d \in Dirs BY Zenon, <2>1, DirsAll
  <2>3. <<d, s>> \in Dirs \X SlotNrs /\ At(<<d, s>>) = content[d][s] BY <2>1, <2>2 DEF At
  <2>4. <<d, s>> \in Kids BY Zenon, <2>1, <2>3 DEF Kids
  <2> QED BY Zenon, <1>2, <2>3, <2>4 DEF InTree
<1>3. c = ROOT => c \in InTree BY Zenon DEF InTree
<1> QED BY Zenon, <1>1, <1>2, <1>3 DEF Leads

LEMMA LeaksOnlyFull ==
  ASSUME WellFormed, TreeInv, [Next]_vars, ret'.f # "full", NEW c \in used', ~Leads(c)'
  PROVE  c \in used /\ ~Leads(c)
<1>1. Changes BY Zenon, StepChanges
<1>2. ASSUME KidsStay, used' = used PROVE c \in used /\ ~Leads(c)
  <2>1. Leads(c) => Leads(c)' BY Zenon, <1>2 DEF KidsStay, Leads
  <2> QED BY Zenon, <1>2, <2>1
<1>3. ASSUME NEW d, NEW s, NEW k, Fill(d, s, k) PROVE c \in used /\ ~Leads(c)
  <2>1. KidsGrow(d, s) BY Zenon, <1>3, FillKids
  <2>2. used' = used \cup {k} /\ content'[d][s].start = k BY Zenon, <1>3 DEF Fill
  <2>3. Kid(d, s)' BY Zenon, <2>1 DEF KidsGrow
  <2>4. c # k BY Zenon, <2>2, <2>3 DEF Leads
  <2>5. ASSUME NEW e, NEW t, Kid(e, t), content[e][t].start = c PROVE FALSE
    <3>1. Kid(e, t)' /\ content'[e][t] = content[e][t] BY Zenon, <2>1, <2>5 DEF KidsGrow
    <3> QED BY Zenon, <2>5, <3>1 DEF Leads
  <2>6. c # ROOT BY Zenon DEF Leads
  <2> QED BY Zenon, <2>2, <2>4, <2>5, <2>6 DEF Leads
<1>4. ASSUME NEW d, NEW s, Drop(d, s) PROVE c \in used /\ ~Leads(c)
  <2>1. KidsShrink(d, s) BY Zenon, <1>4, DropKids
  <2>2. used' = used \ {content[d][s].start} BY Zenon, <1>4 DEF Drop
  <2>3. ASSUME NEW e, NEW t, Kid(e, t), content[e][t].start = c PROVE FALSE
    <3>1. ~(e = d /\ t = s) BY Zenon, <2>2, <2>3
    <3>2. Kid(e, t)' BY Zenon, <2>1, <2>3, <3>1 DEF KidsShrink
    <3>3. content'[e][t] = content[e][t] BY Zenon, <2>1, <3>2 DEF KidsShrink
    <3> QED BY Zenon, <2>3, <3>2, <3>3 DEF Leads
  <2>4. c # ROOT BY Zenon DEF Leads
  <2> QED BY Zenon, <2>2, <2>3, <2>4 DEF Leads
<1>5. ASSUME NEW d, NEW s, NEW d2, NEW s2, Move(d, s, d2, s2) PROVE c \in used /\ ~Leads(c)
  <2>1. KidsMove(d, s, d2, s2) BY Zenon, <1>5, MoveKids
  <2>2. used' = used /\ content'[d2][s2].start = content[d][s].start BY Zenon, <1>5 DEF Move
  <2>3. ASSUME NEW e, NEW t, Kid(e, t), content[e][t].start = c PROVE FALSE
    <3>1. CASE e = d /\ t = s
      <4>1. Kid(d2, s2)' BY Zenon, <2>1 DEF KidsMove
      <4> QED BY Zenon, <2>2, <2>3, <3>1, <4>1 DEF Leads
    <3>2. CASE ~(e = d /\ t = s)
      <4>1. Other(d, s, e, t) BY Zenon, <2>3, <3>2 DEF Other
      <4>2. Kid(e, t)' /\ content'[e][t] = content[e][t] BY Zenon, <2>1, <4>1 DEF KidsMove
      <4> QED BY Zenon, <2>3, <4>2 DEF Leads
    <3> QED BY Zenon, <3>1, <3>2
  <2>4. c # ROOT BY Zenon DEF Leads
  <2> QED BY Zenon, <2>2, <2>3, <2>4 DEF Leads
<1>6. CASE \E d, k : Leak(d, k) BY Zenon, <1>6 DEF Leak
<1>7. CASE \E s : Relabel(s)
  <2>1. KidsStay /\ used' = used BY Zenon, <1>7, RelabelKids DEF Relabel
  <2> QED BY Zenon, <1>2, <2>1
<1>8. CASE content' = content /\ used' = used
  <2>1. KidsStay BY Zenon, <1>8 DEF KidsStay, Kid
  <2> QED BY Zenon, <1>2, <1>8, <2>1
<1> QED BY Zenon, <1>1, <1>3, <1>4, <1>5, <1>6, <1>7, <1>8 DEF Changes

\* Whatever is made, deleted and renamed, a call that does not fail for want of a
\* slot leaves no cluster in use that no entry leads to any more.
THEOREM OnlyFullLeaksHolds == ASSUME WellFormed PROVE Spec => OnlyFullLeaks
<1> DEFINE Kept == used' \ InTree' \subseteq used \ InTree
<1>1. ASSUME TreeInv, Rooted, (\A c : c \in InTree <=> Leads(c))', [Next]_vars
      PROVE  [ret'.f # "full" => Kept]_vars
  <2> SUFFICES ASSUME ret'.f # "full", NEW c \in used', c \notin InTree'
               PROVE  c \in used /\ c \notin InTree
    BY Zenon
  <2>1. ~Leads(c)' BY Zenon, <1>1
  <2>2. c \in used /\ ~Leads(c) BY Zenon, <1>1, <2>1, LeaksOnlyFull
  <2> QED BY Zenon, <1>1, <2>2, InTreeIs
<1>2. TreeInv /\ Rooted /\ (\A c : c \in InTree <=> Leads(c))' /\ [Next]_vars
        => [ret'.f # "full" => used' \ InTree' \subseteq used \ InTree]_vars
  BY Zenon, <1>1
<1> QED BY <1>2, InTreeIs, TreeInit, TreeNext, RootedInit, RootedNext, PTL DEF Spec, OnlyFullLeaks

=============================================================================
