----------------------------- MODULE Fat32Proofs ----------------------------
(***************************************************************************)
(* Proofs about Fat32, for any volume, directory and clients.              *)
(***************************************************************************)
EXTENDS Fat32, FiniteSetTheorems, TLAPS

-----------------------------------------------------------------------------
(* The table, as a value: what holds of every chain on the disk.           *)

Tables == [0 .. MaxCluster - 1 -> 0 .. MaxCluster]

\* c is a cluster of a file, and the first one of a chain.
Used(l, c) == c \in Clusters /\ c # ROOT /\ l[c] # 0
First(l, c) == Used(l, c) /\ \A d \in Clusters : l[d] # c

\* Links lead to used clusters, no two to the same one, and not in circles.
Linked(l) ==
  /\ l[0] = EOC /\ l[ROOT] # 0
  /\ \A c \in Clusters : l[c] = 0 \/ l[c] = EOC \/ Used(l, l[c])
OnePredecessor(l) == \A c, d \in Clusters : l[c] = l[d] /\ l[c] \in Clusters => c = d
Acyclic(l) == \A S \in SUBSET Clusters : S # {} => \E c \in S : l[c] \notin S
Sound(l) == Linked(l) /\ OnePredecessor(l) /\ Acyclic(l)

\* m is l with the link of c set to v.
Stored(l, m, c, v) ==
  m[c] = v /\ \A d \in 0 .. MaxCluster - 1 : d # c => m[d] = l[d]

LEMMA Numbers ==
  /\ EOC \notin Clusters /\ 0 \notin Clusters /\ EOC # 0 /\ ROOT \in Clusters
  /\ 0 \in 0 .. MaxCluster - 1 /\ ROOT # 0 /\ ROOT # EOC
  /\ \A c \in Clusters : c \in 0 .. MaxCluster - 1 /\ c # 0 /\ c # EOC
BY Fat32Assumption DEF Clusters, EOC, ROOT

\* A cluster is marked used.
LEMMA MarkSound ==
  ASSUME NEW l, NEW m, NEW c \in Clusters, Sound(l), l[c] = 0, Stored(l, m, c, EOC)
  PROVE  /\ Sound(m)
         /\ \A d : Used(l, d) => Used(m, d)
         /\ \A d : First(l, d) => First(m, d)
<1>1. \A d \in Clusters : d # c => m[d] = l[d] BY Zenon, Numbers DEF Stored
<1>2. m[c] = EOC /\ m[0] = l[0] BY Zenon, Numbers DEF Stored
<1>3. \A d : Used(l, d) => Used(m, d) BY Zenon, <1>1, <1>2, Numbers DEF Used
<1>4. \A d : First(l, d) => First(m, d) BY Zenon, <1>1, <1>2, <1>3, Numbers DEF First, Used
<1>5. Linked(m)
  BY Zenon, <1>1, <1>2, <1>3, Numbers DEF Linked, Sound
<1>6. OnePredecessor(m)
  BY Zenon, <1>1, <1>2, Numbers DEF OnePredecessor, Sound
<1>7. Acyclic(m)
  <2> SUFFICES ASSUME NEW S \in SUBSET Clusters, S # {} PROVE \E d \in S : m[d] \notin S
    BY Zenon DEF Acyclic
  <2>1. PICK d \in S : l[d] \notin S BY Zenon DEF Sound, Acyclic
  <2>2. EOC \notin S BY Zenon, Numbers
  <2> QED BY Zenon, <1>1, <1>2, <2>1, <2>2
<1> QED BY Zenon, <1>3, <1>4, <1>5, <1>6, <1>7 DEF Sound

\* A chain that ends with t goes on with c.
LEMMA LinkSound ==
  ASSUME NEW l, NEW m, NEW t \in Clusters, NEW c, Sound(l), Used(l, t), First(l, c),
         t # c, l[t] = EOC, l[c] = EOC, Stored(l, m, t, c)
  PROVE  /\ Sound(m)
         /\ \A d : Used(l, d) => Used(m, d)
         /\ \A d : First(l, d) /\ d # c => First(m, d)
<1>0. c \in Clusters /\ c # ROOT /\ \A d \in Clusters : l[d] # c BY Zenon DEF First, Used
<1>1. \A d \in Clusters : d # t => m[d] = l[d] BY Zenon, Numbers DEF Stored
<1>2. m[t] = c /\ m[0] = l[0] BY Zenon, Numbers DEF Stored
<1>3. \A d : Used(l, d) => Used(m, d) BY Zenon, <1>0, <1>1, <1>2, Numbers DEF Used
<1>4. \A d : First(l, d) /\ d # c => First(m, d)
  BY Zenon, <1>1, <1>2, <1>3, Numbers DEF First, Used
<1>5. Linked(m)
  <2>1. m[0] = EOC /\ m[ROOT] # 0 BY Zenon, <1>0, <1>1, <1>2, Numbers DEF Linked, Sound
  <2>2. Used(m, c) BY Zenon, <1>3 DEF First
  <2> QED BY Zenon, <1>1, <1>2, <1>3, <2>1, <2>2 DEF Linked, Sound
<1>6. OnePredecessor(m)
  BY Zenon, <1>0, <1>1, <1>2, Numbers DEF OnePredecessor, Sound
<1>7. Acyclic(m)
  <2> SUFFICES ASSUME NEW S \in SUBSET Clusters, S # {} PROVE \E d \in S : m[d] \notin S
    BY Zenon DEF Acyclic
  <2>1. PICK d \in S : l[d] \notin S BY Zenon DEF Sound, Acyclic
  <2>2. EOC \notin S BY Zenon, Numbers
  <2>3. CASE c \in S BY Zenon, <1>0, <1>1, <2>2, <2>3
  <2>4. CASE c \notin S BY Zenon, <1>1, <1>2, <2>1, <2>4
  <2> QED BY Zenon, <2>3, <2>4
<1> QED BY Zenon, <1>3, <1>4, <1>5, <1>6, <1>7 DEF Sound

\* The first cluster of a chain is freed; the chain begins with the second.
LEMMA ClearSound ==
  ASSUME NEW l, NEW m, NEW h, Sound(l), First(l, h), Stored(l, m, h, 0)
  PROVE  /\ Sound(m)
         /\ \A d : First(l, d) /\ d # h => First(m, d)
         /\ l[h] = EOC \/ (First(m, l[h]) /\ l[h] # h /\ ~First(l, l[h]))
<1>0. h \in Clusters /\ h # ROOT /\ l[h] # 0 /\ \A d \in Clusters : l[d] # h
  BY Zenon DEF First, Used
<1>1. \A d \in Clusters : d # h => m[d] = l[d] BY Zenon, <1>0, Numbers DEF Stored
<1>2. m[h] = 0 /\ m[0] = l[0] BY Zenon, <1>0, Numbers DEF Stored
<1>3. \A d : Used(l, d) /\ d # h => Used(m, d) BY Zenon, <1>1 DEF Used
<1>4. \A d : First(l, d) /\ d # h => First(m, d)
  BY Zenon, <1>1, <1>2, <1>3, Numbers DEF First, Used
<1>5. Linked(m)
  <2>1. m[0] = EOC /\ m[ROOT] # 0 BY Zenon, <1>0, <1>1, <1>2, Numbers DEF Linked, Sound
  <2>2. ASSUME NEW d \in Clusters, d # h PROVE m[d] = 0 \/ m[d] = EOC \/ Used(m, m[d])
    <3>1. m[d] = l[d] /\ l[d] # h BY Zenon, <1>0, <1>1, <2>2
    <3>2. l[d] = 0 \/ l[d] = EOC \/ Used(l, l[d]) BY Zenon DEF Sound, Linked
    <3> QED BY Zenon, <1>3, <3>1, <3>2
  <2> QED BY Zenon, <1>2, <2>1, <2>2 DEF Linked
<1>6. OnePredecessor(m)
  BY Zenon, <1>0, <1>1, <1>2, Numbers DEF OnePredecessor, Sound
<1>7. Acyclic(m)
  <2> SUFFICES ASSUME NEW S \in SUBSET Clusters, S # {} PROVE \E d \in S : m[d] \notin S
    BY Zenon DEF Acyclic
  <2>1. PICK d \in S : l[d] \notin S BY Zenon DEF Sound, Acyclic
  <2>2. 0 \notin S BY Zenon, Numbers
  <2> QED BY Zenon, <1>1, <1>2, <2>1, <2>2
<1>8. ASSUME l[h] # EOC PROVE First(m, l[h]) /\ l[h] # h /\ ~First(l, l[h])
  <2>1. Used(l, l[h]) /\ l[h] # h BY Zenon, <1>0, <1>8 DEF Sound, Linked
  <2>2. Used(m, l[h]) BY Zenon, <1>3, <2>1
  <2>3. ASSUME NEW d \in Clusters, m[d] = l[h] PROVE FALSE
    <3>1. d # h BY Zenon, <1>0, <1>2, <2>3
    <3>2. l[d] = l[h] BY Zenon, <1>1, <2>3, <3>1
    <3> QED BY Zenon, <1>0, <2>1, <3>1, <3>2 DEF Sound, OnePredecessor, Used
  <2> QED BY Zenon, <1>0, <2>1, <2>2, <2>3 DEF First
<1> QED BY Zenon, <1>4, <1>5, <1>6, <1>7, <1>8 DEF Sound

(* The inductive invariant.                                                *)

Entry == [name : Names \cup {"free", "deleted"}, start : 0 .. MaxCluster - 1, size : Int]
File  == [mode : Modes, slot : 1 .. Slots, size : Int, position : Int,
          start : 0 .. MaxCluster - 1, current : 0 .. MaxCluster - 1,
          sec : Int, byte : Int, modified : BOOLEAN, error : BOOLEAN]

Write == [on : {"fat"}, copy : Copies, c : 0 .. MaxCluster - 1, v : 0 .. MaxCluster]
           \cup [on : {"dir"}, slot : 1 .. Slots, entry : Entry] \cup [on : {"data"}]

Places == {"idle", "slot", "opened", "free", "read", "first", "started", "data",
           "written", "advance", "linked", "append", "appended", "expanded", "synced"}
Allocating == {"slot", "started", "linked", "appended"}
Closing    == {"slot", "opened", "free"}
Busy       == Places \ ({"idle"} \cup Closing)

TypeOK ==
  /\ fat \in [Copies -> Tables]
  /\ dir \in [1 .. Slots -> Entry]
  /\ file \in File \cup {Closed}
  /\ pc \in Places
  /\ clu \in 0 .. MaxCluster /\ left \in Int
  /\ todo \in Seq(Write)
  /\ pc \in {"slot", "opened"} =>
       op \in [f : {"f_open"}, name : Names, mode : Modes, slot : 0 .. Slots]
  /\ pc \in {"append", "appended"} => op \in [f : {"f_expand"}, size : Int]
  /\ pc = "free" => op = [f |-> "f_unlink"]
  /\ pc \in Closing => ~Open
  /\ pc \in Busy => Open

\* No entry in use but s has a chain that begins with c.
Apart(d, c, s) == \A t \in 1 .. Slots : t # s /\ d[t].name \in Names => d[t].start # c

EntriesOK(l, d) ==
  \A s \in 1 .. Slots : d[s].name \in Names =>
    d[s].start = 0 \/ (First(l, d[s].start) /\ Apart(d, d[s].start, s))

FileOK(l, d, f) ==
  f # Closed =>
    /\ f.start = 0 \/ (First(l, f.start) /\ Apart(d, f.start, f.slot))
    /\ f.current = 0 \/ Used(l, f.current)

\* A write that changes neither the first copy of the table nor the directory.
Dull(w) == w.on = "data" \/ (w.on = "fat" /\ w.copy \in Copies \ {0})
Quiet   == \A i \in 1 .. Len(todo) : Dull(todo[i])

Store(c, v) == [on |-> "fat", copy |-> 0, c |-> c, v |-> v]
\* What remains is one write, to slot s of the directory.
Recording(s) ==
  Len(todo) = 1 /\ todo[1].on = "dir" /\ todo[1].slot = s

\* clu is being allocated and linked behind t, or behind nothing.
Allocates(t) ==
  /\ clu \in Clusters /\ clu # ROOT
  /\ fat[0][clu] = 0 \/ fat[0][clu] = EOC
  /\ fat[0][clu] = 0 => todo # <<>> /\ todo[1] = Store(clu, EOC)
  /\ \A c \in Clusters : fat[0][c] = clu => c = t
  /\ t # 0 => Used(fat[0], t) /\ t # clu /\ fat[0][t] \in {EOC, clu}
  /\ Apart(dir, clu, 0)
  /\ Open => file.start # clu
  /\ \A i \in 1 .. Len(todo) :
       \/ Dull(todo[i])
       \/ i = 1 /\ fat[0][clu] = 0 /\ todo[i] = Store(clu, EOC)
       \/ t # 0 /\ todo[i] = Store(t, clu)

AllocatingOK ==
  pc \in Allocating => \E t \in Clusters \cup {0} :
    /\ Allocates(t)
    /\ pc \in {"slot", "started"} \/ (pc = "appended" /\ file.start = 0) => t = 0

OpenedOK ==
  pc = "opened" =>
    /\ First(fat[0], clu) /\ op.slot \in 1 .. Slots /\ Apart(dir, clu, op.slot)
    /\ Quiet \/ (Recording(op.slot) /\ todo[1].entry.start = clu)

SyncedOK ==
  pc = "synced" =>
    Quiet \/ (Recording(file.slot) /\ todo[1].entry.start = file.start)

\* Nothing but clu refers to the chain that begins there.
Orphan(l, d, c) == c = 0 \/ c = EOC \/ (First(l, c) /\ Apart(d, c, 0))

FreeingOK ==
  pc = "free" =>
    \/ Quiet /\ Orphan(fat[0], dir, clu)
    \/ \E s \in 1 .. Slots :
         /\ Recording(s) /\ todo[1].entry.name = "deleted"
         /\ clu = 0 \/ (First(fat[0], clu) /\ Apart(dir, clu, s))
    \/ \E h \in Clusters :
         /\ First(fat[0], h) /\ Apart(dir, h, 0)
         /\ clu = fat[0][h]
         /\ todo # <<>> /\ todo[1] = Store(h, 0)
         /\ \A i \in 1 .. Len(todo) : i # 1 => Dull(todo[i])

AppendOK ==
  pc = "append" =>
    /\ file.start = 0 => clu = 0
    /\ clu = 0 \/ (Used(fat[0], clu) /\ fat[0][clu] = EOC)

PhaseOK ==
  /\ AllocatingOK /\ OpenedOK /\ SyncedOK /\ FreeingOK /\ AppendOK
  /\ pc \in {"data", "written", "advance", "linked"} => file.current # 0
  /\ pc \notin Allocating \cup {"opened", "synced", "free"} => Quiet

\* The files on the disk are sound, and the call knows what it may change.
DiskInv ==
  TypeOK /\ Sound(fat[0]) /\ EntriesOK(fat[0], dir) /\ FileOK(fat[0], dir, file) /\ PhaseOK

-----------------------------------------------------------------------------
(* Choices and sequences of writes.                                        *)

\* A nonempty set of naturals has a least element.
LEMMA LeastNat ==
  ASSUME NEW T, T \subseteq Nat, T # {}
  PROVE  \E x \in T : \A y \in T : x <= y
<1> DEFINE R == OpToRel(<, Nat)
<1>1. IsWellFoundedOn(R, Nat) BY Zenon, NatLessThanWellFounded
<1> HIDE DEF R
<1>2. PICK x \in T : \A y \in T : ~ (<<y, x>> \in R) BY Zenon, <1>1, WFMin
<1>3. ASSUME NEW y \in T, y < x PROVE <<y, x>> \in R
  BY Zenon, <1>3 DEF R, OpToRel
<1>4. ASSUME NEW y \in T PROVE x <= y
  <2>1. ~(y < x) BY Zenon, <1>2, <1>3
  <2>2. x \in Nat /\ y \in Nat BY Zenon
  <2> QED BY <2>1, <2>2
<1> QED BY Zenon, <1>4

\* find_free_cluster returns a free cluster.
LEMMA FirstFreeFree ==
  ASSUME Free # {}
  PROVE  FirstFree \in Clusters /\ fat[0][FirstFree] = 0
<1>1. Free \subseteq Nat BY Fat32Assumption DEF Free, Clusters
<1>2. \E x \in Free : \A y \in Free : x <= y BY Zenon, <1>1, LeastNat
<1>3. FirstFree \in Free BY Zenon, <1>2 DEF FirstFree
<1> QED BY Zenon, <1>3 DEF Free, NextOf

\* A search of the directory returns one of its slots.
LEMMA FirstSlotUsable ==
  ASSUME Usable # {}
  PROVE  FirstSlot \in 1 .. Slots /\ dir[FirstSlot].name \in {"free", "deleted"}
<1>1. Usable \subseteq Nat BY Fat32Assumption DEF Usable
<1>2. \E x \in Usable : \A y \in Usable : x <= y BY Zenon, <1>1, LeastNat
<1>3. FirstSlot \in Usable BY Zenon, <1>2 DEF FirstSlot
<1> QED BY Zenon, <1>3 DEF Usable

LEMMA SlotOfFound ==
  ASSUME NEW n, Find(n) # {}
  PROVE  SlotOf(n) \in 1 .. Slots /\ dir[SlotOf(n)].name = n
<1>1. Find(n) \subseteq Nat BY Fat32Assumption DEF Find
<1>2. \E x \in Find(n) : \A y \in Find(n) : x <= y BY Zenon, <1>1, LeastNat
<1>3. SlotOf(n) \in Find(n) BY Zenon, <1>2 DEF SlotOf
<1> QED BY Zenon, <1>3 DEF Find

\* The writes of write_fat_entry: only the first changes the first copy.
LEMMA FatWrites ==
  ASSUME NEW c \in 0 .. MaxCluster - 1, NEW v \in 0 .. MaxCluster
  PROVE  LET ws == write_fat_entry(c, v) IN
           /\ ws \in Seq(Write) /\ Len(ws) = NumFats /\ NumFats \in Nat \ {0}
           /\ ws[1] = Store(c, v)
           /\ \A i \in 1 .. NumFats : i # 1 => Dull(ws[i])
<1> DEFINE ws == write_fat_entry(c, v)
           W(k) == [on |-> "fat", copy |-> k - 1, c |-> c, v |-> v]
<1>1. NumFats \in Nat \ {0} BY Fat32Assumption
<1>2. ASSUME NEW k \in 1 .. NumFats
      PROVE  W(k) \in Write /\ (k # 1 => Dull(W(k))) /\ (k = 1 => W(k) = Store(c, v))
  <2>1. k - 1 \in Copies /\ (k # 1 => k - 1 # 0) /\ (k = 1 => k - 1 = 0)
    BY <1>1 DEF Copies
  <2> QED BY Zenon, <2>1 DEF Write, Dull, Store
<1>3. ws = [k \in 1 .. NumFats |-> W(k)] BY Zenon DEF write_fat_entry
<1> HIDE DEF ws, W
<1>4. ws \in Seq(Write) /\ Len(ws) = NumFats BY <1>1, <1>2, <1>3
<1>5. \A k \in 1 .. NumFats : ws[k] = W(k) BY Zenon, <1>3
<1>6. 1 \in 1 .. NumFats BY <1>1
<1>7. ws[1] = Store(c, v) /\ \A i \in 1 .. NumFats : i # 1 => Dull(ws[i])
  BY Zenon, <1>2, <1>5, <1>6
<1> QED BY Zenon, <1>1, <1>4, <1>7 DEF ws

LEMMA ConcatWrites ==
  ASSUME NEW a \in Seq(Write), NEW b \in Seq(Write), NEW n \in Nat \ {0},
         Len(a) = n, Len(b) = n
  PROVE  /\ a \o b \in Seq(Write) /\ Len(a \o b) \in Nat \ {0}
         /\ \A i \in 1 .. n : (a \o b)[i] = a[i]
         /\ \A i \in 1 .. Len(a \o b) : i > n => (a \o b)[i] = b[i - n] /\ i - n \in 1 .. n
         /\ \A i \in 1 .. Len(a \o b) : ~(i > n) => i \in 1 .. n
         /\ 1 \in 1 .. n
OBVIOUS

\* c is marked used and then linked behind t.
LEMMA LinkWrites ==
  ASSUME NEW c \in Clusters, NEW t \in Clusters
  PROVE  LET ws == write_fat_entry(c, EOC) \o write_fat_entry(t, c) IN
           /\ ws \in Seq(Write) /\ Len(ws) \in Nat \ {0}
           /\ ws[1] = Store(c, EOC)
           /\ \A i \in 1 .. Len(ws) : i # 1 => Dull(ws[i]) \/ ws[i] = Store(t, c)
<1> DEFINE a == write_fat_entry(c, EOC)
           b == write_fat_entry(t, c)
           ws == a \o b
<1>0. /\ c \in 0 .. MaxCluster - 1 /\ c \in 0 .. MaxCluster /\ t \in 0 .. MaxCluster - 1
      /\ EOC \in 0 .. MaxCluster
  BY Fat32Assumption DEF Clusters, EOC
<1>1. /\ a \in Seq(Write) /\ Len(a) = NumFats /\ NumFats \in Nat \ {0} /\ a[1] = Store(c, EOC)
      /\ \A i \in 1 .. NumFats : i # 1 => Dull(a[i])
  BY Zenon, <1>0, FatWrites
<1>2. /\ b \in Seq(Write) /\ Len(b) = NumFats /\ b[1] = Store(t, c)
      /\ \A i \in 1 .. NumFats : i # 1 => Dull(b[i])
  BY Zenon, <1>0, FatWrites
<1> HIDE DEF a, b
<1>3. /\ ws \in Seq(Write) /\ Len(ws) \in Nat \ {0}
      /\ \A i \in 1 .. NumFats : ws[i] = a[i]
      /\ \A i \in 1 .. Len(ws) :
           i > NumFats => ws[i] = b[i - NumFats] /\ i - NumFats \in 1 .. NumFats
      /\ \A i \in 1 .. Len(ws) : ~(i > NumFats) => i \in 1 .. NumFats
      /\ 1 \in 1 .. NumFats
  BY Zenon, <1>1, <1>2, ConcatWrites
<1> HIDE DEF ws
<1>4. ws[1] = Store(c, EOC) BY Zenon, <1>1, <1>3
<1>5. ASSUME NEW i \in 1 .. Len(ws), i # 1 PROVE Dull(ws[i]) \/ ws[i] = Store(t, c)
  <2>1. CASE i > NumFats
    <3>1. ws[i] = b[i - NumFats] /\ i - NumFats \in 1 .. NumFats BY Zenon, <1>3, <2>1
    <3> QED BY Zenon, <1>2, <3>1
  <2>2. CASE ~(i > NumFats)
    <3>1. i \in 1 .. NumFats BY Zenon, <1>3, <2>2
    <3> QED BY Zenon, <1>1, <1>3, <1>5, <3>1
  <2> QED BY Zenon, <2>1, <2>2
<1> QED BY Zenon, <1>3, <1>4, <1>5 DEF ws, a, b

\* What is left to write after the first of the writes.
LEMMA TailWrites ==
  ASSUME NEW ws \in Seq(Write), ws # <<>>
  PROVE  /\ Tail(ws) \in Seq(Write) /\ Head(ws) = ws[1] /\ ws[1] \in Write
         /\ 1 \in 1 .. Len(ws) /\ Len(Tail(ws)) = Len(ws) - 1 /\ Len(ws) \in Nat
         /\ \A i \in 1 .. Len(Tail(ws)) :
              Tail(ws)[i] = ws[i + 1] /\ i + 1 \in 1 .. Len(ws) /\ i + 1 # 1
OBVIOUS

\* The sector that a write to a copy of the table leaves.
LEMMA FatStep ==
  ASSUME fat \in [Copies -> Tables], NEW w \in Write, w.on = "fat", fat' = FatAfter(w)
  PROVE  /\ fat' \in [Copies -> Tables]
         /\ w.copy # 0 => fat'[0] = fat[0]
         /\ w.copy = 0 => Stored(fat[0], fat'[0], w.c, w.v)
<1> DEFINE D == 0 .. MaxCluster - 1
           f(c) == IF c = w.c THEN w.v
                   ELSE IF c \div FatEntries = w.c \div FatEntries THEN fat[0][c]
                   ELSE fat[w.copy][c]
<1>1. w.copy \in Copies /\ w.c \in D /\ w.v \in 0 .. MaxCluster BY Zenon DEF Write
<1>2. 0 \in Copies BY Fat32Assumption DEF Copies
<1>3. fat[0] \in [D -> 0 .. MaxCluster] /\ fat[w.copy] \in [D -> 0 .. MaxCluster]
  BY Zenon, <1>1, <1>2 DEF Tables
<1>4. DOMAIN fat[0] = D BY Zenon, <1>3
<1>5. fat' = [fat EXCEPT ![w.copy] = [c \in D |-> f(c)]] BY Zenon, <1>4 DEF FatAfter
<1>6. \A c \in D : f(c) \in 0 .. MaxCluster BY Zenon, <1>1, <1>3
<1>7. ASSUME w.copy = 0 PROVE \A c \in D : f(c) = IF c = w.c THEN w.v ELSE fat[0][c]
  BY Zenon, <1>7
<1> HIDE DEF f
<1>8. [c \in D |-> f(c)] \in Tables BY Zenon, <1>6 DEF Tables
<1>9. fat' \in [Copies -> Tables] BY Zenon, <1>5, <1>8
<1>10. w.copy # 0 => fat'[0] = fat[0] BY Zenon, <1>2, <1>5
<1>11. w.copy = 0 => fat'[0] = [c \in D |-> f(c)] BY Zenon, <1>1, <1>5
<1>12. ASSUME w.copy = 0 PROVE Stored(fat[0], fat'[0], w.c, w.v)
  BY Zenon, <1>1, <1>7, <1>11, <1>12 DEF Stored
<1> QED BY Zenon, <1>9, <1>10, <1>12

-----------------------------------------------------------------------------
(* The steps that change nothing on the disk.                              *)

\* A call returns.
LEMMA ReturnKeeps ==
  ASSUME DiskInv, NEW f \in File \cup {Closed}, FileOK(fat[0], dir, f), Return(f)
  PROVE  DiskInv'
<1>1. /\ fat' = fat /\ dir' = dir /\ file' = f /\ pc' = "idle" /\ todo' = <<>>
      /\ clu' = 0 /\ left' = 0
  BY Zenon DEF Return, disk
<1>2. 0 \in 0 .. MaxCluster /\ 0 \in Int /\ <<>> \in Seq(Write) /\ Len(<<>>) = 0
  BY Fat32Assumption
<1>3. TypeOK' BY Zenon, <1>1, <1>2 DEF DiskInv, TypeOK, Places, Closing, Busy
<1>4. Quiet'
  <2>1. \A i \in 1 .. 0 : FALSE OBVIOUS
  <2> QED BY Zenon, <1>1, <1>2, <2>1 DEF Quiet
<1>5. PhaseOK'
  BY Zenon, <1>1, <1>4
  DEF PhaseOK, AllocatingOK, OpenedOK, SyncedOK, FreeingOK, AppendOK, Allocating
<1> QED BY Zenon, <1>1, <1>3, <1>5 DEF DiskInv

LEMMA NoWrites == /\ <<>> \in Seq(Write) /\ (\A i \in 1 .. Len(<<>>) : Dull(<<>>[i]))
                  /\ write_data \in Seq(Write)
                  /\ (\A i \in 1 .. Len(write_data) : Dull(write_data[i]))
<1>1. <<>> \in Seq(Write) /\ (\A i \in 1 .. Len(<<>>) : Dull(<<>>[i])) OBVIOUS
<1>2. [on |-> "data"] \in Write /\ Dull([on |-> "data"]) BY Zenon DEF Write, Dull
<1>3. \A w \in Write : Dull(w) => <<w>> \in Seq(Write) /\ \A i \in 1 .. Len(<<w>>) : Dull(<<w>>[i])
  OBVIOUS
<1> QED BY Zenon, <1>1, <1>2, <1>3 DEF write_data

Calm == {"read", "first", "data", "written", "advance", "append", "expanded"}

\* A call goes on, perhaps after writing data.
LEMMA GoesKeeps ==
  ASSUME DiskInv, NEW p \in Calm, NEW ws \in Seq(Write), Goes(p, ws),
         \A i \in 1 .. Len(ws) : Dull(ws[i]),
         file' \in File, FileOK(fat[0], dir, file'), clu' \in 0 .. MaxCluster, left' \in Int,
         p \in {"data", "written", "advance"} => file'.current # 0,
         p = "append" =>
           /\ op' \in [f : {"f_expand"}, size : Int]
           /\ file'.start = 0 => clu' = 0
           /\ clu' = 0 \/ (Used(fat[0], clu') /\ fat[0][clu'] = EOC)
  PROVE  DiskInv'
<1>1. fat' = fat /\ dir' = dir /\ pc' = p /\ todo' = ws BY Zenon DEF Goes, disk
<1>2. p \in Places /\ p \notin Allocating /\ p \notin Closing
      /\ p \notin {"slot", "opened", "free", "synced", "appended", "linked"}
  BY Zenon DEF Calm, Places, Allocating, Closing
<1>3. \A f \in File : f # Closed
  <2>1. \A f \in File : f.mode \in Modes BY Zenon DEF File
  <2>2. Closed.mode = "closed" BY Zenon DEF Closed
  <2>3. "closed" \notin Modes BY Zenon, Fat32Assumption
  <2> QED BY Zenon, <2>1, <2>2, <2>3
<1>4. TypeOK'
  <2>1. Open' BY Zenon, <1>3 DEF Open
  <2> QED BY Zenon, <1>1, <1>2, <2>1 DEF DiskInv, TypeOK
<1>5. Quiet' BY Zenon, <1>1 DEF Quiet
<1>6. AppendOK' BY Zenon, <1>1 DEF AppendOK
<1>7. PhaseOK'
  BY Zenon, <1>1, <1>2, <1>5, <1>6
  DEF PhaseOK, AllocatingOK, OpenedOK, SyncedOK, FreeingOK
<1> QED BY Zenon, <1>1, <1>4, <1>7 DEF DiskInv

\* The writes that allocate a and link it behind t, or behind nothing.
AllocateAt(a, t) ==
  IF t = 0 THEN write_fat_entry(a, EOC)
  ELSE write_fat_entry(a, EOC) \o write_fat_entry(t, a)

LEMMA AllocateWrites ==
  ASSUME NEW a \in Clusters, NEW t \in Clusters \cup {0}, NEW ws, ws = AllocateAt(a, t)
  PROVE  /\ ws \in Seq(Write) /\ Len(ws) \in Nat \ {0} /\ ws[1] = Store(a, EOC)
         /\ \A i \in 1 .. Len(ws) : i # 1 => Dull(ws[i]) \/ (t # 0 /\ ws[i] = Store(t, a))
<1>1. a \in 0 .. MaxCluster - 1 /\ a \in 0 .. MaxCluster /\ EOC \in 0 .. MaxCluster
  BY Fat32Assumption DEF Clusters, EOC
<1>2. CASE t = 0
  <2>1. ws = write_fat_entry(a, EOC) BY Zenon, <1>2 DEF AllocateAt
  <2>2. /\ ws \in Seq(Write) /\ Len(ws) = NumFats /\ NumFats \in Nat \ {0}
        /\ ws[1] = Store(a, EOC) /\ \A i \in 1 .. NumFats : i # 1 => Dull(ws[i])
    BY Zenon, <1>1, <2>1, FatWrites
  <2> QED BY Zenon, <2>2
<1>3. CASE t # 0
  <2> DEFINE x == write_fat_entry(a, EOC) \o write_fat_entry(t, a)
  <2>1. t \in Clusters BY Zenon, <1>3
  <2>2. /\ x \in Seq(Write) /\ Len(x) \in Nat \ {0} /\ x[1] = Store(a, EOC)
        /\ \A i \in 1 .. Len(x) : i # 1 => Dull(x[i]) \/ x[i] = Store(t, a)
    BY Zenon, <2>1, LinkWrites
  <2>3. ws = x BY Zenon, <1>3 DEF AllocateAt
  <2> HIDE DEF x
  <2> QED BY Zenon, <1>3, <2>2, <2>3
<1> QED BY Zenon, <1>2, <1>3

\* A call takes a free cluster, to begin a chain or to go behind t.
LEMMA AllocateKeeps ==
  ASSUME DiskInv, NEW p \in Allocating, NEW t \in Clusters \cup {0}, Free # {},
         Goes(p, AllocateAt(FirstFree, t)), clu' = FirstFree, file' = file, left' = left,
         t # 0 => Used(fat[0], t) /\ fat[0][t] = EOC,
         p \in Closing <=> ~Open,
         p \in {"slot", "started"} \/ (p = "appended" /\ file.start = 0) => t = 0,
         p = "linked" => file.current # 0,
         p = "slot" => op' \in [f : {"f_open"}, name : Names, mode : Modes, slot : 0 .. Slots],
         p = "appended" => op' \in [f : {"f_expand"}, size : Int]
  PROVE  DiskInv'
<1> DEFINE a == FirstFree
           ws == AllocateAt(FirstFree, t)
<1>1. /\ fat' = fat /\ dir' = dir /\ pc' = p /\ todo' = ws /\ file' = file /\ clu' = a
      /\ left' = left
  BY Zenon DEF Goes, disk
<1>2. a \in Clusters /\ fat[0][a] = 0 BY Zenon, FirstFreeFree
<1>3. a \in 0 .. MaxCluster - 1 /\ a \in 0 .. MaxCluster /\ EOC \in 0 .. MaxCluster
  BY <1>2, Fat32Assumption DEF Clusters, EOC
<1> HIDE DEF a
<1>4. /\ ws \in Seq(Write) /\ Len(ws) \in Nat \ {0} /\ ws[1] = Store(a, EOC)
      /\ \A i \in 1 .. Len(ws) : i # 1 => Dull(ws[i]) \/ (t # 0 /\ ws[i] = Store(t, a))
  BY Zenon, <1>2, AllocateWrites DEF a, ws
<1> HIDE DEF ws
<1>5. ws # <<>> BY <1>4
<1>6. p \in Places /\ (p \notin Closing => p \in Busy)
      /\ p \notin {"append", "opened", "free", "synced", "data", "written", "advance"}
  BY Zenon DEF Allocating, Places, Busy, Closing
<1>7. TypeOK'
  <2>1. p \in Closing => ~Open' BY Zenon, <1>1 DEF Open
  <2>2. p \in Busy => Open' BY Zenon, <1>1 DEF Open, Busy
  <2> QED BY Zenon, <1>1, <1>3, <1>4, <1>6, <2>1, <2>2 DEF DiskInv, TypeOK
<1>8. Allocates(t)'
  <2>1. a # ROOT /\ \A c \in Clusters : fat[0][c] # a
    <3>1. Linked(fat[0]) BY Zenon DEF DiskInv, Sound
    <3>2. a # ROOT BY Zenon, <1>2, <3>1 DEF Linked
    <3>3. ASSUME NEW c \in Clusters, fat[0][c] = a PROVE FALSE
      <4>1. a # 0 /\ a # EOC BY Zenon, <1>2, Numbers
      <4>2. Used(fat[0], a) BY Zenon, <3>1, <3>3, <4>1 DEF Linked
      <4> QED BY Zenon, <1>2, <4>2 DEF Used
    <3> QED BY Zenon, <3>2, <3>3
  <2>2. ASSUME t # 0 PROVE Used(fat[0], t) /\ t # a /\ fat[0][t] \in {EOC, a}
    <3>1. Used(fat[0], t) /\ fat[0][t] = EOC BY Zenon, <2>2
    <3>2. t # a BY Zenon, <1>2, <3>1 DEF Used
    <3> QED BY Zenon, <3>1, <3>2
  <2>3. Apart(dir, a, 0)
    BY Zenon, <1>2, Numbers DEF DiskInv, EntriesOK, Apart, First, Used
  <2>4. Open => file.start # a
    BY Zenon, <1>2, Numbers DEF DiskInv, FileOK, First, Used, Open
  <2> QED BY Zenon, <1>1, <1>2, <1>4, <1>5, <2>1, <2>2, <2>3, <2>4 DEF Allocates, Open
<1>9. AllocatingOK' BY Zenon, <1>1, <1>8 DEF AllocatingOK
<1>10. PhaseOK'
  BY Zenon, <1>1, <1>6, <1>9 DEF PhaseOK, OpenedOK, SyncedOK, FreeingOK, AppendOK
<1> QED BY Zenon, <1>1, <1>7, <1>10 DEF DiskInv

-----------------------------------------------------------------------------
(* Walks along a chain: Nth is a recursive function.                       *)

\* The cluster a walk visits behind c.
After(c) == IF c >= EOC THEN EOC ELSE NextOf(c)

Going(g, c, n) == g = [i \in 0 .. n |-> IF i = 0 THEN c ELSE After(g[i - 1])]
Goer(c, n) == CHOOSE g : Going(g, c, n)

LEMMA NthIsGoer ==
  ASSUME NEW c, NEW n
  PROVE  Nth(c, n) = Goer(c, n)[n]
BY Zenon DEF Nth, Goer, Going, After

LEMMA FromZero ==
  \A m \in Nat : 0 \in 0 .. m /\ \A i \in 1 .. m : i \in 0 .. m /\ i # 0
OBVIOUS

LEMMA GoingAt ==
  ASSUME NEW c, NEW n \in Nat, NEW g, Going(g, c, n)
  PROVE  g[0] = c /\ \A i \in 1 .. n : g[i] = After(g[i - 1])
<1>1. \A i \in 0 .. n : g[i] = IF i = 0 THEN c ELSE After(g[i - 1]) BY Zenon DEF Going
<1>2. 0 \in 0 .. n /\ \A i \in 1 .. n : i \in 0 .. n /\ i # 0 BY Zenon, FromZero
<1> QED BY Zenon, <1>1, <1>2

\* The walk of every length exists: the shortest that did not would be one step
\* longer than one that does.
LEMMA GoerExists ==
  ASSUME NEW c, NEW n \in Nat
  PROVE  Going(Goer(c, n), c, n)
<1> DEFINE Bad == {k \in Nat : ~ \E g : Going(g, c, k)}
<1>1. Bad = {}
  <2> SUFFICES ASSUME Bad # {} PROVE FALSE
    BY Zenon
  <2>1. PICK k \in Bad : \A y \in Bad : k <= y
    <3>1. Bad \subseteq Nat BY Zenon
    <3> HIDE DEF Bad
    <3> QED BY Zenon, <3>1, LeastNat
  <2>2. k \in Nat /\ ~ \E g : Going(g, c, k) BY Zenon, <2>1
  <2>3. k # 0
    <3> DEFINE g == [i \in 0 .. 0 |-> c]
    <3>1. ASSUME NEW i \in 0 .. 0 PROVE (IF i = 0 THEN c ELSE After(g[i - 1])) = c
      <4>1. i = 0 OBVIOUS
      <4> QED BY Zenon, <4>1
    <3>2. Going(g, c, 0)
      <4> HIDE DEF g
      <4>1. [i \in 0 .. 0 |-> IF i = 0 THEN c ELSE After(g[i - 1])] = [i \in 0 .. 0 |-> c]
        BY Zenon, <3>1
      <4> QED BY Zenon, <4>1 DEF Going, g
    <3> QED BY Zenon, <2>2, <3>2
  <2>4. k - 1 \in Nat /\ ~(k <= k - 1) BY <2>2, <2>3
  <2>5. k - 1 \notin Bad BY Zenon, <2>1, <2>4
  <2>6. PICK g : Going(g, c, k - 1) BY Zenon, <2>4, <2>5
  <2> DEFINE h == [i \in 0 .. k |-> IF i = k THEN After(g[k - 1]) ELSE g[i]]
  <2>7. ASSUME NEW i \in 0 .. k PROVE h[i] = IF i = 0 THEN c ELSE After(h[i - 1])
    <3>0. g[0] = c /\ \A j \in 1 .. k - 1 : g[j] = After(g[j - 1])
      <4> DEFINE m == k - 1
      <4>0. m \in Nat BY Zenon, <2>4
      <4>1. Going(g, c, m) BY Zenon, <2>6
      <4> HIDE DEF m
      <4>2. g[0] = c /\ \A j \in 1 .. m : g[j] = After(g[j - 1])
        <5>1. \A j \in 0 .. m : g[j] = IF j = 0 THEN c ELSE After(g[j - 1])
          BY Zenon, <4>1 DEF Going
        <5>2. 0 \in 0 .. m /\ \A j \in 1 .. m : j \in 0 .. m /\ j # 0 BY Zenon, <4>0, FromZero
        <5> QED BY Zenon, <5>1, <5>2
      <4> QED BY Zenon, <4>2 DEF m
    <3>1. CASE i = 0
      <4>1. i # k BY Zenon, <2>3, <3>1
      <4>2. h[i] = g[i] BY Zenon, <4>1
      <4> QED BY Zenon, <3>0, <3>1, <4>2
    <3>2. CASE i = k
      <4>1. i - 1 \in 0 .. k /\ i - 1 # k /\ i # 0 /\ k - 1 = i - 1 BY <2>2, <2>3, <3>2
      <4>2. h[i - 1] = g[k - 1] /\ h[i] = After(g[k - 1]) BY Zenon, <3>2, <4>1
      <4> QED BY Zenon, <4>1, <4>2
    <3>3. CASE i # 0 /\ i # k
      <4>1. i - 1 \in 0 .. k /\ i - 1 # k /\ i \in 1 .. k - 1 BY <2>2, <2>3, <3>3
      <4>2. h[i - 1] = g[i - 1] /\ h[i] = g[i] BY Zenon, <3>3, <4>1
      <4> QED BY Zenon, <3>0, <3>3, <4>1, <4>2
    <3> QED BY Zenon, <3>1, <3>2, <3>3
  <2>8. h = [i \in 0 .. k |-> h[i]] BY Zenon
  <2> HIDE DEF h
  <2>9. Going(h, c, k) BY Zenon, <2>7, <2>8 DEF Going
  <2> QED BY Zenon, <2>2, <2>9
<1>2. \E g : Going(g, c, n) BY Zenon, <1>1
<1> QED BY Zenon, <1>2 DEF Goer

\* Walks of different lengths agree as far as both go.
LEMMA GoingAgree ==
  ASSUME NEW c, NEW n \in Nat, NEW g, NEW h, Going(g, c, n), Going(h, c, n + 1)
  PROVE  h[n] = g[n] /\ h[n + 1] = After(h[n])
<1> DEFINE Bad == {k \in 0 .. n : g[k] # h[k]}
<1>1. g[0] = c /\ \A i \in 1 .. n : g[i] = After(g[i - 1]) BY GoingAt
<1>2. h[0] = c /\ \A i \in 1 .. n + 1 : h[i] = After(h[i - 1])
  <2> DEFINE m == n + 1
  <2>0. m \in Nat OBVIOUS
  <2>1. Going(h, c, m) BY Zenon
  <2> HIDE DEF m
  <2>2. h[0] = c /\ \A i \in 1 .. m : h[i] = After(h[i - 1])
    <3>1. \A i \in 0 .. m : h[i] = IF i = 0 THEN c ELSE After(h[i - 1])
      BY Zenon, <2>1 DEF Going
    <3>2. 0 \in 0 .. m /\ \A i \in 1 .. m : i \in 0 .. m /\ i # 0 BY Zenon, <2>0, FromZero
    <3> QED BY Zenon, <3>1, <3>2
  <2> QED BY Zenon, <2>2 DEF m
<1>3. Bad = {}
  <2> SUFFICES ASSUME Bad # {} PROVE FALSE
    BY Zenon
  <2>1. PICK k \in Bad : \A y \in Bad : k <= y
    <3>1. Bad \subseteq Nat OBVIOUS
    <3> HIDE DEF Bad
    <3> QED BY Zenon, <3>1, LeastNat
  <2>2. k \in 0 .. n /\ g[k] # h[k] BY Zenon, <2>1
  <2>3. k # 0 BY Zenon, <1>1, <1>2, <2>2
  <2>4. k - 1 \in 0 .. n /\ ~(k <= k - 1) /\ k \in 1 .. n /\ k \in 1 .. n + 1 BY <2>2, <2>3
  <2>5. g[k - 1] = h[k - 1] BY Zenon, <2>1, <2>4
  <2> QED BY Zenon, <1>1, <1>2, <2>2, <2>4, <2>5
<1>4. n \in 0 .. n /\ n + 1 \in 1 .. n + 1 /\ (n + 1) - 1 = n OBVIOUS
<1>5. h[n + 1] = After(h[(n + 1) - 1]) BY Zenon, <1>2, <1>4
<1> QED BY Zenon, <1>3, <1>4, <1>5

\* The recursive equation of Nth.
LEMMA NthSteps ==
  ASSUME NEW c
  PROVE  /\ Nth(c, 0) = c
         /\ \A n \in Nat : n + 1 \in Nat /\ Nth(c, n + 1) = After(Nth(c, n))
<1>1. 0 \in Nat /\ \A n \in Nat : n + 1 \in Nat OBVIOUS
<1>2. Nth(c, 0) = c BY Zenon, <1>1, NthIsGoer, GoerExists, GoingAt
<1>3. ASSUME NEW n \in Nat PROVE Nth(c, n + 1) = After(Nth(c, n))
  <2>1. Going(Goer(c, n), c, n) BY Zenon, GoerExists
  <2>2. Going(Goer(c, n + 1), c, n + 1) BY Zenon, <1>1, GoerExists
  <2>3. /\ Goer(c, n + 1)[n] = Goer(c, n)[n]
        /\ Goer(c, n + 1)[n + 1] = After(Goer(c, n + 1)[n])
    BY Zenon, <2>1, <2>2, GoingAgree
  <2> QED BY Zenon, <2>3, NthIsGoer
<1> QED BY Zenon, <1>1, <1>2, <1>3

\* Behind a cluster in use comes another or the end.
LEMMA AfterUsed ==
  ASSUME Sound(fat[0])
  PROVE  /\ After(EOC) = EOC
         /\ \A c : Used(fat[0], c) =>
              /\ c \in Clusters /\ ~(c >= EOC) /\ After(c) = fat[0][c]
              /\ After(c) = EOC \/ Used(fat[0], After(c))
         /\ After(0) = EOC
<1>1. EOC >= EOC /\ ~(0 >= EOC) /\ \A c \in Clusters : ~(c >= EOC)
  BY Fat32Assumption DEF Clusters, EOC
<1>2. After(EOC) = EOC BY Zenon, <1>1 DEF After
<1>3. ASSUME NEW c, Used(fat[0], c)
      PROVE  /\ c \in Clusters /\ ~(c >= EOC) /\ After(c) = fat[0][c]
             /\ After(c) = EOC \/ Used(fat[0], After(c))
  <2>1. c \in Clusters /\ fat[0][c] # 0 BY Zenon, <1>3 DEF Used
  <2>2. After(c) = fat[0][c] BY Zenon, <1>1, <2>1 DEF After, NextOf
  <2> QED BY Zenon, <1>1, <2>1, <2>2 DEF Sound, Linked
<1>4. After(0) = EOC BY Zenon, <1>1 DEF After, NextOf, Sound, Linked
<1> QED BY Zenon, <1>2, <1>3, <1>4

\* A walk in a file's chain stays among clusters in use, until its end.
LEMMA WalkUsed ==
  ASSUME Sound(fat[0]), NEW c, c = EOC \/ Used(fat[0], c), NEW n \in Nat
  PROVE  Nth(c, n) = EOC \/ Used(fat[0], Nth(c, n))
<1> DEFINE Bad == {k \in Nat : ~(Nth(c, k) = EOC \/ Used(fat[0], Nth(c, k)))}
<1>0. /\ Nth(c, 0) = c
      /\ \A k \in Nat : k + 1 \in Nat /\ Nth(c, k + 1) = After(Nth(c, k))
  BY Zenon, NthSteps
<1>1. Bad = {}
  <2> SUFFICES ASSUME Bad # {} PROVE FALSE
    BY Zenon
  <2>1. PICK k \in Bad : \A y \in Bad : k <= y
    <3>1. Bad \subseteq Nat BY Zenon
    <3> HIDE DEF Bad
    <3> QED BY Zenon, <3>1, LeastNat
  <2>2. k \in Nat /\ k # 0 BY Zenon, <1>0, <2>1
  <2>3. k - 1 \in Nat /\ ~(k <= k - 1) /\ (k - 1) + 1 = k BY <2>2
  <2>4. Nth(c, k - 1) = EOC \/ Used(fat[0], Nth(c, k - 1)) BY Zenon, <2>1, <2>3
  <2>5. Nth(c, k) = After(Nth(c, k - 1)) BY Zenon, <1>0, <2>3
  <2>6. After(Nth(c, k - 1)) = EOC \/ Used(fat[0], After(Nth(c, k - 1)))
    BY Zenon, <2>4, AfterUsed
  <2> QED BY Zenon, <2>1, <2>5, <2>6
<1> QED BY Zenon, <1>1

\* A walk that has come to the end stays there.
LEMMA EndStays ==
  ASSUME NEW c, NEW n \in Nat, Nth(c, n) = EOC, NEW m \in Nat, n <= m
  PROVE  Nth(c, m) = EOC
<1> DEFINE Bad == {k \in Nat : n <= k /\ Nth(c, k) # EOC}
<1>0. \A k \in Nat : Nth(c, k + 1) = After(Nth(c, k)) BY Zenon, NthSteps
<1>1. Bad = {}
  <2> SUFFICES ASSUME Bad # {} PROVE FALSE
    BY Zenon
  <2>1. PICK k \in Bad : \A y \in Bad : k <= y
    <3>1. Bad \subseteq Nat BY Zenon
    <3> HIDE DEF Bad
    <3> QED BY Zenon, <3>1, LeastNat
  <2>2. k \in Nat /\ n <= k /\ k # n /\ Nth(c, k) # EOC BY Zenon, <2>1
  <2>3. k - 1 \in Nat /\ ~(k <= k - 1) /\ (k - 1) + 1 = k /\ n <= k - 1 BY <2>2
  <2>4. Nth(c, k - 1) = EOC BY Zenon, <2>1, <2>3
  <2>5. Nth(c, k) = After(EOC) BY Zenon, <1>0, <2>3, <2>4
  <2>6. After(EOC) = EOC
    <3>1. EOC >= EOC BY Fat32Assumption DEF EOC
    <3> QED BY Zenon, <3>1 DEF After
  <2> QED BY Zenon, <2>2, <2>5, <2>6
<1> QED BY Zenon, <1>1

\* A walk that visits a cluster twice goes in a circle.
LEMMA NoRepeat ==
  ASSUME Sound(fat[0]), NEW c, NEW x \in Nat, NEW y \in Nat, x < y,
         \A n \in Nat : n <= y => Used(fat[0], Nth(c, n))
  PROVE  Nth(c, x) # Nth(c, y)
<1> SUFFICES ASSUME Nth(c, x) = Nth(c, y) PROVE FALSE
  BY Zenon
<1> DEFINE S == {Nth(c, n) : n \in x .. y - 1}
<1>1. \A n \in x .. y - 1 :
        n \in Nat /\ n <= y /\ n + 1 \in Nat /\ (n + 1 \in x .. y - 1 \/ n + 1 = y)
  OBVIOUS
<1>2. x \in x .. y - 1 OBVIOUS
<1>3. S \in SUBSET Clusters /\ S # {} BY Zenon, <1>1, <1>2 DEF Used
<1>4. PICK d \in S : fat[0][d] \notin S
  <2> HIDE DEF S
  <2> QED BY Zenon, <1>3 DEF Sound, Acyclic
<1>5. PICK n \in x .. y - 1 : d = Nth(c, n) BY Zenon, <1>4
<1>6. Nth(c, n + 1) = fat[0][d]
  <2>1. n \in Nat /\ Used(fat[0], Nth(c, n)) BY Zenon, <1>1
  <2>2. Nth(c, n + 1) = After(Nth(c, n)) BY Zenon, <2>1, NthSteps
  <2> QED BY Zenon, <1>5, <2>1, <2>2, AfterUsed
<1>7. Nth(c, x) \in S BY Zenon, <1>2
<1>8. CASE n + 1 \in x .. y - 1 BY Zenon, <1>4, <1>6, <1>8
<1>9. CASE n + 1 = y BY Zenon, <1>4, <1>6, <1>7, <1>9
<1> QED BY Zenon, <1>1, <1>8, <1>9

\* Every chain ends: there are fewer clusters than steps of the walk.
LEMMA WalkEnds ==
  ASSUME Sound(fat[0]), NEW c, Used(fat[0], c)
  PROVE  Nth(c, MaxCluster) = EOC
<1>0. MaxCluster \in Nat /\ MaxCluster > 3 BY Fat32Assumption
<1> SUFFICES ASSUME Nth(c, MaxCluster) # EOC PROVE FALSE
  BY Zenon
<1>1. \A n \in Nat : n <= MaxCluster => Used(fat[0], Nth(c, n))
  BY Zenon, <1>0, WalkUsed, EndStays
<1> DEFINE S == 0 .. MaxCluster
           f == [n \in S |-> Nth(c, n)]
<1>2. \A n \in S : n \in Nat /\ n <= MaxCluster BY <1>0
<1>3. f \in [S -> Clusters] BY Zenon, <1>1, <1>2 DEF Used
<1>4. IsFiniteSet(S) /\ IsFiniteSet(Clusters) /\ Cardinality(Clusters) < Cardinality(S)
  <2>1. IsFiniteSet(S) /\ Cardinality(S) = MaxCluster + 1 BY <1>0, FS_Interval
  <2>2. IsFiniteSet(Clusters) /\ Cardinality(Clusters) = MaxCluster - 2
    BY <1>0, FS_Interval DEF Clusters
  <2> QED BY <1>0, <2>1, <2>2
<1> HIDE DEF S, f
<1>5. PICK x, y \in S : x # y /\ f[x] = f[y] BY Zenon, <1>3, <1>4, FS_PigeonHole
<1>6. Nth(c, x) = Nth(c, y) BY Zenon, <1>5 DEF f
<1>7. /\ x \in Nat /\ y \in Nat /\ (x < y \/ y < x)
      /\ \A n \in Nat : (n <= x \/ n <= y) => n <= MaxCluster
  BY <1>0, <1>5 DEF S
<1>8. CASE x < y BY Zenon, <1>1, <1>6, <1>7, <1>8, NoRepeat
<1>9. CASE y < x BY Zenon, <1>1, <1>6, <1>7, <1>9, NoRepeat
<1> QED BY Zenon, <1>7, <1>8, <1>9

\* The cluster that a walk visits before another.
LEMMA WalkBefore ==
  ASSUME Sound(fat[0]), NEW a, Used(fat[0], a),
         NEW n \in Nat, n # 0, Nth(a, n) \in Clusters
  PROVE  /\ n - 1 \in Nat /\ Nth(a, n - 1) \in Clusters
         /\ fat[0][Nth(a, n - 1)] = Nth(a, n)
<1>1. n - 1 \in Nat /\ (n - 1) + 1 = n OBVIOUS
<1>2. Nth(a, n) = After(Nth(a, n - 1)) BY Zenon, <1>1, NthSteps
<1>3. CASE Nth(a, n - 1) = EOC BY Zenon, <1>2, <1>3, AfterUsed, Numbers
<1>4. CASE Used(fat[0], Nth(a, n - 1)) BY Zenon, <1>1, <1>2, <1>4, AfterUsed
<1> QED BY Zenon, <1>1, <1>3, <1>4, WalkUsed

\* Chains that begin differently share no cluster.
LEMMA ChainsApart ==
  ASSUME Sound(fat[0]), NEW a, NEW b, First(fat[0], a), First(fat[0], b), a # b
  PROVE  \A n, m \in Nat : Nth(a, n) \in Clusters => Nth(a, n) # Nth(b, m)
<1> DEFINE Bad == {n \in Nat : Nth(a, n) \in Clusters /\ \E m \in Nat : Nth(a, n) = Nth(b, m)}
<1>0. /\ Used(fat[0], a) /\ Used(fat[0], b)
      /\ \A d \in Clusters : fat[0][d] # a /\ fat[0][d] # b
  BY Zenon DEF First
<1>a. Nth(a, 0) = a /\ Nth(b, 0) = b BY Zenon, NthSteps
<1>1. Bad = {}
  <2> SUFFICES ASSUME Bad # {} PROVE FALSE
    BY Zenon
  <2>1. PICK n \in Bad : \A y \in Bad : n <= y
    <3>1. Bad \subseteq Nat BY Zenon
    <3> HIDE DEF Bad
    <3> QED BY Zenon, <3>1, LeastNat
  <2>2. n \in Nat /\ Nth(a, n) \in Clusters BY Zenon, <2>1
  <2>3. PICK m \in Nat : Nth(a, n) = Nth(b, m) BY Zenon, <2>1
  <2>4. n # 0 => /\ n - 1 \in Nat /\ Nth(a, n - 1) \in Clusters
                 /\ fat[0][Nth(a, n - 1)] = Nth(a, n)
    BY Zenon, <1>0, <2>2, WalkBefore
  <2>5. m # 0 => /\ m - 1 \in Nat /\ Nth(b, m - 1) \in Clusters
                 /\ fat[0][Nth(b, m - 1)] = Nth(b, m)
    BY Zenon, <1>0, <2>2, <2>3, WalkBefore
  <2>6. CASE n = 0 BY Zenon, <1>0, <1>a, <2>3, <2>5, <2>6
  <2>7. CASE m = 0 BY Zenon, <1>0, <1>a, <2>3, <2>4, <2>7
  <2>8. CASE n # 0 /\ m # 0
    <3>1. Nth(a, n - 1) = Nth(b, m - 1)
      BY Zenon, <2>2, <2>3, <2>4, <2>5, <2>8 DEF Sound, OnePredecessor
    <3>2. n - 1 \in Bad BY Zenon, <2>4, <2>5, <2>8, <3>1
    <3>3. ~(n <= n - 1) BY <2>2
    <3> QED BY Zenon, <2>1, <3>2, <3>3
  <2> QED BY Zenon, <2>6, <2>7, <2>8
<1>2. ASSUME NEW n \in Nat, NEW m \in Nat, Nth(a, n) \in Clusters, Nth(a, n) = Nth(b, m)
      PROVE  FALSE
  <2>1. n \in Bad BY Zenon, <1>2
  <2> QED BY Zenon, <1>1, <2>1
<1> QED BY Zenon, <1>2

\* The chain of an empty file.
LEMMA EmptyWalk ==
  ASSUME Sound(fat[0])
  PROVE  Nth(0, 0) = 0 /\ Nth(0, 1) = EOC
<1>1. 0 \in Nat /\ 0 + 1 = 1 OBVIOUS
<1>2. Nth(0, 0) = 0 /\ Nth(0, 0 + 1) = After(Nth(0, 0)) BY Zenon, <1>1, NthSteps
<1>3. After(0) = EOC BY Zenon, AfterUsed
<1> QED BY SMT, <1>1, <1>2, <1>3

LEMMA NoChain ==
  ASSUME Sound(fat[0])
  PROVE  \A n \in Nat : Nth(0, n) \notin Clusters
<1>1. Nth(0, 0) = 0 /\ Nth(0, 1) = EOC BY Zenon, EmptyWalk
<1>2. \A n \in Nat : n = 0 \/ 1 <= n OBVIOUS
<1>3. 1 \in Nat OBVIOUS
<1>4. \A n \in Nat : 1 <= n => Nth(0, n) = EOC BY Zenon, <1>1, <1>3, EndStays
<1> QED BY Zenon, <1>1, <1>2, <1>4, Numbers

LEMMA InvImpliesSound == DiskInv => OnDiskSound
<1> SUFFICES ASSUME DiskInv, NEW s \in Live, dir[s].start # 0
             PROVE  /\ Nth(dir[s].start, MaxCluster) = EOC
                    /\ \A c \in Chain(dir[s].start) : c # ROOT /\ Nth(c, MaxCluster) = EOC
                    /\ \A t \in Live \ {s} : Chain(dir[t].start) \cap Chain(dir[s].start) = {}
  BY Zenon DEF OnDiskSound
<1> DEFINE a == dir[s].start
<1>0. Sound(fat[0]) /\ EntriesOK(fat[0], dir) BY Zenon DEF DiskInv
<1>1. \A n \in 0 .. MaxCluster : n \in Nat BY Fat32Assumption
<1>2. First(fat[0], a) /\ Apart(dir, a, s) BY Zenon, <1>0 DEF EntriesOK, Live
<1>3. Used(fat[0], a) BY Zenon, <1>2 DEF First
<1>4. Nth(a, MaxCluster) = EOC BY Zenon, <1>0, <1>3, WalkEnds
<1>5. ASSUME NEW c \in Chain(a) PROVE c # ROOT /\ Nth(c, MaxCluster) = EOC
  <2>1. Used(fat[0], c) BY Zenon, <1>0, <1>1, <1>3, <1>5, WalkUsed, Numbers DEF Chain
  <2> QED BY Zenon, <1>0, <2>1, WalkEnds DEF Used
<1>6. ASSUME NEW t \in Live \ {s} PROVE Chain(dir[t].start) \cap Chain(a) = {}
  <2> DEFINE b == dir[t].start
  <2>1. CASE b = 0 BY Zenon, <1>0, <1>1, <2>1, NoChain DEF Chain
  <2>2. CASE b # 0
    <3>1. First(fat[0], b) /\ b # a BY Zenon, <1>0, <1>2, <2>2 DEF EntriesOK, Live, Apart
    <3> HIDE DEF a, b
    <3>2. \A n, m \in Nat : Nth(b, n) \in Clusters => Nth(b, n) # Nth(a, m)
      BY Zenon, <1>0, <1>2, <3>1, ChainsApart
    <3>3. ASSUME NEW c \in Chain(b), c \in Chain(a) PROVE FALSE
      <4>1. PICK n \in 0 .. MaxCluster : c = Nth(b, n) BY Zenon, <3>3 DEF Chain
      <4>2. PICK m \in 0 .. MaxCluster : c = Nth(a, m) BY Zenon, <3>3 DEF Chain
      <4>3. c \in Clusters BY Zenon, <3>3 DEF Chain
      <4> QED BY Zenon, <1>1, <3>2, <4>1, <4>2, <4>3
    <3> QED BY Zenon, <3>3 DEF b
  <2> QED BY Zenon, <2>1, <2>2
<1> QED BY Zenon, <1>4, <1>5, <1>6

-----------------------------------------------------------------------------
(* The open File.                                                          *)

LEMMA FileOpen ==
  ASSUME TypeOK
  PROVE  (Open <=> file \in File) /\ Closed \notin File
<1>1. \A f \in File : f.mode \in Modes BY Zenon DEF File
<1>2. Closed.mode = "closed" BY Zenon DEF Closed
<1>3. "closed" \notin Modes BY Zenon, Fat32Assumption
<1> QED BY Zenon, <1>1, <1>2, <1>3 DEF TypeOK, Open

\* The same chain, cluster and slot.
Same(f, g) == f.start = g.start /\ f.current = g.current /\ f.slot = g.slot

LEMMA FileFlags ==
  ASSUME NEW f \in File
  PROVE  /\ [f EXCEPT !.error = TRUE] \in File /\ Same(f, [f EXCEPT !.error = TRUE])
         /\ [f EXCEPT !.modified = FALSE] \in File /\ Same(f, [f EXCEPT !.modified = FALSE])
BY Zenon DEF File, Same

LEMMA FileSized ==
  ASSUME NEW f \in File, NEW s \in Int
  PROVE  LET g == [f EXCEPT !.size = s, !.modified = TRUE] IN g \in File /\ Same(f, g)
BY Zenon DEF File, Same

LEMMA FileAt ==
  ASSUME NEW f \in File, NEW c \in 0 .. MaxCluster - 1
  PROVE  LET g == [f EXCEPT !.current = c] IN
           g \in File /\ g.start = f.start /\ g.slot = f.slot /\ g.current = c
BY Zenon DEF File

LEMMA FileBegun ==
  ASSUME NEW f \in File, NEW c \in 0 .. MaxCluster - 1
  PROVE  LET g == [f EXCEPT !.start = c, !.current = c] IN
           g \in File /\ g.start = c /\ g.slot = f.slot /\ g.current = c
BY Zenon DEF File

LEMMA SameOK ==
  ASSUME NEW l, NEW d, NEW f \in File, NEW g, FileOK(l, d, f), Same(f, g), f # Closed
  PROVE  FileOK(l, d, g)
BY Zenon DEF FileOK, Same

-----------------------------------------------------------------------------
(* The calls that return.                                                  *)

LEMMA FailsKeeps == DiskInv /\ Fails => DiskInv'
<1> SUFFICES ASSUME DiskInv, Fails PROVE DiskInv'
  OBVIOUS
<1>0. TypeOK /\ FileOK(fat[0], dir, file) BY Zenon DEF DiskInv
<1>1. CASE Open
  <2> DEFINE g == [file EXCEPT !.error = TRUE]
  <2>1. file \in File /\ file # Closed BY Zenon, <1>0, <1>1, FileOpen
  <2>2. g \in File /\ Same(file, g) BY Zenon, <2>1, FileFlags
  <2>3. Return(g) BY Zenon, <1>1 DEF Fails
  <2> HIDE DEF g
  <2>4. FileOK(fat[0], dir, g) BY Zenon, <1>0, <2>1, <2>2, SameOK
  <2> QED BY Zenon, <2>2, <2>3, <2>4, ReturnKeeps
<1>2. CASE ~Open
  <2>1. Return(Closed) BY Zenon, <1>2 DEF Fails
  <2>2. FileOK(fat[0], dir, Closed) BY Zenon DEF FileOK
  <2> QED BY Zenon, <2>1, <2>2, ReturnKeeps
<1> QED BY Zenon, <1>1, <1>2

LEMMA ClosedKeeps == DiskInv /\ Return(Closed) => DiskInv'
<1>1. FileOK(fat[0], dir, Closed) BY Zenon DEF FileOK
<1> QED BY Zenon, <1>1, ReturnKeeps

LEMMA UnchangedKeeps == DiskInv /\ Return(file) => DiskInv'
BY Zenon, ReturnKeeps DEF DiskInv, TypeOK

LEMMA OpenExistingKeeps ==
  ASSUME DiskInv, NEW n \in Names, NEW m \in Modes, f_open_existing(n, m)
  PROVE  DiskInv'
<1> DEFINE s == SlotOf(n)
           c == dir[s].start
           z == dir[s].size
           g == HandleOf(s, m, c, z, c, FALSE)
<1>1. TypeOK /\ EntriesOK(fat[0], dir) BY Zenon DEF DiskInv
<1>2. s \in 1 .. Slots /\ dir[s].name = n BY Zenon, SlotOfFound DEF f_open_existing
<1>3. c \in 0 .. MaxCluster - 1 /\ z \in Int BY Zenon, <1>1, <1>2 DEF TypeOK, Entry
<1>4. Return(g) BY Zenon DEF f_open_existing
<1>5. c = 0 \/ (First(fat[0], c) /\ Apart(dir, c, s)) BY Zenon, <1>1, <1>2 DEF EntriesOK
<1> HIDE DEF s, c, z
<1>6. g \in File /\ g.start = c /\ g.slot = s /\ g.current = c
  BY SMT, <1>2, <1>3 DEF File, HandleOf
<1> HIDE DEF g
<1>7. FileOK(fat[0], dir, g) BY Zenon, <1>5, <1>6 DEF FileOK, First
<1> QED BY Zenon, <1>4, <1>6, <1>7, ReturnKeeps

LEMMA OpenReturnKeeps ==
  ASSUME DiskInv, f_open_return
  PROVE  DiskInv'
<1> DEFINE g == HandleOf(op.slot, op.mode, clu, 0, clu, TRUE)
<1>1. pc = "opened" /\ Return(g) BY Zenon DEF f_open_return, At
<1>2. First(fat[0], clu) /\ op.slot \in 1 .. Slots /\ Apart(dir, clu, op.slot)
  BY Zenon, <1>1 DEF DiskInv, PhaseOK, OpenedOK
<1>3. op.mode \in Modes BY Zenon, <1>1 DEF DiskInv, TypeOK
<1>4. clu \in 0 .. MaxCluster - 1 BY Zenon, <1>2, Numbers DEF First, Used
<1>5. g \in File /\ g.start = clu /\ g.slot = op.slot /\ g.current = clu
  BY SMT, <1>2, <1>3, <1>4 DEF File, HandleOf
<1> HIDE DEF g
<1>6. FileOK(fat[0], dir, g) BY Zenon, <1>2, <1>5 DEF FileOK, First
<1> QED BY Zenon, <1>1, <1>5, <1>6, ReturnKeeps

LEMMA SyncReturnKeeps ==
  ASSUME DiskInv, f_sync_return
  PROVE  DiskInv'
<1> DEFINE g == [file EXCEPT !.modified = FALSE]
<1>0. TypeOK /\ FileOK(fat[0], dir, file) BY Zenon DEF DiskInv
<1>1. pc = "synced" /\ Return(g) BY Zenon DEF f_sync_return, At
<1>2. Open BY Zenon, <1>0, <1>1 DEF TypeOK, Busy, Places, Closing
<1>3. file \in File /\ file # Closed BY Zenon, <1>0, <1>2, FileOpen
<1>4. g \in File /\ Same(file, g) BY Zenon, <1>3, FileFlags
<1> HIDE DEF g
<1>5. FileOK(fat[0], dir, g) BY Zenon, <1>0, <1>3, <1>4, SameOK
<1> QED BY Zenon, <1>1, <1>4, <1>5, ReturnKeeps

LEMMA FreeReturnKeeps ==
  ASSUME DiskInv, free_return
  PROVE  DiskInv'
<1>1. op = [f |-> "f_unlink"] BY Zenon DEF free_return, At, DiskInv, TypeOK
<1>2. op.f = "f_unlink" BY Zenon, <1>1
<1>3. Return(Closed) BY Zenon, <1>2 DEF free_return
<1> QED BY Zenon, <1>3, ClosedKeeps

\* Where a walk along the chain of a file gets to.
LEMMA Landing ==
  ASSUME Sound(fat[0]), NEW c, c = 0 \/ First(fat[0], c), NEW n \in Nat
  PROVE  \/ Nth(c, n) = 0
         \/ Nth(c, n) >= EOC /\ ~(Nth(c, n) < EOC)
         \/ Used(fat[0], Nth(c, n)) /\ ~(Nth(c, n) >= EOC)
<1>0. EOC >= EOC /\ ~(EOC < EOC) BY Fat32Assumption DEF EOC
<1>1. CASE c = 0
  <2>1. Nth(0, 0) = 0 /\ Nth(0, 1) = EOC BY Zenon, EmptyWalk
  <2>2. n = 0 \/ 1 <= n OBVIOUS
  <2>3. 1 \in Nat OBVIOUS
  <2>4. 1 <= n => Nth(0, n) = EOC BY Zenon, <2>1, <2>3, EndStays
  <2> QED BY Zenon, <1>0, <1>1, <2>1, <2>2, <2>4
<1>2. CASE First(fat[0], c)
  <2>1. Nth(c, n) = EOC \/ Used(fat[0], Nth(c, n)) BY Zenon, <1>2, WalkUsed DEF First
  <2> QED BY Zenon, <1>0, <2>1, AfterUsed
<1> QED BY Zenon, <1>1, <1>2

LEMMA Sizes ==
  /\ ClusterSize \in Nat \ {0} /\ SECTOR_SIZE \in Nat \ {0}
  /\ \A o \in Nat : /\ o \div ClusterSize \in Nat /\ o % SECTOR_SIZE \in Int
                    /\ (o % ClusterSize) \div SECTOR_SIZE \in Int
  /\ \A o \in 0 .. MaxSize : o \in Nat
<1>1. SECTOR_SIZE \in Nat \ {0} /\ SPC \in Nat \ {0} BY Fat32Assumption
<1>2. \A x, y \in Nat \ {0} : x * y \in Nat \ {0} OBVIOUS
<1>3. ClusterSize \in Nat \ {0} BY Zenon, <1>1, <1>2 DEF ClusterSize
<1>4. \A x, y \in Nat : y # 0 => x \div y \in Nat /\ x % y \in Nat OBVIOUS
<1>5. \A o \in 0 .. MaxSize : o \in Nat BY Fat32Assumption
<1>6. \A x \in Nat : x \in Int OBVIOUS
<1> QED BY Zenon, <1>1, <1>3, <1>4, <1>5, <1>6

LEMMA OpenFacts ==
  ASSUME DiskInv, pc \in Busy \/ Open
  PROVE  /\ Open /\ file \in File /\ file # Closed
         /\ file.start = 0 \/ (First(fat[0], file.start) /\ Apart(dir, file.start, file.slot))
         /\ file.current = 0 \/ Used(fat[0], file.current)
<1>1. Open /\ TypeOK /\ FileOK(fat[0], dir, file) BY Zenon DEF DiskInv, TypeOK
<1> QED BY Zenon, <1>1, FileOpen DEF FileOK

LEMMA SeekKeeps ==
  ASSUME DiskInv, NEW o \in 0 .. MaxSize, f_lseek(o)
  PROVE  DiskInv'
<1> DEFINE n == o \div ClusterSize
           to == Nth(file.start, n)
           z == (o % ClusterSize) \div SECTOR_SIZE
           b == o % SECTOR_SIZE
<1>1. /\ file \in File /\ file # Closed
      /\ file.start = 0 \/ (First(fat[0], file.start) /\ Apart(dir, file.start, file.slot))
  BY Zenon, OpenFacts DEF f_lseek, Ready
<1>2. n \in Nat /\ o \in Nat /\ b \in Int /\ z \in Int BY Zenon, Sizes
<1>3. n \in Int /\ o \in Int /\ 0 \in Int /\ 0 \in 0 .. MaxCluster - 1
  BY <1>2, Fat32Assumption
<1>4. Sound(fat[0]) BY Zenon DEF DiskInv
<1>5. CASE to < EOC
  <2> DEFINE g == [file EXCEPT !.current = to, !.position = o, !.sec = z, !.byte = b]
  <2>1. to = 0 \/ Used(fat[0], to) BY Zenon, <1>1, <1>2, <1>4, <1>5, Landing
  <2>2. to \in 0 .. MaxCluster - 1 BY Zenon, <1>3, <2>1, Numbers DEF Used
  <2>3. ~(to >= EOC)
    <3>1. to \in Nat BY <2>2, Fat32Assumption
    <3> HIDE DEF to
    <3> QED BY <1>5, <3>1, Fat32Assumption DEF EOC
  <2>4. Return(g) BY Zenon, <2>3 DEF f_lseek
  <2> HIDE DEF to, n, z, b
  <2>5. g \in File /\ g.start = file.start /\ g.slot = file.slot /\ g.current = to
    BY Zenon, <1>1, <1>2, <1>3, <2>2 DEF File
  <2> HIDE DEF g
  <2>6. FileOK(fat[0], dir, g) BY Zenon, <1>1, <2>1, <2>5 DEF FileOK
  <2> QED BY Zenon, <2>4, <2>5, <2>6, ReturnKeeps
<1>6. CASE ~(to < EOC)
  <2> DEFINE g == [file EXCEPT !.current = 0, !.position = n, !.sec = 0, !.byte = 0]
  <2>1. Return(g) BY Zenon, <1>6 DEF f_lseek
  <2> HIDE DEF to, n, z, b
  <2>2. g \in File /\ g.start = file.start /\ g.slot = file.slot /\ g.current = 0
    BY Zenon, <1>1, <1>3 DEF File
  <2> HIDE DEF g
  <2>3. FileOK(fat[0], dir, g) BY Zenon, <1>1, <2>2 DEF FileOK
  <2> QED BY Zenon, <2>1, <2>2, <2>3, ReturnKeeps
<1> QED BY Zenon, <1>5, <1>6

-----------------------------------------------------------------------------
(* The calls that go on.                                                   *)

\* A step that only moves the File along its chain.
LEMMA MoveKeeps ==
  ASSUME DiskInv, NEW p \in Calm \ {"append"}, Goes(p, <<>>), file \in File, file # Closed,
         file' \in File, Same(file, file'), clu' = clu, left' \in Int,
         p \in {"data", "written", "advance"} => file.current # 0
  PROVE  DiskInv'
<1>1. FileOK(fat[0], dir, file') BY Zenon, SameOK DEF DiskInv
<1>2. clu' \in 0 .. MaxCluster BY Zenon DEF DiskInv, TypeOK
<1>3. file'.current = file.current BY Zenon DEF Same
<1> QED BY Zenon, <1>1, <1>2, <1>3, GoesKeeps, NoWrites

LEMMA ReadKeeps ==
  ASSUME DiskInv, NEW n \in Lens, f_read(n)
  PROVE  DiskInv'
<1>1. /\ Goes("read", <<>>) /\ file' = file /\ clu' = clu /\ Open
      /\ left' = IF n < file.size - file.position THEN n ELSE file.size - file.position
  BY Zenon DEF f_read, Ready
<1>2. file \in File /\ file # Closed BY Zenon, <1>1, OpenFacts
<1>3. file.size \in Int /\ file.position \in Int /\ n \in Nat
  BY Zenon, <1>2, Fat32Assumption DEF File
<1>4. left' \in Int BY <1>1, <1>3
<1>5. "read" \in Calm \ {"append"} /\ Same(file, file) BY Zenon DEF Calm, Same
<1> QED BY Zenon, <1>1, <1>2, <1>4, <1>5, MoveKeeps

LEMMA WriteKeeps ==
  ASSUME DiskInv, NEW n \in Lens, f_write(n)
  PROVE  DiskInv'
<1>1. /\ Goes(IF file.current = 0 THEN "first" ELSE "data", <<>>)
      /\ file' = file /\ clu' = clu /\ Open /\ left' = n
  BY Zenon DEF f_write, Ready, Writer
<1>2. file \in File /\ file # Closed BY Zenon, <1>1, OpenFacts
<1>3. left' \in Int BY <1>1, Fat32Assumption
<1>4. {"first", "data"} \subseteq Calm \ {"append"} /\ Same(file, file) BY Zenon DEF Calm, Same
<1>5. CASE file.current = 0
  <2>1. Goes("first", <<>>) BY Zenon, <1>1, <1>5
  <2> QED BY Zenon, <1>1, <1>2, <1>3, <1>4, <2>1, MoveKeeps
<1>6. CASE file.current # 0
  <2>1. Goes("data", <<>>) BY Zenon, <1>1, <1>6
  <2> QED BY Zenon, <1>1, <1>2, <1>3, <1>4, <1>6, <2>1, MoveKeeps
<1> QED BY Zenon, <1>5, <1>6

LEMMA DataKeeps ==
  ASSUME DiskInv, f_write_data
  PROVE  DiskInv'
<1>1. /\ Goes("written", write_data) /\ file' = file /\ clu' = clu /\ left' = left
      /\ pc = "data"
  BY Zenon DEF f_write_data, At
<1>2. file \in File /\ file.current # 0 /\ FileOK(fat[0], dir, file)
  <2>1. pc \in Busy BY Zenon, <1>1 DEF Busy, Places, Closing
  <2> QED BY Zenon, <1>1, <2>1, OpenFacts DEF DiskInv, PhaseOK
<1>3. "written" \in Calm BY Zenon DEF Calm
<1>4. clu \in 0 .. MaxCluster /\ left \in Int BY Zenon DEF DiskInv, TypeOK
<1> QED BY Zenon, <1>1, <1>2, <1>3, <1>4, GoesKeeps, NoWrites

LEMMA AdvancedFile ==
  ASSUME TypeOK, file \in File
  PROVE  Advanced \in File /\ Same(file, Advanced) /\ Chunk \in Int
<1>1. file.byte \in Int /\ file.sec \in Int /\ file.position \in Int /\ left \in Int
  BY Zenon DEF File, TypeOK
<1>2. Chunk \in Int BY <1>1, Fat32Assumption DEF Chunk
<1> DEFINE end == file.byte + Chunk = SECTOR_SIZE
           last == end /\ file.sec + 1 = SPC
           p == file.position + Chunk
           b == IF end THEN 0 ELSE file.byte + Chunk
           z == IF last THEN 0 ELSE IF end THEN file.sec + 1 ELSE file.sec
<1>3. p \in Int /\ b \in Int /\ z \in Int BY <1>1, <1>2
<1>4. Advanced = [file EXCEPT !.position = p, !.byte = b, !.sec = z] BY Zenon DEF Advanced
<1> HIDE DEF p, b, z
<1> QED BY Zenon, <1>2, <1>3, <1>4 DEF File, Same

\* The link of a cluster the File can be at.
LEMMA LinkOf ==
  ASSUME Sound(fat[0]), NEW c, c = 0 \/ Used(fat[0], c)
  PROVE  /\ NextOf(c) = EOC \/ (c # 0 /\ Used(fat[0], NextOf(c)))
         /\ NextOf(c) < EOC => Used(fat[0], NextOf(c)) /\ NextOf(c) \in 0 .. MaxCluster - 1
         /\ NextOf(c) >= EOC => NextOf(c) = EOC
<1>1. NextOf(c) = EOC \/ (c # 0 /\ Used(fat[0], NextOf(c)))
  BY Zenon, Numbers DEF Sound, Linked, Used, NextOf
<1>2. ~(EOC < EOC) /\ \A d \in Clusters : ~(d >= EOC)
  BY Fat32Assumption DEF EOC, Clusters
<1> QED BY Zenon, <1>1, <1>2, Numbers DEF Used

\* A call goes on with the File at c.
LEMMA AtKeeps ==
  ASSUME DiskInv, NEW p \in {"read", "data"}, NEW f \in File, NEW c, Same(file, f),
         Open, Goes(p, <<>>), c = 0 \/ Used(fat[0], c), p = "data" => c # 0,
         file' = [f EXCEPT !.current = c], clu' = clu, left' \in Int
  PROVE  DiskInv'
<1>0. c \in 0 .. MaxCluster - 1 BY Zenon, Numbers DEF Used
<1>1. file' \in File /\ file'.start = f.start /\ file'.slot = f.slot /\ file'.current = c
  BY Zenon, <1>0, FileAt
<1>2. f.start = file.start /\ f.slot = file.slot BY Zenon DEF Same
<1>3. FileOK(fat[0], dir, file') BY Zenon, <1>1, <1>2, OpenFacts DEF FileOK
<1>4. clu' \in 0 .. MaxCluster BY Zenon DEF DiskInv, TypeOK
<1>5. p \in Calm /\ p \notin {"append", "written", "advance"} BY Zenon DEF Calm
<1> QED BY Zenon, <1>1, <1>3, <1>4, <1>5, GoesKeeps, NoWrites

LEMMA ReadSectorKeeps ==
  ASSUME DiskInv, f_read_sector
  PROVE  DiskInv'
<1>1. pc = "read" /\ Goes("read", <<>>) /\ clu' = clu BY Zenon DEF f_read_sector, At
<1>2. Open /\ file \in File /\ file # Closed /\ (file.current = 0 \/ Used(fat[0], file.current))
  <2>1. pc \in Busy BY Zenon, <1>1 DEF Busy, Places, Closing
  <2> QED BY Zenon, <2>1, OpenFacts
<1>3. TypeOK /\ Sound(fat[0]) BY Zenon DEF DiskInv
<1>4. Advanced \in File /\ Same(file, Advanced) /\ Chunk \in Int
  BY Zenon, <1>2, <1>3, AdvancedFile
<1>5. left - Chunk \in Int /\ 0 \in Int
  <2>1. left \in Int BY Zenon, <1>3 DEF TypeOK
  <2> QED BY <1>4, <2>1
<1>6. "read" \in Calm \ {"append"} /\ "read" \notin {"data", "written", "advance"}
  BY Zenon DEF Calm
<1>7. CASE ~LeavesCluster
  <2>1. file' = Advanced /\ left' = left - Chunk BY Zenon, <1>7 DEF f_read_sector
  <2> QED BY Zenon, <1>1, <1>2, <1>4, <1>5, <1>6, <2>1, MoveKeeps
<1> DEFINE next == NextOf(file.current)
<1>8. CASE LeavesCluster /\ next < EOC /\ file' = [Advanced EXCEPT !.current = next]
           /\ left' = left - Chunk
  <2>1. Used(fat[0], next) BY Zenon, <1>2, <1>3, <1>8, LinkOf
  <2> HIDE DEF next
  <2> QED BY Zenon, <1>1, <1>2, <1>4, <1>5, <1>8, <2>1, AtKeeps
<1>9. CASE LeavesCluster /\ file' = [Advanced EXCEPT !.current = 0] /\ left' = 0
  BY Zenon, <1>1, <1>2, <1>4, <1>5, <1>9, AtKeeps
<1> QED BY Zenon, <1>7, <1>8, <1>9 DEF f_read_sector

LEMMA WriteNextKeeps ==
  ASSUME DiskInv, f_write_next
  PROVE  DiskInv'
<1> DEFINE next == NextOf(file.current)
<1>1. /\ pc = "advance" /\ Goes("data", <<>>) /\ clu' = clu /\ left' = left /\ next < EOC
      /\ file' = [file EXCEPT !.current = next]
  BY Zenon DEF f_write_next, At
<1>2. Open /\ file \in File /\ (file.current = 0 \/ Used(fat[0], file.current))
  <2>1. pc \in Busy BY Zenon, <1>1 DEF Busy, Places, Closing
  <2> QED BY Zenon, <2>1, OpenFacts
<1>3. Sound(fat[0]) /\ left \in Int BY Zenon DEF DiskInv, TypeOK
<1>4. Used(fat[0], next) BY Zenon, <1>1, <1>2, <1>3, LinkOf
<1> HIDE DEF next
<1>5. next # 0 BY Zenon, <1>4, Numbers DEF Used
<1>6. Same(file, file) BY Zenon DEF Same
<1> QED BY Zenon, <1>1, <1>2, <1>3, <1>4, <1>5, <1>6, AtKeeps

LEMMA WrittenKeeps ==
  ASSUME DiskInv, f_write_written
  PROVE  DiskInv'
<1>1. pc = "written" /\ clu' = clu /\ left' = left - Chunk BY Zenon DEF f_write_written, At
<1>2. Open /\ file \in File /\ file # Closed /\ file.current # 0
  <2>1. pc \in Busy BY Zenon, <1>1 DEF Busy, Places, Closing
  <2> QED BY Zenon, <1>1, <2>1, OpenFacts DEF DiskInv, PhaseOK
<1>3. TypeOK BY Zenon DEF DiskInv
<1>4. Advanced \in File /\ Same(file, Advanced) /\ Chunk \in Int
  BY Zenon, <1>2, <1>3, AdvancedFile
<1>5. left' \in Int
  <2>1. left \in Int BY Zenon, <1>3 DEF TypeOK
  <2> QED BY <1>1, <1>4, <2>1
<1> DEFINE z == IF Advanced.size < file.position + Chunk THEN file.position + Chunk
                ELSE Advanced.size
<1>6. z \in Int
  <2>1. Advanced.size \in Int /\ file.position \in Int BY Zenon, <1>2, <1>4 DEF File
  <2> QED BY <1>4, <2>1
<1>7. file' = [Advanced EXCEPT !.modified = TRUE, !.size = z] BY Zenon DEF f_write_written
<1> HIDE DEF z
<1>8. file' \in File /\ Same(Advanced, file') BY Zenon, <1>4, <1>6, <1>7 DEF File, Same
<1>9. Same(file, file') BY Zenon, <1>4, <1>8 DEF Same
<1>10. Goes("advance", <<>>) \/ Goes("data", <<>>) BY Zenon DEF f_write_written
<1>11. {"advance", "data"} \subseteq Calm \ {"append"} BY Zenon DEF Calm
<1> QED BY Zenon, <1>1, <1>2, <1>5, <1>8, <1>9, <1>10, <1>11, MoveKeeps

-----------------------------------------------------------------------------
(* A cluster is allocated.                                                 *)

LEMMA Allocated ==
  ASSUME DiskInv, pc \in Allocating, todo = <<>>
  PROVE  /\ Used(fat[0], clu) /\ fat[0][clu] = EOC /\ clu # 0 /\ clu \in 0 .. MaxCluster - 1
         /\ \A s : Apart(dir, clu, s)
         /\ pc \in {"slot", "started"} \/ (pc = "appended" /\ file.start = 0)
              => First(fat[0], clu)
<1>1. PICK t \in Clusters \cup {0} :
        /\ Allocates(t)
        /\ pc \in {"slot", "started"} \/ (pc = "appended" /\ file.start = 0) => t = 0
  BY Zenon DEF DiskInv, PhaseOK, AllocatingOK
<1>2. /\ clu \in Clusters /\ clu # ROOT /\ fat[0][clu] = EOC
      /\ \A c \in Clusters : fat[0][c] = clu => c = t
      /\ Apart(dir, clu, 0)
  BY Zenon, <1>1 DEF Allocates
<1>3. Used(fat[0], clu) BY Zenon, <1>2, Numbers DEF Used
<1>4. \A s : Apart(dir, clu, s)
  <2>1. \A u \in 1 .. Slots : u # 0 OBVIOUS
  <2> QED BY Zenon, <1>2, <2>1 DEF Apart
<1>5. t = 0 => First(fat[0], clu) BY Zenon, <1>2, <1>3, Numbers DEF First
<1> QED BY Zenon, <1>1, <1>2, <1>3, <1>4, <1>5, Numbers

LEMMA StartedKeeps ==
  ASSUME DiskInv, f_write_started
  PROVE  DiskInv'
<1>1. /\ pc = "started" /\ todo = <<>> /\ Goes("data", <<>>) /\ clu' = clu /\ left' = left
      /\ file' = [file EXCEPT !.start = clu, !.current = clu]
  BY Zenon DEF f_write_started, At
<1>2. pc \in Busy /\ pc \in Allocating BY Zenon, <1>1 DEF Busy, Places, Closing, Allocating
<1>3. file \in File BY Zenon, <1>2, OpenFacts
<1>4. First(fat[0], clu) /\ clu # 0 /\ clu \in 0 .. MaxCluster - 1 /\ \A s : Apart(dir, clu, s)
  BY Zenon, <1>1, <1>2, Allocated
<1>5. file' \in File /\ file'.start = clu /\ file'.slot = file.slot /\ file'.current = clu
  BY Zenon, <1>1, <1>3, <1>4, FileBegun
<1>6. FileOK(fat[0], dir, file') BY Zenon, <1>4, <1>5 DEF FileOK, First
<1>7. clu' \in 0 .. MaxCluster /\ left' \in Int BY Zenon, <1>1 DEF DiskInv, TypeOK
<1>8. "data" \in Calm BY Zenon DEF Calm
<1> QED BY Zenon, <1>1, <1>4, <1>5, <1>6, <1>7, <1>8, GoesKeeps, NoWrites

LEMMA LinkedKeeps ==
  ASSUME DiskInv, f_write_linked
  PROVE  DiskInv'
<1>1. /\ pc = "linked" /\ todo = <<>> /\ Goes("data", <<>>) /\ clu' = clu /\ left' = left
      /\ file' = [file EXCEPT !.current = clu]
  BY Zenon DEF f_write_linked, At
<1>2. pc \in Busy /\ pc \in Allocating BY Zenon, <1>1 DEF Busy, Places, Closing, Allocating
<1>3. file \in File /\ Open BY Zenon, <1>2, OpenFacts
<1>4. Used(fat[0], clu) /\ clu # 0 BY Zenon, <1>1, <1>2, Allocated
<1>5. left' \in Int BY Zenon, <1>1 DEF DiskInv, TypeOK
<1>6. Same(file, file) BY Zenon DEF Same
<1> QED BY Zenon, <1>1, <1>3, <1>4, <1>5, <1>6, AtKeeps

LEMMA ExpandNextKeeps ==
  ASSUME DiskInv, f_expand_next
  PROVE  DiskInv'
<1> DEFINE f == IF file.start = 0 THEN [file EXCEPT !.start = clu, !.current = clu] ELSE file
<1>1. /\ pc = "appended" /\ todo = <<>> /\ clu' = clu /\ left' = left - 1 /\ op' = op
      /\ file' = IF left = 1 THEN [f EXCEPT !.size = op.size, !.modified = TRUE] ELSE f
      /\ Goes(IF left = 1 THEN "expanded" ELSE "append", <<>>)
  BY Zenon DEF f_expand_next, At
<1>2. pc \in Busy /\ pc \in Allocating BY Zenon, <1>1 DEF Busy, Places, Closing, Allocating
<1>3. /\ file \in File /\ file # Closed
      /\ file.start = 0 \/ (First(fat[0], file.start) /\ Apart(dir, file.start, file.slot))
      /\ file.current = 0 \/ Used(fat[0], file.current)
  BY Zenon, <1>2, OpenFacts
<1>4. /\ Used(fat[0], clu) /\ fat[0][clu] = EOC /\ clu # 0 /\ clu \in 0 .. MaxCluster - 1
      /\ \A s : Apart(dir, clu, s) /\ (file.start = 0 => First(fat[0], clu))
  BY Zenon, <1>1, <1>2, Allocated
<1>5. f \in File /\ f.start # 0 /\ FileOK(fat[0], dir, f)
  <2>1. CASE file.start = 0
    <3> DEFINE g == [file EXCEPT !.start = clu, !.current = clu]
    <3>1. g \in File /\ g.start = clu /\ g.slot = file.slot /\ g.current = clu
      BY Zenon, <1>3, <1>4, FileBegun
    <3>2. f = g BY Zenon, <2>1
    <3> HIDE DEF f, g
    <3> QED BY Zenon, <1>4, <2>1, <3>1, <3>2 DEF FileOK
  <2>2. CASE file.start # 0
    <3>1. f = file BY Zenon, <2>2
    <3> HIDE DEF f
    <3> QED BY Zenon, <1>3, <2>2, <3>1 DEF FileOK
  <2> QED BY Zenon, <2>1, <2>2
<1> HIDE DEF f
<1>6. op \in [f : {"f_expand"}, size : Int] /\ clu' \in 0 .. MaxCluster /\ left \in Int
  BY Zenon, <1>1 DEF DiskInv, TypeOK
<1>7. left' \in Int BY <1>1, <1>6
<1>8. CASE left = 1
  <2>1. file' = [f EXCEPT !.size = op.size, !.modified = TRUE] /\ Goes("expanded", <<>>)
    BY Zenon, <1>1, <1>8
  <2>2. op.size \in Int BY Zenon, <1>6
  <2>3. file' \in File /\ Same(f, file') BY Zenon, <1>5, <2>1, <2>2, FileSized
  <2>4. f # Closed
    <3>1. TypeOK BY Zenon DEF DiskInv
    <3> QED BY Zenon, <1>5, <3>1, FileOpen
  <2>5. FileOK(fat[0], dir, file') BY Zenon, <1>5, <2>3, <2>4, SameOK
  <2>6. "expanded" \in Calm BY Zenon DEF Calm
  <2> QED BY Zenon, <1>6, <1>7, <2>1, <2>3, <2>5, <2>6, GoesKeeps, NoWrites
<1>9. CASE left # 1
  <2>1. file' = f /\ Goes("append", <<>>) BY Zenon, <1>1, <1>9
  <2>2. "append" \in Calm BY Zenon DEF Calm
  <2> QED BY Zenon, <1>1, <1>4, <1>5, <1>6, <1>7, <2>1, <2>2, GoesKeeps, NoWrites
<1> QED BY Zenon, <1>8, <1>9

\* f_expand finds the last cluster of the chain.
LEMMA CountFound ==
  ASSUME Sound(fat[0]), NEW c, First(fat[0], c)
  PROVE  /\ CountOf(c) \in 1 .. MaxCluster /\ Used(fat[0], Nth(c, CountOf(c) - 1))
         /\ fat[0][Nth(c, CountOf(c) - 1)] = EOC
<1> DEFINE P(n) == Nth(c, n) >= EOC /\ \A m \in 1 .. n - 1 : Nth(c, m) < EOC
           T == {n \in 1 .. MaxCluster : Nth(c, n) >= EOC}
           k == CountOf(c)
<1>0. /\ EOC >= EOC /\ \A d \in Clusters : d < EOC /\ ~(d >= EOC)
      /\ MaxCluster \in 1 .. MaxCluster /\ \A n \in 1 .. MaxCluster : n \in Nat
  BY Fat32Assumption DEF EOC, Clusters
<1>1. Used(fat[0], c) BY Zenon DEF First
<1>2. \A n \in Nat : Nth(c, n) = EOC \/ Used(fat[0], Nth(c, n)) BY Zenon, <1>1, WalkUsed
<1>3. \A n \in Nat : ~(Nth(c, n) >= EOC) => Nth(c, n) < EOC BY Zenon, <1>0, <1>2 DEF Used
<1>4. PICK x \in T : \A y \in T : x <= y
  <2>1. MaxCluster \in T BY Zenon, <1>0, <1>1, WalkEnds
  <2>2. T \subseteq Nat BY Zenon, <1>0
  <2> HIDE DEF T
  <2> QED BY Zenon, <2>1, <2>2, LeastNat
<1>5. x \in 1 .. MaxCluster /\ P(x)
  <2>1. x \in 1 .. MaxCluster /\ Nth(c, x) >= EOC BY Zenon, <1>4
  <2>2. ASSUME NEW m \in 1 .. x - 1 PROVE Nth(c, m) < EOC
    <3>1. m \in 1 .. MaxCluster /\ ~(x <= m) BY <2>1, Fat32Assumption
    <3>2. m \notin T BY Zenon, <1>4, <3>1
    <3> QED BY Zenon, <1>0, <1>3, <3>1, <3>2
  <2> QED BY Zenon, <2>1, <2>2
<1>6. k \in 1 .. MaxCluster /\ P(k) BY Zenon, <1>5 DEF CountOf
<1> HIDE DEF k
<1>7. k - 1 \in Nat /\ (k - 1) + 1 = k /\ (k - 1 = 0 \/ k - 1 \in 1 .. k - 1)
  BY <1>6, Fat32Assumption
<1>8. Used(fat[0], Nth(c, k - 1))
  <2>1. CASE k - 1 = 0
    <3>1. Nth(c, 0) = c BY Zenon, NthSteps
    <3> QED BY Zenon, <1>1, <2>1, <3>1
  <2>2. CASE k - 1 \in 1 .. k - 1
    <3>1. Nth(c, k - 1) < EOC BY Zenon, <1>6, <2>2
    <3>2. ~(EOC < EOC) BY Fat32Assumption DEF EOC
    <3> QED BY Zenon, <1>2, <1>7, <3>1, <3>2
  <2> QED BY Zenon, <1>7, <2>1, <2>2
<1>9. fat[0][Nth(c, k - 1)] = Nth(c, k)
  <2>1. Nth(c, k) = After(Nth(c, k - 1)) BY Zenon, <1>7, NthSteps
  <2> QED BY Zenon, <1>8, <2>1, AfterUsed
<1>10. Nth(c, k) = EOC
  <2>1. Nth(c, k) = EOC \/ Used(fat[0], Nth(c, k)) BY Zenon, <1>0, <1>2, <1>6
  <2> QED BY Zenon, <1>0, <1>6, <2>1 DEF Used
<1> QED BY Zenon, <1>6, <1>8, <1>9, <1>10 DEF k

LEMMA ExpandKeeps ==
  ASSUME DiskInv, NEW o \in 0 .. MaxSize, f_expand(o)
  PROVE  DiskInv'
<1>1. /\ Open /\ file' = file /\ left' = ToAdd(o) /\ op' = [f |-> "f_expand", size |-> o]
      /\ clu' = IF file.start = 0 THEN 0 ELSE Nth(file.start, Existing - 1)
      /\ Goes(IF left' = 0 THEN "expanded" ELSE "append", <<>>)
  BY Zenon DEF f_expand, Writer, Ready
<1>2. file \in File /\ (file.start = 0 \/ First(fat[0], file.start)) BY Zenon, <1>1, OpenFacts
<1>3. FileOK(fat[0], dir, file) /\ Sound(fat[0]) BY Zenon DEF DiskInv
<1>4. /\ file.start = 0 => clu' = 0
      /\ clu' = 0 \/ (Used(fat[0], clu') /\ fat[0][clu'] = EOC)
  <2>1. file.start # 0 => First(fat[0], file.start) /\ Existing = CountOf(file.start)
    BY Zenon, <1>2 DEF Existing
  <2> QED BY Zenon, <1>1, <1>3, <2>1, CountFound
<1>5. Existing \in Int
  <2>1. file.start # 0 => Existing \in 1 .. MaxCluster
    BY Zenon, <1>2, <1>3, CountFound DEF Existing
  <2>2. file.start = 0 => Existing = 0 BY Zenon DEF Existing
  <2> QED BY <2>1, <2>2, Fat32Assumption
<1>6. left' \in Int /\ o \in Int
  <2>1. ClusterSize \in Nat \ {0} /\ o \in Nat BY Zenon, Sizes
  <2> DEFINE k == o + ClusterSize - 1
             n == k \div ClusterSize
  <2>2. k \in Nat BY <2>1
  <2> HIDE DEF k
  <2>3. n \in Nat BY Zenon, <2>2, Sizes DEF n
  <2>4. ToAdd(o) = IF n > Existing THEN n - Existing ELSE 0 BY Zenon DEF ToAdd, n, k
  <2> HIDE DEF n
  <2> QED BY <1>1, <1>5, <2>1, <2>3, <2>4
<1>7. clu' \in 0 .. MaxCluster
  <2>1. clu' = 0 \/ clu' \in Clusters BY Zenon, <1>4 DEF Used
  <2> QED BY <2>1, Fat32Assumption DEF Clusters
<1>8. op' \in [f : {"f_expand"}, size : Int] BY Zenon, <1>1, <1>6
<1>9. Goes("expanded", <<>>) \/ Goes("append", <<>>) BY Zenon, <1>1
<1>10. "expanded" \in Calm /\ "append" \in Calm BY Zenon DEF Calm
<1>11. CASE Goes("expanded", <<>>)
  BY Zenon, <1>1, <1>2, <1>3, <1>6, <1>7, <1>10, <1>11, GoesKeeps, NoWrites
<1>12. CASE Goes("append", <<>>)
  BY Zenon, <1>1, <1>2, <1>3, <1>4, <1>6, <1>7, <1>8, <1>10, <1>12, GoesKeeps, NoWrites
<1> QED BY Zenon, <1>9, <1>11, <1>12

LEMMA CreateKeeps ==
  ASSUME DiskInv, NEW n \in Names, NEW m \in Modes, f_open_create(n, m)
  PROVE  DiskInv'
<1>1. /\ ~Open /\ Free # {} /\ Goes("slot", write_fat_entry(FirstFree, EOC))
      /\ clu' = FirstFree /\ op' = [f |-> "f_open", name |-> n, mode |-> m, slot |-> 0]
      /\ file' = file /\ left' = left
  BY Zenon DEF f_open_create
<1>2. Goes("slot", AllocateAt(FirstFree, 0)) BY Zenon, <1>1 DEF AllocateAt
<1>3. 0 \in 0 .. Slots BY Fat32Assumption
<1>4. op' \in [f : {"f_open"}, name : Names, mode : Modes, slot : 0 .. Slots]
  BY Zenon, <1>1, <1>3
<1>5. "slot" \in Allocating /\ "slot" \in Closing BY Zenon DEF Allocating, Closing
<1> QED BY Zenon, <1>1, <1>2, <1>4, <1>5, AllocateKeeps

LEMMA WriteFirstKeeps ==
  ASSUME DiskInv, f_write_first
  PROVE  DiskInv'
<1>1. /\ pc = "first" /\ Free # {} /\ Goes("started", write_fat_entry(FirstFree, EOC))
      /\ clu' = FirstFree /\ file' = file /\ left' = left
  BY Zenon DEF f_write_first, At
<1>2. Goes("started", AllocateAt(FirstFree, 0)) BY Zenon, <1>1 DEF AllocateAt
<1>3. Open
  <2>1. pc \in Busy BY Zenon, <1>1 DEF Busy, Places, Closing
  <2> QED BY Zenon, <2>1, OpenFacts
<1>4. "started" \in Allocating /\ "started" \notin Closing BY Zenon DEF Allocating, Closing
<1> QED BY Zenon, <1>1, <1>2, <1>3, <1>4, AllocateKeeps

LEMMA ExtendKeeps ==
  ASSUME DiskInv, f_write_extend
  PROVE  DiskInv'
<1> DEFINE t == file.current
<1>1. /\ pc = "advance" /\ Free # {} /\ NextOf(t) >= EOC
      /\ Goes("linked", write_fat_entry(FirstFree, EOC) \o write_fat_entry(t, FirstFree))
      /\ clu' = FirstFree /\ file' = file /\ left' = left
  BY Zenon DEF f_write_extend, At
<1>2. Open /\ t # 0 /\ Used(fat[0], t)
  <2>1. pc \in Busy BY Zenon, <1>1 DEF Busy, Places, Closing
  <2> QED BY Zenon, <1>1, <2>1, OpenFacts DEF DiskInv, PhaseOK
<1>3. fat[0][t] = EOC
  <2>1. Sound(fat[0]) BY Zenon DEF DiskInv
  <2> QED BY Zenon, <1>1, <1>2, <2>1, LinkOf DEF NextOf
<1>4. Goes("linked", AllocateAt(FirstFree, t)) BY Zenon, <1>1, <1>2 DEF AllocateAt
<1>5. "linked" \in Allocating /\ "linked" \notin Closing BY Zenon DEF Allocating, Closing
<1>6. t \in Clusters \cup {0} BY Zenon, <1>2 DEF Used
<1> QED BY Zenon, <1>1, <1>2, <1>3, <1>4, <1>5, <1>6, AllocateKeeps

LEMMA AppendKeeps ==
  ASSUME DiskInv, f_expand_append
  PROVE  DiskInv'
<1> DEFINE ws == write_fat_entry(FirstFree, EOC)
                   \o (IF clu = 0 THEN <<>> ELSE write_fat_entry(clu, FirstFree))
<1>1. /\ pc = "append" /\ Free # {} /\ Goes("appended", ws)
      /\ clu' = FirstFree /\ file' = file /\ left' = left /\ op' = op
  BY Zenon DEF f_expand_append, At
<1>2. /\ file.start = 0 => clu = 0
      /\ clu = 0 \/ (Used(fat[0], clu) /\ fat[0][clu] = EOC)
  BY Zenon, <1>1 DEF DiskInv, PhaseOK, AppendOK
<1>3. Open
  <2>1. pc \in Busy BY Zenon, <1>1 DEF Busy, Places, Closing
  <2> QED BY Zenon, <2>1, OpenFacts
<1>4. ws = AllocateAt(FirstFree, clu)
  <2>1. CASE clu = 0
    <3> DEFINE w == write_fat_entry(FirstFree, EOC)
    <3>1. FirstFree \in 0 .. MaxCluster - 1 /\ EOC \in 0 .. MaxCluster
      <4>1. FirstFree \in Clusters BY Zenon, <1>1, FirstFreeFree
      <4> QED BY <4>1, Fat32Assumption DEF Clusters, EOC
    <3>2. w \in Seq(Write) BY Zenon, <3>1, FatWrites
    <3>3. w \o <<>> = w
      <4> HIDE DEF w
      <4> QED BY <3>2
    <3> QED BY Zenon, <2>1, <3>3 DEF AllocateAt
  <2>2. CASE clu # 0 BY Zenon, <2>2 DEF AllocateAt
  <2> QED BY Zenon, <2>1, <2>2
<1> HIDE DEF ws
<1>5. "appended" \in Allocating /\ "appended" \notin Closing BY Zenon DEF Allocating, Closing
<1>6. clu \in Clusters \cup {0} BY Zenon, <1>2 DEF Used
<1>7. op' \in [f : {"f_expand"}, size : Int] BY Zenon, <1>1 DEF DiskInv, TypeOK
<1> QED BY Zenon, <1>1, <1>2, <1>3, <1>4, <1>5, <1>6, <1>7, AllocateKeeps

-----------------------------------------------------------------------------
(* A call writes a directory entry, or frees a cluster.                    *)

LEMMA EntryWrites ==
  ASSUME NEW s \in 1 .. Slots, NEW e \in Entry, todo' = write_entry(s, e)
  PROVE  /\ todo' \in Seq(Write) /\ Len(todo') = 1
         /\ todo'[1].on = "dir" /\ todo'[1].slot = s /\ todo'[1].entry = e
<1> DEFINE w == [on |-> "dir", slot |-> s, entry |-> e]
<1>1. w \in Write /\ w.on = "dir" /\ w.slot = s /\ w.entry = e BY Zenon DEF Write
<1>2. todo' = <<w>> BY Zenon DEF write_entry
<1> HIDE DEF w
<1>3. <<w>> \in Seq(Write) /\ Len(<<w>>) = 1 /\ <<w>>[1] = w BY <1>1
<1> QED BY Zenon, <1>1, <1>2, <1>3

LEMMA SlotKeeps ==
  ASSUME DiskInv, f_open_slot
  PROVE  DiskInv'
<1> DEFINE s == FirstSlot
           e == [name |-> op.name, start |-> clu, size |-> dir[s].size]
<1>1. /\ pc = "slot" /\ todo = <<>> /\ Usable # {} /\ Goes("opened", write_entry(s, e))
      /\ op' = [op EXCEPT !.slot = s] /\ file' = file /\ clu' = clu /\ left' = left
  BY Zenon DEF f_open_slot, At
<1>2. s \in 1 .. Slots BY Zenon, <1>1, FirstSlotUsable
<1>3. /\ First(fat[0], clu) /\ clu \in 0 .. MaxCluster - 1
      /\ \A t : Apart(dir, clu, t)
  <2>1. pc \in Allocating BY Zenon, <1>1 DEF Allocating
  <2> QED BY Zenon, <1>1, <2>1, Allocated
<1>4. op \in [f : {"f_open"}, name : Names, mode : Modes, slot : 0 .. Slots]
  BY Zenon, <1>1 DEF DiskInv, TypeOK
<1>5. op' \in [f : {"f_open"}, name : Names, mode : Modes, slot : 0 .. Slots] /\ op'.slot = s
  <2>1. s \in 0 .. Slots BY <1>2, Fat32Assumption
  <2> HIDE DEF s
  <2> QED BY Zenon, <1>1, <1>4, <2>1
<1>6. e \in Entry /\ e.start = clu
  <2>1. op.name \in Names /\ dir[s].size \in Int BY Zenon, <1>2, <1>4 DEF DiskInv, TypeOK, Entry
  <2> QED BY Zenon, <1>3, <2>1 DEF Entry
<1>7. /\ fat' = fat /\ dir' = dir /\ pc' = "opened" /\ todo' = write_entry(s, e)
  BY Zenon, <1>1 DEF Goes, disk
<1> HIDE DEF s, e
<1>8. /\ todo' \in Seq(Write) /\ Len(todo') = 1
      /\ todo'[1].on = "dir" /\ todo'[1].slot = s /\ todo'[1].entry = e
  BY Zenon, <1>2, <1>6, <1>7, EntryWrites
<1>9. TypeOK'
  <2>1. ~Open' BY Zenon, <1>1 DEF DiskInv, TypeOK, Closing, Open
  <2>2. "opened" \in Places /\ "opened" \notin Busy BY Zenon DEF Places, Busy, Closing
  <2> QED BY Zenon, <1>1, <1>5, <1>7, <1>8, <2>1, <2>2 DEF DiskInv, TypeOK
<1>10. OpenedOK' BY Zenon, <1>1, <1>2, <1>3, <1>5, <1>6, <1>7, <1>8 DEF OpenedOK, Recording
<1>11. PhaseOK'
  BY Zenon, <1>7, <1>10
  DEF PhaseOK, AllocatingOK, Allocating, SyncedOK, FreeingOK, AppendOK
<1> QED BY Zenon, <1>1, <1>7, <1>9, <1>11 DEF DiskInv

LEMMA SyncKeeps ==
  ASSUME DiskInv, f_sync
  PROVE  DiskInv'
<1> DEFINE s == file.slot
           e == [dir[s] EXCEPT !.start = file.start, !.size = file.size]
<1>1. /\ Open /\ Goes("synced", write_entry(s, e))
      /\ file' = file /\ op' = op /\ clu' = clu /\ left' = left
  BY Zenon DEF f_sync
<1>2. file \in File BY Zenon, <1>1, OpenFacts
<1>3. s \in 1 .. Slots /\ file.start \in 0 .. MaxCluster - 1 /\ file.size \in Int
  BY Zenon, <1>2 DEF File
<1>4. e \in Entry /\ e.start = file.start
  <2>1. dir[s] \in Entry BY Zenon, <1>3 DEF DiskInv, TypeOK
  <2> QED BY Zenon, <1>3, <2>1 DEF Entry
<1>5. /\ fat' = fat /\ dir' = dir /\ pc' = "synced" /\ todo' = write_entry(s, e)
  BY Zenon, <1>1 DEF Goes, disk
<1> HIDE DEF e
<1>6. /\ todo' \in Seq(Write) /\ Len(todo') = 1
      /\ todo'[1].on = "dir" /\ todo'[1].slot = s /\ todo'[1].entry = e
  BY Zenon, <1>3, <1>4, <1>5, EntryWrites
<1>7. TypeOK'
  <2>1. Open' BY Zenon, <1>1 DEF Open
  <2>2. "synced" \in Places /\ "synced" \notin Closing BY Zenon DEF Places, Closing
  <2> QED BY Zenon, <1>1, <1>5, <1>6, <2>1, <2>2 DEF DiskInv, TypeOK
<1>8. SyncedOK' BY Zenon, <1>1, <1>4, <1>6 DEF SyncedOK, Recording
<1>9. PhaseOK'
  BY Zenon, <1>5, <1>8
  DEF PhaseOK, AllocatingOK, Allocating, OpenedOK, FreeingOK, AppendOK
<1> QED BY Zenon, <1>1, <1>5, <1>7, <1>9 DEF DiskInv

LEMMA UnlinkKeeps ==
  ASSUME DiskInv, NEW n \in Names, f_unlink(n)
  PROVE  DiskInv'
<1> DEFINE s == SlotOf(n)
           e == [dir[s] EXCEPT !.name = "deleted"]
<1>1. /\ ~Open /\ Find(n) # {} /\ Goes("free", write_entry(s, e)) /\ clu' = dir[s].start
      /\ op' = [f |-> "f_unlink"] /\ file' = file /\ left' = left
  BY Zenon DEF f_unlink
<1>2. s \in 1 .. Slots /\ dir[s].name = n BY Zenon, <1>1, SlotOfFound
<1>3. dir[s] \in Entry BY Zenon, <1>2 DEF DiskInv, TypeOK
<1>4. e \in Entry /\ e.name = "deleted" BY Zenon, <1>3 DEF Entry
<1>5. /\ fat' = fat /\ dir' = dir /\ pc' = "free" /\ todo' = write_entry(s, e)
  BY Zenon, <1>1 DEF Goes, disk
<1>6. clu' = 0 \/ (First(fat[0], clu') /\ Apart(dir, clu', s))
  BY Zenon, <1>1, <1>2 DEF DiskInv, EntriesOK
<1>7. clu' \in 0 .. MaxCluster
  <2>1. clu' \in 0 .. MaxCluster - 1 BY Zenon, <1>1, <1>3 DEF Entry
  <2> QED BY <2>1, Fat32Assumption
<1> HIDE DEF s, e
<1>8. /\ todo' \in Seq(Write) /\ Len(todo') = 1
      /\ todo'[1].on = "dir" /\ todo'[1].slot = s /\ todo'[1].entry = e
  BY Zenon, <1>2, <1>4, <1>5, EntryWrites
<1>9. TypeOK'
  <2>1. ~Open' BY Zenon, <1>1 DEF Open
  <2>2. "free" \in Places /\ "free" \notin Busy BY Zenon DEF Places, Busy, Closing
  <2> QED BY Zenon, <1>1, <1>5, <1>7, <1>8, <2>1, <2>2 DEF DiskInv, TypeOK
<1>10. FreeingOK' BY Zenon, <1>2, <1>4, <1>5, <1>6, <1>8 DEF FreeingOK, Recording
<1>11. PhaseOK'
  BY Zenon, <1>5, <1>10
  DEF PhaseOK, AllocatingOK, Allocating, OpenedOK, SyncedOK, AppendOK
<1> QED BY Zenon, <1>1, <1>5, <1>9, <1>11 DEF DiskInv

LEMMA FreeChainKeeps ==
  ASSUME DiskInv, free_chain
  PROVE  DiskInv'
<1>1. /\ pc = "free" /\ todo = <<>> /\ clu \in Clusters
      /\ Goes("free", write_fat_entry(clu, 0)) /\ clu' = fat[0][clu]
      /\ file' = file /\ op' = op /\ left' = left
  BY Zenon DEF free_chain, At, NextOf
<1>2. First(fat[0], clu) /\ Apart(dir, clu, 0)
  <2>1. Len(todo) # 1 BY <1>1
  <2>2. Orphan(fat[0], dir, clu) BY Zenon, <1>1, <2>1 DEF DiskInv, PhaseOK, FreeingOK, Recording
  <2> QED BY Zenon, <1>1, <2>2, Numbers DEF Orphan
<1>3. fat' = fat /\ dir' = dir /\ pc' = "free" /\ todo' = write_fat_entry(clu, 0)
  BY Zenon, <1>1 DEF Goes, disk
<1>4. /\ todo' \in Seq(Write) /\ Len(todo') = NumFats /\ NumFats \in Nat \ {0}
      /\ todo'[1] = Store(clu, 0) /\ \A i \in 1 .. NumFats : i # 1 => Dull(todo'[i])
  <2>1. clu \in 0 .. MaxCluster - 1 /\ 0 \in 0 .. MaxCluster
    BY <1>1, Fat32Assumption DEF Clusters
  <2> QED BY Zenon, <1>3, <2>1, FatWrites
<1>5. todo' # <<>> BY <1>4
<1>6. clu' \in 0 .. MaxCluster
  <2>1. 0 \in Copies BY Fat32Assumption DEF Copies
  <2>2. fat[0] \in Tables /\ clu \in 0 .. MaxCluster - 1
    BY Zenon, <1>1, <2>1, Numbers DEF DiskInv, TypeOK
  <2> QED BY Zenon, <1>1, <2>2 DEF Tables
<1>7. TypeOK'
  <2>1. ~Open' BY Zenon, <1>1 DEF DiskInv, TypeOK, Closing, Open
  <2>2. "free" \in Places /\ "free" \notin Busy BY Zenon DEF Places, Busy, Closing
  <2> QED BY Zenon, <1>1, <1>3, <1>4, <1>6, <2>1, <2>2 DEF DiskInv, TypeOK
<1>8. FreeingOK' BY Zenon, <1>1, <1>2, <1>3, <1>4, <1>5 DEF FreeingOK
<1>9. PhaseOK'
  BY Zenon, <1>3, <1>8
  DEF PhaseOK, AllocatingOK, Allocating, OpenedOK, SyncedOK, AppendOK
<1> QED BY Zenon, <1>1, <1>3, <1>7, <1>9 DEF DiskInv

-----------------------------------------------------------------------------
(* The device makes a write.                                               *)

LEMMA SectorFacts ==
  ASSUME DiskInv, write_sector
  PROVE  /\ todo # <<>> /\ todo[1] \in Write /\ 1 \in 1 .. Len(todo)
         /\ file' = file /\ pc' = pc /\ op' = op /\ clu' = clu /\ left' = left
         /\ todo[1].on = "fat" =>
              /\ dir' = dir
              /\ todo[1].copy # 0 => fat'[0] = fat[0]
              /\ todo[1].copy = 0 => Stored(fat[0], fat'[0], todo[1].c, todo[1].v)
         /\ todo[1].on = "dir" =>
              fat' = fat /\ dir' = [dir EXCEPT ![todo[1].slot] = todo[1].entry]
                /\ todo[1].slot \in 1 .. Slots /\ todo[1].entry \in Entry
         /\ todo[1].on = "data" => fat' = fat /\ dir' = dir
         /\ todo[1].on \in {"fat", "dir", "data"}
         /\ TypeOK' /\ (Open' <=> Open)
         /\ \A i \in 1 .. Len(todo') :
              todo'[i] = todo[i + 1] /\ i + 1 \in 1 .. Len(todo) /\ i + 1 # 1
<1> DEFINE w == todo[1]
<1>1. TypeOK BY Zenon DEF DiskInv
<1>2. todo # <<>> /\ todo \in Seq(Write) BY Zenon, <1>1 DEF write_sector, TypeOK
<1>3. Head(todo) = w BY Zenon, <1>2, TailWrites
<1>4. /\ todo' = Tail(todo)
      /\ file' = file /\ pc' = pc /\ op' = op /\ clu' = clu /\ left' = left
      /\ \/ w.on = "fat" /\ fat' = FatAfter(w) /\ dir' = dir
         \/ w.on = "dir" /\ dir' = [dir EXCEPT ![w.slot] = w.entry] /\ fat' = fat
         \/ w.on = "data" /\ fat' = fat /\ dir' = dir
  BY Zenon, <1>3 DEF write_sector, disk
<1>5. /\ todo' \in Seq(Write) /\ w \in Write /\ 1 \in 1 .. Len(todo)
      /\ \A i \in 1 .. Len(todo') :
           todo'[i] = todo[i + 1] /\ i + 1 \in 1 .. Len(todo) /\ i + 1 # 1
  BY Zenon, <1>2, <1>4, TailWrites
<1> HIDE DEF w
<1>6. w.on = "dir" => w.slot \in 1 .. Slots /\ w.entry \in Entry BY Zenon, <1>5 DEF Write
<1>7. w.on = "fat" =>
        /\ dir' = dir /\ fat' \in [Copies -> Tables]
        /\ w.copy # 0 => fat'[0] = fat[0]
        /\ w.copy = 0 => Stored(fat[0], fat'[0], w.c, w.v)
  <2>1. ASSUME w.on = "fat" PROVE fat' = FatAfter(w) /\ dir' = dir BY Zenon, <1>4, <2>1
  <2>2. fat \in [Copies -> Tables] BY Zenon, <1>1 DEF TypeOK
  <2> QED BY Zenon, <1>5, <2>1, <2>2, FatStep
<1>8. w.on = "dir" => fat' = fat /\ dir' \in [1 .. Slots -> Entry]
                        /\ dir' = [dir EXCEPT ![w.slot] = w.entry]
  <2>1. dir \in [1 .. Slots -> Entry] BY Zenon, <1>1 DEF TypeOK
  <2> QED BY Zenon, <1>4, <1>6, <2>1
<1>9. w.on = "data" => fat' = fat /\ dir' = dir BY Zenon, <1>4
<1>10. fat' \in [Copies -> Tables] /\ dir' \in [1 .. Slots -> Entry]
  BY Zenon, <1>1, <1>4, <1>7, <1>8, <1>9 DEF TypeOK
<1>11. Open' <=> Open BY Zenon, <1>4 DEF Open
<1>12. TypeOK' BY Zenon, <1>1, <1>4, <1>5, <1>10, <1>11 DEF TypeOK
<1> QED BY Zenon, <1>2, <1>4, <1>5, <1>6, <1>7, <1>8, <1>9, <1>11, <1>12 DEF w

LEMMA StoreFields ==
  ASSUME NEW c, NEW v
  PROVE  /\ Store(c, v).on = "fat" /\ Store(c, v).copy = 0
         /\ Store(c, v).c = c /\ Store(c, v).v = v
         /\ ~Dull(Store(c, v))
<1>1. /\ Store(c, v).on = "fat" /\ Store(c, v).copy = 0
      /\ Store(c, v).c = c /\ Store(c, v).v = v
  BY Zenon DEF Store
<1> QED BY Zenon, <1>1 DEF Dull

LEMMA SameTable ==
  ASSUME NEW l \in Tables, NEW m \in Tables, \A d \in 0 .. MaxCluster - 1 : l[d] = m[d]
  PROVE  l = m
<1> DEFINE D == 0 .. MaxCluster - 1
<1>1. l = [d \in D |-> l[d]] /\ m = [d \in D |-> m[d]] BY Zenon DEF Tables
<1>2. [d \in D |-> l[d]] = [d \in D |-> m[d]] BY Zenon
<1> QED BY Zenon, <1>1, <1>2

\* A write of data, or to another copy of the table.
LEMMA DullKeeps ==
  ASSUME DiskInv, write_sector, Dull(todo[1])
  PROVE  DiskInv'
<1>1. /\ todo # <<>> /\ 1 \in 1 .. Len(todo) /\ TypeOK' /\ (Open' <=> Open)
      /\ file' = file /\ pc' = pc /\ op' = op /\ clu' = clu /\ left' = left
      /\ fat'[0] = fat[0] /\ dir' = dir
      /\ \A i \in 1 .. Len(todo') :
           todo'[i] = todo[i + 1] /\ i + 1 \in 1 .. Len(todo) /\ i + 1 # 1
  BY Zenon, SectorFacts DEF Dull
<1>2. todo[1].on # "dir" /\ \A c, v : todo[1] # Store(c, v)
  <2>1. todo[1].on # "dir" BY Zenon DEF Dull
  <2>2. ASSUME NEW c, NEW v, todo[1] = Store(c, v) PROVE FALSE
    <3>1. ~Dull(Store(c, v)) BY Zenon, StoreFields
    <3> QED BY Zenon, <2>2, <3>1
  <2> QED BY Zenon, <2>1, <2>2
<1>3. Quiet => Quiet' BY Zenon, <1>1 DEF Quiet
<1>4. AllocatingOK'
  <2> SUFFICES ASSUME pc \in Allocating
               PROVE  \E t \in Clusters \cup {0} :
                        /\ Allocates(t)'
                        /\ pc \in {"slot", "started"} \/ (pc = "appended" /\ file.start = 0)
                             => t = 0
    BY Zenon, <1>1 DEF AllocatingOK
  <2>1. PICK t \in Clusters \cup {0} :
          /\ Allocates(t)
          /\ pc \in {"slot", "started"} \/ (pc = "appended" /\ file.start = 0) => t = 0
    BY Zenon DEF DiskInv, PhaseOK, AllocatingOK
  <2>2. fat[0][clu] # 0 BY Zenon, <1>2, <2>1 DEF Allocates
  <2>3. \A i \in 1 .. Len(todo') : Dull(todo'[i]) \/ (t # 0 /\ todo'[i] = Store(t, clu))
    BY Zenon, <1>1, <2>1, <2>2 DEF Allocates
  <2>4. Allocates(t)' BY Zenon, <1>1, <2>1, <2>2, <2>3 DEF Allocates
  <2> QED BY Zenon, <2>1, <2>4
<1>5. OpenedOK' BY Zenon, <1>1, <1>2, <1>3 DEF DiskInv, PhaseOK, OpenedOK, Recording
<1>6. SyncedOK' BY Zenon, <1>1, <1>2, <1>3 DEF DiskInv, PhaseOK, SyncedOK, Recording
<1>7. FreeingOK' BY Zenon, <1>1, <1>2, <1>3 DEF DiskInv, PhaseOK, FreeingOK, Recording
<1>8. PhaseOK' BY Zenon, <1>1, <1>3, <1>4, <1>5, <1>6, <1>7 DEF DiskInv, PhaseOK, AppendOK
<1> QED BY Zenon, <1>1, <1>8 DEF DiskInv

\* The write that marks a cluster used.
LEMMA MarkKeeps ==
  ASSUME DiskInv, write_sector, pc \in Allocating, fat[0][clu] = 0
  PROVE  DiskInv'
<1>1. PICK t \in Clusters \cup {0} :
        /\ Allocates(t)
        /\ pc \in {"slot", "started"} \/ (pc = "appended" /\ file.start = 0) => t = 0
  BY Zenon DEF DiskInv, PhaseOK, AllocatingOK
<1>2. /\ todo[1] = Store(clu, EOC) /\ clu \in Clusters /\ clu # ROOT
      /\ Sound(fat[0]) /\ EntriesOK(fat[0], dir) /\ FileOK(fat[0], dir, file)
  BY Zenon, <1>1 DEF Allocates, DiskInv
<1>3. /\ TypeOK' /\ (Open' <=> Open)
      /\ file' = file /\ pc' = pc /\ op' = op /\ clu' = clu /\ left' = left
      /\ dir' = dir /\ Stored(fat[0], fat'[0], clu, EOC)
      /\ \A i \in 1 .. Len(todo') :
           todo'[i] = todo[i + 1] /\ i + 1 \in 1 .. Len(todo) /\ i + 1 # 1
  <2>0. todo[1] = Store(clu, EOC) BY Zenon, <1>2
  <2>1. todo[1].on = "fat" /\ todo[1].copy = 0 /\ todo[1].c = clu /\ todo[1].v = EOC
    BY SMT, <2>0 DEF Store
  <2> QED BY Zenon, <2>1, SectorFacts
<1>4. /\ Sound(fat'[0])
      /\ \A d : Used(fat[0], d) => Used(fat'[0], d)
      /\ \A d : First(fat[0], d) => First(fat'[0], d)
  BY Zenon, <1>2, <1>3, MarkSound
<1>5. fat'[0][clu] = EOC /\ \A d \in Clusters : d # clu => fat'[0][d] = fat[0][d]
  BY Zenon, <1>3, Numbers DEF Stored
<1>6. Allocates(t)'
  <2>1. \A c \in Clusters : fat'[0][c] = clu => c = t
    BY Zenon, <1>1, <1>2, <1>5, Numbers DEF Allocates
  <2>2. t # 0 => Used(fat'[0], t) /\ t # clu /\ fat'[0][t] \in {EOC, clu}
    BY Zenon, <1>1, <1>4, <1>5 DEF Allocates
  <2>3. \A i \in 1 .. Len(todo') : Dull(todo'[i]) \/ (t # 0 /\ todo'[i] = Store(t, clu))
    BY Zenon, <1>1, <1>3 DEF Allocates
  <2> QED BY Zenon, <1>1, <1>2, <1>3, <1>5, <2>1, <2>2, <2>3, Numbers DEF Allocates
<1>7. AllocatingOK' BY Zenon, <1>1, <1>3, <1>6 DEF AllocatingOK
<1>8. PhaseOK'
  BY Zenon, <1>3, <1>7
  DEF DiskInv, PhaseOK, OpenedOK, SyncedOK, FreeingOK, AppendOK, Allocating
<1>9. EntriesOK(fat'[0], dir) /\ FileOK(fat'[0], dir, file)
  BY Zenon, <1>2, <1>4 DEF EntriesOK, FileOK
<1> QED BY Zenon, <1>3, <1>4, <1>8, <1>9 DEF DiskInv

\* The write that links it.
LEMMA LinkKeeps ==
  ASSUME DiskInv, write_sector, pc \in Allocating, fat[0][clu] # 0, ~Dull(todo[1])
  PROVE  DiskInv'
<1>1. PICK t \in Clusters \cup {0} :
        /\ Allocates(t)
        /\ pc \in {"slot", "started"} \/ (pc = "appended" /\ file.start = 0) => t = 0
  BY Zenon DEF DiskInv, PhaseOK, AllocatingOK
<1>2. /\ clu \in Clusters /\ clu # ROOT /\ fat[0][clu] = EOC
      /\ \A c \in Clusters : fat[0][c] = clu => c = t
      /\ t # 0 /\ todo[1] = Store(t, clu)
      /\ Used(fat[0], t) /\ t # clu /\ fat[0][t] \in {EOC, clu}
      /\ Apart(dir, clu, 0) /\ (Open => file.start # clu)
  <2>1. 1 \in 1 .. Len(todo) BY Zenon, SectorFacts
  <2> QED BY Zenon, <1>1, <2>1 DEF Allocates
<1>3. /\ TypeOK' /\ (Open' <=> Open)
      /\ file' = file /\ pc' = pc /\ op' = op /\ clu' = clu /\ left' = left
      /\ dir' = dir /\ Stored(fat[0], fat'[0], t, clu)
      /\ \A i \in 1 .. Len(todo') :
           todo'[i] = todo[i + 1] /\ i + 1 \in 1 .. Len(todo) /\ i + 1 # 1
  <2>0. todo[1] = Store(t, clu) BY Zenon, <1>2
  <2>1. todo[1].on = "fat" /\ todo[1].copy = 0 /\ todo[1].c = t /\ todo[1].v = clu
    BY SMT, <2>0 DEF Store
  <2> QED BY Zenon, <2>1, SectorFacts
<1>4. Sound(fat[0]) /\ EntriesOK(fat[0], dir) /\ FileOK(fat[0], dir, file)
  BY Zenon DEF DiskInv
<1>5. t \in Clusters BY Zenon, <1>2 DEF Used
<1>6. /\ Sound(fat'[0])
      /\ \A d : Used(fat[0], d) => Used(fat'[0], d)
      /\ \A d : First(fat[0], d) /\ d # clu => First(fat'[0], d)
  <2>1. CASE fat[0][t] = EOC
    <3>1. First(fat[0], clu) BY Zenon, <1>2, <2>1, Numbers DEF First, Used
    <3> QED BY Zenon, <1>2, <1>3, <1>4, <1>5, <2>1, <3>1, LinkSound
  <2>2. CASE fat[0][t] = clu
    <3>1. \A d \in 0 .. MaxCluster - 1 : fat'[0][d] = fat[0][d]
      BY Zenon, <1>3, <2>2 DEF Stored
    <3>2. fat'[0] \in Tables /\ fat[0] \in Tables
      <4>1. 0 \in Copies BY Fat32Assumption DEF Copies
      <4> QED BY Zenon, <1>3, <4>1 DEF DiskInv, TypeOK
    <3>3. fat'[0] = fat[0] BY Zenon, <3>1, <3>2, SameTable
    <3> QED BY Zenon, <1>4, <3>3
  <2> QED BY Zenon, <1>2, <2>1, <2>2
<1>7. fat'[0][t] = clu /\ \A d \in Clusters : d # t => fat'[0][d] = fat[0][d]
  BY Zenon, <1>3, Numbers DEF Stored
<1>8. Allocates(t)'
  <2>1. \A c \in Clusters : fat'[0][c] = clu => c = t BY Zenon, <1>2, <1>7
  <2>2. Used(fat'[0], t) /\ fat'[0][clu] = EOC BY Zenon, <1>2, <1>6, <1>7
  <2>3. \A i \in 1 .. Len(todo') : Dull(todo'[i]) \/ (t # 0 /\ todo'[i] = Store(t, clu))
    BY Zenon, <1>1, <1>3 DEF Allocates
  <2> QED BY Zenon, <1>2, <1>3, <1>7, <2>1, <2>2, <2>3, Numbers DEF Allocates
<1>9. AllocatingOK' BY Zenon, <1>1, <1>3, <1>8 DEF AllocatingOK
<1>10. PhaseOK'
  BY Zenon, <1>3, <1>9
  DEF DiskInv, PhaseOK, OpenedOK, SyncedOK, FreeingOK, AppendOK, Allocating
<1>11. EntriesOK(fat'[0], dir)
  <2>1. \A u \in 1 .. Slots : u # 0 OBVIOUS
  <2>2. \A u \in 1 .. Slots : dir[u].name \in Names => dir[u].start # clu
    BY Zenon, <1>2, <2>1 DEF Apart
  <2> QED BY Zenon, <1>4, <1>6, <2>2 DEF EntriesOK
<1>12. FileOK(fat'[0], dir, file) BY Zenon, <1>2, <1>4, <1>6 DEF FileOK, Open
<1> QED BY Zenon, <1>3, <1>6, <1>10, <1>11, <1>12 DEF DiskInv

\* An entry whose chain no other entry has is stored.
LEMMA EntryStored ==
  ASSUME NEW l, NEW s \in 1 .. Slots, NEW e,
         dir \in [1 .. Slots -> Entry], EntriesOK(l, dir), dir' = [dir EXCEPT ![s] = e],
         e.name \in Names => e.start = 0 \/ (First(l, e.start) /\ Apart(dir, e.start, s))
  PROVE  /\ EntriesOK(l, dir') /\ dir'[s] = e
         /\ \A u \in 1 .. Slots : u # s => dir'[u] = dir[u]
         /\ \A c : Apart(dir, c, s) => Apart(dir', c, s)
<1>1. dir'[s] = e /\ \A u \in 1 .. Slots : u # s => dir'[u] = dir[u] BY Zenon
<1>2. \A c : Apart(dir, c, s) => Apart(dir', c, s) BY Zenon, <1>1 DEF Apart
<1>3. ASSUME NEW u \in 1 .. Slots, dir'[u].name \in Names, dir'[u].start # 0
      PROVE  First(l, dir'[u].start) /\ Apart(dir', dir'[u].start, u)
  <2>1. CASE u = s BY Zenon, <1>1, <1>2, <1>3, <2>1
  <2>2. CASE u # s
    <3>1. /\ dir[u].name \in Names /\ dir'[u].start = dir[u].start
          /\ First(l, dir[u].start) /\ Apart(dir, dir[u].start, u)
      BY Zenon, <1>1, <1>3, <2>2 DEF EntriesOK
    <3>2. e.name \in Names => e.start # dir[u].start
      BY Zenon, <1>1, <1>3, <2>2, <3>1 DEF Apart
    <3> QED BY Zenon, <1>1, <3>1, <3>2 DEF Apart
  <2> QED BY Zenon, <2>1, <2>2
<1>4. EntriesOK(l, dir') BY Zenon, <1>3 DEF EntriesOK
<1> QED BY Zenon, <1>1, <1>2, <1>4

\* The last write of a call is made.
LEMMA LastWrite ==
  ASSUME DiskInv, write_sector, NEW s, Recording(s)
  PROVE  /\ fat' = fat /\ dir' = [dir EXCEPT ![s] = todo[1].entry] /\ s \in 1 .. Slots
         /\ dir \in [1 .. Slots -> Entry]
         /\ file' = file /\ pc' = pc /\ op' = op /\ clu' = clu /\ left' = left
         /\ TypeOK' /\ (Open' <=> Open) /\ Quiet'
<1>1. Len(todo) = 1 /\ todo[1].on = "dir" /\ todo[1].slot = s BY Zenon DEF Recording
<1>2. \A i \in 1 .. Len(todo') : i + 1 \in 1 .. Len(todo) /\ i + 1 # 1
  BY Zenon, SectorFacts
<1>3. \A i \in 1 .. Len(todo') : FALSE BY <1>1, <1>2
<1>4. Quiet' BY Zenon, <1>3 DEF Quiet
<1>5. dir \in [1 .. Slots -> Entry] BY Zenon DEF DiskInv, TypeOK
<1> QED BY Zenon, <1>1, <1>4, <1>5, SectorFacts

LEMMA OpenedKeeps ==
  ASSUME DiskInv, write_sector, pc = "opened", Recording(op.slot), todo[1].entry.start = clu
  PROVE  DiskInv'
<1> DEFINE s == op.slot
           e == todo[1].entry
<1>1. /\ fat' = fat /\ dir' = [dir EXCEPT ![s] = e] /\ s \in 1 .. Slots
      /\ dir \in [1 .. Slots -> Entry]
      /\ file' = file /\ pc' = pc /\ op' = op /\ clu' = clu /\ left' = left
      /\ TypeOK' /\ (Open' <=> Open) /\ Quiet'
  BY Zenon, LastWrite
<1>2. First(fat[0], clu) /\ Apart(dir, clu, s) /\ EntriesOK(fat[0], dir) /\ Sound(fat[0])
  BY Zenon DEF DiskInv, PhaseOK, OpenedOK
<1>3. e.start = clu OBVIOUS
<1> HIDE DEF s, e
<1>4. EntriesOK(fat[0], dir') /\ \A c : Apart(dir, c, s) => Apart(dir', c, s)
  BY ZenonT(30), <1>1, <1>2, <1>3, EntryStored
<1>5. OpenedOK' BY Zenon, <1>1, <1>2, <1>4 DEF OpenedOK, s
<1>6. PhaseOK'
  BY Zenon, <1>1, <1>5 DEF PhaseOK, AllocatingOK, Allocating, SyncedOK, FreeingOK, AppendOK
<1>7. FileOK(fat[0], dir', file)
  <2>1. ~Open BY Zenon DEF DiskInv, TypeOK, Closing
  <2> QED BY Zenon, <2>1 DEF FileOK, Open
<1> QED BY Zenon, <1>1, <1>2, <1>4, <1>6, <1>7 DEF DiskInv

LEMMA SyncedKeeps ==
  ASSUME DiskInv, write_sector, pc = "synced", Recording(file.slot),
         todo[1].entry.start = file.start
  PROVE  DiskInv'
<1> DEFINE s == file.slot
           e == todo[1].entry
<1>1. /\ fat' = fat /\ dir' = [dir EXCEPT ![s] = e] /\ s \in 1 .. Slots
      /\ dir \in [1 .. Slots -> Entry]
      /\ file' = file /\ pc' = pc /\ op' = op /\ clu' = clu /\ left' = left
      /\ TypeOK' /\ (Open' <=> Open) /\ Quiet'
  BY Zenon, LastWrite
<1>2. /\ EntriesOK(fat[0], dir) /\ Sound(fat[0])
      /\ file.start = 0 \/ (First(fat[0], file.start) /\ Apart(dir, file.start, s))
      /\ file.current = 0 \/ Used(fat[0], file.current)
  <2>1. pc \in Busy BY Zenon DEF Busy, Places, Closing
  <2> QED BY Zenon, <2>1, OpenFacts DEF DiskInv
<1>3. e.start = file.start OBVIOUS
<1> HIDE DEF s, e
<1>4. EntriesOK(fat[0], dir') /\ \A c : Apart(dir, c, s) => Apart(dir', c, s)
  BY Zenon, <1>1, <1>2, <1>3, EntryStored
<1>5. FileOK(fat[0], dir', file) BY Zenon, <1>2, <1>4 DEF FileOK, s
<1>6. PhaseOK'
  BY Zenon, <1>1
  DEF PhaseOK, AllocatingOK, Allocating, SyncedOK, OpenedOK, FreeingOK, AppendOK
<1> QED BY Zenon, <1>1, <1>2, <1>4, <1>5, <1>6 DEF DiskInv

LEMMA DeletedKeeps ==
  ASSUME DiskInv, write_sector, pc = "free", NEW s, Recording(s),
         todo[1].entry.name = "deleted",
         clu = 0 \/ (First(fat[0], clu) /\ Apart(dir, clu, s))
  PROVE  DiskInv'
<1> DEFINE e == todo[1].entry
<1>1. /\ fat' = fat /\ dir' = [dir EXCEPT ![s] = e] /\ s \in 1 .. Slots
      /\ dir \in [1 .. Slots -> Entry]
      /\ file' = file /\ pc' = pc /\ op' = op /\ clu' = clu /\ left' = left
      /\ TypeOK' /\ (Open' <=> Open) /\ Quiet'
  BY Zenon, LastWrite
<1>2. EntriesOK(fat[0], dir) /\ Sound(fat[0]) BY Zenon DEF DiskInv
<1>3. e.name \notin Names BY Zenon, Fat32Assumption
<1> HIDE DEF e
<1>4. /\ EntriesOK(fat[0], dir') /\ dir'[s] = e
      /\ \A u \in 1 .. Slots : u # s => dir'[u] = dir[u]
  BY Zenon, <1>1, <1>2, <1>3, EntryStored
<1>5. Orphan(fat[0], dir', clu) BY Zenon, <1>3, <1>4 DEF Orphan, Apart
<1>6. FreeingOK' BY Zenon, <1>1, <1>5 DEF FreeingOK
<1>7. PhaseOK'
  BY Zenon, <1>1, <1>6 DEF PhaseOK, AllocatingOK, Allocating, SyncedOK, OpenedOK, AppendOK
<1>8. FileOK(fat[0], dir', file)
  <2>1. ~Open BY Zenon DEF DiskInv, TypeOK, Closing
  <2> QED BY Zenon, <2>1 DEF FileOK, Open
<1> QED BY Zenon, <1>1, <1>2, <1>4, <1>7, <1>8 DEF DiskInv

\* The write that frees the first cluster of a chain nothing refers to.
LEMMA ClearKeeps ==
  ASSUME DiskInv, write_sector, pc = "free", NEW h \in Clusters,
         First(fat[0], h), Apart(dir, h, 0), clu = fat[0][h], todo[1] = Store(h, 0),
         \A i \in 1 .. Len(todo) : i # 1 => Dull(todo[i])
  PROVE  DiskInv'
<1>1. /\ TypeOK' /\ (Open' <=> Open)
      /\ file' = file /\ pc' = pc /\ op' = op /\ clu' = clu /\ left' = left
      /\ dir' = dir /\ Stored(fat[0], fat'[0], h, 0)
      /\ \A i \in 1 .. Len(todo') :
           todo'[i] = todo[i + 1] /\ i + 1 \in 1 .. Len(todo) /\ i + 1 # 1
  <2>1. todo[1].on = "fat" /\ todo[1].copy = 0 /\ todo[1].c = h /\ todo[1].v = 0
    BY SMT DEF Store
  <2> QED BY Zenon, <2>1, SectorFacts
<1>2. Quiet' BY Zenon, <1>1 DEF Quiet
<1>3. Sound(fat[0]) /\ EntriesOK(fat[0], dir) BY Zenon DEF DiskInv
<1>4. /\ Sound(fat'[0])
      /\ \A d : First(fat[0], d) /\ d # h => First(fat'[0], d)
      /\ clu = EOC \/ (First(fat'[0], clu) /\ ~First(fat[0], clu))
  BY Zenon, <1>1, <1>3, ClearSound
<1>5. \A u \in 1 .. Slots : u # 0 OBVIOUS
<1>6. EntriesOK(fat'[0], dir) BY Zenon, <1>3, <1>4, <1>5 DEF EntriesOK, Apart
<1>7. Orphan(fat'[0], dir, clu)
  <2>1. CASE clu = EOC BY Zenon, <2>1 DEF Orphan
  <2>2. CASE First(fat'[0], clu) /\ ~First(fat[0], clu)
    <3>1. clu # 0 BY Zenon, <2>2, Numbers DEF First, Used
    <3>2. Apart(dir, clu, 0) BY Zenon, <1>3, <2>2, <3>1 DEF EntriesOK, Apart
    <3> QED BY Zenon, <2>2, <3>2 DEF Orphan
  <2> QED BY Zenon, <1>4, <2>1, <2>2
<1>8. FreeingOK' BY Zenon, <1>1, <1>2, <1>7 DEF FreeingOK
<1>9. PhaseOK'
  BY Zenon, <1>1, <1>8 DEF PhaseOK, AllocatingOK, Allocating, SyncedOK, OpenedOK, AppendOK
<1>10. FileOK(fat'[0], dir, file)
  <2>1. ~Open BY Zenon DEF DiskInv, TypeOK, Closing
  <2> QED BY Zenon, <2>1 DEF FileOK, Open
<1> QED BY Zenon, <1>1, <1>4, <1>6, <1>9, <1>10 DEF DiskInv

LEMMA SectorKeeps == DiskInv /\ write_sector => DiskInv'
<1> SUFFICES ASSUME DiskInv, write_sector PROVE DiskInv'
  OBVIOUS
<1>0. PhaseOK /\ 1 \in 1 .. Len(todo) BY Zenon, SectorFacts DEF DiskInv
<1>1. CASE Dull(todo[1]) BY Zenon, <1>1, DullKeeps
<1>2. CASE ~Dull(todo[1])
  <2>1. ~Quiet BY Zenon, <1>0, <1>2 DEF Quiet
  <2>2. CASE pc \in Allocating BY Zenon, <1>2, <2>2, MarkKeeps, LinkKeeps
  <2>3. CASE pc = "opened" BY Zenon, <1>0, <2>1, <2>3, OpenedKeeps DEF PhaseOK, OpenedOK
  <2>4. CASE pc = "synced" BY Zenon, <1>0, <2>1, <2>4, SyncedKeeps DEF PhaseOK, SyncedOK
  <2>5. CASE pc = "free"
    <3>1. FreeingOK BY Zenon, <1>0 DEF PhaseOK
    <3>2. ASSUME NEW s \in 1 .. Slots, Recording(s), todo[1].entry.name = "deleted",
                 clu = 0 \/ (First(fat[0], clu) /\ Apart(dir, clu, s))
          PROVE  DiskInv'
      BY Zenon, <2>5, <3>2, DeletedKeeps
    <3>3. ASSUME NEW h \in Clusters, First(fat[0], h), Apart(dir, h, 0), clu = fat[0][h],
                 todo[1] = Store(h, 0), \A i \in 1 .. Len(todo) : i # 1 => Dull(todo[i])
          PROVE  DiskInv'
      BY Zenon, <2>5, <3>3, ClearKeeps
    <3> QED BY Zenon, <2>1, <2>5, <3>1, <3>2, <3>3 DEF FreeingOK
  <2> QED BY Zenon, <1>0, <2>1, <2>2, <2>3, <2>4, <2>5 DEF PhaseOK
<1> QED BY Zenon, <1>1, <1>2

-----------------------------------------------------------------------------
(* Every state of the disk is sound.                                       *)

LEMMA FormattedSound ==
  ASSUME NEW l, \A c \in 0 .. MaxCluster - 1 : l[c] = IF c <= ROOT THEN EOC ELSE 0
  PROVE  Sound(l)
<1>1. \A c \in Clusters : l[c] = EOC \/ l[c] = 0 BY Zenon, Numbers
<1>2. l[0] = EOC /\ l[ROOT] = EOC
  <2>1. 0 <= ROOT /\ ROOT <= ROOT BY DEF ROOT
  <2> QED BY Zenon, <2>1, Numbers
<1>3. Linked(l) BY Zenon, <1>1, <1>2, Numbers DEF Linked
<1>4. OnePredecessor(l) BY Zenon, <1>1, Numbers DEF OnePredecessor
<1>5. Acyclic(l) BY Zenon, <1>1, Numbers DEF Acyclic
<1> QED BY Zenon, <1>3, <1>4, <1>5 DEF Sound

LEMMA InitDisk == Init => DiskInv
<1> SUFFICES ASSUME Init PROVE DiskInv
  OBVIOUS
<1>0. 0 \in Copies /\ 0 \in 0 .. MaxCluster - 1 /\ 0 \in 0 .. MaxCluster /\ 0 \in Int
      /\ EOC \in 0 .. MaxCluster /\ <<>> \in Seq(Write) /\ Len(<<>>) = 0
  BY Fat32Assumption DEF Copies, EOC
<1>1. /\ fat = [k \in Copies |-> [c \in 0 .. MaxCluster - 1 |-> IF c <= ROOT THEN EOC ELSE 0]]
      /\ file = Closed /\ pc = "idle" /\ clu = 0 /\ left = 0 /\ todo = <<>>
  BY Zenon DEF Init
<1>2. fat \in [Copies -> Tables] /\ Sound(fat[0])
  <2>1. fat \in [Copies -> Tables] BY Zenon, <1>0, <1>1 DEF Tables
  <2>2. \A c \in 0 .. MaxCluster - 1 : fat[0][c] = IF c <= ROOT THEN EOC ELSE 0
    BY Zenon, <1>0, <1>1
  <2> QED BY Zenon, <2>1, <2>2, FormattedSound
<1>3. dir \in [1 .. Slots -> Entry] /\ \A s \in 1 .. Slots : dir[s].start = 0
  <2>1. PICK first \in Foreign \cup {"free"} :
          dir = [s \in 1 .. Slots |->
                   [name |-> IF s = 1 THEN first ELSE "free", start |-> 0, size |-> 0]]
    BY Zenon DEF Init
  <2>2. first \in Names \cup {"free", "deleted"} BY Zenon, Fat32Assumption
  <2> QED BY Zenon, <1>0, <2>1, <2>2 DEF Entry
<1>4. TypeOK BY Zenon, <1>0, <1>1, <1>2, <1>3 DEF TypeOK, Places, Closing, Busy
<1>5. Quiet
  <2>1. \A i \in 1 .. 0 : FALSE OBVIOUS
  <2> QED BY Zenon, <1>0, <1>1, <2>1 DEF Quiet
<1>6. PhaseOK
  BY Zenon, <1>1, <1>5
  DEF PhaseOK, AllocatingOK, OpenedOK, SyncedOK, FreeingOK, AppendOK, Allocating
<1>7. EntriesOK(fat[0], dir) /\ FileOK(fat[0], dir, file)
  BY Zenon, <1>1, <1>3 DEF EntriesOK, FileOK
<1> QED BY Zenon, <1>2, <1>4, <1>6, <1>7 DEF DiskInv

\* Clients that neither empty files, by FA_CREATE_ALWAYS or f_truncate, nor
\* rename them.  The code frees the clusters that FA_CREATE_ALWAYS and
\* f_truncate cut off before it writes the entry and the end mark, and f_rename
\* leaves the two entries of one chain on the disk for a moment.
SafeClients == "always" \notin Modes /\ Calls \cap {"f_truncate", "f_rename"} = {}

LEMMA CallKeeps == SafeClients /\ DiskInv /\ Call => DiskInv'
<1> SUFFICES ASSUME SafeClients, DiskInv, Call PROVE DiskInv'
  OBVIOUS
<1>1. ASSUME NEW n \in Names, f_open_always(n) \/ f_unlink(n) PROVE DiskInv'
  <2>1. ~f_open_always(n) BY Zenon DEF SafeClients, f_open_always
  <2> QED BY Zenon, <1>1, <2>1, UnlinkKeeps
<1>2. ASSUME NEW n \in Names, NEW m \in Modes, f_open_existing(n, m) \/ f_open_create(n, m)
      PROVE  DiskInv'
  BY Zenon, <1>2, OpenExistingKeeps, CreateKeeps
<1>3. ASSUME NEW n \in Lens, f_read(n) \/ f_write(n) PROVE DiskInv'
  BY Zenon, <1>3, ReadKeeps, WriteKeeps
<1>4. ASSUME NEW o \in 0 .. MaxSize, f_lseek(o) \/ f_expand(o) PROVE DiskInv'
  BY Zenon, <1>4, SeekKeeps, ExpandKeeps
<1>5. ASSUME NEW o \in Names, NEW n \in Names, f_rename(o, n) PROVE DiskInv'
  BY Zenon, <1>5 DEF SafeClients, f_rename
<1>6. CASE f_truncate BY Zenon, <1>6 DEF SafeClients, f_truncate
<1>7. CASE f_sync BY Zenon, <1>7, SyncKeeps
<1>8. CASE f_close BY Zenon, <1>8, ClosedKeeps DEF f_close
<1>9. CASE denied BY Zenon, <1>9, FailsKeeps DEF denied
<1> QED BY Zenon, <1>1, <1>2, <1>3, <1>4, <1>5, <1>6, <1>7, <1>8, <1>9 DEF Call

LEMMA StepKeeps == DiskInv /\ Step => DiskInv'
<1> SUFFICES ASSUME DiskInv, Step PROVE DiskInv'
  OBVIOUS
<1>0. pc \in Places BY Zenon DEF DiskInv, TypeOK
<1>1. CASE write_sector BY Zenon, <1>1, SectorKeeps
<1>2. CASE f_open_slot BY Zenon, <1>2, SlotKeeps
<1>3. CASE f_open_full BY Zenon, <1>3, FailsKeeps DEF f_open_full
<1>4. CASE f_open_return BY Zenon, <1>4, OpenReturnKeeps
<1>5. CASE free_chain BY Zenon, <1>5, FreeChainKeeps
<1>6. CASE free_return BY Zenon, <1>6, FreeReturnKeeps
<1>7. CASE f_read_sector BY Zenon, <1>7, ReadSectorKeeps
<1>8. CASE f_read_return BY Zenon, <1>8, UnchangedKeeps DEF f_read_return
<1>9. CASE f_write_first BY Zenon, <1>9, WriteFirstKeeps
<1>10. CASE f_write_started BY Zenon, <1>10, StartedKeeps
<1>11. CASE f_write_data BY Zenon, <1>11, DataKeeps
<1>12. CASE f_write_written BY Zenon, <1>12, WrittenKeeps
<1>13. CASE f_write_next BY Zenon, <1>13, WriteNextKeeps
<1>14. CASE f_write_extend BY Zenon, <1>14, ExtendKeeps
<1>15. CASE f_write_linked BY Zenon, <1>15, LinkedKeeps
<1>16. CASE f_write_full BY Zenon, <1>16, FailsKeeps DEF f_write_full
<1>17. CASE f_write_return BY Zenon, <1>17, UnchangedKeeps DEF f_write_return
<1>18. CASE f_truncate_return BY Zenon, <1>0, <1>18 DEF f_truncate_return, At, Places
<1>19. CASE f_expand_append BY Zenon, <1>19, AppendKeeps
<1>20. CASE f_expand_full BY Zenon, <1>20, FailsKeeps DEF f_expand_full
<1>21. CASE f_expand_next BY Zenon, <1>21, ExpandNextKeeps
<1>22. CASE f_expand_return BY Zenon, <1>22, UnchangedKeeps DEF f_expand_return
<1>23. CASE f_sync_return BY Zenon, <1>23, SyncReturnKeeps
<1>24. CASE f_rename_return BY Zenon, <1>0, <1>24 DEF f_rename_return, At, Places
<1> QED
  BY Zenon, <1>1, <1>2, <1>3, <1>4, <1>5, <1>6, <1>7, <1>8, <1>9, <1>10, <1>11, <1>12,
     <1>13, <1>14, <1>15, <1>16, <1>17, <1>18, <1>19, <1>20, <1>21, <1>22, <1>23, <1>24
  DEF Step

LEMMA NextKeeps == SafeClients /\ DiskInv /\ [Next]_vars => DiskInv'
<1> SUFFICES ASSUME SafeClients, DiskInv, [Next]_vars PROVE DiskInv'
  OBVIOUS
<1>1. CASE Call BY Zenon, <1>1, CallKeeps
<1>2. CASE Step BY Zenon, <1>2, StepKeeps
<1>3. CASE write_fails BY Zenon, <1>3, FailsKeeps DEF write_fails
<1>4. CASE f_read_fails BY Zenon, <1>4, FailsKeeps DEF f_read_fails
<1>5. CASE crash BY Zenon, <1>5, ClosedKeeps DEF crash
<1>6. CASE UNCHANGED vars
  <2>1. /\ fat' = fat /\ dir' = dir /\ file' = file /\ pc' = pc /\ op' = op /\ clu' = clu
        /\ left' = left /\ todo' = todo
    BY Zenon, <1>6 DEF vars
  <2>2. TypeOK' BY Zenon, <2>1 DEF DiskInv, TypeOK, Open
  <2>3. Quiet' <=> Quiet BY Zenon, <2>1 DEF Quiet
  <2>4. AllocatingOK' BY Zenon, <2>1 DEF DiskInv, PhaseOK, AllocatingOK, Allocates, Open
  <2>5. OpenedOK' /\ SyncedOK' /\ AppendOK'
    BY Zenon, <2>1, <2>3 DEF DiskInv, PhaseOK, OpenedOK, SyncedOK, AppendOK, Recording
  <2>6. FreeingOK' BY Zenon, <2>1, <2>3 DEF DiskInv, PhaseOK, FreeingOK, Recording
  <2> QED BY Zenon, <2>1, <2>2, <2>3, <2>4, <2>5, <2>6 DEF DiskInv, PhaseOK
<1> QED BY Zenon, <1>1, <1>2, <1>3, <1>4, <1>5, <1>6 DEF Next

\* For clients that use neither FA_CREATE_ALWAYS, f_truncate nor f_rename, on
\* any volume and whatever write fails or wherever the machine stops: the chains
\* of the files on the disk end, and share no cluster with each other or with
\* the directory.
THEOREM OnDiskSoundHolds ==
  ASSUME SafeClients
  PROVE  Spec => []OnDiskSound
<1>1. Init => DiskInv BY InitDisk
<1>2. DiskInv /\ [Next]_vars => DiskInv' BY Zenon, NextKeeps
<1>3. DiskInv => OnDiskSound BY InvImpliesSound
<1> QED BY <1>1, <1>2, <1>3, PTL DEF Spec

-----------------------------------------------------------------------------
(* f_rename, for any clients: only its own writes touch the directory.     *)

EntryLike(e) == e = [name |-> e.name, start |-> e.start, size |-> e.size]
FileLike(f)  == f # Closed => "slot" \in DOMAIN f /\ f.slot \in 1 .. Slots
OpenLike(o)  == o = [f |-> "f_open", name |-> o.name, mode |-> o.mode, slot |-> o.slot]

\* Writes that leave entries entries.
Harmless(ws) == \E S : ws \in Seq(S) /\ \A w \in S : w.on = "dir" => EntryLike(w.entry)

\* Slot s has the file that is renamed, under the one name or the other.
Kept(s) ==
  /\ dir[s].name \in {op.from, op.to}
  /\ dir[s].start = op.entry.start /\ dir[s].size = op.entry.size

\* The old entry stays until the new one is there, and then that one stays.
Renaming ==
  /\ {op.from, op.to} \subseteq Names /\ EntryLike(op.entry)
  /\ \E s \in 1 .. Slots :
       /\ Kept(s)
       /\ \/ \A i \in 1 .. Len(todo) : todo[i].on = "dir" /\ todo[i].slot # s
          \/ \E t \in 1 .. Slots \ {s} :
               /\ Len(todo) = 2 /\ todo[1].on = "dir" /\ todo[1].slot = t
               /\ todo[1].entry = [op.entry EXCEPT !.name = op.to]
               /\ todo[2].on = "dir" /\ todo[2].slot # t

\* The running call works on the open File.
UsesFile(p, o) ==
  p \notin {"idle", "slot", "opened", "free", "renamed"} \/ (p = "free" /\ o.f = "f_truncate")

RenameInv ==
  /\ dir = [s \in 1 .. Slots |-> dir[s]] /\ \A s \in 1 .. Slots : EntryLike(dir[s])
  /\ FileLike(file)
  /\ Harmless(todo)
  /\ pc = "slot" => OpenLike(op)
  /\ pc = "opened" \/ (pc = "free" /\ op.f = "f_open") => op.slot \in 1 .. Slots
  /\ UsesFile(pc, op) => Open
  /\ op.f = "f_rename" => pc = "renamed" /\ Renaming

LEMMA HarmlessBy ==
  ASSUME NEW ws, NEW S, ws \in Seq(S), \A w \in S : w.on = "dir" => EntryLike(w.entry)
  PROVE  Harmless(ws)
BY Zenon DEF Harmless

\* The writes that calls begin.
LEMMA HarmlessWrites ==
  /\ Harmless(<<>>) /\ Harmless(write_data)
  /\ \A c, v : Harmless(write_fat_entry(c, v))
  /\ \A s, e : EntryLike(e) => Harmless(write_entry(s, e))
  /\ \A a, b : Harmless(a) /\ Harmless(b) => Harmless(a \o b)
<1>1. Harmless(<<>>)
  <2> DEFINE S == {}
  <2>1. <<>> \in Seq(S) /\ \A w \in S : w.on = "dir" => EntryLike(w.entry) OBVIOUS
  <2> HIDE DEF S
  <2> QED BY Zenon, <2>1, HarmlessBy
<1>2. \A w : <<w>> \in Seq({w}) OBVIOUS
<1>3. Harmless(write_data)
  <2> DEFINE w == [on |-> "data"]
  <2>1. w.on # "dir" BY Zenon
  <2>2. write_data = <<w>> BY Zenon DEF write_data
  <2> HIDE DEF w
  <2> DEFINE S == {w}
  <2>3. <<w>> \in Seq(S) /\ \A x \in S : x.on = "dir" => EntryLike(x.entry)
    BY Zenon, <1>2, <2>1
  <2> HIDE DEF S
  <2> QED BY Zenon, <2>2, <2>3, HarmlessBy
<1>4. ASSUME NEW s, NEW e, EntryLike(e) PROVE Harmless(write_entry(s, e))
  <2> DEFINE w == [on |-> "dir", slot |-> s, entry |-> e]
  <2>1. w.entry = e BY Zenon
  <2>2. write_entry(s, e) = <<w>> BY Zenon DEF write_entry
  <2> HIDE DEF w
  <2> DEFINE S == {w}
  <2>3. <<w>> \in Seq(S) /\ \A x \in S : x.on = "dir" => EntryLike(x.entry)
    BY Zenon, <1>2, <1>4, <2>1
  <2> HIDE DEF S
  <2> QED BY Zenon, <2>2, <2>3, HarmlessBy
<1>5. ASSUME NEW c, NEW v PROVE Harmless(write_fat_entry(c, v))
  <2> DEFINE W(k) == [on |-> "fat", copy |-> k - 1, c |-> c, v |-> v]
             S == {W(k) : k \in 1 .. NumFats}
             ws == [k \in 1 .. NumFats |-> W(k)]
  <2>1. write_fat_entry(c, v) = ws BY Zenon DEF write_fat_entry
  <2>2. \A w \in S : w.on # "dir"
    <3>1. \A k : W(k).on = "fat" BY Zenon
    <3> HIDE DEF W
    <3> QED BY Zenon, <3>1
  <2>3. \A k \in 1 .. NumFats : W(k) \in S BY Zenon
  <2> HIDE DEF W, S
  <2>4. ws \in Seq(S) BY <2>3, Fat32Assumption
  <2> QED BY Zenon, <2>1, <2>2, <2>4, HarmlessBy
<1>6. ASSUME NEW a, NEW b, Harmless(a), Harmless(b) PROVE Harmless(a \o b)
  <2>1. PICK A : a \in Seq(A) /\ \A w \in A : w.on = "dir" => EntryLike(w.entry)
    BY Zenon, <1>6 DEF Harmless
  <2>2. PICK B : b \in Seq(B) /\ \A w \in B : w.on = "dir" => EntryLike(w.entry)
    BY Zenon, <1>6 DEF Harmless
  <2>3. a \o b \in Seq(A \cup B)
    <3>1. \A x \in Seq(A), y \in Seq(B) : x \o y \in Seq(A \cup B) OBVIOUS
    <3> QED BY Zenon, <2>1, <2>2, <3>1
  <2> DEFINE C == A \cup B
  <2>4. \A w \in C : w.on = "dir" => EntryLike(w.entry) BY Zenon, <2>1, <2>2
  <2> HIDE DEF C
  <2> QED BY Zenon, <2>3, <2>4, HarmlessBy DEF C
<1> QED BY Zenon, <1>1, <1>3, <1>4, <1>5, <1>6

LEMMA HarmlessTail ==
  ASSUME Harmless(todo), todo # <<>>
  PROVE  /\ Harmless(Tail(todo)) /\ Head(todo) = todo[1]
         /\ todo[1].on = "dir" => EntryLike(todo[1].entry)
         /\ 1 \in 1 .. Len(todo) /\ Len(Tail(todo)) = Len(todo) - 1 /\ Len(todo) \in Nat
         /\ \A i \in 1 .. Len(Tail(todo)) : Tail(todo)[i] = todo[i + 1] /\ i + 1 \in 1 .. Len(todo)
<1>1. PICK S : todo \in Seq(S) /\ \A w \in S : w.on = "dir" => EntryLike(w.entry)
  BY Zenon DEF Harmless
<1>2. todo \in Seq(S) BY Zenon, <1>1
<1>3. /\ Tail(todo) \in Seq(S) /\ Head(todo) = todo[1] /\ todo[1] \in S
      /\ 1 \in 1 .. Len(todo) /\ Len(Tail(todo)) = Len(todo) - 1 /\ Len(todo) \in Nat
      /\ \A i \in 1 .. Len(Tail(todo)) : Tail(todo)[i] = todo[i + 1] /\ i + 1 \in 1 .. Len(todo)
  BY <1>2
<1> QED BY Zenon, <1>1, <1>3 DEF Harmless

\* What the calls do to the File leaves it in its slot.
Slotted(f) == "slot" \in DOMAIN f /\ f.slot \in 1 .. Slots

LEMMA SlottedLike == \A f : Slotted(f) => FileLike(f) /\ f # Closed
<1>1. "slot" \notin DOMAIN Closed BY Zenon DEF Closed
<1> QED BY Zenon, <1>1 DEF Slotted, FileLike

LEMMA OpenSlotted ==
  ASSUME RenameInv, Open \/ UsesFile(pc, op)
  PROVE  Slotted(file)
BY Zenon DEF RenameInv, FileLike, Slotted, Open

LEMMA RenameReturns ==
  ASSUME RenameInv, NEW f, FileLike(f), Return(f)
  PROVE  RenameInv'
<1>1. dir' = dir /\ file' = f /\ pc' = "idle" /\ todo' = <<>> /\ op' = NoOp
  BY Zenon DEF Return, disk
<1>2. NoOp.f # "f_rename" BY Zenon DEF NoOp
<1>3. ~UsesFile("idle", NoOp) BY Zenon DEF UsesFile
<1> QED BY Zenon, <1>1, <1>2, <1>3, HarmlessWrites DEF RenameInv

LEMMA RenameGoes ==
  ASSUME RenameInv, NEW p, NEW ws, Goes(p, ws), Harmless(ws), FileLike(file'),
         op'.f # "f_rename", p = "slot" => OpenLike(op'),
         UsesFile(p, op') => Slotted(file'),
         p = "opened" \/ (p = "free" /\ op'.f = "f_open") => op'.slot \in 1 .. Slots
  PROVE  RenameInv'
<1>1. dir' = dir /\ pc' = p /\ todo' = ws BY Zenon DEF Goes, disk
<1>2. UsesFile(p, op') => Open' BY Zenon, SlottedLike DEF Open
<1> QED BY Zenon, <1>1, <1>2 DEF RenameInv

\* The next write is made.
LEMMA RenameSector == RenameInv /\ write_sector => RenameInv'
<1> SUFFICES ASSUME RenameInv, write_sector PROVE RenameInv'
  OBVIOUS
<1> DEFINE w == todo[1]
<1>0. Harmless(todo) /\ todo # <<>> BY Zenon DEF RenameInv, write_sector
<1>1. /\ Harmless(Tail(todo)) /\ Head(todo) = w /\ (w.on = "dir" => EntryLike(w.entry))
      /\ 1 \in 1 .. Len(todo) /\ Len(Tail(todo)) = Len(todo) - 1 /\ Len(todo) \in Nat
      /\ \A i \in 1 .. Len(Tail(todo)) : Tail(todo)[i] = todo[i + 1] /\ i + 1 \in 1 .. Len(todo)
  BY Zenon, <1>0, HarmlessTail
<1>2. todo' = Tail(todo) /\ file' = file /\ pc' = pc /\ op' = op
  BY Zenon DEF write_sector
<1>3. \/ dir' = dir
      \/ w.on = "dir" /\ dir' = [dir EXCEPT ![w.slot] = w.entry]
  BY Zenon, <1>1 DEF write_sector, disk
<1>4. /\ \A s \in 1 .. Slots : s # w.slot \/ w.on # "dir" => dir'[s] = dir[s]
      /\ \A s \in 1 .. Slots : w.on = "dir" /\ s = w.slot => dir'[s] = dir[s] \/ dir'[s] = w.entry
      /\ dir' = [s \in 1 .. Slots |-> dir'[s]]
  <2>1. dir = [s \in 1 .. Slots |-> dir[s]] BY Zenon DEF RenameInv
  <2>2. CASE dir' = dir BY Zenon, <2>1, <2>2
  <2>3. CASE w.on = "dir" /\ dir' = [dir EXCEPT ![w.slot] = w.entry]
    <3> HIDE DEF w
    <3>1. DOMAIN dir = 1 .. Slots BY Zenon, <2>1
    <3> QED BY Zenon, <2>3, <3>1
  <2> QED BY Zenon, <1>3, <2>2, <2>3
<1>5. \A s \in 1 .. Slots : EntryLike(dir'[s]) BY Zenon, <1>1, <1>4 DEF RenameInv
<1>6. ASSUME op.f = "f_rename" PROVE Renaming'
  <2>1. {op.from, op.to} \subseteq Names /\ EntryLike(op.entry)
    BY Zenon, <1>6 DEF RenameInv, Renaming
  <2>2. PICK s \in 1 .. Slots :
          /\ Kept(s)
          /\ \/ \A i \in 1 .. Len(todo) : todo[i].on = "dir" /\ todo[i].slot # s
             \/ \E t \in 1 .. Slots \ {s} :
                  /\ Len(todo) = 2 /\ w.on = "dir" /\ w.slot = t
                  /\ w.entry = [op.entry EXCEPT !.name = op.to]
                  /\ todo[2].on = "dir" /\ todo[2].slot # t
    BY Zenon, <1>6 DEF RenameInv, Renaming
  <2>3. CASE \A i \in 1 .. Len(todo) : todo[i].on = "dir" /\ todo[i].slot # s
    <3>1. dir'[s] = dir[s] BY Zenon, <1>1, <1>4, <2>3
    <3>2. Kept(s)' BY Zenon, <1>2, <2>2, <3>1 DEF Kept
    <3>3. \A i \in 1 .. Len(todo') : todo'[i].on = "dir" /\ todo'[i].slot # s
      BY Zenon, <1>1, <1>2, <2>3
    <3> QED BY Zenon, <1>2, <2>1, <3>2, <3>3 DEF Renaming
  <2>4. ASSUME NEW t \in 1 .. Slots \ {s}, Len(todo) = 2, w.on = "dir", w.slot = t,
               w.entry = [op.entry EXCEPT !.name = op.to],
               todo[2].on = "dir", todo[2].slot # t
        PROVE  Renaming'
    <3>1. dir' = [dir EXCEPT ![t] = w.entry]
      BY Zenon, <1>1, <2>4 DEF write_sector
    <3>2. dir'[t] = w.entry
      <4>1. DOMAIN dir = 1 .. Slots BY Zenon DEF RenameInv
      <4> QED BY Zenon, <2>4, <3>1, <4>1
    <3>3. /\ w.entry.name = op.to /\ w.entry.start = op.entry.start
          /\ w.entry.size = op.entry.size
      <4> HIDE DEF w
      <4>1. op.entry = [name |-> op.entry.name, start |-> op.entry.start, size |-> op.entry.size]
        BY Zenon, <2>1 DEF EntryLike
      <4> QED BY SMT, <2>4, <4>1
    <3>4. Kept(t)' BY Zenon, <1>2, <3>2, <3>3 DEF Kept
    <3>5. \A i \in 1 .. Len(todo') : todo'[i].on = "dir" /\ todo'[i].slot # t
      <4>1. \A i \in 1 .. Len(todo') : i + 1 = 2 BY <1>1, <1>2, <2>4
      <4> QED BY Zenon, <1>1, <1>2, <2>4, <4>1
    <3> QED BY Zenon, <1>2, <2>1, <2>4, <3>4, <3>5 DEF Renaming
  <2> QED BY Zenon, <2>2, <2>3, <2>4
<1> QED BY Zenon, <1>1, <1>2, <1>4, <1>5, <1>6 DEF RenameInv, Open

LEMMA StaysSlotted ==
  ASSUME NEW f, Slotted(f), NEW a, NEW b
  PROVE  /\ Slotted([f EXCEPT !.error = a]) /\ Slotted([f EXCEPT !.modified = a])
         /\ Slotted([f EXCEPT !.current = a])
         /\ Slotted([f EXCEPT !.start = a, !.current = a])
         /\ Slotted([f EXCEPT !.size = a, !.modified = b])
         /\ Slotted([f EXCEPT !.modified = a, !.size = b])
BY Zenon DEF Slotted

LEMMA AdvancedSlotted == Slotted(file) => Slotted(Advanced)
<1> DEFINE end == file.byte + Chunk = SECTOR_SIZE
           p == file.position + Chunk
           b == IF end THEN 0 ELSE file.byte + Chunk
           z == IF end /\ file.sec + 1 = SPC THEN 0 ELSE IF end THEN file.sec + 1 ELSE file.sec
<1>1. Advanced = [file EXCEPT !.position = p, !.byte = b, !.sec = z] BY Zenon DEF Advanced
<1> HIDE DEF p, b, z
<1> QED BY Zenon, <1>1 DEF Slotted

LEMMA RenameFails == RenameInv /\ Fails => RenameInv'
<1> SUFFICES ASSUME RenameInv, Fails PROVE RenameInv'
  OBVIOUS
<1>1. CASE Open
  <2>1. Slotted(file) BY Zenon, <1>1 DEF RenameInv, FileLike, Slotted, Open
  <2>2. Slotted([file EXCEPT !.error = TRUE]) BY Zenon, <2>1 DEF Slotted
  <2> QED BY Zenon, <1>1, <2>2, SlottedLike, RenameReturns DEF Fails
<1>2. CASE ~Open
  <2>1. FileLike(Closed) BY Zenon DEF FileLike
  <2> QED BY Zenon, <1>2, <2>1, RenameReturns DEF Fails
<1> QED BY Zenon, <1>1, <1>2

LEMMA RenameCloses == RenameInv /\ Return(Closed) => RenameInv'
<1>1. FileLike(Closed) BY Zenon DEF FileLike
<1> QED BY Zenon, <1>1, RenameReturns

LEMMA RenameLeaves == RenameInv /\ Return(file) => RenameInv'
BY Zenon, RenameReturns DEF RenameInv

\* Any other call or step goes on.
LEMMA RenameGoesOn ==
  ASSUME RenameInv, pc # "renamed", op' = op, NEW p, NEW ws, Goes(p, ws), Harmless(ws),
         p \notin {"slot", "opened", "free"}, Slotted(file')
  PROVE  RenameInv'
<1>1. op'.f # "f_rename" BY Zenon DEF RenameInv
<1> QED BY Zenon, <1>1, SlottedLike, RenameGoes

\* The rename itself.
LEMMA RenameBegins ==
  ASSUME RenameInv, NEW o \in Names, NEW n \in Names, f_rename(o, n)
  PROVE  RenameInv'
<1>1. PICK s \in 1 .. Slots : s = SlotOf(o) /\ dir[s].name = o BY Zenon, SlotOfFound DEF f_rename
<1>2. PICK t \in 1 .. Slots : t = FirstSlot /\ dir[t].name \in {"free", "deleted"}
  BY Zenon, FirstSlotUsable DEF f_rename
<1> DEFINE e == dir[s]
           x == [on |-> "dir", slot |-> t, entry |-> [e EXCEPT !.name = n]]
           y == [on |-> "dir", slot |-> s, entry |-> [e EXCEPT !.name = "deleted"]]
<1>3. s # t BY Zenon, <1>1, <1>2, Fat32Assumption
<1>4. /\ dir' = dir /\ file' = file /\ pc' = "renamed" /\ todo' = <<x>> \o <<y>>
      /\ op' = [f |-> "f_rename", from |-> o, to |-> n, entry |-> e]
  BY Zenon, <1>1, <1>2 DEF f_rename, Goes, disk, write_entry
<1>5. EntryLike(e) BY Zenon, <1>1 DEF RenameInv
<1>6. EntryLike([e EXCEPT !.name = n]) /\ EntryLike([e EXCEPT !.name = "deleted"])
  <2>1. e = [name |-> e.name, start |-> e.start, size |-> e.size] BY Zenon, <1>5 DEF EntryLike
  <2> HIDE DEF e
  <2> QED BY SMT, <2>1 DEF EntryLike
<1>7. /\ op'.f = "f_rename" /\ op'.from = o /\ op'.to = n /\ op'.entry = e
  <2> HIDE DEF e
  <2> QED BY Zenon, <1>4
<1>8. Harmless(<<x>> \o <<y>>)
  <2>1. Harmless(<<x>>) /\ Harmless(<<y>>) BY Zenon, <1>6, HarmlessWrites DEF write_entry
  <2> QED BY Zenon, <2>1, HarmlessWrites
<1>9. x.on = "dir" /\ x.slot = t /\ x.entry = [e EXCEPT !.name = n]
      /\ y.on = "dir" /\ y.slot = s
  <2> HIDE DEF e
  <2> QED BY Zenon
<1> HIDE DEF x, y
<1>10. Len(<<x>> \o <<y>>) = 2 /\ (<<x>> \o <<y>>)[1] = x /\ (<<x>> \o <<y>>)[2] = y
  OBVIOUS
<1> HIDE DEF e
<1>11. Renaming'
  <2>1. Kept(s)' BY Zenon, <1>1, <1>4, <1>7 DEF Kept, e
  <2>2. /\ Len(todo') = 2 /\ todo'[1].on = "dir" /\ todo'[1].slot = t
        /\ todo'[1].entry = [op'.entry EXCEPT !.name = op'.to]
        /\ todo'[2].on = "dir" /\ todo'[2].slot # t
    BY Zenon, <1>3, <1>4, <1>7, <1>9, <1>10
  <2>3. {op'.from, op'.to} \subseteq Names /\ EntryLike(op'.entry) BY Zenon, <1>5, <1>7
  <2> QED BY Zenon, <1>1, <1>2, <1>3, <2>1, <2>2, <2>3 DEF Renaming
<1>12. ~UsesFile(pc', op') BY Zenon, <1>4 DEF UsesFile
<1> QED BY Zenon, <1>4, <1>7, <1>8, <1>11, <1>12 DEF RenameInv

LEMMA RenameOpens ==
  ASSUME RenameInv, NEW n \in Names, NEW m \in Modes,
         f_open_existing(n, m) \/ f_open_create(n, m) \/ f_open_always(n)
  PROVE  RenameInv'
<1>1. CASE f_open_existing(n, m)
  <2> DEFINE g == HandleOf(SlotOf(n), m, dir[SlotOf(n)].start, dir[SlotOf(n)].size,
                           dir[SlotOf(n)].start, FALSE)
  <2>1. Return(g) /\ SlotOf(n) \in 1 .. Slots BY Zenon, <1>1, SlotOfFound DEF f_open_existing
  <2>2. Slotted(g) BY Zenon, <2>1 DEF Slotted, HandleOf
  <2> HIDE DEF g
  <2> QED BY Zenon, <2>1, <2>2, SlottedLike, RenameReturns
<1>2. CASE f_open_create(n, m)
  <2>1. /\ Goes("slot", write_fat_entry(FirstFree, EOC)) /\ file' = file
        /\ op' = [f |-> "f_open", name |-> n, mode |-> m, slot |-> 0]
    BY Zenon, <1>2 DEF f_open_create
  <2>2. op'.f = "f_open" /\ OpenLike(op') BY Zenon, <2>1 DEF OpenLike
  <2>3. Harmless(write_fat_entry(FirstFree, EOC)) /\ FileLike(file') /\ ~UsesFile("slot", op')
    BY Zenon, <2>1, HarmlessWrites DEF RenameInv, UsesFile
  <2> QED BY Zenon, <2>1, <2>2, <2>3, RenameGoes
<1>3. CASE f_open_always(n)
  <2>1. /\ Goes("free", <<>>) /\ file' = file /\ SlotOf(n) \in 1 .. Slots
        /\ op' = [f |-> "f_open", slot |-> SlotOf(n)]
    BY Zenon, <1>3, SlotOfFound DEF f_open_always
  <2>2. op'.f = "f_open" /\ op'.slot \in 1 .. Slots BY Zenon, <2>1
  <2>3. Harmless(<<>>) /\ FileLike(file') /\ ~UsesFile("free", op')
    BY Zenon, <2>1, <2>2, HarmlessWrites DEF RenameInv, UsesFile
  <2> QED BY Zenon, <2>1, <2>2, <2>3, RenameGoes
<1> QED BY Zenon, <1>1, <1>2, <1>3

LEMMA RenameUnlink ==
  ASSUME RenameInv, NEW n \in Names, f_unlink(n)
  PROVE  RenameInv'
<1> DEFINE s == SlotOf(n)
           e == dir[s]
           d == [e EXCEPT !.name = "deleted"]
<1>1. /\ Goes("free", write_entry(s, d)) /\ file' = file /\ s \in 1 .. Slots
      /\ op' = [f |-> "f_unlink"]
  BY Zenon, SlotOfFound DEF f_unlink
<1>2. e = [name |-> e.name, start |-> e.start, size |-> e.size]
  BY Zenon, <1>1 DEF RenameInv, EntryLike
<1>3. EntryLike(d)
  <2> HIDE DEF e
  <2> QED BY SMT, <1>2 DEF EntryLike
<1> HIDE DEF d
<1>4. Harmless(write_entry(s, d)) /\ FileLike(file') /\ op'.f = "f_unlink"
  BY Zenon, <1>1, <1>3, HarmlessWrites DEF RenameInv
<1>5. ~UsesFile("free", op') BY Zenon, <1>4 DEF UsesFile
<1> QED BY Zenon, <1>1, <1>4, <1>5, RenameGoes

LEMMA RecordedLike ==
  ASSUME NEW e, EntryLike(e), NEW c, NEW z
  PROVE  EntryLike([e EXCEPT !.start = c, !.size = z])
<1> DEFINE d == [e EXCEPT !.start = c]
           g == [d EXCEPT !.size = z]
<1>1. e = [name |-> e.name, start |-> e.start, size |-> e.size] BY Zenon DEF EntryLike
<1>2. d = [name |-> d.name, start |-> d.start, size |-> d.size] BY SMT, <1>1
<1>3. [e EXCEPT !.start = c, !.size = z] = g OBVIOUS
<1> HIDE DEF d
<1>4. EntryLike(g) BY SMT, <1>2 DEF EntryLike
<1> QED BY Zenon, <1>3, <1>4 DEF d

LEMMA RenameSync ==
  ASSUME RenameInv, f_sync
  PROVE  RenameInv'
<1> DEFINE s == file.slot
           c == file.start
           z == file.size
           e == dir[s]
           d == [e EXCEPT !.start = c, !.size = z]
           ws == write_entry(s, d)
<1>1. Goes("synced", ws) /\ Slotted(file') /\ op' = op /\ pc # "renamed"
  BY Zenon, OpenSlotted DEF f_sync, Idle
<1>2. s \in 1 .. Slots BY Zenon, OpenSlotted DEF f_sync, Slotted
<1>3. e = [name |-> e.name, start |-> e.start, size |-> e.size]
  BY Zenon, <1>2 DEF RenameInv, EntryLike
<1>4. EntryLike(d)
  <2>1. EntryLike(e) BY Zenon, <1>3 DEF EntryLike
  <2> HIDE DEF c, z, e
  <2> QED BY Zenon, <2>1, RecordedLike
<1> HIDE DEF d
<1>5. Harmless(ws) BY Zenon, <1>4, HarmlessWrites
<1> HIDE DEF ws
<1> QED BY Zenon, <1>1, <1>5, RenameGoesOn

LEMMA RenameSeek ==
  ASSUME RenameInv, NEW o, f_lseek(o)
  PROVE  RenameInv'
<1> DEFINE n == o \div ClusterSize
           to == Nth(file.start, n)
           z == (o % ClusterSize) \div SECTOR_SIZE
           b == o % SECTOR_SIZE
           g == [file EXCEPT !.current = to, !.position = o, !.sec = z, !.byte = b]
           h == [file EXCEPT !.current = 0, !.position = n, !.sec = 0, !.byte = 0]
<1>1. Return(g) \/ Return(h) BY Zenon DEF f_lseek
<1>2. Slotted(file) BY Zenon, OpenSlotted DEF f_lseek, Ready
<1> HIDE DEF to, n, z, b
<1>3. Slotted(g) /\ Slotted(h) BY Zenon, <1>2 DEF Slotted
<1> HIDE DEF g, h
<1> QED BY Zenon, <1>1, <1>3, SlottedLike, RenameReturns

LEMMA RenameCalls == RenameInv /\ Call => RenameInv'
<1> SUFFICES ASSUME RenameInv, Call PROVE RenameInv'
  OBVIOUS
<1>0. Harmless(<<>>) BY Zenon, HarmlessWrites
<1>1. ASSUME NEW n \in Names, f_open_always(n) \/ f_unlink(n) PROVE RenameInv'
  <2>1. f_open_always(n) => "always" \in Modes BY Zenon DEF f_open_always
  <2> QED BY Zenon, <1>1, <2>1, RenameOpens, RenameUnlink
<1>2. ASSUME NEW n \in Names, NEW m \in Modes, f_open_existing(n, m) \/ f_open_create(n, m)
      PROVE  RenameInv'
  BY Zenon, <1>2, RenameOpens
<1>3. ASSUME NEW n \in Lens, f_read(n) PROVE RenameInv'
  <2>1. Goes("read", <<>>) /\ Slotted(file') /\ op' = op /\ pc # "renamed"
    BY Zenon, <1>3, OpenSlotted DEF f_read, Ready, Idle
  <2> QED BY Zenon, <1>0, <2>1, RenameGoesOn
<1>4. ASSUME NEW n \in Lens, f_write(n) PROVE RenameInv'
  <2>1. /\ Goes("first", <<>>) \/ Goes("data", <<>>)
        /\ Slotted(file') /\ op' = op /\ pc # "renamed"
    BY Zenon, <1>4, OpenSlotted DEF f_write, Writer, Ready, Idle
  <2> QED BY Zenon, <1>0, <2>1, RenameGoesOn
<1>5. ASSUME NEW o \in 0 .. MaxSize, f_lseek(o) PROVE RenameInv'
  BY Zenon, <1>5, RenameSeek
<1>6. ASSUME NEW o \in 0 .. MaxSize, f_expand(o) PROVE RenameInv'
  <2>1. /\ Goes("expanded", <<>>) \/ Goes("append", <<>>)
        /\ Slotted(file') /\ op' = [f |-> "f_expand", size |-> o]
    BY Zenon, <1>6, OpenSlotted DEF f_expand, Writer, Ready
  <2>2. op'.f = "f_expand" BY Zenon, <2>1
  <2> QED BY Zenon, <1>0, <2>1, <2>2, SlottedLike, RenameGoes
<1>7. ASSUME NEW o \in Names, NEW n \in Names, f_rename(o, n) PROVE RenameInv'
  BY Zenon, <1>7, RenameBegins
<1>8. CASE f_truncate
  <2>1. Goes("free", <<>>) /\ Slotted(file') /\ op' = [f |-> "f_truncate"]
    BY Zenon, <1>8, OpenSlotted DEF f_truncate, Writer, Ready
  <2>2. op'.f = "f_truncate" BY Zenon, <2>1
  <2> QED BY Zenon, <1>0, <2>1, <2>2, SlottedLike, RenameGoes
<1>9. CASE f_sync BY Zenon, <1>9, RenameSync
<1>10. CASE f_close BY Zenon, <1>10, RenameCloses DEF f_close
<1>11. CASE denied BY Zenon, <1>11, RenameFails DEF denied
<1> QED BY Zenon, <1>1, <1>2, <1>3, <1>4, <1>5, <1>6, <1>7, <1>8, <1>9, <1>10, <1>11 DEF Call

LEMMA RenameOpenSlot ==
  ASSUME RenameInv, f_open_slot
  PROVE  RenameInv'
<1> DEFINE e == [name |-> op.name, start |-> clu, size |-> dir[FirstSlot].size]
           ws == write_entry(FirstSlot, e)
<1>1. /\ Goes("opened", ws) /\ file' = file /\ op' = [op EXCEPT !.slot = FirstSlot]
      /\ FirstSlot \in 1 .. Slots /\ OpenLike(op)
  BY Zenon, FirstSlotUsable DEF f_open_slot, At, RenameInv
<1>2. EntryLike(e) BY Zenon DEF EntryLike
<1> HIDE DEF e
<1>3. Harmless(ws) /\ FileLike(file') BY Zenon, <1>1, <1>2, HarmlessWrites DEF RenameInv
<1> HIDE DEF ws
<1>4. op'.f = "f_open" /\ op'.slot = FirstSlot
  <2>1. op = [f |-> "f_open", name |-> op.name, mode |-> op.mode, slot |-> op.slot]
    BY Zenon, <1>1 DEF OpenLike
  <2> QED BY SMT, <1>1, <2>1
<1>5. ~UsesFile("opened", op') BY Zenon DEF UsesFile
<1> QED BY Zenon, <1>1, <1>3, <1>4, <1>5, RenameGoes

LEMMA RenameFree ==
  ASSUME RenameInv, free_chain \/ free_return
  PROVE  RenameInv'
<1>0. pc = "free" BY Zenon DEF free_chain, free_return, At
<1>a. op.f # "f_rename" BY Zenon, <1>0 DEF RenameInv
<1>1. CASE free_chain
  <2> DEFINE ws == write_fat_entry(clu, 0)
  <2>1. Goes("free", ws) /\ file' = file /\ op' = op BY Zenon, <1>1 DEF free_chain
  <2>2. Harmless(ws) /\ FileLike(file') BY Zenon, <2>1, HarmlessWrites DEF RenameInv
  <2>3. op.f = "f_open" => op.slot \in 1 .. Slots BY Zenon, <1>0 DEF RenameInv
  <2>4. UsesFile("free", op) => Slotted(file') BY Zenon, <1>0, <2>1, OpenSlotted
  <2> HIDE DEF ws
  <2> QED BY Zenon, <1>a, <2>1, <2>2, <2>3, <2>4, RenameGoes
<1>2. CASE op.f = "f_open" /\ Return(HandleOf(op.slot, "always", dir[op.slot].start, 0, 0, FALSE))
  <2> DEFINE g == HandleOf(op.slot, "always", dir[op.slot].start, 0, 0, FALSE)
  <2>1. op.slot \in 1 .. Slots BY Zenon, <1>0, <1>2 DEF RenameInv
  <2>2. Slotted(g) BY Zenon, <2>1 DEF Slotted, HandleOf
  <2>3. Return(g) BY Zenon, <1>2
  <2> HIDE DEF g
  <2> QED BY Zenon, <2>2, <2>3, SlottedLike, RenameReturns
<1>3. CASE Return(Closed) BY Zenon, <1>3, RenameCloses
<1>4. CASE /\ op.f = "f_truncate" /\ file' = file /\ op' = op
           /\ Goes("cut", IF file.current >= 2 THEN write_fat_entry(file.current, EOC) ELSE <<>>)
  <2>0. Slotted(file') BY Zenon, <1>0, <1>4, OpenSlotted DEF UsesFile
  <2>1. CASE file.current >= 2
    <3> DEFINE ws == write_fat_entry(file.current, EOC)
    <3>1. Goes("cut", ws) /\ Harmless(ws) BY Zenon, <1>4, <2>1, HarmlessWrites
    <3> HIDE DEF ws
    <3> QED BY Zenon, <1>0, <1>4, <2>0, <3>1, RenameGoesOn
  <2>2. CASE ~(file.current >= 2)
    <3>1. Goes("cut", <<>>) /\ Harmless(<<>>) BY Zenon, <1>4, <2>2, HarmlessWrites
    <3> QED BY Zenon, <1>0, <1>4, <2>0, <3>1, RenameGoesOn
  <2> QED BY Zenon, <2>1, <2>2
<1> QED BY Zenon, <1>1, <1>2, <1>3, <1>4 DEF free_return

\* The steps of f_read and f_write.
LEMMA RenameTransfers ==
  ASSUME RenameInv, Slotted(file),
         \/ f_read_sector \/ f_write_first \/ f_write_started \/ f_write_data
         \/ f_write_written \/ f_write_next \/ f_write_extend \/ f_write_linked
  PROVE  RenameInv'
<1>0. Harmless(<<>>) /\ Harmless(write_data) BY Zenon, HarmlessWrites
<1>a. Slotted(Advanced) BY Zenon, AdvancedSlotted
<1>1. CASE f_read_sector
  <2>1. pc # "renamed" /\ op' = op /\ Goes("read", <<>>) BY Zenon, <1>1 DEF f_read_sector, At
  <2>2. \A c : Slotted([Advanced EXCEPT !.current = c]) BY Zenon, <1>a DEF Slotted
  <2>3. \/ file' = Advanced \/ file' = [Advanced EXCEPT !.current = NextOf(file.current)]
        \/ file' = [Advanced EXCEPT !.current = 0]
    BY Zenon, <1>1 DEF f_read_sector
  <2>4. Slotted(file') BY Zenon, <1>a, <2>2, <2>3
  <2> QED BY Zenon, <1>0, <2>1, <2>4, RenameGoesOn
<1>2. CASE f_write_first
  <2> DEFINE ws == write_fat_entry(FirstFree, EOC)
  <2>1. pc # "renamed" /\ op' = op /\ file' = file /\ Goes("started", ws)
    BY Zenon, <1>2 DEF f_write_first, At
  <2>2. Harmless(ws) BY Zenon, HarmlessWrites
  <2> HIDE DEF ws
  <2> QED BY Zenon, <2>1, <2>2, RenameGoesOn
<1>3. CASE f_write_started
  <2>1. pc # "renamed" /\ op' = op /\ Goes("data", <<>>) BY Zenon, <1>3 DEF f_write_started, At
  <2>2. Slotted(file') BY Zenon, <1>3, StaysSlotted DEF f_write_started
  <2> QED BY Zenon, <1>0, <2>1, <2>2, RenameGoesOn
<1>4. CASE f_write_data
  <2>1. pc # "renamed" /\ op' = op /\ file' = file /\ Goes("written", write_data)
    BY Zenon, <1>4 DEF f_write_data, At
  <2> QED BY Zenon, <1>0, <2>1, RenameGoesOn
<1>5. CASE f_write_written
  <2>1. pc # "renamed" /\ op' = op /\ (Goes("advance", <<>>) \/ Goes("data", <<>>))
    BY Zenon, <1>5 DEF f_write_written, At
  <2>2. Slotted(file') BY Zenon, <1>5, <1>a, StaysSlotted DEF f_write_written
  <2> QED BY Zenon, <1>0, <2>1, <2>2, RenameGoesOn
<1>6. CASE f_write_next
  <2>1. pc # "renamed" /\ op' = op /\ Goes("data", <<>>) BY Zenon, <1>6 DEF f_write_next, At
  <2>2. Slotted(file') BY Zenon, <1>6, StaysSlotted DEF f_write_next
  <2> QED BY Zenon, <1>0, <2>1, <2>2, RenameGoesOn
<1>7. CASE f_write_extend
  <2> DEFINE ws == write_fat_entry(FirstFree, EOC) \o write_fat_entry(file.current, FirstFree)
  <2>1. pc # "renamed" /\ op' = op /\ file' = file /\ Goes("linked", ws)
    BY Zenon, <1>7 DEF f_write_extend, At
  <2>2. Harmless(ws) BY Zenon, HarmlessWrites
  <2> HIDE DEF ws
  <2> QED BY Zenon, <2>1, <2>2, RenameGoesOn
<1>8. CASE f_write_linked
  <2>1. pc # "renamed" /\ op' = op /\ Goes("data", <<>>) BY Zenon, <1>8 DEF f_write_linked, At
  <2>2. Slotted(file') BY Zenon, <1>8, StaysSlotted DEF f_write_linked
  <2> QED BY Zenon, <1>0, <2>1, <2>2, RenameGoesOn
<1> QED BY Zenon, <1>1, <1>2, <1>3, <1>4, <1>5, <1>6, <1>7, <1>8

LEMMA RenameExpands ==
  ASSUME RenameInv, Slotted(file), f_expand_append \/ f_expand_next
  PROVE  RenameInv'
<1>1. CASE f_expand_append
  <2> DEFINE a == write_fat_entry(FirstFree, EOC)
             b == IF clu = 0 THEN <<>> ELSE write_fat_entry(clu, FirstFree)
             ws == a \o b
  <2>1. pc # "renamed" /\ op' = op /\ Slotted(file') /\ Goes("appended", ws)
    BY Zenon, <1>1 DEF f_expand_append, At
  <2>2. Harmless(a) /\ Harmless(b) BY Zenon, HarmlessWrites
  <2>3. Harmless(ws) BY Zenon, <2>2, HarmlessWrites
  <2> HIDE DEF ws
  <2> QED BY Zenon, <2>1, <2>3, RenameGoesOn
<1>2. CASE f_expand_next
  <2> DEFINE f == IF file.start = 0 THEN [file EXCEPT !.start = clu, !.current = clu] ELSE file
  <2>1. /\ pc # "renamed" /\ op' = op
        /\ Goes("expanded", <<>>) \/ Goes("append", <<>>)
        /\ file' = IF left = 1 THEN [f EXCEPT !.size = op.size, !.modified = TRUE] ELSE f
    BY Zenon, <1>2 DEF f_expand_next, At
  <2>2. Slotted(f) BY Zenon, StaysSlotted
  <2> HIDE DEF f
  <2>3. Slotted(file')
    <3>1. CASE left = 1
      <4>1. file' = [f EXCEPT !.size = op.size, !.modified = TRUE] BY Zenon, <2>1, <3>1
      <4> QED BY Zenon, <2>2, <4>1, StaysSlotted
    <3>2. CASE left # 1 BY Zenon, <2>1, <2>2, <3>2
    <3> QED BY Zenon, <3>1, <3>2
  <2>4. Harmless(<<>>) BY Zenon, HarmlessWrites
  <2> QED BY Zenon, <2>1, <2>3, <2>4, RenameGoesOn
<1> QED BY Zenon, <1>1, <1>2

\* The calls that return with a File.
LEMMA RenameReturned ==
  ASSUME RenameInv, f_open_return \/ f_sync_return \/ f_truncate_return
  PROVE  RenameInv'
<1>1. CASE f_open_return
  <2> DEFINE g == HandleOf(op.slot, op.mode, clu, 0, clu, TRUE)
  <2>1. Return(g) /\ op.slot \in 1 .. Slots BY Zenon, <1>1 DEF f_open_return, At, RenameInv
  <2>2. Slotted(g) BY Zenon, <2>1 DEF Slotted, HandleOf
  <2> HIDE DEF g
  <2> QED BY Zenon, <2>1, <2>2, SlottedLike, RenameReturns
<1>2. CASE f_sync_return
  <2> DEFINE g == [file EXCEPT !.modified = FALSE]
  <2>1. Return(g) /\ UsesFile(pc, op) BY Zenon, <1>2 DEF f_sync_return, At, UsesFile
  <2>2. Slotted(g) BY Zenon, <2>1, OpenSlotted, StaysSlotted
  <2> HIDE DEF g
  <2> QED BY Zenon, <2>1, <2>2, SlottedLike, RenameReturns
<1>3. CASE f_truncate_return
  <2> DEFINE g == [file EXCEPT !.size = file.position, !.modified = TRUE]
  <2>1. Return(g) /\ UsesFile(pc, op) BY Zenon, <1>3 DEF f_truncate_return, At, UsesFile
  <2>2. Slotted(g) BY Zenon, <2>1, OpenSlotted, StaysSlotted
  <2> HIDE DEF g
  <2> QED BY Zenon, <2>1, <2>2, SlottedLike, RenameReturns
<1> QED BY Zenon, <1>1, <1>2, <1>3

LEMMA RenameSteps == RenameInv /\ Step => RenameInv'
<1> SUFFICES ASSUME RenameInv, Step PROVE RenameInv'
  OBVIOUS
<1>1. CASE write_sector BY Zenon, <1>1, RenameSector
<1>2. CASE f_open_slot BY Zenon, <1>2, RenameOpenSlot
<1>3. CASE free_chain \/ free_return BY Zenon, <1>3, RenameFree
<1>4. CASE f_open_return \/ f_sync_return \/ f_truncate_return BY Zenon, <1>4, RenameReturned
<1>5. CASE f_open_full \/ f_write_full \/ f_expand_full
  BY Zenon, <1>5, RenameFails DEF f_open_full, f_write_full, f_expand_full
<1>6. CASE f_read_return \/ f_write_return \/ f_expand_return
  BY Zenon, <1>6, RenameLeaves DEF f_read_return, f_write_return, f_expand_return
<1>7. CASE f_rename_return BY Zenon, <1>7, RenameCloses DEF f_rename_return
<1>8. CASE \/ f_read_sector \/ f_write_first \/ f_write_started \/ f_write_data
           \/ f_write_written \/ f_write_next \/ f_write_extend \/ f_write_linked
  <2>1. UsesFile(pc, op)
    BY Zenon, <1>8
    DEF f_read_sector, f_write_first, f_write_started, f_write_data, f_write_written,
        f_write_next, f_write_extend, f_write_linked, At, UsesFile
  <2> QED BY Zenon, <1>8, <2>1, OpenSlotted, RenameTransfers
<1>9. CASE f_expand_append \/ f_expand_next
  <2>1. UsesFile(pc, op) BY Zenon, <1>9 DEF f_expand_append, f_expand_next, At, UsesFile
  <2> QED BY Zenon, <1>9, <2>1, OpenSlotted, RenameExpands
<1> QED BY Zenon, <1>1, <1>2, <1>3, <1>4, <1>5, <1>6, <1>7, <1>8, <1>9 DEF Step

LEMMA RenameInit == Init => RenameInv
<1> SUFFICES ASSUME Init PROVE RenameInv
  OBVIOUS
<1>1. file = Closed /\ pc = "idle" /\ op = NoOp /\ todo = <<>> BY Zenon DEF Init
<1>2. NoOp.f # "f_rename" BY Zenon DEF NoOp
<1>3. PICK first : dir = [s \in 1 .. Slots |->
                            [name |-> IF s = 1 THEN first ELSE "free", start |-> 0, size |-> 0]]
  BY Zenon DEF Init
<1>4. dir = [s \in 1 .. Slots |-> dir[s]] /\ \A s \in 1 .. Slots : EntryLike(dir[s])
  BY Zenon, <1>3 DEF EntryLike
<1>5. ~UsesFile("idle", NoOp) /\ FileLike(Closed) BY Zenon DEF UsesFile, FileLike
<1> QED BY Zenon, <1>1, <1>2, <1>4, <1>5, HarmlessWrites DEF RenameInv

LEMMA RenameNext == RenameInv /\ [Next]_vars => RenameInv'
<1> SUFFICES ASSUME RenameInv, [Next]_vars PROVE RenameInv'
  OBVIOUS
<1>1. CASE Call BY Zenon, <1>1, RenameCalls
<1>2. CASE Step BY Zenon, <1>2, RenameSteps
<1>3. CASE write_fails BY Zenon, <1>3, RenameFails DEF write_fails
<1>4. CASE f_read_fails BY Zenon, <1>4, RenameFails DEF f_read_fails
<1>5. CASE crash BY Zenon, <1>5, RenameCloses DEF crash
<1>6. CASE UNCHANGED vars
  <2>1. dir' = dir /\ file' = file /\ pc' = pc /\ op' = op /\ todo' = todo
    BY Zenon, <1>6 DEF vars
  <2>2. Renaming => Renaming' BY Zenon, <2>1 DEF Renaming, Kept
  <2> QED BY Zenon, <2>1, <2>2 DEF RenameInv, Open
<1> QED BY Zenon, <1>1, <1>2, <1>3, <1>4, <1>5, <1>6 DEF Next

\* Whatever clients do, and wherever f_rename fails or the machine stops: the
\* file it renames has an entry in use, under the old name or the new one, with
\* its chain and its size.
THEOREM RenameNeverLosesHolds == Spec => []RenameNeverLoses
<1>1. RenameInv => RenameNeverLoses
  BY Zenon DEF RenameInv, Renaming, Kept, RenameNeverLoses, Live
<1> QED BY <1>1, RenameInit, RenameNext, PTL DEF Spec

=============================================================================
