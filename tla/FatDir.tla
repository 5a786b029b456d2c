------------------------------ MODULE FatDir ------------------------------
(***************************************************************************)
(* The directory tree of the FAT32 driver, src/hal/fat32.rs: path          *)
(* resolution, 8.3 names, directory entries, reading a directory, the      *)
(* volume label and the current directory.                                 *)
(*                                                                         *)
(* Calls are atomic (Fat32 shows their writes one by one) and every        *)
(* directory and file has one cluster: the driver never extends a          *)
(* directory.  Clusters keep their contents when they are freed.  Letters  *)
(* are compared without regard to case, so one symbol stands for both.     *)
(***************************************************************************)
EXTENDS Naturals, FiniteSets, Sequences

CONSTANTS
  MaxCluster,      \* clusters are 2..MaxCluster - 1
  SlotCount,       \* entries of a directory
  BaseLen, ExtLen, \* 8 and 3
  Letters,         \* what names and patterns are made of
  Paths,           \* paths clients use: [comps, slash]
  Labels,
  Patterns,        \* what f_findfirst is given
  Calls,           \* calls clients make
  WellFormed       \* clients keep to files and empty directories

ASSUME FatDirAssumption ==
  /\ {MaxCluster, SlotCount, BaseLen, ExtLen} \subseteq Nat
  /\ MaxCluster > 2 /\ SlotCount >= 2
  /\ "." \in Letters
  /\ \A p \in Paths : p.comps \in Seq(Seq(Letters)) \ {<<>>} /\ p.slash \in BOOLEAN
  /\ Labels \cup Patterns \subseteq Seq(Letters)

VARIABLES
  used,            \* clusters in use
  content,         \* per cluster: its directory entries
  cwd,             \* CWD_PATH, as components
  it,              \* an open Dir, or NoDir
  ret              \* the last call, its argument, and whether it succeeded

vars == <<used, content, cwd, it, ret>>

Clusters == 2 .. MaxCluster - 1
ROOT     == 2
SlotNrs  == 1 .. SlotCount
NoDir    == [dir |-> 0]
Dot      == <<".">>
DotDot   == <<".", ".">>

Blank == [state |-> "free", base |-> <<>>, ext |-> <<>>, attr |-> "file", start |-> 0]
Empty == [s \in SlotNrs |-> Blank]

-----------------------------------------------------------------------------
Take(s, n) == SubSeq(s, 1, IF Len(s) < n THEN Len(s) ELSE n)
Dots(s)    == {i \in 1 .. Len(s) : s[i] = "."}
HasExt(s)  == Dots(s) # {}
FirstDot(s) == CHOOSE i \in Dots(s) : \A j \in Dots(s) : i <= j

\* The 11 bytes f_open and f_rename store for a name.
BaseOf(s) == Take(IF HasExt(s) THEN SubSeq(s, 1, FirstDot(s) - 1) ELSE s, BaseLen)
ExtOf(s)  == IF HasExt(s) THEN Take(SubSeq(s, FirstDot(s) + 1, Len(s)), ExtLen)
             ELSE <<>>

\* f_mkdir clears the old extension only of a long name or one with a dot.
MkdirExt(s, old) == IF HasExt(s) THEN ExtOf(s)
                    ELSE IF Len(s) > BaseLen THEN <<>> ELSE old

\* read_dir_entry_name
Text(e) == IF e.ext = <<>> THEN e.base ELSE e.base \o Dot \o e.ext

IsPrefixOf(s, t) == Len(s) <= Len(t) /\ SubSeq(t, 1, Len(s)) = s

\* An entry that is not deleted, not the volume label, and has a name.
Named(e) == e.state = "live" /\ e.attr # "volume" /\ Text(e) # <<>>

\* Mutant: the last byte of an exact match is not reached.
MatchesStrict(e, target) ==
  Named(e) /\ IsPrefixOf(target, Text(e)) /\ target # Text(e)

\* An entry find_entry_in_dir takes for the target: comparison stops at the
\* end of the target, and an empty target is the start of every name.
Matches(e, target) == Named(e) /\ IsPrefixOf(target, Text(e))

\* find_entry_in_dir: the first match before the first unused slot, or 0.
Hits(d, target) ==
  {s \in SlotNrs : Matches(content[d][s], target)
                     /\ \A t \in 1 .. s : content[d][t].state # "free"}
Find(d, target) ==
  IF Hits(d, target) = {} THEN 0
  ELSE CHOOSE s \in Hits(d, target) : \A t \in Hits(d, target) : s <= t

\* resolve_path: the cluster of the last directory and the last component; 0
\* when a component is missing.  Entries on the way need not be directories.
Walk(comps, n) ==
  LET at[i \in 0 .. Len(comps)] ==
        IF i = 0 THEN ROOT
        ELSE IF at[i - 1] \notin Clusters THEN 0
        ELSE LET s == Find(at[i - 1], comps[i])
             IN  IF s = 0 THEN 0 ELSE content[at[i - 1]][s].start
  IN  at[n]
Parent(p)   == Walk(p.comps, IF p.slash THEN Len(p.comps) ELSE Len(p.comps) - 1)
LastName(p) == IF p.slash THEN <<>> ELSE p.comps[Len(p.comps)]
Resolves(p) == Parent(p) # 0

SlotOf(p)  == Find(Parent(p), LastName(p))
EntryOf(p) == content[Parent(p)][SlotOf(p)]
Exists(p)  == Resolves(p) /\ SlotOf(p) # 0

FreeClusters == Clusters \ used
FirstFree    == CHOOSE c \in FreeClusters : \A d \in FreeClusters : c <= d

Usable(d)    == {s \in SlotNrs : content[d][s].state # "live"}
FirstSlot(d) == CHOOSE s \in Usable(d) : \A t \in Usable(d) : s <= t

Put(d, s, e) == [content EXCEPT ![d][s] = e]

-----------------------------------------------------------------------------
Init ==
  /\ used = {ROOT} /\ content = [c \in Clusters |-> Empty]
  /\ cwd = <<>> /\ it = NoDir /\ ret = [f |-> "f_mount"]

Returns(f, arg) == ret' = [f |-> f, arg |-> arg]

\* A path whose directories are directories.
Traverses(p) ==
  \A n \in 1 .. Len(p.comps) - (IF p.slash THEN 0 ELSE 1) :
    LET d == Walk(p.comps, n - 1) IN
      d # 0 /\ Find(d, p.comps[n]) # 0 => content[d][Find(d, p.comps[n])].attr = "dir"

\* The name is new and there is a cluster for it.
Creatable(p) ==
  /\ Resolves(p) /\ SlotOf(p) = 0 /\ FreeClusters # {}
  /\ WellFormed => Traverses(p) /\ LastName(p) # <<>>

\* The names f_mkdir takes.
MkdirName(p) == Len(LastName(p)) \in 1 .. BaseLen + ExtLen

Creates(f, p) ==
  /\ f \in Calls /\ Creatable(p) /\ Usable(Parent(p)) # {}
  /\ used' = used \cup {FirstFree}
  /\ Returns(f, p)
  /\ UNCHANGED <<cwd, it>>

\* f_open with FA_CREATE_NEW and f_close: mk, and cp of an empty file.
f_open_new(p) ==
  /\ Creates("f_open", p)
  /\ content' = Put(Parent(p), FirstSlot(Parent(p)),
       [state |-> "live", base |-> BaseOf(LastName(p)), ext |-> ExtOf(LastName(p)),
        attr |-> "file", start |-> FirstFree])

\* Mutant: ".." names the new directory itself.
NewDirSelf(c, parent) ==
  [Empty EXCEPT
     ![1] = [Blank EXCEPT !.state = "live", !.base = Dot, !.attr = "dir", !.start = c],
     ![2] = [Blank EXCEPT !.state = "live", !.base = DotDot, !.attr = "dir", !.start = c]]

NewDir(c, parent) ==
  [Empty EXCEPT
     ![1] = [Blank EXCEPT !.state = "live", !.base = Dot, !.attr = "dir", !.start = c],
     ![2] = [Blank EXCEPT !.state = "live", !.base = DotDot, !.attr = "dir", !.start = parent]]

f_mkdir(p) ==
  /\ Creates("f_mkdir", p) /\ MkdirName(p)
  /\ LET d == Parent(p)
         s == FirstSlot(d)
     IN  content' = [Put(d, s,
           [state |-> "live", base |-> BaseOf(LastName(p)),
            ext |-> MkdirExt(LastName(p), content[d][s].ext),
            attr |-> "dir", start |-> FirstFree])
           EXCEPT ![FirstFree] = NewDir(FirstFree, d)]

\* No slot: the cluster stays taken.
create_full(f, p) ==
  /\ f \in Calls /\ Creatable(p) /\ Usable(Parent(p)) = {}
  /\ used' = used \cup {FirstFree}
  /\ f = "f_mkdir" => MkdirName(p)
  /\ content' = IF f = "f_mkdir"
                THEN [content EXCEPT ![FirstFree] = NewDir(FirstFree, Parent(p))]
                ELSE content
  /\ Returns("full", p) /\ UNCHANGED <<cwd, it>>

\* The open Dir once slot s of d is no longer what it was at f_opendir
\* (auxiliary).
Gone(d, s) == IF it.dir = d THEN [it EXCEPT !.kept = @ \ {s}] ELSE it

IsEmptyDir(c) == \A s \in SlotNrs : content[c][s].state = "live" =>
                   content[c][s].base \in {Dot, DotDot}

\* Mutant: the chain is not freed.
UnlinkedKeep(p) == used
Unlinked(p) == used \ {EntryOf(p).start}

\* f_unlink frees the entry's cluster, whatever a directory still holds.
f_unlink(p) ==
  /\ "f_unlink" \in Calls /\ Exists(p) /\ LastName(p) # <<>>
  /\ WellFormed => /\ Traverses(p) /\ LastName(p) \notin {Dot, DotDot}
                   /\ EntryOf(p).attr = "dir" => IsEmptyDir(EntryOf(p).start)
                   /\ it.dir # EntryOf(p).start
  /\ content' = Put(Parent(p), SlotOf(p), [EntryOf(p) EXCEPT !.state = "deleted"])
  /\ used' = Unlinked(p)
  /\ it' = Gone(Parent(p), SlotOf(p))
  /\ Returns("f_unlink", p) /\ UNCHANGED cwd

\* f_rename puts the entry under the new name, then deletes the old one.
f_rename(p, q) ==
  /\ "f_rename" \in Calls /\ Exists(p)
  /\ Resolves(q) /\ LastName(q) # <<>> /\ SlotOf(q) = 0 /\ Usable(Parent(q)) # {}
  /\ WellFormed => Traverses(p) /\ Traverses(q) /\ LastName(p) \notin {<<>>, Dot, DotDot}
                     /\ (EntryOf(p).attr = "dir" => Parent(p) = Parent(q))
  /\ content' = [Put(Parent(q), FirstSlot(Parent(q)),
                     [EntryOf(p) EXCEPT !.base = BaseOf(LastName(q)), !.ext = ExtOf(LastName(q))])
                 EXCEPT ![Parent(p)][SlotOf(p)].state = "deleted"]
  /\ it' = Gone(Parent(p), SlotOf(p))
  /\ Returns("f_rename", p) /\ UNCHANGED <<used, cwd>>

-----------------------------------------------------------------------------
\* match_pattern and match_pattern_inner: from[p] has the places of the name from
\* which the symbols after the p-th match the rest.  A star tries the places up
\* to the end of the name or to BaseLen + ExtLen, and a pattern that is used up
\* has to meet the end of the name.
match_pattern(name, pat) ==
  LET limit == IF Len(name) < BaseLen + ExtLen THEN Len(name) ELSE BaseLen + ExtLen
      from[p \in 0 .. Len(pat)] ==
        IF p = Len(pat) THEN {Len(name)}
        ELSE {n \in 0 .. Len(name) :
                IF pat[p + 1] = "*" THEN \E k \in {n} \cup n .. limit : k \in from[p + 1]
                ELSE /\ n < Len(name) /\ pat[p + 1] \in {"?", name[n + 1]}
                     /\ n + 1 \in from[p + 1]}
  IN  pat = <<>> \/ 0 \in from[0]

\* f_opendir opens the directory the path's last component is in.
Opened(p, pattern) ==
  /\ "f_opendir" \in Calls /\ it = NoDir /\ Resolves(p) /\ (WellFormed => Traverses(p))
  /\ it' = [dir |-> Parent(p), next |-> 1, ended |-> FALSE, pattern |-> pattern, seen |-> {},
            kept |-> {s \in SlotNrs : content[Parent(p)][s].state = "live"}]
  /\ UNCHANGED <<used, content, cwd>>

f_opendir(p)           == Opened(p, <<>>) /\ Returns("f_opendir", p)
f_findfirst(p, pattern) ==
  Opened(p, Take(pattern, BaseLen + ExtLen)) /\ Returns("f_findfirst", p)

\* Mutant: a deleted entry ends the directory.
EndsAtDeleted(d, s) == s \in SlotNrs => content[d][s].state # "live"

Ends(d, s) == s \in SlotNrs => content[d][s].state = "free"

\* f_readdir steps over deleted entries, the volume label, and names that the
\* pattern does not match.
NextMatch(d, next, pattern) ==
  LET from == {s \in next .. SlotCount + 1 :
                 Ends(d, s) \/ (Named(content[d][s]) /\ match_pattern(Text(content[d][s]), pattern))}
  IN  CHOOSE s \in from : \A t \in from : s <= t
NextSlot(d, next) == NextMatch(d, next, <<>>)

\* f_findnext is f_readdir.
f_readdir ==
  /\ it # NoDir /\ ~it.ended
  /\ LET s == NextMatch(it.dir, it.next, it.pattern)
     IN  it' = IF Ends(it.dir, s) THEN [it EXCEPT !.ended = TRUE]
               ELSE [it EXCEPT !.next = s + 1, !.seen = @ \cup {s}]
  /\ ret' = [f |-> "f_readdir"] /\ UNCHANGED <<used, content, cwd>>

f_closedir ==
  /\ it # NoDir /\ it' = NoDir
  /\ ret' = [f |-> "f_closedir"] /\ UNCHANGED <<used, content, cwd>>

-----------------------------------------------------------------------------
\* f_setlabel: the first unused slot, unless a deleted one comes before it,
\* or the label that is there; a deleted slot is only remembered.
LabelSlots ==
  {s \in SlotNrs :
     \/ /\ content[ROOT][s].state = "free"
        /\ \A t \in 1 .. s - 1 : content[ROOT][t].state # "deleted"
     \/ content[ROOT][s].state = "live" /\ content[ROOT][s].attr = "volume"}

f_setlabel(l) ==
  /\ "f_setlabel" \in Calls
  /\ content' =
       IF LabelSlots = {} THEN content
       ELSE Put(ROOT, CHOOSE s \in LabelSlots : \A t \in LabelSlots : s <= t,
                [Blank EXCEPT !.state = "live", !.base = l, !.attr = "volume"])
  /\ Returns("f_setlabel", l) /\ UNCHANGED <<used, cwd, it>>

\* What f_getlabel returns.
Label ==
  LET hits == {s \in SlotNrs : /\ content[ROOT][s].state = "live"
                               /\ content[ROOT][s].attr = "volume"
                               /\ \A t \in 1 .. s : content[ROOT][t].state # "free"}
  IN  IF hits = {} THEN <<>>
      ELSE content[ROOT][CHOOSE s \in hits : \A t \in hits : s <= t].base

\* f_chdir: CWD_PATH is cleared, so a relative path is appended to nothing.
f_chdir(p, absolute) ==
  /\ "f_chdir" \in Calls /\ Resolves(p)
  /\ cwd' = p.comps
  /\ ret' = [f |-> "f_chdir", arg |-> p, absolute |-> absolute, from |-> cwd]
  /\ UNCHANGED <<used, content, it>>

Next ==
  \/ \E p \in Paths : f_open_new(p) \/ f_mkdir(p) \/ f_unlink(p) \/ f_opendir(p)
  \/ \E p \in Paths, f \in {"f_open", "f_mkdir"} : create_full(f, p)
  \/ \E p, q \in Paths : f_rename(p, q)
  \/ \E l \in Labels : f_setlabel(l)
  \/ \E p \in Paths, a \in BOOLEAN : f_chdir(p, a)
  \/ \E p \in Paths, pattern \in Patterns : f_findfirst(p, pattern)
  \/ f_readdir \/ f_closedir

Spec == Init /\ [][Next]_vars

-----------------------------------------------------------------------------
Child(e) == e.state = "live" /\ e.attr # "volume" /\ e.base \notin {Dot, DotDot}

At(x)    == content[x[1]][x[2]]

\* The directories ds and those in them.
Deeper(ds) ==
  ds \cup {At(x).start : x \in {y \in ds \X SlotNrs : Child(At(y)) /\ At(y).attr = "dir"}}

\* Clusters of the root and of the directories below it, at most one level per
\* cluster.
Dirs ==
  LET from[n \in 0 .. MaxCluster - 3] == IF n = 0 THEN {ROOT} ELSE Deeper(from[n - 1])
  IN  from[MaxCluster - 3]
Kids == {x \in Dirs \X SlotNrs : Child(At(x))}

InTree == {ROOT} \cup {At(x).start : x \in Kids}

\* Every entry of the tree has a cluster in use of its own, and "." and ".." of
\* each directory lead to itself and to where it is.
TreeSound ==
  /\ InTree \subseteq used
  /\ \A x, y \in Kids : At(x).start # ROOT /\ (At(x).start = At(y).start => x = y)
  /\ \A x \in Kids : At(x).attr = "dir" =>
       /\ Find(At(x).start, Dot) = 1 /\ content[At(x).start][1].start = At(x).start
       /\ Find(At(x).start, DotDot) = 2 /\ content[At(x).start][2].start = x[1]

\* A cluster in use that no entry leads to any more is never made by f_unlink,
\* f_rename or f_mkdir, whatever they replace; only by a call that found no slot
\* for its entry (fat32.rs:1284).
OnlyFullLeaks ==
  [][ret'.f # "full" => used' \ InTree' \subseteq used \ InTree]_vars

\* No directory has two entries of one name ("Check if name already exists",
\* fat32.rs:1233).
UniqueNames ==
  \A x, y \in Kids : x[1] = y[1] /\ Text(At(x)) = Text(At(y)) => x = y

\* What a pattern says: the name falls into one piece per symbol, any one for a
\* star, any single letter for a question mark, and else the letter itself.
Like(name, pat) ==
  pat = <<>> \/ \E cut \in [0 .. Len(pat) -> 0 .. Len(name)] :
    /\ cut[0] = 0 /\ cut[Len(pat)] = Len(name)
    /\ \A i \in 1 .. Len(pat) :
         IF pat[i] = "*" THEN cut[i - 1] <= cut[i]
         ELSE cut[i] = cut[i - 1] + 1 /\ pat[i] \in {"?", name[cut[i]]}

\* When f_readdir says that the directory has ended it has returned, of the
\* entries that were there from the start and stayed, each one that the pattern
\* of f_findfirst asks for and no other, whatever was made or deleted meanwhile
\* (rm deletes what it reads).
ReaddirComplete ==
  it # NoDir /\ it.ended =>
    \A s \in it.kept : LET e == content[it.dir][s] IN
      e.attr = "volume" \/ (s \in it.seen <=> Like(Text(e), it.pattern))

\* After f_rename the old name is not found any more (the self-test: "if
\* f_open("/qasm/readme.txt", FA_READ).is_ok()" fails, fat32.rs:1908).
RenamedGone == ret.f = "f_rename" => ~Exists(ret.arg)

\* f_mkdir leaves a directory of the name asked for, when that is no longer than
\* a base ("extension start (space-filled if no ext)", fat32.rs:1300).
MkdirNamed ==
  ret.f = "f_mkdir" /\ Len(LastName(ret.arg)) <= BaseLen => \E s \in SlotNrs :
    LET e == content[Parent(ret.arg)][s]
    IN  Child(e) /\ Text(e) = LastName(ret.arg)

\* resolve_path returns "the parent directory cluster" (fat32.rs:1649).
ParentIsDirectory ==
  ret.f \in {"f_open", "f_mkdir"} => Traverses(ret.arg)

\* f_setlabel sets the label when the root has a slot ("If we found a deleted
\* slot, use it", fat32.rs:1578).
LabelSet == ret.f = "f_setlabel" /\ Usable(ROOT) # {} => Label = ret.arg

\* f_chdir of a relative path appends it ("Relative path -- append to current
\* CWD", fat32.rs:1608).
CwdAppends == ret.f = "f_chdir" /\ ~ret.absolute => cwd = ret.from \o ret.arg.comps

=============================================================================
