------------------------------- MODULE Fat32 -------------------------------
(***************************************************************************)
(* The files of the FAT32 driver, src/hal/fat32.rs: the file allocation    *)
(* table, the entries of one directory, and the calls on one open File.    *)
(*                                                                         *)
(* A call is a sequence of sector writes with the steps of the code        *)
(* between them.  todo holds the writes the device has still to make, so   *)
(* that a write can fail, or the machine can stop, between any two.  The   *)
(* shell runs one call at a time.                                          *)
(*                                                                         *)
(* File contents are left out: which cluster, sector and byte a call goes  *)
(* to is kept.  The directory is one cluster; names are prefix-free (what  *)
(* find_entry_in_dir does to others is in FatDir).                         *)
(***************************************************************************)
EXTENDS Naturals, FiniteSets, Sequences

CONSTANTS
  Names,
  Slots,          \* entries of the directory: 1..Slots
  NumFats,        \* num_fats, copies of the table
  MaxCluster,     \* max_cluster: clusters are 2..MaxCluster - 1
  FatEntries,     \* entries in one sector of the table (128)
  SECTOR_SIZE,    \* bytes (512)
  SPC,            \* sectors_per_cluster
  Lens,           \* lengths of buffers passed to f_read and f_write
  MaxSize,        \* bound on file offsets
  Modes,          \* how clients open: see f_open
  Foreign,        \* names an empty file of another system may have
  Calls,          \* other calls clients make
  Unsynced,       \* clients may close a modified file, as mk does
  SeekPast,       \* clients may seek behind the last cluster
  Failures        \* writes fail and the machine stops

ASSUME Fat32Assumption ==
  /\ {NumFats, FatEntries, SECTOR_SIZE, SPC} \subseteq Nat \ {0}
  /\ MaxCluster \in Nat /\ MaxCluster > 3
  /\ Slots \in Nat /\ MaxSize \in Nat /\ Lens \subseteq Nat
  /\ Names \cap {"free", "deleted"} = {} /\ Foreign \subseteq Names
  /\ Modes \subseteq {"read", "existing", "new", "always", "open_always"}

VARIABLES
  fat,            \* per copy: cluster -> next cluster, 0 or EOC
  dir,            \* per slot: name, start cluster, size
  file,           \* the open File, or Closed
  pc, op,         \* where the running call is, and its arguments
  clu, left,      \* its loop variables
  todo            \* sector writes it waits for

vars == <<fat, dir, file, pc, op, clu, left, todo>>
disk == <<fat, dir>>

Copies      == 0 .. NumFats - 1
Clusters    == 2 .. MaxCluster - 1
EOC         == MaxCluster               \* 0x0FFFFFFF
ROOT        == 2
ClusterSize == SPC * SECTOR_SIZE
Closed      == [mode |-> "closed"]
NoOp        == [f |-> "none"]
Open        == file # Closed
Idle        == pc = "idle"

-----------------------------------------------------------------------------
\* read_fat_entry reads the first copy.
NextOf(c) == fat[0][c]

\* read_fat_entry n times, from c, until the end of the chain.
Nth(c, n) ==
  LET go[i \in 0 .. n] ==
        IF i = 0 THEN c ELSE IF go[i - 1] >= EOC THEN EOC ELSE NextOf(go[i - 1])
  IN  go[n]

\* The clusters a walk from c visits.
Chain(c) == {Nth(c, n) : n \in 0 .. MaxCluster} \cap Clusters
Free     == {c \in Clusters : NextOf(c) = 0}

\* find_free_cluster takes the first one.
FirstFree == CHOOSE c \in Free : \A d \in Free : c <= d

write_fat_entry(c, v) ==
  [k \in 1 .. NumFats |-> [on |-> "fat", copy |-> k - 1, c |-> c, v |-> v]]

write_entry(s, e) == <<[on |-> "dir", slot |-> s, entry |-> e]>>
write_data        == <<[on |-> "data"]>>

\* The sector written to each copy is the one read from the first.
FatAfter(w) ==
  [fat EXCEPT ![w.copy] = [c \in DOMAIN fat[0] |->
     IF c = w.c THEN w.v
     ELSE IF c \div FatEntries = w.c \div FatEntries THEN fat[0][c]
     ELSE fat[w.copy][c]]]

\* find_entry_in_dir stops at the first slot never used.
Find(n) == {s \in 1 .. Slots : dir[s].name = n
                                 /\ \A t \in 1 .. s : dir[t].name # "free"}
Usable  == {s \in 1 .. Slots : dir[s].name \in {"free", "deleted"}}
SlotOf(n)  == CHOOSE s \in Find(n) : \A t \in Find(n) : s <= t
FirstSlot  == CHOOSE s \in Usable : \A t \in Usable : s <= t

HandleOf(s, m, start, size, current, modified) ==
  [mode |-> m, slot |-> s, size |-> size, position |-> 0, start |-> start,
   current |-> current, sec |-> 0, byte |-> 0, modified |-> modified,
   error |-> FALSE]

\* A formatted volume; another system may have left an empty file, which has
\* no cluster.
Init ==
  /\ fat = [k \in Copies |-> [c \in 0 .. MaxCluster - 1 |->
                                IF c <= ROOT THEN EOC ELSE 0]]
  /\ \E first \in Foreign \cup {"free"} :
       dir = [s \in 1 .. Slots |->
                [name |-> IF s = 1 THEN first ELSE "free", start |-> 0, size |-> 0]]
  /\ file = Closed /\ pc = "idle" /\ op = NoOp
  /\ clu = 0 /\ left = 0 /\ todo = <<>>

-----------------------------------------------------------------------------
\* A step of the code, once the writes before it are made.
At(p) == pc = p /\ todo = <<>>

\* The call goes on at p after the writes ws.
Goes(p, ws) == pc' = p /\ todo' = ws /\ UNCHANGED disk

\* The call returns and leaves the File f.
Return(f) ==
  /\ file' = f /\ pc' = "idle" /\ op' = NoOp /\ clu' = 0 /\ left' = 0
  /\ todo' = <<>> /\ UNCHANGED disk

Fails == Return(IF Open THEN [file EXCEPT !.error = TRUE] ELSE Closed)

\* Clients stop using a File after an error, except to sync and close it, and
\* use one that FA_CREATE_ALWAYS emptied only after writing to it.
Fresh  == file.mode = "always" /\ file.current = 0
Ready  == Idle /\ Open /\ ~file.error
Writer  == Ready /\ file.mode # "read"

\* A call the File was not opened for, or a reader's seek past the end.
denied == Idle /\ Open /\ Fails

\* The device makes the next write.
write_sector ==
  /\ todo # <<>> /\ todo' = Tail(todo)
  /\ LET w == Head(todo) IN
       \/ w.on = "fat" /\ fat' = FatAfter(w) /\ UNCHANGED dir
       \/ w.on = "dir" /\ dir' = [dir EXCEPT ![w.slot] = w.entry] /\ UNCHANGED fat
       \/ w.on = "data" /\ UNCHANGED disk
  /\ UNCHANGED <<file, pc, op, clu, left>>

\* It reports an error instead and the call returns it.
write_fails == Failures /\ todo # <<>> /\ Fails

\* The machine stops and mounts the volume again.
crash == Failures /\ (Open \/ ~Idle) /\ Return(Closed)

-----------------------------------------------------------------------------
\* f_open of a file that is there; FA_CREATE_ALWAYS frees its chain first.
f_open_existing(n, m) ==
  /\ Idle /\ ~Open /\ m \in Modes \ {"new", "always"} /\ Find(n) # {}
  /\ LET s == SlotOf(n) IN
       Return(HandleOf(s, m, dir[s].start, dir[s].size, dir[s].start, FALSE))

f_open_always(n) ==
  /\ Idle /\ ~Open /\ "always" \in Modes /\ Find(n) # {}
  /\ Goes("free", <<>>)
  /\ clu' = dir[SlotOf(n)].start
  /\ op' = [f |-> "f_open", slot |-> SlotOf(n)]
  /\ UNCHANGED <<file, left>>

\* f_open of a new file: a cluster first, then a slot of the directory.
f_open_create(n, m) ==
  /\ Idle /\ ~Open /\ m \in Modes \ {"read", "existing"} /\ Find(n) = {}
  /\ Free # {}
  /\ Goes("slot", write_fat_entry(FirstFree, EOC))
  /\ clu' = FirstFree
  /\ op' = [f |-> "f_open", name |-> n, mode |-> m, slot |-> 0]
  /\ UNCHANGED <<file, left>>

\* The slot's size field keeps what it had.
f_open_slot ==
  /\ At("slot") /\ Usable # {}
  /\ Goes("opened", write_entry(FirstSlot,
       [name |-> op.name, start |-> clu, size |-> dir[FirstSlot].size]))
  /\ op' = [op EXCEPT !.slot = FirstSlot]
  /\ UNCHANGED <<file, clu, left>>

f_open_full == At("slot") /\ Usable = {} /\ Fails

f_open_return == At("opened") /\ Return(HandleOf(op.slot, op.mode, clu, 0, clu, TRUE))

\* Mutant: the link is read after the entry is cleared.
free_chain_late ==
  /\ At("free") /\ clu \in Clusters
  /\ Goes("free", write_fat_entry(clu, 0))
  /\ clu' = 0
  /\ UNCHANGED <<file, op, left>>

\* Mutant: clu is not advanced.
free_chain_stuck ==
  /\ At("free") /\ clu \in Clusters
  /\ Goes("free", write_fat_entry(clu, 0))
  /\ UNCHANGED <<file, op, clu, left>>

\* while clu is a cluster: read the link, clear the entry.
free_chain ==
  /\ At("free") /\ clu \in Clusters
  /\ Goes("free", write_fat_entry(clu, 0))
  /\ clu' = NextOf(clu)
  /\ UNCHANGED <<file, op, left>>

free_return ==
  /\ At("free") /\ clu \notin Clusters
  /\ \/ op.f = "f_open" /\ Return(HandleOf(op.slot, "always", dir[op.slot].start, 0, 0, FALSE))
     \/ op.f = "f_unlink" /\ Return(Closed)
     \/ op.f = "f_truncate" /\ UNCHANGED <<file, op, clu, left>>
          /\ Goes("cut", IF file.current >= 2 THEN write_fat_entry(file.current, EOC)
                         ELSE <<>>)

-----------------------------------------------------------------------------
f_read(n) ==
  /\ Ready /\ file.mode = "read" /\ file.size > file.position
  /\ Goes("read", <<>>)
  /\ left' = IF n < file.size - file.position THEN n ELSE file.size - file.position
  /\ UNCHANGED <<file, op, clu>>

\* Bytes of the current sector a loop of f_read or f_write handles.
Chunk == IF left < SECTOR_SIZE - file.byte THEN left ELSE SECTOR_SIZE - file.byte

\* The File after that many bytes, with the offset in the cluster wrapped.
Advanced ==
  LET end   == file.byte + Chunk = SECTOR_SIZE
      last  == end /\ file.sec + 1 = SPC
  IN  [file EXCEPT !.position = @ + Chunk,
                   !.byte = IF end THEN 0 ELSE @ + Chunk,
                   !.sec = IF last THEN 0 ELSE IF end THEN @ + 1 ELSE @]
LeavesCluster == file.byte + Chunk = SECTOR_SIZE /\ file.sec + 1 = SPC

\* One sector of f_read; at the end of the chain it stops.
f_read_sector ==
  /\ At("read") /\ left > 0
  /\ LET next == NextOf(file.current) IN
       \/ /\ ~LeavesCluster
          /\ file' = Advanced /\ left' = left - Chunk
       \/ /\ LeavesCluster /\ next < EOC
          /\ file' = [Advanced EXCEPT !.current = next] /\ left' = left - Chunk
       \/ /\ LeavesCluster /\ next >= EOC
          /\ file' = [Advanced EXCEPT !.current = 0] /\ left' = 0
  /\ Goes("read", <<>>) /\ UNCHANGED <<op, clu>>

f_read_fails  == Failures /\ At("read") /\ left > 0 /\ Fails
f_read_return == At("read") /\ left = 0 /\ Return(file)

-----------------------------------------------------------------------------
f_write(n) ==
  /\ Writer /\ file.position + n <= MaxSize
  /\ Goes(IF file.current = 0 THEN "first" ELSE "data", <<>>)
  /\ left' = n
  /\ UNCHANGED <<file, op, clu>>

\* Allocate first cluster if needed.
f_write_first ==
  /\ At("first") /\ Free # {}
  /\ Goes("started", write_fat_entry(FirstFree, EOC))
  /\ clu' = FirstFree /\ UNCHANGED <<file, op, left>>

f_write_started ==
  /\ At("started")
  /\ file' = [file EXCEPT !.start = clu, !.current = clu]
  /\ Goes("data", <<>>) /\ UNCHANGED <<op, clu, left>>

f_write_data ==
  /\ At("data") /\ left > 0
  /\ Goes("written", write_data) /\ UNCHANGED <<file, op, clu, left>>

f_write_written ==
  /\ At("written")
  /\ file' = [Advanced EXCEPT !.modified = TRUE,
       !.size = IF @ < file.position + Chunk THEN file.position + Chunk ELSE @]
  /\ left' = left - Chunk
  /\ Goes(IF LeavesCluster THEN "advance" ELSE "data", <<>>)
  /\ UNCHANGED <<op, clu>>

f_write_next ==
  /\ At("advance") /\ NextOf(file.current) < EOC
  /\ file' = [file EXCEPT !.current = NextOf(file.current)]
  /\ Goes("data", <<>>) /\ UNCHANGED <<op, clu, left>>

\* Mutant: the new cluster is linked before it is marked used.
f_write_extend_link_first ==
  /\ At("advance") /\ NextOf(file.current) >= EOC /\ Free # {}
  /\ Goes("linked", write_fat_entry(file.current, FirstFree)
                      \o write_fat_entry(FirstFree, EOC))
  /\ clu' = FirstFree /\ UNCHANGED <<file, op, left>>

\* At the end of the chain a cluster is marked used, then linked.
f_write_extend ==
  /\ At("advance") /\ NextOf(file.current) >= EOC /\ Free # {}
  /\ Goes("linked", write_fat_entry(FirstFree, EOC)
                      \o write_fat_entry(file.current, FirstFree))
  /\ clu' = FirstFree /\ UNCHANGED <<file, op, left>>

f_write_linked ==
  /\ At("linked")
  /\ file' = [file EXCEPT !.current = clu]
  /\ Goes("data", <<>>) /\ UNCHANGED <<op, clu, left>>

f_write_full ==
  /\ Free = {}
  /\ At("first") \/ (At("advance") /\ NextOf(file.current) >= EOC)
  /\ Fails

f_write_return == At("data") /\ left = 0 /\ Return(file)

-----------------------------------------------------------------------------
\* A seek past the chain sets position to a number of clusters; in a file
\* without a chain it goes to cluster 0.
f_lseek(o) ==
  /\ Ready /\ ~Fresh /\ o # file.position
  /\ file.mode = "read" => o <= file.size
  /\ LET to == Nth(file.start, o \div ClusterSize) IN
       \/ /\ to < EOC /\ (to = 0 => SeekPast)
          /\ Return([file EXCEPT !.current = to, !.position = o,
               !.sec = (o % ClusterSize) \div SECTOR_SIZE, !.byte = o % SECTOR_SIZE])
       \/ /\ to >= EOC /\ SeekPast
          /\ Return([file EXCEPT !.current = 0, !.position = o \div ClusterSize,
                                 !.sec = 0, !.byte = 0])

f_truncate ==
  /\ Writer /\ "f_truncate" \in Calls
  /\ Goes("free", <<>>)
  /\ clu' = NextOf(file.current) /\ op' = [f |-> "f_truncate"]
  /\ UNCHANGED <<file, left>>

f_truncate_return ==
  At("cut") /\ Return([file EXCEPT !.size = file.position, !.modified = TRUE])

\* Links from the first cluster to the end of the chain, and the clusters the
\* size asked for needs beyond those.
CountOf(c)  == CHOOSE n \in 1 .. MaxCluster : Nth(c, n) >= EOC /\ \A m \in 1 .. n - 1 : Nth(c, m) < EOC
Existing    == IF file.start = 0 THEN 0 ELSE CountOf(file.start)
ToAdd(size) == LET needed == (size + ClusterSize - 1) \div ClusterSize
               IN  IF needed > Existing THEN needed - Existing ELSE 0

f_expand(size) ==
  /\ Writer /\ ~Fresh /\ "f_expand" \in Calls /\ size > file.size
  /\ left' = ToAdd(size) /\ op' = [f |-> "f_expand", size |-> size]
  /\ clu' = IF file.start = 0 THEN 0 ELSE Nth(file.start, Existing - 1)
  /\ Goes(IF left' = 0 THEN "expanded" ELSE "append", <<>>)
  /\ UNCHANGED file

f_expand_append ==
  /\ At("append") /\ Free # {}
  /\ Goes("appended", write_fat_entry(FirstFree, EOC)
       \o (IF clu = 0 THEN <<>> ELSE write_fat_entry(clu, FirstFree)))
  /\ clu' = FirstFree /\ UNCHANGED <<file, op, left>>

f_expand_full == At("append") /\ Free = {} /\ Fails

f_expand_next ==
  /\ At("appended")
  /\ LET f == IF file.start = 0 THEN [file EXCEPT !.start = clu, !.current = clu]
              ELSE file
     IN  file' = IF left = 1 THEN [f EXCEPT !.size = op.size, !.modified = TRUE]
                 ELSE f
  /\ left' = left - 1
  /\ Goes(IF left = 1 THEN "expanded" ELSE "append", <<>>)
  /\ UNCHANGED <<op, clu>>

f_expand_return == At("expanded") /\ Return(file)

-----------------------------------------------------------------------------
\* Mutant: the size is not written.
f_sync_start_only ==
  /\ Idle /\ Open /\ file.modified
  /\ Goes("synced", write_entry(file.slot,
       [dir[file.slot] EXCEPT !.start = file.start]))
  /\ UNCHANGED <<file, op, clu, left>>

\* f_sync writes start and size of the File into its directory entry.
f_sync ==
  /\ Idle /\ Open /\ file.modified
  /\ Goes("synced", write_entry(file.slot,
       [dir[file.slot] EXCEPT !.start = file.start, !.size = file.size]))
  /\ UNCHANGED <<file, op, clu, left>>

f_sync_return == At("synced") /\ Return([file EXCEPT !.modified = FALSE])

f_close == Idle /\ Open /\ (Unsynced \/ ~(file.modified \/ Fresh)) /\ Return(Closed)

\* The entry is marked deleted, then the chain is freed.
f_unlink(n) ==
  /\ Idle /\ ~Open /\ "f_unlink" \in Calls /\ Find(n) # {}
  /\ LET s == SlotOf(n) IN
       /\ Goes("free", write_entry(s, [dir[s] EXCEPT !.name = "deleted"]))
       /\ clu' = dir[s].start
  /\ op' = [f |-> "f_unlink"] /\ UNCHANGED <<file, left>>

\* Mutant: the old entry goes first.
f_rename_delete_first(o, n) ==
  /\ Idle /\ ~Open /\ "f_rename" \in Calls
  /\ Find(o) # {} /\ Find(n) = {} /\ Usable # {}
  /\ LET s == SlotOf(o) IN
       /\ Goes("renamed", write_entry(s, [dir[s] EXCEPT !.name = "deleted"])
                            \o write_entry(FirstSlot, [dir[s] EXCEPT !.name = n]))
       /\ op' = [f |-> "f_rename", from |-> o, to |-> n, entry |-> dir[s]]
  /\ UNCHANGED <<file, clu, left>>

\* The new entry is written, then the old one marked deleted.
f_rename(o, n) ==
  /\ Idle /\ ~Open /\ "f_rename" \in Calls
  /\ Find(o) # {} /\ Find(n) = {} /\ Usable # {}
  /\ LET s == SlotOf(o) IN
       /\ Goes("renamed", write_entry(FirstSlot, [dir[s] EXCEPT !.name = n])
                            \o write_entry(s, [dir[s] EXCEPT !.name = "deleted"]))
       /\ op' = [f |-> "f_rename", from |-> o, to |-> n, entry |-> dir[s]]
  /\ UNCHANGED <<file, clu, left>>

f_rename_return == At("renamed") /\ Return(Closed)

-----------------------------------------------------------------------------
Call ==
  \/ \E n \in Names : f_open_always(n) \/ f_unlink(n)
  \/ \E n \in Names, m \in Modes : f_open_existing(n, m) \/ f_open_create(n, m)
  \/ \E n \in Lens : f_read(n) \/ f_write(n)
  \/ \E o \in 0 .. MaxSize : f_lseek(o) \/ f_expand(o)
  \/ \E o, n \in Names : f_rename(o, n)
  \/ f_truncate \/ f_sync \/ f_close \/ denied

Step ==
  \/ write_sector
  \/ f_open_slot \/ f_open_full \/ f_open_return \/ free_chain \/ free_return
  \/ f_read_sector \/ f_read_return
  \/ f_write_first \/ f_write_started \/ f_write_data \/ f_write_written
  \/ f_write_next \/ f_write_extend \/ f_write_linked \/ f_write_full \/ f_write_return
  \/ f_truncate_return
  \/ f_expand_append \/ f_expand_full \/ f_expand_next \/ f_expand_return
  \/ f_sync_return \/ f_rename_return

Next == Call \/ Step \/ write_fails \/ f_read_fails \/ crash

Spec     == Init /\ [][Next]_vars
FairSpec == Spec /\ WF_vars(Step)

-----------------------------------------------------------------------------
Live == {s \in 1 .. Slots : dir[s].name \in Names}

\* At every instant, so also if the machine stops there, each file's clusters
\* are in use, end at an end mark, and belong to no other file nor to the
\* directory (f_open, f_write and f_expand mark a cluster used before anything
\* refers to it; f_unlink deletes the entry before it frees).
OnDiskSound ==
  \A s \in Live : dir[s].start # 0 =>
    /\ Nth(dir[s].start, MaxCluster) = EOC
    /\ \A c \in Chain(dir[s].start) : c # ROOT /\ Nth(c, MaxCluster) = EOC
    /\ \A t \in Live \ {s} : Chain(dir[t].start) \cap Chain(dir[s].start) = {}

\* Cluster, sector and byte of the File are those of its position, counted
\* along its chain; f_read leaves cluster 0 at the end of the last one.
InPosition ==
  \/ /\ file.current = Nth(file.start, file.position \div ClusterSize)
     /\ file.sec = (file.position % ClusterSize) \div SECTOR_SIZE
     /\ file.byte = file.position % SECTOR_SIZE
  \/ /\ Idle /\ file.mode = "read" /\ file.current = 0
     /\ file.position = file.size

\* A File without an error is in position between calls and at every sector a
\* call reads or writes, although f_read, f_write and f_lseek move cluster,
\* sector and byte separately; and one that says it has nothing to sync agrees
\* with its directory entry.  Not of one that FA_CREATE_ALWAYS emptied and
\* nobody wrote to: see TruncateRecorded.
FileSound ==
  Open /\ ~file.error /\ ~Fresh =>
    /\ Idle \/ (pc \in {"read", "data"} /\ left > 0) => InPosition
    /\ Idle /\ ~file.modified =>
         dir[file.slot].start = file.start /\ dir[file.slot].size = file.size

\* "FA_CREATE_ALWAYS: truncate to zero": a File that f_open emptied agrees with
\* its entry, or says that it has something to sync.
TruncateRecorded ==
  Open /\ Idle /\ Fresh /\ ~file.modified => dir[file.slot].size = file.size

\* Without failures all copies of the table are equal whenever no write is under
\* way; and with no file open the chains are sound, the used clusters are those
\* of the files and of the directory, and every file has the clusters for its
\* size.
Consistent ==
  /\ todo = <<>> => \A k \in Copies : fat[k] = fat[0]
  /\ ~Open /\ Idle =>
       /\ OnDiskSound
       /\ Clusters \ Free = {ROOT} \cup UNION {Chain(dir[s].start) : s \in Live}
       /\ \A s \in Live : dir[s].size <= Cardinality(Chain(dir[s].start)) * ClusterSize

\* While f_rename runs, and if the machine stops in it, the file has a name.
RenameNeverLoses ==
  op.f = "f_rename" => \E s \in Live :
    /\ dir[s].name \in {op.from, op.to}
    /\ dir[s].start = op.entry.start /\ dir[s].size = op.entry.size

\* Every call returns: the loops over a chain come to its end.
CallReturns == ~Idle ~> Idle

\* A successful f_expand leaves at least the size asked for (the self-test:
\* "if f_size(&f) < 10000 { return Err(FError::Invalid); }").
ExpandGrows == pc = "expanded" => file.size >= op.size

\* f_write gives a File a first cluster only when it has none ("Allocate first
\* cluster if needed").
StartKept == [][pc = "started" /\ pc' = "data" => file.start = 0]_vars

=============================================================================
