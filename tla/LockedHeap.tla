---------------------------- MODULE LockedHeap ----------------------------
(***************************************************************************)
(* The global allocator of src/hal/memory.rs: alloc and dealloc run the    *)
(* heap between lock and unlock of the heap's SpinLock, find out from the  *)
(* failure counters whether the call failed, and log a failure afterwards  *)
(* under the serial lock.                                                  *)
(*                                                                         *)
(* HeapCore shows what the heap does when calls follow one another; here   *)
(* it is a set of equal blocks, and a call is a step that looks and a step *)
(* that writes, so that two calls at once would show.                      *)
(***************************************************************************)
EXTENDS SpinLock

CONSTANTS
  HeapLock, SerialLock,
  Blocks,
  None,           \* no block: a null pointer
  MaxFails        \* bound on each failure counter

ASSUME HeapAssumption ==
  Locks = {HeapLock, SerialLock} /\ HeapLock # SerialLock /\ None \notin Blocks

VARIABLES
  free,             \* blocks the heap has
  held,             \* per core: blocks its callers hold
  fails, bads,      \* oom + align_fail, bad_free + double_free
  call,             \* per core: "none", "alloc", "dealloc" or "log"
  stage,            \* per core: progress inside the critical section
  block,            \* per core: the block found or given back
  before, failed,   \* per core: locals of alloc and dealloc
  lost              \* per core: this call failed (auxiliary)

caller == <<call, stage, block, before, failed, lost>>
pool   == <<free, held, fails, bads>>
heapVars == <<vars, caller, pool>>

HeapInit ==
  /\ Init
  /\ free = Blocks /\ held = [c \in Cores |-> {}]
  /\ fails = 0 /\ bads = 0
  /\ call = [c \in Cores |-> "none"]
  /\ stage = [c \in Cores |-> "before"]
  /\ block = [c \in Cores |-> None]
  /\ before = [c \in Cores |-> 0]
  /\ failed = [c \in Cores |-> FALSE] /\ lost = [c \in Cores |-> FALSE]

Enter(c, kind, b) ==
  /\ call[c] = "none"
  /\ call' = [call EXCEPT ![c] = kind]
  /\ block' = [block EXCEPT ![c] = b]
  /\ stage' = [stage EXCEPT ![c] = "before"]
  /\ lost' = [lost EXCEPT ![c] = FALSE]
  /\ UNCHANGED <<before, failed, pool>>

\* A new call; one that failed before has been logged.
alloc(c) ==
  /\ ~failed[c] /\ fails < MaxFails
  /\ lock_read(c, HeapLock) /\ Enter(c, "alloc", None)

\* A caller frees a block it holds, or by mistake a null pointer.
dealloc(c) ==
  /\ ~failed[c] /\ bads < MaxFails
  /\ lock_read(c, HeapLock)
  /\ \E b \in held[c] \cup {None} : Enter(c, "dealloc", b)

\* serial::log, after unlock.
log_failure(c) ==
  /\ failed[c]
  /\ lock_read(c, SerialLock)
  /\ call[c] = "none"
  /\ call' = [call EXCEPT ![c] = "log"]
  /\ failed' = [failed EXCEPT ![c] = FALSE]
  /\ UNCHANGED <<stage, block, before, lost, pool>>

-----------------------------------------------------------------------------
Inside(c, from, to) ==
  /\ At(c, "critical") /\ call[c] \in {"alloc", "dealloc"}
  /\ stage[c] = from /\ stage' = [stage EXCEPT ![c] = to]
  /\ UNCHANGED <<vars, call>>

Counter(c) == IF call[c] = "alloc" THEN fails ELSE bads

\* Mutant: the counters are read before the lock is held.
read_before_lock(c) ==
  /\ At(c, "spin") \/ At(c, "critical")
  /\ call[c] \in {"alloc", "dealloc"}
  /\ stage[c] = "before" /\ stage' = [stage EXCEPT ![c] = "look"]
  /\ before' = [before EXCEPT ![c] = Counter(c)]
  /\ UNCHANGED <<vars, call, block, failed, lost, pool>>

read_before(c) ==
  /\ Inside(c, "before", "look")
  /\ before' = [before EXCEPT ![c] = Counter(c)]
  /\ UNCHANGED <<block, failed, lost, pool>>

\* HeapCore looks for a free block, or at the flags of the freed one.
heap_look(c) ==
  /\ Inside(c, "look", "write")
  /\ \/ /\ call[c] = "alloc" /\ \E b \in free : block' = [block EXCEPT ![c] = b]
        /\ UNCHANGED lost
     \/ /\ call[c] = "alloc" /\ free = {} /\ lost' = [lost EXCEPT ![c] = TRUE]
        /\ UNCHANGED block
     \/ /\ call[c] = "dealloc" /\ lost' = [lost EXCEPT ![c] = block[c] = None]
        /\ UNCHANGED block
  /\ UNCHANGED <<before, failed, pool>>

\* HeapCore writes: the headers, or one of its failure counters.
heap_write(c) ==
  /\ Inside(c, "write", "after")
  /\ \/ /\ lost[c] /\ call[c] = "alloc" /\ fails' = fails + 1
        /\ UNCHANGED <<free, held, bads>>
     \/ /\ lost[c] /\ call[c] = "dealloc" /\ bads' = bads + 1
        /\ UNCHANGED <<free, held, fails>>
     \/ /\ ~lost[c] /\ call[c] = "alloc"
        /\ free' = free \ {block[c]}
        /\ held' = [held EXCEPT ![c] = held[c] \cup {block[c]}]
        /\ UNCHANGED <<fails, bads>>
     \/ /\ ~lost[c] /\ call[c] = "dealloc"
        /\ free' = free \cup {block[c]}
        /\ held' = [held EXCEPT ![c] = held[c] \ {block[c]}]
        /\ UNCHANGED <<fails, bads>>
  /\ UNCHANGED <<block, before, failed, lost>>

read_after(c) ==
  /\ Inside(c, "after", "done")
  /\ failed' = [failed EXCEPT ![c] = Counter(c) # before[c]]
  /\ UNCHANGED <<block, before, lost, pool>>

\* unlock comes after the comparison.
UnlockReady(c) == call[c] # "log" => stage[c] = "done"

\* The steps of lock and unlock, the last of which ends the call.
lock_step(c) ==
  /\ lock_save(c) \/ lock_cli(c) \/ lock_acquire(c) \/ lock_spin(c)
       \/ interrupt(c) \/ iret(c) \/ (UnlockReady(c) /\ unlock_store(c))
  /\ UNCHANGED <<caller, pool>>

lock_return(c) ==
  /\ unlock_restore(c)
  /\ call' = [call EXCEPT ![c] = "none"]
  /\ UNCHANGED <<stage, block, before, failed, lost, pool>>

HeapStep(c) ==
  \/ log_failure(c) \/ read_before(c) \/ heap_look(c) \/ heap_write(c)
  \/ read_after(c) \/ lock_step(c) \/ lock_return(c)

HeapNext == \E c \in Cores : alloc(c) \/ dealloc(c) \/ HeapStep(c)

HeapSpec == HeapInit /\ [][HeapNext]_heapVars

-----------------------------------------------------------------------------
\* No block is in two hands, or in one and in the heap, although every core
\* calls the one heap.
NoSharedBlock ==
  \A c \in Cores :
    /\ held[c] \cap free = {}
    /\ \A d \in Cores \ {c} : held[c] \cap held[d] = {}

\* A core warns exactly when its own call failed: another core's failure never
\* shows up in the difference of the counters.
WarnsOwnFailure ==
  \A c \in Cores :
    call[c] \in {"alloc", "dealloc"} /\ stage[c] = "done" => failed[c] = lost[c]

=============================================================================
