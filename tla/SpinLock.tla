------------------------------ MODULE SpinLock ------------------------------
(***************************************************************************)
(* The spinlock of src/hal/memory.rs on several cores, one machine-visible *)
(* step per action: lock reads the interrupt flag, stores it in the lock,  *)
(* masks interrupts and spins; unlock clears the lock and then reads the   *)
(* stored flag.  Cores take and release the kernel's locks (the heap's and *)
(* the serial port's) one at a time, as all code in src/ does.             *)
(*                                                                         *)
(* The bootstrap core runs with interrupts masked until main.rs executes   *)
(* sti; an application core executes sti before it takes any lock.         *)
(***************************************************************************)
EXTENDS Naturals

CONSTANTS
  Cores,
  Locks,
  Masked      \* cores that still run with interrupts masked: boot not over

ASSUME MaskedAssumption == Masked \subseteq Cores

VARIABLES
  flag,       \* per lock: the atomic flag
  saved_if,   \* per lock: the interrupt flag some caller stored
  intr,       \* per core: the interrupt flag
  handling,   \* per core: inside an interrupt handler
  pc,         \* per core: where it is in lock and unlock
  target,     \* per core: the lock it is using
  if_set      \* per core: the local of lock()

vars == <<flag, saved_if, intr, handling, pc, target, if_set>>

Init ==
  /\ flag = [l \in Locks |-> FALSE]
  /\ saved_if = [l \in Locks |-> TRUE]
  /\ intr = [c \in Cores |-> c \notin Masked]
  /\ handling = [c \in Cores |-> FALSE]
  /\ pc = [c \in Cores |-> "out"]
  /\ target \in [Cores -> Locks]
  /\ if_set = [c \in Cores |-> c \notin Masked]

\* An interrupt handler has the core to itself until it returns.
At(c, where) == pc[c] = where /\ ~handling[c]

-----------------------------------------------------------------------------
\* pushfq: the interrupt flag as the caller has it.
lock_read(c, l) ==
  /\ At(c, "out")
  /\ target' = [target EXCEPT ![c] = l]
  /\ if_set' = [if_set EXCEPT ![c] = intr[c]]
  /\ pc' = [pc EXCEPT ![c] = "save"]
  /\ UNCHANGED <<flag, saved_if, intr, handling>>

\* *saved_if = if_set, before the lock is held.
lock_save(c) ==
  /\ At(c, "save")
  /\ saved_if' = [saved_if EXCEPT ![target[c]] = if_set[c]]
  /\ pc' = [pc EXCEPT ![c] = "cli"]
  /\ UNCHANGED <<flag, intr, handling, target, if_set>>

\* Mutant: interrupts stay enabled.
lock_no_cli(c) ==
  /\ At(c, "cli")
  /\ pc' = [pc EXCEPT ![c] = "spin"]
  /\ UNCHANGED <<flag, saved_if, intr, handling, target, if_set>>

lock_cli(c) ==
  /\ At(c, "cli")
  /\ intr' = [intr EXCEPT ![c] = FALSE]
  /\ pc' = [pc EXCEPT ![c] = "spin"]
  /\ UNCHANGED <<flag, saved_if, handling, target, if_set>>

\* Mutant: the result of the exchange is ignored.
lock_barge(c) ==
  /\ At(c, "spin")
  /\ flag' = [flag EXCEPT ![target[c]] = TRUE]
  /\ pc' = [pc EXCEPT ![c] = "critical"]
  /\ UNCHANGED <<saved_if, intr, handling, target, if_set>>

\* compare_exchange(false, true); a failed one changes nothing.
lock_acquire(c) ==
  /\ At(c, "spin")
  /\ ~flag[target[c]]
  /\ flag' = [flag EXCEPT ![target[c]] = TRUE]
  /\ pc' = [pc EXCEPT ![c] = "critical"]
  /\ UNCHANGED <<saved_if, intr, handling, target, if_set>>

lock_spin(c) ==
  /\ At(c, "spin")
  /\ flag[target[c]]
  /\ UNCHANGED vars

unlock_store(c) ==
  /\ At(c, "critical")
  /\ flag' = [flag EXCEPT ![target[c]] = FALSE]
  /\ pc' = [pc EXCEPT ![c] = "restore"]
  /\ UNCHANGED <<saved_if, intr, handling, target, if_set>>

\* Mutant: unlock leaves interrupts masked.
unlock_masked(c) ==
  /\ At(c, "restore")
  /\ pc' = [pc EXCEPT ![c] = "out"]
  /\ UNCHANGED <<flag, saved_if, intr, handling, target, if_set>>

\* The stored flag is read after the lock is free.
unlock_restore(c) ==
  /\ At(c, "restore")
  /\ intr' = [intr EXCEPT ![c] = intr[c] \/ saved_if[target[c]]]
  /\ pc' = [pc EXCEPT ![c] = "out"]
  /\ UNCHANGED <<flag, saved_if, handling, target, if_set>>

-----------------------------------------------------------------------------
\* main.rs: the bootstrap core opens its interrupts once boot is over.
boot_sti(c) ==
  /\ c \in Masked /\ At(c, "out")
  /\ intr' = [intr EXCEPT ![c] = TRUE]
  /\ UNCHANGED <<flag, saved_if, handling, pc, target, if_set>>

\* A timer, keyboard or inter-processor interrupt between two instructions;
\* idt_handler takes no lock for these vectors.
interrupt(c) ==
  /\ intr[c] /\ ~handling[c]
  /\ handling' = [handling EXCEPT ![c] = TRUE]
  /\ intr' = [intr EXCEPT ![c] = FALSE]
  /\ UNCHANGED <<flag, saved_if, pc, target, if_set>>

iret(c) ==
  /\ handling[c]
  /\ handling' = [handling EXCEPT ![c] = FALSE]
  /\ intr' = [intr EXCEPT ![c] = TRUE]
  /\ UNCHANGED <<flag, saved_if, pc, target, if_set>>

LockStep(c) ==
  \/ lock_save(c) \/ lock_cli(c) \/ lock_acquire(c) \/ lock_spin(c)
  \/ unlock_store(c) \/ unlock_restore(c)

CoreStep(c) ==
  \/ \E l \in Locks : lock_read(c, l)
  \/ LockStep(c)
  \/ boot_sti(c) \/ interrupt(c) \/ iret(c)

Next == \E c \in Cores : CoreStep(c)

Spec == Init /\ [][Next]_vars

-----------------------------------------------------------------------------
\* The type of every variable.
TypeOK ==
  /\ flag \in [Locks -> BOOLEAN] /\ saved_if \in [Locks -> BOOLEAN]
  /\ intr \in [Cores -> BOOLEAN] /\ handling \in [Cores -> BOOLEAN]
  /\ if_set \in [Cores -> BOOLEAN]
  /\ target \in [Cores -> Locks]
  /\ pc \in [Cores -> {"out", "save", "cli", "spin", "critical", "restore"}]

Holds(c, l) == pc[c] = "critical" /\ target[c] = l

\* At most one core is between lock and unlock of a lock.
MutualExclusion ==
  \A l \in Locks : \A c, d \in Cores : Holds(c, l) /\ Holds(d, l) => c = d

\* memory.rs:17, "A critical section can never be preempted by an interrupt
\* handler on the same core": from cli until the lock is free again the core
\* takes no interrupt, whatever other cores store in saved_if.
NoPreemption ==
  \A c \in Cores : pc[c] \in {"spin", "critical", "restore"} => ~intr[c] /\ ~handling[c]

\* memory.rs:18, "each lock saves the IF state it observed": a core that leaves
\* unlock has the interrupt flag it had when it called lock.
IFRestored ==
  [][\A c \in Cores : pc[c] = "restore" /\ pc'[c] = "out" => intr'[c] = if_set[c]]_vars

=============================================================================
