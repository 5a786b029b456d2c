--------------------------- MODULE SpinLockProofs ---------------------------
(***************************************************************************)
(* Proofs about SpinLock for any number of cores and locks, and about the  *)
(* three modules that use it: cores that fault, the allocator behind the   *)
(* heap's lock, and the boot log behind the serial port's.                 *)
(***************************************************************************)
EXTENDS LockedHeap, Fault, SerialLog, TLAPS

\* A held lock has its flag set.
FlagHeld == \A c \in Cores : \A l \in Locks : Holds(c, l) => flag[l]

IInv == TypeOK /\ FlagHeld /\ MutualExclusion /\ NoPreemption

\* The invariant holds at boot.
LEMMA InitIInv == Init => IInv
BY Zenon, MaskedAssumption DEF Init, IInv, TypeOK, FlagHeld, MutualExclusion, NoPreemption, Holds

\* Every step of a core keeps it; only lock_acquire makes a holder, and it
\* finds the flag clear.
LEMMA NextIInv == IInv /\ [Next]_vars => IInv'
<1> SUFFICES ASSUME IInv, [Next]_vars PROVE IInv'
  BY Zenon
<1> USE DEF IInv
<1>1. ASSUME NEW c \in Cores, NEW l \in Locks, lock_read(c, l) PROVE IInv'
  BY <1>1 DEF lock_read, At, TypeOK, FlagHeld, MutualExclusion, NoPreemption, Holds
<1>2. ASSUME NEW c \in Cores, lock_save(c) PROVE IInv'
  BY <1>2 DEF lock_save, At, TypeOK, FlagHeld, MutualExclusion, NoPreemption, Holds
<1>3. ASSUME NEW c \in Cores, lock_cli(c) PROVE IInv'
  BY <1>3 DEF lock_cli, At, TypeOK, FlagHeld, MutualExclusion, NoPreemption, Holds
<1>4. ASSUME NEW c \in Cores, lock_acquire(c) PROVE IInv'
  <2>1. TypeOK' /\ NoPreemption'
    BY Zenon, <1>4 DEF lock_acquire, At, TypeOK, NoPreemption
  <2>2. FlagHeld' /\ MutualExclusion'
    BY <1>4 DEF lock_acquire, At, TypeOK, FlagHeld, MutualExclusion, Holds
  <2> QED BY Zenon, <2>1, <2>2
<1>5. ASSUME NEW c \in Cores, unlock_store(c) PROVE IInv'
  <2>1. TypeOK' /\ NoPreemption'
    BY Zenon, <1>5 DEF unlock_store, At, TypeOK, NoPreemption
  <2>2. FlagHeld' /\ MutualExclusion'
    BY <1>5 DEF unlock_store, At, TypeOK, FlagHeld, MutualExclusion, Holds
  <2> QED BY Zenon, <2>1, <2>2
<1>6. ASSUME NEW c \in Cores, unlock_restore(c) PROVE IInv'
  BY <1>6 DEF unlock_restore, At, TypeOK, FlagHeld, MutualExclusion, NoPreemption, Holds
<1>7. ASSUME NEW c \in Cores, boot_sti(c) PROVE IInv'
  BY <1>7 DEF boot_sti, At, TypeOK, FlagHeld, MutualExclusion, NoPreemption, Holds
<1>8. ASSUME NEW c \in Cores, interrupt(c) PROVE IInv'
  BY <1>8 DEF interrupt, TypeOK, FlagHeld, MutualExclusion, NoPreemption, Holds
<1>9. ASSUME NEW c \in Cores, iret(c) PROVE IInv'
  BY Zenon, <1>9 DEF iret, TypeOK, FlagHeld, MutualExclusion, NoPreemption, Holds
<1>10. CASE UNCHANGED vars \/ \E c \in Cores : lock_spin(c)
  BY <1>10 DEF lock_spin, vars, TypeOK, FlagHeld, MutualExclusion, NoPreemption, Holds
<1> QED
  BY Zenon, <1>1, <1>2, <1>3, <1>4, <1>5, <1>6, <1>7, <1>8, <1>9, <1>10 DEF Next, CoreStep, LockStep

\* The inductive invariant holds in every reachable state.
THEOREM Invariance == Spec => []IInv
BY InitIInv, NextIInv, PTL DEF Spec

\* lock and unlock give mutual exclusion, for any number of cores and locks.
THEOREM MutualExclusionHolds == Spec => []MutualExclusion
<1>1. IInv => MutualExclusion BY Zenon DEF IInv
<1> QED BY <1>1, Invariance, PTL

\* No interrupt handler runs on a core between its cli and the end of its
\* critical section, even when other cores overwrite saved_if.
THEOREM NoPreemptionHolds == Spec => []NoPreemption
<1>1. IInv => NoPreemption BY Zenon DEF IInv
<1> QED BY <1>1, Invariance, PTL

-----------------------------------------------------------------------------
\* Once every core runs with interrupts enabled, whatever core stores its flag
\* in saved_if stores the same value.
AllEnabled ==
  /\ \A l \in Locks : saved_if[l]
  /\ \A c \in Cores : if_set[c] /\ (pc[c] = "out" /\ ~handling[c] => intr[c])

\* Agreement of the cores is kept by every step.
LEMMA AllEnabledStep ==
  ASSUME TypeOK, AllEnabled, [Next]_vars, Masked = {}
  PROVE  AllEnabled'
<1>1. ASSUME NEW c \in Cores, NEW l \in Locks, lock_read(c, l) PROVE AllEnabled'
  BY Zenon, <1>1 DEF lock_read, At, TypeOK, AllEnabled
<1>2. ASSUME NEW c \in Cores, lock_save(c) PROVE AllEnabled'
  BY Zenon, <1>2 DEF lock_save, At, TypeOK, AllEnabled
<1>3. ASSUME NEW c \in Cores, lock_cli(c) PROVE AllEnabled'
  BY Zenon, <1>3 DEF lock_cli, At, TypeOK, AllEnabled
<1>4. ASSUME NEW c \in Cores, lock_acquire(c) \/ unlock_store(c) PROVE AllEnabled'
  BY <1>4 DEF lock_acquire, unlock_store, At, TypeOK, AllEnabled
<1>5. ASSUME NEW c \in Cores, unlock_restore(c) PROVE AllEnabled'
  BY Zenon, <1>5 DEF unlock_restore, At, TypeOK, AllEnabled
<1>6. ASSUME NEW c \in Cores, interrupt(c) \/ iret(c) PROVE AllEnabled'
  BY <1>6 DEF interrupt, iret, TypeOK, AllEnabled
<1>7. CASE UNCHANGED vars \/ \E c \in Cores : lock_spin(c)
  BY Zenon, <1>7 DEF lock_spin, vars, AllEnabled
<1>8. ASSUME NEW c \in Cores PROVE ~boot_sti(c)
  BY Zenon DEF boot_sti
<1> QED
  BY Zenon, <1>1, <1>2, <1>3, <1>4, <1>5, <1>6, <1>7, <1>8 DEF Next, CoreStep, LockStep

\* Only unlock_restore takes a core from "restore" to "out".
LEMMA RestoreStep ==
  ASSUME TypeOK, AllEnabled, [Next]_vars, NEW c \in Cores,
         pc[c] = "restore", pc'[c] = "out"
  PROVE  intr'[c] = if_set[c]
<1>1. PICK d \in Cores : LockStep(d) \/ (\E l \in Locks : lock_read(d, l))
  BY Zenon DEF Next, CoreStep, vars, boot_sti, interrupt, iret
<1>2. d = c /\ unlock_restore(c)
  BY Zenon, <1>1 DEF LockStep, lock_read, lock_spin, vars, lock_save, lock_cli, lock_acquire, unlock_store,
     unlock_restore, At, TypeOK
<1> QED BY Zenon, <1>2 DEF unlock_restore, TypeOK, AllEnabled

\* Once boot is over on every core, unlock gives each core back the interrupt
\* flag it called lock with, in spite of the shared saved_if.
THEOREM IFRestoredAfterBoot ==
  ASSUME Masked = {} PROVE Spec => IFRestored
<1>1. Init => AllEnabled
  BY Zenon DEF Init, AllEnabled
<1>2. TypeOK /\ AllEnabled /\ [Next]_vars => AllEnabled'
  BY Zenon, AllEnabledStep
<1>3. TypeOK /\ AllEnabled /\ [Next]_vars
        => [\A c \in Cores : pc[c] = "restore" /\ pc'[c] = "out" => intr'[c] = if_set[c]]_vars
  BY Zenon, RestoreStep
<1>4. IInv => TypeOK BY Zenon DEF IInv
<1> QED BY <1>1, <1>2, <1>3, <1>4, Invariance, PTL DEF Spec, IFRestored

-----------------------------------------------------------------------------
\* Cores that may fault, as the locks see them, are a behaviour of SpinLock: a
\* faulting core takes no further step of lock or unlock.
THEOREM FaultUsesLocks == FaultSpec => Spec
<1>1. FaultInit => Init BY Zenon DEF FaultInit
<1>2. [FaultNext]_faultVars => [Next]_vars
  BY Zenon DEF FaultNext, faultVars, Healthy, fault, fault_log, Next
<1> QED BY <1>1, <1>2, PTL DEF FaultSpec, Spec

\* Mutual exclusion and freedom from preemption survive a fault at any point,
\* inside a critical section included: whatever FaultAt is.
THEOREM FaultSafe == FaultSpec => [](MutualExclusion /\ NoPreemption)
BY FaultUsesLocks, MutualExclusionHolds, NoPreemptionHolds, PTL

-----------------------------------------------------------------------------
\* A call of the allocator.
InHeap(c) == call[c] \in {"alloc", "dealloc"}

\* The types of the heap's variables.
HeapTypeOK ==
  /\ free \subseteq Blocks /\ held \in [Cores -> SUBSET Blocks]
  /\ fails \in Nat /\ bads \in Nat
  /\ call \in [Cores -> {"none", "alloc", "dealloc", "log"}]
  /\ stage \in [Cores -> {"before", "look", "write", "after", "done"}]
  /\ block \in [Cores -> Blocks \cup {None}]
  /\ before \in [Cores -> Nat]
  /\ failed \in [Cores -> BOOLEAN] /\ lost \in [Cores -> BOOLEAN]

\* A call is at its lock, and gets past its first stage only inside.
CallAtLock ==
  \A c \in Cores :
    /\ pc[c] = "out" <=> call[c] = "none"
    /\ InHeap(c) => target[c] = HeapLock
    /\ InHeap(c) /\ pc[c] \in {"save", "cli", "spin"} => stage[c] = "before"
    /\ InHeap(c) /\ pc[c] = "restore" => stage[c] = "done"

\* What a call has found out stays true until it acts on it.
FoundHolds ==
  \A c \in Cores :
    /\ InHeap(c) /\ stage[c] \in {"before", "look"} => ~lost[c]
    /\ call[c] = "dealloc" /\ stage[c] \in {"before", "look", "write"}
         => block[c] \in held[c] \cup {None}
    /\ call[c] = "dealloc" /\ stage[c] = "write" => lost[c] = (block[c] = None)
    /\ call[c] = "alloc" /\ stage[c] = "write" /\ ~lost[c] => block[c] \in free

\* The counter a call compares moves between its two reads by its own failure.
CounterOwn ==
  \A c \in Cores :
    /\ InHeap(c) /\ stage[c] \in {"look", "write"} => before[c] = Counter(c)
    /\ InHeap(c) /\ stage[c] = "after"
         => Counter(c) = IF lost[c] THEN before[c] + 1 ELSE before[c]

HeapInv ==
  HeapTypeOK /\ CallAtLock /\ FoundHolds /\ CounterOwn /\ NoSharedBlock /\ WarnsOwnFailure

-----------------------------------------------------------------------------
\* Every step of the allocator is a step of its locks, or none.
LEMMA HeapStepIsLockStep == ASSUME [HeapNext]_heapVars PROVE [Next]_vars
<1>1. ASSUME NEW c \in Cores, alloc(c) PROVE Next
  BY Zenon, <1>1, HeapAssumption DEF alloc, Next, CoreStep
<1>2. ASSUME NEW c \in Cores, dealloc(c) PROVE Next
  BY Zenon, <1>2, HeapAssumption DEF dealloc, Next, CoreStep
<1>3. ASSUME NEW c \in Cores, log_failure(c) PROVE Next
  BY Zenon, <1>3, HeapAssumption DEF log_failure, Next, CoreStep
<1>4. ASSUME NEW c \in Cores, lock_step(c) \/ lock_return(c) PROVE Next
  BY Zenon, <1>4 DEF lock_step, lock_return, Next, CoreStep, LockStep
<1>5. ASSUME NEW c \in Cores, read_before(c) \/ heap_look(c) \/ heap_write(c) \/ read_after(c)
      PROVE UNCHANGED vars
  BY Zenon, <1>5 DEF read_before, heap_look, heap_write, read_after, Inside
<1>6. CASE UNCHANGED heapVars
  BY Zenon, <1>6 DEF heapVars
<1> QED BY Zenon, <1>1, <1>2, <1>3, <1>4, <1>5, <1>6 DEF HeapNext, HeapStep

\* A core that is past the first read of its call holds the heap's lock, and
\* no other core does.
LEMMA AloneInHeap ==
  ASSUME IInv, HeapInv, NEW c \in Cores, NEW d \in Cores,
         InHeap(c), stage[c] \in {"look", "write", "after"},
         InHeap(d), pc[d] = "critical"
  PROVE  c = d
<1>1. pc[c] = "critical"
  BY Zenon DEF IInv, TypeOK, HeapInv, HeapTypeOK, CallAtLock, InHeap
<1>2. Holds(c, HeapLock) /\ Holds(d, HeapLock)
  BY Zenon, <1>1 DEF HeapInv, CallAtLock, Holds
<1> QED BY Zenon, <1>2, HeapAssumption DEF IInv, MutualExclusion

\* A new call.
LEMMA EnterKeeps ==
  ASSUME IInv, HeapInv, NEW c \in Cores, alloc(c) \/ dealloc(c)
  PROVE  HeapInv'
<1> USE DEF HeapInv
<1>1. PICK kind \in {"alloc", "dealloc"}, b \in Blocks \cup {None} :
        /\ kind = "dealloc" => b \in held[c] \cup {None}
        /\ Enter(c, kind, b) /\ lock_read(c, HeapLock)
  BY Zenon DEF alloc, dealloc, HeapTypeOK
<1>2. HeapTypeOK'
  BY Zenon, <1>1 DEF Enter, pool, HeapTypeOK
<1>3. CallAtLock'
  BY <1>1 DEF Enter, lock_read, IInv, TypeOK, HeapTypeOK, CallAtLock, InHeap
<1>4. FoundHolds'
  BY Zenon, <1>1 DEF Enter, pool, HeapTypeOK, FoundHolds, InHeap
<1>5. CounterOwn'
  BY Zenon, <1>1 DEF Enter, pool, HeapTypeOK, CounterOwn, InHeap, Counter
<1>6. NoSharedBlock' /\ WarnsOwnFailure'
  BY Zenon, <1>1 DEF Enter, pool, HeapTypeOK, NoSharedBlock, WarnsOwnFailure
<1> QED BY Zenon, <1>2, <1>3, <1>4, <1>5, <1>6

\* The log line of a failure.
LEMMA LogKeeps ==
  ASSUME IInv, HeapInv, NEW c \in Cores, log_failure(c)
  PROVE  HeapInv'
<1> USE DEF HeapInv, log_failure
<1>1. HeapTypeOK'
  BY Zenon DEF pool, HeapTypeOK
<1>2. CallAtLock'
  BY DEF lock_read, IInv, TypeOK, HeapTypeOK, CallAtLock, InHeap
<1>3. FoundHolds' /\ CounterOwn' /\ NoSharedBlock' /\ WarnsOwnFailure'
  BY Zenon DEF pool, HeapTypeOK, FoundHolds, CounterOwn, InHeap, Counter, NoSharedBlock, WarnsOwnFailure
<1> QED BY Zenon, <1>1, <1>2, <1>3

\* The two reads of the counter.
LEMMA ReadKeeps ==
  ASSUME IInv, HeapInv, NEW c \in Cores, read_before(c) \/ read_after(c)
  PROVE  HeapInv'
<1> USE DEF HeapInv, read_before, read_after, Inside
<1>0. Counter(c) \in Nat
  BY Zenon DEF HeapTypeOK, Counter
<1>1. HeapTypeOK'
  BY Zenon, <1>0 DEF pool, HeapTypeOK
<1>2. CallAtLock'
  BY DEF At, vars, HeapTypeOK, CallAtLock, InHeap
<1>3. FoundHolds' /\ CounterOwn' /\ NoSharedBlock'
  BY DEF pool, HeapTypeOK, FoundHolds, CounterOwn, InHeap, Counter, NoSharedBlock
<1>4. WarnsOwnFailure'
  BY DEF HeapTypeOK, CounterOwn, InHeap, Counter, WarnsOwnFailure
<1> QED BY Zenon, <1>1, <1>2, <1>3, <1>4

\* The look of HeapCore.
LEMMA LookKeeps ==
  ASSUME IInv, HeapInv, NEW c \in Cores, heap_look(c)
  PROVE  HeapInv'
<1> USE DEF HeapInv, heap_look, Inside
<1>1. HeapTypeOK'
  BY Zenon DEF pool, HeapTypeOK
<1>2. CallAtLock'
  BY Zenon DEF At, vars, HeapTypeOK, CallAtLock, InHeap
<1>3. FoundHolds'
  BY DEF pool, HeapTypeOK, FoundHolds, InHeap
<1>4. CounterOwn' /\ NoSharedBlock' /\ WarnsOwnFailure'
  BY DEF pool, HeapTypeOK, CounterOwn, InHeap, Counter, NoSharedBlock, WarnsOwnFailure
<1> QED BY Zenon, <1>1, <1>2, <1>3, <1>4

\* The write of HeapCore: no other call is between its look and its last read.
LEMMA WriteKeeps ==
  ASSUME IInv, HeapInv, NEW c \in Cores, heap_write(c)
  PROVE  HeapInv'
<1> USE DEF HeapInv, heap_write, Inside
<1>0. \A d \in Cores : InHeap(d) /\ stage[d] \in {"look", "write", "after"} => d = c
  BY Zenon, AloneInHeap DEF At, InHeap
<1>1. block[c] \in Blocks \/ lost[c]
  BY Zenon, HeapAssumption DEF HeapTypeOK, FoundHolds, InHeap
<1>2. HeapTypeOK'
  BY <1>1 DEF HeapTypeOK
<1>3. CallAtLock'
  BY Zenon DEF At, vars, HeapTypeOK, CallAtLock, InHeap
<1>4. FoundHolds'
  BY <1>0 DEF HeapTypeOK, FoundHolds, InHeap
<1>5. CounterOwn'
  BY <1>0 DEF HeapTypeOK, FoundHolds, CounterOwn, InHeap, Counter
<1>6. NoSharedBlock'
  BY <1>1 DEF HeapTypeOK, FoundHolds, InHeap, NoSharedBlock
<1>7. WarnsOwnFailure'
  BY Zenon DEF HeapTypeOK, WarnsOwnFailure
<1> QED BY Zenon, <1>2, <1>3, <1>4, <1>5, <1>6, <1>7

\* The steps of lock and unlock.
LEMMA LockKeeps ==
  ASSUME IInv, HeapInv, NEW c \in Cores, lock_step(c) \/ lock_return(c)
  PROVE  HeapInv'
<1> USE DEF HeapInv
<1>1. CASE lock_step(c)
  <2>1. CallAtLock'
    BY <1>1 DEF lock_step, caller, lock_save, lock_cli, lock_acquire, lock_spin, vars, interrupt, iret,
      unlock_store, UnlockReady, At, IInv, TypeOK, HeapTypeOK, CallAtLock, InHeap
  <2> QED
    BY Zenon, <1>1, <2>1 DEF lock_step, caller, pool, HeapTypeOK, FoundHolds, CounterOwn, InHeap, Counter,
      NoSharedBlock, WarnsOwnFailure
<1>2. CASE lock_return(c)
  <2>1. CallAtLock'
    BY Zenon, <1>2 DEF lock_return, unlock_restore, At, IInv, TypeOK, HeapTypeOK, CallAtLock, InHeap
  <2> QED
    BY <1>2, <2>1 DEF lock_return, pool, HeapTypeOK, FoundHolds, CounterOwn, InHeap, Counter,
      NoSharedBlock, WarnsOwnFailure
<1> QED BY Zenon, <1>1, <1>2

\* The allocator's invariant, on any number of cores.
THEOREM HeapInvariance == HeapSpec => [](IInv /\ HeapInv)
<1>1. HeapInit => IInv /\ HeapInv
  <2> SUFFICES ASSUME HeapInit PROVE IInv /\ HeapInv
    BY Zenon
  <2>1. IInv
    BY Zenon, InitIInv DEF HeapInit
  <2>2. HeapTypeOK /\ CallAtLock
    BY Zenon DEF HeapInit, Init, HeapTypeOK, CallAtLock, InHeap
  <2>3. FoundHolds /\ CounterOwn /\ NoSharedBlock /\ WarnsOwnFailure
    BY Zenon DEF HeapInit, FoundHolds, CounterOwn, InHeap, NoSharedBlock, WarnsOwnFailure
  <2> QED BY Zenon, <2>1, <2>2, <2>3 DEF HeapInv
<1>2. IInv /\ HeapInv /\ [HeapNext]_heapVars => (IInv /\ HeapInv)'
  <2> SUFFICES ASSUME IInv, HeapInv, [HeapNext]_heapVars PROVE IInv' /\ HeapInv'
    BY Zenon
  <2>1. IInv'
    BY Zenon, HeapStepIsLockStep, NextIInv
  <2>2. ASSUME UNCHANGED heapVars PROVE HeapInv'
    BY <2>2 DEF heapVars, vars, caller, pool, HeapInv, HeapTypeOK, CallAtLock, FoundHolds, CounterOwn,
      InHeap, Counter, NoSharedBlock, WarnsOwnFailure
  <2> QED BY Zenon, <2>1, <2>2, EnterKeeps, LogKeeps, ReadKeeps, LookKeeps, WriteKeeps, LockKeeps
      DEF HeapNext, HeapStep
<1> QED BY <1>1, <1>2, PTL DEF HeapSpec

\* No block is in two hands, or in one and in the heap.
THEOREM NoSharedBlockHolds == HeapSpec => []NoSharedBlock
<1>1. HeapInv => NoSharedBlock BY Zenon DEF HeapInv
<1> QED BY <1>1, HeapInvariance, PTL

\* A core warns of a failure exactly when its own call failed.
THEOREM WarnsOwnFailureHolds == HeapSpec => []WarnsOwnFailure
<1>1. HeapInv => WarnsOwnFailure BY Zenon DEF HeapInv
<1> QED BY <1>1, HeapInvariance, PTL

\* The allocator, as its locks see it, is a behaviour of SpinLock.
THEOREM HeapUsesLocks == HeapSpec => Spec
<1>1. HeapInit => Init BY Zenon DEF HeapInit
<1>2. [HeapNext]_heapVars => [Next]_vars BY Zenon, HeapStepIsLockStep
<1> QED BY <1>1, <1>2, PTL DEF HeapSpec, Spec

\* So after boot a call of the allocator returns with the interrupt flag it was
\* made with.
THEOREM HeapRestoresIF ==
  ASSUME Masked = {} PROVE HeapSpec => IFRestored
<1> QED BY HeapUsesLocks, IFRestoredAfterBoot, PTL

-----------------------------------------------------------------------------
Sending   == {"send", "unlock"}
LogPlaces == {"nothing", "fmt", "copy", "put", "lock"} \cup Sending
Texts     == Cores \cup {NoCore}

\* The types of the log's variables.
LogTypeOK ==
  /\ doing \in [Cores -> LogPlaces] /\ k \in [Cores -> Cells]
  /\ FMT_BUF \in [Cells -> Texts] /\ LOG_BUF \in [Cells -> Texts]
  /\ copy \in [Cores -> [Cells -> Texts]]
  /\ line \in Seq([by : Cores, text : Texts])

\* A core is in lock or unlock exactly when it is sending, at the port's lock,
\* and loops start at the first cell.
LogAtLock ==
  \A c \in Cores :
    /\ pc[c] = "out" <=> doing[c] \notin Sending
    /\ doing[c] \in Sending => target[c] = SerialPort
    /\ pc[c] \in {"save", "cli", "spin"} => doing[c] = "send" /\ k[c] = 1
    /\ pc[c] = "restore" => doing[c] = "unlock"
    /\ doing[c] \in {"nothing", "lock", "unlock"} => k[c] = 1

\* The holder's position is the length of the line, which is empty without a
\* holder.
LineSent ==
  /\ \A c \in Cores : Holds(c, SerialPort) =>
       Len(line) = IF doing[c] = "send" THEN k[c] - 1 ELSE Width
  /\ (\A c \in Cores : ~Holds(c, SerialPort)) => line = <<>>

LogInv == LogTypeOK /\ LogAtLock /\ LineSent /\ Contiguous

-----------------------------------------------------------------------------
\* Every step of the log is a step of its lock, or none.
LEMMA LogStepIsLockStep == ASSUME [LogNext]_logVars PROVE [Next]_vars
<1>1. ASSUME NEW c \in Cores, serial_lock(c) PROVE Next
  BY Zenon, <1>1, LogAssumption DEF serial_lock, Next, CoreStep
<1>2. ASSUME NEW c \in Cores, serial_step(c) \/ serial_unlock(c) \/ serial_return(c) PROVE Next
  BY Zenon, <1>2 DEF serial_step, serial_unlock, serial_return, Next, CoreStep, LockStep
<1>3. ASSUME NEW c \in Cores,
             \/ log_literal(c) \/ log_hex(c) \/ fmt_put(c) \/ log_copy(c) \/ log_put(c)
             \/ serial_send(c)
      PROVE UNCHANGED vars
  BY Zenon, <1>3 DEF log_literal, log_hex, fmt_put, log_copy, log_put, serial_send, Outside
<1>4. CASE UNCHANGED logVars
  BY Zenon, <1>4 DEF logVars
<1> QED BY Zenon, <1>1, <1>2, <1>3, <1>4 DEF LogNext, LogStep

\* A step that does not touch the port: the line, its lock and who sends.
LEMMA OffPort ==
  ASSUME LogInv, LogTypeOK', UNCHANGED <<vars, line>>, NEW c \in Cores,
         doing[c] \notin Sending, doing'[c] \notin Sending,
         doing'[c] \in {"nothing", "lock"} => k'[c] = 1,
         \A d \in Cores \ {c} : doing'[d] = doing[d] /\ k'[d] = k[d]
  PROVE  LogInv'
<1>1. LogAtLock'
  BY Zenon DEF vars, LogInv, LogTypeOK, LogAtLock, Sending
<1>2. LineSent'
  BY DEF vars, LogInv, LogAtLock, LineSent, Holds
<1>3. Contiguous'
  BY Zenon DEF vars, LogInv, Contiguous, Holds
<1> QED BY Zenon, <1>1, <1>2, <1>3 DEF LogInv

\* A step of a loop over a buffer stays within it.
LEMMA LoopTypes ==
  ASSUME LogTypeOK, NEW c \in Cores, NEW at, NEW after \in LogPlaces, Loop(c, at, after)
  PROVE  k[c] \in Cells /\ k' \in [Cores -> Cells] /\ doing' \in [Cores -> LogPlaces]
<1>1. k[c] \in Cells /\ 1 \in Cells /\ (k[c] < Width => k[c] + 1 \in Cells)
  BY LogAssumption DEF LogTypeOK, Cells
<1> QED BY Zenon, <1>1 DEF Loop, LogTypeOK

\* A sequence with one more element.
LEMMA Appended ==
  ASSUME NEW S, NEW s \in Seq(S), NEW e \in S
  PROVE  /\ Append(s, e) \in Seq(S) /\ Len(Append(s, e)) = Len(s) + 1
         /\ \A i \in 1 .. Len(s) + 1 :
              Append(s, e)[i] = IF i <= Len(s) THEN s[i] ELSE e
OBVIOUS

\* The empty sequence.
LEMMA Empty == ASSUME NEW S PROVE <<>> \in Seq(S)
OBVIOUS

\* The elements of a sequence over a set are in it.
LEMMA Element ==
  ASSUME NEW S, NEW s \in Seq(S), NEW i \in 1 .. Len(s) PROVE s[i] \in S
OBVIOUS

\* What is on the port was sent by cores.
LEMMA SentByCores ==
  ASSUME LogTypeOK PROVE \A i \in 1 .. Len(line) : line[i].by \in Cores
<1>1. ASSUME NEW i \in 1 .. Len(line) PROVE line[i] \in [by : Cores, text : Texts]
  <2>1. line \in Seq([by : Cores, text : Texts]) BY Zenon DEF LogTypeOK
  <2> QED BY Zenon, <2>1, Element
<1> QED BY Zenon, <1>1

\* The message is put together outside the lock.
LEMMA BuildKeeps ==
  ASSUME LogInv, NEW c \in Cores,
         log_literal(c) \/ log_hex(c) \/ fmt_put(c) \/ log_copy(c) \/ log_put(c)
  PROVE  LogInv'
<1>0. LogTypeOK /\ {"fmt", "copy", "put", "lock"} \subseteq LogPlaces
  BY Zenon DEF LogInv, LogPlaces
<1>1. CASE log_literal(c) \/ log_hex(c)
  <2>1. LogTypeOK'
    <3>1. UNCHANGED <<FMT_BUF, LOG_BUF, k, line>> /\ doing' \in [Cores -> LogPlaces]
      BY Zenon, <1>0, <1>1 DEF log_literal, log_hex, Outside, Goes, texts, LogTypeOK
    <3>2. copy' \in [Cores -> [Cells -> Texts]]
      BY <1>0, <1>1 DEF log_literal, log_hex, texts, LogTypeOK, Texts
    <3> QED BY Zenon, <1>0, <3>1, <3>2 DEF LogTypeOK
  <2> QED BY Zenon, <1>1, <2>1, OffPort
      DEF log_literal, log_hex, Outside, Goes, LogInv, LogTypeOK, LogPlaces, Sending
<1>2. CASE fmt_put(c)
  <2>0. Loop(c, "fmt", "copy") BY Zenon, <1>2 DEF fmt_put
  <2>1. LogTypeOK' BY Zenon, <1>0, <1>2, <2>0, LoopTypes DEF fmt_put, Outside, LogTypeOK, Texts
  <2> QED BY Zenon, <1>2, <2>1, OffPort DEF fmt_put, Outside, Loop, LogInv, LogTypeOK, LogPlaces, Sending
<1>3. CASE log_copy(c)
  <2>0. Loop(c, "copy", "put") BY Zenon, <1>3 DEF log_copy
  <2>1. LogTypeOK' BY Zenon, <1>0, <1>3, <2>0, LoopTypes DEF log_copy, Outside, LogTypeOK
  <2> QED BY Zenon, <1>3, <2>1, OffPort DEF log_copy, Outside, Loop, LogInv, LogTypeOK, LogPlaces, Sending
<1>4. CASE log_put(c)
  <2>0. Loop(c, "put", "lock") BY Zenon, <1>4 DEF log_put
  <2>1. LogTypeOK' BY SMTT(30), <1>0, <1>4, <2>0, LoopTypes DEF log_put, Outside, LogTypeOK
  <2> QED BY SMTT(30), <1>4, <2>1, OffPort DEF log_put, Outside, Loop, LogInv, LogTypeOK, LogPlaces, Sending
<1> QED BY Zenon, <1>1, <1>2, <1>3, <1>4

\* The steps of lock, with the interrupts around it: the one that gets the lock
\* finds no holder, so an empty line.
LEMMA PortLockKeeps ==
  ASSUME IInv, LogInv, NEW c \in Cores, serial_lock(c) \/ serial_step(c)
  PROVE  LogInv'
<1> USE DEF LogInv
<1>1. LogTypeOK' /\ UNCHANGED <<k, line>>
  BY Zenon DEF serial_lock, serial_step, Goes, texts, LogTypeOK, LogPlaces, Sending
<1>2. LogAtLock'
  BY DEF serial_lock, serial_step, Goes, lock_read, lock_save, lock_cli, lock_acquire, lock_spin, vars,
    boot_sti, interrupt, iret, At, IInv, TypeOK, LogTypeOK, LogAtLock, Sending
<1>3. CASE lock_acquire(c) /\ UNCHANGED doing
  <2>1. target[c] = SerialPort /\ doing[c] = "send" /\ k[c] = 1
    BY Zenon, <1>3 DEF lock_acquire, At, LogAtLock, Sending
  <2>2. \A d \in Cores : ~Holds(d, SerialPort)
    BY Zenon, <1>3, <2>1, LogAssumption DEF lock_acquire, IInv, FlagHeld
  <2>3. line' = <<>> /\ Len(line') = 0
    BY Zenon, <1>1, <2>2 DEF LineSent
  <2>4. \A d \in Cores : Holds(d, SerialPort)' => d = c
    BY Zenon, <1>3, <2>2 DEF lock_acquire, Holds, IInv, TypeOK
  <2>5. Holds(c, SerialPort)'
    BY Zenon, <1>3, <2>1 DEF lock_acquire, Holds, IInv, TypeOK
  <2>6. LineSent'
    BY <1>1, <1>3, <2>1, <2>3, <2>4, <2>5 DEF LineSent
  <2>7. Contiguous'
    BY <2>3, LogAssumption DEF Contiguous
  <2> QED BY Zenon, <1>1, <1>2, <2>6, <2>7
<1>4. CASE ~lock_acquire(c)
  <2>1. \A d \in Cores : Holds(d, SerialPort)' <=> Holds(d, SerialPort)
    BY Zenon, <1>4 DEF serial_lock, serial_step, lock_read, lock_save, lock_cli, lock_spin, vars,
      boot_sti, interrupt, iret, At, Holds, IInv, TypeOK
  <2>2. \A d \in Cores : Holds(d, SerialPort) => doing'[d] = doing[d]
    BY Zenon DEF serial_lock, serial_step, Goes, lock_read, At, Holds, LogTypeOK
  <2>3. LineSent'
    BY Zenon, <1>1, <2>1, <2>2 DEF LineSent
  <2>4. \A i \in 1 .. Len(line) : line[i].by \in Cores
    BY Zenon, SentByCores
  <2>5. Contiguous'
    BY Zenon, <1>1, <2>1, <2>4 DEF Contiguous
  <2> QED BY Zenon, <1>1, <1>2, <2>3, <2>5
<1> QED BY Zenon, <1>3, <1>4 DEF serial_lock, serial_step, lock_read, lock_acquire, At

\* A byte is sent by the only holder.
LEMMA SendKeeps ==
  ASSUME IInv, LogInv, NEW c \in Cores, serial_send(c)
  PROVE  LogInv'
<1> USE DEF LogInv
<1>w. Width \in Nat /\ 1 \in Cells /\ Cells \subseteq Nat
  BY LogAssumption DEF Cells
<1>1. /\ k[c] \in Cells /\ k[c] \in Nat /\ Holds(c, SerialPort) /\ Len(line) = k[c] - 1
      /\ \A d \in Cores : Holds(d, SerialPort) => d = c
  <2>1. k[c] \in Cells /\ Holds(c, SerialPort)
    BY Zenon DEF serial_send, Loop, At, LogTypeOK, LogAtLock, Holds, Sending
  <2>2. Len(line) = k[c] - 1
    BY <2>1 DEF serial_send, Loop, LineSent
  <2> QED BY Zenon, <1>w, <2>1, <2>2, LogAssumption DEF IInv, MutualExclusion
<1> DEFINE sent == [by |-> c, text |-> LOG_BUF[k[c]]]
<1>2. sent \in [by : Cores, text : Texts] /\ sent.by = c
  BY Zenon, <1>1 DEF LogTypeOK
<1>3. /\ line' = Append(line, sent) /\ line' \in Seq([by : Cores, text : Texts])
      /\ Len(line') = k[c]
      /\ \A i \in 1 .. Len(line') : line'[i] = IF i <= Len(line) THEN line[i] ELSE sent
  <2>1. line \in Seq([by : Cores, text : Texts]) /\ line' = Append(line, sent)
    BY Zenon DEF LogTypeOK, serial_send
  <2> HIDE DEF sent
  <2> QED BY <1>1, <1>2, <2>1, Appended
<1> HIDE DEF sent
<1>4. LogTypeOK'
  <2>1. Loop(c, "send", "unlock") /\ "unlock" \in LogPlaces
    BY Zenon DEF serial_send, LogPlaces, Sending
  <2> QED BY Zenon, <1>3, <2>1, LoopTypes DEF serial_send, texts, LogTypeOK
<1>5. /\ UNCHANGED vars /\ \A d \in Cores \ {c} : doing'[d] = doing[d] /\ k'[d] = k[d]
      /\ \/ doing'[c] = "send" /\ k'[c] = k[c] + 1
         \/ doing'[c] = "unlock" /\ k'[c] = 1 /\ k[c] = Width
  BY Zenon DEF serial_send, Loop, LogTypeOK
<1>6. \A d \in Cores : Holds(d, SerialPort)' <=> Holds(d, SerialPort)
  BY Zenon, <1>5 DEF vars, Holds
<1>7. LogAtLock'
  <2>1. pc[c] = "critical" /\ target[c] = SerialPort BY Zenon, <1>1 DEF Holds
  <2> QED BY <1>5, <2>1 DEF vars, LogAtLock, Sending
<1>8. LineSent'
  BY SMTT(30), <1>1, <1>3, <1>5, <1>6 DEF LineSent
<1>9. Contiguous'
  <2>1. k[c] <= Width BY <1>1, <1>w DEF Cells
  <2>2. \A i \in 1 .. Len(line') : line'[i].by \in Cores /\ Holds(line'[i].by, SerialPort)
    <3>1. Len(line) \in Nat BY DEF LogTypeOK
    <3> QED BY <1>1, <1>2, <1>3, <3>1, SentByCores DEF Contiguous
  <2> QED BY Zenon, <1>3, <1>6, <2>1, <2>2 DEF Contiguous
<1> QED BY Zenon, <1>4, <1>7, <1>8, <1>9

\* The end of the line and the return from unlock.
LEMMA PortUnlockKeeps ==
  ASSUME IInv, LogInv, NEW c \in Cores, serial_unlock(c) \/ serial_return(c)
  PROVE  LogInv'
<1> USE DEF LogInv
<1>1. LogTypeOK'
  <2>0. "nothing" \in LogPlaces BY Zenon DEF LogPlaces
  <2>1. UNCHANGED <<texts, k>> /\ (doing' = doing \/ doing' = [doing EXCEPT ![c] = "nothing"])
    BY Zenon DEF serial_unlock, serial_return, Goes
  <2>2. line' = line \/ line' = <<>>
    BY Zenon DEF serial_unlock, serial_return
  <2>3. line' \in Seq([by : Cores, text : Texts])
    BY Zenon, <2>2, Empty DEF LogTypeOK
  <2>4. doing' \in [Cores -> LogPlaces]
    BY Zenon, <2>0, <2>1 DEF LogTypeOK
  <2> QED BY Zenon, <2>1, <2>3, <2>4 DEF texts, LogTypeOK
<1>2. LogAtLock'
  BY DEF serial_unlock, serial_return, Goes, unlock_store, unlock_restore, At, IInv, TypeOK, LogTypeOK,
    LogAtLock, Sending
<1>3. CASE serial_unlock(c)
  <2>1. Holds(c, SerialPort)
    BY Zenon, <1>3 DEF serial_unlock, unlock_store, At, LogAtLock, Holds, Sending
  <2>2. \A d \in Cores : ~Holds(d, SerialPort)'
    BY Zenon, <1>3, <2>1, LogAssumption DEF serial_unlock, unlock_store, Holds, IInv, TypeOK, MutualExclusion
  <2>3. line' = <<>> /\ Len(line') = 0
    BY Zenon, <1>3 DEF serial_unlock
  <2> QED BY <1>1, <1>2, <2>2, <2>3, LogAssumption DEF LineSent, Contiguous
<1>4. CASE serial_return(c)
  <2>1. \A d \in Cores : Holds(d, SerialPort)' <=> Holds(d, SerialPort)
    BY Zenon, <1>4 DEF serial_return, unlock_restore, At, Holds, IInv, TypeOK
  <2>2. \A d \in Cores : Holds(d, SerialPort) => doing'[d] = doing[d]
    BY Zenon, <1>4 DEF serial_return, Goes, unlock_restore, At, Holds, LogTypeOK
  <2>3. UNCHANGED <<k, line>> /\ \A i \in 1 .. Len(line) : line[i].by \in Cores
    BY Zenon, <1>4, SentByCores DEF serial_return
  <2>4. LineSent'
    BY Zenon, <2>1, <2>2, <2>3 DEF LineSent
  <2>5. Contiguous'
    BY Zenon, <2>1, <2>3 DEF Contiguous
  <2> QED BY Zenon, <1>1, <1>2, <2>4, <2>5
<1> QED BY Zenon, <1>3, <1>4

\* The log's invariant, on any number of cores and for lines of any length.
THEOREM LogInvariance == LogSpec => [](IInv /\ LogInv)
<1>1. LogInit => IInv /\ LogInv
  <2> SUFFICES ASSUME LogInit PROVE IInv /\ LogInv
    BY Zenon
  <2>1. IInv BY Zenon, InitIInv DEF LogInit
  <2>2. 1 \in Cells /\ Width \in Nat BY LogAssumption DEF Cells
  <2>3. LogTypeOK
    BY <2>2 DEF LogInit, LogTypeOK, LogPlaces, Texts, Blanks
  <2>4. LogAtLock /\ LineSent /\ Contiguous
    BY <2>2 DEF LogInit, Init, LogAtLock, LineSent, Contiguous, Holds, Sending
  <2> QED BY Zenon, <2>1, <2>3, <2>4 DEF LogInv
<1>2. IInv /\ LogInv /\ [LogNext]_logVars => (IInv /\ LogInv)'
  <2> SUFFICES ASSUME IInv, LogInv, [LogNext]_logVars PROVE IInv' /\ LogInv'
    BY Zenon
  <2>1. IInv' BY Zenon, LogStepIsLockStep, NextIInv
  <2>2. ASSUME UNCHANGED logVars PROVE LogInv'
    BY Zenon, <2>2 DEF logVars, vars, texts, LogInv, LogTypeOK, LogAtLock, LineSent, Contiguous, Holds
  <2> QED BY SMTT(30), <2>1, <2>2, BuildKeeps, PortLockKeeps, SendKeeps, PortUnlockKeeps DEF LogNext, LogStep
<1> QED BY <1>1, <1>2, PTL DEF LogSpec

\* Between two ends of line all bytes on the port are the lock holder's, and
\* never more than one line's.
THEOREM ContiguousHolds == LogSpec => []Contiguous
<1>1. LogInv => Contiguous BY Zenon DEF LogInv
<1> QED BY <1>1, LogInvariance, PTL

=============================================================================
