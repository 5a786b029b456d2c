------------------------------- MODULE Fault -------------------------------
(***************************************************************************)
(* fault of src/hal/idt.rs: a core that takes an exception (or an NMI,     *)
(* which no cli masks) logs it under the serial lock and halts for good.   *)
(* It never goes on with what it was doing, so a lock it held stays taken. *)
(***************************************************************************)
EXTENDS SpinLock

CONSTANTS
  Serial,        \* the lock serial_debug takes
  FaultAt        \* where in its code a core may fault

ASSUME FaultAssumption == Serial \in Locks

VARIABLE fate    \* per core: "runs", "logs" its fault, or "halted"

faultVars == <<vars, fate>>

FaultInit == Init /\ fate = [c \in Cores |-> "runs"]

\* At most one core faults: what is asked is what becomes of the others.
fault(c) ==
  /\ \A d \in Cores : fate[d] = "runs"
  /\ pc[c] \in FaultAt
  /\ fate' = [fate EXCEPT ![c] = "logs"]
  /\ UNCHANGED vars

\* Mutant: the handler keeps the serial lock when it halts.
fault_log_keep(c) ==
  /\ fate[c] = "logs"
  /\ ~flag[Serial]
  /\ flag' = [flag EXCEPT ![Serial] = TRUE]
  /\ fate' = [fate EXCEPT ![c] = "halted"]
  /\ UNCHANGED <<saved_if, intr, handling, pc, target, if_set>>

\* The log lines of fault: the serial lock must be free, and is again after.
fault_log(c) ==
  /\ fate[c] = "logs"
  /\ ~flag[Serial]
  /\ fate' = [fate EXCEPT ![c] = "halted"]
  /\ UNCHANGED vars

Healthy(c) == fate[c] = "runs" /\ CoreStep(c) /\ UNCHANGED fate

FaultNext == \E c \in Cores : Healthy(c) \/ fault(c) \/ fault_log(c)

\* The cores that did not fault keep executing.
FaultSpec ==
  /\ FaultInit /\ [][FaultNext]_faultVars
  /\ \A c \in Cores :
       /\ WF_faultVars(fate[c] = "runs" /\ LockStep(c) /\ UNCHANGED fate)
       /\ WF_faultVars(fate[c] = "runs" /\ iret(c) /\ UNCHANGED fate)
       /\ WF_faultVars(fault_log(c))

\* idt.rs:274, "halt the offending core (other cores keep running)": while a
\* healthy core spins on a lock, healthy cores get it again and again, also
\* when no core has faulted; no set of cores waits for each other.
OthersRun ==
  \A l \in Locks :
    (\E c \in Cores : fate[c] = "runs" /\ pc[c] = "spin" /\ target[c] = l)
      ~> (\E c \in Cores : fate[c] = "runs" /\ Holds(c, l))

=============================================================================
