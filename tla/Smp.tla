-------------------------------- MODULE Smp --------------------------------
(***************************************************************************)
(* Bring-up of the application cores (src/hal/smp.rs, trampoline.asm): the *)
(* bootstrap core patches one shared trampoline per core, sends INIT and   *)
(* STARTUP, and waits up to 500 ms for the core to report RUNNING; each    *)
(* core loads the patched fields one by one and enters ap_main64.  The     *)
(* module goes on with the inter-processor interrupt of the smoke test and *)
(* the idle loop that is to log it.                                        *)
(*                                                                         *)
(* A record context stands for what a core takes from the trampoline: whose*)
(* GDT (with its TSS), whose IDT, whose stack and which index.  Logging    *)
(* goes through the serial lock of SpinLock and changes nothing here.      *)
(***************************************************************************)
EXTENDS Naturals

CONSTANTS
  N,         \* application cores, numbered 1 .. N as in the MADT
  Dead,      \* those that never start
  Slow       \* those that may start later than the 500 ms deadline

APs == 1 .. N

ASSUME SmpAssumption == N \in Nat /\ Dead \subseteq APs /\ Slow \subseteq APs

\* The patched fields in the order of the trampoline's text and loads.
Fields == <<"gdt", "idt", "stack", "cpu">>
Context == [gdt : 0 .. N, idt : 0 .. N, stack : 0 .. N, cpu : 0 .. N]
ContextOf(i) == [gdt |-> i, idt |-> i, stack |-> i, cpu |-> i]

VARIABLES
  bsp,          \* where the bootstrap core is in init and boot_ap
  cpu,          \* the core it is booting
  step,         \* fields of the trampoline copied so far
  trampoline,   \* the patched fields at TRAMPOLINE_BASE
  ap,           \* per core: where it is
  loads,        \* per core: fields loaded so far
  context,      \* per core: what it loaded
  lapic,        \* per core: local APIC software-enabled
  running,      \* per core area: state = STATE_RUNNING
  iflag,        \* per core: interrupt flag
  pending,      \* per core: IPI_VECTOR latched by the local APIC
  ipi_count, ipi_flag,      \* per core area
  taken,        \* per core: the local v of take_ipi_flag
  logged        \* per core: times it logged "IPI received on AP"

boot == <<bsp, cpu, step, trampoline>>
core == <<ap, loads, context, lapic, running, iflag>>
ipi  == <<pending, ipi_count, ipi_flag, taken, logged>>
smp_vars == <<boot, core, ipi>>

SmpInit ==
  /\ bsp = "next" /\ cpu = 1 /\ step = 0
  /\ trampoline = ContextOf(0)
  /\ ap = [i \in APs |-> "reset"]
  /\ loads = [i \in APs |-> 0]
  /\ context = [i \in APs |-> ContextOf(0)]
  /\ lapic = [i \in APs |-> FALSE]
  /\ running = [i \in APs |-> FALSE]
  /\ iflag = [i \in APs |-> FALSE]
  /\ pending = [i \in APs |-> FALSE]
  /\ ipi_count = [i \in APs |-> 0]
  /\ ipi_flag = [i \in APs |-> FALSE]
  /\ taken = [i \in APs |-> FALSE]
  /\ logged = [i \in APs |-> 0]

-----------------------------------------------------------------------------
(* The bootstrap core: the loop of init and the body of boot_ap.           *)

BspGoes(from, to) == bsp = from /\ bsp' = to

\* The stack of the next core; when the heap has none boot_ap returns.
boot_stack ==
  /\ cpu <= N
  /\ \/ BspGoes("next", "copy") /\ UNCHANGED cpu
     \/ BspGoes("next", "next") /\ cpu' = cpu + 1
  /\ UNCHANGED <<step, trampoline, core, ipi>>

\* copy_nonoverlapping to TRAMPOLINE_BASE, field by field.
boot_copy ==
  /\ bsp = "copy"
  /\ trampoline' = [trampoline EXCEPT ![Fields[step + 1]] = cpu]
  /\ \/ step < 3 /\ step' = step + 1 /\ bsp' = "copy"
     \/ step = 3 /\ step' = 0 /\ bsp' = "init"
  /\ UNCHANGED <<cpu, core, ipi>>

\* send_init resets the core and its local APIC.
boot_init ==
  /\ BspGoes("init", "sipi1")
  /\ ap' = [ap EXCEPT ![cpu] = "wait_sipi"]
  /\ UNCHANGED <<cpu, step, trampoline, loads, context, lapic, running, iflag, ipi>>

\* send_sipi, twice; a core that has started ignores the second one.
boot_sipi ==
  /\ BspGoes("sipi1", "sipi2") \/ BspGoes("sipi2", "wait")
  /\ \/ cpu \notin Dead /\ ap[cpu] = "wait_sipi" /\ ap' = [ap EXCEPT ![cpu] = "trampoline"]
     \/ (cpu \in Dead \/ ap[cpu] # "wait_sipi") /\ UNCHANGED ap
  /\ UNCHANGED <<cpu, step, trampoline, loads, context, lapic, running, iflag, ipi>>

\* Mutant: the next core is booted without waiting for this one.
boot_hurry ==
  /\ BspGoes("wait", "next")
  /\ cpu' = cpu + 1
  /\ UNCHANGED <<step, trampoline, core, ipi>>

boot_online ==
  /\ BspGoes("wait", "next")
  /\ running[cpu]
  /\ cpu' = cpu + 1
  /\ UNCHANGED <<step, trampoline, core, ipi>>

\* Mutant: the wait has no deadline.
boot_no_timeout == FALSE

\* The deadline passed before the core reported RUNNING.
boot_timeout ==
  /\ BspGoes("wait", "next")
  /\ cpu \in Slow \cup Dead /\ ~running[cpu]
  /\ cpu' = cpu + 1
  /\ UNCHANGED <<step, trampoline, core, ipi>>

\* The smoke test after the loop; a disabled local APIC drops the interrupt.
ping ==
  /\ cpu > N
  /\ \/ /\ N >= 1 /\ running[1]
        /\ BspGoes("next", "pinged")
        /\ pending' = [pending EXCEPT ![1] = lapic[1]]
     \/ /\ N = 0 \/ ~running[1]
        /\ BspGoes("next", "done")
        /\ UNCHANGED pending
  /\ UNCHANGED <<cpu, step, trampoline, core, ipi_count, ipi_flag, taken, logged>>

BspStep ==
  \/ boot_stack \/ boot_copy \/ boot_init \/ boot_sipi
  \/ boot_online \/ boot_timeout \/ ping

-----------------------------------------------------------------------------
(* Application core i: the trampoline, then ap_main64(context[i].cpu).     *)

ApGoes(i, from, to) == ap[i] = from /\ ap' = [ap EXCEPT ![i] = to]

\* lgdt and ltr, lidt, mov rsp, mov rdi, each from the shared page.
ap_load(i) ==
  /\ context' = [context EXCEPT ![i][Fields[loads[i] + 1]] =
                                  trampoline[Fields[loads[i] + 1]]]
  /\ \/ loads[i] < 3 /\ ApGoes(i, "trampoline", "trampoline")
        /\ loads' = [loads EXCEPT ![i] = loads[i] + 1]
     \/ loads[i] = 3 /\ ApGoes(i, "trampoline", "enable") /\ UNCHANGED loads
  /\ UNCHANGED <<boot, lapic, running, iflag, ipi>>

\* Mutant: the local APIC is enabled only after RUNNING was reported.
ap_enable_late(i) ==
  /\ ApGoes(i, "enable", "state")
  /\ UNCHANGED <<boot, loads, context, lapic, running, iflag, ipi>>

ap_enable(i) ==
  /\ ApGoes(i, "enable", "state")
  /\ lapic' = [lapic EXCEPT ![i] = TRUE]
  /\ UNCHANGED <<boot, loads, context, running, iflag, ipi>>

ap_set_running(i) ==
  /\ ApGoes(i, "state", "sti")
  /\ running' = [running EXCEPT ![context[i].cpu] = TRUE]
  /\ UNCHANGED <<boot, loads, context, lapic, iflag, ipi>>

ap_sti(i) ==
  /\ ApGoes(i, "sti", "take_read")
  /\ iflag' = [iflag EXCEPT ![i] = TRUE]
  /\ UNCHANGED <<boot, loads, context, lapic, running, ipi>>

\* take_ipi_flag is a read and a write.
take_read(i) ==
  /\ ApGoes(i, "take_read", "take_clear")
  /\ taken' = [taken EXCEPT ![i] = ipi_flag[context[i].cpu]]
  /\ UNCHANGED <<boot, loads, context, lapic, running, iflag, pending,
                 ipi_count, ipi_flag, logged>>

take_clear(i) ==
  /\ \/ taken[i] /\ ApGoes(i, "take_clear", "log")
     \/ ~taken[i] /\ ApGoes(i, "take_clear", "hlt")
  /\ ipi_flag' = [ipi_flag EXCEPT ![context[i].cpu] = FALSE]
  /\ UNCHANGED <<boot, loads, context, lapic, running, iflag, pending,
                 ipi_count, taken, logged>>

ap_log(i) ==
  /\ ApGoes(i, "log", "take_read")
  /\ logged' = [logged EXCEPT ![i] = logged[i] + 1]
  /\ UNCHANGED <<boot, loads, context, lapic, running, iflag, pending,
                 ipi_count, ipi_flag, taken>>

\* hlt stops the core until an interrupt; its handler returns behind it.
ap_hlt(i) ==
  /\ ApGoes(i, "hlt", "halted")
  /\ UNCHANGED <<boot, loads, context, lapic, running, iflag, ipi>>

ApStep(i) ==
  \/ ap_load(i) \/ ap_enable(i) \/ ap_set_running(i) \/ ap_sti(i)
  \/ take_read(i) \/ take_clear(i) \/ ap_log(i) \/ ap_hlt(i)

\* The interrupt is delivered between two instructions: current_cpu_index
\* finds the area by APIC id, so it is the core's own.
handle_ipi(i) ==
  /\ pending[i] /\ iflag[i]
  /\ pending' = [pending EXCEPT ![i] = FALSE]
  /\ ipi_count' = [ipi_count EXCEPT ![i] = ipi_count[i] + 1]
  /\ ipi_flag' = [ipi_flag EXCEPT ![i] = TRUE]
  /\ ap' = [ap EXCEPT ![i] = IF ap[i] = "halted" THEN "take_read" ELSE ap[i]]
  /\ UNCHANGED <<boot, loads, context, lapic, running, iflag, taken, logged>>

SmpNext == BspStep \/ \E i \in APs : ApStep(i) \/ handle_ipi(i)

SmpSpec == SmpInit /\ [][SmpNext]_smp_vars

\* Every core that runs keeps running, and a latched interrupt is delivered.
SmpFairSpec ==
  /\ SmpSpec
  /\ WF_smp_vars(BspStep)
  /\ \A i \in APs : WF_smp_vars(ApStep(i)) /\ WF_smp_vars(handle_ipi(i))

-----------------------------------------------------------------------------
\* The type of every variable.
SmpTypeOK ==
  /\ bsp \in {"next", "copy", "init", "sipi1", "sipi2", "wait", "pinged", "done"}
  /\ cpu \in 1 .. N + 1 /\ step \in 0 .. 3
  /\ trampoline \in Context
  /\ ap \in [APs -> {"reset", "wait_sipi", "trampoline", "enable", "state", "sti",
                     "take_read", "take_clear", "log", "hlt", "halted"}]
  /\ loads \in [APs -> 0 .. 3]
  /\ context \in [APs -> Context]
  /\ lapic \in [APs -> BOOLEAN] /\ running \in [APs -> BOOLEAN]
  /\ iflag \in [APs -> BOOLEAN] /\ pending \in [APs -> BOOLEAN]
  /\ ipi_count \in [APs -> Nat] /\ ipi_flag \in [APs -> BOOLEAN]
  /\ taken \in [APs -> BOOLEAN] /\ logged \in [APs -> Nat]

\* Core i executes ap_main64.
InMain(i) == ap[i] \notin {"reset", "wait_sipi", "trampoline"}

\* trampoline.asm:7, a secondary core "loads its per-CPU GDT/TSS/IDT/stack": no
\* core enters ap_main64 with a descriptor table, a stack or an index that
\* boot_ap prepared for another.
OwnContext == \A i \in APs : InMain(i) => context[i] = ContextOf(i)

\* The BSP reports a core online, and may send it interrupts, only when that
\* core itself is in ap_main64 with its local APIC enabled.
OnlineHonest == \A i \in APs : running[i] => InMain(i) /\ lapic[i]

\* A core that never starts costs its timeout, not the boot.
BootEnds == <>(bsp \in {"pinged", "done"})

\* The ping is not dropped although it may precede the core's sti.
PingDelivered == bsp = "pinged" ~> ipi_count[1] > 0

\* smp.rs:67, "single-writer/single-reader handshakes": an interrupt whose
\* handler set ipi_flag is seen by the idle loop.
PingLogged == bsp = "pinged" ~> logged[1] > 0

=============================================================================
