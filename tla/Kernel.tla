------------------------------- MODULE Kernel -------------------------------
(***************************************************************************)
(* The main thread of the kernel and the devices it polls, src/main.rs:    *)
(* the ACPI tables, then the disk, then what the shell's commands ask for: *)
(* sectors and the date, one call at a time, until shutdown.  The drive    *)
(* and the clock go on by themselves.                                      *)
(***************************************************************************)
EXTENDS Acpi, Ata, Rtc

vars == <<acpi_vars, ata_vars, rtc_vars>>

Init == AcpiInit /\ AtaInit /\ RtcInit

\* No call is in progress.
Ready == acpi_pc = "done" /\ ata_pc \in {"idle", "absent"} /\ rtc_pc = "idle"

Booting == AcpiStep /\ UNCHANGED <<ata_vars, rtc_vars>>
Probing == acpi_pc = "done" /\ probe /\ UNCHANGED <<acpi_vars, rtc_vars>>

DiskCall ==
  /\ Ready
  /\ \E l \in Lbas : read_sector(l) \/ \E d \in Sectors : write_sector(l, d)
  /\ RtcForgotten /\ UNCHANGED acpi_vars
DateCall == Ready /\ read_datetime /\ AtaForgotten /\ UNCHANGED acpi_vars
Shutdown == Ready /\ shutdown /\ AtaForgotten /\ RtcForgotten

Driver == AtaStep /\ UNCHANGED <<acpi_vars, rtc_vars>>
Dating == RtcStep /\ UNCHANGED <<acpi_vars, ata_vars>>
Drive  == drive_works /\ UNCHANGED <<acpi_vars, rtc_vars>>
Clock  == tick /\ UNCHANGED <<acpi_vars, ata_vars>>

Next ==
  \/ Booting \/ Probing \/ DiskCall \/ DateCall \/ Shutdown
  \/ Driver \/ Dating \/ Drive \/ Clock

Spec == Init /\ [][Next]_vars

\* The processor goes on, and a drive that is at work comes to an end.
FairSpec == Spec /\ WF_vars(Booting \/ Probing \/ Driver \/ Dating) /\ WF_vars(Drive)

\* A drive may also report a device fault.
Fault     == drive_fault /\ UNCHANGED <<acpi_vars, rtc_vars>>
FaultSpec ==
  /\ Init /\ [][Next \/ Fault]_vars
  /\ WF_vars(Booting \/ Probing \/ Driver \/ Dating) /\ WF_vars(Drive \/ Fault)

-----------------------------------------------------------------------------
\* The kernel comes back from every call and from the boot, although wait_bsy,
\* wait_drq and wait_for_drq have no timeout and the clock may tick in every
\* pass, as long as the drive does not report a device fault.
KernelReturns == []<>(Ready \/ acpi_pc = "off")

=============================================================================
