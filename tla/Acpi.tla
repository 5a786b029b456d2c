-------------------------------- MODULE Acpi --------------------------------
(***************************************************************************)
(* The ACPI tables, src/hal/acpi.rs: init walks the table list that the    *)
(* RSDP leads to, one table per step and one entry of the MADT per step,   *)
(* and shutdown uses what it found.  The firmware's tables are a constant  *)
(* of a run; an entry of the MADT has the type, the length and the fields  *)
(* its bytes give.                                                         *)
(***************************************************************************)
EXTENDS Naturals, Sequences

CONSTANTS
  Firmwares,       \* [rsdp, tables]
  MAX_CPUS         \* 8

ASSUME AcpiAssumption == MAX_CPUS \in Nat

VARIABLES
  firmware,
  acpi_pc,         \* "scan", "walk", "madt", "done", "off"
  table, entry,    \* numbers of the next table and of the next MADT entry
  offset,          \* off of parse_madt
  MADT,            \* lapic_base, io_apic_addr (in MB), the cpu_count APIC ids
  fadt_found,
  sleep,           \* PM1A_CNT_BLK, S5_SLP_TYPa, and what was written to PM1a
  ACPI_READY

acpi_vars ==
  <<firmware, acpi_pc, table, entry, offset, MADT, fadt_found, sleep, ACPI_READY>>

AcpiInit ==
  /\ firmware \in Firmwares /\ acpi_pc = "scan"
  /\ table = 1 /\ entry = 1 /\ offset = 0
  /\ MADT = [lapic_base |-> 4078, io_apic_addr |-> 0, cpus |-> <<>>]
  /\ fadt_found = FALSE /\ ACPI_READY = FALSE
  /\ sleep = [PM1A_CNT_BLK |-> 0, S5_SLP_TYPa |-> 0, written |-> 0]

\* No RSDP, a wrong checksum or a list out of reach: init returns.
acpi_scan ==
  /\ acpi_pc = "scan"
  /\ acpi_pc' = IF firmware.rsdp = "good" THEN "walk" ELSE "done"
  /\ UNCHANGED <<firmware, table, entry, offset, MADT, fadt_found, sleep, ACPI_READY>>

HEADER   == 44     \* bytes of a MADT before its entries
MORE     == table <= Len(firmware.tables)
This     == firmware.tables[table]
NextTable == table' = table + 1 /\ acpi_pc' = "walk"

\* A null or unmapped pointer, another table, or a MADT without entries.
table_skip ==
  /\ acpi_pc = "walk" /\ MORE
  /\ This.sig \notin {"APIC", "FACP"} \/ (This.sig = "APIC" /\ This.len < HEADER + 4)
  /\ NextTable
  /\ UNCHANGED <<firmware, entry, offset, MADT, fadt_found, sleep, ACPI_READY>>

table_madt ==
  /\ acpi_pc = "walk" /\ MORE /\ This.sig = "APIC" /\ This.len >= HEADER + 4
  /\ MADT' = [MADT EXCEPT !.lapic_base = This.lapic]
  /\ entry' = 1 /\ offset' = HEADER /\ acpi_pc' = "madt"
  /\ UNCHANGED <<firmware, table, fadt_found, sleep, ACPI_READY>>

\* parse_s5: the name with a zero behind it, a package, and a value that starts
\* right behind the length of the package.
parse_s5(dsdt) ==
  IF dsdt.reachable /\ dsdt.name = "_S5 and zero" /\ dsdt.package /\ ~dsdt.counted
  THEN dsdt.typa ELSE sleep.S5_SLP_TYPa

FadtTaken ==
  /\ acpi_pc = "walk" /\ MORE /\ This.sig = "FACP" /\ fadt_found' = TRUE
  /\ sleep' = [sleep EXCEPT !.PM1A_CNT_BLK = This.pm1a, !.S5_SLP_TYPa = parse_s5(This.dsdt)]
  /\ UNCHANGED <<firmware, entry, offset, MADT, ACPI_READY>>

\* Mutant: the walk ends with the FADT.
table_fadt_last == FadtTaken /\ table' = Len(firmware.tables) + 1 /\ acpi_pc' = "walk"

table_fadt == FadtTaken /\ NextTable

acpi_done ==
  /\ acpi_pc = "walk" /\ ~MORE
  /\ acpi_pc' = "done" /\ ACPI_READY' = fadt_found
  /\ UNCHANGED <<firmware, table, entry, offset, MADT, fadt_found, sleep>>

-----------------------------------------------------------------------------
(* parse_madt                                                              *)

\* The entry at offset; zeros follow the last one.
Zeros   == [type |-> 0, len |-> 0]
ThisEntry == IF entry <= Len(This.entries) THEN This.entries[entry] ELSE Zeros

\* What an entry adds to MADT.
Applied(e, m) ==
  CASE e.type = 0 /\ e.len >= 8 /\ e.enabled /\ Len(m.cpus) < MAX_CPUS ->
         [m EXCEPT !.cpus = Append(@, e.id)]
    [] e.type = 1 /\ e.len >= 12 -> [m EXCEPT !.io_apic_addr = e.addr]
    [] e.type = 5 /\ e.len >= 12 /\ e.addr # 0 -> [m EXCEPT !.lapic_base = e.addr]
    [] OTHER -> m

Parsable == ThisEntry.len >= 2 /\ offset + ThisEntry.len <= This.len

madt_entry ==
  /\ acpi_pc = "madt" /\ offset + 2 <= This.len /\ Parsable
  /\ MADT' = Applied(ThisEntry, MADT)
  /\ offset' = offset + ThisEntry.len /\ entry' = entry + 1
  /\ UNCHANGED <<firmware, acpi_pc, table, fadt_found, sleep,
                 ACPI_READY>>

madt_end ==
  /\ acpi_pc = "madt" /\ (offset + 2 > This.len \/ ~Parsable)
  /\ NextTable
  /\ UNCHANGED <<firmware, entry, offset, MADT, fadt_found, sleep, ACPI_READY>>

AcpiStep ==
  \/ acpi_scan \/ table_skip \/ table_madt \/ table_fadt \/ acpi_done
  \/ madt_entry \/ madt_end

SLP_EN == 2^13

\* shutdown writes to PM1a when it can, tries the debug port, and halts.
shutdown ==
  /\ acpi_pc = "done" /\ acpi_pc' = "off"
  /\ sleep' = IF sleep.PM1A_CNT_BLK # 0 /\ ACPI_READY
              THEN [sleep EXCEPT !.written = sleep.S5_SLP_TYPa * 4 + SLP_EN] ELSE sleep
  /\ UNCHANGED <<firmware, table, entry, offset, MADT, fadt_found, ACPI_READY>>

-----------------------------------------------------------------------------
\* acpi.rs:368, "ACPI initialised - S5 shutdown available": shutdown then asks
\* for the sleep type that the DSDT gives for S5 (bits 10 to 12 of PM1a).
ShutdownAvailable ==
  acpi_pc = "off" /\ ACPI_READY =>
    \E i \in 1 .. Len(firmware.tables) :
      LET t == firmware.tables[i]
      IN  t.sig = "FACP" /\ (sleep.written \div 2^10) % 8 = t.dsdt.typa

=============================================================================
