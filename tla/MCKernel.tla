------------------------------ MODULE MCKernel ------------------------------
(* What the walk over the ACPI tables finds, and small instances of the    *)
(* boot and the polled devices.                                            *)
EXTENDS Kernel, SequencesExt, FiniteSetsExt

\* The entries of a MADT that can be relied on: those before the first one that
\* is too short or does not end within the table.
Sound(t) ==
  LET End(i) == HEADER + FoldLeft(LAMBDA x, e : x + e.len, 0, SubSeq(t.entries, 1, i))
      good   == {n \in 0 .. Len(t.entries) :
                   \A i \in 1 .. n : t.entries[i].len >= 2 /\ End(i) <= t.len}
  IN  SubSeq(t.entries, 1, Max(good))

\* The first local APIC address of a table and its sound entries, in the form of
\* an override.
Listed(t) ==
  IF t.sig = "APIC" /\ t.len >= HEADER + 4
  THEN <<[type |-> 5, len |-> 12, addr |-> t.lapic]>> \o Sound(t) ELSE <<>>

\* When the walk is over MADT has the enabled cores of all MADTs, in order and
\* at most MAX_CPUS, the last I/O APIC and the local APIC's last address,
\* wherever the FADT, other tables, short ones or broken entries stand ("Keep
\* walking: other tables (e.g. MADT) follow FACP", acpi.rs:357).
CoresListed ==
  acpi_pc = "walk" /\ ~MORE =>
    LET all   == FlattenSeq([i \in 1 .. Len(firmware.tables) |-> Listed(firmware.tables[i])])
        cores == SelectSeq(all, LAMBDA e : e.type = 0 /\ e.len >= 8 /\ e.enabled)
        ios   == SelectSeq(all, LAMBDA e : e.type = 1 /\ e.len >= 12)
        bases == SelectSeq(all, LAMBDA e : e.type = 5 /\ e.len >= 12 /\ e.addr # 0)
        n     == IF Len(cores) < MAX_CPUS THEN Len(cores) ELSE MAX_CPUS
    IN  /\ MADT.cpus = [i \in 1 .. n |-> cores[i].id]
        /\ ios # <<>> => MADT.io_apic_addr = Last(ios).addr
        /\ bases # <<>> => MADT.lapic_base = Last(bases).addr

-----------------------------------------------------------------------------

Apic(n, on)     == [type |-> 0, len |-> 8, id |-> n, enabled |-> on]
IoApic(n, a)    == [type |-> 1, len |-> n, addr |-> a]
Override(n, a)  == [type |-> 5, len |-> n, addr |-> a]
Other(n)        == [type |-> 4, len |-> n]
Bytes(es)       == FoldLeft(LAMBDA x, e : x + e.len, 0, es)

\* A MADT whose length is extra bytes more, or cut bytes less, than its entries.
Madt(es, extra, cut) ==
  [sig |-> "APIC", len |-> HEADER + Bytes(es) + extra - cut, lapic |-> 1, entries |-> es]
Dsdt(n, c)   == [reachable |-> TRUE, name |-> n, package |-> TRUE, counted |-> c, typa |-> 5]
Fadt(n, c)   == [sig |-> "FACP", pm1a |-> 1, dsdt |-> Dsdt(n, c)]
Skipped      == [sig |-> "none"]

\* The FADT in front, no FADT, too many cores, entries of unexpected lengths, a
\* table that ends within an entry, at its end or behind zeros, two MADTs.
Lists == {
  <<Fadt("_S5_", TRUE), Madt(<<Apic(3, TRUE), IoApic(12, 2), Apic(7, FALSE), Apic(5, TRUE)>>, 0, 0)>>,
  <<Skipped, Madt(<<Apic(0, TRUE), Apic(1, TRUE), Apic(2, TRUE), Override(12, 3)>>, 2, 0), Skipped>>,
  <<Madt(<<Other(6), IoApic(8, 2), Override(12, 0), Apic(4, TRUE), Apic(6, TRUE)>>, 0, 1),
    Fadt("_S5 and zero", FALSE), Madt(<<Apic(9, TRUE)>>, 0, 0), Madt(<<>>, 0, 0)>> }

MCFirmwares ==
  {[rsdp |-> "good", tables |-> l] : l \in Lists} \cup {[rsdp |-> "bad", tables |-> <<>>]}

\* A real DSDT, and an unreachable one.
DsdtFirmwares ==
  {[rsdp |-> "good", tables |-> <<Fadt("_S5_", TRUE)>>],
   [rsdp |-> "good", tables |-> <<Fadt("_S5 and zero", FALSE)>>]}

MCLbas    == {0, 7}
MCSectors == {<<0, 1>>, <<1, 0>>}
SoundDrives == {[prompt |-> TRUE, errors |-> FALSE], [prompt |-> TRUE, errors |-> TRUE],
                [prompt |-> FALSE, errors |-> FALSE]}
AllDrives == [prompt : BOOLEAN, errors : BOOLEAN]

Date(y, mo, d, h, mi, s) ==
  [year |-> y, month |-> mo, day |-> d, hours |-> h, minutes |-> mi, seconds |-> s]
MCMoments == <<Date(1999, 12, 31, 23, 59, 58), Date(1999, 12, 31, 23, 59, 59),
               Date(2000, 1, 1, 0, 0, 0), Date(2000, 1, 1, 0, 0, 1)>>

=============================================================================
