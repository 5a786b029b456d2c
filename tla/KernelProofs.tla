---------------------------- MODULE KernelProofs ----------------------------
(***************************************************************************)
(* Proofs about the boot and the polled devices: the date read from a      *)
(* running clock, the sectors behind the ATA driver, and the bring-up of   *)
(* the application cores.                                                  *)
(***************************************************************************)
EXTENDS Kernel, Smp, Integers, TLAPS

-----------------------------------------------------------------------------
(* Bringing up the cores.                                                  *)

\* The fields up to the k-th of a context are those of core i.
Prefix(ctx, k, i) ==
  /\ k >= 1 => ctx.gdt = i
  /\ k >= 2 => ctx.idt = i
  /\ k >= 3 => ctx.stack = i
  /\ k >= 4 => ctx.cpu = i

BusyWith == {"copy", "init", "sipi1", "sipi2", "wait"}

\* What the bootstrap core has written while it is busy with a core.
PageOK ==
  /\ bsp \in BusyWith => cpu <= N
  /\ bsp = "copy" => Prefix(trampoline, step, cpu)
  /\ bsp # "copy" => step = 0
  /\ bsp \in BusyWith \ {"copy"} => Prefix(trampoline, 4, cpu)

\* Cores not yet woken are in reset; one core at most is in the trampoline,
\* and it is the one the bootstrap core is waiting for.
CoresOK ==
  \A i \in APs :
    /\ i > cpu => ap[i] = "reset"
    /\ i = cpu /\ bsp \in {"next", "copy", "init"} => ap[i] = "reset"
    /\ i \in Dead => ap[i] \in {"reset", "wait_sipi"}
    /\ ap[i] \in {"reset", "wait_sipi"} => loads[i] = 0
    /\ ap[i] = "trampoline" => /\ i = cpu /\ bsp \in {"sipi2", "wait"}
                               /\ Prefix(context[i], loads[i], i)
    /\ InMain(i) => Prefix(context[i], 4, i)
    /\ InMain(i) /\ ap[i] # "enable" => lapic[i]
    /\ running[i] => InMain(i) /\ lapic[i]

SmpInv == SmpTypeOK /\ PageOK /\ CoresOK

\* The invariant holds at power-on.
LEMMA SmpInitInv == SmpInit => SmpInv
BY SmpAssumption DEF SmpInit, SmpInv, SmpTypeOK, PageOK, CoresOK, Prefix, InMain, APs, Context,
   ContextOf, BusyWith

\* Setting the next field of a context extends its prefix.
LEMMA SetField ==
  ASSUME NEW ctx \in Context, NEW k \in 0 .. 3, NEW i \in 0 .. N, Prefix(ctx, k, i)
  PROVE  LET new == [ctx EXCEPT ![Fields[k + 1]] = i]
         IN  new \in Context /\ Prefix(new, k + 1, i)
<1>1. CASE k = 0 BY <1>1 DEF Fields, Context, Prefix
<1>2. CASE k = 1 BY <1>2 DEF Fields, Context, Prefix
<1>3. CASE k = 2 BY <1>3 DEF Fields, Context, Prefix
<1>4. CASE k = 3 BY <1>4 DEF Fields, Context, Prefix
<1> QED BY <1>1, <1>2, <1>3, <1>4

\* A field of a complete page.
LEMMA PageField ==
  ASSUME NEW ctx \in Context, NEW k \in 0 .. 3, NEW i \in 0 .. N, Prefix(ctx, 4, i)
  PROVE  ctx[Fields[k + 1]] = i
<1>1. CASE k = 0 BY <1>1 DEF Fields, Context, Prefix
<1>2. CASE k = 1 BY <1>2 DEF Fields, Context, Prefix
<1>3. CASE k = 2 BY <1>3 DEF Fields, Context, Prefix
<1>4. CASE k = 3 BY <1>4 DEF Fields, Context, Prefix
<1> QED BY <1>1, <1>2, <1>3, <1>4

\* One field is copied into the page.
LEMMA CopyStep == ASSUME SmpInv, boot_copy PROVE SmpInv'
<1> USE SmpAssumption
<1>0. /\ bsp = "copy" /\ cpu' = cpu /\ cpu \in APs
      /\ UNCHANGED <<ap, loads, context, lapic, running, iflag, pending,
                     ipi_count, ipi_flag, taken, logged>>
  BY DEF boot_copy, core, ipi, SmpInv, SmpTypeOK, PageOK, BusyWith, APs
<1>1. trampoline' \in Context /\ Prefix(trampoline', step + 1, cpu)
  <2>1. trampoline \in Context /\ step \in 0 .. 3 /\ Prefix(trampoline, step, cpu)
    BY <1>0 DEF SmpInv, SmpTypeOK, PageOK
  <2>2. trampoline' = [trampoline EXCEPT ![Fields[step + 1]] = cpu]
    BY DEF boot_copy
  <2>3. cpu \in 0 .. N
    BY <1>0 DEF APs
  <2> QED BY <2>1, <2>2, <2>3, SetField, Zenon
<1>2. \/ step < 3 /\ step' = step + 1 /\ bsp' = "copy"
      \/ step = 3 /\ step' = 0 /\ bsp' = "init"
  BY DEF boot_copy
<1>3. SmpTypeOK'
  BY <1>0, <1>1, <1>2 DEF SmpInv, SmpTypeOK
<1>4. PageOK'
  BY <1>0, <1>1, <1>2 DEF SmpInv, SmpTypeOK, PageOK, BusyWith, APs
<1>5. CoresOK'
  BY <1>0, <1>2 DEF SmpInv, SmpTypeOK, CoresOK, InMain, Prefix
<1> QED BY <1>3, <1>4, <1>5 DEF SmpInv

\* One field is loaded from the page.
LEMMA LoadStep == ASSUME SmpInv, NEW i \in APs, ap_load(i) PROVE SmpInv'
<1> USE SmpAssumption
<1>0. /\ ap[i] = "trampoline" /\ i = cpu /\ bsp \in {"sipi2", "wait"}
      /\ Prefix(trampoline, 4, i) /\ Prefix(context[i], loads[i], i)
      /\ loads[i] \in 0 .. 3 /\ context[i] \in Context /\ trampoline \in Context
  BY DEF ap_load, ApGoes, SmpInv, SmpTypeOK, PageOK, CoresOK, BusyWith
<1>1. /\ UNCHANGED <<bsp, cpu, step, trampoline, lapic, running, iflag, pending,
                     ipi_count, ipi_flag, taken, logged>>
      /\ \/ /\ loads[i] < 3 /\ ap' = [ap EXCEPT ![i] = "trampoline"]
            /\ loads' = [loads EXCEPT ![i] = loads[i] + 1]
         \/ loads[i] = 3 /\ ap' = [ap EXCEPT ![i] = "enable"] /\ loads' = loads
  BY DEF ap_load, ApGoes, boot, ipi
<1>2. /\ context' = [context EXCEPT ![i] = context'[i]]
      /\ context'[i] \in Context /\ Prefix(context'[i], loads[i] + 1, i)
  <2>1. context \in [APs -> Context] BY DEF SmpInv, SmpTypeOK
  <2>2. context' = [context EXCEPT ![i] =
          [context[i] EXCEPT ![Fields[loads[i] + 1]] = trampoline[Fields[loads[i] + 1]]]]
    BY <2>1 DEF ap_load
  <2>3. context'[i] = [context[i] EXCEPT ![Fields[loads[i] + 1]] =
                                           trampoline[Fields[loads[i] + 1]]]
    BY <2>1, <2>2
  <2>4. trampoline[Fields[loads[i] + 1]] = i
    BY <1>0, PageField DEF APs
  <2>8. context'[i] \in Context /\ Prefix(context'[i], loads[i] + 1, i)
    BY <1>0, <2>3, <2>4, SetField DEF APs
  <2> QED BY <2>2, <2>3, <2>8, Zenon
<1>3. SmpTypeOK'
  <2>1. ap' \in [APs -> {"reset", "wait_sipi", "trampoline", "enable", "state", "sti",
                     "take_read", "take_clear", "log", "hlt", "halted"}]
    BY <1>1 DEF SmpInv, SmpTypeOK
  <2>2. loads' \in [APs -> 0 .. 3]
    BY <1>0, <1>1 DEF SmpInv, SmpTypeOK
  <2>3. context' \in [APs -> Context]
    BY <1>2 DEF SmpInv, SmpTypeOK
  <2> QED BY <1>1, <2>1, <2>2, <2>3 DEF SmpInv, SmpTypeOK
<1>4. PageOK'
  BY <1>1 DEF SmpInv, PageOK
<1>5. CoresOK'
  <2> SUFFICES ASSUME NEW j \in APs PROVE CoresOK!(j)'
    BY DEF CoresOK
  <2>1. CASE j = i
    BY <1>0, <1>1, <1>2, <2>1 DEF SmpInv, SmpTypeOK, CoresOK, InMain
  <2>2. CASE j # i
    BY <1>1, <1>2, <2>2 DEF SmpInv, SmpTypeOK, CoresOK, InMain
  <2> QED BY <2>1, <2>2
<1> QED BY <1>3, <1>4, <1>5 DEF SmpInv

\* Every other step of the bootstrap core.  With no slow core, boot_ap gives
\* up only on a core that never enters the trampoline.
LEMMA BspSteps ==
  ASSUME SmpInv, Slow = {},
         boot_stack \/ boot_init \/ boot_sipi \/ boot_online \/ boot_timeout \/ ping
  PROVE  SmpInv'
<1> USE SmpAssumption
<1>1. CASE boot_stack
  BY <1>1 DEF boot_stack, BspGoes, core, ipi, SmpInv, SmpTypeOK, PageOK, CoresOK, Prefix,
     InMain, BusyWith, APs
<1>2. CASE boot_init
  BY <1>2 DEF boot_init, BspGoes, ipi, SmpInv, SmpTypeOK, PageOK, CoresOK, Prefix, InMain,
     BusyWith, APs
<1>3. CASE boot_sipi
  <2>0. /\ bsp \in {"sipi1", "sipi2"} /\ bsp' \in {"sipi2", "wait"} /\ cpu \in APs
        /\ UNCHANGED <<cpu, step, trampoline, loads, context, lapic, running, iflag, pending,
                       ipi_count, ipi_flag, taken, logged>>
        /\ \/ cpu \notin Dead /\ ap[cpu] = "wait_sipi" /\ ap' = [ap EXCEPT ![cpu] = "trampoline"]
           \/ ap' = ap
    BY <1>3 DEF boot_sipi, BspGoes, ipi, SmpInv, SmpTypeOK, PageOK, BusyWith, APs
  <2>1. SmpTypeOK' /\ PageOK'
    BY <2>0 DEF SmpInv, SmpTypeOK, PageOK, Prefix, BusyWith
  <2>2. CoresOK'
    BY <2>0, SMTT(20) DEF SmpInv, SmpTypeOK, CoresOK, Prefix, InMain, APs
  <2> QED BY <2>1, <2>2 DEF SmpInv
<1>4. CASE boot_online
  BY <1>4 DEF boot_online, BspGoes, core, ipi, SmpInv, SmpTypeOK, PageOK, CoresOK, Prefix,
     InMain, BusyWith, APs
<1>5. CASE boot_timeout
  BY <1>5 DEF boot_timeout, BspGoes, core, ipi, SmpInv, SmpTypeOK, PageOK, CoresOK, Prefix,
     InMain, BusyWith, APs
<1>6. CASE ping
  BY <1>6, SMTT(20) DEF ping, BspGoes, core, SmpInv, SmpTypeOK, PageOK, CoresOK, Prefix, InMain,
     BusyWith, APs
<1> QED BY <1>1, <1>2, <1>3, <1>4, <1>5, <1>6

\* The steps of a core in ap_main64, on its own area.
LEMMA MainSteps ==
  ASSUME SmpInv, NEW i \in APs,
         \/ ap_enable(i) \/ ap_set_running(i) \/ ap_sti(i) \/ take_read(i)
         \/ take_clear(i) \/ ap_log(i) \/ ap_hlt(i) \/ handle_ipi(i)
  PROVE  SmpInv'
<1>1. CASE ap_enable(i)
  BY <1>1 DEF ap_enable, ApGoes, boot, ipi, SmpInv, SmpTypeOK, PageOK, CoresOK, Prefix, InMain
<1>2. CASE ap_set_running(i)
  BY <1>2 DEF ap_set_running, ApGoes, boot, ipi, SmpInv, SmpTypeOK, PageOK, CoresOK, Prefix, InMain
<1>3. CASE ap_sti(i)
  BY <1>3 DEF ap_sti, ApGoes, boot, ipi, SmpInv, SmpTypeOK, PageOK, CoresOK, Prefix, InMain
<1>4. CASE take_read(i)
  BY <1>4 DEF take_read, ApGoes, boot, SmpInv, SmpTypeOK, PageOK, CoresOK, Prefix, InMain
<1>5. CASE take_clear(i)
  BY <1>5 DEF take_clear, ApGoes, boot, SmpInv, SmpTypeOK, PageOK, CoresOK, Prefix, InMain
<1>6. CASE ap_log(i)
  BY <1>6 DEF ap_log, ApGoes, boot, SmpInv, SmpTypeOK, PageOK, CoresOK, Prefix, InMain
<1>7. CASE ap_hlt(i)
  BY <1>7 DEF ap_hlt, ApGoes, boot, ipi, SmpInv, SmpTypeOK, PageOK, CoresOK, Prefix, InMain
<1>8. CASE handle_ipi(i)
  BY <1>8 DEF handle_ipi, boot, SmpInv, SmpTypeOK, PageOK, CoresOK, Prefix, InMain
<1> QED BY <1>1, <1>2, <1>3, <1>4, <1>5, <1>6, <1>7, <1>8

\* With every live core in time, the invariant holds throughout.
THEOREM SmpInvariance == ASSUME Slow = {} PROVE SmpSpec => []SmpInv
<1>1. SmpInv /\ [SmpNext]_smp_vars => SmpInv'
  <2> SUFFICES ASSUME SmpInv, [SmpNext]_smp_vars PROVE SmpInv'
    OBVIOUS
  <2>1. CASE UNCHANGED smp_vars
    BY <2>1 DEF smp_vars, boot, core, ipi, SmpInv, SmpTypeOK, PageOK, CoresOK, InMain
  <2>2. CASE SmpNext
    BY <2>2, CopyStep, LoadStep, BspSteps, MainSteps DEF SmpNext, BspStep, ApStep
  <2> QED BY <2>1, <2>2
<1> QED BY <1>1, SmpInitInv, PTL DEF SmpSpec

\* No core runs with the tables, the stack or the index of another one.
THEOREM OwnContextHolds == ASSUME Slow = {} PROVE SmpSpec => []OwnContext
<1>1. SmpInv => OwnContext
  BY DEF SmpInv, SmpTypeOK, CoresOK, Prefix, OwnContext, ContextOf, Context
<1> QED BY <1>1, SmpInvariance, PTL

\* RUNNING is reported only by the core itself, able to take interrupts.
THEOREM OnlineHonestHolds == ASSUME Slow = {} PROVE SmpSpec => []OnlineHonest
<1>1. SmpInv => OnlineHonest
  BY DEF SmpInv, CoresOK, OnlineHonest
<1> QED BY <1>1, SmpInvariance, PTL

-----------------------------------------------------------------------------
(* The clock.                                                              *)

Dates == [seconds : 0 .. 59, minutes : 0 .. 59, hours : 0 .. 23, day : 1 .. 31,
          month : 1 .. 12, year : 1980 .. 2079]

\* What the proof asks of the clock: its registers change together, it shows
\* dates of the century that read_datetime assumes, and a call takes less than
\* a minute, so that the seconds tell the moments of the call apart.
ClockAssumption ==
  /\ ~Piecewise /\ Moments \in Seq(Dates)
  /\ \A i, j \in 1 .. Len(Moments) : Moments[i].seconds = Moments[j].seconds => i = j

\* Register r at moment m.
Shows(m, r) == Byte(Moments[m], r)

\* The bytes read so far were shown between moments a and b of the call, the
\* first at a, the last at b.
ReadBetween(a, b) ==
  /\ a \in began .. b /\ b \in began .. now
  /\ \A i \in 1 .. Len(got) : \E m \in a .. b : got[i] = Shows(m, Pass[i])
  /\ got # <<>> => got[1] = Shows(a, "seconds") /\ got[Len(got)] = Shows(b, Pass[Len(got)])

RtcInv ==
  /\ bcd \in BOOLEAN /\ now \in 1 .. Len(Moments) /\ changed = 0
  /\ began \in 1 .. now /\ tries \in Nat
  /\ got \in Seq(Nat) /\ Len(got) <= 7
  /\ rtc_pc \in {"idle", "pass", "last"}
  /\ rtc_pc = "last" => tries >= RETRIES
  /\ rtc_pc = "idle" => got = <<>>
  /\ \E a, b \in Nat : ReadBetween(a, b)
  /\ DateWasTrue

\* What a moment is.
LEMMA ADate == ASSUME ClockAssumption, NEW m \in 1 .. Len(Moments) PROVE Moments[m] \in Dates
<1>1. Moments \in Seq(Dates) BY Zenon DEF ClockAssumption
<1> QED BY <1>1

\* A two-digit number survives the registers' encoding.
LEMMA BcdRoundTrip ==
  ASSUME NEW v \in 0 .. 99
  PROVE  bcd_to_bin((v \div 10) * 16 + (v % 10)) = v
<1>1. v = 10 * (v \div 10) + (v % 10)
  OBVIOUS
<1>2. v \div 10 \in 0 .. 9 /\ v % 10 \in 0 .. 9
  <2>1. v % 10 \in 0 .. 9 OBVIOUS
  <2>2. v \div 10 \in Int OBVIOUS
  <2>3. v \div 10 >= 0 /\ v \div 10 <= 9 OBVIOUS
  <2> QED BY <2>1, <2>2, <2>3
<1>3. ASSUME NEW q \in 0 .. 9, NEW r \in 0 .. 9
      PROVE (q * 16 + r) % 16 = r /\ (q * 16 + r) \div 16 = q
  OBVIOUS
<1> QED BY <1>1, <1>2, <1>3 DEF bcd_to_bin

\* So different seconds have different bytes, and decoding gives the date back.
LEMMA Decoding ==
  ASSUME bcd \in BOOLEAN, NEW d \in Dates, NEW e \in Dates, NEW bytes,
         \A i \in 1 .. 6 : bytes[i] = Byte(d, Registers[i])
  PROVE  /\ Byte(d, "seconds") = Byte(e, "seconds") => d.seconds = e.seconds
         /\ Decoded(bytes) = d
<1> DEFINE enc(v) == IF bcd THEN (v \div 10) * 16 + (v % 10) ELSE v
           dec(b) == IF bcd THEN bcd_to_bin(b) ELSE b
<1>1. ASSUME NEW v \in 0 .. 99 PROVE dec(enc(v)) = v
  BY Zenon, <1>1, BcdRoundTrip
<1>2. /\ d.seconds \in 0 .. 99 /\ d.minutes \in 0 .. 99 /\ d.hours \in 0 .. 99
      /\ d.day \in 0 .. 99 /\ d.month \in 0 .. 99 /\ d.year \in 1980 .. 2079
      /\ e.seconds \in 0 .. 99
  BY DEF Dates
<1>3. d.year % 100 \in 0 .. 99 /\ century(d.year % 100) = d.year
  BY <1>2 DEF century
<1>4. /\ bytes[1] = enc(d.seconds) /\ bytes[2] = enc(d.minutes) /\ bytes[3] = enc(d.hours)
      /\ bytes[4] = enc(d.day) /\ bytes[5] = enc(d.month) /\ bytes[6] = enc(d.year % 100)
  BY DEF Byte, Registers
<1>5. /\ Byte(d, "seconds") = enc(d.seconds) /\ Byte(e, "seconds") = enc(e.seconds)
  BY Zenon DEF Byte
<1>6. Decoded(bytes) = [seconds |-> dec(bytes[1]), minutes |-> dec(bytes[2]), hours |-> dec(bytes[3]),
                        day |-> dec(bytes[4]), month |-> dec(bytes[5]), year |-> century(dec(bytes[6]))]
  BY Zenon DEF Decoded
<1> HIDE DEF enc, dec
<1>7. /\ dec(bytes[1]) = d.seconds /\ dec(bytes[2]) = d.minutes /\ dec(bytes[3]) = d.hours
      /\ dec(bytes[4]) = d.day /\ dec(bytes[5]) = d.month /\ dec(bytes[6]) = d.year % 100
  BY <1>1, <1>2, <1>3, <1>4
<1>8. Decoded(bytes) = d
  BY <1>3, <1>6, <1>7 DEF Dates
<1>9. enc(d.seconds) = enc(e.seconds) => d.seconds = e.seconds
  BY SMTT(30), <1>1, <1>2
<1> QED BY Zenon, <1>5, <1>8, <1>9

\* The invariant holds at boot.
LEMMA RtcInitInv == ASSUME ClockAssumption, RtcInit PROVE RtcInv
<1>1. Len(Moments) \in Nat /\ Len(Moments) > 0 BY RtcAssumption DEF ClockAssumption
<1>2. ReadBetween(1, 1) BY DEF RtcInit, ReadBetween
<1> QED BY <1>1, <1>2 DEF RtcInit, RtcInv, DateWasTrue

\* Another call, the date's or a different one, begins with nothing remembered.
LEMMA RtcCalls ==
  ASSUME ClockAssumption, RtcInv, read_datetime \/ (rtc_pc = "idle" /\ RtcForgotten)
  PROVE  RtcInv'
<1>1. Len(Moments) \in Nat /\ Len(Moments) > 0 BY RtcAssumption DEF ClockAssumption
<1>2. PICK m \in 1 .. Len(Moments) :
        /\ bcd' \in BOOLEAN /\ now' = m /\ changed' = 0 /\ tries' = 0
        /\ began' = m /\ got' = <<>> /\ rtc_pc' \in {"idle", "pass"} /\ date' = NoDate
  BY <1>1 DEF read_datetime, RtcForgotten, RtcInv
<1>3. ReadBetween(m, m)' BY <1>1, <1>2 DEF ReadBetween
<1> QED BY <1>1, <1>2, <1>3, RtcAssumption DEF RtcInv, DateWasTrue

\* The clock goes on while the registers are read.
LEMMA RtcTick ==
  ASSUME ClockAssumption, RtcInv, tick
  PROVE  RtcInv'
<1>0. Len(Moments) \in Nat BY DEF ClockAssumption
<1>1. /\ rtc_pc # "idle" /\ now' = now + 1 /\ now' \in 1 .. Len(Moments) /\ changed' = 0
      /\ UNCHANGED <<bcd, rtc_pc, got, tries, began, date>>
  BY <1>0 DEF tick, ClockAssumption, RtcInv
<1>2. PICK a, b \in Nat : ReadBetween(a, b) BY Zenon DEF RtcInv
<1>3. ReadBetween(a, b)'
  <2>1. Byte(Moments[a], "seconds")' = Byte(Moments[a], "seconds")
        /\ \A m, r : Byte(Moments[m], r)' = Byte(Moments[m], r)
    BY Zenon, <1>1 DEF Byte
  <2>2. a \in began' .. b /\ b \in began' .. now'
    BY <1>1, <1>2 DEF ReadBetween, RtcInv
  <2> QED BY Zenon, <1>1, <1>2, <2>1, <2>2 DEF ReadBetween, Shows
<1> QED BY <1>0, <1>1, <1>3 DEF RtcInv, DateWasTrue

\* The places of a pass.
LEMMA Places7 ==
  ASSUME NEW i \in 1 .. 7
  PROVE  Pass[i] \in {"seconds", "minutes", "hours", "day", "month", "year"}
<1>1. i = 1 \/ i = 2 \/ i = 3 \/ i = 4 \/ i = 5 \/ i = 6 \/ i = 7 OBVIOUS
<1> QED BY <1>1 DEF Pass, Registers

\* A register is read: what it shows now.
LEMMA RtcReads ==
  ASSUME ClockAssumption, RtcInv, rtc_read
  PROVE  RtcInv'
<1>0. Len(Moments) \in Nat BY DEF ClockAssumption
<1>1. /\ rtc_pc \in {"pass", "last"} /\ Len(got) < 7
      /\ UNCHANGED <<bcd, now, changed, rtc_pc, tries, began, date>>
  BY DEF rtc_read, clock, Pass, Registers, RtcInv
<1>2. cmos_read(Pass[Len(got) + 1]) = Shows(now, Pass[Len(got) + 1])
  BY DEF cmos_read, Shows, RtcInv
<1> DEFINE x == Shows(now, Pass[Len(got) + 1])
<1>3. x \in Nat
  <2>0. now \in 1 .. Len(Moments) BY Zenon DEF RtcInv
  <2>1. Moments[now] \in Dates BY Zenon, <2>0, ADate
  <2>2. Pass[Len(got) + 1] \in {"seconds", "minutes", "hours", "day", "month", "year"}
    <3>0. got \in Seq(Nat) BY Zenon DEF RtcInv
    <3>1. Len(got) + 1 \in 1 .. 7 BY <1>1, <3>0
    <3> QED BY Zenon, <3>1, Places7
  <2> DEFINE v == IF Pass[Len(got) + 1] = "year" THEN Moments[now].year % 100
                  ELSE Moments[now][Pass[Len(got) + 1]]
  <2>3. v \in Nat
    <3>1. Moments[now].year % 100 \in Nat
      <4>1. Moments[now].year \in Nat BY <2>1 DEF Dates
      <4> QED BY <4>1
    <3>2. ASSUME Pass[Len(got) + 1] # "year" PROVE Moments[now][Pass[Len(got) + 1]] \in Nat
      <4>1. /\ Moments[now].seconds \in Nat /\ Moments[now].minutes \in Nat
            /\ Moments[now].hours \in Nat /\ Moments[now].day \in Nat /\ Moments[now].month \in Nat
        BY <2>1 DEF Dates
      <4> QED BY Zenon, <2>2, <3>2, <4>1
    <3> QED BY Zenon, <3>1, <3>2
  <2>4. x = IF bcd THEN (v \div 10) * 16 + (v % 10) ELSE v
    BY Zenon DEF Shows, Byte
  <2> HIDE DEF v, x
  <2>5. v \div 10 \in Nat /\ v % 10 \in Nat
    BY <2>3
  <2> QED BY <2>3, <2>4, <2>5
<1> HIDE DEF x
<1>4. got \in Seq(Nat) /\ Len(got) \in Nat
  BY DEF RtcInv
<1>5. /\ got' \in Seq(Nat) /\ Len(got') = Len(got) + 1 /\ got'[Len(got')] = x
      /\ \A i \in 1 .. Len(got) : got'[i] = got[i]
  <2>1. got' = Append(got, x) BY Zenon, <1>2 DEF rtc_read, x
  <2> QED BY <1>3, <1>4, <2>1
<1>6. PICK a, b \in Nat : ReadBetween(a, b) BY Zenon DEF RtcInv
<1>7. \A m, r : Shows(m, r)' = Shows(m, r)
  BY <1>1 DEF Shows, Byte
<1>8. now \in Nat /\ began \in Nat /\ began <= now
  BY <1>0 DEF RtcInv
<1>9. \E a1 \in Nat : ReadBetween(a1, now)'
  <2>1. CASE got = <<>>
    <3>1. Len(got') = 1 /\ got'[1] = x /\ x = Shows(now, "seconds") /\ Pass[1] = "seconds"
      BY <1>5, <2>1 DEF x, Pass, Registers
    <3>2. ReadBetween(now, now)'
      BY <1>1, <1>7, <1>8, <3>1 DEF ReadBetween
    <3> QED BY Zenon, <1>1, <1>8, <3>2
  <2>2. CASE got # <<>>
    <3>1. Len(got) >= 1 BY <1>4, <2>2
    <3>2. a \in began .. now /\ b \in began .. now /\ a <= b /\ got[1] = Shows(a, "seconds")
          /\ \A i \in 1 .. Len(got) : \E m \in a .. b : got[i] = Shows(m, Pass[i])
      BY <1>6, <1>8, <2>2 DEF ReadBetween
    <3>3. ASSUME NEW i \in 1 .. Len(got') PROVE \E m \in a .. now : got'[i] = Shows(m, Pass[i])
      <4>1. CASE i = Len(got')
        <5>1. got'[i] = Shows(now, Pass[i]) BY Zenon, <1>5, <4>1 DEF x
        <5>2. now \in a .. now BY <1>8, <3>2
        <5> QED BY Zenon, <5>1, <5>2
      <4>2. CASE i # Len(got')
        <5>1. i \in 1 .. Len(got) /\ got'[i] = got[i] BY <1>4, <1>5, <4>2
        <5>2. PICK m \in a .. b : got[i] = Shows(m, Pass[i]) BY Zenon, <3>2, <5>1
        <5>3. m \in a .. now BY <1>8, <3>2, <5>2
        <5> QED BY Zenon, <5>1, <5>2, <5>3
      <4> QED BY Zenon, <4>1, <4>2
    <3>4. got'[1] = Shows(a, "seconds") /\ got'[Len(got')] = Shows(now, Pass[Len(got')])
      <4>1. 1 \in 1 .. Len(got) BY <1>4, <3>1
      <4> QED BY Zenon, <1>5, <3>2, <4>1 DEF x
    <3>5. a \in began .. now /\ now \in began .. now
      BY <1>8, <3>2
    <3>6. ReadBetween(a, now)'
      BY Zenon, <1>1, <1>7, <3>3, <3>4, <3>5 DEF ReadBetween
    <3> QED BY Zenon, <3>6
  <2> QED BY Zenon, <2>1, <2>2
<1> QED BY <1>1, <1>4, <1>5, <1>8, <1>9 DEF RtcInv, DateWasTrue

\* A pass whose seconds match was read within one moment.
LEMMA RtcSettles ==
  ASSUME ClockAssumption, RtcInv, rtc_settled
  PROVE  RtcInv'
<1>0. Len(Moments) \in Nat BY DEF ClockAssumption
<1>1. /\ Len(got) = 7 /\ got[1] = got[7] /\ got' = <<>> /\ rtc_pc' = "idle"
      /\ date' = Decoded(got) /\ UNCHANGED <<bcd, now, changed, tries, began>>
  BY DEF rtc_settled, rtc_return, clock, Pass, Registers
<1>2. PICK a, b \in Nat : ReadBetween(a, b) BY Zenon DEF RtcInv
<1>3. /\ now \in Nat /\ began \in Nat /\ 1 <= began /\ now <= Len(Moments) /\ bcd \in BOOLEAN
      /\ began <= now
  BY <1>0 DEF RtcInv
<1>4. /\ began <= a /\ a <= b /\ b <= now /\ got[1] = Shows(a, "seconds")
      /\ got[7] = Shows(b, "seconds")
      /\ \A i \in 1 .. 7 : \E m \in a .. b : got[i] = Shows(m, Pass[i])
  <2>1. got # <<>> /\ Pass[7] = "seconds" BY <1>1 DEF Pass, Registers
  <2> QED BY <1>1, <1>2, <1>3, <2>1 DEF ReadBetween
<1>5. a \in 1 .. Len(Moments) /\ b \in 1 .. Len(Moments) /\ Moments[a] \in Dates /\ Moments[b] \in Dates
  <2>1. a \in 1 .. Len(Moments) /\ b \in 1 .. Len(Moments) BY SMTT(30), <1>0, <1>3, <1>4
  <2> QED BY <2>1 DEF ClockAssumption
<1>6. a = b
  <2> DEFINE bytes == [i \in 1 .. 6 |-> Byte(Moments[a], Registers[i])]
  <2>1. \A i \in 1 .. 6 : bytes[i] = Byte(Moments[a], Registers[i]) OBVIOUS
  <2> HIDE DEF bytes
  <2>2. Byte(Moments[a], "seconds") = Byte(Moments[b], "seconds")
    BY Zenon, <1>1, <1>4 DEF Shows
  <2>3. Moments[a].seconds = Moments[b].seconds
    BY <1>3, <1>5, <2>1, <2>2, Decoding
  <2> QED BY Zenon, <1>5, <2>3 DEF ClockAssumption
<1>7. \A i \in 1 .. 6 : got[i] = Byte(Moments[a], Registers[i])
  <2>1. ASSUME NEW i \in 1 .. 6 PROVE got[i] = Byte(Moments[a], Registers[i])
    <3>1. PICK m \in a .. b : got[i] = Shows(m, Pass[i]) BY <1>4
    <3>2. m = a BY <1>6, <3>1
    <3>3. Pass[i] = Registers[i] BY DEF Pass, Registers
    <3> QED BY Zenon, <3>1, <3>2, <3>3 DEF Shows
  <2> QED BY Zenon, <2>1
<1>8. date' = Moments[a]
  BY Zenon, <1>1, <1>3, <1>5, <1>7, Decoding
<1>9. DateWasTrue'
  <2>1. a \in began' .. now' BY <1>1, <1>3, <1>4
  <2> QED BY Zenon, <1>8, <2>1 DEF DateWasTrue
<1>10. ReadBetween(now, now)'
  BY <1>1, <1>3 DEF ReadBetween
<1> QED BY <1>0, <1>1, <1>3, <1>9, <1>10 DEF RtcInv

\* A retry, and the reading after the last one.
LEMMA RtcRetries ==
  ASSUME ClockAssumption, RtcInv, rtc_retry \/ rtc_give_up
  PROVE  RtcInv'
<1>0. Len(Moments) \in Nat /\ RETRIES \in Nat BY RtcAssumption DEF ClockAssumption
<1>1. now \in Nat /\ began \in Nat /\ began <= now /\ tries \in Nat
  BY <1>0 DEF RtcInv
<1>2. CASE rtc_retry
  <2>1. /\ got' = <<>> /\ tries' = tries + 1 /\ rtc_pc' = IF tries + 1 < RETRIES THEN "pass" ELSE "last"
        /\ UNCHANGED <<bcd, now, changed, began, date>>
    BY Zenon, <1>2 DEF rtc_retry, clock
  <2>2. ReadBetween(now, now)' BY <1>1, <2>1 DEF ReadBetween
  <2> QED BY <1>0, <1>1, <2>1, <2>2 DEF RtcInv, DateWasTrue
<1>3. CASE rtc_give_up
  <2>1. /\ rtc_pc = "last" /\ got' = <<>> /\ rtc_pc' = "idle"
        /\ UNCHANGED <<bcd, now, changed, tries, began>>
    BY Zenon, <1>3 DEF rtc_give_up, rtc_return, clock
  <2>2. ReadBetween(now, now)' BY <1>1, <2>1 DEF ReadBetween
  <2> QED BY <1>0, <1>1, <2>1, <2>2 DEF RtcInv, DateWasTrue
<1> QED BY Zenon, <1>2, <1>3

\* The registers of a running clock are read as one date: on every kernel whose
\* clock meets the assumption, read_datetime returns a date the clock showed
\* between the call and the return, unless its retries ran out.
THEOREM DateWasTrueHolds == ASSUME ClockAssumption PROVE Spec => []DateWasTrue
<1>1. Init => RtcInv BY Zenon, RtcInitInv DEF Init
<1>2. RtcInv /\ [Next]_vars => RtcInv'
  <2> SUFFICES ASSUME RtcInv, [Next]_vars PROVE RtcInv'
    OBVIOUS
  <2>1. CASE UNCHANGED rtc_vars
    <3>1. \A a, b : ReadBetween(a, b)' <=> ReadBetween(a, b)
      BY <2>1 DEF rtc_vars, clock, ReadBetween, Shows, Byte
    <3> QED BY Zenon, <2>1, <3>1 DEF rtc_vars, clock, RtcInv, DateWasTrue
  <2>2. CASE DiskCall \/ DateCall \/ Shutdown
    BY Zenon, <2>2, RtcCalls DEF DiskCall, DateCall, Shutdown, Ready
  <2>3. CASE Dating \/ Clock
    BY Zenon, <2>3, RtcTick, RtcReads, RtcSettles, RtcRetries DEF Dating, Clock, RtcStep
  <2> QED BY Zenon, <2>1, <2>2, <2>3 DEF Next, vars, Booting, Probing, Driver, Drive
<1>3. RtcInv => DateWasTrue BY Zenon DEF RtcInv
<1> QED BY <1>1, <1>2, <1>3, PTL DEF Spec

-----------------------------------------------------------------------------
(* The disk.                                                               *)

\* What the driver relies on: a drive that may report an error shows that it is
\* busy at once.  (A read has no delay behind its command, so a drive that does
\* not could still show the error, or the data, of an earlier command.)
DriveAssumption == \A d \in Drives : d.prompt \/ ~d.errors

\* The drive is at work, or will be seen to be.
AtWork  == late \/ "BSY" \in status
Resting == {"idle", "begin"}

Commands == {"none", "identify", "read", "write", "store", "reset"}
Jobs     == [cmd : Commands, lba : Nat, words : Seq(Values)]

Places   == {"unprobed", "absent", "identify", "ident", "idle", "begin", "reset", "again", "command",
             "drq", "in", "accepted", "wdrq", "out", "stored", "failed"}

AtaTypes ==
  /\ ata_pc \in Places
  /\ drive \in Drives /\ late \in BOOLEAN /\ job \in Jobs
  /\ medium \in [Lbas -> Sectors] /\ wanted \in [Lbas -> Sectors]

\* The command a call has given, and its arguments.
CallOK ==
  /\ ata_pc \in {"begin", "reset", "again", "command", "drq", "in", "accepted", "wdrq", "out",
                 "stored", "failed"} =>
       call.op \in {"read", "write"} /\ call.lba \in Lbas
  /\ ata_pc \in {"begin", "reset", "again", "command"} /\ call.op = "write" => call.data \in Sectors
  /\ ata_pc = "again" => job.cmd = "reset"
  /\ ata_pc \in {"drq", "in"} => call.op = "read" /\ job.cmd = "read" /\ job.lba = call.lba
  /\ ata_pc \in {"accepted", "wdrq", "out"} =>
       call.op = "write" /\ job.cmd = "write" /\ job.lba = call.lba /\ call.data \in Sectors
  /\ ata_pc = "stored" =>
       call.op = "write" /\ job.cmd = "store" /\ job.lba = call.lba /\ call.data \in Sectors

\* When the drive may be at work: with identify, with the command of the call,
\* or with a sector whose write has returned.
WorkOK ==
  /\ late => ata_pc \in {"drq", "stored"} /\ ~drive.prompt /\ "BSY" \notin status
  /\ ata_pc \in {"unprobed", "absent"} => status = Floating \/ "BSY" \notin status
  /\ ata_pc = "identify" => job.cmd = "identify"
  /\ ata_pc \in {"ident", "reset", "command", "failed", "in", "wdrq", "out"} => "BSY" \notin status
  /\ ata_pc \in Resting /\ "BSY" \in status =>
       job.cmd = "store" /\ job.lba \in Lbas /\ job.words = wanted[job.lba] /\ ~drive.prompt

\* A drive that is not prompt shows no result of an earlier command.
NothingStale ==
  /\ ~drive.prompt /\ (ata_pc \in Resting \cup {"reset", "again", "command"} \/ (ata_pc = "drq" /\ late))
       => "DRQ" \notin status /\ "ERR" \notin status
  /\ ~drive.prompt /\ ata_pc \in {"drq", "in", "accepted", "wdrq", "out", "stored"} => "ERR" \notin status
  /\ ~drive.prompt => ata_pc # "failed" /\ (ata_pc = "stored" => late)

\* The words of a transfer: what is read so far and what is still to come is the
\* sector; what is sent so far is the beginning of the caller's.
Parts(b, w, s) ==
  /\ b \in Seq(Values) /\ w \in Seq(Values)
  /\ \A i \in 1 .. Len(b) : b[i] = s[i]
  /\ \A i \in 1 .. Len(w) : w[i] = s[Len(b) + i]

Received ==
  /\ Parts(buf, job.words, medium[job.lba]) /\ Len(buf) + Len(job.words) = Words
  /\ job.words = <<>> => "DRQ" \notin status
  /\ "ERR" \notin status

Sent == Len(job.words) < Words /\ \A i \in 1 .. Len(job.words) : job.words[i] = call.data[i]

WordsOK ==
  /\ ata_pc \in {"begin", "reset", "again", "command", "drq"} => buf = <<>>
  /\ ata_pc = "drq" /\ ~AtWork /\ "ERR" \notin status /\ "DRQ" \in status => job.words = medium[job.lba]
  /\ ata_pc = "in" => Received
  /\ ata_pc \in {"accepted", "wdrq"} => job.words = <<>>
  /\ ata_pc = "out" => Sent
  /\ ata_pc = "stored" /\ AtWork => job.words = call.data

\* The sector whose write is not over: what is asked for and what is stored may
\* differ there.
InWrite ==
  IF ata_pc = "stored" \/ (ata_pc \in Resting /\ "BSY" \in status) THEN {job.lba} ELSE {}

MediumOK ==
  /\ \A l \in Lbas \ (lost \cup InWrite) : medium[l] = wanted[l]
  /\ ata_pc = "stored" /\ ~AtWork /\ call.lba \notin lost => medium[call.lba] = call.data
  /\ ret.op = "read" /\ ret.ok =>
       /\ ata_pc = "idle" /\ "BSY" \notin status /\ ret.lba \in Lbas
       /\ ret.lba \notin lost => buf = wanted[ret.lba]

AtaInv == AtaTypes /\ CallOK /\ WorkOK /\ NothingStale /\ WordsOK /\ MediumOK

\* A sector is a sequence of its words.
LEMMA SectorWords ==
  ASSUME NEW s \in Sectors
  PROVE  s \in Seq(Values) /\ Len(s) = Words /\ s \in [1 .. Words -> Values]
<1>1. s \in [1 .. Words -> Values] /\ Words \in Nat BY Zenon, AtaAssumption
<1> QED BY <1>1

\* Some sector.
LEMMA SomeSector == (CHOOSE s \in Sectors : TRUE) \in Sectors
BY Zenon, AtaAssumption

\* A new job, and a job with other words.
LEMMA NoWords == <<>> \in Seq(Values)
OBVIOUS

LEMMA NewJob ==
  ASSUME NEW c \in Commands
  PROVE  /\ [NoJob EXCEPT !.cmd = c] \in Jobs /\ [NoJob EXCEPT !.cmd = c].cmd = c
         /\ NoJob \in Jobs
<1>1. NoJob \in Jobs BY Zenon, NoWords DEF NoJob, Jobs, Commands
<1> QED BY Zenon, <1>1 DEF Jobs

LEMMA OtherWords ==
  ASSUME NEW j \in Jobs, NEW w \in Seq(Values), NEW k, k = [j EXCEPT !.words = w]
  PROVE  k \in Jobs /\ k.cmd = j.cmd /\ k.lba = j.lba /\ k.words = w
BY Zenon DEF Jobs

\* The invariant holds at boot.
LEMMA AtaInitInv == AtaInit => AtaInv
<1> SUFFICES ASSUME AtaInit PROVE AtaInv
  OBVIOUS
<1>1. AtaTypes BY Zenon, SomeSector, NewJob DEF AtaInit, AtaTypes, Places, Commands
<1>2. CallOK /\ WorkOK /\ NothingStale /\ WordsOK
  BY Zenon DEF AtaInit, CallOK, WorkOK, NothingStale, WordsOK, Resting, Floating
<1>3. MediumOK
  BY Zenon, <1>1 DEF AtaInit, MediumOK, InWrite, AtaTypes, NoCall, Resting
<1> QED BY Zenon, <1>1, <1>2, <1>3 DEF AtaInv

\* probe.
LEMMA ProbeKeeps ==
  ASSUME AtaInv, probe \/ probe_answer \/ probe_words
  PROVE  AtaInv'
<1> USE DEF AtaInv
<1>1. CASE probe
  <2>0. "identify" \in Commands BY Zenon DEF Commands
  <2>1. AtaTypes'
    BY Zenon, <1>1, <2>0, NewJob DEF probe, AtaGoes, Begins, device, Keeps, AtaTypes, Places
  <2>2. CallOK' /\ WorkOK' /\ NothingStale' /\ WordsOK'
    BY Zenon, <1>1, <2>0, NewJob DEF probe, AtaGoes, Begins, device, Keeps, CallOK, WorkOK,
        NothingStale, WordsOK, Resting
  <2>3. MediumOK'
    BY Zenon, <1>1 DEF probe, AtaGoes, Begins, device, Keeps, MediumOK, InWrite, Resting
  <2> QED BY Zenon, <2>1, <2>2, <2>3
<1>2. CASE probe_answer
  <2>0. /\ ata_pc = "identify" /\ "BSY" \notin status /\ ~late
        /\ ata_pc' \in {"absent", "ident"} /\ late' = FALSE
        /\ UNCHANGED <<drive, status, job, medium, call, buf, ret, wanted, lost>>
    BY Zenon, <1>2 DEF probe_answer, Wait, AtaGoes, StatusRead, Keeps, WorkOK
  <2>1. AtaTypes' BY Zenon, <2>0 DEF AtaTypes, Places
  <2>2. CallOK' /\ WorkOK' /\ NothingStale' /\ WordsOK'
    BY Zenon, <2>0 DEF CallOK, WorkOK, NothingStale, WordsOK, Resting
  <2>3. MediumOK' BY Zenon, <2>0 DEF MediumOK, InWrite, Resting
  <2> QED BY Zenon, <2>1, <2>2, <2>3
<1>3. CASE probe_words
  <2>0. /\ ata_pc = "ident" /\ ata_pc' = "idle" /\ status' = {"DRDY"} /\ ~late
        /\ job' = [job EXCEPT !.words = <<>>]
        /\ UNCHANGED <<drive, late, medium, call, buf, ret, wanted, lost>>
    BY Zenon, <1>3 DEF probe_words, AtaGoes, Keeps, WorkOK
  <2>1. AtaTypes' BY Zenon, <2>0, NoWords, OtherWords DEF AtaTypes, Places
  <2>2. CallOK' /\ WorkOK' /\ NothingStale' /\ WordsOK'
    BY Zenon, <2>0 DEF CallOK, WorkOK, NothingStale, WordsOK, Resting
  <2>3. MediumOK' BY Zenon, <2>0 DEF MediumOK, InWrite, Resting
  <2> QED BY Zenon, <2>1, <2>2, <2>3
<1> QED BY Zenon, <1>1, <1>2, <1>3

\* A call begins, or a result is forgotten.
LEMMA CallsKeep ==
  ASSUME AtaInv,
         \/ \E l \in Lbas : read_sector(l) \/ \E d \in Sectors : write_sector(l, d)
         \/ ata_pc \in {"idle", "absent"} /\ AtaForgotten
  PROVE  AtaInv'
<1> USE DEF AtaInv
<1>1. /\ UNCHANGED <<drive, status, late, job, medium, wanted, lost>> /\ ret' = NoCall
      /\ \/ /\ ata_pc = "idle" /\ ata_pc' = "begin" /\ call'.lba \in Lbas
            /\ call'.op = "read" \/ (call'.op = "write" /\ call'.data \in Sectors)
         \/ ata_pc \in {"idle", "absent"} /\ UNCHANGED <<ata_pc, call>>
      /\ buf' = <<>>
  BY DEF read_sector, write_sector, AtaForgotten, AtaGoes, device
<1>2. AtaTypes' BY Zenon, <1>1 DEF AtaTypes, Places
<1>3. CallOK' /\ WordsOK' BY Zenon, <1>1 DEF CallOK, WordsOK
<1>4. WorkOK' /\ NothingStale' BY Zenon, <1>1 DEF WorkOK, NothingStale, Resting
<1>5. MediumOK' BY Zenon, <1>1 DEF MediumOK, InWrite, AtWork, NoCall, Resting
<1> QED BY Zenon, <1>2, <1>3, <1>4, <1>5

\* What a pass of a waiting loop does.
LEMMA WaitFacts ==
  ASSUME NEW from, NEW done \in BOOLEAN, NEW to, Wait(from, done, to)
  PROVE  /\ ata_pc = from /\ late' = FALSE
         /\ UNCHANGED <<drive, job, medium, call, buf, ret, wanted, lost>>
         /\ ~late => done /\ ata_pc' = to /\ status' = status
         /\ late => status' = {"BSY"} /\ (~done => ata_pc' = from)
BY Zenon DEF Wait, AtaGoes, StatusRead, Keeps

\* wait_bsy before a command: the drive has nothing late to show.
LEMMA BeginKeeps ==
  ASSUME AtaInv, begin \/ again
  PROVE  AtaInv'
<1> USE DEF AtaInv
<1>1. /\ UNCHANGED <<drive, status, late, job, medium, call, buf, ret, wanted, lost>>
      /\ ~late /\ "BSY" \notin status
      /\ \/ ata_pc = "begin" /\ ata_pc' \in {"command", "reset"}
         \/ ata_pc = "again" /\ ata_pc' = "command"
  <2>1. CASE begin
    <3> DEFINE done == "BSY" \notin status
               to   == IF "DRDY" \in status THEN "command" ELSE "reset"
    <3>1. Wait("begin", done, to) /\ done \in BOOLEAN /\ to = IF "DRDY" \in status THEN "command" ELSE "reset"
      BY Zenon, <2>1 DEF begin
    <3>0. done <=> "BSY" \notin status OBVIOUS
    <3> HIDE DEF done, to
    <3>2. /\ ata_pc = "begin" /\ late' = FALSE
          /\ UNCHANGED <<drive, job, medium, call, buf, ret, wanted, lost>>
          /\ ~late => done /\ status' = status /\ ata_pc' = to
      BY Zenon, <3>1, WaitFacts
    <3>3. ~late /\ late' = late BY Zenon, <3>2 DEF AtaTypes, WorkOK
    <3> QED BY Zenon, <3>0, <3>1, <3>2, <3>3
  <2>2. CASE again
    <3>1. Wait("again", "BSY" \notin status, "command") BY Zenon, <2>2 DEF again
    <3>2. /\ ata_pc = "again" /\ late' = FALSE
          /\ UNCHANGED <<drive, job, medium, call, buf, ret, wanted, lost>>
          /\ ~late => "BSY" \notin status /\ status' = status /\ ata_pc' = "command"
      BY Zenon, <3>1, WaitFacts
    <3>3. ~late /\ late' = late BY Zenon, <3>2 DEF AtaTypes, WorkOK
    <3> QED BY Zenon, <3>2, <3>3
  <2> QED BY Zenon, <2>1, <2>2
<1>2. AtaTypes' BY Zenon, <1>1 DEF AtaTypes, Places
<1>3. CallOK' /\ WordsOK' BY Zenon, <1>1 DEF CallOK, WordsOK
<1>4. WorkOK' /\ NothingStale' BY Zenon, <1>1 DEF WorkOK, NothingStale, Resting
<1>5. MediumOK' BY Zenon, <1>1 DEF MediumOK, InWrite, Resting
<1> QED BY Zenon, <1>2, <1>3, <1>4, <1>5

\* reset, and the command of a call.
LEMMA ResetKeeps ==
  ASSUME AtaInv, reset
  PROVE  AtaInv'
<1> USE DEF AtaInv
<1>0. "reset" \in Commands BY Zenon DEF Commands
<1>1. /\ UNCHANGED <<drive, medium, call, buf, ret, wanted, lost>>
      /\ ata_pc = "reset" /\ ata_pc' = "again" /\ job' \in Jobs /\ job'.cmd = "reset"
      /\ status' = {"BSY"} /\ late' = FALSE
  BY Zenon, <1>0, NewJob DEF reset, AtaGoes, Begins, Keeps
<1>2. AtaTypes' BY Zenon, <1>1 DEF AtaTypes, Places
<1>3. CallOK' /\ WordsOK' BY Zenon, <1>1 DEF CallOK, WordsOK
<1>4. WorkOK' /\ NothingStale' BY Zenon, <1>1 DEF WorkOK, NothingStale, Resting
<1>5. MediumOK' BY Zenon, <1>1 DEF MediumOK, InWrite, Resting
<1> QED BY Zenon, <1>2, <1>3, <1>4, <1>5

LEMMA CommandKeeps ==
  ASSUME AtaInv, command
  PROVE  AtaInv'
<1> USE DEF AtaInv
<1>0. call.op \in {"read", "write"} /\ call.lba \in Lbas /\ call.lba \in Nat
      /\ lba_write(call.lba) = call.lba
  <2>1. call.op \in {"read", "write"} /\ call.lba \in Lbas
    BY Zenon DEF command, CallOK
  <2>2. call.lba \in 0 .. LBA_LIMIT - 1 /\ LBA_LIMIT \in Nat
    BY Zenon, <2>1, AtaAssumption
  <2> QED BY <2>1, <2>2 DEF lba_write
<1>1. /\ UNCHANGED <<drive, medium, call, buf, ret, wanted, lost>>
      /\ ata_pc = "command" /\ job'.cmd = call.op /\ job'.lba = call.lba /\ job'.words = <<>>
      /\ ata_pc' = IF call.op = "read" THEN "drq" ELSE "accepted"
      /\ IF drive.prompt \/ call.op = "write" THEN status' = {"BSY"} /\ late' = FALSE
         ELSE late' = TRUE /\ UNCHANGED status
  BY Zenon, <1>0 DEF command, AtaGoes, Begins, Keeps
<1>2. AtaTypes'
  <2>1. job' = [cmd |-> call.op, lba |-> call.lba, words |-> <<>>]
    BY Zenon, <1>0 DEF command, Begins
  <2>2. call.op \in Commands BY Zenon, <1>0 DEF Commands
  <2>3. job' \in Jobs BY <1>0, <2>1, <2>2, NoWords DEF Jobs
  <2> QED BY Zenon, <1>1, <2>3 DEF AtaTypes, Places
<1>3. CallOK' /\ WordsOK' BY Zenon, <1>0, <1>1 DEF CallOK, WordsOK, AtWork
<1>4. WorkOK' BY Zenon, <1>0, <1>1 DEF WorkOK, Resting
<1>5. NothingStale' BY <1>0, <1>1 DEF NothingStale, Resting
<1>6. MediumOK' BY Zenon, <1>1 DEF MediumOK, InWrite, Resting
<1> QED BY Zenon, <1>2, <1>3, <1>4, <1>5, <1>6

\* The waits behind a command: the first status read may only show that the
\* drive is at work.
LEMMA AnswerKeeps ==
  ASSUME AtaInv, read_drq \/ write_accepted \/ write_drq
  PROVE  AtaInv'
<1> USE DEF AtaInv
<1> DEFINE Same == UNCHANGED <<drive, job, medium, call, buf, ret, wanted, lost>>
<1>0. \/ /\ late /\ Same /\ ata_pc = "drq" /\ ata_pc' = "drq" /\ status' = {"BSY"} /\ late' = FALSE
      \/ /\ ~late /\ Same /\ UNCHANGED <<status, late>> /\ "BSY" \notin status
         /\ \/ /\ ata_pc \in {"drq", "accepted", "wdrq"} /\ "ERR" \in status /\ ata_pc' = "failed"
            \/ /\ ata_pc = "drq" /\ "ERR" \notin status /\ "DRQ" \in status /\ ata_pc' = "in"
            \/ /\ ata_pc = "accepted" /\ "ERR" \notin status /\ ata_pc' = "wdrq"
            \/ /\ ata_pc = "wdrq" /\ "ERR" \notin status /\ ata_pc' = "out"
  <2>1. CASE read_drq
    <3> DEFINE done == "BSY" \notin status /\ status \cap {"DRQ", "ERR"} # {}
               to   == IF "ERR" \in status THEN "failed" ELSE "in"
    <3>1. Wait("drq", done, to) BY Zenon, <2>1 DEF read_drq
    <3>2. done => "BSY" \notin status /\ ("DRQ" \in status \/ "ERR" \in status) OBVIOUS
    <3>3. done \in BOOLEAN /\ to = IF "ERR" \in status THEN "failed" ELSE "in" OBVIOUS
    <3> HIDE DEF done, to
    <3>4. ata_pc = "drq" /\ late' = FALSE /\ Same /\ (~late => done /\ ata_pc' = to /\ status' = status)
          /\ (late => status' = {"BSY"} /\ (~done => ata_pc' = "drq"))
      BY Zenon, <3>1, <3>3, WaitFacts
    <3>5. late => ~done BY Zenon, <3>2, <3>4 DEF WorkOK, NothingStale
    <3> QED BY Zenon, <3>2, <3>3, <3>4, <3>5 DEF AtaTypes
  <2>2. CASE write_accepted
    <3> DEFINE done == "BSY" \notin status
               to   == IF "ERR" \in status THEN "failed" ELSE "wdrq"
    <3>1. Wait("accepted", done, to) /\ done \in BOOLEAN /\ to = IF "ERR" \in status THEN "failed" ELSE "wdrq"
      BY Zenon, <2>2 DEF write_accepted
    <3>0. done <=> "BSY" \notin status OBVIOUS
    <3> HIDE DEF done, to
    <3>2. /\ ata_pc = "accepted" /\ late' = FALSE
          /\ Same
          /\ ~late => done /\ status' = status /\ ata_pc' = to
      BY Zenon, <3>1, WaitFacts
    <3>3. ~late /\ late' = late BY Zenon, <3>2 DEF AtaTypes, WorkOK
    <3> QED BY Zenon, <3>0, <3>1, <3>2, <3>3
  <2>3. CASE write_drq
    <3> DEFINE done == status \cap {"DRQ", "ERR"} # {}
    <3>1. Wait("wdrq", done, IF "ERR" \in status THEN "failed" ELSE "out") /\ done \in BOOLEAN
      BY Zenon, <2>3 DEF write_drq
    <3> HIDE DEF done
    <3>2. /\ ata_pc = "wdrq" /\ late' = FALSE /\ Same
          /\ ~late => done /\ status' = status
                      /\ ata_pc' = IF "ERR" \in status THEN "failed" ELSE "out"
      BY Zenon, <3>1, WaitFacts
    <3>3. ~late /\ late' = late /\ "BSY" \notin status BY Zenon, <3>2 DEF AtaTypes, WorkOK
    <3> QED BY Zenon, <3>2, <3>3
  <2> QED BY Zenon, <2>1, <2>2, <2>3
<1>1. CASE late
  <2>2. AtaTypes' BY Zenon, <1>0, <1>1 DEF AtaTypes, Places
  <2>3. CallOK' /\ WordsOK' BY Zenon, <1>0, <1>1 DEF CallOK, WordsOK, AtWork
  <2>4. WorkOK' /\ NothingStale' BY Zenon, <1>0, <1>1 DEF WorkOK, NothingStale, Resting
  <2>5. MediumOK' BY Zenon, <1>0, <1>1 DEF MediumOK, InWrite, Resting
  <2> QED BY Zenon, <2>2, <2>3, <2>4, <2>5
<1>2. CASE ~late
  <2>2. AtaTypes' BY Zenon, <1>0, <1>2 DEF AtaTypes, Places
  <2>3. CallOK' BY Zenon, <1>0, <1>2 DEF CallOK
  <2>4. WorkOK' BY <1>0, <1>2 DEF WorkOK, Resting
  <2>5. NothingStale' BY Zenon, <1>0, <1>2 DEF NothingStale, Resting
  <2>6. MediumOK' BY Zenon, <1>0, <1>2 DEF MediumOK, InWrite, Resting
  <2>7. ASSUME ata_pc' = "in" PROVE WordsOK'
    <3>1. ata_pc = "drq" /\ job.words = medium[job.lba] /\ buf = <<>> /\ "ERR" \notin status
          /\ "DRQ" \in status /\ UNCHANGED <<job, buf, medium, status>>
      BY Zenon, <1>0, <1>2, <2>7 DEF WordsOK, AtWork
    <3>2. medium[job.lba] \in Sectors /\ Words \in Nat \ {0}
      BY Zenon, <3>1, AtaAssumption DEF CallOK, AtaTypes
    <3>3. job.words \in Seq(Values) /\ Len(job.words) = Words /\ buf \in Seq(Values) /\ Len(buf) = 0
      BY Zenon, <3>1, <3>2, SectorWords, NoWords
    <3>4. job.words # <<>> /\ Len(buf) + Len(job.words) = Words BY <3>2, <3>3
    <3>5. ASSUME NEW i \in 1 .. Len(job.words) PROVE job.words[i] = medium[job.lba][Len(buf) + i]
      <4>1. Len(buf) + i = i BY <3>2, <3>3
      <4> QED BY Zenon, <3>1, <4>1
    <3>6. Parts(buf, job.words, medium[job.lba]) BY <3>3, <3>5 DEF Parts
    <3>7. Received' BY Zenon, <3>1, <3>4, <3>6 DEF Received
    <3> QED BY Zenon, <2>7, <3>7 DEF WordsOK
  <2>8. ASSUME ata_pc' # "in" PROVE WordsOK'
    <3>1. Len(<<>>) = 0 /\ Words \in Nat \ {0} BY Zenon, AtaAssumption
    <3>2. \/ ata_pc' = "failed"
          \/ ata_pc' = "wdrq" /\ ata_pc = "accepted"
          \/ ata_pc' = "out" /\ ata_pc = "wdrq"
      BY Zenon, <1>0, <1>2, <2>8
    <3>3. job' = job BY Zenon, <1>0, <1>2
    <3>4. ata_pc' = "wdrq" => job'.words = <<>> BY Zenon, <3>2, <3>3 DEF WordsOK
    <3>5. ata_pc' = "out" => job'.words = <<>> BY Zenon, <3>2, <3>3 DEF WordsOK
    <3>6. ata_pc' = "out" => Sent' BY <3>1, <3>5 DEF Sent
    <3> QED BY Zenon, <3>2, <3>4, <3>6 DEF WordsOK
  <2> QED BY Zenon, <2>2, <2>3, <2>4, <2>5, <2>6, <2>7, <2>8
<1> QED BY Zenon, <1>1, <1>2

\* The first word of a sequence, and the others.
LEMMA FirstWord ==
  ASSUME NEW w \in Seq(Values), w # <<>>
  PROVE  /\ Len(w) \in Nat \ {0} /\ Head(w) = w[1] /\ Head(w) \in Values
         /\ Tail(w) \in Seq(Values) /\ Len(Tail(w)) = Len(w) - 1
         /\ \A i \in 1 .. Len(Tail(w)) : Tail(w)[i] = w[i + 1]
<1>1. Len(w) \in Nat \ {0} OBVIOUS
<1>2. Head(w) = w[1] /\ w[1] \in Values BY <1>1
<1>3. Tail(w) \in Seq(Values) /\ Len(Tail(w)) = Len(w) - 1 BY <1>1
<1>4. \A i \in 1 .. Len(Tail(w)) : Tail(w)[i] = w[i + 1] BY <1>1
<1> QED BY Zenon, <1>1, <1>2, <1>3, <1>4

LEMMA NoneLeft ==
  ASSUME NEW w \in Seq(Values)
  PROVE  w = <<>> <=> Len(w) = 0
OBVIOUS

\* inw: a word moves from what is to come to what is read.
LEMMA WordMoves ==
  ASSUME NEW b, NEW w, NEW m, Parts(b, w, m), w # <<>>
  PROVE  /\ Parts(Append(b, Head(w)), Tail(w), m)
         /\ Len(Append(b, Head(w))) + Len(Tail(w)) = Len(b) + Len(w)
         /\ Tail(w) = <<>> => Len(w) = 1
<1> USE DEF Parts
<1> DEFINE c == Append(b, Head(w))
           v == Tail(w)
<1>0. /\ Len(w) \in Nat \ {0} /\ Head(w) = w[1] /\ Head(w) \in Values
  BY Zenon, FirstWord
<1>1. /\ Len(w) \in Nat \ {0} /\ Len(b) \in Nat /\ Head(w) = w[1] /\ Head(w) \in Values
  BY <1>0
<1>2. /\ c \in Seq(Values) /\ Len(c) = Len(b) + 1
      /\ \A i \in 1 .. Len(c) : c[i] = IF i = Len(c) THEN w[1] ELSE b[i]
  BY <1>1
<1>3. v \in Seq(Values) /\ Len(v) = Len(w) - 1 /\ \A i \in 1 .. Len(v) : v[i] = w[i + 1]
  BY Zenon, FirstWord
<1> HIDE DEF c, v
<1>4. ASSUME NEW i \in 1 .. Len(c) PROVE c[i] = m[i]
  <2>1. w[1] = m[Len(b) + 1] BY <1>1
  <2>2. i = Len(b) + 1 \/ (i # Len(c) /\ i \in 1 .. Len(b)) BY <1>1, <1>2
  <2>3. c[i] = IF i = Len(c) THEN w[1] ELSE b[i] BY Zenon, <1>2
  <2> QED BY Zenon, <1>2, <2>1, <2>2, <2>3
<1>5. ASSUME NEW i \in 1 .. Len(v) PROVE v[i] = m[Len(c) + i]
  <2>1. v[i] = w[i + 1] /\ i + 1 \in 1 .. Len(w) BY <1>1, <1>3
  <2>2. Len(b) + (i + 1) = Len(c) + i BY <1>1, <1>2
  <2> QED BY Zenon, <2>1, <2>2
<1>6. v = <<>> => Len(w) = 1 BY <1>1, <1>3, NoneLeft
<1>7. Parts(c, v, m) /\ Len(c) + Len(v) = Len(b) + Len(w)
  BY <1>1, <1>2, <1>3, <1>4, <1>5
<1> QED BY Zenon, <1>6, <1>7 DEF c, v

LEMMA ReadWordKeeps ==
  ASSUME AtaInv, read_word
  PROVE  AtaInv'
<1> USE DEF AtaInv
<1>1. /\ ata_pc = "in" /\ Received /\ job \in Jobs /\ job.words \in Seq(Values)
      /\ Len(buf) < Words /\ Words \in Nat
  BY Zenon, AtaAssumption DEF read_word, WordsOK, AtaTypes, Jobs
<1>2. job.words # <<>>
  <2>1. Len(buf) \in Nat /\ Len(job.words) \in Nat /\ Len(buf) + Len(job.words) = Words
    BY <1>1 DEF Received, Parts
  <2> QED BY <1>1, <2>1
<1>3. /\ buf' = Append(buf, Head(job.words)) /\ job' = [job EXCEPT !.words = Tail(@)]
      /\ status' = IF Len(job.words) = 1 THEN status \ {"DRQ"} ELSE status
      /\ UNCHANGED <<drive, late, medium, ata_pc, call, ret, wanted, lost>>
  BY Zenon, <1>2 DEF read_word
<1>4. Tail(job.words) \in Seq(Values) BY Zenon, <1>1, <1>2, FirstWord
<1>5. job' \in Jobs /\ job'.cmd = job.cmd /\ job'.lba = job.lba /\ job'.words = Tail(job.words)
  <2> DEFINE w == Tail(job.words)
  <2>1. job' = [job EXCEPT !.words = w] BY Zenon, <1>3
  <2>2. w \in Seq(Values) BY Zenon, <1>4
  <2> HIDE DEF w
  <2>3. job' \in Jobs /\ job'.cmd = job.cmd /\ job'.lba = job.lba /\ job'.words = w
    BY <1>1, <2>1, <2>2, OtherWords
  <2> QED BY Zenon, <2>3 DEF w
<1>6. AtaTypes' BY Zenon, <1>3, <1>5 DEF AtaTypes, Places
<1>7. WordsOK'
  <2> DEFINE m == medium[job.lba]
             b == buf
             w == job.words
             c == buf'
             v == job'.words
  <2>1. /\ m' = m /\ w # <<>> /\ c = Append(b, Head(w)) /\ v = Tail(w)
    BY Zenon, <1>2, <1>3, <1>5
  <2>2. Parts(b, w, m) /\ Len(b) + Len(w) = Words /\ "ERR" \notin status
    BY Zenon, <1>1 DEF Received
  <2> HIDE DEF m, b, w, c, v
  <2>3. Parts(c, v, m) /\ Len(c) + Len(v) = Len(b) + Len(w) /\ (v = <<>> => Len(w) = 1)
    <3>1. /\ Parts(Append(b, Head(w)), Tail(w), m)
          /\ Len(Append(b, Head(w))) + Len(Tail(w)) = Len(b) + Len(w)
          /\ Tail(w) = <<>> => Len(w) = 1
      BY Zenon, <2>1, <2>2, WordMoves
    <3> QED BY Zenon, <2>1, <3>1
  <2> USE DEF m, b, w, c, v
  <2>4. /\ job'.words = <<>> => "DRQ" \notin status'
        /\ "ERR" \notin status'
    BY Zenon, <1>3, <2>2, <2>3
  <2>5. Received' BY Zenon, <2>1, <2>2, <2>3, <2>4 DEF Received
  <2> QED BY Zenon, <1>1, <1>3, <2>5 DEF WordsOK
<1>8. CallOK' BY Zenon, <1>1, <1>3, <1>5 DEF CallOK
<1>9. WorkOK' BY Zenon, <1>1, <1>3 DEF WorkOK, Resting
<1>10. NothingStale' BY Zenon, <1>1, <1>3 DEF NothingStale, Resting
<1>11. MediumOK' BY Zenon, <1>1, <1>3 DEF MediumOK, InWrite, Resting
<1> QED BY Zenon, <1>6, <1>7, <1>8, <1>9, <1>10, <1>11

\* The status read behind the last word: buf is the sector.
LEMMA ReadDoneKeeps ==
  ASSUME AtaInv, read_done
  PROVE  AtaInv'
<1> USE DEF AtaInv
<1>1. /\ ata_pc = "in" /\ Received /\ call.op = "read" /\ call.lba \in Lbas /\ job.lba = call.lba
      /\ Len(buf) = Words /\ Words \in Nat /\ ~late /\ medium \in [Lbas -> Sectors]
      /\ "BSY" \notin status
  BY Zenon, AtaAssumption DEF read_done, WordsOK, WorkOK, CallOK, AtaTypes
<1>2. /\ UNCHANGED <<device, buf, wanted, lost>>
      /\ ata_pc' = "idle" /\ call' = NoCall /\ ret' = [op |-> "read", lba |-> call.lba, ok |-> TRUE]
  BY Zenon, <1>1 DEF read_done, AtaReturn, StatusRead, device, AtaTypes
<1>3. buf = medium[call.lba]
  <2>1. medium[call.lba] \in Seq(Values) /\ Len(medium[call.lba]) = Words
    BY Zenon, <1>1, SectorWords
  <2>2. buf \in Seq(Values) /\ \A i \in 1 .. Len(buf) : buf[i] = medium[call.lba][i]
    BY Zenon, <1>1 DEF Received, Parts
  <2> QED BY <1>1, <2>1, <2>2
<1>4. "DRQ" \notin status /\ "ERR" \notin status
  <2>1. job.words \in Seq(Values) /\ Len(job.words) = 0
    BY <1>1 DEF Received, Parts
  <2>2. job.words = <<>> BY Zenon, <2>1, NoneLeft
  <2> QED BY Zenon, <1>1, <2>2 DEF Received
<1>5. AtaTypes' BY Zenon, <1>2 DEF AtaTypes, Places, device
<1>6. CallOK' /\ WordsOK' BY Zenon, <1>2 DEF CallOK, WordsOK
<1>7. WorkOK' /\ NothingStale' BY Zenon, <1>1, <1>2, <1>4 DEF WorkOK, NothingStale, Resting, device
<1>8. MediumOK'
  <2>1. \A l \in Lbas \ lost : medium[l] = wanted[l]
    BY Zenon, <1>1 DEF MediumOK, InWrite, Resting
  <2>2. InWrite' = {} BY Zenon, <1>1, <1>2 DEF InWrite, device
  <2> QED BY Zenon, <1>1, <1>2, <1>3, <2>1, <2>2 DEF MediumOK, device
<1> QED BY Zenon, <1>5, <1>6, <1>7, <1>8

\* A call that fails leaves the sector as it was.
LEMMA FailedKeeps ==
  ASSUME AtaInv, failed
  PROVE  AtaInv'
<1> USE DEF AtaInv
<1>1. /\ ata_pc = "failed" /\ ata_pc' = "idle" /\ call' = NoCall /\ ret'.ok = FALSE
      /\ UNCHANGED <<device, buf, wanted, lost>> /\ "BSY" \notin status /\ drive.prompt /\ ~late
  BY Zenon DEF failed, AtaReturn, WorkOK, NothingStale
<1>2. AtaTypes' BY Zenon, <1>1 DEF AtaTypes, Places, device
<1>3. CallOK' /\ WordsOK' BY Zenon, <1>1 DEF CallOK, WordsOK
<1>4. WorkOK' /\ NothingStale' BY Zenon, <1>1 DEF WorkOK, NothingStale, Resting, device
<1>5. MediumOK' BY Zenon, <1>1 DEF MediumOK, InWrite, Resting, device
<1> QED BY Zenon, <1>2, <1>3, <1>4, <1>5

\* outw: a word is appended, and the last one completes the sector.
LEMMA WordSent ==
  ASSUME NEW w \in Seq(Values), NEW d \in Sectors, Len(w) < Words,
         \A i \in 1 .. Len(w) : w[i] = d[i],
         NEW u, u = Append(w, d[Len(w) + 1])
  PROVE  /\ u \in Seq(Values) /\ \A i \in 1 .. Len(u) : u[i] = d[i]
         /\ ~(Len(u) < Words) => u = d
<1>1. d \in Seq(Values) /\ Len(d) = Words /\ Words \in Nat /\ Len(w) \in Nat
  BY SectorWords, AtaAssumption
<1>2. Len(w) + 1 \in 1 .. Len(d) /\ d[Len(w) + 1] \in Values BY <1>1
<1>3. u \in Seq(Values) /\ Len(u) = Len(w) + 1 BY <1>2
<1>4. ASSUME NEW i \in 1 .. Len(u) PROVE u[i] = d[i]
  <2>1. CASE i = Len(w) + 1 BY <1>1, <1>2, <2>1
  <2>2. CASE i \in 1 .. Len(w) BY <1>1, <1>2, <2>2
  <2> QED BY <1>1, <1>3, <2>1, <2>2
<1>5. ASSUME ~(Len(u) < Words) PROVE u = d
  <2>1. Len(u) = Len(d) BY <1>1, <1>3, <1>5
  <2> QED BY <1>1, <1>3, <1>4, <2>1
<1> QED BY Zenon, <1>3, <1>4, <1>5

LEMMA WriteWordKeeps ==
  ASSUME AtaInv, write_word
  PROVE  AtaInv'
<1> USE DEF AtaInv
<1> DEFINE u == Append(job.words, call.data[Len(job.words) + 1])
<1>1. /\ ata_pc = "out" /\ job \in Jobs /\ job.words \in Seq(Values) /\ call.data \in Sectors
      /\ Sent /\ call.op = "write" /\ call.lba \in Lbas /\ job.lba = call.lba /\ job.cmd = "write"
      /\ "BSY" \notin status /\ ~late
  BY Zenon DEF write_word, WordsOK, CallOK, WorkOK, AtaTypes, Jobs
<1>2. \/ /\ Len(u) < Words /\ job' = [job EXCEPT !.words = u] /\ ata_pc' = "out"
         /\ UNCHANGED <<status, late>>
      \/ /\ ~(Len(u) < Words) /\ job' = [job EXCEPT !.cmd = "store", !.words = u]
         /\ ata_pc' = "stored"
         /\ IF drive.prompt THEN status' = {"BSY"} /\ late' = FALSE
            ELSE late' = TRUE /\ UNCHANGED status
  BY Zenon DEF write_word, AtaGoes, Begins
<1>3. UNCHANGED <<drive, medium, call, buf, ret, wanted, lost>>
  BY Zenon DEF write_word, Begins, Keeps
<1>4. /\ u \in Seq(Values) /\ \A i \in 1 .. Len(u) : u[i] = call.data[i]
      /\ ~(Len(u) < Words) => u = call.data
  <2> DEFINE w == job.words
             d == call.data
  <2>1. w \in Seq(Values) /\ d \in Sectors /\ Len(w) < Words /\ u = Append(w, d[Len(w) + 1])
        /\ \A i \in 1 .. Len(w) : w[i] = d[i]
    BY Zenon, <1>1 DEF Sent
  <2> HIDE DEF u, w, d
  <2>2. /\ u \in Seq(Values) /\ \A i \in 1 .. Len(u) : u[i] = d[i]
        /\ ~(Len(u) < Words) => u = d
    BY <2>1, WordSent
  <2> QED BY Zenon, <2>2 DEF d
<1> HIDE DEF u
<1>5. job' \in Jobs /\ job'.lba = job.lba /\ job'.words = u
      /\ job'.cmd = IF Len(u) < Words THEN "write" ELSE "store"
  <2>1. CASE Len(u) < Words BY <1>1, <1>2, <1>4, <2>1, OtherWords
  <2>2. CASE ~(Len(u) < Words)
    <3>1. job' = [job EXCEPT !.cmd = "store", !.words = u] BY Zenon, <1>2, <2>2
    <3> QED BY Zenon, <1>1, <1>4, <2>2, <3>1 DEF Jobs, Commands
  <2> QED BY Zenon, <2>1, <2>2
<1>6. AtaTypes' BY Zenon, <1>2, <1>3, <1>5 DEF AtaTypes, Places
<1>7. CallOK' BY Zenon, <1>1, <1>2, <1>3, <1>5 DEF CallOK
<1>8. WorkOK' BY <1>1, <1>2, <1>3 DEF WorkOK, Resting
<1>9. NothingStale' BY Zenon, <1>1, <1>2, <1>3 DEF NothingStale, Resting
<1>10. WordsOK'
  <2>1. ata_pc' = "out" => Sent' BY Zenon, <1>2, <1>3, <1>4, <1>5 DEF Sent
  <2>2. ata_pc' = "stored" => job'.words = call'.data BY Zenon, <1>2, <1>3, <1>4, <1>5
  <2> QED BY Zenon, <1>2, <2>1, <2>2 DEF WordsOK
<1>11. MediumOK'
  <2>1. \A l \in Lbas \ lost : medium[l] = wanted[l] BY Zenon, <1>1 DEF MediumOK, InWrite, Resting
  <2>2. ata_pc' = "stored" => AtWork' BY Zenon, <1>2 DEF AtWork
  <2>3. ~(ret.op = "read" /\ ret.ok) BY Zenon, <1>1 DEF MediumOK
  <2> QED BY Zenon, <1>2, <1>3, <2>1, <2>2, <2>3 DEF MediumOK
<1> QED BY Zenon, <1>6, <1>7, <1>8, <1>9, <1>10, <1>11

\* wait_bsy behind the last word: the sector is stored, or the drive that shows
\* its work late is still to store it.
LEMMA WriteDoneKeeps ==
  ASSUME AtaInv, write_done
  PROVE  AtaInv'
<1> USE DEF AtaInv
<1>1. /\ ata_pc = "stored" /\ call.op = "write" /\ call.lba \in Lbas /\ job.lba = call.lba
      /\ job.cmd = "store" /\ call.data \in Sectors /\ "BSY" \notin status
      /\ wanted \in [Lbas -> Sectors]
  BY Zenon DEF write_done, CallOK, AtaTypes
<1>2. /\ UNCHANGED <<drive, job, medium, buf, lost>> /\ late' = FALSE
      /\ status' = IF late THEN {"BSY"} ELSE status
      /\ ata_pc' = "idle" /\ call' = NoCall /\ ret'.op = "write"
      /\ wanted' = [wanted EXCEPT ![call.lba] = call.data]
  BY Zenon, <1>1 DEF write_done, AtaReturn, StatusRead
<1>3. wanted' \in [Lbas -> Sectors] /\ wanted'[call.lba] = call.data
      /\ \A l \in Lbas \ {call.lba} : wanted'[l] = wanted[l]
  BY Zenon, <1>1, <1>2
<1>4. AtaTypes' BY Zenon, <1>2, <1>3 DEF AtaTypes, Places
<1>5. CallOK' /\ WordsOK' BY Zenon, <1>2 DEF CallOK, WordsOK
<1>6. late => job.words = call.data BY Zenon, <1>1 DEF WordsOK, AtWork
<1>7. WorkOK' BY Zenon, <1>1, <1>2, <1>3, <1>6 DEF WorkOK, Resting
<1>8. NothingStale' BY Zenon, <1>1, <1>2 DEF NothingStale, Resting
<1>9. MediumOK'
  <2>1. \A l \in Lbas \ (lost \cup {call.lba}) : medium'[l] = wanted'[l]
    BY Zenon, <1>1, <1>2, <1>3 DEF MediumOK, InWrite
  <2>2. CASE late BY Zenon, <1>1, <1>2, <2>1, <2>2 DEF MediumOK, InWrite, Resting
  <2>3. CASE ~late
    <3>1. call.lba \notin lost => medium'[call.lba] = wanted'[call.lba]
      BY Zenon, <1>1, <1>2, <1>3, <2>3 DEF MediumOK, AtWork
    <3>2. InWrite' = {} BY Zenon, <1>1, <1>2, <2>3 DEF InWrite
    <3> QED BY Zenon, <1>2, <2>1, <3>1, <3>2 DEF MediumOK
  <2> QED BY Zenon, <2>2, <2>3 DEF AtaTypes
<1> QED BY Zenon, <1>4, <1>5, <1>7, <1>8, <1>9

\* The end of a command that transfers words, or of a reset.
LEMMA EndsKeeps ==
  ASSUME AtaInv, DriveAssumption, "BSY" \in status, status # Floating,
         NEW bits, NEW words \in Seq(Values), Ends(bits, words),
         UNCHANGED <<ata_pc, call, buf, ret, wanted, lost>>,
         \/ job.cmd = "identify" /\ bits \in {{"DRQ"}, {"ERR"}, {}}
         \/ job.cmd = "read" /\ bits = {"DRQ"} /\ words = medium[job.lba]
         \/ job.cmd = "write" /\ bits = {"DRQ"} /\ words = <<>>
         \/ job.cmd = "reset" /\ bits = {}
         \/ job.cmd \in {"read", "write"} /\ words = <<>>
            /\ (bits = {"DF"} \/ (bits = {"ERR"} /\ drive.errors))
  PROVE  AtaInv'
<1> USE DEF AtaInv
<1>1. /\ ~late /\ status' = {"DRDY"} \cup bits /\ UNCHANGED <<drive, late, medium>>
      /\ job' = [job EXCEPT !.words = words]
      /\ job.cmd \in {"identify", "read", "write", "reset"} /\ bits \subseteq {"DRQ", "ERR", "DF"}
      /\ "ERR" \in bits /\ job.cmd # "identify" => drive.prompt
  BY Zenon DEF Ends, WorkOK, DriveAssumption, AtaTypes
<1>2. job' \in Jobs /\ job'.cmd = job.cmd /\ job'.lba = job.lba /\ job'.words = words
  BY <1>1, OtherWords DEF AtaTypes
<1>3. "BSY" \notin status' /\ ("ERR" \in status' <=> "ERR" \in bits) /\ ("DRQ" \in status' <=> "DRQ" \in bits)
  BY Zenon, <1>1
<1>4. ata_pc \in {"identify", "again", "drq", "accepted"}
  BY Zenon, <1>1 DEF WorkOK, CallOK, Resting, AtaTypes, Places
<1>5. AtaTypes' BY Zenon, <1>1, <1>2 DEF AtaTypes, Places
<1>6. CallOK' BY Zenon, <1>2 DEF CallOK
<1>7. WorkOK' BY Zenon, <1>1, <1>2, <1>3, <1>4 DEF WorkOK, Resting
<1>8. NothingStale' BY Zenon, <1>1, <1>3, <1>4 DEF NothingStale, Resting, CallOK
<1>9. WordsOK' BY <1>1, <1>2, <1>3, <1>4 DEF WordsOK, CallOK
<1>10. MediumOK' BY Zenon, <1>1, <1>2, <1>3, <1>4 DEF MediumOK, InWrite, Resting
<1> QED BY Zenon, <1>5, <1>6, <1>7, <1>8, <1>9, <1>10

\* The end of a store: of the sector of the call, or of the last one.
LEMMA StoreKeeps ==
  ASSUME AtaInv, DriveAssumption, "BSY" \in status, status # Floating, job.cmd = "store",
         UNCHANGED <<ata_pc, call, buf, ret, wanted, drive, late>>,
         \/ /\ status' = {"DRDY"} /\ job' = job
            /\ medium' = [medium EXCEPT ![job.lba] = job.words] /\ lost' = lost \ {job.lba}
         \/ /\ drive.errors /\ status' = {"DRDY"} \cup {"ERR"} /\ job' = [job EXCEPT !.words = <<>>]
            /\ medium' = medium /\ lost' = lost \cup {job.lba}
  PROVE  AtaInv'
<1> USE DEF AtaInv
<1>1. ~late /\ "BSY" \notin status' /\ "DRQ" \notin status' /\ job \in Jobs
  BY Zenon DEF WorkOK, AtaTypes
<1>2. ata_pc \in {"idle", "begin", "stored"}
  BY Zenon, <1>1 DEF WorkOK, CallOK, AtaTypes, Places
<1>3. job' \in Jobs /\ job'.cmd = job.cmd /\ job'.lba = job.lba
  <2>1. CASE job' = job BY Zenon, <1>1, <2>1
  <2>2. CASE job' = [job EXCEPT !.words = <<>>]
    <3> DEFINE w == <<>>
    <3>1. w \in Seq(Values) /\ job' = [job EXCEPT !.words = w] BY Zenon, <2>2, NoWords
    <3> HIDE DEF w
    <3> QED BY <1>1, <3>1, OtherWords
  <2> QED BY Zenon, <2>1, <2>2
<1>4. ata_pc \in Resting => job.lba \in Lbas /\ job.words = wanted[job.lba] /\ ~drive.prompt
  BY Zenon DEF WorkOK
<1>5. ata_pc = "stored" =>
        job.lba \in Lbas /\ job.lba = call.lba /\ job.words = call.data /\ call.data \in Sectors
  BY Zenon DEF CallOK, WordsOK, AtWork
<1>6. ~drive.prompt => ~drive.errors BY Zenon DEF DriveAssumption, AtaTypes
<1>7. /\ medium' \in [Lbas -> Sectors]
      /\ \A l \in Lbas \ {job.lba} : medium'[l] = medium[l]
      /\ job.lba \in Lbas /\ (job.lba \notin lost' => medium'[job.lba] = job.words)
  <2>1. job.lba \in Lbas /\ job.words \in Sectors /\ medium \in [Lbas -> Sectors]
    BY Zenon, <1>2, <1>4, <1>5 DEF AtaTypes, Resting
  <2> QED BY Zenon, <2>1
<1>8. AtaTypes' BY Zenon, <1>3, <1>7 DEF AtaTypes, Places
<1>9. CallOK' BY Zenon, <1>3 DEF CallOK
<1>10. WorkOK' BY Zenon, <1>1, <1>2 DEF WorkOK, Resting
<1>11. NothingStale' BY Zenon, <1>1, <1>2, <1>6 DEF NothingStale, Resting
<1>12. WordsOK' BY Zenon, <1>1, <1>2 DEF WordsOK, AtWork, Resting
<1>13. MediumOK'
  <2>1. \A l \in Lbas \ (lost' \cup {job.lba}) : medium'[l] = wanted'[l]
    BY Zenon, <1>2, <1>7 DEF MediumOK, InWrite
  <2>2. InWrite' = IF ata_pc = "stored" THEN {job.lba} ELSE {}
    BY Zenon, <1>1, <1>3 DEF InWrite
  <2>3. ~(ret.op = "read" /\ ret.ok) BY Zenon DEF MediumOK
  <2>4. ata_pc = "stored" /\ call.lba \notin lost' => medium'[call.lba] = call.data
    BY Zenon, <1>5, <1>7
  <2>5. ata_pc \in Resting /\ job.lba \notin lost' => medium'[job.lba] = wanted'[job.lba]
    BY Zenon, <1>4, <1>7
  <2>6. \A l \in Lbas \ (lost' \cup InWrite') : medium'[l] = wanted'[l]
    BY Zenon, <1>2, <2>1, <2>2, <2>5 DEF Resting
  <2> QED BY Zenon, <2>3, <2>4, <2>6 DEF MediumOK
<1> QED BY Zenon, <1>8, <1>9, <1>10, <1>11, <1>12, <1>13

LEMMA DriveKeeps ==
  ASSUME AtaInv, DriveAssumption, drive_works \/ drive_fault
  PROVE  AtaInv'
<1>0. "BSY" \in status /\ status # Floating /\ UNCHANGED <<ata_pc, call, buf, ret, wanted>>
  BY Zenon DEF drive_works, drive_fault
<1>1. CASE \E bits \in {{"DRQ"}, {"ERR"}, {}} : Ends(bits, CHOOSE s \in Sectors : TRUE)
           /\ job.cmd = "identify" /\ UNCHANGED lost
  <2> DEFINE s0 == CHOOSE s \in Sectors : TRUE
  <2>1. PICK bits \in {{"DRQ"}, {"ERR"}, {}} : Ends(bits, s0) BY Zenon, <1>1
  <2>2. s0 \in Seq(Values) BY Zenon, SomeSector, SectorWords
  <2> HIDE DEF s0
  <2> QED BY Zenon, <1>0, <1>1, <2>1, <2>2, EndsKeeps
<1>2. CASE job.cmd = "read" /\ Ends({"DRQ"}, medium[job.lba]) /\ UNCHANGED lost
  <2> DEFINE w == medium[job.lba]
  <2>1. ata_pc = "drq"
    BY Zenon, <1>0, <1>2 DEF AtaInv, AtaTypes, Places, WorkOK, CallOK, Resting
  <2>2. w \in Seq(Values)
    BY Zenon, <2>1, SectorWords DEF AtaInv, AtaTypes, CallOK
  <2>3. w = medium[job.lba] OBVIOUS
  <2> HIDE DEF w
  <2> QED BY Zenon, <1>0, <1>2, <2>2, <2>3, EndsKeeps
<1>3. CASE job.cmd \in {"write", "reset", "read"} /\ UNCHANGED lost
           /\ \E bits \in {{"DRQ"}, {}, {"ERR"}, {"DF"}} :
                /\ Ends(bits, <<>>)
                /\ \/ job.cmd = "write" /\ bits = {"DRQ"}
                   \/ job.cmd = "reset" /\ bits = {}
                   \/ job.cmd \in {"read", "write"} /\ bits = {"ERR"} /\ drive.errors
                   \/ job.cmd \in {"read", "write"} /\ bits = {"DF"}
  <2> DEFINE w == <<>>
  <2>1. PICK bits \in {{"DRQ"}, {}, {"ERR"}, {"DF"}} :
                /\ Ends(bits, w)
                /\ \/ job.cmd = "write" /\ bits = {"DRQ"}
                   \/ job.cmd = "reset" /\ bits = {}
                   \/ job.cmd \in {"read", "write"} /\ bits = {"ERR"} /\ drive.errors
                   \/ job.cmd \in {"read", "write"} /\ bits = {"DF"}
    BY Zenon, <1>3
  <2>2. w \in Seq(Values) /\ w = <<>> BY Zenon, NoWords
  <2> HIDE DEF w
  <2> QED BY Zenon, <1>0, <1>3, <2>1, <2>2, EndsKeeps
<1>4. CASE /\ job.cmd = "store" /\ status' = {"DRDY"}
           /\ medium' = [medium EXCEPT ![job.lba] = job.words]
           /\ lost' = lost \ {job.lba}
           /\ UNCHANGED <<drive, late, job>>
  BY Zenon, <1>0, <1>4, StoreKeeps
<1>5. CASE drive.errors /\ job.cmd = "store" /\ Ends({"ERR"}, <<>>) /\ lost' = lost \cup {job.lba}
  BY Zenon, <1>0, <1>5, StoreKeeps DEF Ends
<1>6. CASE drive_works
  BY Zenon, <1>1, <1>2, <1>3, <1>4, <1>5, <1>6 DEF drive_works
<1>7. CASE drive_fault
  BY Zenon, <1>3, <1>7 DEF drive_fault
<1> QED BY Zenon, <1>6, <1>7

\* All steps of the kernel, of the drive, and its faults.
LEMMA AtaInvariance ==
  ASSUME DriveAssumption, AtaInv, [Next \/ Fault]_vars
  PROVE  AtaInv'
<1>1. CASE UNCHANGED ata_vars
  <2> USE <1>1 DEF ata_vars, device, AtaInv
  <2>1. AtWork' = AtWork /\ InWrite' = InWrite BY Zenon DEF AtWork, InWrite
  <2>2. Received' = Received /\ Sent' = Sent BY Zenon DEF Received, Sent
  <2>3. AtaTypes' BY Zenon DEF AtaTypes
  <2>4. CallOK' BY Zenon DEF CallOK
  <2>5. WorkOK' /\ NothingStale' BY Zenon DEF WorkOK, NothingStale
  <2>6. WordsOK' BY Zenon, <2>1, <2>2 DEF WordsOK
  <2>7. MediumOK' BY Zenon, <2>1 DEF MediumOK
  <2> QED BY Zenon, <2>3, <2>4, <2>5, <2>6, <2>7
<1>2. CASE DiskCall \/ DateCall \/ Shutdown
  BY Zenon, <1>2, CallsKeep DEF DiskCall, DateCall, Shutdown, Ready
<1>3. CASE Probing \/ Driver
  BY Zenon, <1>3, ProbeKeeps, BeginKeeps, ResetKeeps, CommandKeeps, AnswerKeeps, ReadWordKeeps, ReadDoneKeeps,
     FailedKeeps, WriteWordKeeps, WriteDoneKeeps DEF Probing, Driver, AtaStep
<1>4. CASE Drive \/ Fault
  BY Zenon, <1>4, DriveKeeps DEF Drive, Fault
<1> QED BY Zenon, <1>1, <1>2, <1>3, <1>4 DEF Next, vars, Booting, Dating, Clock

\* The disk is an array of sectors: on a drive that meets the assumption, a read
\* that reports success returns what the last write left, and no call changes
\* another sector, whatever commands, errors, resets, waits and device faults
\* come between.
THEOREM SectorsKeptHolds ==
  ASSUME DriveAssumption
  PROVE  (Spec => []SectorsKept) /\ (FaultSpec => []SectorsKept)
<1>1. Init => AtaInv BY Zenon, AtaInitInv DEF Init
<1>2. AtaInv /\ [Next \/ Fault]_vars => AtaInv' BY Zenon, AtaInvariance
<1>3. AtaInv /\ [Next]_vars => AtaInv' BY Zenon, AtaInvariance
<1>4. AtaInv => SectorsKept
  BY Zenon DEF AtaInv, MediumOK, SectorsKept, Quiet, InWrite
<1>5. Spec => []SectorsKept BY <1>1, <1>3, <1>4, PTL DEF Spec
<1>6. FaultSpec => []SectorsKept BY <1>1, <1>2, <1>4, PTL DEF FaultSpec
<1> QED BY Zenon, <1>5, <1>6

=============================================================================
