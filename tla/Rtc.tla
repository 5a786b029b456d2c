-------------------------------- MODULE Rtc --------------------------------
(***************************************************************************)
(* The real-time clock, src/hal/rtc.rs: read_datetime reads one CMOS       *)
(* register per step while the clock runs.                                 *)
(***************************************************************************)
EXTENDS Naturals, Sequences

CONSTANTS
  Moments,         \* the dates the clock goes through, one per second
  RETRIES,         \* 100
  Piecewise        \* the clock changes its registers one by one

ASSUME RtcAssumption ==
  RETRIES \in Nat \ {0} /\ Len(Moments) > 0 /\ Piecewise \in BOOLEAN

\* The registers in the order of a pass, which ends with the seconds again.
Registers == <<"seconds", "minutes", "hours", "day", "month", "year">>
Pass      == Registers \o <<"seconds">>

VARIABLES
  bcd,             \* status register B: the registers are in BCD
  now, changed,    \* the moment shown, and registers that show the next one
  rtc_pc,          \* "idle", "pass", "last" (after the retries)
  got,             \* bytes read in this pass
  tries,
  began,           \* the moment shown when the call began
  date             \* what it returned

clock    == <<bcd, now, changed>>
rtc_vars == <<clock, rtc_pc, got, tries, began, date>>

NoDate == [year |-> 0]

-----------------------------------------------------------------------------
(* The clock.                                                              *)

Byte(d, r) ==
  LET v == IF r = "year" THEN d.year % 100 ELSE d[r]
  IN  IF bcd THEN (v \div 10) * 16 + (v % 10) ELSE v

cmos_read(r) ==
  LET new == \E i \in 1 .. changed : Registers[i] = r
  IN  Byte(IF new THEN Moments[now + 1] ELSE Moments[now], r)

\* Time passes between calls too, see read_datetime.
tick ==
  /\ rtc_pc # "idle" /\ now < Len(Moments)
  /\ IF Piecewise /\ changed < Len(Registers) - 1
     THEN changed' = changed + 1 /\ UNCHANGED now
     ELSE changed' = 0 /\ now' = now + 1
  /\ UNCHANGED <<bcd, rtc_pc, got, tries, began, date>>

-----------------------------------------------------------------------------
bcd_to_bin(b) == (b % 16) + (b \div 16) * 10
century(y)    == IF y < 80 THEN y + 2000 ELSE y + 1900

\* The date of the first six bytes of a pass.
Decoded(bytes) ==
  LET v(i) == IF bcd THEN bcd_to_bin(bytes[i]) ELSE bytes[i]
  IN  [seconds |-> v(1), minutes |-> v(2), hours |-> v(3), day |-> v(4),
       month |-> v(5), year |-> century(v(6))]

RtcInit ==
  /\ bcd \in BOOLEAN /\ now = 1 /\ changed = 0
  /\ rtc_pc = "idle" /\ got = <<>> /\ tries = 0 /\ began = 1 /\ date = NoDate

\* Another call begins, and the date is no longer looked at.
RtcForgotten ==
  /\ now' = 1 /\ changed' = 0 /\ tries' = 0 /\ began' = 1 /\ date' = NoDate
  /\ UNCHANGED <<bcd, rtc_pc, got>>

\* The call begins at any moment.
read_datetime ==
  /\ rtc_pc = "idle" /\ rtc_pc' = "pass"
  /\ \E m \in 1 .. Len(Moments) : now' = m /\ began' = m
  /\ changed' = 0 /\ got' = <<>> /\ tries' = 0 /\ date' = NoDate
  /\ UNCHANGED bcd

rtc_read ==
  /\ rtc_pc \in {"pass", "last"} /\ Len(got) < Len(IF rtc_pc = "pass" THEN Pass ELSE Registers)
  /\ got' = Append(got, cmos_read(Pass[Len(got) + 1]))
  /\ UNCHANGED <<clock, rtc_pc, tries, began, date>>

rtc_return ==
  /\ rtc_pc' = "idle" /\ date' = Decoded(got) /\ got' = <<>>
  /\ UNCHANGED <<clock, tries, began>>

\* Mutant: the second reading of the seconds is not compared.
rtc_settled_always == rtc_pc = "pass" /\ Len(got) = Len(Pass) /\ rtc_return

\* sec1 == sec2
rtc_settled ==
  rtc_pc = "pass" /\ Len(got) = Len(Pass) /\ got[1] = got[Len(Pass)] /\ rtc_return

rtc_retry ==
  /\ rtc_pc = "pass" /\ Len(got) = Len(Pass) /\ got[1] # got[Len(Pass)]
  /\ got' = <<>> /\ tries' = tries + 1
  /\ rtc_pc' = IF tries + 1 < RETRIES THEN "pass" ELSE "last"
  /\ UNCHANGED <<clock, began, date>>

\* One more reading, which nothing verifies.
rtc_give_up == rtc_pc = "last" /\ Len(got) = Len(Registers) /\ rtc_return

RtcStep == rtc_read \/ rtc_settled \/ rtc_retry \/ rtc_give_up

-----------------------------------------------------------------------------
\* The date returned is one the clock showed during the call, although its
\* registers are read one by one around a tick ("read twice, verify seconds
\* match" approach to avoid reading across a tick boundary, rtc.rs:58).  Not
\* when the clock ticked in every pass and the retries ran out.
DateWasTrue ==
  rtc_pc = "idle" /\ date # NoDate /\ tries < RETRIES =>
    \E k \in began .. now : date = Moments[k]

=============================================================================
