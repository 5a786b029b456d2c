-------------------------------- MODULE Ata --------------------------------
(***************************************************************************)
(* The ATA PIO driver, src/hal/ata.rs, against a drive: probe, read_sector *)
(* and write_sector step by step, each waiting loop a step that is taken   *)
(* when its condition holds, each word of a transfer a step.               *)
(*                                                                         *)
(* The drive is what the driver takes it for: it works while BSY is set,   *)
(* then asks for the transfer with DRQ or reports ERR or, when it is       *)
(* broken, only DF.  One that is not prompt may show its old status to the *)
(* first read after a command, which is what delay is for.                 *)
(***************************************************************************)
EXTENDS Naturals, Sequences

CONSTANTS
  Lbas,            \* sectors the file system uses
  LBA_LIMIT,       \* 2^28
  Words,           \* words of a sector (256)
  Values,          \* what a word may be
  Sectors,         \* what is stored and written
  Drives           \* kinds of drives: [prompt, errors]

ASSUME AtaAssumption ==
  /\ LBA_LIMIT \in Nat \ {0} /\ Lbas \subseteq 0 .. LBA_LIMIT - 1
  /\ Words \in Nat \ {0} /\ Sectors \subseteq [1 .. Words -> Values] /\ Sectors # {}
  /\ Drives \subseteq [prompt : BOOLEAN, errors : BOOLEAN]

Floating == {"BSY", "DRDY", "DF", "DRQ", "ERR"}     \* 0xFF: nothing is connected

VARIABLES
  drive,           \* which kind it is
  status,          \* the bits of its status register
  late,            \* the drive has work that status does not show yet
  job,             \* its command, sector, and the words of the transfer
  medium,          \* what is stored
  ata_pc, call,    \* where the driver is, and the arguments
  buf,             \* words transferred
  ret,             \* the last call and what it returned
  wanted,          \* history: sectors as the successful writes left them
  lost             \* history: sectors whose last write failed late

device   == <<drive, status, late, job, medium>>
ata_vars == <<device, ata_pc, call, buf, ret, wanted, lost>>
NoCall == [op |-> "none"]
NoJob  == [cmd |-> "none", lba |-> 0, words |-> <<>>]

AtaInit ==
  /\ drive \in Drives /\ status \in {Floating, {"DRDY"}, {}} /\ late = FALSE
  /\ job = NoJob
  /\ medium = [l \in Lbas |-> CHOOSE s \in Sectors : TRUE]
  /\ ata_pc = "unprobed" /\ call = NoCall /\ buf = <<>> /\ ret = NoCall
  /\ wanted = medium /\ lost = {}

-----------------------------------------------------------------------------
(* The drive.                                                              *)

\* The work j begins; delay makes sure that status shows it.
Begins(j, delayed) ==
  /\ job' = j
  /\ IF drive.prompt \/ delayed THEN status' = {"BSY"} /\ late' = FALSE
     ELSE late' = TRUE /\ UNCHANGED status
  /\ UNCHANGED <<drive, medium>>

\* A status read leaves the drive as it is; only the first may be too early.
StatusRead ==
  /\ status' = IF late THEN {"BSY"} ELSE status
  /\ late' = FALSE /\ UNCHANGED <<drive, job, medium>>

Ends(bits, words) ==
  /\ status' = {"DRDY"} \cup bits /\ job' = [job EXCEPT !.words = words]
  /\ UNCHANGED <<drive, late, medium>>

drive_works ==
  /\ "BSY" \in status /\ status # Floating
  /\ \/ job.cmd = "identify"
        /\ \E bits \in {{"DRQ"}, {"ERR"}, {}} : Ends(bits, CHOOSE s \in Sectors : TRUE)
        /\ UNCHANGED lost
     \/ job.cmd = "read" /\ Ends({"DRQ"}, medium[job.lba]) /\ UNCHANGED lost
     \/ job.cmd = "write" /\ Ends({"DRQ"}, <<>>) /\ UNCHANGED lost
     \/ job.cmd = "reset" /\ Ends({}, <<>>) /\ UNCHANGED lost
     \/ /\ job.cmd = "store" /\ status' = {"DRDY"}
        /\ medium' = [medium EXCEPT ![job.lba] = job.words]
        /\ lost' = lost \ {job.lba}
        /\ UNCHANGED <<drive, late, job>>
     \/ drive.errors /\ job.cmd \in {"read", "write"} /\ Ends({"ERR"}, <<>>) /\ UNCHANGED lost
     \/ drive.errors /\ job.cmd = "store" /\ Ends({"ERR"}, <<>>) /\ lost' = lost \cup {job.lba}
  /\ UNCHANGED <<ata_pc, call, buf, ret, wanted>>

\* A device fault: DF without ERR.
drive_fault ==
  /\ "BSY" \in status /\ status # Floating /\ job.cmd \in {"read", "write"}
  /\ Ends({"DF"}, <<>>) /\ UNCHANGED <<ata_pc, call, buf, ret, wanted, lost>>

-----------------------------------------------------------------------------
(* The driver.                                                             *)

AtaGoes(p) == ata_pc' = p

AtaReturn(ok, words) ==
  /\ ata_pc' = "idle" /\ call' = NoCall /\ buf' = words
  /\ ret' = [op |-> call.op, lba |-> call.lba, ok |-> ok]
  /\ wanted' = IF call.op = "write" /\ ok THEN [wanted EXCEPT ![call.lba] = call.data]
               ELSE wanted

Keeps == UNCHANGED <<call, buf, ret, wanted, lost>>

\* A wait: the loop ends with the status read that meets done.
Wait(from, done, to) ==
  /\ ata_pc = from /\ (done \/ late)
  /\ AtaGoes(IF done THEN to ELSE from) /\ StatusRead /\ Keeps

probe ==
  /\ ata_pc = "unprobed"
  /\ IF status = Floating THEN AtaGoes("absent") /\ UNCHANGED device
     ELSE AtaGoes("identify") /\ Begins([NoJob EXCEPT !.cmd = "identify"], TRUE)
  /\ Keeps

\* Neither an error nor data means that it is no ATA disk.
probe_answer ==
  Wait("identify", "BSY" \notin status,
       IF "ERR" \in status \/ "DRQ" \notin status THEN "absent" ELSE "ident")

\* The 256 words and the status read behind them.
probe_words ==
  /\ ata_pc = "ident" /\ AtaGoes("idle")
  /\ status' = {"DRDY"} /\ job' = [job EXCEPT !.words = <<>>]
  /\ UNCHANGED <<drive, late, medium>> /\ Keeps

\* The result of the last call is no longer looked at.
AtaForgotten ==
  buf' = <<>> /\ ret' = NoCall /\ UNCHANGED <<device, ata_pc, call, wanted, lost>>

read_sector(l) ==
  /\ ata_pc = "idle" /\ AtaGoes("begin")
  /\ call' = [op |-> "read", lba |-> l] /\ buf' = <<>> /\ ret' = NoCall
  /\ UNCHANGED <<device, wanted, lost>>

write_sector(l, d) ==
  /\ ata_pc = "idle" /\ AtaGoes("begin")
  /\ call' = [op |-> "write", lba |-> l, data |-> d] /\ buf' = <<>> /\ ret' = NoCall
  /\ UNCHANGED <<device, wanted, lost>>

\* Mutant: a drive at work gets the next command.
begin_busy ==
  /\ ata_pc = "begin" /\ AtaGoes("command")
  /\ StatusRead /\ Keeps

\* wait_bsy; a drive that is not ready is reset.
begin ==
  Wait("begin", "BSY" \notin status, IF "DRDY" \in status THEN "command" ELSE "reset")

reset ==
  /\ ata_pc = "reset" /\ AtaGoes("again")
  /\ Begins([NoJob EXCEPT !.cmd = "reset"], TRUE) /\ Keeps

again == Wait("again", "BSY" \notin status, "command")

\* The 28 bits that lba_write puts into the registers.
lba_write(l) == l % LBA_LIMIT

\* Only write_sector has a delay behind the command.
command ==
  /\ ata_pc = "command"
  /\ Begins([cmd |-> call.op, lba |-> lba_write(call.lba), words |-> <<>>], call.op = "write")
  /\ AtaGoes(IF call.op = "read" THEN "drq" ELSE "accepted") /\ Keeps

\* Mutant: an error does not end the wait.
read_drq_only ==
  Wait("drq", "BSY" \notin status /\ "DRQ" \in status,
       IF "ERR" \in status THEN "failed" ELSE "in")

\* wait_for_drq of read_sector
read_drq ==
  Wait("drq", "BSY" \notin status /\ status \cap {"DRQ", "ERR"} # {},
       IF "ERR" \in status THEN "failed" ELSE "in")

\* wait_bsy, then wait_drq of write_sector
write_accepted ==
  Wait("accepted", "BSY" \notin status, IF "ERR" \in status THEN "failed" ELSE "wdrq")
write_drq ==
  Wait("wdrq", status \cap {"DRQ", "ERR"} # {}, IF "ERR" \in status THEN "failed" ELSE "out")

failed == ata_pc = "failed" /\ AtaReturn(FALSE, buf) /\ UNCHANGED <<device, lost>>

\* inw: the next word of the transfer, or anything when there is none.
read_word ==
  /\ ata_pc = "in" /\ Len(buf) < Words
  /\ IF job.words # <<>>
     THEN /\ buf' = Append(buf, Head(job.words))
          /\ job' = [job EXCEPT !.words = Tail(@)]
          /\ status' = IF Len(job.words) = 1 THEN status \ {"DRQ"} ELSE status
     ELSE (\E v \in Values : buf' = Append(buf, v)) /\ UNCHANGED <<job, status>>
  /\ UNCHANGED <<drive, late, medium, ata_pc, call, ret, wanted, lost>>

\* The status read behind the last word.
read_done ==
  /\ ata_pc = "in" /\ Len(buf) = Words
  /\ AtaReturn(TRUE, buf) /\ StatusRead /\ UNCHANGED lost

\* outw; the last word makes the drive store the sector.
write_word ==
  /\ ata_pc = "out"
  /\ LET sent == Append(job.words, call.data[Len(job.words) + 1]) IN
       IF Len(sent) < Words
       THEN /\ job' = [job EXCEPT !.words = sent] /\ AtaGoes("out")
            /\ UNCHANGED <<drive, status, late, medium>>
       ELSE /\ Begins([job EXCEPT !.cmd = "store", !.words = sent], FALSE)
            /\ AtaGoes("stored")
  /\ Keeps

\* wait_bsy; an error is cleared and true is returned.
write_done ==
  /\ ata_pc = "stored" /\ "BSY" \notin status
  /\ AtaReturn(TRUE, buf) /\ StatusRead /\ UNCHANGED lost

AtaStep ==
  \/ probe_answer \/ probe_words \/ begin \/ reset \/ again \/ command
  \/ read_drq \/ read_word \/ read_done
  \/ write_accepted \/ write_drq \/ write_word \/ write_done \/ failed

-----------------------------------------------------------------------------
\* The drive is at rest.
Quiet == ~late /\ "BSY" \notin status

\* The device is an array of sectors, as fat32.rs takes it for: a read that
\* reports success returns what the last successful write left, whatever
\* commands, errors, resets and waits came between, and nothing else changes.
\* Sectors whose write failed late are left out, see WriteHonest.
SectorsKept ==
  \A l \in Lbas \ lost :
    /\ ret.op = "read" /\ ret.lba = l /\ ret.ok => buf = wanted[l]
    /\ ata_pc = "idle" /\ Quiet => medium[l] = wanted[l]

\* block.rs:11, "Write one 512-byte sector. Returns `true` on success."
WriteHonest ==
  ret.op = "write" /\ ret.ok /\ Quiet => medium[ret.lba] = wanted[ret.lba]

=============================================================================
