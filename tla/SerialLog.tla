----------------------------- MODULE SerialLog -----------------------------
(***************************************************************************)
(* The boot log of src/hal/serial.rs with several cores logging: log_hex   *)
(* formats into FMT_BUF, log_ms copies the message to its stack, builds    *)
(* the line in LOG_BUF, and serial_debug sends the line byte by byte       *)
(* between lock and unlock of the serial SpinLock.  FMT_BUF and LOG_BUF    *)
(* are shared and have no lock.                                            *)
(*                                                                         *)
(* Buffers and lines have Width cells; a cell is the core whose text it    *)
(* holds.                                                                  *)
(***************************************************************************)
EXTENDS SpinLock, Sequences

CONSTANTS
  SerialPort,    \* the lock of the port
  NoCore,        \* no core's text
  Width          \* cells per buffer

ASSUME LogAssumption == SerialPort \in Locks /\ Width \in Nat \ {0} /\ NoCore \notin Cores

Cells == 1 .. Width

VARIABLES
  FMT_BUF, LOG_BUF,
  copy,          \* per core: msg_copy of log_ms
  doing, k,      \* per core: where it is in log, and the next cell
  line           \* what the port sent since the last end of line

texts   == <<FMT_BUF, LOG_BUF, copy>>
logVars == <<vars, texts, doing, k, line>>

Blanks == [i \in Cells |-> NoCore]

LogInit ==
  /\ Init
  /\ FMT_BUF = Blanks /\ LOG_BUF = Blanks
  /\ copy = [c \in Cores |-> Blanks]
  /\ doing = [c \in Cores |-> "nothing"] /\ k = [c \in Cores |-> 1]
  /\ line = <<>>

Goes(c, from, to) == doing[c] = from /\ doing' = [doing EXCEPT ![c] = to]

\* One cell of a loop over a buffer; the last one leads on.
Loop(c, at, after) ==
  /\ doing[c] = at
  /\ \/ /\ k[c] < Width
        /\ k' = [k EXCEPT ![c] = k[c] + 1] /\ UNCHANGED doing
     \/ /\ k[c] = Width
        /\ k' = [k EXCEPT ![c] = 1] /\ doing' = [doing EXCEPT ![c] = after]

\* The core runs and is in no call of lock or unlock.
Outside(c) == At(c, "out") /\ UNCHANGED <<vars, line>>

-----------------------------------------------------------------------------
\* log with a literal: the message cannot change, so msg_copy is right.
log_literal(c) ==
  /\ Outside(c) /\ Goes(c, "nothing", "put")
  /\ copy' = [copy EXCEPT ![c] = [i \in Cells |-> c]]
  /\ UNCHANGED <<FMT_BUF, LOG_BUF, k>>

log_hex(c) == Outside(c) /\ Goes(c, "nothing", "fmt") /\ UNCHANGED <<texts, k>>

\* put_str, put and put_hex into FMT_BUF.
fmt_put(c) ==
  /\ Outside(c) /\ Loop(c, "fmt", "copy")
  /\ FMT_BUF' = [FMT_BUF EXCEPT ![k[c]] = c]
  /\ UNCHANGED <<LOG_BUF, copy>>

\* msg_copy[..ml].copy_from_slice(msg)
log_copy(c) ==
  /\ Outside(c) /\ Loop(c, "copy", "put")
  /\ copy' = [copy EXCEPT ![c][k[c]] = FMT_BUF[k[c]]]
  /\ UNCHANGED <<FMT_BUF, LOG_BUF>>

\* put_str(buf, i, msg) into LOG_BUF.
log_put(c) ==
  /\ Outside(c) /\ Loop(c, "put", "lock")
  /\ LOG_BUF' = [LOG_BUF EXCEPT ![k[c]] = copy[c][k[c]]]
  /\ UNCHANGED <<FMT_BUF, copy>>

\* Mutant: serial_debug does not take the lock.
serial_no_lock(c) ==
  /\ At(c, "out") /\ Goes(c, "lock", "send")
  /\ target' = [target EXCEPT ![c] = SerialPort] /\ pc' = [pc EXCEPT ![c] = "critical"]
  /\ UNCHANGED <<flag, saved_if, intr, handling, if_set, texts, k, line>>

serial_lock(c) ==
  Goes(c, "lock", "send") /\ lock_read(c, SerialPort) /\ UNCHANGED <<texts, k, line>>

\* lock and unlock go on, and interrupts come and go.
serial_step(c) ==
  /\ lock_save(c) \/ lock_cli(c) \/ lock_acquire(c) \/ lock_spin(c)
       \/ (doing[c] = "nothing" /\ boot_sti(c)) \/ interrupt(c) \/ iret(c)
  /\ UNCHANGED <<texts, doing, k, line>>

\* serial_debug sends what LOG_BUF holds at that moment.
serial_send(c) ==
  /\ At(c, "critical") /\ Loop(c, "send", "unlock")
  /\ line' = Append(line, [by |-> c, text |-> LOG_BUF[k[c]]])
  /\ UNCHANGED <<vars, texts>>

serial_unlock(c) ==
  /\ doing[c] = "unlock" /\ unlock_store(c) /\ line' = <<>>
  /\ UNCHANGED <<texts, doing, k>>

serial_return(c) ==
  Goes(c, "unlock", "nothing") /\ unlock_restore(c) /\ UNCHANGED <<texts, k, line>>

LogStep(c) ==
  \/ fmt_put(c) \/ log_copy(c) \/ log_put(c) \/ serial_lock(c) \/ serial_step(c)
  \/ serial_send(c) \/ serial_unlock(c) \/ serial_return(c)

LogNext == \E c \in Cores : log_literal(c) \/ log_hex(c) \/ LogStep(c)

LogSpec == LogInit /\ [][LogNext]_logVars

-----------------------------------------------------------------------------
\* Lines do not interleave on the port: between two ends of line all bytes are
\* sent by the core that holds the lock, and there are never more than one
\* line's.
Contiguous ==
  /\ Len(line) <= Width
  /\ \A i \in 1 .. Len(line) : Holds(line[i].by, SerialPort)

\* serial.rs:153, "Builds the message in FMT_BUF so it can be passed to `log`
\* safely", and serial.rs:102, "copied to a local buffer first": a core's line
\* carries that core's message.
OwnText == \A i \in 1 .. Len(line) : line[i].text = line[i].by

=============================================================================
