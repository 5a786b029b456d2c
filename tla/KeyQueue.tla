------------------------------ MODULE KeyQueue ------------------------------
(***************************************************************************)
(* What the keyboard promises the shell: what was typed arrives in order,  *)
(* each key once and as it was typed; a character is lost only when it     *)
(* arrives while Capacity characters wait to be read.                      *)
(***************************************************************************)
EXTENDS Sequences, Naturals

CONSTANTS Chars, Capacity

VARIABLES
  typed,     \* characters typed, on their way
  queue,     \* characters waiting to be read
  got        \* the character getchar returned last

vars == <<typed, queue, got>>

Type == \E c \in Chars : typed' = Append(typed, c) /\ UNCHANGED <<queue, got>>

Arrive ==
  /\ typed # <<>>
  /\ typed' = Tail(typed)
  /\ \/ Len(queue) < Capacity /\ queue' = Append(queue, Head(typed))
     \/ Len(queue) = Capacity /\ UNCHANGED queue
  /\ UNCHANGED got

Get ==
  /\ queue # <<>>
  /\ queue' = Tail(queue)
  /\ got' = Head(queue)
  /\ UNCHANGED typed

Init == typed = <<>> /\ queue = <<>> /\ got \in Chars
Next == Type \/ Arrive \/ Get
Spec == Init /\ [][Next]_vars

=============================================================================
