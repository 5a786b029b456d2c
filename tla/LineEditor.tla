---------------------------- MODULE LineEditor ----------------------------
(***************************************************************************)
(* What the shell's input line promises: text before and behind a cursor,  *)
(* the latest commands to be recalled, and the words of the command that   *)
(* is handed on.                                                           *)
(***************************************************************************)
EXTENDS Naturals, FiniteSets, Sequences, SequencesExt

CONSTANTS Chars, Width, HISTORY_SIZE, MAX_ARGS

VARIABLES left, right, past, back, command

vars == <<left, right, past, back, command>>

Init == left = <<>> /\ right = <<>> /\ past = <<>> /\ back = 0 /\ command = <<>>

Type(ch) ==
  /\ Len(left) + Len(right) < Width
  /\ left' = Append(left, ch) /\ UNCHANGED <<right, past, back, command>>

Rub ==
  /\ left # <<>>
  /\ left' = Front(left) /\ UNCHANGED <<right, past, back, command>>

MoveLeft ==
  /\ left # <<>>
  /\ left' = Front(left) /\ right' = <<Last(left)>> \o right
  /\ UNCHANGED <<past, back, command>>

MoveRight ==
  /\ right # <<>>
  /\ left' = Append(left, Head(right)) /\ right' = Tail(right)
  /\ UNCHANGED <<past, back, command>>

\* The k-th latest command, or an empty line.
Recall(k) ==
  /\ k \in 0 .. Len(past) /\ back' = k
  /\ left' = (IF k = 0 THEN <<>> ELSE past[k]) /\ right' = <<>>
  /\ UNCHANGED <<past, command>>

\* The words of s: its longest runs without a space, in order.
Runs(s) ==
  {<<i, j>> \in (1 .. Len(s)) \X (1 .. Len(s)) :
     /\ i <= j /\ \A k \in i .. j : s[k] # " "
     /\ i > 1 => s[i - 1] = " "
     /\ j < Len(s) => s[j + 1] = " "}
Words(s) ==
  LET order == SetToSortSeq(Runs(s), LAMBDA x, y : x[1] < y[1])
  IN  [n \in 1 .. Len(order) |-> SubSeq(s, order[n][1], order[n][2])]

Upto(s, n) == SubSeq(s, 1, IF Len(s) < n THEN Len(s) ELSE n)

\* What is in front of the first space is the command, the words behind it are
\* its arguments.
Parse(s) ==
  LET spaces == {i \in 1 .. Len(s) : s[i] = " "}
      n      == IF spaces = {} THEN Len(s) + 1 ELSE CHOOSE i \in spaces : \A j \in spaces : i <= j
  IN  <<SubSeq(s, 1, n - 1), Upto(Words(SubSeq(s, n + 1, Len(s))), MAX_ARGS)>>

Submit ==
  /\ LET line == left \o right IN
       IF line = <<>> THEN UNCHANGED <<past, command>>
       ELSE past' = Upto(<<line>> \o past, HISTORY_SIZE) /\ command' = Parse(line)
  /\ left' = <<>> /\ right' = <<>> /\ back' = 0

Next ==
  \/ \E ch \in Chars : Type(ch)
  \/ Rub \/ MoveLeft \/ MoveRight \/ Submit
  \/ Recall(back + 1) \/ (back > 0 /\ Recall(back - 1))

Spec == Init /\ [][Next]_vars
=============================================================================
