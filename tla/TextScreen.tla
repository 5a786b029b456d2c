---------------------------- MODULE TextScreen ----------------------------
(***************************************************************************)
(* The two text displays behind the Display trait, as functions of the     *)
(* cells of the screen and the cursor: src/hal/display.rs (VGA text mode)  *)
(* and src/hal/framebuffer.rs (glyphs drawn in a linear framebuffer).      *)
(* What is below the size of a cell, the underline that framebuffer.rs     *)
(* draws as a cursor included, is left out.                                *)
(***************************************************************************)
EXTENDS Integers, Sequences, SequencesExt

CONSTANTS Cols, Rows
ASSUME ScreenAssumption == Cols \in Nat \ {0, 1, 2} /\ Rows \in Nat \ {0}

Backends == {"vga", "framebuffer"}

\* Characters that putchar does not draw.
Controls == {"BS", "CR", "NL"}
Blank    == " "
BlankRow == [k \in 0 .. Cols - 1 |-> Blank]

\* clear
Cleared == [cells |-> [r \in 0 .. Rows - 1 |-> BlankRow], row |-> 0, col |-> 0]

\* scroll
Scrolled(cells) == [r \in 0 .. Rows - 1 |-> IF r < Rows - 1 THEN cells[r + 1] ELSE BlankRow]

\* The start of the next row; the last one scrolls.
Newline(d) ==
  IF d.row + 1 < Rows THEN [d EXCEPT !.row = @ + 1, !.col = 0]
  ELSE [d EXCEPT !.cells = Scrolled(@), !.col = 0]

Draw(d, ch) == [d EXCEPT !.cells[d.row][d.col] = ch]
Back(d)     == IF d.col > 0 THEN [d EXCEPT !.col = @ - 1] ELSE d

\* VgaDisplay: a backspace only moves, and a full row wraps when the next
\* character comes.
VgaPut(d, ch) ==
  CASE ch = "BS" -> Back(d)
    [] ch = "CR" -> [d EXCEPT !.col = 0]
    [] ch = "NL" -> Newline(d)
    [] OTHER -> LET e == IF d.col >= Cols THEN Newline(d) ELSE d
                IN  [Draw(e, ch) EXCEPT !.col = @ + 1]

\* FramebufferDisplay: a backspace blanks the cell it moves to, and a full row
\* wraps at once.
FbPut(d, ch) ==
  CASE ch = "BS" -> Draw(Back(d), Blank)
    [] ch = "CR" -> [d EXCEPT !.col = 0]
    [] ch = "NL" -> Newline(d)
    [] OTHER -> LET e == [Draw(d, ch) EXCEPT !.col = @ + 1]
                IN  IF e.col + 1 > Cols THEN Newline(e) ELSE e

\* putchar and write of DisplayBackend.
Put(backend, d, ch) == IF backend = "vga" THEN VgaPut(d, ch) ELSE FbPut(d, ch)
Write(backend, d, s) == FoldLeft(LAMBDA e, ch : Put(backend, e, ch), d, s)
Times(ch, n) == [i \in 1 .. n |-> ch]
=============================================================================
