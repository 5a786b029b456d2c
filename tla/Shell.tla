------------------------------- MODULE Shell -------------------------------
(***************************************************************************)
(* The shell, src/shell/mod.rs: one action per key that getchar returns.   *)
(* A key is handled to its end before the next is read, and nothing else   *)
(* writes to the display meanwhile.  The first len bytes of the line       *)
(* buffer are the sequence buf, a history entry and its length a sequence. *)
(***************************************************************************)
EXTENDS TextScreen

CONSTANTS
  Chars,           \* printable characters
  MAX_CMD, HISTORY_SIZE,
  MAX_ARGS,        \* 16
  ECHO, CLS,       \* names of built-in commands
  BANNER,
  MESSAGE          \* what any other command prints

ASSUME ShellAssumption ==
  /\ {MAX_CMD, HISTORY_SIZE, MAX_ARGS} \subseteq Nat \ {0}
  /\ Cols - 2 <= MAX_CMD
  /\ " " \in Chars /\ Chars \cap Controls = {}

VARIABLES
  backend,         \* which display main found
  screen,
  buf,
  cursor_pos,
  history_entries, \* newest first
  history_cursor,  \* -1 for the line being typed
  command          \* what was handed to the built-ins and applets last

vars == <<backend, screen, buf, cursor_pos, history_entries, history_cursor, command>>

PROMPT == <<"$", " ">>
Shows(d, s) == screen' = Write(backend, d, s)

\* Mutant: the cursor is not moved back into the line.
RedrawnNoBack(text, pos) ==
  LET clear == <<"CR">> \o PROMPT \o Times(Blank, Cols - 3)
  IN  clear \o <<"CR">> \o PROMPT \o text

\* redraw_input
Redrawn(text, pos) ==
  LET clear == <<"CR">> \o PROMPT \o Times(Blank, Cols - 3)
  IN  clear \o <<"CR">> \o PROMPT \o text \o Times("BS", Len(text) - pos)

Init ==
  /\ backend \in Backends
  /\ screen = Write(backend, Cleared, PROMPT)
  /\ buf = <<>> /\ cursor_pos = 0
  /\ history_entries = <<>> /\ history_cursor = -1
  /\ command = <<>>

\* Mutant: a full history replaces its newest entry.
history_push_full(line) ==
  IF Len(history_entries) < HISTORY_SIZE THEN <<line>> \o history_entries
  ELSE <<line>> \o Tail(history_entries)

\* history_push: entries move up by one, the last one out when the array is full.
history_push(line) ==
  LET n     == Len(history_entries)
      shift == IF n < HISTORY_SIZE - 1 THEN n ELSE HISTORY_SIZE - 1
  IN  [i \in 1 .. (IF n < HISTORY_SIZE THEN n + 1 ELSE n) |->
         IF i = 1 THEN line
         ELSE IF i - 1 <= shift THEN history_entries[i - 1] ELSE history_entries[i]]

-----------------------------------------------------------------------------
\* The loop that splits what follows the command into arguments.
FirstSpace(s) ==
  LET at == {i \in 1 .. Len(s) : s[i] = " "}
  IN  IF at = {} THEN 0 ELSE CHOOSE i \in at : \A j \in at : i <= j

RECURSIVE Split(_, _)
Split(remaining, args) ==
  IF remaining = <<>> THEN args
  ELSE LET space == FirstSpace(remaining)
           s     == IF space = 0 THEN remaining ELSE SubSeq(remaining, 1, space - 1)
           more  == IF s # <<>> /\ Len(args) < MAX_ARGS THEN Append(args, s) ELSE args
       IN  IF space = 0 THEN more
           ELSE Split(SubSeq(remaining, space + 1, Len(remaining)), more)

CommandOf(line) == IF FirstSpace(line) = 0 THEN line ELSE SubSeq(line, 1, FirstSpace(line) - 1)
ArgsOf(line)    == IF FirstSpace(line) = 0 THEN <<>> ELSE SubSeq(line, FirstSpace(line) + 1, Len(line))

\* handle_builtin, the applets, and "Unknown command".
Output(d, line) ==
  IF CommandOf(line) = CLS THEN Cleared
  ELSE IF CommandOf(line) = BANNER THEN Write(backend, Cleared, MESSAGE \o <<"NL">>)
  ELSE Write(backend, d, (IF CommandOf(line) = ECHO THEN ArgsOf(line) ELSE MESSAGE) \o <<"NL">>)

Enter ==
  /\ LET d == Put(backend, screen, "NL") IN
       IF buf = <<>> THEN Shows(d, PROMPT) /\ UNCHANGED <<history_entries, command>>
       ELSE /\ Shows(Output(d, buf), PROMPT)
            /\ history_entries' = history_push(buf)
            /\ command' = <<CommandOf(buf), Split(ArgsOf(buf), <<>>)>>
  /\ buf' = <<>> /\ cursor_pos' = 0 /\ history_cursor' = -1
  /\ UNCHANGED backend

-----------------------------------------------------------------------------
\* The line becomes text with the cursor behind pos characters, and is redrawn.
Line(text, pos) ==
  /\ buf' = text /\ cursor_pos' = pos
  /\ Shows(screen, Redrawn(text, pos))
  /\ UNCHANGED <<backend, history_entries, command>>

Backspace ==
  /\ cursor_pos > 0 /\ buf # <<>>
  /\ Line([i \in 1 .. Len(buf) - 1 |-> IF i < cursor_pos THEN buf[i] ELSE buf[i + 1]],
          cursor_pos - 1)
  /\ UNCHANGED history_cursor

Printable(ch) ==
  /\ Len(buf) < Cols - 2
  /\ Line([i \in 1 .. Len(buf) + 1 |-> IF i <= cursor_pos THEN buf[i]
                                       ELSE IF i = cursor_pos + 1 THEN ch ELSE buf[i - 1]],
          cursor_pos + 1)
  /\ UNCHANGED history_cursor

LeftArrow ==
  /\ cursor_pos > 0
  /\ cursor_pos' = cursor_pos - 1 /\ Shows(screen, <<"BS">>)
  /\ UNCHANGED <<backend, buf, history_entries, history_cursor, command>>

RightArrow ==
  /\ cursor_pos < Len(buf)
  /\ Shows(screen, <<buf[cursor_pos + 1]>>) /\ cursor_pos' = cursor_pos + 1
  /\ UNCHANGED <<backend, buf, history_entries, history_cursor, command>>

UpArrow ==
  /\ history_cursor < Len(history_entries) - 1
  /\ history_cursor' = history_cursor + 1
  /\ LET entry == history_entries[history_cursor + 2] IN Line(entry, Len(entry))

DownArrow ==
  /\ history_cursor >= 0
  /\ history_cursor' = history_cursor - 1
  /\ LET entry == IF history_cursor = 0 THEN <<>> ELSE history_entries[history_cursor]
     IN  Line(entry, Len(entry))

Next ==
  \/ Enter \/ Backspace \/ LeftArrow \/ RightArrow \/ UpArrow \/ DownArrow
  \/ \E ch \in Chars : Printable(ch)

Spec == Init /\ [][Next]_vars

-----------------------------------------------------------------------------
\* The row of the cursor shows the prompt and the line that Enter will run, and
\* nothing of what was on that row before, and the cursor is where the next
\* character goes, after any mix of editing, recall, wrapping and scrolling.
\* Two exceptions: redraw_input clears one column less than a line can have, and
\* on the framebuffer a backspace erases and a full row wraps, so there a line
\* is shown while the cursor is behind it and a column is left.
ScreenShowsLine ==
  LET row == screen.cells[screen.row] IN
    backend = "vga" \/ (cursor_pos = Len(buf) /\ Len(buf) < Cols - 2) =>
      /\ screen.col = 2 + cursor_pos
      /\ \A k \in 0 .. Cols - 2 : k < 2 + Len(buf) => row[k] = (PROMPT \o buf)[k + 1]
      /\ \A k \in 2 + Len(buf) .. Cols - 2 : row[k] = Blank

\* The shell implements LineEditor: the cursor splits the line.
Editor == INSTANCE LineEditor WITH
  Width <- Cols - 2,
  left <- SubSeq(buf, 1, cursor_pos),
  right <- SubSeq(buf, cursor_pos + 1, Len(buf)),
  past <- history_entries,
  back <- history_cursor + 1
ImplementsLineEditor == Editor!Spec

=============================================================================
