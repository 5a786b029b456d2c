------------------------------ MODULE MCShell ------------------------------
EXTENDS Shell

X  == <<"x">>
XX == <<"x", "x">>
XXX == <<"x", "x", "x">>
OK == <<"o", "k">>

\* The loop that splits a line against what LineEditor says, on every line of up
\* to seven characters: longer than those of the run, with more arguments than
\* MAX_ARGS.
ASSUME SplitsLikeLineEditor ==
  \A n \in 0 .. 7 : \A s \in [1 .. n -> Chars] :
    <<CommandOf(s), Split(ArgsOf(s), <<>>)>> = Editor!Parse(s)

\* Rows above the cursor are never looked at again, and those below are blank.
Visible ==
  <<backend, screen.row, screen.col, screen.cells[screen.row], buf, cursor_pos,
    history_entries, history_cursor, command>>
=============================================================================
