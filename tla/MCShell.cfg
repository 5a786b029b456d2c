SPECIFICATION Spec
CONSTANTS
  Cols = 5
  Rows = 2
  Chars = {"x", " "}
  MAX_CMD = 3
  HISTORY_SIZE = 2
  MAX_ARGS = 1
  ECHO <- X
  CLS <- XX
  BANNER <- XXX
  MESSAGE <- OK
INVARIANT ScreenShowsLine
PROPERTY ImplementsLineEditor
VIEW Visible
