\* Five characters to a line: three words, one more than fit, and a line that
\* wraps, scrolls and is erased across rows on a screen of four rows of two.
SPECIFICATION Spec
CONSTANTS
  CRT_ROWS = 4
  CRT_COLS = 2
  BUFLEN = 6
  MAXARGS = 3
  Typed = {"a", " ", "DEL", "BS", "LF", "TAB", "KEY_UP"}
  Printed = {"LF", "TAB"}
INVARIANTS EchoMatches ArgsAreWords
CHECK_DEADLOCK FALSE
