SPECIFICATION Spec
CONSTANTS
  MAX_BUF = 6
  PAGESIZE = 4
  CONSOLE_BUFFER_SIZE = 3
  INT = 256
  LLONG = 65536
  Sizes = {1, 9}
  Magnitudes = {0, 10, 128, 32768}
  MEM = 6
  WORDSIZE = 2
INVARIANTS TextDelivered  CopiesExactly
CHECK_DEADLOCK FALSE
