\* Two shift keys, the three keys that reset the machine, and a serial line;
\* the buffer is overrun after three characters.
SPECIFICATION ConsoleSpec
CONSTANTS
  Keys = {42, 54, 56, 157, 211}
  SerialChars = {"x", "NUL"}
  CONSOLE_BUFFER_SIZE = 3
  FIFO = 2
 
PROPERTY RingImplementsQueue
CHECK_DEADLOCK FALSE
