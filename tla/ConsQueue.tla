------------------------------ MODULE ConsQueue ------------------------------
(***************************************************************************)
(* What the console's input buffer promises: a queue of characters that    *)
(* forgets everything at the moment when it has received as many characters *)
(* as it has places, and otherwise hands them out in the order of arrival. *)
(***************************************************************************)
EXTENDS Naturals, Sequences

CONSTANTS
  Chars,                \* the characters other than NUL
  CONSOLE_BUFFER_SIZE

VARIABLES
  queue,                \* the characters received and not handed out
  got                   \* the answer of the last cons_getc

qvars == <<queue, got>>

Init == queue = <<>> /\ got = "NUL"

Put(c) ==
  /\ queue' = IF Len(queue) + 1 = CONSOLE_BUFFER_SIZE THEN <<>> ELSE Append(queue, c)
  /\ UNCHANGED got

Get ==
  \/ queue = <<>> /\ got' = "NUL" /\ UNCHANGED queue
  \/ queue # <<>> /\ got' = Head(queue) /\ queue' = Tail(queue)

Next == Get \/ \E c \in Chars : Put(c)

Spec == Init /\ [][Next]_qvars
=============================================================================
