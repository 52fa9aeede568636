------------------------------- MODULE Monitor -------------------------------
(***************************************************************************)
(* The kernel monitor's dialogue: readline edits a line and echoes it      *)
(* (kern/dev/console.c), the screen driver places, erases and scrolls      *)
(* (kern/dev/video.c), and runcmd cuts the line into words in place        *)
(* (kern/lib/monitor.c).  What a command prints is any text.               *)
(***************************************************************************)
EXTENDS Naturals, SequencesExt

CONSTANTS
  CRT_ROWS, CRT_COLS,
  BUFLEN,
  MAXARGS,
  Typed,        \* the characters that getchar returns
  Printed       \* the characters that the kernel prints

CRT_SIZE == CRT_ROWS * CRT_COLS

\* The last clause holds of 25 rows, 80 columns and 1024 characters.
ASSUME MonitorAssumption ==
  /\ CRT_ROWS \in Nat \ {0} /\ CRT_COLS \in Nat \ {0}
  /\ BUFLEN \in Nat \ {0} /\ MAXARGS \in Nat \ {0}
  /\ BUFLEN <= CRT_SIZE - CRT_COLS

VARIABLES
  pc,
  terminal,     \* the record of crt_buf and crt_pos
  linebuf, i,   \* the line and readline's index
  buf, argv,    \* runcmd's position in the line and the words found
  line          \* history: the line that readline returned, until it is used

vars == <<pc, terminal, linebuf, i, buf, argv, line>>

Printable == {"a", " ", "DEL"}     \* at least ' ' as a char
Cells == 0 .. CRT_SIZE - 1
LineCells == 0 .. BUFLEN - 1
NoLine == [k \in LineCells |-> "NUL"]

\* video_init keeps the cursor where the boot loader left it.
Init ==
  /\ pc = "dprintf"
  /\ terminal \in [crt_buf : {[p \in Cells |-> " "]}, crt_pos : Cells]
  /\ linebuf = NoLine /\ i = 0
  /\ buf = 0 /\ argv = <<>> /\ line = NoLine

-----------------------------------------------------------------------------
\* A slip: the cursor does not go back to the line above.
Placed_within_row(t, c) ==
  CASE c = "BS" -> (IF t.crt_pos % CRT_COLS > 0
                    THEN [crt_pos |-> t.crt_pos - 1,
                          crt_buf |-> [t.crt_buf EXCEPT ![t.crt_pos - 1] = " "]]
                    ELSE t)
    [] c = "LF" -> [t EXCEPT !.crt_pos = (t.crt_pos + CRT_COLS)
                                           - ((t.crt_pos + CRT_COLS) % CRT_COLS)]
    [] c = "CR" -> [t EXCEPT !.crt_pos = @ - (@ % CRT_COLS)]
    [] OTHER    -> [crt_pos |-> t.crt_pos + 1,
                    crt_buf |-> [t.crt_buf EXCEPT ![t.crt_pos] = c]]

\* The switch of video_putc, without its case for tabs.
Placed(t, c) ==
  CASE c = "BS" -> (IF t.crt_pos > 0
                    THEN [crt_pos |-> t.crt_pos - 1,
                          crt_buf |-> [t.crt_buf EXCEPT ![t.crt_pos - 1] = " "]]
                    ELSE t)
    [] c = "LF" -> [t EXCEPT !.crt_pos = (t.crt_pos + CRT_COLS)
                                           - ((t.crt_pos + CRT_COLS) % CRT_COLS)]
    [] c = "CR" -> [t EXCEPT !.crt_pos = @ - (@ % CRT_COLS)]
    [] OTHER    -> [crt_pos |-> t.crt_pos + 1,
                    crt_buf |-> [t.crt_buf EXCEPT ![t.crt_pos] = c]]

\* Once the cursor has left the screen, everything moves up by a row.
Scrolled(t) ==
  IF t.crt_pos < CRT_SIZE THEN t
  ELSE [crt_pos |-> t.crt_pos - CRT_COLS,
        crt_buf |-> [p \in Cells |-> IF p < CRT_SIZE - CRT_COLS
                                     THEN t.crt_buf[p + CRT_COLS] ELSE " "]]

video_putc(t, c) ==
  LET put(u, d) == Scrolled(Placed(u, d))
  IN  IF c = "TAB"
      THEN put(put(put(put(put(t, " "), " "), " "), " "), " ")
      ELSE put(t, c)

-----------------------------------------------------------------------------
\* The kernel prints.
dprintf(c) ==
  /\ pc = "dprintf"
  /\ terminal' = video_putc(terminal, c)
  /\ UNCHANGED <<pc, linebuf, i, buf, argv, line>>

\* readline starts with the prompt.
readline ==
  /\ pc = "dprintf"
  /\ terminal' = video_putc(terminal, "$")
  /\ pc' = "getchar"
  /\ UNCHANGED <<linebuf, i, buf, argv, line>>

Erases(c) == c \in {"BS", "DEL"} /\ i > 0

\* One place is kept for the NUL at the end.
Adds(c) == ~Erases(c) /\ c \in Printable /\ i < BUFLEN - 1

\* getchar has returned c.
readline_char(c) ==
  /\ pc = "getchar"
  /\ \/ /\ c = "KEY_UP"                  \* a negative char: "read error"
        /\ pc' = "dprintf"
        /\ i' = 0
        /\ UNCHANGED <<terminal, linebuf, buf, argv, line>>
     \/ /\ Erases(c)
        /\ terminal' = video_putc(terminal, "BS")
        /\ i' = i - 1
        /\ UNCHANGED <<pc, linebuf, buf, argv, line>>
     \/ /\ Adds(c)
        /\ terminal' = video_putc(terminal, c)
        /\ linebuf' = [linebuf EXCEPT ![i] = c]
        /\ i' = i + 1
        /\ UNCHANGED <<pc, buf, argv, line>>
     \/ /\ c = "LF"
        /\ terminal' = video_putc(terminal, "LF")
        /\ linebuf' = [linebuf EXCEPT ![i] = "NUL"]
        /\ line' = linebuf'
        /\ i' = 0
        /\ pc' = "runcmd"
        /\ UNCHANGED <<buf, argv>>
     \/ /\ c \notin {"KEY_UP", "LF"} /\ ~Erases(c) /\ ~Adds(c)
        /\ UNCHANGED vars

\* The first place from k on where the line has none of the characters cs.
Past(k, cs) == Min({q \in LineCells : q >= k /\ linebuf[q] \notin cs})

\* A slip: blanks are skipped and not overwritten.
Gobbled_kept(q) == linebuf

\* Blanks from buf up to q are overwritten.
Gobbled(q) == [k \in LineCells |-> IF buf <= k /\ k < q THEN "NUL" ELSE linebuf[k]]

\* The locals of runcmd are gone.
Returned == buf' = 0 /\ argv' = <<>> /\ line' = NoLine

\* One round of runcmd's loop: skip blanks, then save and pass a word.
runcmd ==
  /\ pc = "runcmd"
  /\ LET q == Past(buf, {" "})
     IN  /\ linebuf' = Gobbled(q)
         /\ \/ /\ linebuf[q] = "NUL"
               /\ pc' = "lookup"
               /\ UNCHANGED <<buf, argv, line>>
            \/ /\ linebuf[q] # "NUL" /\ Len(argv) = MAXARGS - 1
               /\ pc' = "dprintf"        \* "Too many arguments"
               /\ Returned
            \/ /\ linebuf[q] # "NUL" /\ Len(argv) < MAXARGS - 1
               /\ argv' = Append(argv, q)
               /\ buf' = Past(q, Printable \ {" "})
               /\ UNCHANGED <<pc, line>>
  /\ UNCHANGED <<terminal, i>>

\* A command is looked up by the first word; mon_start_user does not return.
lookup ==
  /\ pc = "lookup"
  /\ \/ pc' = "dprintf"
     \/ argv # <<>> /\ pc' = "mon_start_user"
  /\ Returned
  /\ UNCHANGED <<terminal, linebuf, i>>

Next ==
  \/ \E c \in Printed : dprintf(c)
  \/ readline
  \/ \E c \in Typed : readline_char(c)
  \/ runcmd
  \/ lookup

Spec == Init /\ [][Next]_vars

-----------------------------------------------------------------------------
\* What the screen shows between the prompt and the cursor is the line that
\* readline will return, across wrapped rows, scrolling and erasing, and there
\* is still room for the NUL that ends it (readline, video_putc).
EchoMatches ==
  LET first == terminal.crt_pos - i
  IN  pc = "getchar" =>
        /\ i \in LineCells
        /\ i < terminal.crt_pos
        /\ terminal.crt_buf[first - 1] = "$"
        /\ \A k \in 0 .. i - 1 : terminal.crt_buf[first + k] = linebuf[k]

\* The line that readline returned ends at its first NUL.
InLine(k) == \A j \in 0 .. k : line[j] # "NUL"

\* A command gets exactly the words of the line that was typed, in order, each
\* whole and ended by a NUL, and argv has room for the null pointer behind them
\* (runcmd, which works in the line itself).
ArgsAreWords ==
  pc = "lookup" =>
    /\ Len(argv) < MAXARGS
    /\ \A j, k \in DOMAIN argv : j < k => argv[j] < argv[k]
    /\ {argv[j] : j \in DOMAIN argv} =
         {k \in LineCells : /\ InLine(k) /\ line[k] # " "
                            /\ k > 0 => line[k - 1] = " "}
    /\ \A k \in LineCells : InLine(k) =>
         linebuf[k] = IF line[k] = " " THEN "NUL" ELSE line[k]
=============================================================================
