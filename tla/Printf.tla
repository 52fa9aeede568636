-------------------------------- MODULE Printf --------------------------------
(***************************************************************************)
(* Formatted output: vprintfmt, and what printf, snprintf and the kernel's *)
(* dprintf do with the characters it hands to them.  printf collects them  *)
(* in a buffer and prints a full buffer by a system call, which copies it  *)
(* piece by piece to the kernel and prints each piece with dprintf, which  *)
(* has a buffer of its own.                                                *)
(*                                                                         *)
(* vprintfmt takes one step per directive character.  No other process     *)
(* runs during a call.                                                     *)
(***************************************************************************)
EXTENDS Integers, SequencesExt

CONSTANTS
  MAX_BUF,              \* printf's buffer (512)
  PAGESIZE,             \* the kernel's buffer for sys_puts (4096)
  CONSOLE_BUFFER_SIZE,  \* dprintf's buffer (512)
  INT, LLONG,           \* 2^32 and 2^64
  Sizes,                \* the sizes snprintf is called with
  Magnitudes            \* the numbers that are arguments, without their sign

ASSUME PrintfAssumption ==
  /\ {MAX_BUF, PAGESIZE, CONSOLE_BUFFER_SIZE} \subseteq Nat \ {0, 1}
  /\ INT \in Nat /\ LLONG \in Nat
  /\ Sizes \subseteq Nat \ {0}
  /\ Magnitudes \subseteq Nat

VARIABLES
  pc,       \* "program", or where vprintfmt is
  caller,   \* who called vprintfmt
  fmt,      \* the format, with its NUL
  next,     \* the next character of it
  esc,      \* padc, width, precision, lflag and altflag
  buf,      \* what the caller's buffer holds
  n,        \* the size of snprintf's buffer
  console,  \* what was printed
  cnt,      \* what the caller returns
  emitted,  \* history: what vprintfmt has handed to putch
  shown     \* history: the last conversion

printVars == <<pc, caller, fmt, next, esc, buf, n, console, cnt, emitted, shown>>

Digits   == <<"0", "1", "2", "3", "4", "5", "6", "7", "8", "9",
              "a", "b", "c", "d", "e", "f">>
Flags    == {<<>>, <<"-">>, <<"0">>, <<"#">>}
Widths   == {<<>>, <<"1", "2">>, <<"*">>}
Precs    == {<<>>, <<".", "2">>}
Longs    == {<<>>, <<"l", "l">>}
Convs    == {"c", "s", "d", "u", "o", "p", "x", "%", "?"}
Tails    == {<<"a", "%">>, <<"%", "c">>}
Formats  ==
  {<<"%">> \o flag \o width \o prec \o long \o rest :
     flag \in Flags, width \in Widths, prec \in Precs, long \in Longs,
     rest \in {<<conv>> \o tail : conv \in Convs, tail \in Tails} \cup {<<>>}}
Chars    == {"a", "NUL"}
Strings  == {<<>>, <<"a">>, <<"a", "^", "a">>}
Stars    == {-2, 2}
Numbers  == Magnitudes \cup {-m : m \in Magnitudes}

\* "^" stands for a character that is not printable.
Printable(c) == c # "^"

Repeat(c, k) == IF k <= 0 THEN <<>> ELSE [j \in 1 .. k |-> c]

\* What a string function sees of an array.
UpToNul(s) ==
  LET ends == {j \in DOMAIN s : s[j] = "NUL"}
  IN  IF ends = {} THEN s ELSE SubSeq(s, 1, Min(ends) - 1)

PrintInit ==
  /\ pc = "program"
  /\ caller = "none"
  /\ fmt = <<>> /\ next = 1
  /\ esc = [padc |-> " ", width |-> -1, precision |-> -1, lflag |-> 0,
            altflag |-> 0]
  /\ buf = <<>> /\ n = 0
  /\ console = <<>>
  /\ cnt = 0
  /\ emitted = <<>>
  /\ shown = [kind |-> "none"]

-----------------------------------------------------------------------------
(***************************************************************************)
(* The way to the console                                                  *)
(***************************************************************************)
cputs(out, str) == out \o UpToNul(str)

\* A buffer and the console behind it.  dprintf's putch:
dputch(b, ch) ==
  LET filled == Append(b.buf, ch)
  IN  IF Len(filled) = CONSOLE_BUFFER_SIZE - 1
      THEN [buf |-> <<>>, out |-> cputs(b.out, filled)]
      ELSE [b EXCEPT !.buf = filled]

\* KERN_INFO("%s", str)
debug_info(out, str) ==
  LET b == FoldLeft(dputch, [buf |-> <<>>, out |-> out], UpToNul(str))
  IN  cputs(b.out, b.buf)

RECURSIVE sys_puts(_, _)
sys_puts(out, str) ==
  LET nbytes == IF Len(str) < PAGESIZE - 1 THEN Len(str) ELSE PAGESIZE - 1
  IN  IF str = <<>> THEN out
      ELSE sys_puts(debug_info(out, SubSeq(str, 1, nbytes)),
                    SubSeq(str, nbytes + 1, Len(str)))

\* A slip: the buffer is printed one character late, without that character.
putch_late(b, ch) ==
  IF Len(b.buf) = MAX_BUF - 1
  THEN [buf |-> <<>>, out |-> sys_puts(b.out, b.buf)]
  ELSE [b EXCEPT !.buf = Append(@, ch)]

\* printf's putch.
putch(b, ch) ==
  LET filled == Append(b.buf, ch)
  IN  IF Len(filled) = MAX_BUF - 1
      THEN [buf |-> <<>>, out |-> sys_puts(b.out, filled)]
      ELSE [b EXCEPT !.buf = filled]

\* snprintf's, with "ebuf" the place of the NUL.
sprintputch(b, ch) ==
  IF Len(b.buf) < n - 1 THEN [b EXCEPT !.buf = Append(@, ch)] ELSE b

\* vprintfmt hands the characters of s to its caller.
Emit(s) ==
  LET b == FoldLeft(LAMBDA x, ch : CASE caller = "printf" -> putch(x, ch)
                                     [] caller = "dprintf" -> dputch(x, ch)
                                     [] caller = "snprintf" -> sprintputch(x, ch),
                    [buf |-> buf, out |-> console], s)
  IN  /\ buf' = b.buf
      /\ console' = b.out
      /\ cnt' = cnt + Len(s)
      /\ emitted' = emitted \o s

-----------------------------------------------------------------------------
(***************************************************************************)
(* vprintfmt                                                               *)
(***************************************************************************)
Call(who, size) ==
  /\ pc = "program" /\ caller = "none"
  /\ pc' = "plain"
  /\ caller' = who
  /\ n' = size
  /\ \E f \in Formats : fmt' = Append(f, "NUL")
  /\ UNCHANGED <<next, esc, buf, console, cnt, emitted, shown>>

printf   == Call("printf", 0)
dprintf  == Call("dprintf", 0)
snprintf == \E size \in Sizes : Call("snprintf", size)

ch == fmt[next]

\* Outside of a directive: a NUL ends the format, and the caller prints or
\* ends its buffer; the rest is handed on.
Returns ==
  /\ pc = "plain" /\ ch = "NUL"
  /\ pc' = "done"
  /\ next' = next + 1
  /\ \/ /\ caller = "printf"
        /\ console' = sys_puts(console, buf)
        /\ UNCHANGED buf
     \/ /\ caller = "dprintf"
        /\ console' = cputs(console, buf)
        /\ UNCHANGED buf
     \/ /\ caller = "snprintf"
        /\ buf' = Append(buf, "NUL")
        /\ UNCHANGED console
  /\ UNCHANGED <<caller, fmt, esc, n, cnt, emitted, shown>>

PlainChar ==
  /\ pc = "plain" /\ ch # "NUL"
  /\ next' = next + 1
  /\ \/ /\ ch = "%"
        /\ pc' = "directive"
        /\ esc' = [padc |-> " ", width |-> -1, precision |-> -1, lflag |-> 0,
                   altflag |-> 0]
        /\ UNCHANGED <<buf, console, cnt, emitted>>
     \/ /\ ch # "%"
        /\ Emit(<<ch>>)
        /\ UNCHANGED <<pc, esc>>
  /\ UNCHANGED <<caller, fmt, n, shown>>

\* The digits from position k on, and their value.
DigitsFrom(s, k) ==
  LET end == Min({j \in k .. Len(s) : s[j] \notin {"0", "1", "2"}})
  IN  SubSeq(s, k, end - 1)

Value(digits, base) ==
  FoldLeft(LAMBDA v, d : v * base + SelectInSeq(Digits, LAMBDA x : x = d) - 1,
           0, digits)

process_precision(precision) ==
  esc' = IF esc.width < 0
         THEN [esc EXCEPT !.width = precision, !.precision = -1]
         ELSE [esc EXCEPT !.precision = precision]

\* Flags, width and precision.
Flag ==
  /\ pc = "directive"
  /\ \/ /\ ch \in {"-", "0"}
        /\ esc' = [esc EXCEPT !.padc = ch]
        /\ next' = next + 1
     \/ /\ ch \in {"1", "2"}
        /\ process_precision(Value(DigitsFrom(fmt, next), 10))
        /\ next' = next + Len(DigitsFrom(fmt, next))
     \/ /\ ch = "*"
        /\ \E w \in Stars : process_precision(w)
        /\ next' = next + 1
     \/ /\ ch = "."
        /\ esc' = [esc EXCEPT !.width = IF @ < 0 THEN 0 ELSE @]
        /\ next' = next + 1
     \/ /\ ch = "#"
        /\ esc' = [esc EXCEPT !.altflag = 1]
        /\ next' = next + 1
     \/ /\ ch = "l"
        /\ esc' = [esc EXCEPT !.lflag = @ + 1]
        /\ next' = next + 1
  /\ UNCHANGED <<pc, caller, fmt, buf, n, console, cnt, emitted, shown>>

\* A conversion ends the directive and hands s on.
Converted(s) ==
  /\ Emit(s)
  /\ pc' = "plain"
  /\ next' = next + 1
  /\ UNCHANGED <<caller, fmt, esc, n>>

\* The field width counts on both sides; padding on the right is by spaces.
Padded(p) ==
  LET size == IF esc.precision < 0 \/ Len(p) < esc.precision
              THEN Len(p) ELSE esc.precision
      body == [j \in 1 .. size |->
                 IF esc.altflag = 1 /\ ~Printable(p[j]) THEN "?" ELSE p[j]]
  IN  IF esc.padc = "-" THEN body \o Repeat(" ", esc.width - size)
                        ELSE Repeat(esc.padc, esc.width - size) \o body

Text ==
  /\ pc = "directive"
  /\ \/ ch = "c" /\ \E c \in Chars : Converted(<<c>>)
     \/ ch = "s" /\ \E p \in Strings \cup {<<"(", "n", "u", "l", "l", ")">>} :
                      Converted(Padded(p))
     \/ ch = "%" /\ Converted(<<"%">>)
     \/ ch = "o" /\ caller # "dprintf" /\ Converted(<<"X", "X", "X">>)
  /\ shown' = [kind |-> "text"]

RECURSIVE printnum(_, _, _, _)
printnum(num, base, width, padc) ==
  (IF num >= base THEN printnum(num \div base, base, width - 1, padc)
                  ELSE Repeat(padc, width - 1))
  \o <<Digits[(num % base) + 1]>>

\* The argument is an int or a long, which are the same, or a long long.
Wide == IF esc.lflag >= 2 THEN LLONG ELSE INT

\* The absolute value of a signed argument, as an unsigned long long.
getint_negated(value) == IF value < 0 THEN (-value) % LLONG ELSE value

Number ==
  /\ pc = "directive"
  /\ ch \in {"d", "u", "x", "p"} \cup (IF caller = "dprintf" THEN {"o"} ELSE {})
  /\ \E arg \in {x \in Numbers : -(Wide \div 2) <= x /\ x < Wide \div 2} :
       LET signed == ch = "d"
           base   == CASE ch \in {"d", "u"} -> 10 [] ch = "o" -> 8 [] OTHER -> 16
           value  == CASE signed -> arg [] ch = "p" -> arg % INT [] OTHER -> arg % Wide
           sign   == CASE signed /\ arg < 0 -> <<"-">>
                       [] ch = "p" -> <<"0", "x">> [] OTHER -> <<>>
           piece  == sign \o printnum(getint_negated(value), base, esc.width, esc.padc)
       IN  /\ Converted(piece)
           /\ shown' = [kind |-> "number", piece |-> piece, value |-> value,
                        base |-> base, sign |-> sign, esc |-> esc]

\* A slip: the flags of the directive are not printed.
Unrecognized_drops ==
  /\ pc = "directive" /\ ch \in {"?", "a", "NUL"}
  /\ Emit(<<"%">>)
  /\ next' = next
  /\ pc' = "plain"
  /\ UNCHANGED <<caller, fmt, esc, n, shown>>

\* An unrecognized directive is printed literally: its % now, and then what
\* follows the last %.
Unrecognized ==
  /\ pc = "directive" /\ ch \in {"?", "a", "NUL"}
  /\ Emit(<<"%">>)
  /\ next' = Max({j \in 1 .. next - 1 : fmt[j] = "%"}) + 1
  /\ pc' = "plain"
  /\ UNCHANGED <<caller, fmt, esc, n, shown>>

vprintfmt == PlainChar \/ Flag \/ Text \/ Number \/ Unrecognized

PrintNext ==
  \/ printf \/ dprintf \/ snprintf
  \/ vprintfmt \/ Returns
=============================================================================
