------------------------------- MODULE UserLib -------------------------------
(***************************************************************************)
(* A program calls one function of the library.  Calls have no state in    *)
(* common, so one call shows what each of them does.                       *)
(***************************************************************************)
EXTENDS Printf, LibString

vars == <<printVars, stringVars>>

Init == PrintInit /\ StringInit

Next ==
  \/ op = "program" /\ PrintNext /\ UNCHANGED stringVars
  \/ pc = "program" /\ StringNext /\ UNCHANGED printVars

Spec == Init /\ [][Next]_vars

-----------------------------------------------------------------------------
(***************************************************************************)
(* Reading numbers                                                         *)
(***************************************************************************)
ToInt(v) == ((v + INT \div 2) % INT) - INT \div 2

\* The longest run of digits of the base that s starts with.
NumberAt(s, base) ==
  LET IsDigit(c) == SelectInSeq(SubSeq(Digits, 1, base), LAMBDA d : d = c) # 0
      ends       == {j \in DOMAIN s : ~IsDigit(s[j])}
  IN  IF ends = {} THEN s ELSE SubSeq(s, 1, Min(ends) - 1)

StartsWith(s, t) == IsPrefix(t, s)
Skip(s, k)       == SubSeq(s, k + 1, Len(s))

strtol(s, b) ==
  LET word == Skip(s, SelectInSeq(s, LAMBDA c : c \notin {" ", "\t"}) - 1)
      neg  == StartsWith(word, <<"-">>)
      body == IF neg \/ StartsWith(word, <<"+">>) THEN Skip(word, 1) ELSE word
      hex  == b \in {0, 16} /\ StartsWith(body, <<"0", "x">>)
      oct  == b = 0 /\ ~hex /\ StartsWith(body, <<"0">>)
      base == IF hex THEN 16 ELSE IF oct THEN 8 ELSE IF b = 0 THEN 10 ELSE b
      rest == Skip(body, CASE hex -> 2 [] oct -> 1 [] OTHER -> 0)
      val  == ToInt(Value(NumberAt(rest, base), base))
  IN  ToInt(IF neg THEN -val ELSE val)

\* The number and how many characters it takes; no number takes none.
atoi(s) ==
  LET neg    == StartsWith(s, <<"-">>)
      start  == IF neg \/ StartsWith(s, <<"+">>) THEN 1 ELSE 0
      digits == NumberAt(Skip(s, start), 10)
      acc    == ToInt(Value(digits, 10))
  IN  [i   |-> ToInt(IF neg THEN -acc ELSE acc),
       loc |-> IF digits = <<>> THEN 0 ELSE start + Len(digits)]

-----------------------------------------------------------------------------
\* The piece in which the k-th character travels to the console: a buffer of
\* printf, then a part of it that fits the kernel's buffer.
PieceOf(k) ==
  IF caller = "dprintf" THEN <<(k - 1) \div (CONSOLE_BUFFER_SIZE - 1)>>
  ELSE <<(k - 1) \div (MAX_BUF - 1),
         ((k - 1) % (MAX_BUF - 1)) \div (PAGESIZE - 1)>>

\* What follows a NUL in its piece is not printed.
Lost(k) == \E j \in 1 .. k : emitted[j] = "NUL" /\ PieceOf(j) = PieceOf(k)

\* What vprintfmt hands to printf or dprintf is printed once and in order,
\* however it falls over the three buffers on its way; only a NUL hides what
\* follows it, and no further than to the end of a buffer.  snprintf keeps as
\* much as fits and ends it by a NUL inside of its buffer.  All of them return
\* the number of characters of the whole text.
TextDelivered ==
  pc = "done" =>
    /\ cnt = Len(emitted)
    /\ caller # "snprintf" =>
         console = FoldLeftDomain(LAMBDA text, k : IF Lost(k) THEN text
                                                   ELSE Append(text, emitted[k]),
                                  <<>>, emitted)
    /\ caller = "snprintf" =>
         /\ Len(buf) <= n
         /\ buf = Append(SubSeq(emitted, 1, IF cnt < n THEN cnt ELSE n - 1), "NUL")

\* The last number conversion printed its sign, padding and digits: digits
\* that have the argument's value, no more than needed, padded to the width.
\* strtol and atoi read the argument back, unless padding other than zeros
\* separates it from its sign or precedes it.
NumberShown ==
  LET len    == Len(shown.piece)
      first  == Len(shown.sign) + 1
      width  == shown.esc.width
      padc   == shown.esc.padc
      size   == IF shown.value < 0 THEN -shown.value ELSE shown.value
      padded == padc # "0" /\ SubSeq(shown.piece, first, first) = <<padc>>
  IN  \E from \in first .. len :
        LET digits == SubSeq(shown.piece, from, len)
        IN  /\ \A k \in first .. from - 1 : shown.piece[k] = padc
            /\ NumberAt(digits, shown.base) = digits
            /\ Len(digits) > 1 => digits[1] # "0"
            /\ Value(digits, shown.base) = size
            /\ from > first => len - first + 1 = width
            /\ len - first + 1 >= width
            /\ ~padded /\ shown.esc.lflag < 2 =>
                 /\ strtol(shown.piece, shown.base) = ToInt(shown.value)
                 /\ shown.base = 10 =>
                      atoi(shown.piece) = [i |-> ToInt(shown.value), loc |-> len]

\* vprintfmt does not read behind the format, a directive it does not know is
\* printed as it stands, and a number is printed so that it can be read.
FormatFollowed ==
  /\ next <= Len(fmt) + 1
  /\ pc = "done" /\ shown.kind = "none" => emitted = Front(fmt)
  /\ shown.kind = "number" => NumberShown
=============================================================================
