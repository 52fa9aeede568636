------------------------------ MODULE LibString ------------------------------
(***************************************************************************)
(* The functions of string.c that write to memory, one step per element.   *)
(* memmove and memset work on words where everything is aligned, and       *)
(* memmove runs backwards where the destination overlaps the end of the    *)
(* source.  memcpy is memmove and memzero is memset.                       *)
(*                                                                         *)
(* Each byte of memory is its own address, or a NUL, so that it can be     *)
(* told where a byte comes from.                                           *)
(***************************************************************************)
EXTENDS Integers, Sequences

CONSTANTS
  MEM,       \* bytes of memory
  WORDSIZE   \* bytes of a word (4)

ASSUME MemAssumption == MEM \in Nat /\ WORDSIZE \in Nat \ {0}

VARIABLES
  op,    \* the instruction or the loop that runs
  call,  \* the function and its arguments
  mem,
  old,   \* history: mem at the call
  dst, src, count  \* edi, esi, ecx or the loop's variables

stringVars == <<op, call, mem, old, dst, src, count>>

Addr == 0 .. MEM - 1
NUL  == -1
C    == -2   \* memset's byte

StringInit ==
  /\ op = "program"
  /\ call = [name |-> "none"]
  /\ mem = [a \in Addr |-> a]
  /\ old = mem
  /\ dst = 0 /\ src = 0 /\ count = 0

Memories == {[a \in Addr |-> IF a \in nuls THEN NUL ELSE a] : nuls \in SUBSET Addr}

\* The arguments of a call: both areas lie in memory.
Calls(names) ==
  {c \in [name : names, dst : Addr, src : Addr, n : 0 .. MEM] :
     c.dst + c.n <= MEM /\ c.src + c.n <= MEM}

Called(c, m, what) ==
  /\ op = "program" /\ call.name = "none"
  /\ call' = c
  /\ mem' = m /\ old' = m
  /\ op' = what

Aligned(a) == a % WORDSIZE = 0

\* A slip: memmove always runs forwards.
memmove_forwards(c) ==
  /\ Called(c, mem, "movsb")
  /\ dst' = c.dst /\ src' = c.src /\ count' = c.n

\* The string instructions have a direction, which memmove takes from where
\* the areas lie.
memmove(c) ==
  LET back == c.src < c.dst /\ c.src + c.n > c.dst
      s    == IF back THEN c.src + c.n ELSE c.src
      d    == IF back THEN c.dst + c.n ELSE c.dst
      word == Aligned(s) /\ Aligned(d) /\ Aligned(c.n)
      unit == IF word THEN WORDSIZE ELSE 1
  IN  /\ Called(c, mem, CASE back /\ word -> "std movsl" [] back -> "std movsb"
                          [] word -> "movsl" [] OTHER -> "movsb")
      /\ dst' = IF back THEN d - unit ELSE d
      /\ src' = IF back THEN s - unit ELSE s
      /\ count' = c.n \div unit

memset(c) ==
  LET word == Aligned(c.dst) /\ Aligned(c.n)
  IN  /\ IF c.n = 0 THEN Called(c, mem, "done")
                    ELSE Called(c, mem, IF word THEN "stosl" ELSE "stosb")
      /\ dst' = c.dst /\ src' = 0
      /\ count' = IF word THEN c.n \div WORDSIZE ELSE c.n

strncpy(c) ==
  /\ \E m \in Memories : Called(c, m, "strncpy")
  /\ dst' = c.dst /\ src' = c.src /\ count' = c.n

strlcpy(c) ==
  /\ \E m \in Memories : Called(c, m, IF c.n = 0 THEN "done" ELSE "strlcpy")
  /\ dst' = c.dst /\ src' = c.src /\ count' = c.n

-----------------------------------------------------------------------------
\* One round of "rep movs": a whole element is read before it is written.
rep_movs ==
  LET unit == IF op \in {"movsl", "std movsl"} THEN WORDSIZE ELSE 1
      step == IF op \in {"std movsl", "std movsb"} THEN -unit ELSE unit
  IN  /\ op \in {"movsl", "movsb", "std movsl", "std movsb"}
      /\ IF count = 0
         THEN op' = "done" /\ UNCHANGED <<mem, dst, src, count>>
         ELSE /\ mem' = [a \in Addr |-> IF a \in dst .. dst + unit - 1
                                        THEN mem[src + (a - dst)] ELSE mem[a]]
              /\ dst' = dst + step /\ src' = src + step
              /\ count' = count - 1
              /\ UNCHANGED op
      /\ UNCHANGED <<call, old>>

rep_stos ==
  LET unit == IF op = "stosl" THEN WORDSIZE ELSE 1
  IN  /\ op \in {"stosl", "stosb"}
      /\ IF count = 0
         THEN op' = "done" /\ UNCHANGED <<mem, dst, count>>
         ELSE /\ mem' = [a \in Addr |-> IF a \in dst .. dst + unit - 1
                                        THEN C ELSE mem[a]]
              /\ dst' = dst + unit
              /\ count' = count - 1
              /\ UNCHANGED op
      /\ UNCHANGED <<call, old, src>>

\* The source pointer stays on the NUL, which pads the destination.
strncpy_loop ==
  /\ op = "strncpy"
  /\ IF count = 0
     THEN op' = "done" /\ UNCHANGED <<mem, dst, src, count>>
     ELSE /\ mem' = [mem EXCEPT ![dst] = mem[src]]
          /\ dst' = dst + 1
          /\ src' = IF mem'[src] # NUL THEN src + 1 ELSE src
          /\ count' = count - 1
          /\ UNCHANGED op
  /\ UNCHANGED <<call, old>>

strlcpy_loop ==
  /\ op = "strlcpy"
  /\ IF count - 1 > 0 /\ mem[src] # NUL
     THEN /\ mem' = [mem EXCEPT ![dst] = mem[src]]
          /\ dst' = dst + 1 /\ src' = src + 1
          /\ count' = count - 1
          /\ UNCHANGED op
     ELSE /\ mem' = [mem EXCEPT ![dst] = NUL]
          /\ op' = "done"
          /\ UNCHANGED <<dst, src, count>>
  /\ UNCHANGED <<call, old>>

StringNext ==
  \/ \E c \in Calls({"memmove"}) : memmove(c)
  \/ \E c \in Calls({"memset"}) : memset(c)
  \/ \E c \in Calls({"strncpy"}) : strncpy(c)
  \/ \E c \in Calls({"strlcpy"}) : strlcpy(c)
  \/ rep_movs \/ rep_stos \/ strncpy_loop \/ strlcpy_loop

-----------------------------------------------------------------------------
Area(a, k) == a .. a + k - 1

\* The length of the string at the source, as far as it can be seen.
Length ==
  LET ends == {k \in 0 .. call.n - 1 : old[call.src + k] = NUL}
  IN  IF ends = {} THEN call.n ELSE CHOOSE k \in ends : \A j \in ends : k <= j

\* When a function of string.c returns, the destination holds what was in the
\* source at the call, byte for byte: all of it for memmove, wherever the areas
\* overlap and however they are aligned; the string and NULs up to the size
\* for strncpy; what fits of the string and one NUL for strlcpy.  Nothing
\* outside of the destination has changed.
CopiesExactly ==
  op = "done" =>
    LET Moved(k)  == old[call.src + k]
        apart     == Area(call.dst, call.n) \cap Area(call.src, call.n) = {}
        Left(size, Byte(_)) ==
          mem = [a \in Addr |-> IF a \in Area(call.dst, size)
                                THEN Byte(a - call.dst) ELSE old[a]]
        fits      == IF Length < call.n THEN Length ELSE call.n - 1
    IN  CASE call.name = "memmove" -> Left(call.n, Moved)
          [] call.name = "memset"  -> Left(call.n, LAMBDA k : C)
          [] call.name = "strncpy" ->
               apart => Left(call.n, LAMBDA k : IF k < Length THEN Moved(k) ELSE NUL)
          [] call.name = "strlcpy" ->
               apart =>
                 /\ Left(fits + 1, LAMBDA k : IF k < fits THEN Moved(k) ELSE NUL)
                 /\ call.n > 0 => dst - call.dst = fits
=============================================================================
