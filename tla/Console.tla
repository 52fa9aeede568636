------------------------------- MODULE Console -------------------------------
(***************************************************************************)
(* Console input: the keyboard driver (kern/dev/keyboard.c), the serial    *)
(* receiver (kern/dev/serial.c) and the ring buffer between them and       *)
(* getchar (kern/dev/console.c).  The kernel takes no keyboard or serial   *)
(* interrupt: cons_getc polls both devices, and bytes arrive meanwhile.    *)
(* A key is the scan code it sends, plus 128 for a key sent after 0xE0.    *)
(***************************************************************************)
EXTENDS Integers, Sequences

CONSTANTS
  Keys,                 \* the keys of the keyboard
  SerialChars,          \* the characters that come over the serial line
  CONSOLE_BUFFER_SIZE,  \* 512
  FIFO                  \* bound: bytes waiting in the devices

E0 == 224

CharOf == {"a", "A", "^A", "LF", "CR", "KEY_DEL"}
Chars == CharOf \cup (SerialChars \ {"NUL"})

\* No key has the scan code 0x60, whose release would be the byte E0.
ASSUME ConsoleAssumption ==
  /\ Keys \subseteq (0 .. 255) \ {96, 224}
  /\ CONSOLE_BUFFER_SIZE \in Nat \ {0}
  /\ FIFO \in Nat

VARIABLES
  pc,             \* where cons_getc is
  serial_exists,
  com,            \* bytes waiting in the serial receiver
  kbd,            \* bytes waiting in the keyboard controller
  held,           \* the keys that are down
  shift,          \* kbd_proc_data's static variable, a set of flags
  buf, rpos, wpos,\* cons
  got             \* the last result of cons_getc

devices == <<com, kbd, held>>
cons == <<buf, rpos, wpos>>
consoleVars == <<pc, serial_exists, devices, shift, cons, got>>

Places == 0 .. CONSOLE_BUFFER_SIZE - 1

\* cons_init clears the buffer and finds out whether there is a serial port.
ConsoleInit ==
  /\ pc = "serial_intr"
  /\ serial_exists \in BOOLEAN
  /\ com = <<>> /\ kbd = <<>> /\ held = {}
  /\ shift = {}
  /\ buf = [p \in Places |-> "NUL"] /\ rpos = 0 /\ wpos = 0
  /\ got = "NUL"

-----------------------------------------------------------------------------
(* The tables of the keyboard driver, for the keys that are told apart.    *)

shiftcode(key) ==
  CASE key \in {29, 157} -> {"CTL"}
    [] key \in {42, 54}  -> {"SHIFT"}
    [] key \in {56, 184} -> {"ALT"}
    [] OTHER             -> {}

togglecode(key) == IF key = 58 THEN {"CAPSLOCK"} ELSE {}

\* normalmap, shiftmap and ctlmap, chosen by charcode.
charcode(flags, key) ==
  CASE key = 30  -> (IF "CTL" \in flags THEN "^A"
                     ELSE IF "SHIFT" \in flags THEN "A" ELSE "a")
    [] key = 28  -> (IF "CTL" \in flags THEN "CR" ELSE "LF")
    [] key = 211 -> "KEY_DEL"
    [] OTHER     -> "NUL"

SwapCase(c) == CASE c = "a" -> "A" [] c = "A" -> "a" [] OTHER -> c

-----------------------------------------------------------------------------
(* The devices.                                                            *)

Sends(bytes) ==
  /\ pc # "reset"
  /\ Len(com) + Len(kbd) + Len(bytes) <= FIFO
  /\ kbd' = kbd \o bytes
  /\ UNCHANGED <<pc, serial_exists, com, shift, cons, got>>

Prefix(key) == IF key >= 128 THEN <<E0>> ELSE <<>>

\* A key goes down, or repeats while it is down.
Press(key) == Sends(Prefix(key) \o <<key % 128>>) /\ held' = held \cup {key}

Release(key) ==
  /\ key \in held
  /\ Sends(Prefix(key) \o <<128 + (key % 128)>>)
  /\ held' = held \ {key}

Receive(c) ==
  /\ pc # "reset"
  /\ serial_exists
  /\ Len(com) + Len(kbd) < FIFO
  /\ com' = Append(com, c)
  /\ UNCHANGED <<pc, serial_exists, kbd, held, shift, cons, got>>

-----------------------------------------------------------------------------
(* The drivers.                                                            *)

\* What cons_intr does with a character.
cons_intr(c) ==
  \/ c = "NUL" /\ UNCHANGED cons
  \/ /\ c # "NUL"
     /\ buf' = [buf EXCEPT ![wpos] = c]
     /\ wpos' = IF wpos + 1 = CONSOLE_BUFFER_SIZE THEN 0 ELSE wpos + 1
     /\ UNCHANGED rpos

\* serial_intr: the receiver is read until it is empty.
serial_intr ==
  /\ pc = "serial_intr"
  /\ \/ /\ serial_exists /\ com # <<>>
        /\ com' = Tail(com)
        /\ cons_intr(Head(com))
        /\ UNCHANGED pc
     \/ /\ ~serial_exists \/ com = <<>>
        /\ pc' = "keyboard_intr"
        /\ UNCHANGED <<com, cons>>
  /\ UNCHANGED <<serial_exists, kbd, held, shift, got>>

\* A slip: the release of a key leaves the escape flag set.
Released_keeps_escape(data) ==
  shift \ shiftcode(IF "E0ESC" \in shift THEN data ELSE data - 128)

\* The flags after the byte of a release.
Released(data) ==
  shift \ (shiftcode(IF "E0ESC" \in shift THEN data ELSE data - 128) \cup {"E0ESC"})

\* The flags after the byte of a press of key.
Pressed(key) ==
  LET s == (shift \ {"E0ESC"}) \cup shiftcode(key)
      t == togglecode(key)
  IN  (s \ t) \cup (t \ s)

\* One byte of the keyboard.  Ctrl-Alt-Del resets the machine.
kbd_proc_data(data) ==
  \/ /\ data = E0
     /\ shift' = shift \cup {"E0ESC"}
     /\ UNCHANGED <<pc, cons>>
  \/ /\ data # E0 /\ data >= 128
     /\ shift' = Released(data)
     /\ UNCHANGED <<pc, cons>>
  \/ /\ data < 128
     /\ LET key == IF "E0ESC" \in shift THEN data + 128 ELSE data
            m   == charcode(shift', key)
            c   == IF "CAPSLOCK" \in shift' THEN SwapCase(m) ELSE m
        IN  /\ shift' = Pressed(key)
            /\ IF {"CTL", "ALT"} \subseteq shift' /\ c = "KEY_DEL"
               THEN pc' = "reset" /\ UNCHANGED cons
               ELSE cons_intr(c) /\ UNCHANGED pc

\* keyboard_intr: the controller is read until it is empty.
keyboard_intr ==
  /\ pc = "keyboard_intr"
  /\ \/ /\ kbd # <<>>
        /\ kbd' = Tail(kbd)
        /\ kbd_proc_data(Head(kbd))
     \/ /\ kbd = <<>>
        /\ pc' = "cons_getc"
        /\ UNCHANGED <<kbd, shift, cons>>
  /\ UNCHANGED <<serial_exists, com, held, got>>

\* A slip: the newest character is handed out.
Taken_newest == (wpos - 1) % CONSOLE_BUFFER_SIZE

\* The place cons_getc reads.
Taken == rpos

\* The rest of cons_getc, after it has polled; getchar polls again for NUL.
cons_getc ==
  /\ pc = "cons_getc"
  /\ \/ /\ rpos # wpos
        /\ got' = buf[Taken]
        /\ rpos' = IF rpos + 1 = CONSOLE_BUFFER_SIZE THEN 0 ELSE rpos + 1
     \/ /\ rpos = wpos
        /\ got' = "NUL"
        /\ UNCHANGED rpos
  /\ pc' = "serial_intr"
  /\ UNCHANGED <<serial_exists, devices, shift, buf, wpos>>

ConsoleNext ==
  \/ \E key \in Keys : Press(key) \/ Release(key)
  \/ \E c \in SerialChars : Receive(c)
  \/ serial_intr
  \/ keyboard_intr
  \/ cons_getc

ConsoleSpec == ConsoleInit /\ [][ConsoleNext]_consoleVars

-----------------------------------------------------------------------------
\* No modifier sticks and none is missed: once the driver has read all that
\* the keyboard has sent, a flag is set only if one of its keys is down, and it
\* is set if all of its keys are; no escape is left over (kbd_proc_data).
ModifiersFollowKeys ==
  kbd = <<>> /\ pc # "reset" =>
    /\ "E0ESC" \notin shift
    /\ \A m \in {"SHIFT", "CTL", "ALT"} :
         LET of == {key \in Keys : m \in shiftcode(key)}
         IN  /\ m \in shift => of \cap held # {}
             /\ of # {} /\ of \subseteq held => m \in shift

\* The characters between the two positions, oldest first.
Unread ==
  [k \in 1 .. (wpos - rpos) % CONSOLE_BUFFER_SIZE |->
     buf[(rpos + k - 1) % CONSOLE_BUFFER_SIZE]]

Q == INSTANCE ConsQueue WITH queue <- Unread

\* The ring buffer hands out what the devices deliver, in order, each
\* character once, and loses characters only by being filled: then it loses
\* all of them, because a full buffer looks empty (cons_intr, cons_getc).
RingImplementsQueue == Q!Spec
=============================================================================
