--------------------------------- MODULE Pic ---------------------------------
(***************************************************************************)
(* The two interrupt controllers: what pic.c and intr.c write to them, and *)
(* what the hardware does with it.  The controllers are in fully nested    *)
(* mode: a line that is in service holds back itself and every line of     *)
(* lower priority, that is of a higher number, until an end of interrupt.  *)
(*                                                                         *)
(* A request that arrives while the kernel works, with interrupts off, is  *)
(* as good as one that arrives when the kernel returns, so pending         *)
(* requests are not recorded.                                              *)
(***************************************************************************)
EXTENDS Integers

IRQ_TIMER    == 0
IRQ_KBD      == 1
IRQ_SLAVE    == 2
IRQ_SERIAL13 == 4
IRQ_SPURIOUS == 7

Lines  == 0 .. 15
Master == 0 .. 7
Slave  == 8 .. 15

\* pic.c keeps a copy of the masks: "irqmask", all lines but the slave's.
\* pic_init leaves the controllers with every line masked and none in service.
pic_init == [irqmask |-> Lines \ {IRQ_SLAVE}, imr |-> Lines, isr |-> {}]

pic_setmask(p, mask) == [irqmask |-> mask, imr |-> mask, isr |-> p.isr]

pic_enable(p, irq) == pic_setmask(p, p.irqmask \ {irq})

intr_enable(p, irq) == IF irq >= 16 THEN p ELSE pic_enable(p, irq)

\* One end of interrupt for each controller: it ends the service of the line
\* with the highest priority.
pic_eoi(p) ==
  LET Highest(S) == {irq \in S : \A other \in S : irq <= other}
  IN  [p EXCEPT !.isr = @ \ (Highest(@ \cap Master) \cup Highest(@ \cap Slave))]

\* The lines devinit enables.
devinit == intr_enable(intr_enable(intr_enable(pic_init, IRQ_TIMER), IRQ_KBD),
                       IRQ_SERIAL13)

-----------------------------------------------------------------------------
\* A line is let through by its controller, and a line of the slave also by
\* the master.
Passes(p, irq, controller) ==
  irq \notin p.imr /\ \A s \in p.isr \cap controller : irq < s

Deliverable(p, irq) ==
  \/ irq \in Master \ {IRQ_SLAVE} /\ Passes(p, irq, Master)
  \/ irq \in Slave /\ Passes(p, irq, Slave) /\ Passes(p, IRQ_SLAVE, Master)

\* The processor takes the interrupt.
Acknowledged(p, irq) ==
  [p EXCEPT !.isr = @ \cup {irq} \cup (IF irq \in Slave THEN {IRQ_SLAVE} ELSE {})]
=============================================================================
