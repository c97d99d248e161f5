-------------------------------- MODULE Pic --------------------------------
(***************************************************************************)
(* The two interrupt controllers and the timer (kernel/arch/x86_64/pic.c   *)
(* and pit.c): which lines are masked, requested and in service, where     *)
(* their vectors start, and the tick counter.  Line 2 of the master is     *)
(* where the slave, lines 8 to 15, is connected.                           *)
(***************************************************************************)
EXTENDS Integers, FiniteSets

CONSTANTS
    Lines,          \* the lines devices use
    BootMasks       \* what firmware may leave masked

Irqs == 0..15

ASSUME PicConstants ==
    Lines \subseteq Irqs \ {2} /\ 0 \in Lines /\ BootMasks \subseteq SUBSET Irqs

PIC_MASTER_OFFSET == 32
PIC_SLAVE_OFFSET == 40
PIT_BASE_FREQUENCY_HZ == 1193182

VARIABLES
    pic,            \* offsets, mask, requested (irr) and in service (isr)
    divisor,        \* what the timer counts down from; 0 before it is set
    g_timer_ticks

\* Firmware leaves the BIOS vectors, any mask and any requests.
PicInit ==
    /\ \E mask \in BootMasks, irr \in SUBSET Lines :
         pic = [master |-> 8, slave |-> 112, mask |-> mask, irr |-> irr, isr |-> {}]
    /\ divisor = 0 /\ g_timer_ticks = 0

\* The initialisation words reset the controllers; the masks, which the
\* first of them clears, are read before and written back after.
pic_remap(master_offset, slave_offset) ==
    /\ pic' = [pic EXCEPT !.master = master_offset, !.slave = slave_offset,
                          !.irr = {}, !.isr = {}]
    /\ UNCHANGED <<divisor, g_timer_ticks>>

\* Mutant: the masks stay what firmware left.
MaskNothing == UNCHANGED <<pic, divisor, g_timer_ticks>>

pic_mask_all ==
    /\ pic' = [pic EXCEPT !.mask = Irqs]
    /\ UNCHANGED <<divisor, g_timer_ticks>>

pic_unmask_irq(irq) ==
    /\ pic' = [pic EXCEPT !.mask = @ \ {irq}]
    /\ UNCHANGED <<divisor, g_timer_ticks>>

\* An end of interrupt ends what a controller has in service with the
\* highest priority, which is the lowest line; the slave is told of its own.
Ended(irq) ==
    {l \in pic.isr : /\ l < 8 \/ irq >= 8
                     /\ \A k \in pic.isr : (k < 8 <=> l < 8) => l <= k}

pic_send_eoi(irq) == pic' = [pic EXCEPT !.isr = @ \ Ended(irq)]

\* The divisor is written as two bytes.
pit_configure_hz(hz) ==
    /\ divisor' = IF hz = 0 THEN divisor ELSE (PIT_BASE_FREQUENCY_HZ \div hz) % 2^16
    /\ UNCHANGED <<pic, g_timer_ticks>>

timer_on_irq0 == g_timer_ticks' = g_timer_ticks + 1

\* External: a device, the timer included, requests an interrupt.
Raise(l) ==
    /\ pic' = [pic EXCEPT !.irr = @ \cup {l}]
    /\ UNCHANGED <<divisor, g_timer_ticks>>

\* External: the lines of the slave come before those above 2.
Priority(l) == IF l \in 3..7 THEN l + 13 ELSE l

\* External: a line the controllers pass on to the CPU, and its vector.
Offered(l) ==
    /\ l \in pic.irr \ pic.mask
    /\ l >= 8 => 2 \notin pic.mask
    /\ \A k \in pic.isr : Priority(l) < Priority(k)

Vector(l) == IF l < 8 THEN pic.master + l ELSE pic.slave + l - 8

\* External: the CPU takes it.
Acknowledge(l) ==
    /\ pic' = [pic EXCEPT !.irr = @ \ {l}, !.isr = @ \cup {l}]
    /\ UNCHANGED <<divisor, g_timer_ticks>>

============================================================================
