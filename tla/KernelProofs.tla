----------------------------- MODULE KernelProofs -----------------------------
(***************************************************************************)
(* The timer's is the only interrupt the kernel takes, a halt is final, and*)
(* the log on the serial line is complete, for every set of lines, masks,  *)
(* delays and builds.                                                      *)
(***************************************************************************)
EXTENDS Kernel, SequenceTheorems, TLAPS

\* kmain before its sti.
Early == {"kmain", "idt_init", "remap", "mask", "unmask", "pit", "sti"}

\* Code an interrupt or a breakpoint may come back to.
Later(l) == l \notin Early /\ l # "reset" /\ l # "hlt"

\* What must hold once interrupts may come.
Armed ==
    /\ idtr /\ 13 \in DOMAIN idt
    /\ pic.master = PIC_MASTER_OFFSET /\ Irqs \ {0} \subseteq pic.mask

Controllers ==
    [master : Nat, slave : Nat, mask : SUBSET Irqs, irr : SUBSET Lines, isr : SUBSET Lines]

\* What traps interrupted is past sti and not halted.
Resumable == \E frames : saved \in Seq(frames) /\ \A f \in frames : Later(f.pc)

\* The steps of kmain up to sti, in their order, with nothing interrupted.
Rising ==
    /\ pc \in Early => ~iflag /\ pic.isr = {}
    /\ pc \in Early \ {"kmain", "idt_init"} => idtr /\ 13 \in DOMAIN idt
    /\ pc \in {"mask", "unmask", "pit", "sti"} => pic.master = PIC_MASTER_OFFSET
    /\ pc \in {"unmask", "pit", "sti"} => Irqs \ {0} \subseteq pic.mask

\* The inductive invariant.
KInv ==
    /\ pic \in Controllers /\ Resumable /\ Rising
    /\ pc # "reset" /\ pic.isr \subseteq {0}
    /\ pc \notin Early => Armed
    /\ pc = "hlt" => ~iflag /\ text = <<>>

\* The state the boot loader hands over (kmain.c:85) satisfies the invariant.
LEMMA InitKInv == Init => KInv
<1> SUFFICES ASSUME Init PROVE KInv
  OBVIOUS
<1>1. pic \in Controllers
  BY PicConstants DEF Init, PicInit, Controllers, Irqs
<1>2. Resumable
  <2>1. saved \in Seq({}) /\ \A f \in {} : Later(f.pc)
    BY DEF Init
  <2> QED BY <2>1 DEF Resumable
<1>3. Rising
  BY DEF Init, PicInit, Rising, Early
<1> QED BY <1>1, <1>2, <1>3 DEF Init, PicInit, KInv, Early

\* Taking a trap keeps the invariant when it comes past sti.
LEMMA EnterKInv ==
    ASSUME KInv, Armed, NEW v, NEW l, Later(l), Enter(v, l),
           pic' \in Controllers, pic'.isr \subseteq {0},
           pic'.master = pic.master, pic'.mask = pic.mask
    PROVE  KInv'
<1> DEFINE frame == [pc |-> l, vector |-> vector, iflag |-> iflag, call |-> call]
<1>1. /\ pc' = "dispatch" /\ saved' = <<frame>> \o saved
      /\ idt' = idt /\ idtr' = idtr
  BY DEF Enter, Armed, boot, machine
<1>2. Resumable'
  <2>1. PICK frames : saved \in Seq(frames) /\ \A f \in frames : Later(f.pc)
    BY DEF KInv, Resumable
  <2>2. Later(frame.pc)
    OBVIOUS
  <2> HIDE DEF frame
  <2>3. saved' \in Seq(frames \cup {frame})
    BY <1>1, <2>1
  <2>4. \A f \in frames \cup {frame} : Later(f.pc)
    BY <2>1, <2>2
  <2> QED BY <2>3, <2>4 DEF Resumable, Later
<1>3. Rising'
  BY <1>1 DEF Rising, Early
<1> QED BY <1>1, <1>2, <1>3 DEF KInv, Armed, Early

\* A step of kmain or of a handler past sti that goes on at l, leaving the
\* table, the lines in service and the controllers' offsets and masks alone.
LEMMA AheadKInv ==
    ASSUME KInv, Armed, Later(pc') \/ (pc' = "hlt" /\ ~iflag' /\ text' = <<>>),
           Resumable', UNCHANGED <<idt, idtr>>,
           pic' \in Controllers, pic'.isr \subseteq pic.isr,
           pic'.master = pic.master, pic'.mask = pic.mask
    PROVE  KInv'
<1>1. pc' \notin Early /\ pc' # "reset"
  BY DEF Later, Early
<1>2. Rising'
  BY <1>1 DEF Rising, Early
<1> QED BY <1>1, <1>2 DEF KInv, Armed, Later

\* A step that saves and restores no program counter leaves those saved valid
\* (isr.S:42-58).
LEMMA SameFrames == Resumable /\ saved' = saved => Resumable'
BY DEF Resumable

\* The dispatcher serves the timer, or logs the trap and returns or panics.
LEMMA DispatchShape ==
    ASSUME x86_64_trap_dispatch
    PROVE  /\ At("dispatch") /\ Straight /\ UNCHANGED <<machine, syscalls, iflag>>
           /\ \/ pic_send_eoi(0) /\ Go("iretq")
              \/ Devices /\ \E t : Log("iretq", t) \/ Log("panic", t)
<1>1. At("dispatch") /\ Straight /\ UNCHANGED <<machine, syscalls, iflag>>
  BY Zenon DEF x86_64_trap_dispatch
<1>2. CASE vector = PIC_MASTER_OFFSET
  BY <1>1, <1>2, Zenon DEF x86_64_trap_dispatch
<1>3. CASE vector # PIC_MASTER_OFFSET
  BY <1>1, <1>3, Zenon DEF x86_64_trap_dispatch
<1> QED BY <1>2, <1>3, Zenon

\* Every step of the CPU, of an interrupt and of a device keeps the
\* invariant.
LEMMA NextKInv == KInv /\ [Next]_vars => KInv'
<1> SUFFICES ASSUME KInv, [Next]_vars PROVE KInv'
  OBVIOUS
<1> USE DEF At, Log, Go, Straight, boot, machine
<1>a. ASSUME pc \notin Early PROVE Armed
  BY <1>a DEF KInv
<1>b. ASSUME saved' = saved, pc' \in {"panic", "iretq", "halt", "heap", "syscall_init",
               "region", "smoke", "ready", "trigger", "int3", "selftest"},
             pc \notin Early, UNCHANGED <<idt, idtr>>, UNCHANGED pic
      PROVE  KInv'
  <2>1. Later(pc')
    BY <1>b DEF Later, Early
  <2>2. pic' \in Controllers /\ pic'.isr \subseteq pic.isr /\ pic'.master = pic.master
        /\ pic'.mask = pic.mask
    BY <1>b DEF KInv
  <2>3. Resumable'
    BY <1>b, SameFrames DEF KInv
  <2> QED BY <1>a, <1>b, <2>1, <2>2, <2>3, AheadKInv
<1>1. CASE kmain
  BY <1>1, SameFrames DEF kmain, Devices, KInv, Rising, Early
<1>2. CASE x86_64_idt_init
  <2>1. /\ pc = "idt_init" /\ pc' = "remap" /\ idtr' /\ 13 \in DOMAIN idt'
        /\ UNCHANGED <<pic, saved, iflag>>
    BY <1>2 DEF x86_64_idt_init, Devices
  <2> QED BY <2>1, SameFrames DEF KInv, Rising, Early
<1>3. CASE InterruptsOn
  <2>0. saved' = saved /\ UNCHANGED <<idt, idtr>> /\ Resumable' /\ iflag' = (pc = "sti")
    BY <1>3, SameFrames DEF InterruptsOn, KInv
  <2>1. CASE pc = "remap" /\ pic_remap(PIC_MASTER_OFFSET, PIC_SLAVE_OFFSET) /\ Go("mask")
    <3>1. pic' \in Controllers /\ pic'.master = PIC_MASTER_OFFSET /\ pic'.isr = {}
      BY <2>1, Zenon DEF pic_remap, KInv, Controllers, PIC_MASTER_OFFSET, PIC_SLAVE_OFFSET
    <3> QED BY <2>0, <2>1, <3>1, Zenon DEF KInv, Rising, Early
  <2>2. CASE pc = "mask" /\ pic_mask_all /\ Go("unmask")
    <3>1. /\ pic' \in Controllers /\ pic'.master = pic.master /\ pic'.isr = pic.isr
          /\ pic'.mask = Irqs
      BY <2>2 DEF pic_mask_all, KInv, Controllers
    <3> QED BY <2>0, <2>2, <3>1, Zenon DEF KInv, Rising, Early
  <2>3. CASE pc = "unmask" /\ pic_unmask_irq(0) /\ Go("pit")
    <3>1. /\ pic' \in Controllers /\ pic'.master = pic.master /\ pic'.isr = pic.isr
          /\ pic'.mask = pic.mask \ {0}
      BY <2>3 DEF pic_unmask_irq, KInv, Controllers
    <3> QED BY <2>0, <2>3, <3>1, Zenon DEF KInv, Rising, Early
  <2>4. CASE pc = "pit" /\ pit_configure_hz(100) /\ Go("sti")
    <3>1. pic' = pic
      BY <2>4 DEF pit_configure_hz
    <3> QED BY <2>0, <2>4, <3>1, Zenon DEF KInv, Rising, Early
  <2>5. CASE pc = "sti" /\ Go("selftest") /\ Devices
    BY <2>0, <2>5 DEF Devices, KInv, Rising, Early, Armed
  <2> QED BY <1>3, <2>1, <2>2, <2>3, <2>4, <2>5 DEF InterruptsOn
<1>4. CASE m4_selftest
  BY <1>4, <1>b DEF m4_selftest, Devices, Early
<1>5. CASE m8_heap_bootstrap
  BY <1>5, <1>b DEF m8_heap_bootstrap, Devices, Early
<1>6. CASE SyscallSetup
  BY <1>6, <1>b DEF SyscallSetup, Devices, Early
<1>7. CASE m10_syscall_smoke_direct
  BY <1>7, <1>b DEF m10_syscall_smoke_direct, Devices, Early
<1>8. CASE x86_64_trigger_breakpoint_for_test
  <2>1. CASE At("int3") /\ Enter(3, "returned")
    <3>1. pc = "int3" /\ pic' = pic
      BY <1>8, <2>1 DEF x86_64_trigger_breakpoint_for_test, Devices
    <3>2. Armed /\ Later("returned")
      BY <3>1, <1>a DEF Early, Later
    <3> QED BY <2>1, <3>1, <3>2, EnterKInv DEF KInv
  <2>2. CASE ~(At("int3") /\ Enter(3, "returned"))
    BY <1>8, <2>2, <1>b DEF x86_64_trigger_breakpoint_for_test, Devices, Early
  <2> QED BY <2>1, <2>2
<1>9. CASE Ready
  BY <1>9, <1>b DEF Ready, Devices, Early
<1>10. CASE x86_64_trap_dispatch
  <2>0. /\ pc = "dispatch" /\ pc' \in {"iretq", "panic"} /\ saved' = saved
        /\ UNCHANGED <<idt, idtr>> /\ (pic_send_eoi(0) \/ Devices)
    BY <1>10, DispatchShape
  <2>1. CASE pic_send_eoi(0)
    <3>1. /\ pic' \in Controllers /\ pic'.isr \subseteq pic.isr
          /\ pic'.master = pic.master /\ pic'.mask = pic.mask
      BY <2>1 DEF pic_send_eoi, KInv, Controllers
    <3>2. Armed /\ Later(pc') /\ Resumable'
      BY <2>0, <1>a, SameFrames DEF Early, Later, KInv
    <3>3. UNCHANGED <<idt, idtr>>
      BY <2>0
    <3> QED BY <3>1, <3>2, <3>3, AheadKInv
  <2>2. CASE Devices
    BY <2>0, <2>2, <1>b DEF Devices, Early
  <2> QED BY <2>0, <2>1, <2>2
<1>11. CASE iretq
  <2>1. PICK frames : saved \in Seq(frames) /\ \A f \in frames : Later(f.pc)
    BY DEF KInv, Resumable
  <2>2. saved # <<>> /\ pc' = Head(saved).pc /\ saved' = Tail(saved) /\ pc = "iretq"
    BY <1>11 DEF iretq
  <2>3. Head(saved) \in frames /\ saved' \in Seq(frames)
    BY <2>1, <2>2
  <2>4. Later(pc') /\ Resumable' /\ Armed
    BY <2>1, <2>2, <2>3, <1>a DEF Resumable, Later, Early
  <2>5. UNCHANGED <<idt, idtr>> /\ UNCHANGED pic
    BY <1>11 DEF iretq, Devices
  <2> QED BY <2>4, <2>5, AheadKInv DEF KInv
<1>12. CASE kernel_panic_at
  BY <1>12, <1>b DEF kernel_panic_at, Devices, Early
<1>13. CASE cpu_halt_forever
  <2>1. /\ pc = "halt" /\ pc' = "hlt" /\ ~iflag' /\ text' = <<>> /\ saved' = saved
        /\ UNCHANGED <<idt, idtr>> /\ UNCHANGED pic
    BY <1>13 DEF cpu_halt_forever, Devices, Quiet, call
  <2>2. Armed /\ Resumable'
    BY <2>1, <1>a, SameFrames DEF Early, KInv
  <2> QED BY <2>1, <2>2, AheadKInv DEF KInv
<1>14. CASE serial_putc /\ Devices /\ UNCHANGED <<pc, vector, iflag, saved, boot>>
  <2>1. text # <<>>
    BY <1>14 DEF serial_putc, Poll, Send
  <2> QED BY <1>14, <2>1, SameFrames DEF Devices, KInv, Rising, Armed
<1>15. CASE Interrupt
  <2>1. PICK l \in Lines : iflag /\ Offered(l) /\ Enter(Vector(l), pc) /\ Acknowledge(l)
    BY <1>15 DEF Interrupt
  <2>2. Armed /\ Later(pc)
    BY <2>1, <1>a DEF KInv, Rising, Later
  <2>3. l = 0
    BY <2>1, <2>2, PicConstants DEF Offered, Armed
  <2>4. /\ pic' \in Controllers /\ pic'.isr \subseteq {0}
        /\ pic'.master = pic.master /\ pic'.mask = pic.mask
    BY <2>1, <2>3, Zenon DEF Acknowledge, KInv, Controllers
  <2> QED BY <2>1, <2>2, <2>4, EnterKInv
<1>16. CASE Request
  <2>1. PICK l \in Lines : Raise(l)
    BY <1>16 DEF Request
  <2>2. /\ pic' \in Controllers /\ pic'.isr = pic.isr
        /\ pic'.master = pic.master /\ pic'.mask = pic.mask
    BY <2>1 DEF Raise, KInv, Controllers
  <2>3. UNCHANGED <<pc, iflag, saved, text, idt, idtr>>
    BY <1>16 DEF Request, call
  <2> QED BY <2>2, <2>3, SameFrames DEF KInv, Rising, Armed
<1>17. CASE UNCHANGED vars
  <2>1. UNCHANGED <<pc, iflag, saved, text, idt, idtr, pic>>
    BY <1>17 DEF vars, call
  <2> QED BY <2>1, SameFrames DEF KInv, Rising, Armed
<1> QED
  BY <1>1, <1>2, <1>3, <1>4, <1>5, <1>6, <1>7, <1>8, <1>9, <1>10, <1>11, <1>12,
     <1>13, <1>14, <1>15, <1>16, <1>17 DEF Next, Cpu

\* The invariant holds throughout, from the entry of kmain (kmain.c:85) on.
LEMMA Invariance == Spec => []KInv
BY InitKInv, NextKInv, PTL DEF Spec

\* Whatever firmware left in the controllers and whenever devices request,
\* the kernel takes no interrupt but the timer's and never one before its
\* table is loaded (kmain.c:97-102).
THEOREM TimerOnly == Spec => []OnlyTimerInterrupts
<1>1. KInv => OnlyTimerInterrupts
  BY DEF KInv, OnlyTimerInterrupts, Rising, Armed
<1> QED BY <1>1, Invariance, PTL

\* A CPU that has come to cpu_halt_forever does nothing any more (cpu.h:28).
THEOREM HaltForGood == Spec => HaltIsFinal
<1>1. KInv /\ [Next]_vars => [pc = "hlt" => UNCHANGED <<pc, line, trap_count, g_timer_ticks>>]_vars
  <2> SUFFICES ASSUME KInv, Next, pc = "hlt"
               PROVE  UNCHANGED <<pc, line, trap_count, g_timer_ticks>>
    OBVIOUS
  <2>1. ~iflag /\ text = <<>>
    BY DEF KInv
  <2>2. ~Interrupt
    BY <2>1 DEF Interrupt
  <2>3. ~serial_putc
    BY <2>1 DEF serial_putc, Poll, Send
  <2>4. Request
    BY <2>2, <2>3 DEF Next, Cpu, At, kmain, x86_64_idt_init, InterruptsOn, m4_selftest,
       m8_heap_bootstrap, SyscallSetup, m10_syscall_smoke_direct,
       x86_64_trigger_breakpoint_for_test, Ready, x86_64_trap_dispatch, iretq,
       kernel_panic_at, cpu_halt_forever
  <2> QED BY <2>4 DEF Request, Raise, uart, boot
<1> QED BY <1>1, Invariance, PTL DEF Spec, HaltIsFinal

-----------------------------------------------------------------------------
(* The log.                                                                 *)

Char ==
    {"CR", "LF", "kernel entered", "kernel_start", "rflags_before_idt", "idt_base",
     "IDT loaded", "selftest", "heap", "ping", "triggering", "returned", "ready",
     "#BP", "#GP", "exception", "external-or-user-defined-interrupt", "trap_vector",
     "breakpoint handled", "MCSOS KERNEL PANIC", "panic_code", "state=halted"}

Chars == Seq(Char)

\* What kmain has written when it comes to the places named.
AtRemap == Entered \o IdtLoaded
AtSmoke == BeforeHeap \o log_writeln("heap")
AtEnd == AtSmoke \o log_writeln("ping")
AtInt3 == AtEnd \o log_writeln("triggering")
Handled == TrapLog(3) \o log_writeln("breakpoint handled")
AtReturn == AtInt3 \o Handled
AtReady == AtReturn \o log_writeln("returned")

\* s is the beginning of the log of the build.
Begins(s) == \E r \in Chars : BootLog = s \o r

\* The pieces of the log are sequences of characters.
LEMMA PieceTypes ==
  /\ Entered \in Chars /\ IdtLoaded \in Chars /\ PanicReport \in Chars
  /\ \A v : TrapLog(v) \in Chars
  /\ \A c \in Char : log_writeln(c) \in Chars
  /\ \A s, t \in Chars : s \o t \in Chars
  /\ BeforeHeap \in Chars /\ AtRemap \in Chars /\ AtSmoke \in Chars /\ AtEnd \in Chars
  /\ AtInt3 \in Chars /\ Handled \in Chars /\ AtReturn \in Chars /\ AtReady \in Chars
<1>1. \A c \in Char : log_writeln(c) \in Chars /\ log_key_value_hex64(c) \in Chars
  <2>1. "CR" \in Char /\ "LF" \in Char
    BY DEF Char
  <2> QED BY <2>1 DEF log_writeln, log_key_value_hex64, Chars
<1>2. \A s, t \in Chars : s \o t \in Chars
  BY DEF Chars
<1>3. \A v : trap_name(v) \in Char
  BY DEF trap_name, Char
<1>4. \A v : TrapLog(v) \in Chars
  <2>1. "trap_vector" \in Char
    BY DEF Char
  <2> QED BY <2>1, <1>1, <1>2, <1>3 DEF TrapLog
<1>5. /\ log_writeln("kernel entered") \in Chars /\ log_key_value_hex64("kernel_start") \in Chars
      /\ log_key_value_hex64("rflags_before_idt") \in Chars
      /\ log_key_value_hex64("idt_base") \in Chars /\ log_writeln("IDT loaded") \in Chars
      /\ log_writeln("MCSOS KERNEL PANIC") \in Chars
      /\ log_key_value_hex64("panic_code") \in Chars /\ log_writeln("state=halted") \in Chars
      /\ log_writeln("selftest") \in Chars /\ log_writeln("heap") \in Chars
      /\ log_writeln("ping") \in Chars /\ log_writeln("triggering") \in Chars
      /\ log_writeln("breakpoint handled") \in Chars /\ log_writeln("returned") \in Chars
  BY <1>1, Zenon DEF Char
<1>6. Entered \in Chars /\ IdtLoaded \in Chars /\ PanicReport \in Chars
  BY <1>2, <1>5, Zenon DEF Entered, IdtLoaded, PanicReport
<1>7. AtRemap \in Chars /\ BeforeHeap \in Chars
  BY <1>2, <1>5, <1>6, Zenon DEF AtRemap, BeforeHeap
<1>8. AtSmoke \in Chars /\ AtEnd \in Chars /\ AtInt3 \in Chars /\ Handled \in Chars
  BY <1>2, <1>4, <1>5, <1>7, Zenon DEF AtSmoke, AtEnd, AtInt3, Handled
<1>9. AtReturn \in Chars /\ AtReady \in Chars
  BY <1>2, <1>5, <1>8, Zenon DEF AtReturn, AtReady
<1> QED BY <1>1, <1>2, <1>4, <1>6, <1>7, <1>8, <1>9

\* Pieces one after the other.
Cat(s, t) == s \o t

\* Pieces join to pieces, in any grouping.
LEMMA CatFacts ==
  /\ \A s, t \in Chars : Cat(s, t) \in Chars
  /\ \A s, t, u \in Chars : Cat(Cat(s, t), u) = Cat(s, Cat(t, u))
<1>1. \A s, t \in Chars : Cat(s, t) \in Chars
  BY DEF Cat, Chars
<1>2. ASSUME NEW s \in Chars, NEW t \in Chars, NEW u \in Chars
      PROVE  Cat(Cat(s, t), u) = Cat(s, Cat(t, u))
  BY ConcatAssociative DEF Cat, Chars
<1> QED BY <1>1, <1>2

\* Two groupings of the pieces a breakpoint leaves.
LEMMA FivePieces ==
  ASSUME NEW s \in Chars, NEW t \in Chars, NEW u \in Chars, NEW v \in Chars, NEW w \in Chars
  PROVE  Cat(s, Cat(Cat(Cat(t, u), v), w)) = Cat(Cat(Cat(s, t), Cat(u, v)), w)
<1>1. Cat(t, u) \in Chars /\ Cat(u, v) \in Chars /\ Cat(Cat(t, u), v) \in Chars
  BY CatFacts
<1>2. ASSUME NEW x \in Chars PROVE Cat(s, Cat(x, w)) = Cat(Cat(s, x), w)
  BY CatFacts
<1>3. Cat(Cat(t, u), v) = Cat(t, Cat(u, v))
  BY CatFacts
<1>4. ASSUME NEW y \in Chars PROVE Cat(s, Cat(t, y)) = Cat(Cat(s, t), y)
  BY CatFacts
<1>5. Cat(s, Cat(Cat(Cat(t, u), v), w)) = Cat(Cat(s, Cat(Cat(t, u), v)), w)
  BY <1>1, <1>2
<1>6. Cat(s, Cat(t, Cat(u, v))) = Cat(Cat(s, t), Cat(u, v))
  BY <1>1, <1>4
<1> QED BY <1>3, <1>5, <1>6

\* How the log of a build ends.
LEMMA LogEnds ==
  /\ build = "breakpoint" => BootLog = AtReady \o log_writeln("ready")
  /\ build = "panic" => BootLog = AtEnd \o PanicReport
  /\ build \notin {"breakpoint", "panic"} => BootLog = AtEnd \o log_writeln("ready")
<1>1. BootLog = (AtEnd \o (IF build = "breakpoint"
                           THEN ((log_writeln("triggering") \o TrapLog(3))
                                   \o log_writeln("breakpoint handled")) \o log_writeln("returned")
                           ELSE <<>>))
                \o (IF build = "panic" THEN PanicReport ELSE log_writeln("ready"))
  BY DEF BootLog, AtEnd, AtSmoke
<1>2. CASE build = "breakpoint"
  <2>1. /\ AtEnd \in Chars /\ log_writeln("triggering") \in Chars /\ TrapLog(3) \in Chars
        /\ log_writeln("breakpoint handled") \in Chars /\ log_writeln("returned") \in Chars
    BY PieceTypes, Zenon DEF Char
  <2>2. AtEnd \o (((log_writeln("triggering") \o TrapLog(3))
                     \o log_writeln("breakpoint handled")) \o log_writeln("returned"))
          = AtReady
    <3>1. AtReady = Cat(Cat(Cat(AtEnd, log_writeln("triggering")),
                            Cat(TrapLog(3), log_writeln("breakpoint handled"))),
                        log_writeln("returned"))
      BY Zenon DEF AtReady, AtReturn, AtInt3, Handled, Cat
    <3>2. AtReady = Cat(AtEnd, Cat(Cat(Cat(log_writeln("triggering"), TrapLog(3)),
                                       log_writeln("breakpoint handled")),
                                   log_writeln("returned")))
      <4>1. PICK s, t, u, v, w \in Chars :
              /\ s = AtEnd /\ t = log_writeln("triggering") /\ u = TrapLog(3)
              /\ v = log_writeln("breakpoint handled") /\ w = log_writeln("returned")
        BY <2>1, Zenon
      <4>2. Cat(s, Cat(Cat(Cat(t, u), v), w)) = Cat(Cat(Cat(s, t), Cat(u, v)), w)
        BY FivePieces
      <4> QED BY <3>1, <4>1, <4>2, Zenon
    <3> QED BY <3>2, Zenon DEF Cat
  <2> QED BY <1>1, <1>2, <2>2, Zenon
<1>3. CASE build # "breakpoint"
  <2>1. AtEnd \o <<>> = AtEnd
    BY PieceTypes, ConcatEmptySeq DEF Chars
  <2> QED BY <1>1, <1>3, <2>1
<1> QED BY <1>2, <1>3

\* What begins with a beginning.
LEMMA BeginsEarlier ==
  ASSUME NEW s \in Chars, NEW t \in Chars, Begins(s \o t)
  PROVE  Begins(s)
<1>1. PICK r \in Chars : BootLog = (s \o t) \o r
  BY DEF Begins
<1>2. BootLog = s \o (t \o r) /\ t \o r \in Chars
  BY <1>1, ConcatAssociative DEF Chars
<1> QED BY <1>2, Zenon DEF Begins

\* A beginning is what SubSeq gives.
LEMMA BeginsSubSeq ==
  ASSUME NEW s \in Chars, Begins(s)
  PROVE  \E n \in 0..Len(BootLog) : s = SubSeq(BootLog, 1, n)
<1>1. PICK r \in Chars : BootLog = s \o r
  BY DEF Begins
<1>2. BootLog \in Chars /\ Len(BootLog) = Len(s) + Len(r) /\ Len(s) \in Nat /\ Len(r) \in Nat
  BY <1>1 DEF Chars
<1>3. s = SubSeq(BootLog, 1, Len(s))
  <2>1. \A i \in 1..Len(s) : BootLog[i] = s[i] /\ s[i] \in Char
    BY <1>1, ConcatProperties DEF Chars
  <2>2. /\ SubSeq(BootLog, 1, Len(s)) \in Seq(Char)
        /\ Len(SubSeq(BootLog, 1, Len(s))) = Len(s)
        /\ \A i \in 1..Len(s) : SubSeq(BootLog, 1, Len(s))[i] = s[i]
    BY <1>2, <2>1, SubSeqProperties
  <2> QED BY <2>2, SeqEqual DEF Chars
<1>4. Len(s) \in 0..Len(BootLog)
  BY <1>2
<1> QED BY <1>3, <1>4, Zenon

\* Every piece is a beginning, of the builds that come to it.
LEMMA PiecesBegin ==
  /\ Begins(<<>>) /\ Begins(Entered) /\ Begins(AtRemap) /\ Begins(BeforeHeap)
  /\ Begins(AtSmoke) /\ Begins(AtEnd) /\ Begins(BootLog)
  /\ build = "breakpoint" => Begins(AtInt3) /\ Begins(AtReturn) /\ Begins(AtReady)
<1> USE PieceTypes, BeginsEarlier
<1>0. /\ log_writeln("ready") \in Chars /\ log_writeln("returned") \in Chars
      /\ log_writeln("triggering") \in Chars /\ log_writeln("ping") \in Chars
      /\ log_writeln("heap") \in Chars /\ log_writeln("selftest") \in Chars
  BY Zenon DEF Char
<1>1. build = "breakpoint" => Begins(AtInt3) /\ Begins(AtReturn) /\ Begins(AtReady)
  <2> SUFFICES ASSUME build = "breakpoint"
               PROVE  Begins(AtInt3) /\ Begins(AtReturn) /\ Begins(AtReady)
    OBVIOUS
  <2>1. Begins(AtReady)
    BY <1>0, LogEnds, Zenon DEF Begins
  <2>2. Begins(AtReturn)
    BY <1>0, <2>1 DEF AtReady
  <2> QED BY <2>1, <2>2 DEF AtReturn
<1>2. Begins(AtEnd)
  <2>1. CASE build = "breakpoint"
    BY <1>0, <1>1, <2>1 DEF AtInt3
  <2>2. CASE build # "breakpoint"
    BY <1>0, <2>2, LogEnds, Zenon DEF Begins
  <2> QED BY <2>1, <2>2
<1>3. Begins(AtSmoke)
  BY <1>0, <1>2 DEF AtEnd
<1>4. Begins(BeforeHeap)
  BY <1>0, <1>3 DEF AtSmoke
<1>5. Begins(AtRemap)
  BY <1>0, <1>4 DEF BeforeHeap, AtRemap
<1>6. Begins(Entered)
  BY <1>5 DEF AtRemap
<1>7. BootLog \in Chars
  <2>1. AtReady \o log_writeln("ready") \in Chars /\ AtEnd \o PanicReport \in Chars
        /\ AtEnd \o log_writeln("ready") \in Chars
    BY <1>0
  <2> QED BY <2>1, LogEnds, Zenon
<1>8. Begins(BootLog) /\ Begins(<<>>)
  <2>1. BootLog = BootLog \o <<>> /\ BootLog = <<>> \o BootLog /\ <<>> \in Chars
    BY <1>7, ConcatEmptySeq DEF Chars
  <2> QED BY <1>7, <2>1, Zenon DEF Begins
<1> QED BY <1>1, <1>2, <1>3, <1>4, <1>5, <1>6, <1>8

\* The transmitter is ready before serial_putc gives up.
Timely == delay \in 0..(TimeoutLimit - 1)

\* Together, what was sent and what the running call still has to send.
Written(s) == Timely => Cat(line, text) = s

\* A character is polled for until the transmitter is empty, and then sent.
PortOK ==
    /\ text \in Chars /\ line \in Chars /\ spin \in Nat /\ polled \in BOOLEAN
    /\ text = <<>> => ~polled
    /\ Timely => /\ busy \in 0..delay /\ (polled => busy = 0)
                 /\ text # <<>> /\ ~polled => spin + busy <= delay

\* kmain on its way, with nothing interrupted.
OnTrack ==
    /\ saved = <<>>
    /\ \/ pc = "kmain" /\ Written(<<>>)
       \/ pc = "idt_init" /\ Written(Entered)
       \/ pc \in {"remap", "mask", "unmask", "pit", "sti", "selftest"} /\ Written(AtRemap)
       \/ pc = "heap" /\ Written(BeforeHeap)
       \/ pc \in {"syscall_init", "region", "smoke"} /\ Written(AtSmoke)
       \/ pc = "trigger" /\ build = "breakpoint" /\ Written(AtEnd)
       \/ pc = "int3" /\ build = "breakpoint" /\ Written(AtInt3)
       \/ pc = "returned" /\ build = "breakpoint" /\ Written(AtReturn)
       \/ pc = "ready" /\ build = "breakpoint" /\ Written(AtReady)
       \/ pc = "ready" /\ build \notin {"breakpoint", "panic"} /\ Written(AtEnd)
       \/ pc = "panic" /\ Written(BeforeHeap)
       \/ pc = "panic" /\ build = "panic" /\ Written(AtEnd)
       \/ pc \in {"halt", "hlt"} /\ Written(BootLog)
       \/ pc \in {"halt", "hlt"} /\ ~iflag /\ Written(BeforeHeap \o PanicReport)

\* The breakpoint of the test is handled; the log call it came after is over.
InBreakpoint ==
    /\ build = "breakpoint" /\ vector = 3
    /\ \E f : /\ saved = <<f>> /\ f.pc = "returned"
              /\ f.call[1] = <<>> /\ f.call[2] \in Nat /\ f.call[3] = FALSE
    /\ \/ pc = "dispatch" /\ Written(AtInt3)
       \/ pc = "iretq" /\ Written(AtReturn)

\* What the line shows of an interrupt that came after n characters.
Report(l, n) ==
    IF l = "dispatch" THEN SubSeq(BootLog, 1, n)
    ELSE IF l = "panic" THEN SubSeq(BootLog, 1, n) \o TrapLog(13)
    ELSE SubSeq(BootLog, 1, n) \o TrapLog(13) \o PanicReport

\* An interrupt, for which there is no gate, on its way to the panic.
Interrupted ==
    /\ ~iflag /\ pc \in {"dispatch", "panic", "halt", "hlt"}
    /\ pc = "dispatch" => vector = 13
    /\ Timely => \E n \in 0..Len(BootLog) : Cat(line, text) = Report(pc, n)

Gates == [v \in 0..31 \cup {128} |-> IF v = 3 THEN "trap" ELSE "interrupt"]

LInv == PortOK /\ (idtr => idt = Gates) /\ (OnTrack \/ InBreakpoint \/ Interrupted)

\* Writing after and before nothing, and sending a character.
LEMMA CatEnds ==
  ASSUME NEW s \in Chars
  PROVE  /\ Cat(s, <<>>) = s /\ Cat(<<>>, s) = s
         /\ \A t \in Chars \ {<<>>} :
              /\ Append(s, Head(t)) \in Chars /\ Tail(t) \in Chars
              /\ Cat(Append(s, Head(t)), Tail(t)) = Cat(s, t)
<1>1. Cat(s, <<>>) = s /\ Cat(<<>>, s) = s
  BY ConcatEmptySeq DEF Cat, Chars
<1>2. ASSUME NEW t \in Chars, t # <<>>
      PROVE  /\ Append(s, Head(t)) \in Chars /\ Tail(t) \in Chars
             /\ Cat(Append(s, Head(t)), Tail(t)) = Cat(s, t)
  BY <1>2 DEF Cat, Chars
<1> QED BY <1>1, <1>2

\* A log call begins after the last one is done.
LEMMA LogStep ==
  ASSUME PortOK, text = <<>>, NEW m, NEW t \in Chars, Log(m, t)
  PROVE  PortOK' /\ \A s \in Chars : Written(s) => Written(Cat(s, t))'
<1>1. /\ text' = t /\ spin' = 0 /\ polled' = FALSE
      /\ UNCHANGED <<busy, delay, line>>
  BY DEF Log, Write, uart
<1>a. ~polled' /\ polled' \in BOOLEAN
  BY <1>1, Zenon
<1>b. Timely' = Timely
  BY <1>1 DEF Timely
<1>2. PortOK'
  BY <1>1, <1>a, <1>b DEF PortOK, Timely
<1>3. Cat(line, <<>>) = line
  BY CatEnds DEF PortOK
<1> QED BY <1>1, <1>2, <1>3 DEF Written, Timely

\* Code that calls no log function.
LEMMA GoStep ==
  ASSUME PortOK, UNCHANGED <<text, spin, polled, busy, delay, line>>
  PROVE  PortOK' /\ \A s : Written(s) => Written(s)'
  BY DEF PortOK, Written, Timely

\* serial_putc sends the next character or goes on waiting.
LEMMA PutcStep ==
  ASSUME PortOK, serial_putc
  PROVE  PortOK' /\ (Timely => Cat(line', text') = Cat(line, text)) /\ Timely' = Timely
<1>0. Timely' = Timely /\ delay' = delay
  BY DEF serial_putc, Poll, Send, Timely
<1>1. /\ text \in Chars \ {<<>>} /\ Tail(text) \in Chars
      /\ Append(line, Head(text)) \in Chars
      /\ Cat(Append(line, Head(text)), Tail(text)) = Cat(line, text)
  BY CatEnds DEF serial_putc, Poll, Send, PortOK
<1>2. CASE Send
  <2>1. /\ text' = Tail(text) /\ spin' = 0 /\ polled' = FALSE /\ busy' = delay
        /\ line' = IF busy = 0 THEN Append(line, Head(text)) ELSE line
        /\ polled
    BY <1>2 DEF Send
  <2>a. ~polled' /\ polled' \in BOOLEAN
    BY <2>1, Zenon
  <2>2. PortOK'
    BY <1>0, <1>1, <2>1, <2>a DEF PortOK, Timely
  <2>3. Timely => busy = 0
    BY <2>1 DEF PortOK
  <2> QED BY <1>0, <1>1, <2>1, <2>2, <2>3
<1>3. CASE Poll
  <2>1. /\ ~polled /\ line' = line
        /\ busy' = IF busy > 0 THEN busy - 1 ELSE busy
        /\ polled' = (busy = 0)
    BY <1>3 DEF Poll
  <2>2. CASE busy # 0 /\ spin + 1 >= TimeoutLimit
    <3>1. text' = Tail(text) /\ spin' = 0 /\ polled' = FALSE
      BY <1>3, <2>2, Zenon DEF Poll
    <3>2. ~Timely
      BY <1>1, <2>1, <2>2, SerialConstants DEF PortOK, Timely
    <3> QED BY <1>0, <1>1, <2>1, <3>1, <3>2 DEF PortOK
  <2>3. CASE ~(busy # 0 /\ spin + 1 >= TimeoutLimit)
    <3>1. text' = text /\ spin' = IF busy # 0 THEN spin + 1 ELSE spin
      BY <1>3, <2>3 DEF Poll
    <3>2. CASE busy = 0
      <4>1. polled' /\ polled' \in BOOLEAN
        BY <2>1, <3>2, Zenon
      <4>2. busy' = busy /\ spin' = spin
        BY <2>1, <3>1, <3>2
      <4> QED BY <1>0, <1>1, <2>1, <3>1, <3>2, <4>1, <4>2 DEF PortOK, Timely
    <3>3. CASE busy # 0
      <4>1. polled' = FALSE /\ spin' = spin + 1
        BY <2>1, <3>1, <3>3, Zenon
      <4>2. spin' \in Nat
        BY <4>1 DEF PortOK
      <4>3. Timely => busy' = busy - 1 /\ busy \in Nat
        BY <2>1, <3>3 DEF PortOK, Timely
      <4> QED BY <1>0, <1>1, <2>1, <3>1, <3>3, <4>1, <4>2, <4>3 DEF PortOK, Timely
    <3> QED BY <3>2, <3>3
  <2> QED BY <2>2, <2>3
<1> QED BY <1>2, <1>3 DEF serial_putc

\* A pair of pieces as the log has it.
LEMMA PiecesJoin ==
  /\ Cat(<<>>, Entered) = Entered /\ Cat(Entered, IdtLoaded) = AtRemap
  /\ Cat(AtRemap, log_writeln("selftest")) = BeforeHeap
  /\ Cat(BeforeHeap, log_writeln("heap")) = AtSmoke
  /\ Cat(AtSmoke, log_writeln("ping")) = AtEnd
  /\ Cat(AtEnd, log_writeln("triggering")) = AtInt3
  /\ Cat(AtInt3, Handled) = AtReturn
  /\ Cat(AtReturn, log_writeln("returned")) = AtReady
  /\ Cat(BeforeHeap, PanicReport) = BeforeHeap \o PanicReport
<1>1. Cat(<<>>, Entered) = Entered
  BY PieceTypes, CatEnds
<1> QED
  BY <1>1, Zenon DEF Cat, AtRemap, BeforeHeap, AtSmoke, AtEnd, AtInt3, AtReturn, AtReady

\* What can be interrupted has written a beginning of the log.
LEMMA InterruptedBegins ==
  ASSUME OnTrack \/ InBreakpoint, iflag, Timely, PortOK
  PROVE  \E n \in 0..Len(BootLog) : line = SubSeq(BootLog, 1, n)
<1>1. Begins(Cat(line, text))
  BY PiecesBegin DEF OnTrack, InBreakpoint, Written
<1>2. Begins(line)
  BY <1>1, BeginsEarlier DEF Cat, PortOK
<1> QED BY <1>2, BeginsSubSeq DEF PortOK

\* The state the boot loader hands over.
LEMMA InitLInv == Init => LInv
<1> SUFFICES ASSUME Init PROVE LInv
  OBVIOUS
<1>1. text = <<>> /\ line = <<>> /\ spin = 0 /\ polled = FALSE /\ busy \in {0, delay}
  BY DEF Init, SerialInit
<1>2. <<>> \in Chars
  BY DEF Chars
<1>3. ~polled /\ polled \in BOOLEAN
  BY <1>1, Zenon
<1>4. PortOK
  BY <1>1, <1>2, <1>3 DEF PortOK, Timely
<1>5. Written(<<>>)
  BY <1>1, <1>2, CatEnds DEF Written
<1> QED BY <1>4, <1>5 DEF Init, LInv, OnTrack

\* Every step keeps it.
LEMMA NextLInv == KInv /\ LInv /\ [Next]_vars => LInv'
<1> SUFFICES ASSUME KInv, LInv, [Next]_vars PROVE LInv'
  OBVIOUS
<1> USE DEF At, Straight, boot, machine, Go, Quiet, call, uart
<1>0. PortOK /\ (idtr => idt = Gates)
  BY DEF LInv
<1>p. /\ <<>> \in Chars /\ Entered \in Chars /\ IdtLoaded \in Chars /\ PanicReport \in Chars
      /\ Handled \in Chars /\ TrapLog(13) \in Chars
      /\ log_writeln("selftest") \in Chars /\ log_writeln("heap") \in Chars
      /\ log_writeln("ping") \in Chars /\ log_writeln("triggering") \in Chars
      /\ log_writeln("returned") \in Chars /\ log_writeln("ready") \in Chars
  <2>1. <<>> \in Chars
    BY DEF Chars
  <2> QED BY <2>1, PieceTypes, Zenon DEF Char
<1>q. UNCHANGED build => BootLog' = BootLog
  BY DEF BootLog
<1>a. ASSUME UNCHANGED <<text, spin, polled, busy, delay, line>>,
             UNCHANGED <<build, pc, vector, saved, idt, idtr>>, iflag' \in {FALSE, iflag}
      PROVE  LInv'
  <2>1. PortOK' /\ (\A t : Written(t) => Written(t)') /\ Timely' = Timely
    BY <1>0, <1>a, GoStep DEF Timely
  <2>2. BootLog' = BootLog /\ (idtr' => idt' = Gates)
    BY <1>0, <1>a, <1>q
  <2>3. CASE OnTrack
    <3>1. ~iflag => ~iflag'
      BY <1>a, Zenon
    <3>2. Written(BootLog) => Written(BootLog)'
      BY <1>a, <2>2 DEF Written, Timely
    <3> QED BY <1>a, <2>1, <2>2, <2>3, <3>1, <3>2 DEF LInv, OnTrack
  <2>4. CASE InBreakpoint
    BY <1>a, <2>1, <2>2, <2>4 DEF LInv, InBreakpoint
  <2>5. CASE Interrupted
    <3>1. \A n : Report(pc, n)' = Report(pc, n)
      BY <1>a, <2>2 DEF Report
    <3>2. ~iflag'
      BY <1>a, <2>5, Zenon DEF Interrupted
    <3> QED BY <1>a, <2>1, <2>2, <2>5, <3>1, <3>2 DEF LInv, Interrupted
  <2> QED BY <2>3, <2>4, <2>5 DEF LInv
<1>b. ASSUME NEW m, NEW t \in Chars, NEW s \in Chars, text = <<>>, Log(m, t), Written(s)
      PROVE  PortOK' /\ pc' = m /\ Written(Cat(s, t))'
  BY <1>0, <1>b, LogStep DEF Log
<1>c. ASSUME NEW m, Go(m)
      PROVE  PortOK' /\ pc' = m /\ (\A t : Written(t) => Written(t)') /\ Timely' = Timely
  BY <1>0, <1>c, GoStep DEF Timely
<1>1. CASE kmain
  <2>1. /\ pc = "kmain" /\ text = <<>> /\ Log("idt_init", Entered)
        /\ UNCHANGED <<build, saved, idt, idtr>>
    BY <1>1 DEF kmain
  <2>2. saved = <<>> /\ Written(<<>>)
    BY <2>1 DEF LInv, OnTrack, InBreakpoint, Interrupted
  <2>3. PortOK' /\ pc' = "idt_init" /\ Written(Entered)'
    BY <1>b, <1>p, <2>1, <2>2, PiecesJoin
  <2> QED BY <1>0, <2>1, <2>2, <2>3 DEF LInv, OnTrack
<1>2. CASE x86_64_idt_init
  <2>1. /\ pc = "idt_init" /\ text = <<>> /\ Log("remap", IdtLoaded) /\ idt' = Gates
        /\ UNCHANGED <<build, saved>>
    BY <1>2 DEF x86_64_idt_init, Gates
  <2>2. saved = <<>> /\ Written(Entered)
    BY <2>1 DEF LInv, OnTrack, InBreakpoint, Interrupted
  <2>3. PortOK' /\ pc' = "remap" /\ Written(AtRemap)'
    BY <1>b, <1>p, <2>1, <2>2, PiecesJoin
  <2> QED BY <2>1, <2>2, <2>3 DEF LInv, OnTrack
<1>3. CASE InterruptsOn
  <2>1. /\ pc \in {"remap", "mask", "unmask", "pit", "sti"} /\ UNCHANGED <<build, saved, idt, idtr>>
        /\ \E m \in {"mask", "unmask", "pit", "sti", "selftest"} : Go(m)
    BY <1>3 DEF InterruptsOn
  <2>2. saved = <<>> /\ Written(AtRemap)
    BY <2>1 DEF LInv, OnTrack, InBreakpoint, Interrupted
  <2>3. PortOK' /\ pc' \in {"mask", "unmask", "pit", "sti", "selftest"} /\ Written(AtRemap)'
    BY <1>c, <2>1, <2>2
  <2> QED BY <1>0, <2>1, <2>2, <2>3 DEF LInv, OnTrack
<1>4. CASE m4_selftest
  <2>1. /\ pc = "selftest" /\ text = <<>> /\ UNCHANGED <<build, saved, idt, idtr>>
        /\ Log("heap", log_writeln("selftest"))
    <3>1. idtr
      BY <1>4 DEF m4_selftest, KInv, Armed, Early
    <3> QED BY <1>4, <3>1 DEF m4_selftest
  <2>2. saved = <<>> /\ Written(AtRemap)
    BY <2>1 DEF LInv, OnTrack, InBreakpoint, Interrupted
  <2>3. PortOK' /\ pc' = "heap" /\ Written(BeforeHeap)'
    BY <1>b, <1>p, <2>1, <2>2, PiecesJoin, PieceTypes
  <2> QED BY <1>0, <2>1, <2>2, <2>3 DEF LInv, OnTrack
<1>5. CASE m8_heap_bootstrap
  <2>1. /\ pc = "heap" /\ text = <<>> /\ UNCHANGED <<build, saved, idt, idtr>>
        /\ Log("syscall_init", log_writeln("heap")) \/ Go("panic")
    BY <1>5 DEF m8_heap_bootstrap
  <2>2. saved = <<>> /\ Written(BeforeHeap)
    BY <2>1 DEF LInv, OnTrack, InBreakpoint, Interrupted
  <2>3. CASE Log("syscall_init", log_writeln("heap"))
    <3>1. PortOK' /\ pc' = "syscall_init" /\ Written(AtSmoke)'
      BY <1>b, <1>p, <2>1, <2>2, <2>3, PiecesJoin, PieceTypes
    <3> QED BY <1>0, <2>1, <2>2, <3>1 DEF LInv, OnTrack
  <2>4. CASE Go("panic")
    <3>1. PortOK' /\ pc' = "panic" /\ Written(BeforeHeap)'
      BY <1>c, <2>2, <2>4
    <3> QED BY <1>0, <2>1, <2>2, <3>1 DEF LInv, OnTrack
  <2> QED BY <2>1, <2>3, <2>4
<1>6. CASE SyscallSetup
  <2>1. /\ pc \in {"syscall_init", "region"} /\ UNCHANGED <<build, saved, idt, idtr>>
        /\ Go("region") \/ Go("smoke")
    BY <1>6 DEF SyscallSetup
  <2>2. saved = <<>> /\ Written(AtSmoke)
    BY <2>1 DEF LInv, OnTrack, InBreakpoint, Interrupted
  <2>3. PortOK' /\ pc' \in {"region", "smoke"} /\ Written(AtSmoke)'
    BY <1>c, <2>1, <2>2
  <2> QED BY <1>0, <2>1, <2>2, <2>3 DEF LInv, OnTrack
<1>7. CASE m10_syscall_smoke_direct
  <2> DEFINE m == IF build = "breakpoint" THEN "trigger"
                  ELSE IF build = "panic" THEN "panic" ELSE "ready"
  <2>1. /\ pc = "smoke" /\ text = <<>> /\ Log(m, log_writeln("ping"))
        /\ UNCHANGED <<build, saved, idt, idtr>>
    BY <1>7 DEF m10_syscall_smoke_direct
  <2>2. saved = <<>> /\ Written(AtSmoke)
    BY <2>1 DEF LInv, OnTrack, InBreakpoint, Interrupted
  <2>3. PortOK' /\ pc' = m /\ Written(AtEnd)'
    <3> HIDE DEF m
    <3> QED BY <1>b, <1>p, <2>1, <2>2, PiecesJoin, PieceTypes
  <2> QED BY <1>0, <2>1, <2>2, <2>3 DEF LInv, OnTrack
<1>8. CASE x86_64_trigger_breakpoint_for_test
  <2>1. CASE /\ pc = "trigger" /\ text = <<>> /\ Log("int3", log_writeln("triggering"))
             /\ UNCHANGED <<build, saved, idt, idtr>>
    <3>1. saved = <<>> /\ build = "breakpoint" /\ Written(AtEnd)
      BY <2>1 DEF LInv, OnTrack, InBreakpoint, Interrupted
    <3>2. PortOK' /\ pc' = "int3" /\ Written(AtInt3)'
      BY <1>b, <1>p, <2>1, <3>1, PiecesJoin, PieceTypes
    <3> QED BY <1>0, <2>1, <3>1, <3>2 DEF LInv, OnTrack
  <2>2. CASE pc = "int3" /\ text = <<>> /\ Enter(3, "returned")
    <3>1. saved = <<>> /\ build = "breakpoint" /\ Written(AtInt3) /\ idtr
      BY <2>2 DEF LInv, OnTrack, InBreakpoint, Interrupted, KInv, Armed, Early
    <3>2. idt = Gates /\ 3 \in DOMAIN idt
      BY <1>0, <3>1 DEF Gates
    <3>3. PICK f : f = [pc |-> "returned", vector |-> vector, iflag |-> iflag,
                        call |-> <<text, spin, polled>>]
      BY Zenon
    <3>4. /\ pc' = "dispatch" /\ vector' = 3 /\ saved' = <<f>> \o saved
          /\ text' = <<>> /\ spin' = 0 /\ polled' = FALSE
          /\ UNCHANGED <<build, idt, idtr, busy, delay, line>>
      BY <2>2, <3>1, <3>2, <3>3 DEF Enter
    <3>5. saved' = <<f>>
      BY <3>1, <3>4
    <3>6. f.pc = "returned" /\ f.call = <<text, spin, polled>>
      BY <3>3
    <3>7. f.call[1] = <<>> /\ f.call[2] \in Nat /\ f.call[3] = FALSE
      <4>1. polled = FALSE
        BY <1>0, <2>2, Zenon DEF PortOK
      <4> QED BY <1>0, <2>2, <3>6, <4>1 DEF PortOK
    <3>8. PortOK' /\ Written(AtInt3)'
      <4>1. ~polled' /\ polled' \in BOOLEAN
        BY <3>4, Zenon
      <4> QED BY <1>0, <2>2, <3>1, <3>4, <4>1 DEF PortOK, Written, Timely
    <3> QED BY <1>0, <3>1, <3>2, <3>4, <3>5, <3>6, <3>7, <3>8 DEF LInv, InBreakpoint
  <2>3. CASE /\ pc = "returned" /\ text = <<>> /\ Log("ready", log_writeln("returned"))
             /\ UNCHANGED <<build, saved, idt, idtr>>
    <3>1. saved = <<>> /\ build = "breakpoint" /\ Written(AtReturn)
      BY <2>3 DEF LInv, OnTrack, InBreakpoint, Interrupted
    <3>2. PortOK' /\ pc' = "ready" /\ Written(AtReady)'
      BY <1>b, <1>p, <2>3, <3>1, PiecesJoin, PieceTypes
    <3> QED BY <1>0, <2>3, <3>1, <3>2 DEF LInv, OnTrack
  <2> QED BY <1>8, <2>1, <2>2, <2>3 DEF x86_64_trigger_breakpoint_for_test
<1>9. CASE Ready
  <2>1. /\ pc = "ready" /\ text = <<>> /\ Log("halt", log_writeln("ready"))
        /\ UNCHANGED <<build, saved, idt, idtr>>
    BY <1>9 DEF Ready
  <2>2. /\ saved = <<>>
        /\ \/ build = "breakpoint" /\ Written(AtReady)
           \/ build \notin {"breakpoint", "panic"} /\ Written(AtEnd)
    BY <2>1 DEF LInv, OnTrack, InBreakpoint, Interrupted
  <2>3. /\ build = "breakpoint" => Cat(AtReady, log_writeln("ready")) = BootLog
        /\ build \notin {"breakpoint", "panic"} => Cat(AtEnd, log_writeln("ready")) = BootLog
    BY LogEnds, Zenon DEF Cat
  <2>4. PortOK' /\ pc' = "halt" /\ Written(BootLog)'
    BY <1>b, <1>p, <1>q, <2>1, <2>2, <2>3, PieceTypes
  <2> QED BY <1>0, <2>1, <2>2, <2>4 DEF LInv, OnTrack
<1>d. ASSUME NEW m, NEW t \in Chars, text = <<>>, Log(m, t)
      PROVE  /\ PortOK' /\ pc' = m /\ Timely' = Timely
             /\ Cat(line', text') = Cat(Cat(line, text), t)
  <2>1. Cat(line, text) = line
    BY <1>0, <1>d, CatEnds DEF PortOK
  <2>2. text' = t /\ UNCHANGED <<delay, line>>
    BY <1>d DEF Log, Write
  <2> QED BY <1>0, <1>d, <2>1, <2>2, LogStep DEF Log, Timely
<1>10. CASE x86_64_trap_dispatch
  <2>1. /\ pc = "dispatch" /\ text = <<>> /\ UNCHANGED <<build, vector, saved, idt, idtr, iflag>>
    BY <1>10, Zenon DEF x86_64_trap_dispatch
  <2>2. CASE InBreakpoint
    <3>1. Log("iretq", Handled)
      <4>1. vector = 3
        BY <2>2 DEF InBreakpoint
      <4>2. /\ pc' = "iretq" /\ UNCHANGED uart
            /\ Write(TrapLog(vector) \o log_writeln("breakpoint handled"))
        <5>1. vector # PIC_MASTER_OFFSET
          BY <4>1 DEF PIC_MASTER_OFFSET
        <5>2. Log("iretq", TrapLog(vector) \o log_writeln("breakpoint handled"))
          BY <1>10, <4>1, <5>1, Zenon DEF x86_64_trap_dispatch
        <5> QED BY <5>2, Zenon DEF Log
      <4>3. TrapLog(vector) \o log_writeln("breakpoint handled") = Handled
        BY <4>1 DEF Handled
      <4> QED BY <4>2, <4>3, Zenon DEF Log, Write
    <3>2. Written(AtInt3)
      BY <2>1, <2>2 DEF InBreakpoint
    <3>3. PortOK' /\ pc' = "iretq" /\ Written(AtReturn)'
      BY <1>b, <1>p, <2>1, <3>1, <3>2, PiecesJoin, PieceTypes
    <3> QED BY <1>0, <2>1, <2>2, <3>3 DEF LInv, InBreakpoint
  <2>3. CASE Interrupted
    <3>1. Log("panic", TrapLog(13)) /\ ~iflag
      BY <1>10, <2>1, <2>3 DEF x86_64_trap_dispatch, Interrupted, PIC_MASTER_OFFSET
    <3>2. /\ PortOK' /\ pc' = "panic" /\ Timely' = Timely
          /\ Cat(line', text') = Cat(Cat(line, text), TrapLog(13))
      BY <1>d, <1>p, <2>1, <3>1
    <3>3. ASSUME NEW n, Cat(line, text) = Report("dispatch", n)
          PROVE  Cat(line', text') = Report("panic", n)'
      BY <1>q, <2>1, <3>2, <3>3, Zenon DEF Report, Cat
    <3>4. Timely' => \E n \in 0..Len(BootLog') : Cat(line', text') = Report(pc, n)'
      BY <1>q, <2>1, <2>3, <3>2, <3>3 DEF Interrupted
    <3> QED BY <1>0, <2>1, <3>1, <3>2, <3>4 DEF LInv, Interrupted
  <2> QED BY <2>1, <2>2, <2>3 DEF LInv, OnTrack
<1>11. CASE iretq
  <2>1. pc = "iretq" /\ text = <<>> /\ InBreakpoint
    BY <1>11 DEF iretq, LInv, OnTrack, Interrupted
  <2>2. PICK f : /\ saved = <<f>> /\ f.pc = "returned"
                 /\ f.call[1] = <<>> /\ f.call[2] \in Nat /\ f.call[3] = FALSE
    BY <2>1 DEF InBreakpoint
  <2>3. Head(saved) = f /\ Tail(saved) = <<>>
    BY <2>2
  <2>4. /\ pc' = "returned" /\ saved' = <<>> /\ text' = <<>> /\ spin' \in Nat /\ polled' = FALSE
        /\ UNCHANGED <<build, idt, idtr, busy, delay, line>>
    BY <1>11, <2>2, <2>3 DEF iretq
  <2>5. ~polled' /\ polled' \in BOOLEAN
    BY <2>4, Zenon
  <2>6. PortOK' /\ Written(AtReturn)'
    BY <1>0, <2>1, <2>4, <2>5 DEF PortOK, Timely, Written, InBreakpoint
  <2> QED BY <1>0, <2>1, <2>4, <2>6 DEF LInv, OnTrack, InBreakpoint
<1>12. CASE kernel_panic_at
  <2>1. /\ pc = "panic" /\ text = <<>> /\ iflag' = FALSE /\ Log("halt", PanicReport)
        /\ UNCHANGED <<build, vector, saved, idt, idtr>>
    BY <1>12 DEF kernel_panic_at
  <2>2. /\ PortOK' /\ pc' = "halt" /\ Timely' = Timely
        /\ Cat(line', text') = Cat(Cat(line, text), PanicReport)
    BY <1>d, <1>p, <2>1
  <2>3. CASE saved = <<>> /\ Written(BeforeHeap)
    <3>1. Written(BeforeHeap \o PanicReport)'
      BY <2>2, <2>3, PiecesJoin DEF Written
    <3> QED BY <1>0, <2>1, <2>2, <2>3, <3>1 DEF LInv, OnTrack
  <2>4. CASE saved = <<>> /\ build = "panic" /\ Written(AtEnd)
    <3>1. Cat(AtEnd, PanicReport) = BootLog /\ BootLog' = BootLog
      BY <1>q, <2>1, <2>4, LogEnds DEF Cat
    <3>2. Written(BootLog)'
      BY <2>2, <2>4, <3>1 DEF Written
    <3> QED BY <1>0, <2>1, <2>2, <2>4, <3>2 DEF LInv, OnTrack
  <2>5. CASE Interrupted
    <3>1. ASSUME NEW n, Cat(line, text) = Report("panic", n)
          PROVE  Cat(line', text') = Report("halt", n)'
      BY <1>q, <2>1, <2>2, <3>1, Zenon DEF Report, Cat
    <3>2. Timely' => \E n \in 0..Len(BootLog') : Cat(line', text') = Report(pc, n)'
      BY <1>q, <2>1, <2>2, <2>5, <3>1 DEF Interrupted
    <3> QED BY <1>0, <2>1, <2>2, <3>2 DEF LInv, Interrupted
  <2> QED BY <2>1, <2>3, <2>4, <2>5, Zenon DEF LInv, OnTrack, InBreakpoint
<1>13. CASE cpu_halt_forever
  <2>1. /\ pc = "halt" /\ iflag' = FALSE /\ Go("hlt") /\ UNCHANGED <<build, vector, saved, idt, idtr>>
    BY <1>13 DEF cpu_halt_forever
  <2>2. /\ PortOK' /\ pc' = "hlt" /\ (\A t : Written(t) => Written(t)') /\ Timely' = Timely
        /\ Cat(line', text') = Cat(line, text) /\ BootLog' = BootLog
    BY <1>c, <1>q, <2>1
  <2>3. CASE OnTrack
    <3>1. Written(BootLog) => Written(BootLog)'
      BY <2>2 DEF Written
    <3> QED BY <1>0, <2>1, <2>2, <2>3, <3>1 DEF LInv, OnTrack
  <2>4. CASE Interrupted
    <3>1. \A n : Report("hlt", n)' = Report("halt", n)
      BY <2>2 DEF Report
    <3>2. Timely' => \E n \in 0..Len(BootLog') : Cat(line', text') = Report(pc, n)'
      BY <2>1, <2>2, <2>4, <3>1 DEF Interrupted
    <3> QED BY <1>0, <2>1, <2>2, <3>2 DEF LInv, Interrupted
  <2> QED BY <2>1, <2>3, <2>4 DEF LInv, InBreakpoint
<1>14. CASE serial_putc /\ Devices /\ UNCHANGED <<pc, vector, iflag, saved, boot>>
  <2>1. /\ PortOK' /\ (Timely => Cat(line', text') = Cat(line, text)) /\ Timely' = Timely
        /\ UNCHANGED <<build, pc, vector, iflag, saved, idt, idtr>> /\ BootLog' = BootLog
    BY <1>0, <1>q, <1>14, PutcStep
  <2>2. \A t : Written(t) => (Timely' => Cat(line', text') = t)
    BY <2>1 DEF Written
  <2>3. CASE OnTrack
    BY <1>0, <2>1, <2>2, <2>3, Zenon DEF LInv, OnTrack, Written
  <2>4. CASE InBreakpoint
    BY <1>0, <2>1, <2>2, <2>4, Zenon DEF LInv, InBreakpoint, Written
  <2>5. CASE Interrupted
    <3>1. \A n : Report(pc, n)' = Report(pc, n)
      BY <2>1 DEF Report
    <3> QED BY <1>0, <2>1, <2>5, <3>1 DEF LInv, Interrupted
  <2> QED BY <2>3, <2>4, <2>5 DEF LInv
<1>15. CASE Interrupt
  <2>1. PICK l \in Lines : iflag /\ Offered(l) /\ Enter(Vector(l), pc) /\ Acknowledge(l)
    BY <1>15 DEF Interrupt
  <2>2. Armed
    BY <2>1 DEF KInv, Rising
  <2>3. l = 0
    BY <2>1, <2>2, PicConstants DEF Offered, Armed
  <2>4. idt = Gates /\ idtr /\ Vector(l) = 32
    BY <1>0, <2>2, <2>3 DEF Armed, Vector, PIC_MASTER_OFFSET
  <2>5. Vector(l) \notin DOMAIN idt /\ idt[13] = "interrupt"
    BY <2>4 DEF Gates
  <2>6. /\ pc' = "dispatch" /\ vector' = 13 /\ iflag' = (iflag /\ idt[13] = "trap")
        /\ text' = <<>> /\ spin' = 0 /\ polled' = FALSE
        /\ UNCHANGED <<build, idt, idtr, busy, delay, line>>
    BY <2>1, <2>4, <2>5 DEF Enter
  <2>7. ~polled' /\ polled' \in BOOLEAN
    BY <2>6, Zenon
  <2>8. ~iflag'
    BY <2>5, <2>6, Zenon
  <2>9. PortOK' /\ Timely' = Timely /\ BootLog' = BootLog
    BY <1>0, <1>p, <1>q, <2>6, <2>7 DEF PortOK, Timely
  <2>10. Cat(line', text') = line
    BY <1>0, <2>6, CatEnds DEF PortOK
  <2>11. OnTrack \/ InBreakpoint
    BY <2>1 DEF LInv, Interrupted
  <2>12. Timely => \E n \in 0..Len(BootLog) : line = SubSeq(BootLog, 1, n)
    BY <1>0, <2>1, <2>11, InterruptedBegins
  <2>13. Timely' => \E n \in 0..Len(BootLog') : Cat(line', text') = Report(pc, n)'
    BY <2>6, <2>9, <2>10, <2>12 DEF Report
  <2> QED BY <1>0, <2>6, <2>8, <2>9, <2>13 DEF LInv, Interrupted
<1>16. CASE Request
  BY <1>a, <1>16 DEF Request
<1>17. CASE UNCHANGED vars
  BY <1>a, <1>17 DEF vars
<1> QED
  BY <1>1, <1>2, <1>3, <1>4, <1>5, <1>6, <1>7, <1>8, <1>9, <1>10, <1>11, <1>12,
     <1>13, <1>14, <1>15, <1>16, <1>17 DEF Next, Cpu

\* LogComplete: with a transmitter that is ready before serial_putc gives up
\* (serial.c:30) the halted CPU leaves the whole log of its build on the
\* line, or the log up to a failure of the heap or up to an interrupt,
\* followed by one trap and one complete panic report.
THEOREM NothingLost == Spec => []LogComplete
<1>1. KInv /\ LInv => LogComplete
  <2> SUFFICES ASSUME KInv, LInv, pc = "hlt", Timely
               PROVE  \/ line = BootLog
                      \/ line = BeforeHeap \o PanicReport
                      \/ \E n \in 0..Len(BootLog) :
                           line = SubSeq(BootLog, 1, n) \o TrapLog(13) \o PanicReport
    BY Zenon DEF LogComplete, Timely
  <2>1. Cat(line, text) = line
    BY CatEnds DEF KInv, LInv, PortOK
  <2>2. CASE OnTrack
    BY <2>1, <2>2 DEF OnTrack, Written
  <2>3. CASE Interrupted
    BY <2>1, <2>3, Zenon DEF Interrupted, Report
  <2> QED BY <2>2, <2>3, Zenon DEF LInv, InBreakpoint
<1> QED BY <1>1, InitLInv, NextLInv, Invariance, PTL DEF Spec

=============================================================================
