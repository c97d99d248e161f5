------------------------------- MODULE Kernel -------------------------------
(***************************************************************************)
(* The start of the kernel and its traps on one CPU: kmain                 *)
(* (kernel/core/kmain.c), the interrupt descriptor table (idt.c), the trap *)
(* dispatcher (trap.c), the panic path (panic.c) and the halt (cpu.h), on  *)
(* top of the log, the serial port, the interrupt controllers and the      *)
(* timer.                                                                  *)
(*                                                                         *)
(* pc names the next piece of code between two log calls; a log call runs  *)
(* to its end before the next piece does.  An interrupt may come between   *)
(* any two steps, those of a log call included, while iflag is set.        *)
(***************************************************************************)
EXTENDS Serial, Pic

CONSTANT Builds     \* the kernels the Makefile builds

ASSUME KernelConstants == Builds \subseteq {"normal", "breakpoint", "panic"}

VARIABLES
    build,
    pc,
    vector,     \* of the trap the dispatcher works on
    iflag,      \* the interrupt flag of the CPU
    idt,        \* the gates present, by vector
    idtr,       \* the table is loaded
    trap_count,
    syscalls,   \* mcsos_syscall_init and ..._set_user_region are done
    saved       \* what traps interrupted, the innermost first

machine == <<build, idt, idtr>>

boot == <<machine, trap_count, syscalls>>

vars == <<call, log_ready, uart, pic, divisor, g_timer_ticks, pc, vector,
          iflag, saved, boot>>

\* The boot loader hands over with interrupts off: kmain executes no cli before
\* the IDT is loaded (kmain.c:85-97) and relies on it.
Init ==
    /\ SerialInit /\ PicInit
    /\ build \in Builds
    /\ pc = "kmain" /\ vector = 0 /\ saved = <<>>
    /\ iflag = FALSE /\ idt = [v \in {} |-> "none"] /\ idtr = FALSE
    /\ trap_count = 0 /\ syscalls = {}

\* The code at l runs, and goes on at m with the log call t.
At(l) == pc = l /\ text = <<>>

Log(m, t) == pc' = m /\ Write(t) /\ UNCHANGED uart

Go(m) == pc' = m /\ Quiet /\ UNCHANGED uart

Devices == UNCHANGED <<pic, divisor, g_timer_ticks>>

Straight == UNCHANGED <<vector, saved>>

-----------------------------------------------------------------------------
(* Traps.                                                                  *)

\* The CPU takes trap v and will resume at l.
\* A vector without a gate is a general protection fault, a fault without a
\* table resets the machine.  An interrupt gate clears the interrupt flag.
Enter(v, l) ==
    LET w == IF v \in DOMAIN idt THEN v ELSE 13
    IN  /\ IF idtr
           THEN /\ pc' = "dispatch" /\ vector' = w
                /\ iflag' = (iflag /\ idt[w] = "trap")
                /\ saved' = <<[pc |-> l, vector |-> vector, iflag |-> iflag,
                               call |-> call]>> \o saved
                /\ text' = <<>> /\ spin' = 0 /\ polled' = FALSE
           ELSE pc' = "reset" /\ UNCHANGED <<vector, iflag, saved, call>>
        /\ UNCHANGED <<boot, log_ready, uart>>

Interrupt ==
    \E l \in Lines :
        /\ iflag /\ Offered(l)
        /\ Enter(Vector(l), pc) /\ Acknowledge(l)

trap_name(v) ==
    CASE v = 3 -> "#BP" [] v = 13 -> "#GP" [] v \in (0..31) \ {3, 13} -> "exception"
      [] OTHER -> "external-or-user-defined-interrupt"

TrapLog(v) == log_writeln(trap_name(v)) \o log_key_value_hex64("trap_vector")

x86_64_trap_dispatch ==
    /\ At("dispatch")
    /\ trap_count' = trap_count + 1
    /\ IF vector = PIC_MASTER_OFFSET
       THEN /\ timer_on_irq0 /\ pic_send_eoi(0) /\ UNCHANGED divisor
            /\ Go("iretq")
       ELSE /\ Devices
            /\ IF vector = 3
               THEN Log("iretq", TrapLog(vector) \o log_writeln("breakpoint handled"))
               ELSE Log("panic", TrapLog(vector))
    /\ Straight /\ UNCHANGED <<machine, syscalls, iflag>>

iretq ==
    /\ At("iretq") /\ saved # <<>>
    /\ LET s == Head(saved)
       IN  /\ pc' = s.pc /\ vector' = s.vector /\ iflag' = s.iflag
           /\ text' = s.call[1] /\ spin' = s.call[2] /\ polled' = s.call[3]
    /\ saved' = Tail(saved)
    /\ Devices /\ UNCHANGED <<boot, log_ready, uart>>

PanicReport ==
    log_writeln("MCSOS KERNEL PANIC") \o log_key_value_hex64("panic_code")
        \o log_writeln("state=halted")

\* Mutant: the interrupts stay on while the report is written.
PanicWithInterrupts ==
    /\ At("panic")
    /\ iflag' = iflag
    /\ Log("halt", PanicReport)
    /\ Devices /\ Straight /\ UNCHANGED boot

kernel_panic_at ==
    /\ At("panic")
    /\ iflag' = FALSE
    /\ Log("halt", PanicReport)
    /\ Devices /\ Straight /\ UNCHANGED boot

\* Mutant: the CPU is halted with interrupts on.
HaltWithInterrupts ==
    /\ At("halt")
    /\ Go("hlt")
    /\ Devices /\ Straight /\ UNCHANGED <<boot, iflag>>

\* hlt again and again: the CPU stays at "hlt" unless an interrupt comes.
cpu_halt_forever ==
    /\ At("halt")
    /\ iflag' = FALSE
    /\ Go("hlt")
    /\ Devices /\ Straight /\ UNCHANGED boot

-----------------------------------------------------------------------------
(* kmain.                                                                  *)

Entered ==
    log_writeln("kernel entered") \o log_key_value_hex64("kernel_start")
        \o log_key_value_hex64("rflags_before_idt")

kmain ==
    /\ At("kmain")
    /\ Log("idt_init", Entered)
    /\ Devices /\ Straight /\ UNCHANGED <<boot, iflag>>

IdtLoaded == log_key_value_hex64("idt_base") \o log_writeln("IDT loaded")

x86_64_idt_init ==
    /\ At("idt_init")
    /\ idt' = [v \in 0..31 \cup {128} |-> IF v = 3 THEN "trap" ELSE "interrupt"]
    /\ idtr' = TRUE
    /\ Log("remap", IdtLoaded)
    /\ Devices /\ Straight /\ UNCHANGED <<build, trap_count, syscalls, iflag>>

\* pic_remap, pic_mask_all, pic_unmask_irq(0), pit_configure_hz(100), sti.
InterruptsOn ==
    /\ \/ At("remap") /\ pic_remap(PIC_MASTER_OFFSET, PIC_SLAVE_OFFSET) /\ Go("mask")
       \/ At("mask") /\ pic_mask_all /\ Go("unmask")
       \/ At("unmask") /\ pic_unmask_irq(0) /\ Go("pit")
       \/ At("pit") /\ pit_configure_hz(100) /\ Go("sti")
       \/ At("sti") /\ Go("selftest") /\ Devices
    /\ iflag' = (pc = "sti")
    /\ Straight /\ UNCHANGED boot

m4_selftest ==
    /\ At("selftest")
    /\ IF idtr THEN Log("heap", log_writeln("selftest")) ELSE Go("panic")
    /\ Devices /\ Straight /\ UNCHANGED <<boot, iflag>>

\* Each of the three calls of the heap may fail.
m8_heap_bootstrap ==
    /\ At("heap")
    /\ \/ Log("syscall_init", log_writeln("heap"))
       \/ Go("panic")
    /\ Devices /\ Straight /\ UNCHANGED <<boot, iflag>>

SyscallSetup ==
    /\ \/ At("syscall_init") /\ syscalls' = syscalls \cup {"ops"} /\ Go("region")
       \/ At("region") /\ syscalls' = syscalls \cup {"region"} /\ Go("smoke")
    /\ Devices /\ Straight /\ UNCHANGED <<machine, trap_count, iflag>>

\* sys_ping answers what the test expects whatever is installed, so that the
\* panic of the test is never reached.
m10_syscall_smoke_direct ==
    /\ At("smoke")
    /\ Log(IF build = "breakpoint" THEN "trigger"
           ELSE IF build = "panic" THEN "panic" ELSE "ready",
           log_writeln("ping"))
    /\ Devices /\ Straight /\ UNCHANGED <<boot, iflag>>

x86_64_trigger_breakpoint_for_test ==
    /\ Devices
    /\ \/ /\ At("trigger") /\ Log("int3", log_writeln("triggering"))
          /\ Straight /\ UNCHANGED <<boot, iflag>>
       \/ At("int3") /\ Enter(3, "returned")
       \/ /\ At("returned") /\ Log("ready", log_writeln("returned"))
          /\ Straight /\ UNCHANGED <<boot, iflag>>

Ready ==
    /\ At("ready")
    /\ Log("halt", log_writeln("ready"))
    /\ Devices /\ Straight /\ UNCHANGED <<boot, iflag>>

-----------------------------------------------------------------------------

Cpu ==
    \/ kmain \/ x86_64_idt_init \/ InterruptsOn \/ m4_selftest
    \/ m8_heap_bootstrap \/ SyscallSetup \/ m10_syscall_smoke_direct
    \/ x86_64_trigger_breakpoint_for_test \/ Ready
    \/ x86_64_trap_dispatch \/ iretq \/ kernel_panic_at \/ cpu_halt_forever
    \/ serial_putc /\ Devices /\ UNCHANGED <<pc, vector, iflag, saved, boot>>

Request ==
    /\ \E l \in Lines : Raise(l)
    /\ UNCHANGED <<call, log_ready, uart, pc, vector, iflag, saved, boot>>

Next == Cpu \/ Interrupt \/ Request

\* The CPU runs; no device has to do anything.
Spec == Init /\ [][Next]_vars /\ WF_vars(Cpu \/ Interrupt)

-----------------------------------------------------------------------------

\* Whatever firmware left in the controllers, the only interrupt the kernel
\* ever takes is the timer's, at PIC_MASTER_OFFSET, and never before the
\* table is loaded (the order of kmain.c:97-102).
OnlyTimerInterrupts ==
    /\ pc # "reset"
    /\ pic.isr \subseteq {0}
    /\ pic.isr # {} => pic.master = PIC_MASTER_OFFSET

\* What kmain writes before it halts or panics on purpose, and before a
\* failure of the heap.
BeforeHeap == Entered \o IdtLoaded \o log_writeln("selftest")

BootLog ==
    BeforeHeap \o log_writeln("heap") \o log_writeln("ping")
        \o (IF build = "breakpoint"
            THEN log_writeln("triggering") \o TrapLog(3)
                   \o log_writeln("breakpoint handled") \o log_writeln("returned")
            ELSE <<>>)
        \o (IF build = "panic" THEN PanicReport ELSE log_writeln("ready"))

\* With a transmitter that is ready before serial_putc gives up, nothing is
\* lost, doubled or mixed up on the serial line, whenever interrupts come:
\* when the CPU has halted the line shows the whole log of its build, or
\* the log up to a failure of the heap or up to an interrupt, and then one
\* trap (for the interrupt) and one complete panic report.
LogComplete ==
    pc = "hlt" /\ delay \in 0..(TimeoutLimit - 1) =>
        \/ line = BootLog
        \/ line = BeforeHeap \o PanicReport
        \/ \E n \in 0..Len(BootLog) :
             line = SubSeq(BootLog, 1, n) \o TrapLog(13) \o PanicReport

\* A CPU that has halted, after kmain or after a panic, never does anything
\* again: cpu_halt_forever turns the interrupts off first (cpu.h:28).
HaltIsFinal == [][pc = "hlt" => UNCHANGED <<pc, line, trap_count, g_timer_ticks>>]_vars

\* The CPU comes to its halt whatever the serial port does: the wait of
\* serial_putc is bounded (serial.c:30), in the panic path too.
Halts == <>(pc = "hlt")

\* IRQ0 is not treated as a fatal exception: no panic while it is in service
\* (the branch of trap.c:70, which no gate of idt.c:41-58 leads to).
TimerNotFatal == 0 \in pic.isr => pc \notin {"panic", "halt", "hlt"}

============================================================================
