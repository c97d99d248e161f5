-------------------------------- MODULE Entry --------------------------------
(***************************************************************************)
(* The assembly of the kernel, instruction by instruction: the exception   *)
(* stubs with isr_common (isr.S), the stub of int 0x80 (syscall_entry.S)   *)
(* over the system calls, and mcsos_context_switch (context_switch.S).     *)
(*                                                                         *)
(* Threads run code of their own (pc = Run), call mcsos_context_switch on  *)
(* contexts they own, and execute int 0x80; an exception may come at any   *)
(* instruction of theirs, of the switch and of the stub of int 0x80.       *)
(* Memory holds the live words of the stacks and the contexts; what is     *)
(* below a stack pointer is not kept.  Addresses count words of 8 bytes.   *)
(* A C function leaves any value in the registers the caller saves.        *)
(***************************************************************************)
EXTENDS Syscall, Sequences, FiniteSets

CONSTANTS
    Threads,        \* numbers from 1
    Vectors,        \* the exceptions that come at any instruction
    Requests,       \* system calls made: number and first two arguments
    Args            \* the arguments of copies

ASSUME EntryConstants ==
    /\ Threads \subseteq Nat \ {0} /\ 1 \in Threads /\ Vectors \subseteq 0..31
    /\ Requests \subseteq Nat \X Words \X Words /\ Args \subseteq Words
    /\ \A region \in Regions : region.limit <= Cells

VARIABLES
    regs, mem, pc,
    want,           \* what a thread expects to find in the registers kept
                    \* for it, by thread
    trapped,        \* the machine when the exception being handled came
    entered         \* the registers at int 0x80, and the answer due

vars == <<g_ops, g_user_region, ready, effect, regs, mem, pc, want, trapped, entered>>

\* The registers in the order in which isr_common pushes them.
Saved == <<"rax", "rbx", "rcx", "rdx", "rbp", "rdi", "rsi", "r8", "r9", "r10",
           "r11", "r12", "r13", "r14", "r15">>

\* The order in which isr_common takes them back.
Restored == <<"r15", "r14", "r13", "r12", "r11", "r10", "r9", "r8", "rsi", "rdi",
              "rbp", "rdx", "rcx", "rbx", "rax">>

General == {Saved[k] : k \in DOMAIN Saved}

CalleeSaved == {"rbx", "rbp", "r12", "r13", "r14", "r15"}

Preserved == CalleeSaved \cup {"rsp", "rflags"}

Junk == -1
Run == 0
Hlt == -1

-----------------------------------------------------------------------------
(* The code.                                                               *)

Store(r, base, k) == [op |-> "store", r |-> r, base |-> base, k |-> k]

Load(r, base, k) == [op |-> "load", r |-> r, base |-> base, k |-> k]

IsrPopping(list) ==
    << [op |-> "push", list |-> Saved], [op |-> "frame"], [op |-> "x86_64_trap_dispatch"],
       [op |-> "pop", list |-> list], [op |-> "add", n |-> 2], [op |-> "iretq"] >>

\* Mutant: two registers come back swapped.
PopsSwapped == IsrPopping([Restored EXCEPT ![9] = "rdi", ![10] = "rsi"])

isr_common == IsrPopping(Restored)

\* The registers of a system call's number and arguments.
AbiRegs == <<"rax", "rdi", "rsi", "rdx", "r10", "r8", "r9">>

StubWith(args, words) ==
    << [op |-> "sub", n |-> 8] >>
    \o [i \in 1..7 |-> Store(args[i], "rsp", i - 1)]
    \o << [op |-> "zero", k |-> 7], [op |-> "frame"],
          [op |-> "mcsos_syscall_dispatch_frame"], Load("rax", "rsp", 7),
          [op |-> "add", n |-> words], [op |-> "iretq"] >>

\* Mutants: the frame stays on the stack; the fourth argument is in rcx.
FrameKept == StubWith(AbiRegs, 0)

ArgFromRcx == StubWith([AbiRegs EXCEPT ![5] = "rcx"], 8)

x86_64_syscall_int80_stub == StubWith(AbiRegs, 8)

\* The registers of mcsos_context_t in the order of its fields.
Context == <<"rsp", "rbp", "rbx", "r12", "r13", "r14", "r15">>

SwitchLoading(n) ==
    << [op |-> "lea"] >> \o [i \in 1..7 |-> Store(Context[i], "rdi", i - 1)]
    \o << Store("rax", "rdi", 7) >>
    \o [i \in 1..n |-> Load(Context[i], "rsi", i - 1)]
    \o << [op |-> "jmp", base |-> "rsi", k |-> 7], [op |-> "ret"] >>

\* Mutant: the last register is not loaded.
R15NotLoaded == SwitchLoading(6)

mcsos_context_switch == SwitchLoading(7)

Code == isr_common \o x86_64_syscall_int80_stub \o mcsos_context_switch

Int80 == Len(isr_common) + 1

Switch == Int80 + Len(x86_64_syscall_int80_stub)

InTrap == pc \in 1..Len(isr_common)

InSyscall == pc \in Int80..(Switch - 1)

-----------------------------------------------------------------------------
(* The machine.                                                            *)

\* Memory with the words vals pushed below address a, and without the words
\* from a up to b.
Pushed(a, vals) ==
    LET n == Len(vals)
    IN  [x \in DOMAIN mem \cup (a - n)..(a - 1) |->
           IF x \in (a - n)..(a - 1) THEN vals[a - x] ELSE mem[x]]

Freed(a, b) == [x \in DOMAIN mem \ a..(b - 1) |-> mem[x]]

\* A C function keeps the registers the callee saves.
Clobbered == [r \in DOMAIN regs |-> IF r \in General \ CalleeSaved THEN Junk ELSE regs[r]]

\* External: the CPU aligns the stack, saves ss, rsp, rflags, cs and rip,
\* and what else the vector brings, and goes on at l.  A gate that is not a
\* trap gate turns interrupts off.
Vectored(l, at, more, flags) ==
    LET sp == at["rsp"]
        top == sp - (sp % 2)
        vals == <<Junk, sp, at["rflags"], Junk, pc>> \o more
    IN  /\ mem' = Pushed(sp, (IF top = sp THEN <<>> ELSE <<Junk>>) \o vals)
        /\ regs' = [at EXCEPT !["rsp"] = top - Len(vals), !["rflags"] = flags]
        /\ pc' = l

\* What mcsos_syscall_dispatch_frame makes of the frame it is given.
dispatched ==
    LET f == regs["rdi"] IN mcsos_syscall_dispatch(mem[f], mem[f + 1], mem[f + 2])

Execute(i) ==
    LET sp == regs["rsp"]
        Goes(r, m) == regs' = r /\ mem' = m /\ pc' = pc + 1
    IN  CASE i.op = "push" ->
               Goes([regs EXCEPT !["rsp"] = sp - Len(i.list)],
                    Pushed(sp, [k \in DOMAIN i.list |-> regs[i.list[k]]]))
          [] i.op = "pop" ->
               Goes([r \in DOMAIN regs |->
                       IF r = "rsp" THEN sp + Len(i.list)
                       ELSE IF \E k \in DOMAIN i.list : i.list[k] = r
                       THEN mem[sp + (CHOOSE k \in DOMAIN i.list : i.list[k] = r) - 1]
                       ELSE regs[r]],
                    Freed(sp, sp + Len(i.list)))
          [] i.op = "add" -> Goes([regs EXCEPT !["rsp"] = sp + i.n], Freed(sp, sp + i.n))
          [] i.op = "sub" ->
               Goes([regs EXCEPT !["rsp"] = sp - i.n],
                    Pushed(sp, [k \in 1..i.n |->
                                  IF sp - k \in DOMAIN mem THEN mem[sp - k] ELSE Junk]))
          [] i.op = "store" ->
               Goes(regs, [x \in DOMAIN mem \cup {regs[i.base] + i.k} |->
                             IF x = regs[i.base] + i.k THEN regs[i.r] ELSE mem[x]])
          [] i.op = "zero" -> Goes(regs, [mem EXCEPT ![sp + i.k] = 0])
          [] i.op = "load" -> Goes([regs EXCEPT ![i.r] = mem[regs[i.base] + i.k]], mem)
          [] i.op = "frame" -> Goes([regs EXCEPT !["rdi"] = sp], mem)
          [] i.op = "lea" -> Goes([regs EXCEPT !["rax"] = Len(Code)], mem)
          [] i.op = "jmp" ->
               regs' = regs /\ mem' = mem /\ pc' = mem[regs[i.base] + i.k]
          [] i.op = "ret" ->
               /\ regs' = [regs EXCEPT !["rsp"] = sp + 1]
               /\ mem' = Freed(sp, sp + 1) /\ pc' = mem[sp]
          [] i.op = "iretq" ->
               /\ regs' = [regs EXCEPT !["rsp"] = mem[sp + 3], !["rflags"] = mem[sp + 2]]
               /\ mem' = Freed(sp, mem[sp + 3]) /\ pc' = mem[sp]
          [] i.op = "x86_64_trap_dispatch" ->
               /\ regs' = Clobbered /\ mem' = mem
               /\ pc' = IF mem[regs["rdi"] + 15] = 3 THEN pc + 1 ELSE Hlt
          [] i.op = "mcsos_syscall_dispatch_frame" ->
               Goes(Clobbered, [mem EXCEPT ![regs["rdi"] + 7] = dispatched.ret])

Step ==
    /\ pc \in DOMAIN Code
    /\ Execute(Code[pc])
    /\ effect' = IF Code[pc].op = "mcsos_syscall_dispatch_frame"
                 THEN dispatched.effect ELSE Nothing
    /\ trapped' = IF InTrap /\ Code[pc].op = "iretq" THEN <<>> ELSE trapped
    /\ entered' = IF InSyscall /\ Code[pc].op = "iretq" THEN <<>> ELSE entered
    /\ UNCHANGED <<state, want>>

\* Vectors for which the CPU pushes an error code.
HasErrorCode == {8, 10, 11, 12, 13, 14, 17, 21, 29, 30}

\* Mutant: the stub of the page fault pushes an error code of its own.
NoErrButOne == (0..31) \ (HasErrorCode \ {14})

ISR_NOERR == (0..31) \ {8, 10, 11, 12, 13, 14, 17, 21, 29, 30}

\* The CPU pushes an error code, which is 5 here, and the stub what is
\* missing of the frame.
Exception(v) ==
    /\ pc # Hlt /\ ~InTrap
    /\ Vectored(1, regs,
                (IF v \in HasErrorCode THEN <<5>> ELSE <<>>)
                  \o (IF v \in ISR_NOERR THEN <<0>> ELSE <<>>) \o <<v>>,
                IF v = 3 THEN regs["rflags"] ELSE 0)
    /\ trapped' = << [regs |-> regs, mem |-> mem, pc |-> pc, vector |-> v] >>
    /\ effect' = Nothing
    /\ UNCHANGED <<state, want, entered>>

-----------------------------------------------------------------------------
(* The threads.                                                            *)

\* A stack grows down from its base; the context of the thread is above it.
Base(t) == 100 * t + 90

ContextOf(t) == 100 * t + 91

Me == regs["rsp"] \div 100

\* What a thread may hold in its registers: one value for each of them.
Val(t, r, g) == 2000 + 200 * t + 100 * g + (CHOOSE k \in DOMAIN Saved : Saved[k] = r)

Own(t, g) ==
    [r \in General \cup {"rsp", "rflags"} |->
       IF r = "rsp" THEN Base(t) - 1 - g ELSE IF r = "rflags" THEN 1 ELSE Val(t, r, g)]

\* The first thread runs; the others are as mcsos_thread_prepare leaves them.
Init ==
    /\ SyscallInit
    /\ pc = Run /\ trapped = <<>> /\ entered = <<>>
    /\ regs = Own(1, 0)
    /\ mem = [x \in {Base(t) - 1 : t \in Threads} \cup
                    UNION {ContextOf(t)..(ContextOf(t) + 7) : t \in Threads} |->
                IF \E t \in Threads \ {1} : x = ContextOf(t)
                THEN Base(x \div 100) - 1 ELSE 0]
    /\ want = [t \in Threads |->
                 [r \in Preserved |->
                    IF t = 1 \/ r \in {"rsp", "rflags"} THEN Own(t, 0)[r] ELSE 0]]

\* The running thread computes, and pushes or pops a word.
Work(g) ==
    /\ pc = Run
    /\ regs' = Own(Me, g)
    /\ mem' = LET kept == Freed(Base(Me) - 2, Base(Me) - 1)
              IN  [x \in DOMAIN kept \cup (Base(Me) - 1 - g)..(Base(Me) - 1) |->
                     IF x = Base(Me) - 2 THEN 1 ELSE kept[x]]
    /\ want' = [want EXCEPT ![Me] = [r \in Preserved |-> Own(Me, g)[r]]]
    /\ effect' = Nothing
    /\ UNCHANGED <<state, pc, trapped, entered>>

CallSwitch(t) ==
    /\ pc = Run /\ t # Me
    /\ regs' = [regs EXCEPT !["rdi"] = ContextOf(Me), !["rsi"] = ContextOf(t),
                            !["rsp"] = @ - 1]
    /\ mem' = Pushed(regs["rsp"], <<Run>>)
    /\ pc' = Switch
    /\ effect' = Nothing
    /\ UNCHANGED <<state, want, trapped, entered>>

CallInt80(nr, a0, a1) ==
    /\ pc = Run /\ ready
    /\ regs["r10"] # Junk      \* a bound: the other registers are its own
    /\ LET asked == [regs EXCEPT !["rax"] = nr, !["rdi"] = a0, !["rsi"] = a1]
       IN  /\ entered' = << [regs |-> asked,
                             ret |-> mcsos_syscall_dispatch(nr, a0, a1).ret] >>
           /\ Vectored(Int80, asked, <<>>, 0)
    /\ effect' = Nothing
    /\ UNCHANGED <<state, want, trapped>>

\* The kernel sets the system calls up, and copies from user memory.
Setup ==
    /\ pc = Run
    /\ \/ \E ops \in OpsSets : mcsos_syscall_init(ops)
       \/ \E region \in Regions : mcsos_syscall_set_user_region(region)
       \/ /\ effect = Nothing     \* a bound: one look at what was moved
          /\ \/ \E dst, src, len \in Args :
                  dst + len <= Cells /\ mcsos_copy_from_user(dst, src, len)
             \/ /\ ~ready          \* a bound: the loops depend on no set-up
                /\ \E dest, src, count \in 0..Cells :
                     /\ dest + count <= Cells /\ src + count <= Cells
                     /\ ByteLoop(dest, src, count)
    /\ UNCHANGED <<regs, mem, pc, want, trapped, entered>>

\* After a panic the CPU is halted for ever.
Halted == pc = Hlt /\ UNCHANGED vars

\* Every exception comes while a thread runs its own code; a bound: before the
\* system calls are set up, on which no stub depends.
FromRun(v) == pc = Run /\ ~ready /\ effect = Nothing /\ Exception(v)

Next ==
    \/ Step
    \/ \E v \in Vectors : Exception(v)
    \/ \E v \in 0..31 : FromRun(v)
    \/ \E g \in 0..1 : Work(g)
    \/ \E t \in Threads : CallSwitch(t)
    \/ \E q \in Requests : CallInt80(q[1], q[2], q[3])
    \/ Setup
    \/ Halted

Spec == Init /\ [][Next]_vars

-----------------------------------------------------------------------------

\* The types of the state; among them, that every word between the stack
\* pointer and the base of the thread's stack is one that was pushed: no entry
\* path releases more or less than it took (isr.S:57, syscall_entry.S:24).
TypeOK ==
    /\ SyscallTypeOK
    /\ pc \in {Run, Hlt} \cup DOMAIN Code
    /\ DOMAIN regs = General \cup {"rsp", "rflags"}
    /\ \A x \in regs["rsp"]..(Base(Me) - 1) : x \in DOMAIN mem

\* A thread finds its registers, its stack pointer and its interrupt flag as
\* it left them, after a system call and when a switch comes back to it,
\* however many switches, system calls and exceptions came in between
\* (context_switch.S:4-24, syscall_entry.S:10-25).
ThreadsUndisturbed ==
    pc = Run => /\ Me \in Threads
                /\ \A r \in Preserved : regs[r] = want[Me][r]

\* A breakpoint is invisible at whatever instruction it comes, in the middle
\* of a switch or of the stub of int 0x80 too: iretq comes back with every
\* register and every live word of the stack as before (isr.S:22-58).
BreakpointInvisible ==
    [][InTrap /\ ~InTrap' /\ pc' # Hlt =>
         /\ regs' = trapped[1].regs /\ mem' = trapped[1].mem
         /\ pc' = trapped[1].pc /\ trapped[1].vector = 3]_vars

\* The fields of x86_64_trap_frame_t in memory order.
TrapFrame ==
    <<"r15", "r14", "r13", "r12", "r11", "r10", "r9", "r8", "rsi", "rdi", "rbp",
      "rdx", "rcx", "rbx", "rax", "vector", "error_code", "rip", "cs", "rflags">>

\* x86_64_trap_dispatch finds in the frame it is given the registers of the
\* interrupted code under their names, the vector, the error code or 0, and
\* where the exception came (isr.S against idt.h:26-47), on an aligned stack.
FrameFaithful ==
    InTrap /\ Code[pc].op = "x86_64_trap_dispatch" =>
        LET t == trapped[1]
            Field(f) == mem[regs["rdi"] + (CHOOSE k \in DOMAIN TrapFrame : TrapFrame[k] = f) - 1]
        IN  /\ \A r \in General : Field(r) = t.regs[r]
            /\ Field("vector") = t.vector /\ Field("rip") = t.pc
            /\ Field("error_code") = IF t.vector \in HasErrorCode THEN 5 ELSE 0
            /\ Field("rflags") = t.regs["rflags"]
            /\ regs["rsp"] % 2 = 0

\* The system call reaches the dispatcher with its number and its six
\* arguments from the registers of the ABI, and int 0x80 comes back with the
\* answer for them in rax (syscall_entry.S:13-23, syscall.h:28-37).
SyscallAnswered ==
    [][/\ InSyscall /\ Code[pc].op = "mcsos_syscall_dispatch_frame" /\ ~InTrap' =>
            \A k \in 1..7 : mem[regs["rdi"] + k - 1] =
                entered[1].regs[<<"rax", "rdi", "rsi", "rdx", "r10", "r8", "r9">>[k]]
       /\ InSyscall /\ pc' = Run => regs'["rax"] = entered[1].ret]_vars

\* No call goes through a null callback, and every byte a callback or a copy
\* reads for the user lies in the user region, MaxWrite of them at most for
\* a write, also when an exception came between the entry and the check
\* (syscall.c:39-69).
UserBytesOnly ==
    /\ effect.kind # "null"
    /\ effect.reads \subseteq g_user_region.base..(g_user_region.limit - 1)
    /\ effect.fn = "write_serial" => Cardinality(effect.reads) <= MaxWrite

\* memmove moves its bytes however the ranges overlap; memcpy and the copy
\* from the user do when the destination does not start inside the source;
\* memset fills its range; and none of them changes anything else
\* (memory.c:3-41, syscall.c:45).
BytesMoved ==
    LET dest == effect.args[1]  src == effect.args[2]  count == effect.args[3]
    IN  /\ effect.fn = "memmove" => effect.ram = Copied(Distinct, dest, src, count)
        /\ effect.fn \in {"memcpy", "copy"} /\ dest \notin (src + 1)..(src + count - 1) =>
             effect.ram = Copied(Distinct, dest, src, count)
        /\ effect.fn = "memset" => effect.ram = Filled(Distinct, dest, src % 256, count)

============================================================================
