------------------------------- MODULE Syscall -------------------------------
(***************************************************************************)
(* The system calls (kernel/syscall/syscall.c): the callbacks installed,   *)
(* the user region, the dispatcher with its handlers, and the copy from    *)
(* user memory.  Addresses and lengths are words modulo WordMod.           *)
(***************************************************************************)
EXTENDS Memory

CONSTANTS
    WordMod,        \* 2^64
    MaxWrite,       \* the longest write, 4096
    Regions,        \* the user regions set
    OpsSets         \* the callbacks given to mcsos_syscall_init

Words == 0..(WordMod - 1)

Callbacks == {"get_ticks", "yield_current", "exit_current", "write_serial"}

ASSUME SyscallConstants ==
    /\ WordMod \in Nat \ {0} /\ MaxWrite \in Nat
    /\ Regions \subseteq [base : Words, limit : Words]
    /\ OpsSets \subseteq SUBSET Callbacks

VARIABLES
    g_ops,          \* "null", "default" or "given", by callback
    g_user_region,
    ready,          \* mcsos_syscall_init has been called
    effect          \* what the last step did: the callback it made, the
                    \* user bytes read, and the bytes a loop has moved

state == <<g_ops, g_user_region, ready>>

MCSOS_OK == 0
MCSOS_EINVAL == -22
MCSOS_ENOSYS == -38
MCSOS_EFAULT == -14
MCSOS_EBUSY == -16
MCSOS_SYS_MAX == 5
PING == 638910986       \* 0x2605020A
Ticks == 7              \* external: what the given get_ticks answers

Nothing == [fn |-> "none", kind |-> "none", reads |-> {}, ram |-> Distinct,
            args |-> <<0, 0, 0>>, ret |-> MCSOS_OK]

SyscallInit ==
    /\ g_ops = [f \in Callbacks |-> "null"]
    /\ g_user_region = [base |-> 0, limit |-> 0]
    /\ ready = FALSE /\ effect = Nothing

\* Mutant: nothing stands in for a write_serial that is not given.
InitNoDefault(ops) ==
    /\ g_ops' = [f \in Callbacks |-> IF f \in ops THEN "given" ELSE "null"]
    /\ ready' = TRUE /\ effect' = Nothing
    /\ UNCHANGED g_user_region

mcsos_syscall_init(ops) ==
    /\ g_ops' = [f \in Callbacks |->
                   IF f \in ops THEN "given"
                   ELSE IF f = "write_serial" THEN "default" ELSE "null"]
    /\ ready' = TRUE /\ effect' = Nothing
    /\ UNCHANGED g_user_region

mcsos_syscall_set_user_region(region) ==
    /\ g_user_region' = region
    /\ effect' = Nothing
    /\ UNCHANGED <<g_ops, ready>>

\* Mutant: the end of the range is compared before it can wrap.
CheckNoWrap(addr, len) ==
    \/ len = 0
    \/ LET last == (addr + len - 1) % WordMod
       IN  /\ g_user_region.base # 0 /\ g_user_region.limit > g_user_region.base
           /\ addr >= g_user_region.base /\ addr <= g_user_region.limit
           /\ last < g_user_region.limit

mcsos_user_check_range(addr, len) ==
    \/ len = 0
    \/ LET last == (addr + len - 1) % WordMod
       IN  /\ g_user_region.base # 0 /\ g_user_region.limit > g_user_region.base
           /\ addr >= g_user_region.base /\ addr <= g_user_region.limit
           /\ last >= addr /\ last < g_user_region.limit

\* The answer of a handler, and its callback with the user bytes it reads.
Answer(ret) == [ret |-> ret, effect |-> Nothing]

Callback(f, ret, reads) ==
    [ret |-> ret, effect |-> [Nothing EXCEPT !.fn = f, !.kind = g_ops[f],
                                !.reads = IF g_ops[f] = "given" THEN reads ELSE {}]]

IfInstalled(f, ret) ==
    IF g_ops[f] = "null" THEN Answer(MCSOS_EBUSY) ELSE Callback(f, ret, {})

sys_write_serial(ptr, len) ==
    IF ptr = 0 \/ len > MaxWrite THEN Answer(MCSOS_EINVAL)
    ELSE IF ~mcsos_user_check_range(ptr, len) THEN Answer(MCSOS_EFAULT)
    ELSE Callback("write_serial", len, ptr..(ptr + len - 1))

mcsos_syscall_dispatch(nr, arg0, arg1) ==
    IF nr >= MCSOS_SYS_MAX THEN Answer(MCSOS_ENOSYS)
    ELSE CASE nr = 0 -> Answer(PING)
           [] nr = 1 -> IfInstalled("get_ticks", Ticks)
           [] nr = 2 -> sys_write_serial(arg0, arg1)
           [] nr = 3 -> IfInstalled("yield_current", MCSOS_OK)
           [] nr = 4 -> IfInstalled("exit_current", MCSOS_OK)
           [] OTHER -> Answer(MCSOS_ENOSYS)      \* fn == 0

\* A loop f moves bytes of memory from its second argument to its first.
Moves(f, ram, args) == [Nothing EXCEPT !.fn = f, !.ram = ram, !.args = args]

mcsos_copy_from_user(dst, src, len) ==
    LET ret == IF len = 0 THEN MCSOS_OK
               ELSE IF dst = 0 \/ src = 0 THEN MCSOS_EINVAL
               ELSE IF ~mcsos_user_check_range(src, len) THEN MCSOS_EFAULT ELSE MCSOS_OK
        moved == IF ret = MCSOS_OK /\ len # 0
                 THEN Moves("copy", memcpy(Distinct, dst, src, len), <<dst, src, len>>)
                 ELSE Nothing
        from == moved.args[2]
    IN  /\ effect' = [moved EXCEPT !.ret = ret, !.reads = from..(from + moved.args[3] - 1)]
        /\ UNCHANGED state

\* The loops of memory.c, which read and write no state of this module.
ByteLoop(dest, src, count) ==
    LET args == <<dest, src, count>>
    IN  /\ \/ effect' = Moves("memmove", memmove(Distinct, dest, src, count), args)
           \/ effect' = Moves("memcpy", memcpy(Distinct, dest, src, count), args)
           \/ effect' = Moves("memset", memset(Distinct, dest, 256 + src, count), args)
        /\ UNCHANGED state

-----------------------------------------------------------------------------

SyscallTypeOK ==
    /\ \A f \in Callbacks : g_ops[f] \in {"null", "default", "given"}
    /\ g_user_region \in [base : Words, limit : Words]
    /\ ready \in BOOLEAN

\* The reference: every byte is in the region.
InUserRegion(addr, len) ==
    \/ len = 0
    \/ /\ g_user_region.base # 0
       /\ \A i \in 0..(len - 1) : addr + i \in g_user_region.base..(g_user_region.limit - 1)

\* A range passes the check exactly when it is empty or every byte of it
\* lies in a user region that exists, whatever the sum of its start and its
\* length wraps to (syscall.c:28-37).
UserRangeExact ==
    \A addr, len \in Words : mcsos_user_check_range(addr, len) <=> InUserRegion(addr, len)

============================================================================
