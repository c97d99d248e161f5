---------------------------- MODULE ThreadStack ----------------------------
(***************************************************************************)
(* The stack arithmetic of mcsos_thread_prepare: which [base, base + size) *)
(* it accepts and where it puts the first stack pointer.  Additions are    *)
(* uintptr_t additions, so they wrap at WordMod.                           *)
(***************************************************************************)
EXTENDS Integers

CONSTANTS
    WordMod,        \* 2^64: addresses are uintptr_t
    MinStack,       \* MCSOS_MIN_KERNEL_STACK
    StackAlign,     \* MCSOS_STACK_ALIGN
    StackMargin,    \* the 128 bytes prepare insists on above the base
    SlotSize        \* sizeof(uint64_t), the zero return slot

ASSUME StackConstants ==
    /\ WordMod \in Nat \ {0} /\ MinStack \in Nat \ {0} /\ StackMargin \in Nat
    /\ StackAlign \in Nat \ {0} /\ SlotSize \in Nat
    /\ SlotSize <= StackMargin
    /\ StackMargin <= MinStack

Word == 0..(WordMod - 1)

align_down_uintptr(value, alignment) == value - (value % alignment)

\* Mutant: the addition is not checked for wrap-around.
StackAcceptedWrap(base, size) ==
    LET high == (base + size) % WordMod
    IN  /\ size >= MinStack
        /\ align_down_uintptr(high, StackAlign)
             > (base + StackMargin) % WordMod

StackAccepted(base, size) ==
    LET high == (base + size) % WordMod
    IN  /\ size >= MinStack
        /\ high > base
        /\ align_down_uintptr(high, StackAlign)
             > (base + StackMargin) % WordMod

InitialRsp(base, size) ==
    align_down_uintptr((base + size) % WordMod, StackAlign) - SlotSize

============================================================================
