------------------------------ MODULE VMMProofs ------------------------------
(***************************************************************************)
(* Proofs about VMM, for page tables, RAM and address spaces of any size.  *)
(*                                                                         *)
(* vmm_query_page and the CPU's walk are nested functions of memory.  They *)
(* are first shown to follow the links of a tree (At1 to At4, Leaf); two   *)
(* pages meet in a table only where their indices agree (WalksMeet), so a  *)
(* write to one entry of a page table changes one page (LeafWritten) and   *)
(* linking a clear table changes none (WalksGrow).  The invariant says     *)
(* that the tables form such a tree in frames of their own.                *)
(***************************************************************************)
EXTENDS VMM, TLAPS

Indices == 0..(Entries - 1)

\* Entry i of table a links the table in frame b.
IsLink(m, a, i, b) ==
    Present(m[a][i]) /\ ~Huge(m[a][i]) /\ m[a][i].addr \div PageSize = b

\* The walk for v under the root r, through frames of S only, is at frame t
\* when it comes to the level: the CPU walks in Frames, vmm.c in Reach.
At1(m, r, S, v, t) == t \in S /\ t = r

At2(m, r, S, v, t) ==
    t \in S /\ \E a \in S : At1(m, r, S, v, a) /\ IsLink(m, a, Index(v, 1), t)

At3(m, r, S, v, t) ==
    t \in S /\ \E a \in S : At2(m, r, S, v, a) /\ IsLink(m, a, Index(v, 2), t)

At4(m, r, S, v, t) ==
    t \in S /\ \E a \in S : At3(m, r, S, v, a) /\ IsLink(m, a, Index(v, 3), t)

At(m, r, S, v, level, t) ==
    \/ level = 1 /\ At1(m, r, S, v, t)
    \/ level = 2 /\ At2(m, r, S, v, t)
    \/ level = 3 /\ At3(m, r, S, v, t)
    \/ level = 4 /\ At4(m, r, S, v, t)

\* That walk ends at the present entry e.
Leaf(m, r, S, v, e) ==
    \E t \in S : At4(m, r, S, v, t) /\ e = m[t][Index(v, 4)] /\ Present(e)

\* The cached translation x leads where the entry e does.  It has the bits of e
\* but for those that an upper level has withheld, or the execution it forbids.
Within(x, e) ==
    /\ x.addr = e.addr
    /\ x.bits \ {"NO_EXECUTE"} \subseteq e.bits /\ e.bits \ Granted \subseteq x.bits

Backed(m, r, x) ==
    \E e \in Entry : Leaf(m, r, Reach, x.vaddr, e) /\ Within(x, e)

\* The tables under r, level by level.
Tier2(m, r) == Below(m, {r})
Tier3(m, r) == Below(m, Tier2(m, r))
Tier4(m, r) == Below(m, Tier3(m, r))

Tables(m, r) == Tier2(m, r) \cup Tier3(m, r) \cup Tier4(m, r)

\* They are frames, and none has two links to it.
Tree(m, r) ==
    /\ m \in [Frames -> Table] /\ r \in Frames
    /\ Tables(m, r) \subseteq Frames /\ r \notin Tables(m, r)
    /\ \A k, l \in TreeLinks(m, r) : Leads(m, k) = Leads(m, l) => k = l

-----------------------------------------------------------------------------
(* The inductive invariant.                                                 *)

Root == space.root_paddr \div PageSize

Fresh == IF call.op = "link" THEN {call.fresh} ELSE {}

Safe(paddr) == paddr \div PageSize \in Frames => paddr \div PageSize \in data

TypeInv ==
    /\ space \in [root_paddr : Nat, alloc_frame : BOOLEAN, free_frame : BOOLEAN,
                  phys_to_virt : BOOLEAN]
    /\ mem \in [Frames -> Table]
    /\ pool \subseteq Pool /\ data \subseteq Pool /\ pool \cap data = {}
    /\ call.op \in {"none", "map", "link", "unmap"}
    /\ call.op = "none" => call = None

\* Before vmm_space_init has succeeded.
Unready ==
    /\ mem \in BootTables /\ call = None /\ tlb = {}
    /\ pool \cup data = Pool

\* The frames, and the tables under the root.
FramesInv ==
    /\ space.root_paddr % PageSize = 0 /\ Root \notin Pool
    /\ Tree(mem, Root)
    /\ (pool \cup data) \cap (Tables(mem, Root) \cup Fresh) = {}
    /\ Fresh \cap Tables(mem, Root) = {}
    /\ Pool \ (pool \cup data \cup Tables(mem, Root) \cup Fresh)
         \subseteq IF space.free_frame THEN {} ELSE Pool \ Reach

\* The running vmm_map_page has walked to its table, and what it is about to
\* write is its caller's.
CallInv ==
    /\ call.op \in {"map", "link"} =>
         /\ call = [op |-> call.op, vaddr |-> call.vaddr, paddr |-> call.paddr,
                    flags |-> call.flags, level |-> call.level,
                    table |-> call.table, fresh |-> call.fresh]
         /\ call.vaddr \in PageAddresses
         /\ call.paddr \in Nat /\ call.paddr % PageSize = 0
         /\ call.flags \in SUBSET Bits
         /\ Safe(Masked(call.paddr))
         /\ call.level \in 1..4
         /\ At(mem, Root, Reach, call.vaddr, call.level, call.table)
    /\ call.op = "link" =>
         /\ call.level < 4 /\ ~Present(Slot)
         /\ call.fresh \in Pool \cap Reach
         /\ mem[call.fresh] = vmm_zero_page
    /\ call.op = "unmap" => 
         /\ call.vaddr \in PageAddresses
         /\ \A e \in Entry : ~Leaf(mem, Root, Reach, call.vaddr, e)

\* What the CPU can find is what vmm.c finds, it is safe, and what the CPU
\* has kept is what it would still find or is about to be invalidated.
LeafInv ==
    /\ \A v \in PageAddresses, e \in Entry :
         /\ Leaf(mem, Root, Frames, v, e) => Leaf(mem, Root, Reach, v, e)
         /\ Leaf(mem, Root, Reach, v, e) => Safe(e.addr)
    /\ \A x \in tlb :
         /\ x \in [vaddr : PageAddresses, addr : Nat, bits : SUBSET Bits]
         /\ Safe(x.addr)
         /\ \/ call.op = "unmap" /\ call.vaddr = x.vaddr
            \/ Backed(mem, Root, x)

IInv ==
    /\ TypeInv
    /\ ~space.phys_to_virt => Unready
    /\ space.phys_to_virt => FramesInv /\ CallInv /\ LeafInv

-----------------------------------------------------------------------------
(* Addresses.                                                               *)

\* Division has one quotient.
LEMMA DivUnique ==
    ASSUME NEW x \in Nat, NEW d \in Nat \ {0}, NEW q \in Nat, NEW r \in Nat,
           x = d * q + r, r < d
    PROVE  x \div d = q /\ x % d = r
<1> DEFINE p == x \div d
           s == x % d
<1>1. p \in Int /\ s \in 0..(d - 1) /\ x = d * p + s
  OBVIOUS
<1> HIDE DEF p, s
<1>2. ~(p < q)
  <2> SUFFICES ASSUME p < q PROVE FALSE
    OBVIOUS
  <2>1. q = p + 1 + (q - p - 1) /\ q - p - 1 \in Nat
    BY <1>1
  <2>2. d * q = d * p + d + d * (q - p - 1)
    BY <2>1, <1>1
  <2>3. d * (q - p - 1) >= 0
    BY <2>1
  <2> QED BY <1>1, <2>2, <2>3
<1>3. ~(q < p)
  <2> SUFFICES ASSUME q < p PROVE FALSE
    OBVIOUS
  <2>1. p = q + 1 + (p - q - 1) /\ p - q - 1 \in Nat
    BY <1>1
  <2>2. d * p = d * q + d + d * (p - q - 1)
    BY <2>1, <1>1
  <2>3. d * (p - q - 1) >= 0
    BY <2>1
  <2> QED BY <1>1, <2>2, <2>3
<1>4. p = q
  BY <1>1, <1>2, <1>3
<1>5. s = r
  BY <1>1, <1>4
<1> QED BY <1>4, <1>5 DEF p, s

\* What division leaves, for numbers that are not negative.
LEMMA DivMod ==
    ASSUME NEW x \in Nat, NEW d \in Nat \ {0}
    PROVE  /\ x \div d \in Nat /\ x % d \in 0..(d - 1)
           /\ x = d * (x \div d) + (x % d)
<1> DEFINE q == x \div d
           r == x % d
<1>1. q \in Int /\ r \in 0..(d - 1) /\ x = d * q + r
  OBVIOUS
<1>2. q >= 0
  <2> HIDE DEF q, r
  <2> SUFFICES ASSUME q < 0 PROVE FALSE
    BY <1>1
  <2>1. q = -1 - (-1 - q) /\ -1 - q \in Nat
    BY <1>1
  <2>2. d * q = -d - d * (-1 - q)
    BY <2>1, <1>1
  <2>3. d * (-1 - q) >= 0
    BY <2>1
  <2> QED BY <1>1, <2>2, <2>3
<1> QED BY <1>1, <1>2

\* Dividing by a product is dividing twice.
LEMMA DivTwice ==
    ASSUME NEW x \in Nat, NEW b \in Nat \ {0}, NEW c \in Nat \ {0}
    PROVE  x \div (b * c) = (x \div b) \div c
<1> DEFINE q == x \div b
           r == x % b
           s == q \div c
           u == q % c
<1>1. q \in Nat /\ r \in 0..(b - 1) /\ x = b * q + r
  BY DivMod, Zenon
<1>2. s \in Nat /\ u \in 0..(c - 1) /\ q = c * s + u
  <2> HIDE DEF q
  <2> QED BY <1>1, DivMod, Zenon
<1> HIDE DEF q, r, s, u
<1>3. b * c \in Nat \ {0}
  BY SMT
<1>4. b * u + r \in Nat /\ b * u + r < b * c
  <2>1. c - 1 - u \in Nat
    BY <1>2
  <2>2. b * (c - 1 - u) >= 0 /\ b * u >= 0
    BY <2>1, <1>2, SMT
  <2>3. b * c = b * (c - 1 - u) + b * u + b
    BY <1>2, SMT
  <2>4. b * u \in Nat
    BY <2>2, <1>2
  <2>5. b * (c - 1 - u) \in Nat /\ b * c \in Nat
    BY <2>2, <2>1, <1>3
  <2> QED BY <2>2, <2>3, <2>4, <2>5, <1>1
<1>5. x = (b * c) * s + (b * u + r)
  <2>1. b * q = b * (c * s) + b * u
    BY <1>2
  <2>2. b * (c * s) = (b * c) * s
    BY <1>2
  <2>3. (b * c) * s \in Int /\ b * u \in Int
    BY <1>2
  <2> QED BY <1>1, <2>1, <2>2, <2>3
<1>6. x \div (b * c) = s
  <2> DEFINE d == b * c
             e == b * u + r
  <2>1. d \in Nat \ {0} /\ e \in Nat /\ e < d /\ x = d * s + e
    BY <1>3, <1>4, <1>5
  <2>2. x \div d = s
    <3> HIDE DEF d, e
    <3> QED BY <2>1, <1>2, DivUnique
  <2> QED BY <2>2
<1> QED BY <1>6 DEF s, q

\* The four indices of an address and what is above them are its digits.
Digit0(v) == v \div PageSize
Digit1(v) == Digit0(v) \div Entries
Digit2(v) == Digit1(v) \div Entries
Digit3(v) == Digit2(v) \div Entries
Digit4(v) == Digit3(v) \div Entries

\* The shifts of idx_pml4 to idx_pt and the masks behind them take an address
\* apart, digit by digit (vmm.c:19-22).
LEMMA IndexDigits ==
    ASSUME NEW v \in Nat
    PROVE  /\ Digit0(v) \in Nat /\ Digit1(v) \in Nat /\ Digit2(v) \in Nat
           /\ Digit3(v) \in Nat /\ Digit4(v) \in Nat
           /\ Index(v, 4) = Digit0(v) % Entries /\ Index(v, 3) = Digit1(v) % Entries
           /\ Index(v, 2) = Digit2(v) % Entries /\ Index(v, 1) = Digit3(v) % Entries
           /\ Digit3(v) = v \div (PageSize * Entries * Entries * Entries)
           /\ Digit4(v) = v \div Span
<1> DEFINE P == PageSize
           E == Entries
           P1 == P * E
           P2 == P1 * E
           P3 == P2 * E
<1>1. P \in Nat \ {0} /\ E \in Nat \ {0}
  BY VMMConstants
<1>2. Digit0(v) \in Nat /\ Digit1(v) \in Nat /\ Digit2(v) \in Nat
      /\ Digit3(v) \in Nat /\ Digit4(v) \in Nat
  BY <1>1, DivMod DEF Digit0, Digit1, Digit2, Digit3, Digit4
<1>3. P1 \in Nat \ {0} /\ v \div P1 = Digit1(v)
  <2>1. P1 \in Nat \ {0}
    BY <1>1, SMT
  <2> QED BY <2>1, <1>1, DivTwice DEF Digit1, Digit0
<1>4. P2 \in Nat \ {0} /\ v \div P2 = Digit2(v)
  <2> HIDE DEF P1
  <2>1. P2 \in Nat \ {0}
    BY <1>1, <1>3, SMT
  <2> QED BY <2>1, <1>1, <1>3, DivTwice DEF Digit2
<1>5. P3 \in Nat \ {0} /\ v \div P3 = Digit3(v)
  <2> HIDE DEF P2
  <2>1. P3 \in Nat \ {0}
    BY <1>1, <1>4, SMT
  <2> QED BY <2>1, <1>1, <1>4, DivTwice DEF Digit3
<1>6. v \div (P3 * E) = Digit4(v)
  <2> HIDE DEF P3
  <2> QED BY <1>1, <1>5, DivTwice DEF Digit4
<1>7. Span = P3 * E /\ PageSize * Entries * Entries * Entries = P3
  BY DEF Span
<1>8. Shift[4] = P /\ Shift[3] = P1 /\ Shift[2] = P2 /\ Shift[1] = P3
  BY DEF Shift
<1> HIDE DEF P1, P2, P3
<1>9. Index(v, 4) = Digit0(v) % E /\ Index(v, 3) = Digit1(v) % E
      /\ Index(v, 2) = Digit2(v) % E /\ Index(v, 1) = Digit3(v) % E
  BY <1>3, <1>4, <1>5, <1>8 DEF Index, Digit0
<1> QED BY <1>2, <1>5, <1>6, <1>7, <1>9

\* Every index is one of a table.
LEMMA IndexRange ==
    ASSUME NEW v \in Nat
    PROVE  Index(v, 1) \in Indices /\ Index(v, 2) \in Indices
           /\ Index(v, 3) \in Indices /\ Index(v, 4) \in Indices
<1>1. Entries \in Nat \ {0}
  BY VMMConstants
<1>2. \A x \in Nat : x % Entries \in Indices
  BY <1>1, DivMod DEF Indices
<1> QED BY <1>2, IndexDigits

\* The bit vmm_is_canonical extends is the highest bit of the first index
\* (vmm.c:11-15).
LEMMA SignBit ==
    ASSUME NEW v \in Nat
    PROVE  (v \div (Span \div 2)) % 2 = IF Index(v, 1) < Entries \div 2 THEN 0 ELSE 1
<1> DEFINE B == PageSize * Entries * Entries * Entries
           h == Entries \div 2
           i == Index(v, 1)
           n == Digit3(v)
           q == Digit4(v)
           w == n \div h
<1>1. Entries \in Nat \ {0} /\ PageSize \in Nat \ {0} /\ Entries % 2 = 0
  BY VMMConstants
<1>2. h \in Nat \ {0} /\ Entries = 2 * h
  BY <1>1
<1>3. B \in Nat \ {0}
  <2>1. PageSize * Entries \in Nat \ {0}
    BY <1>1, SMT
  <2> DEFINE P1 == PageSize * Entries
             P2 == P1 * Entries
  <2>2. P2 \in Nat \ {0}
    <3> HIDE DEF P1
    <3> QED BY <2>1, <1>1, SMT DEF P1
  <2>3. P2 * Entries \in Nat \ {0}
    <3> HIDE DEF P2
    <3> QED BY <2>2, <1>1, SMT
  <2> QED BY <2>3
<1>4. n \in Nat /\ q \in Nat /\ i = n % Entries /\ q = n \div Entries /\ n = v \div B
  BY IndexDigits DEF Digit4
<1>5. i \in 0..(Entries - 1) /\ n = Entries * q + i
  <2> HIDE DEF n, i, q
  <2> QED BY <1>1, <1>4, DivMod, Zenon
<1>6. Span \div 2 = B * h
  <2>1. Span = B * Entries
    BY DEF Span
  <2> HIDE DEF B, h
  <2>2. B * h \in Nat /\ Span = 2 * (B * h) + 0
    BY <2>1, <1>2, <1>3
  <2>3. Span \in Nat
    BY <2>2
  <2> QED BY <2>2, <2>3, DivUnique
<1>7. v \div (B * h) = w
  <2>1. v \div (B * h) = (v \div B) \div h
    <3> HIDE DEF B, h
    <3> QED BY <1>2, <1>3, DivTwice, Zenon
  <2> QED BY <2>1, <1>4
<1> HIDE DEF B, n, q, i, h
<1>8. CASE i < h
  <2>1. n = h * (2 * q) + i
    BY <1>2, <1>4, <1>5
  <2>2. w = 2 * q
    <3>1. 2 * q \in Nat /\ i \in Nat
      BY <1>4, <1>5
    <3> QED BY <2>1, <3>1, <1>8, <1>2, <1>4, DivUnique
  <2>3. w % 2 = 0
    BY <2>2, <1>4
  <2> QED BY <2>3, <1>6, <1>7, <1>8 DEF i, h
<1>9. CASE ~(i < h)
  <2>1. n = h * (2 * q + 1) + (i - h) /\ i - h \in Nat /\ i - h < h
    <3>1. h * (2 * q + 1) = (2 * h) * q + h
      BY <1>2, <1>4
    <3>2. (2 * h) * q \in Int
      BY <1>2, <1>4
    <3>3. n = (2 * h) * q + i
      BY <1>2, <1>5
    <3>4. i \in Int /\ i >= h /\ i < 2 * h
      BY <1>1, <1>2, <1>5, <1>9
    <3> QED BY <3>1, <3>2, <3>3, <3>4, <1>2
  <2>2. w = 2 * q + 1
    <3> DEFINE p == 2 * q + 1
               r == i - h
    <3>1. p \in Nat /\ r \in Nat /\ n = h * p + r /\ r < h
      BY <1>4, <2>1
    <3>2. w = p
      <4> HIDE DEF p, r
      <4> QED BY <3>1, <1>2, <1>4, DivUnique
    <3> QED BY <3>2
  <2>3. w % 2 = 1
    BY <2>2, <1>4
  <2> QED BY <2>3, <1>6, <1>7, <1>9 DEF i, h
<1> QED BY <1>8, <1>9

\* A number is its last digit and the others.
LEMMA SameDigits ==
    ASSUME NEW a \in Nat, NEW b \in Nat, a \div Entries = b \div Entries,
           a % Entries = b % Entries
    PROVE  a = b
<1>1. Entries \in Nat \ {0}
  BY VMMConstants
<1>2. a = Entries * (a \div Entries) + (a % Entries)
  BY <1>1, DivMod
<1>3. b = Entries * (b \div Entries) + (b % Entries)
  BY <1>1, DivMod
<1> QED BY <1>2, <1>3

\* A canonical page address is its four indices: two pages share no path.
LEMMA SamePage ==
    ASSUME NEW v \in PageAddresses, NEW w \in PageAddresses,
           Index(v, 1) = Index(w, 1), Index(v, 2) = Index(w, 2),
           Index(v, 3) = Index(w, 3), Index(v, 4) = Index(w, 4)
    PROVE  v = w
<1>1. PageSize \in Nat \ {0} /\ Entries \in Nat \ {0}
  BY VMMConstants
<1>2. v \in Nat /\ w \in Nat /\ v % PageSize = 0 /\ w % PageSize = 0
      /\ vmm_is_canonical(v) /\ vmm_is_canonical(w)
  BY DEF PageAddresses, vmm_is_aligned_4k
<1>3. Digit4(v) = Digit4(w)
  <2> DEFINE Upper(i) == IF i < Entries \div 2 THEN 0 ELSE UpperMod - 1
  <2>1. ASSUME NEW x \in Nat, vmm_is_canonical(x) PROVE Digit4(x) = Upper(Index(x, 1))
    <3>1. (x \div (Span \div 2)) % 2 = IF Index(x, 1) < Entries \div 2 THEN 0 ELSE 1
      BY SignBit
    <3>2. Digit4(x) = x \div Span
      BY IndexDigits
    <3>3. Digit4(x) = IF (x \div (Span \div 2)) % 2 = 1 THEN UpperMod - 1 ELSE 0
      BY <2>1, <3>2, Zenon DEF vmm_is_canonical
    <3> HIDE DEF Digit4
    <3> QED BY <3>1, <3>3
  <2>2. Digit4(v) = Upper(Index(v, 1)) /\ Digit4(w) = Upper(Index(w, 1))
    BY <1>2, <2>1
  <2> QED BY <2>2
<1>4. Digit3(v) = Digit3(w)
  BY <1>2, <1>3, IndexDigits, SameDigits DEF Digit4
<1>5. Digit2(v) = Digit2(w)
  BY <1>2, <1>4, IndexDigits, SameDigits DEF Digit3
<1>6. Digit1(v) = Digit1(w)
  BY <1>2, <1>5, IndexDigits, SameDigits DEF Digit2
<1>7. Digit0(v) = Digit0(w)
  BY <1>2, <1>6, IndexDigits, SameDigits DEF Digit1
<1>8. v = PageSize * Digit0(v) + (v % PageSize) /\ w = PageSize * Digit0(w) + (w % PageSize)
  BY <1>1, <1>2, DivMod DEF Digit0
<1> QED BY <1>2, <1>7, <1>8

\* VMM_PTE_ADDR_MASK leaves a multiple of the page size, and leaves an address
\* field as it is.
LEMMA MaskedField ==
    ASSUME NEW p \in Nat, p % PageSize = 0
    PROVE  /\ Masked(p) = p % PhysMod /\ Masked(p) \in 0..(PhysMod - 1)
           /\ Masked(p) % PageSize = 0
           /\ p < PhysMod => Masked(p) = p
<1>1. PageSize \in Nat \ {0} /\ PhysMod \in Nat \ {0} /\ PhysMod % PageSize = 0
  BY VMMConstants
<1> DEFINE q == p \div PhysMod
           r == p % PhysMod
           n == p \div PageSize
           k == PhysMod \div PageSize
<1>2. q \in Nat /\ r \in 0..(PhysMod - 1) /\ p = PhysMod * q + r
  BY <1>1, DivMod, Zenon
<1>3. n \in Nat /\ p = PageSize * n
  <2>1. n \in Nat /\ p = PageSize * n + (p % PageSize)
    BY <1>1, DivMod
  <2> QED BY <2>1, <1>1
<1>4. k \in Nat /\ PhysMod = PageSize * k
  <2>1. k \in Nat /\ PhysMod = PageSize * k + (PhysMod % PageSize)
    BY <1>1, DivMod
  <2> QED BY <2>1, <1>1
<1>5. Masked(p) = r
  <2> HIDE DEF r
  <2> QED BY <1>2, <1>1 DEF Masked, r
<1> HIDE DEF q, r, n, k
<1>6. r % PageSize = 0
  <2> DEFINE j == n - k * q
  <2>1. j \in Int /\ r = PageSize * j
    <3>1. PhysMod * q = PageSize * (k * q)
      BY <1>1, <1>2, <1>4
    <3>2. PageSize * (n - k * q) = PageSize * n - PageSize * (k * q)
      BY <1>1, <1>2, <1>3, <1>4
    <3>3. k * q \in Int /\ PhysMod * q \in Int /\ PageSize * n \in Int
      BY <1>1, <1>2, <1>3, <1>4
    <3> QED BY <3>1, <3>2, <3>3, <1>2, <1>3
  <2> HIDE DEF j
  <2>2. j >= 0
    <3> SUFFICES ASSUME j < 0 PROVE FALSE
      BY <2>1
    <3>1. PageSize * j < 0
      BY <1>1, <2>1, SMT
    <3> QED BY <3>1, <2>1, <1>2
  <2>3. r = PageSize * j + 0 /\ r \in Nat /\ j \in Nat
    BY <2>1, <2>2, <1>1, <1>2
  <2> QED BY <2>3, <1>1, DivUnique
<1>7. ASSUME p < PhysMod PROVE r = p
  <2>1. p = PhysMod * 0 + p
    BY <1>1
  <2> QED BY <2>1, <1>1, <1>7, DivUnique DEF r
<1> QED BY <1>2, <1>5, <1>6, <1>7 DEF r

\* A frame and its address.
LEMMA FrameAddress ==
    ASSUME NEW f \in Nat
    PROVE  /\ f * PageSize \in Nat /\ (f * PageSize) % PageSize = 0
           /\ (f * PageSize) \div PageSize = f
           /\ f \in Frames => f * PageSize < PhysMod
<1>1. PageSize \in Nat \ {0} /\ PhysMod \in Nat \ {0}
  BY VMMConstants
<1>2. f * PageSize \in Nat /\ f * PageSize = PageSize * f + 0
  BY <1>1
<1>3. (f * PageSize) % PageSize = 0 /\ (f * PageSize) \div PageSize = f
  <2> DEFINE a == f * PageSize
  <2> HIDE DEF a
  <2>1. a \in Nat /\ a = PageSize * f + 0
    BY <1>2 DEF a
  <2>2. a % PageSize = 0 /\ a \div PageSize = f
    BY <2>1, <1>1, DivUnique
  <2> QED BY <2>2 DEF a
<1>4. ASSUME f \in Frames PROVE f * PageSize < PhysMod
  <2>1. (f + 1) * PageSize <= PhysMod
    BY <1>4, VMMConstants
  <2>2. (f + 1) * PageSize = f * PageSize + PageSize
    BY <1>1
  <2> QED BY <2>1, <2>2, <1>1, <1>2
<1> QED BY <1>2, <1>3, <1>4

\* What an entry leads to is the frame at its address.
LEMMA EntryFrame ==
    ASSUME NEW e \in Entry
    PROVE  /\ e.addr \in Nat /\ e.addr < PhysMod /\ e.addr % PageSize = 0
           /\ e.addr \div PageSize \in Nat /\ e.addr = (e.addr \div PageSize) * PageSize
           /\ Masked(e.addr) = e.addr
<1>1. PageSize \in Nat \ {0} /\ PhysMod \in Nat \ {0}
  BY VMMConstants
<1>2. e.addr \in Nat /\ e.addr < PhysMod /\ e.addr % PageSize = 0
  BY <1>1 DEF Entry
<1>3. e.addr \div PageSize \in Nat /\ e.addr = PageSize * (e.addr \div PageSize) + (e.addr % PageSize)
  BY <1>1, <1>2, DivMod, Zenon
<1>4. e.addr = (e.addr \div PageSize) * PageSize
  BY <1>1, <1>2, <1>3
<1>5. Masked(e.addr) = e.addr
  BY <1>2, MaskedField
<1> QED BY <1>2, <1>3, <1>4, <1>5

-----------------------------------------------------------------------------
(* Walks.                                                                   *)

\* The frames are numbers, so none of them is taken for an error code.
LEMMA FrameFacts ==
    /\ Frames \subseteq Nat /\ Reach \subseteq Frames /\ Pool \subseteq Frames
    /\ INVAL \notin Frames /\ NOT_FOUND \notin Frames
    /\ \A f \in Frames : ~(f < 0)
    /\ INVAL < 0 /\ NOT_FOUND < 0
<1>1. Frames \subseteq Nat /\ Reach \subseteq Frames /\ Pool \subseteq Frames
  BY VMMConstants
<1> QED BY <1>1 DEF INVAL, NOT_FOUND

\* The entries of a table.
LEMMA TableEntry ==
    ASSUME NEW m \in [Frames -> Table], NEW t \in Frames, NEW i \in Indices
    PROVE  m[t] \in Table /\ m[t][i] \in Entry
BY Zenon DEF Table, Indices

\* One level of the walk of query and unmap.
LEMMA WalkStep ==
    ASSUME NEW m \in [Frames -> Table], NEW e \in Entry, space.phys_to_virt
    PROVE  table_from_phys(Masked(e.addr)) =
             IF e.addr \div PageSize \in Reach THEN e.addr \div PageSize ELSE INVAL
BY EntryFrame DEF table_from_phys, vmm_is_aligned_4k

\* The walk of query and unmap ends at the page table the links lead to, and
\* otherwise in an error (vmm.c:112-126, 137-149).
LEMMA WalkEnds ==
    ASSUME mem \in [Frames -> Table], space.phys_to_virt,
           space.root_paddr \in Nat, space.root_paddr % PageSize = 0,
           NEW v \in PageAddresses
    PROVE  /\ Walk(v) \in Reach \cup {INVAL, NOT_FOUND}
           /\ \A t \in Reach : Walk(v) = t <=> At4(mem, Root, Reach, v, t)
<1> DEFINE All == Frames \cup {INVAL, NOT_FOUND}
           Down(level) ==
             [table \in All |->
                LET e == mem[table][Index(v, level)]
                IN  IF table < 0 THEN table
                    ELSE IF ~Present(e) \/ Huge(e) THEN NOT_FOUND
                    ELSE table_from_phys(Masked(e.addr))]
           Ends == Reach \cup {INVAL, NOT_FOUND}
           x1 == table_from_phys(space.root_paddr)
           x2 == Down(1)[x1]
           x3 == Down(2)[x2]
           x4 == Down(3)[x3]
<1>1. v \in Nat /\ vmm_is_canonical(v) /\ vmm_is_aligned_4k(v)
  BY DEF PageAddresses
<1>2. Walk(v) = x4
  BY <1>1, Zenon DEF Walk
<1>3. Ends \subseteq All
  BY FrameFacts, Zenon
<1>4. ASSUME NEW level \in {1, 2, 3}, NEW x \in Ends
      PROVE  /\ Down(level)[x] \in Ends
             /\ \A t \in Reach : Down(level)[x] = t
                  <=> x \in Reach /\ IsLink(mem, x, Index(v, level), t)
  <2>1. CASE x \in Reach
    <3> DEFINE e == mem[x][Index(v, level)]
    <3>1. Index(v, level) \in Indices
      BY <1>1, IndexRange
    <3>2. e \in Entry
      BY <3>1, <2>1, TableEntry, FrameFacts
    <3>3. ~(x < 0) /\ x \in All
      BY <2>1, FrameFacts
    <3>4. Down(level)[x] = IF ~Present(e) \/ Huge(e) THEN NOT_FOUND
                           ELSE table_from_phys(Masked(e.addr))
      BY <3>3
    <3>5. Down(level)[x] = IF ~Present(e) \/ Huge(e) THEN NOT_FOUND
                           ELSE IF e.addr \div PageSize \in Reach
                                THEN e.addr \div PageSize ELSE INVAL
      BY <3>2, <3>4, WalkStep
    <3>6. \A t : IsLink(mem, x, Index(v, level), t)
                   <=> Present(e) /\ ~Huge(e) /\ e.addr \div PageSize = t
      BY DEF IsLink
    <3> HIDE DEF Down, e
    <3> QED BY <2>1, <3>5, <3>6, FrameFacts
  <2>2. CASE x \notin Reach
    <3>1. x \in {INVAL, NOT_FOUND} /\ x \in All /\ x < 0
      BY <2>2, FrameFacts
    <3>2. Down(level)[x] = x
      BY <3>1
    <3> QED BY <3>1, <3>2, <2>2, FrameFacts
  <2> QED BY <2>1, <2>2, Zenon
<1>5. x1 \in Ends /\ \A t \in Reach : x1 = t <=> At1(mem, Root, Reach, v, t)
  BY FrameFacts DEF table_from_phys, At1, Root, vmm_is_aligned_4k
<1> HIDE DEF Down, x1
<1>6. x2 \in Ends /\ \A t \in Reach : x2 = t <=> At2(mem, Root, Reach, v, t)
  <2>1. x2 \in Ends /\ \A t \in Reach : x2 = t
                         <=> x1 \in Reach /\ IsLink(mem, x1, Index(v, 1), t)
    BY <1>4, <1>5
  <2> HIDE DEF x2
  <2> QED BY <2>1, <1>5 DEF At2
<1> HIDE DEF x2
<1>7. x3 \in Ends /\ \A t \in Reach : x3 = t <=> At3(mem, Root, Reach, v, t)
  <2>1. x3 \in Ends /\ \A t \in Reach : x3 = t
                         <=> x2 \in Reach /\ IsLink(mem, x2, Index(v, 2), t)
    BY <1>4, <1>6
  <2> HIDE DEF x3
  <2> QED BY <2>1, <1>6 DEF At3
<1> HIDE DEF x3
<1>8. x4 \in Ends /\ \A t \in Reach : x4 = t <=> At4(mem, Root, Reach, v, t)
  <2>1. x4 \in Ends /\ \A t \in Reach : x4 = t
                         <=> x3 \in Reach /\ IsLink(mem, x3, Index(v, 3), t)
    BY <1>4, <1>7
  <2> HIDE DEF x4
  <2> QED BY <2>1, <1>7 DEF At4
<1> HIDE DEF x4
<1> QED BY <1>2, <1>8

\* vmm_query_page finds exactly the pages the links lead to (vmm.c:108-132).
LEMMA QueryLeaf ==
    ASSUME mem \in [Frames -> Table], space.phys_to_virt,
           space.root_paddr \in Nat, space.root_paddr % PageSize = 0,
           NEW v \in PageAddresses
    PROVE  /\ \A e : Leaf(mem, Root, Reach, v, e) =>
                /\ e \in Entry
                /\ vmm_query_page(v) = [rc |-> OK, paddr |-> e.addr, flags |-> e.bits]
           /\ vmm_query_page(v).rc = OK => \E e \in Entry : Leaf(mem, Root, Reach, v, e)
<1> DEFINE pt == Walk(v)
           e == mem[pt][Index(v, 4)]
           q == vmm_query_page(v)
<1>1. pt \in Reach \cup {INVAL, NOT_FOUND}
      /\ \A t \in Reach : pt = t <=> At4(mem, Root, Reach, v, t)
  BY WalkEnds
<1>2. Index(v, 4) \in Indices
  BY IndexRange DEF PageAddresses
<1>3. CASE pt \in Reach
  <2>1. e \in Entry /\ ~(pt < 0)
    BY <1>2, <1>3, TableEntry, FrameFacts, Zenon
  <2>2. q = IF ~Present(e) THEN [rc |-> NOT_FOUND, paddr |-> 0, flags |-> {}]
            ELSE [rc |-> OK, paddr |-> Masked(e.addr), flags |-> e.bits]
    BY <2>1 DEF vmm_query_page
  <2>3. Masked(e.addr) = e.addr
    BY <2>1, EntryFrame
  <2>4. \A x : Leaf(mem, Root, Reach, v, x) <=> x = e /\ Present(e)
    BY <1>1, <1>3 DEF Leaf
  <2> HIDE DEF e, q, pt
  <2> QED BY <2>1, <2>2, <2>3, <2>4 DEF q, OK, NOT_FOUND
<1>4. CASE pt \notin Reach
  <2>1. pt \in {INVAL, NOT_FOUND}
    BY <1>1, <1>4
  <2>2. q = [rc |-> pt, paddr |-> 0, flags |-> {}]
    BY <2>1, FrameFacts DEF vmm_query_page
  <2>3. \A x : ~Leaf(mem, Root, Reach, v, x)
    BY <1>1, <1>4 DEF Leaf
  <2> HIDE DEF q, pt
  <2> QED BY <2>1, <2>2, <2>3 DEF q, OK, INVAL, NOT_FOUND
<1> QED BY <1>3, <1>4

\* No other address is answered with a page.
LEMMA QueryInvalid ==
    ASSUME NEW v, ~vmm_is_canonical(v) \/ ~vmm_is_aligned_4k(v)
    PROVE  vmm_query_page(v).rc = INVAL
<1>1. Walk(v) = INVAL
  BY Zenon DEF Walk
<1> QED BY <1>1 DEF vmm_query_page, INVAL

\* Nor is any before vmm_space_init has succeeded: there is no phys_to_virt.
LEMMA QueryUnready ==
    ASSUME ~space.phys_to_virt, NEW v \in PageAddresses
    PROVE  vmm_query_page(v).rc = INVAL
<1> DEFINE All == Frames \cup {INVAL, NOT_FOUND}
           Down(level) ==
             [table \in All |->
                LET e == mem[table][Index(v, level)]
                IN  IF table < 0 THEN table
                    ELSE IF ~Present(e) \/ Huge(e) THEN NOT_FOUND
                    ELSE table_from_phys(Masked(e.addr))]
<1>1. table_from_phys(space.root_paddr) = INVAL
  BY DEF table_from_phys
<1>2. \A level : Down(level)[INVAL] = INVAL
  BY FrameFacts
<1>3. Walk(v) = Down(3)[Down(2)[Down(1)[INVAL]]]
  BY <1>1, Zenon DEF Walk, PageAddresses
<1>4. Walk(v) = INVAL
  <2> HIDE DEF Down
  <2> QED BY <1>2, <1>3
<1> QED BY <1>4 DEF vmm_query_page, INVAL

\* A cached translation is backed as long as vmm.c finds its page as it was.
LEMMA Backing ==
    ASSUME NEW m, NEW r, NEW n, NEW q,
           NEW x \in [vaddr : PageAddresses, addr : Nat, bits : SUBSET Bits],
           \A e : Leaf(m, r, Reach, x.vaddr, e) => Leaf(n, q, Reach, x.vaddr, e),
           Backed(m, r, x)
    PROVE  Backed(n, q, x)
BY Zenon DEF Backed

\* What the CPU finds in the tables is a page under the root, reached through
\* frames that need not have an address in phys_to_virt, as far as the upper
\* levels allow it.
LEMMA TranslateLeaf ==
    ASSUME mem \in [Frames -> Table], Root \in Frames,
           cr3 = space.root_paddr, space.root_paddr \in Nat,
           space.root_paddr % PageSize = 0, NEW v \in PageAddresses,
           Present(Translate(v))
    PROVE  /\ Translate(v) \in Entry
           /\ \E e \in Entry : Leaf(mem, Root, Frames, v, e) /\ Within(Translate(v), e)
<1> DEFINE Down(level) ==
             [e \in Entry |->
                IF Present(e) /\ ~Huge(e) /\ e.addr \div PageSize \in Frames
                THEN Under(e, mem[e.addr \div PageSize][Index(v, level)]) ELSE Empty]
           F(e) == e.addr \div PageSize
           Read(e, level) == mem[F(e)][Index(v, level)]
           Same(e, x) == /\ x.addr = e.addr /\ (Present(x) <=> Present(e))
                         /\ (Huge(x) <=> Huge(e))
           e0 == [addr |-> cr3, bits |-> {"PRESENT"} \cup Granted]
           e1 == Down(1)[e0]
           e2 == Down(2)[e1]
           e3 == Down(3)[e2]
           e4 == Down(4)[e3]
<1>1. Translate(v) = e4
  BY Zenon DEF Translate
<1>2. e0 \in Entry /\ F(e0) = Root
  <2>1. cr3 < PhysMod
    <3>1. cr3 = PageSize * Root + 0
      <4>1. PageSize \in Nat \ {0}
        BY VMMConstants
      <4>2. cr3 = PageSize * (cr3 \div PageSize) + (cr3 % PageSize)
        BY <4>1, DivMod, Zenon
      <4> QED BY <4>2 DEF Root
    <3>2. Root \in Nat /\ Root * PageSize < PhysMod /\ Root * PageSize \in Nat
      BY FrameFacts, FrameAddress
    <3>3. PageSize * Root = Root * PageSize
      BY <3>2, VMMConstants
    <3> QED BY <3>1, <3>2, <3>3
  <2> QED BY <2>1, VMMConstants DEF Entry, Root, Bits, Granted
<1>3. Empty \in Entry /\ ~Present(Empty)
  BY VMMConstants DEF Empty, Entry, Present
<1>4. ASSUME NEW e \in Entry, NEW next \in Entry
      PROVE  /\ Under(e, next) \in Entry
             /\ Same(next, Under(e, next)) /\ Within(Under(e, next), next)
  BY DEF Under, Entry, Bits, Granted, Within, Present, Huge
<1>5. ASSUME NEW level \in {1, 2, 3, 4}, NEW e \in Entry
      PROVE  /\ Down(level)[e] \in Entry
             /\ Present(Down(level)[e]) =>
                  /\ Present(e) /\ ~Huge(e) /\ F(e) \in Frames
                  /\ Read(e, level) \in Entry /\ Present(Read(e, level))
                  /\ Same(Read(e, level), Down(level)[e])
                  /\ Within(Down(level)[e], Read(e, level))
  <2>1. Index(v, level) \in Indices
    BY IndexRange DEF PageAddresses
  <2>2. F(e) \in Frames => Read(e, level) \in Entry
    BY <2>1, TableEntry
  <2>3. Down(level)[e] = IF Present(e) /\ ~Huge(e) /\ F(e) \in Frames
                         THEN Under(e, Read(e, level)) ELSE Empty
    OBVIOUS
  <2>4. CASE Present(e) /\ ~Huge(e) /\ F(e) \in Frames
    <3> DEFINE x == Under(e, Read(e, level))
    <3>1. x \in Entry /\ Same(Read(e, level), x) /\ Within(x, Read(e, level))
      BY <2>2, <2>4, <1>4
    <3>2. Down(level)[e] = x /\ (Present(x) => Present(Read(e, level)))
      BY <2>3, <2>4, <3>1
    <3> HIDE DEF Down, F, Read, Same, x
    <3> QED BY <2>2, <2>4, <3>1, <3>2
  <2>5. CASE ~(Present(e) /\ ~Huge(e) /\ F(e) \in Frames)
    <3>1. Down(level)[e] = Empty
      BY <2>3, <2>5
    <3> HIDE DEF Down, F, Read, Same
    <3> QED BY <3>1, <1>3
  <2> QED BY <2>4, <2>5
<1> HIDE DEF Down, e0, F, Read, Same
<1>6. e1 \in Entry /\ e2 \in Entry /\ e3 \in Entry /\ e4 \in Entry
  BY <1>2, <1>5
<1>7. /\ Present(e3) /\ ~Huge(e3) /\ F(e3) \in Frames /\ Present(Read(e3, 4))
      /\ Read(e3, 4) \in Entry /\ Within(e4, Read(e3, 4))
  <2>1. Present(e4)
    BY <1>1
  <2> QED BY <2>1, <1>5, <1>6
<1>8. Present(e2) /\ ~Huge(e2) /\ F(e2) \in Frames /\ Same(Read(e2, 3), e3)
  BY <1>7, <1>5, <1>6
<1>9. Present(e1) /\ ~Huge(e1) /\ F(e1) \in Frames /\ Same(Read(e1, 2), e2)
  BY <1>8, <1>5, <1>6
<1>10. Same(Read(e0, 1), e1)
  BY <1>9, <1>2, <1>5
<1> HIDE DEF e1, e2, e3, e4
<1>11. IsLink(mem, Root, Index(v, 1), F(e1))
  BY <1>2, <1>9, <1>10, Zenon DEF IsLink, F, Read, Same
<1>12. IsLink(mem, F(e1), Index(v, 2), F(e2))
  BY <1>8, <1>9, Zenon DEF IsLink, F, Read, Same
<1>13. IsLink(mem, F(e2), Index(v, 3), F(e3))
  BY <1>7, <1>8, Zenon DEF IsLink, F, Read, Same
<1>14. At4(mem, Root, Frames, v, F(e3))
  <2>1. At2(mem, Root, Frames, v, F(e1))
    BY <1>9, <1>11, Zenon DEF At2, At1
  <2>2. At3(mem, Root, Frames, v, F(e2))
    BY <2>1, <1>8, <1>9, <1>12, Zenon DEF At3
  <2> QED BY <2>2, <1>7, <1>8, <1>13, Zenon DEF At4
<1>15. Leaf(mem, Root, Frames, v, Read(e3, 4))
  BY <1>7, <1>14, Zenon DEF Leaf, Read
<1> QED BY <1>1, <1>6, <1>7, <1>15, Zenon

-----------------------------------------------------------------------------
(* Trees of tables.                                                         *)

\* The tables that hold links.
Uppers(m, r) == {r} \cup Tier2(m, r) \cup Tier3(m, r)

\* A table is below some tables if one of them links it.
LEMMA BelowLinked ==
    ASSUME NEW m, NEW S, NEW b
    PROVE  b \in Below(m, S) <=> \E a \in S, i \in Indices : IsLink(m, a, i, b)
<1>1. ASSUME b \in Below(m, S)
      PROVE  \E a \in S, i \in Indices : IsLink(m, a, i, b)
  <2>1. PICK l \in LinksOf(m, S) : b = Leads(m, l)
    BY <1>1 DEF Below
  <2>2. l[1] \in S /\ l[2] \in Indices /\ IsLink(m, l[1], l[2], b)
    BY <2>1 DEF LinksOf, Leads, IsLink, Indices
  <2> QED BY <2>2
<1>2. ASSUME NEW a \in S, NEW i \in Indices, IsLink(m, a, i, b)
      PROVE  b \in Below(m, S)
  <2>1. <<a, i>> \in LinksOf(m, S) /\ Leads(m, <<a, i>>) = b
    BY <1>2 DEF LinksOf, Leads, IsLink, Indices
  <2> QED BY <2>1 DEF Below
<1> QED BY <1>1, <1>2

\* What is below several sets of tables.
LEMMA BelowUnion ==
    ASSUME NEW m, NEW S, NEW T, NEW U
    PROVE  Below(m, S \cup T \cup U) = Below(m, S) \cup Below(m, T) \cup Below(m, U)
<1> SUFFICES ASSUME NEW b
             PROVE  b \in Below(m, S \cup T \cup U)
                      <=> b \in Below(m, S) \/ b \in Below(m, T) \/ b \in Below(m, U)
  BY Zenon
<1>1. b \in Below(m, S \cup T \cup U)
        <=> \E a \in S \cup T \cup U, i \in Indices : IsLink(m, a, i, b)
  BY BelowLinked, Zenon
<1>2. b \in Below(m, S) <=> \E a \in S, i \in Indices : IsLink(m, a, i, b)
  BY BelowLinked, Zenon
<1>3. b \in Below(m, T) <=> \E a \in T, i \in Indices : IsLink(m, a, i, b)
  BY BelowLinked, Zenon
<1>4. b \in Below(m, U) <=> \E a \in U, i \in Indices : IsLink(m, a, i, b)
  BY BelowLinked, Zenon
<1> QED BY <1>1, <1>2, <1>3, <1>4

\* The links of a tree are the present entries of its upper tables.
LEMMA TreeLinksOf ==
    ASSUME NEW m, NEW r
    PROVE  TreeLinks(m, r) = LinksOf(m, Uppers(m, r))
BY Zenon DEF TreeLinks, Uppers, LinksOf, Tier2, Tier3

\* The tables are what the links lead to.
LEMMA TablesLinked ==
    ASSUME NEW m, NEW r
    PROVE  /\ Tables(m, r) = {Leads(m, l) : l \in TreeLinks(m, r)}
           /\ Tables(m, r) = Below(m, Uppers(m, r))
<1>1. Tables(m, r) = Below(m, Uppers(m, r))
  <2> DEFINE T2 == Tier2(m, r)
             T3 == Tier3(m, r)
  <2>1. Below(m, {r} \cup T2 \cup T3) = Below(m, {r}) \cup Below(m, T2) \cup Below(m, T3)
    <3> HIDE DEF T2, T3
    <3> QED BY BelowUnion
  <2> QED BY <2>1 DEF Tables, Uppers, Tier2, Tier3, Tier4
<1>2. {Leads(m, l) : l \in TreeLinks(m, r)} = Below(m, Uppers(m, r))
  BY TreeLinksOf DEF Below
<1> QED BY <1>1, <1>2

\* A table has one link, and no link leads to the root.
LEMMA OneLink ==
    ASSUME NEW m, NEW r, Tree(m, r)
    PROVE  /\ Uppers(m, r) \subseteq Frames
           /\ \A a, c \in Uppers(m, r), i, j \in Indices : \A b :
                IsLink(m, a, i, b) /\ IsLink(m, c, j, b) => a = c /\ i = j
           /\ \A a \in Uppers(m, r), i \in Indices : ~IsLink(m, a, i, r)
           /\ \A a \in Uppers(m, r), i \in Indices : \A b : IsLink(m, a, i, b) => b \in Frames
<1>1. Uppers(m, r) \subseteq Frames
  BY DEF Tree, Uppers, Tables
<1>2. ASSUME NEW a \in Uppers(m, r), NEW c \in Uppers(m, r), NEW i \in Indices,
             NEW j \in Indices, NEW b, IsLink(m, a, i, b), IsLink(m, c, j, b)
      PROVE  a = c /\ i = j
  <2>1. <<a, i>> \in TreeLinks(m, r) /\ Leads(m, <<a, i>>) = b
    BY <1>2, TreeLinksOf DEF LinksOf, Leads, IsLink, Indices
  <2>2. <<c, j>> \in TreeLinks(m, r) /\ Leads(m, <<c, j>>) = b
    BY <1>2, TreeLinksOf DEF LinksOf, Leads, IsLink, Indices
  <2>3. <<a, i>> = <<c, j>>
    BY <2>1, <2>2, Zenon DEF Tree
  <2> QED BY <2>3
<1>3. \A a \in Uppers(m, r), i \in Indices : \A b : IsLink(m, a, i, b) => b \in Tables(m, r)
  BY BelowLinked, TablesLinked
<1> QED BY <1>1, <1>2, <1>3 DEF Tree

\* The levels of a tree have no table in common.
LEMMA TiersApart ==
    ASSUME NEW m, NEW r, Tree(m, r)
    PROVE  /\ r \notin Tier2(m, r) /\ r \notin Tier3(m, r) /\ r \notin Tier4(m, r)
           /\ Tier2(m, r) \cap Tier3(m, r) = {} /\ Tier2(m, r) \cap Tier4(m, r) = {}
           /\ Tier3(m, r) \cap Tier4(m, r) = {}
<1>1. r \notin Tier2(m, r) /\ r \notin Tier3(m, r) /\ r \notin Tier4(m, r)
  BY DEF Tree, Tables
<1>2. \A b \in Tier2(m, r) : \E i \in Indices : IsLink(m, r, i, b)
  BY BelowLinked DEF Tier2
<1>3. \A b \in Tier3(m, r) : \E a \in Tier2(m, r), i \in Indices : IsLink(m, a, i, b)
  BY BelowLinked DEF Tier3
<1>4. \A b \in Tier4(m, r) : \E a \in Tier3(m, r), i \in Indices : IsLink(m, a, i, b)
  BY BelowLinked DEF Tier4
<1>5. /\ \A a, c \in Uppers(m, r), i, j \in Indices : \A b :
           IsLink(m, a, i, b) /\ IsLink(m, c, j, b) => a = c
      /\ r \in Uppers(m, r) /\ Tier2(m, r) \subseteq Uppers(m, r)
      /\ Tier3(m, r) \subseteq Uppers(m, r)
  BY OneLink DEF Uppers
<1>6. Tier2(m, r) \cap Tier3(m, r) = {}
  BY <1>1, <1>2, <1>3, <1>5
<1>7. Tier2(m, r) \cap Tier4(m, r) = {}
  BY <1>1, <1>2, <1>4, <1>5
<1>8. Tier3(m, r) \cap Tier4(m, r) = {}
  BY <1>3, <1>4, <1>5, <1>6
<1> QED BY <1>1, <1>6, <1>7, <1>8

\* A walk is among the tables of its level, and one that stays in Reach is one
\* that stays in Frames.
LEMMA WalkTiers ==
    ASSUME NEW m, NEW r, Tree(m, r), NEW v \in Nat, NEW t, NEW S \in SUBSET Frames
    PROVE  /\ At1(m, r, S, v, t) => t = r /\ At1(m, r, Frames, v, t)
           /\ At2(m, r, S, v, t) => t \in Tier2(m, r) /\ At2(m, r, Frames, v, t)
           /\ At3(m, r, S, v, t) => t \in Tier3(m, r) /\ At3(m, r, Frames, v, t)
           /\ At4(m, r, S, v, t) => t \in Tier4(m, r) /\ At4(m, r, Frames, v, t)
<1>1. Index(v, 1) \in Indices /\ Index(v, 2) \in Indices /\ Index(v, 3) \in Indices
  BY IndexRange
<1>2. \A b : At1(m, r, S, v, b) => b = r /\ At1(m, r, Frames, v, b)
  BY DEF At1
<1>3. \A b : At2(m, r, S, v, b) => b \in Tier2(m, r) /\ At2(m, r, Frames, v, b)
  BY <1>1, <1>2, BelowLinked DEF At2, Tier2
<1>4. \A b : At3(m, r, S, v, b) => b \in Tier3(m, r) /\ At3(m, r, Frames, v, b)
  BY <1>1, <1>3, BelowLinked DEF At3, Tier3
<1>5. \A b : At4(m, r, S, v, b) => b \in Tier4(m, r) /\ At4(m, r, Frames, v, b)
  BY <1>1, <1>4, BelowLinked DEF At4, Tier4
<1> QED BY <1>2, <1>3, <1>4, <1>5

\* Two walks that meet have come the same way.
LEMMA WalksMeet ==
    ASSUME NEW m, NEW r, Tree(m, r), NEW v \in Nat, NEW w \in Nat, NEW t,
           NEW S \in SUBSET Frames, NEW U \in SUBSET Frames,
           At4(m, r, S, v, t), At4(m, r, U, w, t)
    PROVE  Index(v, 1) = Index(w, 1) /\ Index(v, 2) = Index(w, 2)
           /\ Index(v, 3) = Index(w, 3)
<1>1. Index(v, 1) \in Indices /\ Index(v, 2) \in Indices /\ Index(v, 3) \in Indices
      /\ Index(w, 1) \in Indices /\ Index(w, 2) \in Indices /\ Index(w, 3) \in Indices
  BY IndexRange
<1>2. \A a, c \in Uppers(m, r), i, j \in Indices : \A b :
        IsLink(m, a, i, b) /\ IsLink(m, c, j, b) => a = c /\ i = j
  BY OneLink
<1>3. PICK c \in S : At3(m, r, S, v, c) /\ IsLink(m, c, Index(v, 3), t)
  BY DEF At4
<1>4. PICK d \in U : At3(m, r, U, w, d) /\ IsLink(m, d, Index(w, 3), t)
  BY DEF At4
<1>5. c \in Uppers(m, r) /\ d \in Uppers(m, r)
  BY <1>3, <1>4, WalkTiers DEF Uppers
<1>6. c = d /\ Index(v, 3) = Index(w, 3)
  BY <1>1, <1>2, <1>3, <1>4, <1>5
<1>7. PICK a \in S : At2(m, r, S, v, a) /\ IsLink(m, a, Index(v, 2), c)
  BY <1>3 DEF At3
<1>8. PICK b \in U : At2(m, r, U, w, b) /\ IsLink(m, b, Index(w, 2), c)
  BY <1>4, <1>6 DEF At3
<1>9. a \in Uppers(m, r) /\ b \in Uppers(m, r)
  BY <1>7, <1>8, WalkTiers DEF Uppers
<1>10. a = b /\ Index(v, 2) = Index(w, 2)
  BY <1>1, <1>2, <1>7, <1>8, <1>9
<1>11. IsLink(m, r, Index(v, 1), a)
  BY <1>7 DEF At2, At1
<1>12. IsLink(m, r, Index(w, 1), a)
  BY <1>8, <1>10 DEF At2, At1
<1>13. Index(v, 1) = Index(w, 1)
  BY <1>1, <1>2, <1>11, <1>12, Zenon DEF Uppers
<1> QED BY <1>6, <1>10, <1>13

\* A walk has one table at each level.
LEMMA WalkUnique ==
    ASSUME NEW m, NEW r, NEW S, NEW v, NEW t, NEW u
    PROVE  /\ At1(m, r, S, v, t) /\ At1(m, r, S, v, u) => t = u
           /\ At2(m, r, S, v, t) /\ At2(m, r, S, v, u) => t = u
           /\ At3(m, r, S, v, t) /\ At3(m, r, S, v, u) => t = u
           /\ At4(m, r, S, v, t) /\ At4(m, r, S, v, u) => t = u
<1>1. \A a, i, b, c : IsLink(m, a, i, b) /\ IsLink(m, a, i, c) => b = c
  BY DEF IsLink
<1>2. \A b, c : At1(m, r, S, v, b) /\ At1(m, r, S, v, c) => b = c
  BY DEF At1
<1>3. \A b, c : At2(m, r, S, v, b) /\ At2(m, r, S, v, c) => b = c
  BY <1>1, <1>2 DEF At2
<1>4. \A b, c : At3(m, r, S, v, b) /\ At3(m, r, S, v, c) => b = c
  BY <1>1, <1>3 DEF At3
<1>5. \A b, c : At4(m, r, S, v, b) /\ At4(m, r, S, v, c) => b = c
  BY <1>1, <1>4 DEF At4
<1> QED BY <1>2, <1>3, <1>4, <1>5

\* What is written outside the upper tables moves no link: the tree stays.
LEMMA TreeKept ==
    ASSUME NEW m, NEW n \in [Frames -> Table], NEW r, Tree(m, r),
           \A t \in Uppers(m, r) : n[t] = m[t]
    PROVE  /\ Tree(n, r) /\ Tables(n, r) = Tables(m, r)
           /\ Tier4(n, r) = Tier4(m, r) /\ Uppers(n, r) = Uppers(m, r)
<1>1. \A a \in Uppers(m, r) : \A i, b : IsLink(n, a, i, b) <=> IsLink(m, a, i, b)
  BY DEF IsLink
<1>2. \A T \in SUBSET Uppers(m, r) : Below(n, T) = Below(m, T)
  <2> SUFFICES ASSUME NEW T \in SUBSET Uppers(m, r), NEW b
               PROVE  b \in Below(n, T) <=> b \in Below(m, T)
    OBVIOUS
  <2> QED BY <1>1, BelowLinked
<1>3. Tier2(n, r) = Tier2(m, r)
  BY <1>2 DEF Tier2, Uppers
<1>4. Tier3(n, r) = Tier3(m, r)
  <2>1. Tier2(m, r) \in SUBSET Uppers(m, r)
    BY DEF Uppers
  <2> QED BY <1>2, <1>3, <2>1 DEF Tier3
<1>5. Tier4(n, r) = Tier4(m, r)
  <2>1. Tier3(m, r) \in SUBSET Uppers(m, r)
    BY DEF Uppers
  <2> QED BY <1>2, <1>4, <2>1 DEF Tier4
<1>6. Tables(n, r) = Tables(m, r) /\ Uppers(n, r) = Uppers(m, r)
  BY <1>3, <1>4, <1>5 DEF Tables, Uppers
<1>7. \A k \in TreeLinks(m, r) : Leads(n, k) = Leads(m, k)
  BY TreeLinksOf DEF LinksOf, Leads
<1>8. TreeLinks(n, r) = TreeLinks(m, r)
  <2>1. LinksOf(n, Uppers(m, r)) = LinksOf(m, Uppers(m, r))
    BY DEF LinksOf
  <2> QED BY <2>1, <1>6, TreeLinksOf
<1>9. Tree(n, r)
  BY <1>6, <1>7, <1>8, Zenon DEF Tree
<1> QED BY <1>5, <1>6, <1>9

\* And every walk through it stays.
LEMMA WalksKept ==
    ASSUME NEW m, NEW n \in [Frames -> Table], NEW r, Tree(m, r),
           \A t \in Uppers(m, r) : n[t] = m[t],
           NEW S \in SUBSET Frames, NEW v \in Nat, NEW t
    PROVE  /\ At1(n, r, S, v, t) <=> At1(m, r, S, v, t)
           /\ At2(n, r, S, v, t) <=> At2(m, r, S, v, t)
           /\ At3(n, r, S, v, t) <=> At3(m, r, S, v, t)
           /\ At4(n, r, S, v, t) <=> At4(m, r, S, v, t)
<1>1. \A a \in Uppers(m, r) : \A i, b : IsLink(n, a, i, b) <=> IsLink(m, a, i, b)
  BY DEF IsLink
<1>2. \A a : /\ At1(m, r, S, v, a) => a \in Uppers(m, r)
             /\ At2(m, r, S, v, a) => a \in Uppers(m, r)
             /\ At3(m, r, S, v, a) => a \in Uppers(m, r)
  BY WalkTiers DEF Uppers
<1>3. \A b : At1(n, r, S, v, b) <=> At1(m, r, S, v, b)
  BY DEF At1
<1>4. \A b : At2(n, r, S, v, b) <=> At2(m, r, S, v, b)
  BY <1>1, <1>2, <1>3 DEF At2
<1>5. \A b : At3(n, r, S, v, b) <=> At3(m, r, S, v, b)
  BY <1>1, <1>2, <1>4 DEF At3
<1>6. \A b : At4(n, r, S, v, b) <=> At4(m, r, S, v, b)
  BY <1>1, <1>2, <1>5 DEF At4
<1> QED BY <1>3, <1>4, <1>5, <1>6

\* n is m with an entry of t, one that was not present, linking the table f,
\* which is empty.
Linked(m, n, t, i, f) ==
    /\ t \in Frames /\ i \in Indices /\ f \in Frames
    /\ ~Present(m[t][i]) /\ m[f] = vmm_zero_page
    /\ n = [m EXCEPT ![t][i] = [addr |-> Masked(f * PageSize),
                                bits |-> {"PRESENT", "WRITABLE"}]]

\* An empty table links nothing and holds no page.
LEMMA EmptyTable ==
    ASSUME NEW m, NEW f, m[f] = vmm_zero_page, NEW i \in Indices
    PROVE  ~Present(m[f][i]) /\ \A b : ~IsLink(m, f, i, b)
BY DEF vmm_zero_page, Empty, Present, IsLink, Indices

\* The new entry is the only one that differs, and it links f.
LEMMA LinkedEntries ==
    ASSUME NEW m \in [Frames -> Table], NEW n, NEW t, NEW i, NEW f,
           Linked(m, n, t, i, f), t # f
    PROVE  /\ n \in [Frames -> Table] /\ n[f] = m[f]
           /\ \A a \in Frames, j \in Indices : <<a, j>> # <<t, i>> => n[a][j] = m[a][j]
           /\ \A b : IsLink(n, t, i, b) <=> b = f
           /\ \A a \in Frames, j \in Indices : \A b :
                IsLink(n, a, j, b) <=> IsLink(m, a, j, b) \/ (a = t /\ j = i /\ b = f)
<1> DEFINE e == [addr |-> Masked(f * PageSize), bits |-> {"PRESENT", "WRITABLE"}]
<1>1. t \in Frames /\ i \in Indices /\ f \in Frames /\ f \in Nat
  BY FrameFacts DEF Linked
<1>2. Masked(f * PageSize) = f * PageSize /\ (f * PageSize) \div PageSize = f
      /\ f * PageSize \in 0..(PhysMod - 1) /\ (f * PageSize) % PageSize = 0
  BY <1>1, FrameAddress, MaskedField, VMMConstants, Zenon
<1>3. e \in Entry /\ Present(e) /\ ~Huge(e) /\ e.addr \div PageSize = f
  BY <1>2 DEF Entry, Present, Huge, Bits
<1>4. m[t] \in [Indices -> Entry]
  BY <1>1 DEF Table, Indices
<1>5. n = [m EXCEPT ![t] = [m[t] EXCEPT ![i] = e]]
  BY DEF Linked
<1> HIDE DEF e
<1>6. [m[t] EXCEPT ![i] = e] \in Table
  BY <1>3, <1>4, Zenon DEF Table, Indices
<1>7. n \in [Frames -> Table]
  BY <1>5, <1>6, Zenon
<1>8. n[t][i] = e /\ n[f] = m[f]
  BY <1>1, <1>4, <1>5
<1>9. \A a \in Frames, j \in Indices : <<a, j>> # <<t, i>> => n[a][j] = m[a][j]
  <2> SUFFICES ASSUME NEW a \in Frames, NEW j \in Indices, a # t \/ j # i
               PROVE  n[a][j] = m[a][j]
    OBVIOUS
  <2> QED BY <1>1, <1>4, <1>5
<1>10. \A b : IsLink(n, t, i, b) <=> b = f
  BY <1>3, <1>8 DEF IsLink
<1>11. \A b : ~IsLink(m, t, i, b)
  BY DEF IsLink, Linked
<1>12. \A a \in Frames, j \in Indices : \A b : a # t \/ j # i =>
         (IsLink(n, a, j, b) <=> IsLink(m, a, j, b))
  BY <1>9 DEF IsLink
<1> QED BY <1>7, <1>8, <1>9, <1>10, <1>11, <1>12

\* Linking an empty table that is no table yet adds that table to the level
\* below t and nothing else, and the tree is still one (vmm.c:39-63).
LEMMA TreeGrows ==
    ASSUME NEW m, NEW n, NEW r, Tree(m, r), NEW t \in Uppers(m, r), NEW i, NEW f,
           Linked(m, n, t, i, f), f \notin Tables(m, r), f # r
    PROVE  Tree(n, r) /\ Tables(n, r) = Tables(m, r) \cup {f}
<1>1. m \in [Frames -> Table] /\ r \in Frames /\ Uppers(m, r) \subseteq Frames
      /\ i \in Indices /\ f \in Frames
  BY OneLink DEF Tree, Linked
<1>2. f \notin Uppers(m, r) /\ t # f
  BY DEF Uppers, Tables
<1>3. /\ n \in [Frames -> Table] /\ n[f] = m[f]
      /\ \A a \in Frames, j \in Indices : \A b :
           IsLink(n, a, j, b) <=> IsLink(m, a, j, b) \/ (a = t /\ j = i /\ b = f)
  BY <1>1, <1>2, LinkedEntries
<1>4. \A j \in Indices : \A b : ~IsLink(m, f, j, b)
  BY EmptyTable DEF Linked
<1>5. ASSUME NEW S \in SUBSET Frames
      PROVE  Below(n, S) = Below(m, S) \cup (IF t \in S THEN {f} ELSE {})
  <2> SUFFICES ASSUME NEW b
               PROVE  b \in Below(n, S) <=> b \in Below(m, S) \/ (t \in S /\ b = f)
    OBVIOUS
  <2>1. b \in Below(n, S) <=> \E a \in S, j \in Indices : IsLink(n, a, j, b)
    BY BelowLinked
  <2>2. b \in Below(m, S) <=> \E a \in S, j \in Indices : IsLink(m, a, j, b)
    BY BelowLinked
  <2> QED BY <2>1, <2>2, <1>1, <1>3
<1>6. ASSUME NEW S \in SUBSET Frames
      PROVE  Below(m, S \cup {f}) = Below(m, S)
  <2> SUFFICES ASSUME NEW b
               PROVE  b \in Below(m, S \cup {f}) <=> b \in Below(m, S)
    OBVIOUS
  <2>1. b \in Below(m, S \cup {f}) <=> \E a \in S \cup {f}, j \in Indices : IsLink(m, a, j, b)
    BY BelowLinked, Zenon
  <2>2. b \in Below(m, S) <=> \E a \in S, j \in Indices : IsLink(m, a, j, b)
    BY BelowLinked
  <2> QED BY <2>1, <2>2, <1>4
<1>7. Tier2(m, r) \subseteq Frames /\ Tier3(m, r) \subseteq Frames /\ Tier4(m, r) \subseteq Frames
  BY DEF Tree, Tables
<1>8. /\ r \notin Tier2(m, r) /\ r \notin Tier3(m, r)
      /\ Tier2(m, r) \cap Tier3(m, r) = {}
  BY TiersApart
<1>9. /\ Uppers(n, r) = Uppers(m, r) \/ Uppers(n, r) = Uppers(m, r) \cup {f}
      /\ Tables(n, r) = Tables(m, r) \cup {f}
  <2>1. CASE t = r
    <3>1. Tier2(n, r) = Tier2(m, r) \cup {f}
      BY <1>1, <1>5, <2>1 DEF Tier2
    <3>2. Tier3(n, r) = Tier3(m, r)
      <4>1. t \notin Tier2(m, r) \cup {f} /\ Tier2(m, r) \cup {f} \in SUBSET Frames
        BY <2>1, <1>1, <1>2, <1>7, <1>8
      <4>2. Below(n, Tier2(m, r) \cup {f}) = Below(m, Tier2(m, r) \cup {f})
        BY <4>1, <1>5
      <4>3. Below(m, Tier2(m, r) \cup {f}) = Below(m, Tier2(m, r))
        BY <1>6, <1>7
      <4> QED BY <4>2, <4>3, <3>1 DEF Tier3
    <3>3. Tier4(n, r) = Tier4(m, r)
      <4>1. t \notin Tier3(m, r)
        BY <2>1, <1>8
      <4> QED BY <4>1, <3>2, <1>5, <1>7 DEF Tier4
    <3> QED BY <3>1, <3>2, <3>3 DEF Uppers, Tables
  <2>2. CASE t \in Tier2(m, r)
    <3>1. Tier2(n, r) = Tier2(m, r)
      <4>1. t # r
        BY <2>2, <1>8
      <4> QED BY <4>1, <1>1, <1>5 DEF Tier2
    <3>2. Tier3(n, r) = Tier3(m, r) \cup {f}
      BY <3>1, <2>2, <1>5, <1>7 DEF Tier3
    <3>3. Tier4(n, r) = Tier4(m, r)
      <4>1. t \notin Tier3(m, r) \cup {f} /\ Tier3(m, r) \cup {f} \in SUBSET Frames
        BY <2>2, <1>1, <1>2, <1>7, <1>8
      <4>2. Below(n, Tier3(m, r) \cup {f}) = Below(m, Tier3(m, r) \cup {f})
        BY <4>1, <1>5
      <4>3. Below(m, Tier3(m, r) \cup {f}) = Below(m, Tier3(m, r))
        BY <1>6, <1>7
      <4> QED BY <4>2, <4>3, <3>2 DEF Tier4
    <3> QED BY <3>1, <3>2, <3>3 DEF Uppers, Tables
  <2>3. CASE t \in Tier3(m, r)
    <3>1. Tier2(n, r) = Tier2(m, r)
      <4>1. t # r
        BY <2>3, <1>8
      <4> QED BY <4>1, <1>1, <1>5 DEF Tier2
    <3>2. Tier3(n, r) = Tier3(m, r)
      <4>1. t \notin Tier2(m, r)
        BY <2>3, <1>8
      <4> QED BY <4>1, <3>1, <1>5, <1>7 DEF Tier3
    <3>3. Tier4(n, r) = Tier4(m, r) \cup {f}
      BY <3>2, <2>3, <1>5, <1>7 DEF Tier4
    <3> QED BY <3>1, <3>2, <3>3 DEF Uppers, Tables
  <2> QED BY <2>1, <2>2, <2>3 DEF Uppers
<1>10. ASSUME NEW k \in TreeLinks(n, r), NEW l \in TreeLinks(n, r), Leads(n, k) = Leads(n, l)
       PROVE  k = l
  <2> DEFINE b == Leads(n, k)
             U == Uppers(m, r) \cup {f}
  <2>1. /\ k = <<k[1], k[2]>> /\ k[1] \in U /\ k[2] \in Indices
        /\ l = <<l[1], l[2]>> /\ l[1] \in U /\ l[2] \in Indices
        /\ IsLink(n, k[1], k[2], b) /\ IsLink(n, l[1], l[2], b)
    <3>1. k \in LinksOf(n, U) /\ l \in LinksOf(n, U)
      BY <1>9, TreeLinksOf DEF LinksOf
    <3>2. ASSUME NEW z \in LinksOf(n, U)
          PROVE  /\ z = <<z[1], z[2]>> /\ z[1] \in U /\ z[2] \in Indices
                 /\ IsLink(n, z[1], z[2], Leads(n, z))
      <4> HIDE DEF U
      <4> QED BY DEF LinksOf, IsLink, Leads, Indices
    <3> QED BY <3>1, <3>2, <1>10
  <2>2. U \subseteq Frames
    BY <1>1
  <2>3. IsLink(m, k[1], k[2], b) \/ (k[1] = t /\ k[2] = i /\ b = f)
    BY <2>1, <2>2, <1>3
  <2>4. IsLink(m, l[1], l[2], b) \/ (l[1] = t /\ l[2] = i /\ b = f)
    BY <2>1, <2>2, <1>3
  <2>5. ASSUME NEW a \in U, NEW j \in Indices, IsLink(m, a, j, b)
        PROVE  a \in Uppers(m, r) /\ b # f
    <3>1. a \in Uppers(m, r)
      BY <2>5, <1>4
    <3>2. b \in Tables(m, r)
      BY <3>1, <2>5, TablesLinked, BelowLinked
    <3> QED BY <3>1, <3>2
  <2> HIDE DEF b, U
  <2>6. CASE b = f
    BY <2>1, <2>3, <2>4, <2>5, <2>6
  <2>7. CASE b # f
    <3>1. k[1] = l[1] /\ k[2] = l[2]
      BY <2>1, <2>3, <2>4, <2>5, <2>7, OneLink
    <3> QED BY <3>1, <2>1
  <2> QED BY <2>6, <2>7
<1>11. Tables(n, r) \subseteq Frames /\ r \notin Tables(n, r)
  BY <1>1, <1>9 DEF Tree
<1> QED BY <1>1, <1>3, <1>9, <1>10, <1>11 DEF Tree

\* The walks that were there go on to be, and no page appears: the only new
\* table at the end of a walk is empty.
LEMMA WalksGrow ==
    ASSUME NEW m, NEW n, NEW r, Tree(m, r), NEW t \in Uppers(m, r), NEW i, NEW f,
           Linked(m, n, t, i, f), f \notin Tables(m, r), f # r,
           NEW S \in SUBSET Frames, NEW v \in Nat
    PROVE  /\ \A a : At1(m, r, S, v, a) => At1(n, r, S, v, a)
           /\ \A a : At2(m, r, S, v, a) => At2(n, r, S, v, a)
           /\ \A a : At3(m, r, S, v, a) => At3(n, r, S, v, a)
           /\ \A a : At4(m, r, S, v, a) => At4(n, r, S, v, a)
           /\ \A e : Leaf(n, r, S, v, e) <=> Leaf(m, r, S, v, e)
<1>1. m \in [Frames -> Table] /\ i \in Indices /\ f \in Frames /\ t # f /\ t \in Frames
      /\ m[f] = vmm_zero_page
  BY OneLink DEF Tree, Linked, Uppers, Tables
<1>2. /\ n[f] = m[f]
      /\ \A a \in Frames, j \in Indices : <<a, j>> # <<t, i>> => n[a][j] = m[a][j]
      /\ \A a \in Frames, j \in Indices : \A b :
           IsLink(n, a, j, b) <=> IsLink(m, a, j, b) \/ (a = t /\ j = i /\ b = f)
  BY <1>1, LinkedEntries
<1>3. \A j \in Indices : \A b : ~IsLink(n, f, j, b)
  BY <1>1, <1>2, EmptyTable
<1>4. Index(v, 1) \in Indices /\ Index(v, 2) \in Indices /\ Index(v, 3) \in Indices
      /\ Index(v, 4) \in Indices
  BY IndexRange
<1>5. \A a, b : a \in S /\ a # f =>
        /\ IsLink(m, a, Index(v, 1), b) => IsLink(n, a, Index(v, 1), b)
        /\ IsLink(m, a, Index(v, 2), b) => IsLink(n, a, Index(v, 2), b)
        /\ IsLink(m, a, Index(v, 3), b) => IsLink(n, a, Index(v, 3), b)
  BY <1>2, <1>4
<1>6. \A a, b : a \in S /\ b # f =>
        /\ IsLink(n, a, Index(v, 1), b) => a # f /\ IsLink(m, a, Index(v, 1), b)
        /\ IsLink(n, a, Index(v, 2), b) => a # f /\ IsLink(m, a, Index(v, 2), b)
        /\ IsLink(n, a, Index(v, 3), b) => a # f /\ IsLink(m, a, Index(v, 3), b)
  BY <1>2, <1>3, <1>4
<1>7. \A a : /\ At1(m, r, S, v, a) => a # f
             /\ At2(m, r, S, v, a) => a # f
             /\ At3(m, r, S, v, a) => a # f
             /\ At4(m, r, S, v, a) => a # f
  BY WalkTiers DEF Tables
<1>8. \A a : a # f => (At1(n, r, S, v, a) <=> At1(m, r, S, v, a))
  BY DEF At1
<1>9. \A a : a # f => (At2(n, r, S, v, a) <=> At2(m, r, S, v, a))
  BY <1>5, <1>6, <1>7, <1>8 DEF At2
<1>10. \A a : a # f => (At3(n, r, S, v, a) <=> At3(m, r, S, v, a))
  BY <1>5, <1>6, <1>7, <1>9 DEF At3
<1>11. \A a : a # f => (At4(n, r, S, v, a) <=> At4(m, r, S, v, a))
  BY <1>5, <1>6, <1>7, <1>10 DEF At4
<1>12. \A e : Leaf(n, r, S, v, e) <=> Leaf(m, r, S, v, e)
  <2>1. ~Present(n[f][Index(v, 4)])
    BY <1>1, <1>2, <1>4, EmptyTable
  <2>2. \A a : At4(m, r, S, v, a) => a # t /\ a \in Frames
    BY WalkTiers, TiersApart DEF Uppers, Tree, Tables
  <2>3. \A a : At4(m, r, S, v, a) => n[a][Index(v, 4)] = m[a][Index(v, 4)]
    BY <2>2, <1>2, <1>4
  <2> QED BY <2>1, <2>3, <1>7, <1>11 DEF Leaf
<1> QED BY <1>7, <1>8, <1>9, <1>10, <1>11, <1>12

\* n is m with another entry i in t.
Written(m, n, t, i, x) == n = [m EXCEPT ![t][i] = x]

\* Every page but v is what it was.
SameElsewhere(m, n, r, v) ==
    \A w \in PageAddresses : \A e : w # v =>
      /\ Leaf(n, r, Reach, w, e) <=> Leaf(m, r, Reach, w, e)
      /\ Leaf(n, r, Frames, w, e) <=> Leaf(m, r, Frames, w, e)

\* Writing entry i of the page table t, on the walk for v, changes what is
\* found for v and for no other page.
LEMMA LeafWritten ==
    ASSUME NEW m, NEW n, NEW r, Tree(m, r), NEW v \in PageAddresses, NEW t, NEW x \in Entry,
           At4(m, r, Reach, v, t), Written(m, n, t, Index(v, 4), x)
    PROVE  /\ n \in [Frames -> Table] /\ Tree(n, r) /\ Tables(n, r) = Tables(m, r)
           /\ \A e : Leaf(n, r, Reach, v, e) <=> e = x /\ Present(x)
           /\ \A e : Leaf(n, r, Frames, v, e) <=> e = x /\ Present(x)
           /\ SameElsewhere(m, n, r, v)
<1>1. v \in Nat /\ Index(v, 4) \in Indices /\ m \in [Frames -> Table] /\ Reach \in SUBSET Frames
  BY IndexRange, FrameFacts DEF PageAddresses, Tree
<1>2. t \in Tier4(m, r) /\ t \in Frames /\ t \in Reach /\ At4(m, r, Frames, v, t)
  BY <1>1, WalkTiers DEF Tree, Tables, At4
<1>3. t \notin Uppers(m, r)
  BY <1>2, TiersApart DEF Uppers
<1>4. m[t] \in [Indices -> Entry] /\ n = [m EXCEPT ![t] = [m[t] EXCEPT ![Index(v, 4)] = x]]
  BY <1>1, <1>2 DEF Table, Indices, Written
<1>5. n \in [Frames -> Table]
  <2>1. [m[t] EXCEPT ![Index(v, 4)] = x] \in Table
    BY <1>1, <1>4 DEF Table, Indices
  <2> QED BY <1>1, <1>4, <2>1, Zenon
<1>6. n[t][Index(v, 4)] = x
  BY <1>1, <1>2, <1>4
<1>7. \A a \in Frames : a # t => n[a] = m[a]
  BY <1>1, <1>4
<1>8. \A a \in Uppers(m, r) : n[a] = m[a]
  BY <1>3, <1>7, OneLink
<1>9. /\ Tree(n, r) /\ Tables(n, r) = Tables(m, r)
      /\ \A S \in SUBSET Frames, w \in Nat : \A a : At4(n, r, S, w, a) <=> At4(m, r, S, w, a)
  <2>1. Tree(n, r) /\ Tables(n, r) = Tables(m, r)
    BY <1>5, <1>8, TreeKept
  <2>2. ASSUME NEW S \in SUBSET Frames, NEW w \in Nat, NEW a
        PROVE  At4(n, r, S, w, a) <=> At4(m, r, S, w, a)
    BY <1>5, <1>8, WalksKept
  <2> QED BY <2>1, <2>2
<1>10. \A e : Leaf(n, r, Reach, v, e) <=> e = x /\ Present(x)
  BY <1>1, <1>2, <1>6, <1>9, WalkUnique DEF Leaf
<1>11. \A e : Leaf(n, r, Frames, v, e) <=> e = x /\ Present(x)
  BY <1>1, <1>2, <1>6, <1>9, WalkUnique DEF Leaf
<1>12. ASSUME NEW w \in PageAddresses, NEW S \in SUBSET Frames, NEW e, w # v
       PROVE  Leaf(n, r, S, w, e) <=> Leaf(m, r, S, w, e)
  <2>1. w \in Nat /\ Index(w, 4) \in Indices
    BY IndexRange DEF PageAddresses
  <2>2. ASSUME NEW a \in S, At4(m, r, S, w, a)
        PROVE  n[a][Index(w, 4)] = m[a][Index(w, 4)]
    <3>1. CASE a = t
      <4>1. Index(v, 4) # Index(w, 4)
        <5> SUFFICES ASSUME Index(v, 4) = Index(w, 4) PROVE FALSE
          OBVIOUS
        <5>1. Index(v, 1) = Index(w, 1) /\ Index(v, 2) = Index(w, 2)
              /\ Index(v, 3) = Index(w, 3)
          BY <1>1, <2>1, <2>2, <3>1, WalksMeet
        <5> QED BY <5>1, <1>12, SamePage
      <4> QED BY <4>1, <3>1, <1>1, <1>2, <1>4, <2>1
    <3>2. CASE a # t
      BY <3>2, <1>7
    <3> QED BY <3>1, <3>2
  <2> QED BY <2>1, <2>2, <1>9, Zenon DEF Leaf
<1>13. SameElsewhere(m, n, r, v)
  <2>1. Frames \in SUBSET Frames
    OBVIOUS
  <2> QED BY <1>1, <1>12, <2>1 DEF SameElsewhere
<1> QED BY <1>5, <1>9, <1>10, <1>11, <1>13

-----------------------------------------------------------------------------
(* The invariant is inductive.                                              *)

\* What a ready address space is made of.
LEMMA ReadyFacts ==
    ASSUME IInv, space.phys_to_virt
    PROVE  /\ mem \in [Frames -> Table] /\ space.root_paddr \in Nat
           /\ space.root_paddr % PageSize = 0
           /\ Root \in Frames /\ Tree(mem, Root) /\ Root \notin Pool
           /\ FramesInv /\ CallInv /\ LeafInv /\ TypeInv
BY DEF IInv, TypeInv, FramesInv, Tree

\* A call is running only in an address space that is ready.
LEMMA CallReady == ASSUME IInv, call.op # "none" PROVE space.phys_to_virt
<1>1. ~space.phys_to_virt => call = None
  BY Zenon DEF IInv, Unready
<1>2. None.op = "none"
  BY DEF None
<1> QED BY <1>1, <1>2

\* Nothing is mapped or cached before vmm_space_init.
LEMMA InitInv == Init => IInv
<1> SUFFICES ASSUME Init PROVE IInv
  OBVIOUS
<1>1. BootTables \subseteq [Frames -> Table]
  BY VMMConstants
<1> QED BY <1>1 DEF Init, IInv, TypeInv, Unready, None

\* Nothing of the invariant is lost when a call ends that has nothing half
\* done: the returns of vmm_map_page, and vmm_unmap_page on no page.
LEMMA ReturnInv ==
    ASSUME IInv, call.op \in {"none", "map"}, call' = None,
           UNCHANGED <<space, mem, pool, data, tlb>>
    PROVE  IInv'
<1>1. TypeInv'
  BY DEF IInv, TypeInv, None
<1>2. ~space.phys_to_virt => Unready'
  BY DEF IInv, Unready
<1>3. ASSUME space.phys_to_virt PROVE FramesInv' /\ CallInv' /\ LeafInv'
  <2>1. FramesInv /\ LeafInv
    BY <1>3 DEF IInv
  <2>2. Fresh = {} /\ Fresh' = {}
    BY DEF Fresh, None
  <2>3. FramesInv'
    BY <2>1, <2>2 DEF FramesInv, Root
  <2>4. CallInv'
    BY DEF CallInv, None
  <2>5. LeafInv'
    BY <2>1 DEF LeafInv, Root, Safe
  <2> QED BY <2>3, <2>4, <2>5
<1> QED BY <1>1, <1>2, <1>3 DEF IInv

\* vmm_space_init hands over a tree of tables with no page in it (vmm.c:66-81).
LEMMA SpaceInitInv ==
    ASSUME IInv, NEW root_paddr \in Roots, NEW alloc_frame \in BOOLEAN,
           NEW free_frame \in BOOLEAN, NEW phys_to_virt \in BOOLEAN,
           ~space.phys_to_virt,
           vmm_space_init(root_paddr, alloc_frame, free_frame, phys_to_virt)
    PROVE  /\ IInv'
           /\ \A v \in PageAddresses : \A e : space'.phys_to_virt =>
                ~Leaf(mem, Root, Reach, v, e)'
<1>0. Unready /\ TypeInv
  BY DEF IInv
<1>1. CASE ~phys_to_virt \/ ~vmm_is_aligned_4k(root_paddr)
  <2>1. call' = None /\ UNCHANGED <<space, mem, pool, data, tlb>>
    BY <1>1 DEF vmm_space_init, Return
  <2>2. call.op = "none"
    BY <1>0 DEF Unready, None
  <2> QED BY <2>1, <2>2, ReturnInv
<1>2. CASE phys_to_virt /\ vmm_is_aligned_4k(root_paddr)
  <2>1. /\ space' = [root_paddr |-> root_paddr, alloc_frame |-> alloc_frame,
                     free_frame |-> free_frame, phys_to_virt |-> phys_to_virt]
        /\ call' = None /\ UNCHANGED <<mem, pool, data, cr3, tlb>>
    BY <1>2 DEF vmm_space_init, Return
  <2> DEFINE r == root_paddr \div PageSize
  <2>2. Root' = r /\ space'.root_paddr % PageSize = 0 /\ space'.phys_to_virt
    BY <2>1, <1>2 DEF Root, vmm_is_aligned_4k
  <2>3. TypeInv'
    BY <2>1, <1>0, VMMConstants DEF TypeInv, None
  <2>4. /\ r \in Frames \ Pool /\ r \notin {Leads(mem, l) : l \in TreeLinks(mem, r)}
        /\ {Leads(mem, l) : l \in TreeLinks(mem, r)} \subseteq Frames \ Pool
        /\ \A k, l \in TreeLinks(mem, r) : Leads(mem, k) = Leads(mem, l) => k = l
        /\ \A t \in Tier4(mem, r), i \in Indices : ~Present(mem[t][i])
    <3>1. mem \in BootTables /\ root_paddr \in {x \in Roots : vmm_is_aligned_4k(x)}
      BY <1>0, <1>2 DEF Unready
    <3> QED BY <3>1, BootTablesAreTrees, Zenon DEF Tier2, Tier3, Tier4, Indices
  <2>5. Tables(mem, r) \subseteq Frames \ Pool /\ r \notin Tables(mem, r)
    BY <2>4, TablesLinked
  <2>6. Tree(mem, r)
    <3>1. mem \in [Frames -> Table]
      BY <1>0 DEF TypeInv
    <3>2. r \in Frames /\ Tables(mem, r) \subseteq Frames
      BY <2>4, <2>5
    <3> QED BY <3>1, <3>2, <2>4, <2>5, Zenon DEF Tree
  <2> HIDE DEF r
  <2>7. FramesInv'
    <3>1. Fresh' = {}
      BY <2>1 DEF Fresh, None
    <3>2. pool \cup data = Pool
      BY <1>0 DEF Unready
    <3>3. Tree(mem', Root') /\ Tables(mem', Root') = Tables(mem, r) /\ Root' \notin Pool
      BY <2>1, <2>2, <2>4, <2>6
    <3> QED BY <3>1, <3>2, <3>3, <2>1, <2>2, <2>5 DEF FramesInv
  <2>8. CallInv'
    BY <2>1 DEF CallInv, None
  <2>9. ASSUME NEW v \in PageAddresses, NEW e, NEW S \in SUBSET Frames
        PROVE  ~Leaf(mem, r, S, v, e)
    <3>1. v \in Nat /\ Index(v, 4) \in Indices
      BY IndexRange DEF PageAddresses
    <3> QED BY <3>1, <2>4, <2>6, WalkTiers DEF Leaf
  <2>10. \A v \in PageAddresses : \A e : ~Leaf(mem', Root', Reach, v, e)
                                     /\ ~Leaf(mem', Root', Frames, v, e)
    BY <2>1, <2>2, <2>9, FrameFacts
  <2>11. LeafInv'
    <3>1. tlb' = {}
      BY <2>1, <1>0 DEF Unready
    <3> QED BY <2>10, <3>1, Zenon DEF LeafInv
  <2> QED BY <2>2, <2>3, <2>7, <2>8, <2>10, <2>11 DEF IInv
<1> QED BY <1>1, <1>2

\* vmm_map_page starts its walk at the root, with a page its caller may map
\* (vmm.c:84-90).
LEMMA MapPageInv ==
    ASSUME IInv, NEW vaddr \in Vaddrs, NEW paddr \in Paddrs, NEW flags \in FlagSets,
           MayMap(paddr), vmm_map_page(vaddr, paddr, flags)
    PROVE  IInv'
<1> DEFINE refused == \/ ~vmm_is_canonical(vaddr) \/ ~vmm_is_aligned_4k(vaddr)
                      \/ ~vmm_is_aligned_4k(paddr)
                      \/ table_from_phys(space.root_paddr) < 0
<1>0. call = None /\ call.op = "none" /\ UNCHANGED <<space, mem, pool, data, cr3, tlb>>
  BY Zenon DEF vmm_map_page, None
<1>1. CASE refused
  <2>1. call' = None
    BY <1>1 DEF vmm_map_page, Return
  <2> QED BY <1>0, <2>1, ReturnInv
<1>2. CASE ~refused
  <2>1. call' = [op |-> "map", vaddr |-> vaddr, paddr |-> paddr, flags |-> flags,
                 level |-> 1, table |-> table_from_phys(space.root_paddr), fresh |-> 0]
    BY <1>2 DEF vmm_map_page
  <2>2. space.phys_to_virt /\ table_from_phys(space.root_paddr) = Root /\ Root \in Reach
    BY <1>2, FrameFacts DEF table_from_phys, Root, INVAL
  <2>3. TypeInv'
    BY <1>0, <2>1 DEF IInv, TypeInv
  <2>4. FramesInv'
    <3>1. Fresh = {} /\ Fresh' = {}
      BY <1>0, <2>1 DEF Fresh
    <3> QED BY <3>1, <1>0, <2>2, Zenon DEF IInv, FramesInv, Root
  <2>5. CallInv'
    <3>1. vaddr \in PageAddresses
      BY <1>2, VMMConstants DEF PageAddresses
    <3>2. paddr \in Nat /\ paddr % PageSize = 0 /\ flags \in SUBSET Bits
      BY <1>2, VMMConstants DEF vmm_is_aligned_4k
    <3>3. Safe(Masked(paddr))'
      BY <1>0 DEF MayMap, Safe
    <3>4. At(mem, Root, Reach, vaddr, 1, Root)'
      BY <1>0, <2>2 DEF At, At1, Root
    <3>5. Root' = Root
      BY <1>0 DEF Root
    <3>6. /\ call' = [op |-> call'.op, vaddr |-> call'.vaddr, paddr |-> call'.paddr,
                       flags |-> call'.flags, level |-> call'.level,
                       table |-> call'.table, fresh |-> call'.fresh]
          /\ call'.op = "map" /\ call'.vaddr = vaddr /\ call'.paddr = paddr
          /\ call'.flags = flags /\ call'.level = 1
          /\ call'.table = table_from_phys(space.root_paddr)
      BY <2>1
    <3>7. call'.level \in 1..4 /\ call'.op # "link" /\ call'.op # "unmap"
      BY <3>6
    <3>8. Safe(Masked(call.paddr))'
      BY <3>3, <3>6 DEF Safe
    <3>9. At(mem, Root, Reach, call.vaddr, call.level, call.table)'
      BY <2>2, <3>4, <3>5, <3>6
    <3> QED BY <3>1, <3>2, <3>6, <3>7, <3>8, <3>9, Zenon DEF CallInv
  <2>6. LeafInv'
    BY <1>0, <2>1, <2>2, Zenon DEF IInv, LeafInv, Root, Safe
  <2> QED BY <1>0, <2>2, <2>3, <2>4, <2>5, <2>6 DEF IInv
<1> QED BY <1>1, <1>2

\* Where the running vmm_map_page is.
LEMMA SlotFacts ==
    ASSUME IInv, call.op \in {"map", "link"}
    PROVE  /\ space.phys_to_virt /\ call.vaddr \in PageAddresses /\ call.vaddr \in Nat
           /\ call.level \in 1..4 /\ Index(call.vaddr, call.level) \in Indices
           /\ call.table \in Reach /\ call.table \in Frames /\ Slot \in Entry
           /\ At(mem, Root, Reach, call.vaddr, call.level, call.table)
           /\ call.level < 4 => call.table \in Uppers(mem, Root)
           /\ call.level = 4 => call.table \in Tier4(mem, Root)
<1>1. space.phys_to_virt
  BY CallReady
<1>2. /\ call.vaddr \in PageAddresses /\ call.vaddr \in Nat /\ call.level \in 1..4
      /\ At(mem, Root, Reach, call.vaddr, call.level, call.table)
      /\ Tree(mem, Root) /\ mem \in [Frames -> Table] /\ Reach \in SUBSET Frames
  BY <1>1, ReadyFacts, FrameFacts DEF CallInv, PageAddresses
<1>3. Index(call.vaddr, call.level) \in Indices
  <2>1. call.level = 1 \/ call.level = 2 \/ call.level = 3 \/ call.level = 4
    BY <1>2
  <2> QED BY <2>1, <1>2, IndexRange
<1>4. call.table \in Reach /\ call.table \in Frames
  BY <1>2, FrameFacts, Zenon DEF At, At1, At2, At3, At4
<1>5. Slot \in Entry
  BY <1>2, <1>3, <1>4, TableEntry DEF Slot
<1>6. call.level < 4 => call.table \in Uppers(mem, Root)
  BY <1>2, WalkTiers DEF At, Uppers
<1>7. call.level = 4 => call.table \in Tier4(mem, Root)
  BY <1>2, WalkTiers DEF At
<1> QED BY <1>1, <1>2, <1>3, <1>4, <1>5, <1>6, <1>7

\* The walk of vmm_map_page goes down one level.
LEMMA AtNext ==
    ASSUME NEW m, NEW r, NEW S, NEW v, NEW level \in 1..3, NEW t, NEW u \in S,
           At(m, r, S, v, level, t), IsLink(m, t, Index(v, level), u)
    PROVE  At(m, r, S, v, level + 1, u)
<1>1. CASE level = 1
  <2>1. t \in S /\ At1(m, r, S, v, t)
    BY <1>1 DEF At, At1
  <2> QED BY <1>1, <2>1 DEF At, At2
<1>2. CASE level = 2
  <2>1. t \in S /\ At2(m, r, S, v, t)
    BY <1>2 DEF At, At2
  <2> QED BY <1>2, <2>1 DEF At, At3
<1>3. CASE level = 3
  <2>1. t \in S /\ At3(m, r, S, v, t)
    BY <1>3 DEF At, At3
  <2> QED BY <1>3, <2>1 DEF At, At4
<1> QED BY <1>1, <1>2, <1>3

\* One level down along a present entry (vmm.c:33-44).
LEMMA NextTableInv == ASSUME IInv, NextTable PROVE IInv'
<1> DEFINE next == table_from_phys(Masked(Slot.addr))
<1>0. call.op = "map" /\ call.level < 4 /\ Present(Slot)
      /\ UNCHANGED <<space, mem, pool, data, cr3, tlb>>
  BY DEF NextTable
<1>1. CASE Huge(Slot) \/ next < 0
  <2>1. call' = None
    BY <1>1 DEF NextTable, Return
  <2> QED BY <1>0, <2>1, ReturnInv
<1>2. CASE ~Huge(Slot) /\ ~(next < 0)
  <2>1. call' = [call EXCEPT !.level = @ + 1, !.table = next]
    BY <1>2 DEF NextTable
  <2>2. space.phys_to_virt /\ Slot \in Entry /\ call.level \in 1..3
        /\ At(mem, Root, Reach, call.vaddr, call.level, call.table)
    BY <1>0, SlotFacts
  <2>3. next \in Reach /\ next = Slot.addr \div PageSize
    BY <2>2, <1>2, WalkStep, FrameFacts, ReadyFacts
  <2>4. IsLink(mem, call.table, Index(call.vaddr, call.level), next)
    BY <1>0, <1>2, <2>3, Zenon DEF IsLink, Slot
  <2>5. At(mem, Root, Reach, call.vaddr, call.level + 1, next)
    <3> HIDE DEF next
    <3> QED BY <2>2, <2>3, <2>4, AtNext, Zenon
  <2> HIDE DEF next
  <2>6. TypeInv /\ FramesInv /\ CallInv /\ LeafInv
    BY <2>2 DEF IInv
  <2>7. call' = [op |-> "map", vaddr |-> call.vaddr, paddr |-> call.paddr,
                 flags |-> call.flags, level |-> call.level + 1, table |-> next,
                 fresh |-> call.fresh]
    BY <2>1, <2>6, <1>0, Zenon DEF CallInv
  <2>8. TypeInv'
    BY <1>0, <2>6, <2>7 DEF TypeInv
  <2>9. FramesInv'
    <3>1. Fresh = {} /\ Fresh' = {}
      BY <1>0, <2>7 DEF Fresh
    <3> QED BY <3>1, <1>0, <2>6 DEF FramesInv, Root
  <2>10. CallInv'
    <3>1. Root' = Root /\ mem' = mem /\ data' = data
      BY <1>0 DEF Root
    <3>2. /\ call' = [op |-> call'.op, vaddr |-> call'.vaddr, paddr |-> call'.paddr,
                       flags |-> call'.flags, level |-> call'.level,
                       table |-> call'.table, fresh |-> call'.fresh]
          /\ call'.op = "map" /\ call'.vaddr = call.vaddr /\ call'.paddr = call.paddr
          /\ call'.flags = call.flags /\ call'.level = call.level + 1
          /\ call'.table = next
      BY <2>7
    <3>3. call'.level \in 1..4 /\ call'.op # "link" /\ call'.op # "unmap"
      BY <3>2, <2>2
    <3>4. /\ call.vaddr \in PageAddresses /\ call.paddr \in Nat
          /\ call.paddr % PageSize = 0 /\ call.flags \in SUBSET Bits
          /\ Safe(Masked(call.paddr))
      BY <2>6, <1>0, Zenon DEF CallInv
    <3>5. Safe(Masked(call.paddr))'
      BY <3>1, <3>2, <3>4 DEF Safe
    <3>6. At(mem, Root, Reach, call.vaddr, call.level, call.table)'
      BY <2>5, <3>1, <3>2
    <3> QED BY <3>2, <3>3, <3>4, <3>5, <3>6, Zenon DEF CallInv
  <2>11. LeafInv'
    BY <1>0, <2>6, <2>7, Zenon DEF LeafInv, Root, Safe
  <2> QED BY <1>0, <2>2, <2>8, <2>9, <2>10, <2>11 DEF IInv
<1> QED BY <1>1, <1>2

\* No frame for a new table (vmm.c:46-52).
LEMMA AllocFailsInv == ASSUME IInv, AllocFails PROVE IInv'
<1>1. call.op = "map" /\ call' = None /\ UNCHANGED <<space, mem, pool, data, cr3, tlb>>
  BY DEF AllocFails, Return
<1> QED BY <1>1, ReturnInv

\* A frame phys_to_virt does not reach goes back to the allocator, or is lost
\* for want of a free_frame (vmm.c:53-59).
LEMMA AllocUnreachableInv == ASSUME IInv, AllocUnreachable PROVE IInv'
<1>0. call.op = "map" /\ call' = None /\ UNCHANGED <<space, mem, data, cr3, tlb>>
  BY DEF AllocUnreachable, Return
<1>1. space.phys_to_virt /\ TypeInv /\ FramesInv /\ LeafInv
  BY <1>0, CallReady, ReadyFacts
<1>2. PICK f \in pool \ Reach : pool' = IF space.free_frame THEN pool ELSE pool \ {f}
  BY Zenon DEF AllocUnreachable, Lowest
<1>3. TypeInv'
  BY <1>0, <1>1, <1>2 DEF TypeInv, None
<1>4. FramesInv'
  <2>1. Fresh = {} /\ Fresh' = {} /\ Root' = Root
    BY <1>0 DEF Fresh, None, Root
  <2>2. f \in Pool \ Reach
    BY <1>0, <1>1, <1>2 DEF TypeInv
  <2>3. CASE space.free_frame
    BY <2>1, <2>3, <1>0, <1>1, <1>2 DEF FramesInv
  <2>4. CASE ~space.free_frame
    <3>1. pool' = pool \ {f}
      BY <2>4, <1>2
    <3> QED BY <2>1, <2>2, <2>4, <3>1, <1>0, <1>1 DEF FramesInv
  <2> QED BY <2>3, <2>4
<1>5. CallInv'
  BY <1>0 DEF CallInv, None
<1>6. LeafInv'
  BY <1>0, <1>1, Zenon DEF LeafInv, Root, Safe
<1> QED BY <1>0, <1>1, <1>3, <1>4, <1>5, <1>6 DEF IInv

\* The frame about to become a table is no table yet: clearing it changes no
\* walk and no page (vmm.c:60).
LEMMA AllocTableInv ==
    ASSUME IInv, AllocTable
    PROVE  IInv' /\ \A v \in PageAddresses : \A e :
                      Leaf(mem, Root, Reach, v, e)' <=> Leaf(mem, Root, Reach, v, e)
<1>0. PICK f \in pool \cap Reach :
      /\ call.op = "map" /\ call.level < 4 /\ ~Present(Slot)
      /\ pool' = pool \ {f} /\ mem' = [mem EXCEPT ![f] = vmm_zero_page]
      /\ call' = [call EXCEPT !.op = "link", !.fresh = f]
      /\ UNCHANGED <<space, data, cr3, tlb, ret>>
  BY Zenon DEF AllocTable, Lowest
<1>1. /\ space.phys_to_virt /\ TypeInv /\ FramesInv /\ CallInv /\ LeafInv
      /\ Tree(mem, Root) /\ mem \in [Frames -> Table] /\ Root \notin Pool
  BY <1>0, CallReady, ReadyFacts
<1>2. f \in pool /\ f \in Reach
  OBVIOUS
<1>3. f \in Pool /\ f \in Frames /\ f \notin data /\ f \notin Tables(mem, Root) /\ f # Root
  BY <1>1, <1>2, FrameFacts DEF TypeInv, FramesInv
<1>4. mem' \in [Frames -> Table] /\ mem'[f] = vmm_zero_page /\ \A a \in Frames : a # f => mem'[a] = mem[a]
  <2>1. Empty \in Entry
    BY VMMConstants DEF Empty, Entry
  <2>2. vmm_zero_page \in Table
    BY <2>1 DEF vmm_zero_page, Table
  <2> QED BY <2>2, <1>0, <1>1, <1>3
<1>5. \A a \in Uppers(mem, Root) : mem'[a] = mem[a] /\ a # f
  BY <1>3, <1>4, <1>1, OneLink DEF Uppers, Tables
<1>6. Tree(mem', Root) /\ Tables(mem', Root) = Tables(mem, Root)
  BY <1>1, <1>4, <1>5, TreeKept
<1>7. ASSUME NEW S \in SUBSET Frames, NEW v \in Nat, NEW t
      PROVE  /\ At1(mem', Root, S, v, t) <=> At1(mem, Root, S, v, t)
             /\ At2(mem', Root, S, v, t) <=> At2(mem, Root, S, v, t)
             /\ At3(mem', Root, S, v, t) <=> At3(mem, Root, S, v, t)
             /\ At4(mem', Root, S, v, t) <=> At4(mem, Root, S, v, t)
  BY <1>1, <1>4, <1>5, WalksKept
<1>8. ASSUME NEW S \in SUBSET Frames, NEW v \in PageAddresses, NEW e
      PROVE  Leaf(mem', Root, S, v, e) <=> Leaf(mem, Root, S, v, e)
  <2>1. v \in Nat
    BY DEF PageAddresses
  <2>2. \A t \in S : At4(mem, Root, S, v, t) => t # f
    BY <2>1, <1>1, <1>3, WalkTiers DEF Tables
  <2>3. \A t \in S : At4(mem, Root, S, v, t) => mem'[t] = mem[t]
    BY <2>2, <1>4
  <2> QED BY <2>1, <2>3, <1>7 DEF Leaf
<1>9. Root' = Root
  BY <1>0 DEF Root
<1>10. call' = [op |-> "link", vaddr |-> call.vaddr, paddr |-> call.paddr,
                flags |-> call.flags, level |-> call.level, table |-> call.table,
                fresh |-> f]
  BY <1>0, <1>1, Zenon DEF CallInv
<1>11. TypeInv'
  BY <1>0, <1>1, <1>4, <1>10 DEF TypeInv
<1>12. FramesInv'
  <2>1. Fresh = {} /\ Fresh' = {f}
    BY <1>0, <1>10 DEF Fresh
  <2>2. Tables(mem', Root') = Tables(mem, Root) /\ Tree(mem', Root')
    BY <1>6, <1>9
  <2> QED BY <2>1, <2>2, <1>0, <1>1, <1>2, <1>3, <1>9 DEF FramesInv
<1>13. CallInv'
  <2>1. At(mem', Root', Reach, call.vaddr, call.level, call.table)
    <3>1. Reach \in SUBSET Frames /\ call.vaddr \in Nat
      BY <1>0, SlotFacts, FrameFacts
    <3> QED BY <3>1, <1>0, <1>7, <1>9, SlotFacts, Zenon DEF At
  <2>2. Slot' = Slot
    <3>1. call.table \in Uppers(mem, Root)
      BY <1>0, SlotFacts
    <3> QED BY <3>1, <1>5, <1>10 DEF Slot
  <2> QED BY <2>1, <2>2, <1>0, <1>1, <1>3, <1>4, <1>10, Zenon DEF CallInv, Safe
<1>14. LeafInv'
  <2>1. \A S \in {Reach, Frames}, v \in PageAddresses : \A e :
          Leaf(mem', Root', S, v, e) <=> Leaf(mem, Root, S, v, e)
    BY <1>8, <1>9, FrameFacts
  <2>2. \A x \in [vaddr : PageAddresses, addr : Nat, bits : SUBSET Bits] :
          Backed(mem, Root, x) => Backed(mem', Root', x)
    <3> SUFFICES ASSUME NEW x \in [vaddr : PageAddresses, addr : Nat, bits : SUBSET Bits],
                        Backed(mem, Root, x)
                 PROVE  Backed(mem', Root', x)
      BY Zenon
    <3>1. x.vaddr \in PageAddresses
      OBVIOUS
    <3>2. \A e : Leaf(mem, Root, Reach, x.vaddr, e) => Leaf(mem', Root', Reach, x.vaddr, e)
      BY <3>1, <2>1
    <3> QED BY <3>2, Backing
  <2> QED BY <2>1, <2>2, <1>0, <1>1, <1>10, Zenon DEF LeafInv, Safe
<1>15. \A v \in PageAddresses : \A e :
         Leaf(mem, Root, Reach, v, e)' <=> Leaf(mem, Root, Reach, v, e)
  BY <1>8, <1>9, FrameFacts
<1> QED BY <1>0, <1>1, <1>11, <1>12, <1>13, <1>14, <1>15, Zenon DEF IInv

\* Linking the cleared table lets the walk go on and adds no page (vmm.c:61).
LEMMA LinkTableInv ==
    ASSUME IInv, LinkTable
    PROVE  IInv' /\ \A v \in PageAddresses : \A e :
                      Leaf(mem, Root, Reach, v, e)' <=> Leaf(mem, Root, Reach, v, e)
<1> DEFINE f == call.fresh
           t == call.table
           i == Index(call.vaddr, call.level)
<1>0. /\ call.op = "link"
      /\ mem' = [mem EXCEPT ![t][i] = [addr |-> Masked(f * PageSize),
                                       bits |-> {"PRESENT", "WRITABLE"}]]
      /\ call' = [call EXCEPT !.op = "map", !.level = @ + 1, !.table = call.fresh,
                              !.fresh = 0]
      /\ UNCHANGED <<space, pool, data, cr3, tlb, ret>>
  BY DEF LinkTable
<1>1. /\ space.phys_to_virt /\ TypeInv /\ FramesInv /\ CallInv /\ LeafInv
      /\ Tree(mem, Root) /\ mem \in [Frames -> Table] /\ Root \notin Pool
  BY <1>0, CallReady, ReadyFacts
<1>2. /\ call.level \in 1..3 /\ ~Present(mem[t][i]) /\ f \in Pool /\ f \in Reach
      /\ f \in Frames /\ mem[f] = vmm_zero_page
  BY <1>0, <1>1, FrameFacts DEF CallInv, Slot
<1>3. /\ call.vaddr \in Nat /\ t \in Uppers(mem, Root) /\ t \in Frames /\ i \in Indices
      /\ At(mem, Root, Reach, call.vaddr, call.level, t)
  BY <1>0, <1>2, SlotFacts
<1>4. f \notin Tables(mem, Root) /\ f # Root /\ f \notin pool \cup data
  BY <1>0, <1>1, <1>2 DEF FramesInv, Fresh
<1>5. Linked(mem, mem', t, i, f)
  BY <1>0, <1>2, <1>3 DEF Linked
<1>6. call' = [op |-> "map", vaddr |-> call.vaddr, paddr |-> call.paddr,
               flags |-> call.flags, level |-> call.level + 1, table |-> f, fresh |-> 0]
  BY <1>0, <1>1, Zenon DEF CallInv
<1>7. Root' = Root
  BY <1>0 DEF Root
<1>8. UNCHANGED <<space, pool, data, tlb>>
  BY <1>0
<1>9. call.op = "link"
  BY <1>0
<1> HIDE DEF f, t, i
<1>10. Tree(mem', Root) /\ Tables(mem', Root) = Tables(mem, Root) \cup {f}
  BY <1>1, <1>3, <1>4, <1>5, TreeGrows
<1>11. mem' \in [Frames -> Table]
  BY <1>10 DEF Tree
<1>12. IsLink(mem', t, i, f)
  <2>1. t # f
    BY <1>3, <1>4 DEF Uppers, Tables
  <2> QED BY <2>1, <1>1, <1>5, LinkedEntries
<1>13. ASSUME NEW S \in SUBSET Frames, NEW v \in PageAddresses, NEW e
       PROVE  Leaf(mem', Root, S, v, e) <=> Leaf(mem, Root, S, v, e)
  <2>1. v \in Nat
    BY DEF PageAddresses
  <2> QED BY <2>1, <1>1, <1>3, <1>4, <1>5, WalksGrow
<1>14. TypeInv'
  BY <1>1, <1>6, <1>8, <1>11 DEF TypeInv
<1>15. FramesInv'
  <2>1. Fresh = {f} /\ Fresh' = {}
    BY <1>6, <1>9 DEF Fresh, f
  <2>2. Tables(mem', Root') = Tables(mem, Root) \cup {f} /\ Tree(mem', Root')
    BY <1>7, <1>10
  <2> QED BY <2>1, <2>2, <1>1, <1>4, <1>7, <1>8 DEF FramesInv
<1>16. CallInv'
  <2>1. At(mem', Root, Reach, call.vaddr, call.level, t)
    <3>1. Reach \in SUBSET Frames
      BY FrameFacts
    <3> QED BY <3>1, <1>1, <1>3, <1>4, <1>5, WalksGrow, Zenon DEF At
  <2>2. At(mem', Root, Reach, call.vaddr, call.level + 1, f)
    BY <2>1, <1>2, <1>12, AtNext DEF i
  <2>3. At(mem', Root', Reach, call'.vaddr, call'.level, call'.table)
    BY <2>2, <1>6, <1>7
  <2>4. /\ call' = [op |-> call'.op, vaddr |-> call'.vaddr, paddr |-> call'.paddr,
                     flags |-> call'.flags, level |-> call'.level,
                     table |-> call'.table, fresh |-> call'.fresh]
        /\ call'.op = "map" /\ call'.vaddr = call.vaddr /\ call'.paddr = call.paddr
        /\ call'.flags = call.flags /\ call'.level = call.level + 1
    BY <1>6
  <2>5. call'.level \in 1..4 /\ call'.op # "link" /\ call'.op # "unmap"
    BY <2>4, <1>2
  <2>6. /\ call.vaddr \in PageAddresses /\ call.paddr \in Nat
        /\ call.paddr % PageSize = 0 /\ call.flags \in SUBSET Bits
        /\ Safe(Masked(call.paddr))
    BY <1>1, <1>2, <1>9, Zenon DEF CallInv
  <2>7. Safe(Masked(call.paddr))'
    BY <1>8, <2>4, <2>6 DEF Safe
  <2> QED BY <2>3, <2>4, <2>5, <2>6, <2>7, Zenon DEF CallInv
<1>17. LeafInv'
  <2>1. \A S \in {Reach, Frames}, v \in PageAddresses : \A e :
          Leaf(mem', Root', S, v, e) <=> Leaf(mem, Root, S, v, e)
    BY <1>7, <1>13, FrameFacts
  <2>2. \A x \in [vaddr : PageAddresses, addr : Nat, bits : SUBSET Bits] :
          Backed(mem, Root, x) => Backed(mem', Root', x)
    <3> SUFFICES ASSUME NEW x \in [vaddr : PageAddresses, addr : Nat, bits : SUBSET Bits],
                        Backed(mem, Root, x)
                 PROVE  Backed(mem', Root', x)
      BY Zenon
    <3>1. x.vaddr \in PageAddresses
      OBVIOUS
    <3>2. \A e : Leaf(mem, Root, Reach, x.vaddr, e) => Leaf(mem', Root', Reach, x.vaddr, e)
      BY <3>1, <2>1
    <3> QED BY <3>2, Backing
  <2> QED BY <2>1, <2>2, <1>1, <1>6, <1>8, <1>9, Zenon DEF LeafInv, Safe
<1>18. \A v \in PageAddresses : \A e :
         Leaf(mem, Root, Reach, v, e)' <=> Leaf(mem, Root, Reach, v, e)
  BY <1>7, <1>13, FrameFacts
<1> QED BY <1>1, <1>8, <1>14, <1>15, <1>16, <1>17, <1>18 DEF IInv

\* The end of vmm_map_page: its page is there, and every other is as it was.
LEMMA MapLeafInv ==
    ASSUME IInv, MapLeaf
    PROVE  /\ IInv'
           /\ \/ ret' = EXISTS /\ UNCHANGED <<space, mem>>
              \/ /\ ret' = OK /\ call.vaddr \in PageAddresses
                 /\ \A e : ~Leaf(mem, Root, Reach, call.vaddr, e)
                 /\ \A v \in PageAddresses : \A e :
                      Leaf(mem, Root, Reach, v, e)' <=>
                        IF v = call.vaddr
                        THEN e = [addr |-> Masked(call.paddr),
                                  bits |-> {"PRESENT"} \cup (call.flags \cap allowed)]
                        ELSE Leaf(mem, Root, Reach, v, e)
<1> DEFINE v0 == call.vaddr
           t == call.table
           x == [addr |-> Masked(call.paddr),
                 bits |-> {"PRESENT"} \cup (call.flags \cap allowed)]
<1>0. call.op = "map" /\ call.level = 4 /\ call' = None
      /\ UNCHANGED <<space, pool, data, cr3, tlb>>
  BY DEF MapLeaf, Return
<1>1. CASE Present(Slot)
  <2>1. ret' = EXISTS /\ UNCHANGED mem
    BY <1>1 DEF MapLeaf, Return
  <2> QED BY <1>0, <2>1, ReturnInv, Zenon
<1>2. CASE ~Present(Slot)
  <2>1. ret' = OK /\ mem' = [mem EXCEPT ![t][Index(v0, 4)] = x]
    BY <1>2 DEF MapLeaf, Return
  <2>2. /\ space.phys_to_virt /\ TypeInv /\ FramesInv /\ CallInv /\ LeafInv
        /\ Tree(mem, Root) /\ mem \in [Frames -> Table]
    BY <1>0, CallReady, ReadyFacts
  <2>3. /\ v0 \in PageAddresses /\ call.paddr \in Nat /\ call.paddr % PageSize = 0
        /\ call.flags \in SUBSET Bits /\ Safe(Masked(call.paddr))
        /\ At4(mem, Root, Reach, v0, t)
    BY <1>0, <2>2 DEF CallInv, At
  <2>4. x \in Entry /\ Present(x)
    <3>1. Masked(call.paddr) \in 0..(PhysMod - 1) /\ Masked(call.paddr) % PageSize = 0
      BY <2>3, MaskedField
    <3>2. {"PRESENT"} \cup (call.flags \cap allowed) \in SUBSET Bits
      BY DEF allowed, Bits
    <3> QED BY <3>1, <3>2 DEF Entry, Present
  <2>5. Written(mem, mem', t, Index(v0, 4), x)
    BY <2>1 DEF Written
  <2>6. Root' = Root
    BY <1>0 DEF Root
  <2>7. \A e : ~Leaf(mem, Root, Reach, v0, e)
    BY <1>0, <1>2, <2>3, WalkUnique, Zenon DEF Leaf, Slot
  <2>8. x.addr = Masked(call.paddr)
    OBVIOUS
  <2>9. UNCHANGED <<space, pool, data, tlb>> /\ ret' = OK
    BY <1>0, <2>1
  <2> HIDE DEF x, v0, t
  <2>10. /\ mem' \in [Frames -> Table] /\ Tree(mem', Root)
         /\ Tables(mem', Root) = Tables(mem, Root)
         /\ \A e : Leaf(mem', Root, Reach, v0, e) <=> e = x
         /\ \A e : Leaf(mem', Root, Frames, v0, e) <=> e = x
         /\ SameElsewhere(mem, mem', Root, v0)
    <3>1. /\ mem' \in [Frames -> Table] /\ Tree(mem', Root)
          /\ Tables(mem', Root) = Tables(mem, Root)
          /\ \A e : Leaf(mem', Root, Reach, v0, e) <=> e = x /\ Present(x)
          /\ \A e : Leaf(mem', Root, Frames, v0, e) <=> e = x /\ Present(x)
          /\ SameElsewhere(mem, mem', Root, v0)
      <4>1. /\ Tree(mem, Root) /\ v0 \in PageAddresses /\ x \in Entry
            /\ At4(mem, Root, Reach, v0, t) /\ Written(mem, mem', t, Index(v0, 4), x)
        BY <2>2, <2>3, <2>4, <2>5, Zenon
      <4> QED BY <4>1, LeafWritten
    <3> QED BY <3>1, <2>4, Zenon
  <2>11. \A w \in PageAddresses : \A e : w # v0 =>
           /\ Leaf(mem', Root, Reach, w, e) <=> Leaf(mem, Root, Reach, w, e)
           /\ Leaf(mem', Root, Frames, w, e) <=> Leaf(mem, Root, Frames, w, e)
    BY <2>10 DEF SameElsewhere
  <2>12. TypeInv'
    BY <1>0, <2>2, <2>9, <2>10, Zenon DEF TypeInv, None
  <2>13. FramesInv'
    <3>1. Fresh = {} /\ Fresh' = {}
      BY <1>0 DEF Fresh, None
    <3>2. Tables(mem', Root') = Tables(mem, Root) /\ Tree(mem', Root')
      BY <2>6, <2>10
    <3> QED BY <3>1, <3>2, <2>2, <2>6, <2>9 DEF FramesInv
  <2>14. CallInv'
    BY <1>0 DEF CallInv, None
  <2>15. LeafInv'
    <3>1. \A w \in PageAddresses, e \in Entry :
            /\ Leaf(mem', Root', Frames, w, e) => Leaf(mem', Root', Reach, w, e)
            /\ Leaf(mem', Root', Reach, w, e) => Safe(e.addr)'
      <4>1. \A w \in PageAddresses, e \in Entry :
              /\ Leaf(mem, Root, Frames, w, e) => Leaf(mem, Root, Reach, w, e)
              /\ Leaf(mem, Root, Reach, w, e) => Safe(e.addr)
        BY <2>2, Zenon DEF LeafInv
      <4>2. \A p : Safe(p)' <=> Safe(p)
        BY <2>9 DEF Safe
      <4>3. Safe(x.addr)
        BY <2>3, <2>8
      <4> QED BY <4>1, <4>2, <4>3, <2>6, <2>10, <2>11
    <3>2. ASSUME NEW y \in tlb'
          PROVE  /\ y \in [vaddr : PageAddresses, addr : Nat, bits : SUBSET Bits]
                 /\ Safe(y.addr)'
                 /\ Backed(mem', Root', y)
      <4>1. /\ y \in [vaddr : PageAddresses, addr : Nat, bits : SUBSET Bits]
            /\ Safe(y.addr)
            /\ Backed(mem, Root, y)
        BY <1>0, <2>2, <2>9, Zenon DEF LeafInv
      <4>2. y.vaddr # v0 /\ y.vaddr \in PageAddresses
        BY <4>1, <2>7 DEF Backed
      <4>3. Backed(mem', Root', y)
        BY <4>1, <4>2, <2>6, <2>11, Backing
      <4> QED BY <4>1, <4>3, <2>9 DEF Safe
    <3> QED BY <3>1, <3>2, Zenon DEF LeafInv
  <2>16. \A v \in PageAddresses : \A e :
           Leaf(mem, Root, Reach, v, e)' <=>
             IF v = v0 THEN e = x ELSE Leaf(mem, Root, Reach, v, e)
    BY <2>6, <2>10, <2>11
  <2>17. IInv'
    BY <2>2, <2>9, <2>12, <2>13, <2>14, <2>15 DEF IInv
  <2> QED BY <2>3, <2>7, <2>9, <2>16, <2>17, Zenon DEF x, v0
<1> QED BY <1>1, <1>2, Zenon

\* vmm_unmap_page up to the cleared entry: its page is gone, and every other
\* is as it was.
LEMMA UnmapInv ==
    ASSUME IInv, NEW vaddr \in Vaddrs, vmm_unmap_page(vaddr)
    PROVE  /\ IInv'
           /\ \/ UNCHANGED <<space, mem>>
              \/ /\ space.phys_to_virt /\ space' = space /\ vaddr \in PageAddresses
                 /\ \E e \in Entry : Leaf(mem, Root, Reach, vaddr, e)
                 /\ \A v \in PageAddresses : \A e :
                      Leaf(mem, Root, Reach, v, e)' <=>
                        v # vaddr /\ Leaf(mem, Root, Reach, v, e)
<1> DEFINE pt == Walk(vaddr)
<1>0. call = None /\ call.op = "none" /\ UNCHANGED <<space, pool, data, cr3, tlb>>
  BY DEF vmm_unmap_page, None
<1>1. CASE vmm_query_page(vaddr).rc # OK
  <2>1. call' = None /\ UNCHANGED mem
    BY <1>1 DEF vmm_unmap_page, Return
  <2> QED BY <1>0, <2>1, ReturnInv
<1>2. CASE vmm_query_page(vaddr).rc = OK
  <2>1. /\ mem' = [mem EXCEPT ![pt][Index(vaddr, 4)] = Empty]
        /\ call' = [None EXCEPT !.op = "unmap", !.vaddr = vaddr]
    BY <1>2 DEF vmm_unmap_page
  <2>2. vaddr \in PageAddresses
    <3>1. vmm_is_canonical(vaddr) /\ vmm_is_aligned_4k(vaddr)
      BY <1>2, QueryInvalid DEF OK, INVAL
    <3> QED BY <3>1, VMMConstants DEF PageAddresses
  <2>3. space.phys_to_virt
    <3> SUFFICES ASSUME ~space.phys_to_virt PROVE FALSE
      BY DEF IInv, TypeInv
    <3> QED BY <1>2, <2>2, QueryUnready DEF OK, INVAL
  <2>4. /\ TypeInv /\ FramesInv /\ CallInv /\ LeafInv /\ space.root_paddr \in Nat
        /\ Tree(mem, Root) /\ mem \in [Frames -> Table] /\ space.root_paddr % PageSize = 0
    BY <2>3, ReadyFacts
  <2>5. PICK y \in Entry : Leaf(mem, Root, Reach, vaddr, y)
    BY <1>2, <2>2, <2>3, <2>4, QueryLeaf
  <2>6. At4(mem, Root, Reach, vaddr, pt)
    BY <2>2, <2>3, <2>4, <2>5, WalkEnds DEF Leaf
  <2>7. Empty \in Entry /\ ~Present(Empty)
    BY VMMConstants DEF Empty, Entry, Present
  <2>8. Written(mem, mem', pt, Index(vaddr, 4), Empty)
    BY <2>1 DEF Written
  <2>9. Root' = Root
    BY <1>0 DEF Root
  <2>10. call'.op = "unmap" /\ call'.vaddr = vaddr
    BY <2>1 DEF None
  <2> HIDE DEF pt
  <2>11. /\ mem' \in [Frames -> Table] /\ Tree(mem', Root)
         /\ Tables(mem', Root) = Tables(mem, Root)
         /\ \A e : ~Leaf(mem', Root, Reach, vaddr, e)
         /\ \A e : ~Leaf(mem', Root, Frames, vaddr, e)
         /\ SameElsewhere(mem, mem', Root, vaddr)
    BY <2>2, <2>4, <2>6, <2>7, <2>8, LeafWritten, Zenon
  <2>12. \A w \in PageAddresses : \A e : w # vaddr =>
           /\ Leaf(mem', Root, Reach, w, e) <=> Leaf(mem, Root, Reach, w, e)
           /\ Leaf(mem', Root, Frames, w, e) <=> Leaf(mem, Root, Frames, w, e)
    BY <2>11 DEF SameElsewhere
  <2>13. TypeInv'
    BY <1>0, <2>4, <2>10, <2>11 DEF TypeInv
  <2>14. FramesInv'
    <3>1. Fresh = {} /\ Fresh' = {}
      BY <1>0, <2>10 DEF Fresh
    <3>2. Tables(mem', Root') = Tables(mem, Root) /\ Tree(mem', Root')
      BY <2>9, <2>11
    <3> QED BY <3>1, <3>2, <1>0, <2>4, <2>9 DEF FramesInv
  <2>15. CallInv'
    BY <2>2, <2>9, <2>10, <2>11 DEF CallInv
  <2>16. LeafInv'
    <3>1. \A w \in PageAddresses, e \in Entry :
            /\ Leaf(mem', Root', Frames, w, e) => Leaf(mem', Root', Reach, w, e)
            /\ Leaf(mem', Root', Reach, w, e) => Safe(e.addr)'
      <4>1. \A w \in PageAddresses, e \in Entry :
              /\ Leaf(mem, Root, Frames, w, e) => Leaf(mem, Root, Reach, w, e)
              /\ Leaf(mem, Root, Reach, w, e) => Safe(e.addr)
        BY <2>4, Zenon DEF LeafInv
      <4>2. \A p : Safe(p)' <=> Safe(p)
        BY <1>0 DEF Safe
      <4> QED BY <4>1, <4>2, <2>9, <2>11, <2>12
    <3>2. ASSUME NEW z \in tlb'
          PROVE  /\ z \in [vaddr : PageAddresses, addr : Nat, bits : SUBSET Bits]
                 /\ Safe(z.addr)'
                 /\ \/ call'.op = "unmap" /\ call'.vaddr = z.vaddr
                    \/ Backed(mem', Root', z)
      <4>1. /\ z \in [vaddr : PageAddresses, addr : Nat, bits : SUBSET Bits]
            /\ Safe(z.addr)
            /\ Backed(mem, Root, z)
        BY <1>0, <2>4, Zenon DEF LeafInv
      <4>2. z.vaddr \in PageAddresses
        BY <4>1
      <4>3. z.vaddr # vaddr => Backed(mem', Root', z)
        BY <4>1, <4>2, <2>9, <2>12, Backing
      <4> QED BY <4>1, <4>3, <1>0, <2>10 DEF Safe
    <3> QED BY <3>1, <3>2, Zenon DEF LeafInv
  <2>17. IInv'
    BY <1>0, <2>3, <2>13, <2>14, <2>15, <2>16 DEF IInv
  <2>18. \A v \in PageAddresses : \A e :
           Leaf(mem, Root, Reach, v, e)' <=> v # vaddr /\ Leaf(mem, Root, Reach, v, e)
    BY <2>9, <2>11, <2>12
  <2> QED BY <1>0, <2>2, <2>3, <2>5, <2>17, <2>18
<1> QED BY <1>1, <1>2

\* The rest of vmm_unmap_page: whatever the CPU kept for the page goes.
LEMMA InvalidateInv == ASSUME IInv, vmm_invalidate_page PROVE IInv'
<1>0. /\ call.op = "unmap" /\ tlb' = {e \in tlb : e.vaddr # call.vaddr}
      /\ call' = None /\ UNCHANGED <<space, mem, pool, data, cr3>>
  BY DEF vmm_invalidate_page, Return
<1>1. space.phys_to_virt /\ TypeInv /\ FramesInv /\ LeafInv
  BY <1>0, CallReady, ReadyFacts
<1>2. TypeInv'
  BY <1>0, <1>1 DEF TypeInv, None
<1>3. FramesInv'
  <2>1. Fresh = {} /\ Fresh' = {}
    BY <1>0 DEF Fresh, None
  <2> QED BY <2>1, <1>0, <1>1, Zenon DEF FramesInv, Root
<1>4. CallInv'
  BY <1>0, Zenon DEF CallInv, None
<1>5. LeafInv'
  BY <1>0, <1>1, Zenon DEF LeafInv, Root, Safe
<1> QED BY <1>0, <1>1, <1>2, <1>3, <1>4, <1>5, Zenon DEF IInv

\* Loading cr3 only drops translations (vmm.c:174-176).
LEMMA WriteCr3Inv == ASSUME IInv, NEW value, vmm_write_cr3(value) PROVE IInv'
<1>0. /\ tlb' = {e \in tlb : "GLOBAL" \in e.bits}
      /\ UNCHANGED <<space, mem, pool, data, call>>
  BY DEF vmm_write_cr3
<1>1. TypeInv' /\ (~space.phys_to_virt => Unready')
  BY <1>0 DEF IInv, TypeInv, Unready
<1>2. ASSUME space.phys_to_virt PROVE FramesInv' /\ CallInv' /\ LeafInv'
  <2>1. FramesInv /\ CallInv /\ LeafInv
    BY <1>2 DEF IInv
  <2>2. FramesInv'
    BY <1>0, <2>1, Zenon DEF FramesInv, Fresh, Root
  <2>3. CallInv'
    BY <1>0, <2>1, Zenon DEF CallInv, Safe, Slot, Root
  <2>4. LeafInv'
    BY <1>0, <2>1, Zenon DEF LeafInv, Safe, Root
  <2> QED BY <2>2, <2>3, <2>4
<1> QED BY <1>0, <1>1, <1>2 DEF IInv

\* What the CPU adds to the TLB, inside a call or outside, is what
\* vmm_query_page would have found.
LEMMA CpuWalksInv == ASSUME IInv, NEW vaddr \in Vaddrs, CpuWalks(vaddr) PROVE IInv'
<1> DEFINE e == Translate(vaddr)
           x == [vaddr |-> vaddr, addr |-> e.addr, bits |-> e.bits]
<1>0. /\ space.phys_to_virt /\ cr3 = space.root_paddr
      /\ vmm_is_canonical(vaddr) /\ vmm_is_aligned_4k(vaddr) /\ Present(e)
      /\ tlb' = tlb \cup {x} /\ UNCHANGED <<space, mem, pool, data, cr3, call, ret>>
  BY DEF CpuWalks
<1>1. /\ TypeInv /\ FramesInv /\ CallInv /\ LeafInv /\ space.root_paddr \in Nat
      /\ Tree(mem, Root) /\ mem \in [Frames -> Table] /\ space.root_paddr % PageSize = 0
      /\ Root \in Frames
  BY <1>0, ReadyFacts
<1>2. vaddr \in PageAddresses
  BY <1>0, VMMConstants DEF PageAddresses
<1>3. e \in Entry /\ \E y \in Entry : Leaf(mem, Root, Frames, vaddr, y) /\ Within(e, y)
  BY <1>0, <1>1, <1>2, TranslateLeaf
<1> HIDE DEF e
<1>4. PICK y \in Entry : Leaf(mem, Root, Reach, vaddr, y) /\ Within(e, y) /\ Safe(y.addr)
  BY <1>1, <1>2, <1>3, Zenon DEF LeafInv
<1>5. /\ x \in [vaddr : PageAddresses, addr : Nat, bits : SUBSET Bits]
      /\ x.addr = y.addr /\ x.vaddr = vaddr /\ Within(x, y)
  <2>1. x.addr = e.addr /\ x.bits = e.bits /\ x.vaddr = vaddr
    OBVIOUS
  <2>2. x.addr = y.addr /\ Within(x, y)
    BY <2>1, <1>4, Zenon DEF Within
  <2> QED BY <2>1, <2>2, <1>2, <1>3, EntryFrame DEF Entry
<1> HIDE DEF x
<1>6. TypeInv' /\ FramesInv' /\ CallInv'
  <2>1. TypeInv'
    BY <1>0, <1>1 DEF TypeInv
  <2>2. FramesInv'
    BY <1>0, <1>1 DEF FramesInv, Fresh, Root
  <2>3. CallInv'
    BY <1>0, <1>1, Zenon DEF CallInv, Safe, Slot, Root
  <2> QED BY <2>1, <2>2, <2>3
<1>7. LeafInv'
  <2>1. Root' = Root /\ mem' = mem /\ call' = call /\ \A p : Safe(p)' <=> Safe(p)
    BY <1>0 DEF Root, Safe
  <2>2. Backed(mem, Root, x) /\ Safe(x.addr)
    BY <1>4, <1>5, Zenon DEF Backed
  <2> QED BY <2>1, <2>2, <1>0, <1>1, <1>5, Zenon DEF LeafInv
<1> QED BY <1>0, <1>6, <1>7 DEF IInv

\* A caller takes a free frame: no page leads to it.
LEMMA TakeFrameInv == ASSUME IInv, NEW f \in pool, TakeFrame(f) PROVE IInv'
<1>0. /\ call = None /\ call.op = "none" /\ pool' = pool \ {f} /\ data' = data \cup {f}
      /\ UNCHANGED <<space, mem, cr3, tlb, call, ret>>
  BY DEF TakeFrame, None
<1>1. TypeInv'
  BY <1>0 DEF IInv, TypeInv
<1>2. ~space.phys_to_virt => Unready'
  BY <1>0 DEF IInv, Unready
<1>3. ASSUME space.phys_to_virt PROVE FramesInv' /\ CallInv' /\ LeafInv'
  <2>1. FramesInv /\ LeafInv
    BY <1>3 DEF IInv
  <2>2. FramesInv'
    <3>1. pool' \cup data' = pool \cup data /\ Fresh' = Fresh /\ Root' = Root
      BY <1>0 DEF Fresh, Root
    <3> QED BY <3>1, <2>1, <1>0 DEF FramesInv
  <2>3. CallInv'
    BY <1>0 DEF CallInv
  <2>4. LeafInv'
    <3>1. Root' = Root /\ \A p : Safe(p) => Safe(p)'
      BY <1>0 DEF Root, Safe
    <3> QED BY <3>1, <2>1, <1>0, Zenon DEF LeafInv
  <2> QED BY <2>2, <2>3, <2>4
<1> QED BY <1>0, <1>1, <1>2, <1>3 DEF IInv

\* A frame no page leads to is not in the TLB either, so it may go back.
LEMMA GiveFrameInv == ASSUME IInv, NEW f \in data, GiveFrame(f) PROVE IInv'
<1>0. /\ call = None /\ call.op = "none" /\ pool' = pool \cup {f} /\ data' = data \ {f}
      /\ \A v \in Mapped : vmm_query_page(v).paddr # f * PageSize
      /\ UNCHANGED <<space, mem, cr3, tlb, call, ret>>
  BY DEF GiveFrame, None
<1>1. TypeInv'
  BY <1>0 DEF IInv, TypeInv
<1>2. ~space.phys_to_virt => Unready'
  BY <1>0, Zenon DEF IInv, Unready
<1>3. ASSUME space.phys_to_virt PROVE FramesInv' /\ CallInv' /\ LeafInv'
  <2>1. /\ FramesInv /\ LeafInv /\ mem \in [Frames -> Table] /\ space.root_paddr \in Nat
        /\ space.root_paddr % PageSize = 0
    BY <1>3, ReadyFacts
  <2>2. FramesInv'
    <3>1. pool' \cup data' = pool \cup data /\ Fresh' = Fresh /\ Root' = Root
      BY <1>0 DEF Fresh, Root
    <3> QED BY <3>1, <2>1, <1>0, Zenon DEF FramesInv
  <2>3. CallInv'
    BY <1>0 DEF CallInv
  <2>4. ASSUME NEW v \in PageAddresses, NEW e, Leaf(mem, Root, Reach, v, e)
        PROVE  e.addr \div PageSize # f
    <3>1. e \in Entry /\ vmm_query_page(v) = [rc |-> OK, paddr |-> e.addr, flags |-> e.bits]
      BY <2>1, <2>4, <1>3, QueryLeaf
    <3>2. v \in Mapped /\ vmm_query_page(v).paddr = e.addr
      BY <3>1 DEF Mapped
    <3>3. e.addr # f * PageSize
      BY <3>2, <1>0
    <3> QED BY <3>1, <3>3, EntryFrame
  <2>5. LeafInv'
    <3>1. Root' = Root /\ \A p : Safe(p) /\ p \div PageSize # f => Safe(p)'
      BY <1>0 DEF Root, Safe
    <3>2. \A x \in tlb : x \in [vaddr : PageAddresses, addr : Nat, bits : SUBSET Bits]
                         => x.vaddr \in PageAddresses
      OBVIOUS
    <3>3. ASSUME NEW x \in tlb PROVE x.addr \div PageSize # f
      <4>1. /\ x.vaddr \in PageAddresses
            /\ Backed(mem, Root, x)
        BY <1>0, <2>1, <3>2, Zenon DEF LeafInv
      <4>2. PICK e : Leaf(mem, Root, Reach, x.vaddr, e) /\ x.addr = e.addr
        BY <4>1, Zenon DEF Backed, Within
      <4> QED BY <4>1, <4>2, <2>4
    <3> QED BY <3>1, <3>3, <2>1, <2>4, <1>0, Zenon DEF LeafInv
  <2> QED BY <2>2, <2>3, <2>5
<1> QED BY <1>0, <1>1, <1>2, <1>3 DEF IInv

\* One step of anything, the call, the CPU or a caller, keeps the invariant.
LEMMA NextInv == IInv /\ [Next]_vars => IInv'
<1> SUFFICES ASSUME IInv, [Next]_vars PROVE IInv'
  OBVIOUS
<1>1. ASSUME NEW root_paddr \in Roots, NEW alloc_frame \in BOOLEAN,
             NEW free_frame \in BOOLEAN, NEW phys_to_virt \in BOOLEAN,
             ~space.phys_to_virt,
             vmm_space_init(root_paddr, alloc_frame, free_frame, phys_to_virt)
      PROVE  IInv'
  BY <1>1, SpaceInitInv
<1>2. ASSUME NEW vaddr \in Vaddrs, NEW paddr \in Paddrs, NEW flags \in FlagSets,
             MayMap(paddr), vmm_map_page(vaddr, paddr, flags)
      PROVE  IInv'
  BY <1>2, MapPageInv
<1>3. CASE MapStep
  BY <1>3, NextTableInv, AllocFailsInv, AllocUnreachableInv, AllocTableInv,
     LinkTableInv, MapLeafInv, Zenon DEF MapStep
<1>4. ASSUME NEW vaddr \in Vaddrs, vmm_unmap_page(vaddr) PROVE IInv'
  BY <1>4, UnmapInv
<1>5. CASE vmm_invalidate_page
  BY <1>5, InvalidateInv
<1>6. ASSUME NEW value \in {0, space.root_paddr}, vmm_write_cr3(value) PROVE IInv'
  BY <1>6, WriteCr3Inv
<1>7. ASSUME NEW vaddr \in Vaddrs, CpuWalks(vaddr) PROVE IInv'
  BY <1>7, CpuWalksInv
<1>8. ASSUME NEW f \in {g \in pool : g * PageSize \in Paddrs}, TakeFrame(f) PROVE IInv'
  BY <1>8, TakeFrameInv
<1>9. ASSUME NEW f \in data, GiveFrame(f) PROVE IInv'
  BY <1>9, GiveFrameInv
<1>10. CASE UNCHANGED vars
  BY <1>10, Zenon DEF vars, IInv, TypeInv, Unready, FramesInv, CallInv, LeafInv, Root, Fresh,
               Safe, Slot
<1> QED BY <1>1, <1>2, <1>3, <1>4, <1>5, <1>6, <1>7, <1>8, <1>9, <1>10 DEF Next

-----------------------------------------------------------------------------
(* What vmm.c promises.                                                     *)

\* Before vmm_space_init there is no page; after it the pages are the leaves.
LEMMA PagesLeaf ==
    ASSUME IInv
    PROVE  /\ ~space.phys_to_virt => Mapped = {}
           /\ space.phys_to_virt =>
                /\ \A v : v \in Mapped <=>
                     v \in PageAddresses /\ \E e \in Entry : Leaf(mem, Root, Reach, v, e)
                /\ \A v \in PageAddresses : \A e : Leaf(mem, Root, Reach, v, e) =>
                     /\ e \in Entry
                     /\ vmm_query_page(v) = [rc |-> OK, paddr |-> e.addr, flags |-> e.bits]
<1>1. ASSUME ~space.phys_to_virt PROVE Mapped = {}
  BY <1>1, QueryUnready DEF Mapped, OK, INVAL
<1>2. ASSUME space.phys_to_virt
      PROVE  \A v \in PageAddresses : \A e : Leaf(mem, Root, Reach, v, e) =>
               /\ e \in Entry
               /\ vmm_query_page(v) = [rc |-> OK, paddr |-> e.addr, flags |-> e.bits]
  BY <1>2, ReadyFacts, QueryLeaf
<1>3. ASSUME space.phys_to_virt
      PROVE  \A v : v \in Mapped <=>
               v \in PageAddresses /\ \E e \in Entry : Leaf(mem, Root, Reach, v, e)
  <2>1. \A v \in PageAddresses :
          vmm_query_page(v).rc = OK => \E e \in Entry : Leaf(mem, Root, Reach, v, e)
    BY <1>3, ReadyFacts, QueryLeaf
  <2>2. \A v \in PageAddresses, e \in Entry :
          Leaf(mem, Root, Reach, v, e) => vmm_query_page(v).rc = OK
    BY <1>2, <1>3
  <2> QED BY <2>1, <2>2 DEF Mapped
<1> QED BY <1>1, <1>2, <1>3

\* The inductive invariant holds in every state.
THEOREM Invariance == Spec => []IInv
BY InitInv, NextInv, PTL DEF Spec

\* Every frame of the allocator is free, a caller's, about to become a table
\* or a table with one link to it: vmm_map_page loses none (vmm.c:46-64).
THEOREM FramesAreAccounted == Spec => []FramesAccounted
<1>1. IInv => FramesAccounted
  <2> SUFFICES ASSUME IInv, space.phys_to_virt PROVE FramesAccounted
    BY DEF FramesAccounted
  <2>1. FramesInv /\ pool \cap data = {} /\ Tree(mem, Root)
    BY ReadyFacts DEF TypeInv
  <2>2. {Target(l) : l \in Links} = Tables(mem, Root)
    BY TablesLinked DEF Target, Links, Root
  <2>3. \A l, m \in Links : Target(l) = Target(m) => l = m
    BY <2>1 DEF Tree, Links, Target, Root
  <2> QED BY <2>1, <2>2, <2>3, Zenon DEF FramesAccounted, FramesInv, Fresh, Tree, Root
<1> QED BY <1>1, Invariance, PTL

\* No page and no cached translation leads to a page table or a free frame.
THEOREM PagesAreIsolated == Spec => []PagesIsolated
<1>1. IInv => PagesIsolated
  <2> SUFFICES ASSUME IInv PROVE PagesIsolated
    OBVIOUS
  <2>1. CASE ~space.phys_to_virt
    BY <2>1, PagesLeaf, Zenon DEF PagesIsolated, IInv, Unready
  <2>2. CASE space.phys_to_virt
    <3>1. LeafInv
      BY <2>2 DEF IInv
    <3>2. ASSUME NEW v \in Mapped PROVE Safe(vmm_query_page(v).paddr)
      <4>1. PICK e \in Entry : v \in PageAddresses /\ Leaf(mem, Root, Reach, v, e)
        BY <2>2, PagesLeaf
      <4>2. vmm_query_page(v) = [rc |-> OK, paddr |-> e.addr, flags |-> e.bits]
        BY <2>2, <4>1, PagesLeaf
      <4>3. Safe(e.addr)
        BY <3>1, <4>1, Zenon DEF LeafInv
      <4>4. vmm_query_page(v).paddr = e.addr
        BY <4>2
      <4> QED BY <4>3, <4>4, Zenon
    <3> QED BY <3>1, <3>2, Zenon DEF PagesIsolated, LeafInv, Safe
  <2> QED BY <2>1, <2>2
<1> QED BY <1>1, Invariance, PTL

\* What the CPU has cached is what vmm_query_page says, whenever it cached
\* it, but for the page vmm_unmap_page is about to invalidate (vmm.c:158-159).
THEOREM TlbIsCoherent == Spec => []TlbCoherent
<1>1. IInv => TlbCoherent
  <2> SUFFICES ASSUME IInv, NEW x \in tlb, ~(call.op = "unmap" /\ call.vaddr = x.vaddr)
               PROVE  LET q == vmm_query_page(x.vaddr)
                      IN  /\ q.rc = OK /\ q.paddr = x.addr
                          /\ x.bits \ {"NO_EXECUTE"} \subseteq q.flags
                          /\ q.flags \ Granted \subseteq x.bits
    BY DEF TlbCoherent
  <2>1. space.phys_to_virt
    BY DEF IInv, TypeInv, Unready
  <2>2. /\ x \in [vaddr : PageAddresses, addr : Nat, bits : SUBSET Bits]
        /\ Backed(mem, Root, x)
    BY <2>1, Zenon DEF IInv, LeafInv
  <2>3. PICK e \in Entry : Leaf(mem, Root, Reach, x.vaddr, e) /\ Within(x, e)
    BY <2>2, Zenon DEF Backed
  <2>4. x.vaddr \in PageAddresses
    BY <2>2
  <2>5. vmm_query_page(x.vaddr) = [rc |-> OK, paddr |-> e.addr, flags |-> e.bits]
    BY <2>1, <2>3, <2>4, PagesLeaf
  <2>6. /\ vmm_query_page(x.vaddr).rc = OK /\ vmm_query_page(x.vaddr).paddr = e.addr
        /\ vmm_query_page(x.vaddr).flags = e.bits
    BY <2>5
  <2> QED BY <2>3, <2>6, Zenon DEF Within
<1> QED BY <1>1, Invariance, PTL

\* vmm_map_page answers OK only when the page is what its caller asked for
\* (vmm.c:106-109).
THEOREM MappingTakesEffect == Spec => MapTakesEffect
<1>1. IInv => (space.phys_to_virt => \A v \in PageAddresses : \A e :
                 Leaf(mem, Root, Reach, v, e) =>
                   vmm_query_page(v) = [rc |-> OK, paddr |-> e.addr, flags |-> e.bits])
  BY PagesLeaf
<1>2. (IInv => (space.phys_to_virt => \A v \in PageAddresses : \A e :
                  Leaf(mem, Root, Reach, v, e) =>
                    vmm_query_page(v) = [rc |-> OK, paddr |-> e.addr, flags |-> e.bits]))'
  BY <1>1, PTL
<1>3. ASSUME IInv, [Next]_vars, call.op = "map", call' = None, ret' = OK,
             call.paddr < PhysMod, NEW v, v = call.vaddr
      PROVE  vmm_query_page(v)' =
               [rc |-> OK, paddr |-> call.paddr,
                flags |-> {"PRESENT"} \cup (call.flags \ {"ACCESSED", "DIRTY", "HUGE"})]
  <2>1. MapLeaf
    <3>1. call # None /\ call' # call
      <4>1. None.op = "none"
        BY DEF None
      <4> QED BY <1>3, <4>1
    <3>2. ~\E root_paddr \in Roots, alloc_frame, free_frame, phys_to_virt \in BOOLEAN :
             vmm_space_init(root_paddr, alloc_frame, free_frame, phys_to_virt)
      BY <3>1 DEF vmm_space_init
    <3>3. /\ \A vaddr, paddr, flags : ~vmm_map_page(vaddr, paddr, flags)
          /\ \A vaddr : ~vmm_unmap_page(vaddr)
          /\ \A vaddr : ~CpuWalks(vaddr)
          /\ \A value : ~vmm_write_cr3(value)
          /\ \A f : ~TakeFrame(f) /\ ~GiveFrame(f)
      BY <3>1, Zenon DEF vmm_map_page, vmm_unmap_page, CpuWalks, vmm_write_cr3, TakeFrame, GiveFrame
    <3>4. ~vmm_invalidate_page /\ ~UNCHANGED vars
      BY <3>1, <1>3 DEF vmm_invalidate_page, vars
    <3>5. MapStep
      BY <1>3, <3>2, <3>3, <3>4 DEF Next
    <3>6. ~AllocFails /\ ~AllocUnreachable
      BY <1>3 DEF AllocFails, AllocUnreachable, Return, OK, NOMEM, INVAL
    <3>7. ~LinkTable /\ ~AllocTable
      BY <1>3, Zenon DEF LinkTable, AllocTable, None, IInv, TypeInv, CallInv
    <3>8. ~NextTable
      <4> SUFFICES ASSUME NextTable PROVE FALSE
        OBVIOUS
      <4>1. call' = [call EXCEPT !.level = @ + 1,
                                 !.table = table_from_phys(Masked(Slot.addr))]
        BY <1>3 DEF NextTable, Return, OK, EXISTS, INVAL
      <4>2. call.level \in 1..4 /\ call'.level = call.level + 1
        BY <4>1, <1>3, CallReady DEF IInv, CallInv
      <4> QED BY <4>2, <1>3 DEF None
    <3> QED BY <3>5, <3>6, <3>7, <3>8 DEF MapStep
  <2>2. PICK e : e = [addr |-> Masked(call.paddr),
                      bits |-> {"PRESENT"} \cup (call.flags \cap allowed)]
    BY Zenon
  <2>3. /\ IInv' /\ v \in PageAddresses
        /\ \A w \in PageAddresses : \A x : Leaf(mem, Root, Reach, w, x)' <=>
             IF w = v THEN x = e ELSE Leaf(mem, Root, Reach, w, x)
    <3>1. ret' # EXISTS
      BY <1>3 DEF OK, EXISTS
    <3>2. /\ IInv' /\ call.vaddr \in PageAddresses
          /\ \A w \in PageAddresses : \A x : Leaf(mem, Root, Reach, w, x)' <=>
               IF w = call.vaddr
               THEN x = [addr |-> Masked(call.paddr),
                         bits |-> {"PRESENT"} \cup (call.flags \cap allowed)]
               ELSE Leaf(mem, Root, Reach, w, x)
      BY <1>3, <2>1, <3>1, MapLeafInv, Zenon
    <3> QED BY <1>3, <2>2, <3>2, Zenon
  <2>4. space.phys_to_virt /\ CallInv /\ space' = space
    BY <1>3, <2>1, CallReady, ReadyFacts DEF MapLeaf
  <2>5. e.addr = call.paddr
    <3>1. call.paddr \in Nat /\ call.paddr % PageSize = 0
      BY <1>3, <2>4 DEF CallInv
    <3>2. e.addr = (call.paddr % PhysMod) - (call.paddr % PageSize)
      BY <2>2 DEF Masked
    <3>3. call.paddr % PhysMod = call.paddr
      BY <1>3, <3>1, VMMConstants
    <3> QED BY <3>1, <3>2, <3>3
  <2>6. e.bits = {"PRESENT"} \cup (call.flags \ {"ACCESSED", "DIRTY", "HUGE"})
    BY <1>3, <2>2, <2>4 DEF CallInv, allowed, Bits
  <2>7. vmm_query_page(v)' = [rc |-> OK, paddr |-> e.addr, flags |-> e.bits]
    BY <1>2, <2>3, <2>4
  <2> QED BY <2>5, <2>6, <2>7
<1>4. IInv /\ [Next]_vars =>
        [call.op = "map" /\ call' = None /\ ret' = OK /\ call.paddr < PhysMod =>
         \A v \in {call.vaddr} : vmm_query_page(v)' =
           [rc |-> OK, paddr |-> call.paddr,
            flags |-> {"PRESENT"} \cup
                      (call.flags \ {"ACCESSED", "DIRTY", "HUGE"})]]_vars
  BY <1>3
<1> QED BY <1>4, Invariance, PTL DEF Spec, MapTakesEffect

\* The step makes u a page that leads where x says, or takes page u away,
\* and leaves every other page alone.
AddsPage(u, x) ==
    /\ \A e : ~Leaf(mem, Root, Reach, u, e)
    /\ \A v \in PageAddresses : \A e :
         Leaf(mem, Root, Reach, v, e)' <=>
           IF v = u THEN e = x ELSE Leaf(mem, Root, Reach, v, e)

RemovesPage(u) ==
    /\ \E e \in Entry : Leaf(mem, Root, Reach, u, e)
    /\ \A v \in PageAddresses : \A e :
         Leaf(mem, Root, Reach, v, e)' <=> v # u /\ Leaf(mem, Root, Reach, v, e)

\* What a step does to the pages: nothing, or it adds or removes one.
LEMMA StepLeaves ==
    ASSUME IInv, [Next]_vars
    PROVE  \/ ~space.phys_to_virt /\ ~space'.phys_to_virt
           \/ /\ ~space.phys_to_virt /\ space'.phys_to_virt
              /\ \A v \in PageAddresses : \A e : ~Leaf(mem, Root, Reach, v, e)'
           \/ /\ space.phys_to_virt /\ space' = space
              /\ \A v \in PageAddresses : \A e :
                   Leaf(mem, Root, Reach, v, e)' <=> Leaf(mem, Root, Reach, v, e)
           \/ /\ space.phys_to_virt /\ space' = space
              /\ \E u \in PageAddresses : \E x : AddsPage(u, x)
           \/ /\ space.phys_to_virt /\ space' = space
              /\ \E u \in PageAddresses : RemovesPage(u)
<1>1. CASE UNCHANGED <<space, mem>>
  BY <1>1 DEF Root, IInv, TypeInv
<1>2. ASSUME NEW root_paddr \in Roots, NEW alloc_frame \in BOOLEAN,
             NEW free_frame \in BOOLEAN, NEW phys_to_virt \in BOOLEAN,
             ~space.phys_to_virt,
             vmm_space_init(root_paddr, alloc_frame, free_frame, phys_to_virt)
      PROVE  \/ ~space.phys_to_virt /\ ~space'.phys_to_virt
             \/ /\ ~space.phys_to_virt /\ space'.phys_to_virt
                /\ \A v \in PageAddresses : \A e : ~Leaf(mem, Root, Reach, v, e)'
  <2>1. \A v \in PageAddresses : \A e : space'.phys_to_virt => ~Leaf(mem, Root, Reach, v, e)'
    BY <1>2, SpaceInitInv
  <2> QED BY <1>2, <2>1
<1>3. CASE AllocTable \/ LinkTable
  <2>1. space.phys_to_virt /\ space' = space
    BY <1>3, CallReady, Zenon DEF AllocTable, LinkTable
  <2>2. \A v \in PageAddresses : \A e :
          Leaf(mem, Root, Reach, v, e)' <=> Leaf(mem, Root, Reach, v, e)
    BY <1>3, AllocTableInv, LinkTableInv
  <2> QED BY <2>1, <2>2
<1>4. CASE MapLeaf
  <2>1. space.phys_to_virt /\ space' = space
    BY <1>4, CallReady DEF MapLeaf
  <2>2. PICK u, x : u = call.vaddr /\
          x = [addr |-> Masked(call.paddr),
               bits |-> {"PRESENT"} \cup (call.flags \cap allowed)]
    BY Zenon
  <2>3. CASE UNCHANGED <<space, mem>>
    BY <1>1, <2>3
  <2>4. CASE ~UNCHANGED <<space, mem>>
    <3>1. u \in PageAddresses /\ AddsPage(u, x)
      BY <1>4, <2>2, <2>4, MapLeafInv, Zenon DEF AddsPage
    <3> QED BY <2>1, <3>1
  <2> QED BY <2>3, <2>4
<1>5. ASSUME NEW vaddr \in Vaddrs, vmm_unmap_page(vaddr), ~UNCHANGED <<space, mem>>
      PROVE  /\ space.phys_to_virt /\ space' = space
             /\ \E u \in PageAddresses : RemovesPage(u)
  <2>1. space.phys_to_virt /\ space' = space /\ vaddr \in PageAddresses
    BY <1>5, UnmapInv
  <2>2. RemovesPage(vaddr)
    BY <1>5, UnmapInv DEF RemovesPage
  <2> QED BY <2>1, <2>2
<1>6. CASE \/ \E vaddr \in Vaddrs, paddr \in Paddrs, flags \in FlagSets :
                vmm_map_page(vaddr, paddr, flags)
           \/ NextTable \/ AllocFails \/ AllocUnreachable \/ vmm_invalidate_page
           \/ \E value : vmm_write_cr3(value)
           \/ \E vaddr : CpuWalks(vaddr)
           \/ \E f : TakeFrame(f) \/ GiveFrame(f)
           \/ UNCHANGED vars
  <2>1. UNCHANGED <<space, mem>>
    BY <1>6 DEF vmm_map_page, NextTable, AllocFails, AllocUnreachable, vmm_invalidate_page,
                vmm_write_cr3, CpuWalks, TakeFrame, GiveFrame, vars
  <2> QED BY <1>1, <2>1
<1>7. \/ \E root_paddr \in Roots, alloc_frame, free_frame, phys_to_virt \in BOOLEAN :
           /\ ~space.phys_to_virt
           /\ vmm_space_init(root_paddr, alloc_frame, free_frame, phys_to_virt)
      \/ AllocTable \/ LinkTable \/ MapLeaf
      \/ \E vaddr \in Vaddrs : vmm_unmap_page(vaddr)
      \/ \E vaddr \in Vaddrs, paddr \in Paddrs, flags \in FlagSets :
           vmm_map_page(vaddr, paddr, flags)
      \/ NextTable \/ AllocFails \/ AllocUnreachable \/ vmm_invalidate_page
      \/ \E value : vmm_write_cr3(value)
      \/ \E vaddr : CpuWalks(vaddr)
      \/ \E f : TakeFrame(f) \/ GiveFrame(f)
      \/ UNCHANGED vars
  BY DEF Next, MapStep
<1> QED BY <1>1, <1>2, <1>3, <1>4, <1>5, <1>6, <1>7, Zenon

Pages == [v \in Mapped |-> vmm_query_page(v)]

Result(e) == [rc |-> OK, paddr |-> e.addr, flags |-> e.bits]

\* Four levels of tables, edited entry by entry, implement the partial
\* function from pages to frames: no step of vmm_map_page or vmm_unmap_page
\* changes more than one page, none is mapped over, and calls that fail
\* change none.
THEOREM ImplementsAddressSpace == Spec => AddressSpaceSpec
<1> DEFINE Ready == space.phys_to_virt
           L(v, e) == Leaf(mem, Root, Reach, v, e)
           Facts == /\ ~Ready => Mapped = {}
                    /\ Ready =>
                         /\ \A v : v \in Mapped <=>
                              v \in PageAddresses /\ \E e \in Entry : L(v, e)
                         /\ \A v \in PageAddresses : \A e : L(v, e) =>
                              e \in Entry /\ vmm_query_page(v) = Result(e)
<1>1. IInv => Facts
  BY PagesLeaf DEF Result
<1>2. (IInv => Facts)'
  BY <1>1, PTL
<1>3. Init => AS!Init
  <2> SUFFICES ASSUME Init PROVE AS!Init
    OBVIOUS
  <2>1. Mapped = {}
    BY QueryUnready DEF Init, Mapped, OK, INVAL
  <2> QED BY <2>1 DEF AS!Init
<1>4. ASSUME IInv, IInv', [Next]_vars PROVE [AS!Next]_Pages
  <2>1. Facts /\ Facts'
    BY <1>1, <1>2, <1>4
  <2>2. CASE /\ Mapped' = Mapped
             /\ \A v \in Mapped : vmm_query_page(v)' = vmm_query_page(v)
    <3>1. Pages' = Pages
      BY <2>2 DEF Pages
    <3> QED BY <3>1
  <2>3. ASSUME NEW u \in PageAddresses, u \notin Mapped, Mapped' = Mapped \cup {u}, Ready',
               \A v \in Mapped : vmm_query_page(v)' = vmm_query_page(v)
        PROVE  AS!Map
    <3> DEFINE T == [rc : {OK}, paddr : 0..(PhysMod - 1), flags : SUBSET Bits]
    <3>1. DOMAIN Pages = Mapped /\ DOMAIN Pages' = Mapped \cup {u}
      BY <2>3 DEF Pages
    <3>2. \A e \in Entry : Result(e) \in T
      BY DEF Result, Entry
    <3>3. \A v \in Mapped' : vmm_query_page(v)' \in T
      BY <2>1, <2>3, <3>2
    <3>4. Pages' \in [Mapped \cup {u} -> T]
      BY <2>3, <3>3 DEF Pages
    <3>5. [v \in Mapped |-> Pages'[v]] = Pages
      BY <2>3 DEF Pages
    <3> QED BY <2>3, <3>1, <3>4, <3>5 DEF AS!Map, AS!Restrict, Pages
  <2>4. ASSUME NEW u \in Mapped, Mapped' = Mapped \ {u},
               \A v \in Mapped' : vmm_query_page(v)' = vmm_query_page(v)
        PROVE  AS!Unmap
    <3>1. DOMAIN Pages = Mapped /\ DOMAIN Pages' = Mapped \ {u}
      BY <2>4 DEF Pages
    <3>2. Pages' = [v \in Mapped \ {u} |-> Pages[v]]
      BY <2>4 DEF Pages
    <3> QED BY <2>4, <3>1, <3>2 DEF AS!Unmap, AS!Restrict, Pages
  <2>5. CASE ~Ready /\ ~Ready'
    BY <2>1, <2>2, <2>5
  <2>6. CASE ~Ready /\ Ready' /\ \A v \in PageAddresses : \A e : ~L(v, e)'
    BY <2>1, <2>2, <2>6
  <2>7. CASE Ready /\ space' = space /\ \A v \in PageAddresses : \A e : L(v, e)' <=> L(v, e)
    <3>1. Mapped' = Mapped
      BY <2>1, <2>7
    <3>2. \A v \in Mapped : vmm_query_page(v)' = vmm_query_page(v)
      BY <2>1, <2>7
    <3> QED BY <2>2, <3>1, <3>2
  <2>8. ASSUME Ready, space' = space, NEW u \in PageAddresses, NEW x, AddsPage(u, x)
        PROVE  AS!Map
    <3>0. /\ Ready' /\ \A e : ~L(u, e)
          /\ \A v \in PageAddresses : \A e : L(v, e)' <=> IF v = u THEN e = x ELSE L(v, e)
      BY <2>8 DEF AddsPage
    <3>1. u \notin Mapped
      BY <2>1, <2>8, <3>0
    <3>2. x \in Entry
      BY <2>1, <2>8, <3>0
    <3>3. Mapped' = Mapped \cup {u}
      BY <2>1, <2>8, <3>0, <3>2
    <3>4. \A v \in Mapped : vmm_query_page(v)' = vmm_query_page(v)
      BY <2>1, <2>8, <3>0, <3>1
    <3> QED BY <2>3, <3>0, <3>1, <3>3, <3>4
  <2>9. ASSUME Ready, space' = space, NEW u \in PageAddresses, RemovesPage(u)
        PROVE  AS!Unmap
    <3>0. /\ Ready' /\ \E e \in Entry : L(u, e)
          /\ \A v \in PageAddresses : \A e : L(v, e)' <=> v # u /\ L(v, e)
      BY <2>9 DEF RemovesPage
    <3>1. u \in Mapped
      BY <2>1, <2>9, <3>0
    <3>2. Mapped' = Mapped \ {u}
      BY <2>1, <2>9, <3>0
    <3>3. \A v \in Mapped' : vmm_query_page(v)' = vmm_query_page(v)
      BY <2>1, <2>9, <3>0, <3>2
    <3> QED BY <2>4, <3>1, <3>2, <3>3
  <2> HIDE DEF Facts
  <2> QED BY <1>4, <2>5, <2>6, <2>7, <2>8, <2>9, StepLeaves, Zenon DEF AS!Next
<1> QED BY <1>3, <1>4, Invariance, PTL DEF Spec, AddressSpaceSpec, AS!Spec, Pages

============================================================================
