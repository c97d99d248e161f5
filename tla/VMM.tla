-------------------------------- MODULE VMM --------------------------------
(***************************************************************************)
(* The virtual memory manager of src/vmm.c on physical memory: four levels *)
(* of page tables, each in a frame of its own, edited through phys_to_virt *)
(* while the CPU may walk them and keep what it finds in its TLB.          *)
(*                                                                         *)
(* Addresses are numbers, scaled down: a page has PageSize bytes, a table  *)
(* Entries entries, and UpperMod is what is left above the four indices.   *)
(* A page table entry is its address field and the set of its other bits.  *)
(* vmm_map_page takes one step per level and two for a new table, and      *)
(* vmm_unmap_page two, with the CPU free to look in between.               *)
(***************************************************************************)
EXTENDS Integers, FiniteSets

CONSTANTS
    PageSize,       \* VMM_PAGE_SIZE
    Entries,        \* VMM_ENTRIES_PER_TABLE
    UpperMod,       \* 2^16: the values of the bits above the indices
    PhysMod,        \* 2^52: VMM_PTE_ADDR_MASK keeps addresses below it
    Frames,         \* the frames of RAM
    Reach,          \* those phys_to_virt has an address for
    Pool,           \* those the frame allocator starts with
    BootTables,     \* what the frames may hold at the start
    Roots,          \* the root_paddr callers pass
    Vaddrs, Paddrs, FlagSets    \* the arguments callers pass

Span == PageSize * Entries * Entries * Entries * Entries

Bits == {"PRESENT", "WRITABLE", "USER", "WRITE_THROUGH", "CACHE_DISABLE",
         "ACCESSED", "DIRTY", "HUGE", "GLOBAL", "NO_EXECUTE"}

\* The address field holds the number of a frame: it is a multiple of
\* PageSize whatever the other bits are.
Entry == [addr : {a \in 0..(PhysMod - 1) : a % PageSize = 0}, bits : SUBSET Bits]

Table == [0..(Entries - 1) -> Entry]

ASSUME VMMConstants ==
    /\ PageSize \in Nat \ {0} /\ Entries \in Nat \ {0} /\ Entries % 2 = 0
    /\ UpperMod \in Nat \ {0}
    /\ PhysMod \in Nat \ {0} /\ PhysMod % PageSize = 0
    /\ Frames \subseteq Nat /\ \A f \in Frames : (f + 1) * PageSize <= PhysMod
    /\ Reach \subseteq Frames /\ Pool \subseteq Frames
    /\ BootTables \subseteq [Frames -> Table]
    /\ Roots \subseteq Nat /\ Vaddrs \subseteq 0..(Span * UpperMod - 1)
    /\ Paddrs \subseteq Nat /\ FlagSets \subseteq SUBSET Bits

Present(e) == "PRESENT" \in e.bits

Huge(e) == "HUGE" \in e.bits

vmm_is_aligned_4k(value) == value % PageSize = 0

\* The entries of the memory m that link a table of the next level, as
\* <<table, index>>, where such a link leads, and the tables it leads to.
LinksOf(m, tables) ==
    {l \in tables \X (0..(Entries - 1)) :
        Present(m[l[1]][l[2]]) /\ ~Huge(m[l[1]][l[2]])}

Leads(m, l) == m[l[1]][l[2]].addr \div PageSize

Below(m, tables) == {Leads(m, l) : l \in LinksOf(m, tables)}

TreeLinks(m, root) ==
    LinksOf(m, {root}) \cup LinksOf(m, Below(m, {root}))
      \cup LinksOf(m, Below(m, Below(m, {root})))

\* The tables a caller hands over: the root is no frame of the allocator, the
\* tables under it form a tree outside the allocator's frames, and they map
\* no 4 KiB page yet.
ASSUME BootTablesAreTrees ==
    \A m \in BootTables, root_paddr \in {r \in Roots : vmm_is_aligned_4k(r)} :
      LET root == root_paddr \div PageSize
          links == TreeLinks(m, root)
          tables == {Leads(m, l) : l \in links}
          page_tables == Below(m, Below(m, Below(m, {root})))
      IN  /\ root \in Frames \ Pool /\ root \notin tables
          /\ tables \subseteq Frames \ Pool
          /\ \A k, l \in links : Leads(m, k) = Leads(m, l) => k = l
          /\ \A t \in page_tables, n \in 0..(Entries - 1) : ~Present(m[t][n])

VARIABLES
    space,      \* struct vmm_space: root_paddr, and which callbacks are set
    mem,        \* the page tables: the entries in every frame of RAM
    pool,       \* external: the frames the allocator has
    data,       \* external: frames callers have taken for their own pages
    cr3,        \* the table the CPU translates with
    tlb,        \* external: the translations it has cached
    call,       \* the call that is running, and how far it is
    ret         \* what the last call returned

vars == <<space, mem, pool, data, cr3, tlb, call, ret>>

OK == 0
INVAL == -1
NOMEM == -2
EXISTS == -3
NOT_FOUND == -4

None == [op |-> "none", vaddr |-> 0, paddr |-> 0, flags |-> {}, level |-> 0,
         table |-> 0, fresh |-> 0]

Empty == [addr |-> 0, bits |-> {}]

vmm_zero_page == [n \in 0..(Entries - 1) |-> Empty]

vmm_is_canonical(vaddr) ==
    LET sign == (vaddr \div (Span \div 2)) % 2
        upper == vaddr \div Span
    IN  upper = IF sign = 1 THEN UpperMod - 1 ELSE 0

\* idx_pml4, idx_pdpt, idx_pd and idx_pt are levels 1 to 4.
Shift == <<PageSize * Entries * Entries * Entries, PageSize * Entries * Entries,
           PageSize * Entries, PageSize>>

Index(vaddr, level) == (vaddr \div Shift[level]) % Entries

\* VMM_PTE_ADDR_MASK
Masked(paddr) == (paddr % PhysMod) - (paddr % PageSize)

\* The frame behind the pointer, or INVAL for a null one.
table_from_phys(paddr) ==
    IF /\ space.phys_to_virt /\ vmm_is_aligned_4k(paddr)
       /\ paddr \div PageSize \in Reach
    THEN paddr \div PageSize ELSE INVAL

\* The walk of query and unmap: the frame of the page table of vaddr, or
\* the error it ends in.
Walk(vaddr) ==
    LET Down(level) ==
          [table \in Frames \cup {INVAL, NOT_FOUND} |->
             LET e == mem[table][Index(vaddr, level)]
             IN  IF table < 0 THEN table
                 ELSE IF ~Present(e) \/ Huge(e) THEN NOT_FOUND
                 ELSE table_from_phys(Masked(e.addr))]
    IN  IF ~vmm_is_canonical(vaddr) \/ ~vmm_is_aligned_4k(vaddr) THEN INVAL
        ELSE Down(3)[Down(2)[Down(1)[table_from_phys(space.root_paddr)]]]

vmm_query_page(vaddr) ==
    LET pt == Walk(vaddr)
        e == mem[pt][Index(vaddr, 4)]
    IN  IF pt < 0 THEN [rc |-> pt, paddr |-> 0, flags |-> {}]
        ELSE IF ~Present(e) THEN [rc |-> NOT_FOUND, paddr |-> 0, flags |-> {}]
        ELSE [rc |-> OK, paddr |-> Masked(e.addr), flags |-> e.bits]

-----------------------------------------------------------------------------
Init ==
    /\ space = [root_paddr |-> 0, alloc_frame |-> FALSE, free_frame |-> FALSE,
                phys_to_virt |-> FALSE]
    /\ mem \in BootTables
    /\ pool = Pool /\ data = {}
    /\ cr3 = 0 /\ tlb = {}
    /\ call = None /\ ret = OK

Return(code) == call' = None /\ ret' = code

vmm_space_init(root_paddr, alloc_frame, free_frame, phys_to_virt) ==
    /\ call = None
    /\ IF ~phys_to_virt \/ ~vmm_is_aligned_4k(root_paddr)
       THEN Return(INVAL) /\ UNCHANGED space
       ELSE /\ space' = [root_paddr |-> root_paddr, alloc_frame |-> alloc_frame,
                         free_frame |-> free_frame, phys_to_virt |-> phys_to_virt]
            /\ Return(OK)
    /\ UNCHANGED <<mem, pool, data, cr3, tlb>>

\* vmm_map_page up to the first table.
vmm_map_page(vaddr, paddr, flags) ==
    /\ call = None
    /\ IF \/ ~vmm_is_canonical(vaddr) \/ ~vmm_is_aligned_4k(vaddr)
          \/ ~vmm_is_aligned_4k(paddr) \/ table_from_phys(space.root_paddr) < 0
       THEN Return(INVAL)
       ELSE /\ call' = [op |-> "map", vaddr |-> vaddr, paddr |-> paddr,
                        flags |-> flags, level |-> 1,
                        table |-> table_from_phys(space.root_paddr), fresh |-> 0]
            /\ UNCHANGED ret
    /\ UNCHANGED <<space, mem, pool, data, cr3, tlb>>

\* The entry the running map looks at.
Slot == mem[call.table][Index(call.vaddr, call.level)]

\* get_or_alloc_next_table on a present entry.
NextTable ==
    LET next == table_from_phys(Masked(Slot.addr))
    IN  /\ call.op = "map" /\ call.level < 4 /\ Present(Slot)
        /\ IF Huge(Slot) THEN Return(EXISTS)
           ELSE IF next < 0 THEN Return(INVAL)
           ELSE /\ call' = [call EXCEPT !.level = @ + 1, !.table = next]
                /\ UNCHANGED ret
        /\ UNCHANGED <<space, mem, pool, data, cr3, tlb>>

\* External: the frame alloc_frame hands out, if there is one, is the lowest
\* free one, as that of pmm_alloc_frame is.
Lowest == {f \in pool : \A g \in pool : f <= g}

\* get_or_alloc_next_table on an absent one: no frame, a frame it cannot
\* reach and gives back, or one that it clears.  There is no frame without a
\* callback, when the callback has none, and when what it answers is not
\* aligned: such an address is no frame of the pool, and is not given back.
AllocFails ==
    /\ call.op = "map" /\ call.level < 4 /\ ~Present(Slot)
    /\ Return(NOMEM)
    /\ UNCHANGED <<space, mem, pool, data, cr3, tlb>>

\* Mutant: the frame out of reach is not given back.
AllocKeepsUnreachable ==
    /\ call.op = "map" /\ call.level < 4 /\ ~Present(Slot)
    /\ space.alloc_frame
    /\ \E f \in Lowest \ Reach : pool' = pool \ {f}
    /\ Return(INVAL)
    /\ UNCHANGED <<space, mem, data, cr3, tlb>>

AllocUnreachable ==
    /\ call.op = "map" /\ call.level < 4 /\ ~Present(Slot)
    /\ space.alloc_frame
    /\ \E f \in Lowest \ Reach :
         pool' = IF space.free_frame THEN pool ELSE pool \ {f}
    /\ Return(INVAL)
    /\ UNCHANGED <<space, mem, data, cr3, tlb>>

\* Mutant: the new table is linked as the allocator left it.
AllocUncleared ==
    /\ call.op = "map" /\ call.level < 4 /\ ~Present(Slot)
    /\ space.alloc_frame
    /\ \E f \in Lowest \cap Reach :
         /\ pool' = pool \ {f}
         /\ call' = [call EXCEPT !.op = "link", !.fresh = f]
    /\ UNCHANGED <<space, mem, data, cr3, tlb, ret>>

AllocTable ==
    /\ call.op = "map" /\ call.level < 4 /\ ~Present(Slot)
    /\ space.alloc_frame
    /\ \E f \in Lowest \cap Reach :
         /\ pool' = pool \ {f}
         /\ mem' = [mem EXCEPT ![f] = vmm_zero_page]
         /\ call' = [call EXCEPT !.op = "link", !.fresh = f]
    /\ UNCHANGED <<space, data, cr3, tlb, ret>>

LinkTable ==
    /\ call.op = "link"
    /\ mem' = [mem EXCEPT ![call.table][Index(call.vaddr, call.level)] =
                 [addr |-> Masked(call.fresh * PageSize),
                  bits |-> {"PRESENT", "WRITABLE"}]]
    /\ call' = [call EXCEPT !.op = "map", !.level = @ + 1, !.table = call.fresh,
                            !.fresh = 0]
    /\ UNCHANGED <<space, pool, data, cr3, tlb, ret>>

\* Mutant: a page cannot be made global.
AllowedNoGlobal == {"WRITABLE", "USER", "WRITE_THROUGH", "CACHE_DISABLE",
                    "NO_EXECUTE"}

allowed == {"WRITABLE", "USER", "WRITE_THROUGH", "CACHE_DISABLE", "GLOBAL",
            "NO_EXECUTE"}

\* Mutant: a present page is mapped over.
LeafOverwrites ==
    /\ call.op = "map" /\ call.level = 4
    /\ mem' = [mem EXCEPT ![call.table][Index(call.vaddr, 4)] =
                 [addr |-> Masked(call.paddr),
                  bits |-> {"PRESENT"} \cup (call.flags \cap allowed)]]
    /\ Return(OK)
    /\ UNCHANGED <<space, pool, data, cr3, tlb>>

\* The end of vmm_map_page, at the page table.
MapLeaf ==
    /\ call.op = "map" /\ call.level = 4
    /\ IF Present(Slot) THEN Return(EXISTS) /\ UNCHANGED mem
       ELSE /\ mem' = [mem EXCEPT ![call.table][Index(call.vaddr, 4)] =
                         [addr |-> Masked(call.paddr),
                          bits |-> {"PRESENT"} \cup (call.flags \cap allowed)]]
            /\ Return(OK)
    /\ UNCHANGED <<space, pool, data, cr3, tlb>>

\* vmm_unmap_page up to the cleared entry.
vmm_unmap_page(vaddr) ==
    LET pt == Walk(vaddr)
    IN  /\ call = None
        /\ IF vmm_query_page(vaddr).rc # OK
           THEN Return(vmm_query_page(vaddr).rc) /\ UNCHANGED mem
           ELSE /\ mem' = [mem EXCEPT ![pt][Index(vaddr, 4)] = Empty]
                /\ call' = [None EXCEPT !.op = "unmap", !.vaddr = vaddr]
                /\ UNCHANGED ret
        /\ UNCHANGED <<space, pool, data, cr3, tlb>>

\* Mutant: the cached translation is left in place.
InvalidateNothing ==
    /\ call.op = "unmap"
    /\ Return(OK)
    /\ UNCHANGED <<space, mem, pool, data, cr3, tlb>>

vmm_invalidate_page ==
    /\ call.op = "unmap"
    /\ tlb' = {e \in tlb : e.vaddr # call.vaddr}
    /\ Return(OK)
    /\ UNCHANGED <<space, mem, pool, data, cr3>>

\* Loading cr3 drops what is cached, global translations excepted.
vmm_write_cr3(value) ==
    /\ call = None
    /\ cr3' = value
    /\ tlb' = {e \in tlb : "GLOBAL" \in e.bits}
    /\ UNCHANGED <<space, mem, pool, data, call, ret>>

-----------------------------------------------------------------------------
(* Around the VMM.                                                          *)

\* The entry the CPU finds for vaddr in the tables of cr3: it reads physical
\* memory, and what it cannot follow to a 4 KiB page is Empty.  A page may be
\* written, or used in user mode, if every level says so, and is not executed
\* if some level says so.
Granted == {"WRITABLE", "USER"}

Under(e, next) ==
    [addr |-> next.addr,
     bits |-> {b \in next.bits : b \in Granted => b \in e.bits}
                \cup (e.bits \cap {"NO_EXECUTE"})]

Translate(vaddr) ==
    LET Down(level) ==
          [e \in Entry |->
             IF Present(e) /\ ~Huge(e) /\ e.addr \div PageSize \in Frames
             THEN Under(e, mem[e.addr \div PageSize][Index(vaddr, level)]) ELSE Empty]
    IN  Down(4)[Down(3)[Down(2)[Down(1)[[addr |-> cr3, bits |-> {"PRESENT"} \cup Granted]]]]]

\* The CPU uses an address at any moment, also inside a call, and caches
\* what it found.  Only the tables of this space are followed.
CpuWalks(vaddr) ==
    LET e == Translate(vaddr)
    IN  /\ space.phys_to_virt /\ cr3 = space.root_paddr
        /\ vmm_is_canonical(vaddr) /\ vmm_is_aligned_4k(vaddr)
        /\ Present(e)
        /\ tlb' = tlb \cup {[vaddr |-> vaddr, addr |-> e.addr, bits |-> e.bits]}
        /\ UNCHANGED <<space, mem, pool, data, cr3, call, ret>>

\* A caller takes a frame for a page of its own, and gives it back once no
\* page leads to it (PageAddresses: every page there is).
TakeFrame(f) ==
    /\ call = None
    /\ pool' = pool \ {f} /\ data' = data \cup {f}
    /\ UNCHANGED <<space, mem, cr3, tlb, call, ret>>

PageAddresses ==
    {v \in 0..(Span * UpperMod - 1) : vmm_is_canonical(v) /\ vmm_is_aligned_4k(v)}

Mapped == {v \in PageAddresses : vmm_query_page(v).rc = OK}

GiveFrame(f) ==
    /\ call = None
    /\ \A v \in Mapped : vmm_query_page(v).paddr # f * PageSize
    /\ pool' = pool \cup {f} /\ data' = data \ {f}
    /\ UNCHANGED <<space, mem, cr3, tlb, call, ret>>

\* Callers map frames of their own, and device memory outside RAM: the entry
\* leads where VMM_PTE_ADDR_MASK leaves the address.
MayMap(paddr) ==
    Masked(paddr) \div PageSize \in Frames => Masked(paddr) \div PageSize \in data

MapStep ==
    \/ NextTable \/ AllocFails \/ AllocUnreachable \/ AllocTable
    \/ LinkTable \/ MapLeaf

Next ==
    \/ \E root_paddr \in Roots, alloc_frame, free_frame, phys_to_virt \in BOOLEAN :
          /\ ~space.phys_to_virt
          /\ vmm_space_init(root_paddr, alloc_frame, free_frame, phys_to_virt)
    \/ \E vaddr \in Vaddrs, paddr \in Paddrs, flags \in FlagSets :
          MayMap(paddr) /\ vmm_map_page(vaddr, paddr, flags)
    \/ MapStep
    \/ \E vaddr \in Vaddrs : vmm_unmap_page(vaddr)
    \/ vmm_invalidate_page
    \/ \E value \in {0, space.root_paddr} : vmm_write_cr3(value)
    \/ \E vaddr \in Vaddrs : CpuWalks(vaddr)
    \/ \E f \in {g \in pool : g * PageSize \in Paddrs} : TakeFrame(f)
    \/ \E f \in data : GiveFrame(f)

Spec == Init /\ [][Next]_vars

-----------------------------------------------------------------------------
(* Properties.                                                              *)

AS == INSTANCE AddressSpace WITH
        pages <- [v \in Mapped |-> vmm_query_page(v)], Page <- PageAddresses,
        Target <- [rc : {OK}, paddr : 0..(PhysMod - 1), flags : SUBSET Bits]

\* The tables implement a partial function from pages to frames: a step of
\* vmm_map_page or vmm_unmap_page changes what vmm_query_page says of one
\* page at most, a page that is mapped is never mapped over, and a call that
\* fails, also after it has linked new tables, changes no page.
AddressSpaceSpec == AS!Spec

\* The frame the entry a link stands for leads to, and the links there are.
Target(l) == Leads(mem, l)

Links == TreeLinks(mem, space.root_paddr \div PageSize)

\* No frame is lost or used twice: a frame of the allocator is free, a page
\* of some caller, the table the running vmm_map_page is about to link, or a
\* table with exactly one link to it, also after calls that fail half-way.
\* Only without a free_frame callback may a frame get lost, and then one that
\* phys_to_virt does not reach.
FramesAccounted ==
    space.phys_to_virt =>
      LET tables == {Target(l) : l \in Links}
          fresh == IF call.op = "link" THEN {call.fresh} ELSE {}
      IN  /\ \A l, m \in Links : Target(l) = Target(m) => l = m
          /\ space.root_paddr \div PageSize \notin tables
          /\ pool \cap data = {}
          /\ (pool \cup data) \cap (tables \cup fresh) = {}
          /\ fresh \cap tables = {}
          /\ Pool \ (pool \cup data \cup tables \cup fresh)
               \subseteq IF space.free_frame THEN {} ELSE Pool \ Reach

\* With callers that map what is theirs and give back what is not mapped,
\* neither a page nor a cached translation ever leads to a page table or to
\* a free frame: a new table is clear before it is linked, and vmm_unmap_page
\* leaves nothing behind.
PagesIsolated ==
    LET Safe(paddr) == paddr \div PageSize \in Frames => paddr \div PageSize \in data
    IN  /\ \A v \in Mapped : Safe(vmm_query_page(v).paddr)
        /\ \A e \in tlb : Safe(e.addr)

\* Outside the two instructions of vmm_unmap_page, whatever the CPU has
\* cached, at whatever moment of a call, leads where vmm_query_page says, and
\* grants nothing that it does not say.  It may grant less: the tables that
\* vmm_map_page links are not for user mode.
TlbCoherent ==
    \A e \in tlb :
      \/ call.op = "unmap" /\ call.vaddr = e.vaddr
      \/ LET q == vmm_query_page(e.vaddr)
         IN  /\ q.rc = OK /\ q.paddr = e.addr
             /\ e.bits \ {"NO_EXECUTE"} \subseteq q.flags
             /\ q.flags \ Granted \subseteq e.bits

\* A page is what its caller asked for: when vmm_map_page answers OK for an
\* address that an entry has room for, however many tables it had to link on
\* the way, vmm_query_page finds the page at that address, with every flag
\* passed that is not the CPU's own.
MapTakesEffect ==
    [][call.op = "map" /\ call' = None /\ ret' = OK /\ call.paddr < PhysMod =>
         \A v \in {call.vaddr} : vmm_query_page(v)' =
           [rc |-> OK, paddr |-> call.paddr,
            flags |-> {"PRESENT"} \cup
                      (call.flags \ {"ACCESSED", "DIRTY", "HUGE"})]]_vars

\* From the M7 guide: vmm_query_page returns the physical address of the
\* mapping that was made, whatever address that is.
QueryReturnsMapped ==
    [][call.op = "map" /\ call' = None /\ ret' = OK =>
         \A v \in {call.vaddr} : vmm_query_page(v)'.paddr = call.paddr]_vars

============================================================================
