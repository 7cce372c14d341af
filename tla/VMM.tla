--------------------------------- MODULE VMM ---------------------------------
(***************************************************************************)
(* The virtual memory manager of src/vmm.c: 4-level page tables built from *)
(* PMM frames and edited through the direct map, the kernel PML4 set up by *)
(* vmm_init, address spaces that copy its upper half, and the mapping      *)
(* primitives the rest of the kernel may call.                             *)
(*                                                                         *)
(* Scaling: a table has E entries (512), so a virtual page number (VPN) is *)
(* four base-E digits (the PML4_INDEX ... PT_INDEX macros) and a 2 MiB page *)
(* is E frames.  An entry keeps PRESENT, HUGE and the frame it points to;  *)
(* WRITABLE, GLOBAL and the other flags select nothing vmm.c reads back.   *)
(* pmm_alloc_page is the lowest free frame of Pool, PHYS_TO_VIRT and       *)
(* VIRT_TO_PHYS cancel out, and invlpg changes nothing the model holds.    *)
(***************************************************************************)
EXTENDS Integers, Sequences, FiniteSets, SequencesExt

CONSTANTS
    E,              \* entries per table (512)
    Pool,           \* frames pmm_alloc_page can hand out
    KBASE,          \* frame of 0x100000, where the kernel image starts
    KERNEL_PAGES,   \* kernel_size / PAGE_SIZE
    VGA_FRAME,      \* frame 0xB8000
    VGA_PT,         \* PT_INDEX(0xFFFFFFFF800B8000)
    NULL

ASSUME E >= 8 /\ E % 2 = 0 /\ NULL \notin Pool

VARIABLES
    mem,        \* the tables: frame -> entry index -> entry
    free,       \* frames pmm_alloc_page has not handed out
    kpml4,      \* kernel_pml4
    spaces,     \* roots made by vmm_create_address_space
    cr3,        \* the loaded root
    last        \* the last call and its result, for the properties

vars == <<mem, free, kpml4, spaces, cr3, last>>

RECURSIVE_INDEX == E - 2
HUGE == E                               \* frames in a 2 MiB page
HH_VPN == (E \div 2) * E * E * E        \* KERNEL_HIGHER_HALF >> 12
VGA_VPN == (E - 1) * E * E * E + (E - 2) * E * E + VGA_PT

\* PML4_INDEX (level 4) ... PT_INDEX (level 1).
Index(v, level) == (v \div (E ^ (level - 1))) % E

NoEntry == [p |-> FALSE, h |-> FALSE, a |-> 0]
ZeroTable == [i \in 0 .. E - 1 |-> NoEntry]
Lowest(S) == CHOOSE f \in S : \A g \in S : f <= g

\* A machine state the primitives pass along: the tables and the free frames.
M == [mem |-> mem, free |-> free]

\* pmm_alloc_page and the memset that follows it.
Alloc(m) ==
    LET f == Lowest(m.free) IN
    [f |-> f, m |-> [mem |-> [m.mem EXCEPT ![f] = ZeroTable], free |-> m.free \ {f}]]

\* get_or_create_table: a PRESENT entry is followed whatever else it is.
GetOrCreate(m, t, i) ==
    IF m.mem[t][i].p THEN [ok |-> TRUE, t |-> m.mem[t][i].a, m |-> m]
    ELSE IF m.free = {} THEN [ok |-> FALSE, t |-> NULL, m |-> m]
    ELSE LET a == Alloc(m) IN
         [ok |-> TRUE, t |-> a.f,
          m |-> [a.m EXCEPT !.mem[t][i] = [p |-> TRUE, h |-> FALSE, a |-> a.f]]]

\* Walk from root down to the table at the given level, creating as needed.
RECURSIVE Walk(_, _, _, _)
Walk(m, t, v, level) ==
    IF level = 4 THEN [ok |-> TRUE, t |-> t, m |-> m]
    ELSE LET up == Walk(m, t, v, level + 1)
             g == GetOrCreate(up.m, up.t, Index(v, level + 1))
         IN IF ~up.ok THEN up ELSE g

\* Mutant: the PT slot indexed with PD_INDEX.
MapPagePdIndex(m, root, v, p) ==
    LET w == Walk(m, root, v, 1) IN
    IF ~w.ok THEN [ok |-> FALSE, m |-> w.m]
    ELSE [ok |-> TRUE,
          m |-> [w.m EXCEPT !.mem[w.t][Index(v, 2)] = [p |-> TRUE, h |-> FALSE, a |-> p]]]

\* vmm_map_page: the PT entry is cleared if present, then set.
MapPage(m, root, v, p) ==
    LET w == Walk(m, root, v, 1) IN
    IF ~w.ok THEN [ok |-> FALSE, m |-> w.m]
    ELSE [ok |-> TRUE,
          m |-> [w.m EXCEPT !.mem[w.t][Index(v, 1)] = [p |-> TRUE, h |-> FALSE, a |-> p]]]

\* vmm_map_huge_page: a PD leaf with HUGE, the frame rounded down to 2 MiB.
MapHuge(m, root, v, p) ==
    LET w == Walk(m, root, v, 2) IN
    IF ~w.ok THEN [ok |-> FALSE, m |-> w.m]
    ELSE [ok |-> TRUE,
          m |-> [w.m EXCEPT !.mem[w.t][Index(v, 2)] =
                              [p |-> TRUE, h |-> TRUE, a |-> p - (p % HUGE)]]]

\* vmm_unmap_page: stop at a missing level; a huge PD leaf goes whole;
\* otherwise the PT entry is zeroed (PRESENT or not).
Unmap(m, root, v) ==
    LET e4 == m.mem[root][Index(v, 4)]
        e3 == m.mem[e4.a][Index(v, 3)]
        e2 == m.mem[e3.a][Index(v, 2)]
    IN CASE ~e4.p \/ ~e3.p \/ ~e2.p -> m
         [] e2.h -> [m EXCEPT !.mem[e3.a][Index(v, 2)] = NoEntry]
         [] OTHER -> [m EXCEPT !.mem[e2.a][Index(v, 1)] = NoEntry]

\* vmm_get_phys, as a frame: NULL where a level is not PRESENT.
Translate(m, root, v) ==
    LET e4 == m.mem[root][Index(v, 4)]
        e3 == m.mem[e4.a][Index(v, 3)]
        e2 == m.mem[e3.a][Index(v, 2)]
        e1 == m.mem[e2.a][Index(v, 1)]
    IN CASE ~e4.p \/ ~e3.p \/ ~e2.p -> NULL
         [] e2.h -> e2.a + (v % HUGE)
         [] ~e1.p -> NULL
         [] OTHER -> e1.a

\* vmm_map_pages from page i on: a fresh frame per page; a failed
\* pmm_alloc_page unmaps pages 0 .. i-1, a failed vmm_map_page returns at once.
RECURSIVE MapPagesFrom(_, _, _, _, _)
MapPagesFrom(m, root, v, n, i) ==
    IF i = n THEN [ok |-> TRUE, m |-> m]
    ELSE IF m.free = {}
    THEN [ok |-> FALSE,
          m |-> FoldLeft(LAMBDA acc, j : Unmap(acc, root, v + j), m,
                         [j \in 1 .. i |-> j - 1])]
    ELSE LET a == Alloc(m)
             r == MapPage(a.m, root, v + i, a.f)
         IN IF ~r.ok THEN r ELSE MapPagesFrom(r.m, root, v, n, i + 1)

\* vmm_init: the PML4, 1 GiB of identity huge pages, the kernel image at the
\* higher half, the VGA page, the recursive slot; then CR3.  The mapping
\* calls' results are not looked at.
InitTables(m, k) ==
    LET m1 == FoldLeft(LAMBDA acc, j : MapHuge(acc, k, j * HUGE, j * HUGE).m, m,
                       [j \in 1 .. E |-> j - 1])
        m2 == FoldLeft(LAMBDA acc, o : MapPage(acc, k, HH_VPN + o, KBASE + o).m, m1,
                       [o \in 1 .. KERNEL_PAGES |-> o - 1])
        m3 == MapPage(m2, k, VGA_VPN, VGA_FRAME).m
    IN [m3 EXCEPT !.mem[k][RECURSIVE_INDEX] = [p |-> TRUE, h |-> FALSE, a |-> k]]

\* Mutant: the copy loop stops before entry 511.
CreateSpaceSkipLast(m, k) ==
    LET a == Alloc(m)
        upper == {i \in E \div 2 .. E - 2 : m.mem[k][i].p}
        t == [i \in 0 .. E - 1 |-> IF i \in upper THEN m.mem[k][i] ELSE NoEntry]
    IN [f |-> a.f,
        m |-> [a.m EXCEPT !.mem[a.f] =
                 [t EXCEPT ![RECURSIVE_INDEX] = [p |-> TRUE, h |-> FALSE, a |-> a.f]]]]

\* vmm_create_address_space: a zeroed PML4, the kernel's PRESENT upper-half
\* entries copied as they are now, then its own recursive slot.
CreateSpace(m, k) ==
    LET a == Alloc(m)
        upper == {i \in E \div 2 .. E - 1 : m.mem[k][i].p}
        t == [i \in 0 .. E - 1 |-> IF i \in upper THEN m.mem[k][i] ELSE NoEntry]
    IN [f |-> a.f,
        m |-> [a.m EXCEPT !.mem[a.f] =
                 [t EXCEPT ![RECURSIVE_INDEX] = [p |-> TRUE, h |-> FALSE, a |-> a.f]]]]

-----------------------------------------------------------------------------
(* The calls.  Inputs are drawn from the sets the MC module gives. *)
CONSTANTS
    PageInputs,     \* <<virt, phys>> pairs for vmm_map_page
    HugeInputs,     \* <<virt, phys>> pairs for vmm_map_huge_page
    BatchInputs,    \* <<virt, count>> pairs for vmm_map_pages
    UnmapInputs     \* virt for vmm_unmap_page

Roots == IF kpml4 = NULL THEN {} ELSE {kpml4} \cup spaces

Call(op, r, v, n, p, res) ==
    /\ mem' = res.m.mem
    /\ free' = res.m.free
    /\ last' = [op |-> op, root |-> r, v |-> v, n |-> n, p |-> p, ok |-> res.ok]

\* vmm_init, from main.c.  The panic on a failed first allocation is left out:
\* the pool the MC module gives is never empty at boot.
VmmInit ==
    /\ kpml4 = NULL
    /\ LET a == Alloc(M) IN
       /\ Call("init", a.f, 0, 0, 0, [ok |-> TRUE, m |-> InitTables(a.m, a.f)])
       /\ kpml4' = a.f
       /\ cr3' = a.f
    /\ UNCHANGED spaces

VmmMapPage(r, v, p) ==
    /\ Call("map_page", r, v, 1, p, MapPage(M, r, v, p))
    /\ UNCHANGED <<kpml4, spaces, cr3>>

VmmMapHugePage(r, v, p) ==
    /\ Call("map_huge_page", r, v, HUGE, p, MapHuge(M, r, v, p))
    /\ UNCHANGED <<kpml4, spaces, cr3>>

VmmMapPages(r, v, n) ==
    /\ Call("map_pages", r, v, n, 0, MapPagesFrom(M, r, v, n, 0))
    /\ UNCHANGED <<kpml4, spaces, cr3>>

VmmUnmapPage(r, v) ==
    /\ Call("unmap_page", r, v, 1, 0, [ok |-> TRUE, m |-> Unmap(M, r, v)])
    /\ UNCHANGED <<kpml4, spaces, cr3>>

\* Reads kernel_pml4, so only after vmm_init (the scheduler's caller runs
\* after it); returns 0 when pmm_alloc_page fails.
VmmCreateAddressSpace ==
    /\ kpml4 # NULL
    /\ IF free = {}
       THEN /\ last' = [op |-> "create", root |-> NULL, v |-> 0, n |-> 0, p |-> 0, ok |-> FALSE]
            /\ UNCHANGED <<mem, free, spaces>>
       ELSE LET c == CreateSpace(M, kpml4) IN
            /\ Call("create", c.f, 0, 0, 0, [ok |-> TRUE, m |-> c.m])
            /\ spaces' = spaces \cup {c.f}
    /\ UNCHANGED <<kpml4, cr3>>

VmmSwitchPml4(r) ==
    /\ cr3' = r
    /\ last' = [op |-> "switch", root |-> r, v |-> 0, n |-> 0, p |-> 0, ok |-> TRUE]
    /\ UNCHANGED <<mem, free, kpml4, spaces>>

Init ==
    /\ mem = [f \in Pool |-> ZeroTable]
    /\ free = Pool
    /\ kpml4 = NULL
    /\ spaces = {}
    /\ cr3 = NULL
    /\ last = [op |-> "none", root |-> NULL, v |-> 0, n |-> 0, p |-> 0, ok |-> TRUE]

Next ==
    \/ VmmInit
    \/ VmmCreateAddressSpace
    \/ \E r \in Roots :
          \/ \E x \in PageInputs : VmmMapPage(r, x[1], x[2])
          \/ \E x \in HugeInputs : VmmMapHugePage(r, x[1], x[2])
          \/ \E x \in BatchInputs : VmmMapPages(r, x[1], x[2])
          \/ \E v \in UnmapInputs : VmmUnmapPage(r, v)
          \/ VmmSwitchPml4(r)

Spec == Init /\ [][Next]_vars

-----------------------------------------------------------------------------
Entry == [p : BOOLEAN, h : BOOLEAN, a : Nat]

TypeOK ==
    /\ mem \in [Pool -> [0 .. E - 1 -> Entry]]
    /\ free \subseteq Pool
    /\ kpml4 \in Pool \cup {NULL}
    /\ spaces \subseteq Pool
    /\ cr3 \in Pool \cup {NULL}

\* vmm_map_pages, by its contract (spec.md, VMM): a call that returns false
\* has rolled back the batch, so none of its pages is left translating to a
\* frame the call allocated; each stays as it was, or unmapped.
MapPagesAtomic ==
    [][last'.op = "map_pages" /\ ~last'.ok =>
         \A j \in 0 .. last'.n - 1 :
            LET v == last'.v + j IN
            Translate([mem |-> mem'], last'.root, v)
               \in {Translate(M, last'.root, v), NULL}]_vars

====
