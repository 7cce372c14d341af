------------------------------- MODULE Memory -------------------------------
(***************************************************************************)
(* The VMM (src/vmm.c) and the slab heap (src/kmalloc.c) over one PMM      *)
(* zone.  main.c calls vmm_init and then kmalloc_init; from then on page   *)
(* tables, address spaces, the frames of vmm_map_pages, slab pages and     *)
(* large allocations all come from pmm_alloc_page / pmm_alloc_pages on the *)
(* same free frames.  VMM keeps the free frames, Slab the frames handed    *)
(* out; every step of either keeps the two complementary.                  *)
(***************************************************************************)
EXTENDS Integers, FiniteSets

CONSTANTS
    E, KBASE, KERNEL_PAGES, VGA_FRAME, VGA_PT, NULL,
    PageInputs, HugeInputs, BatchInputs, UnmapInputs,
    PAGE_SIZE, NUM_SIZES, Frames, VBASE, Sizes, MAX_LIVE

VARIABLES
    mem, free, kpml4, spaces, cr3, vlast,          \* vmm.c
    freeList, hdr, slabClass, used, live, slast    \* kmalloc.c

V == INSTANCE VMM WITH Pool <- Frames, last <- vlast
H == INSTANCE Slab WITH last <- slast

vmmVars == <<mem, kpml4, spaces, cr3, vlast>>
heapVars == <<freeList, hdr, slabClass, live, slast>>
vars == <<vmmVars, heapVars, free, used>>

Init == V!Init /\ H!Init

\* A VMM call; the frames it took are handed out for the heap too.
VmmStep ==
    /\ V!Next
    /\ used' = Frames \ free'
    /\ UNCHANGED heapVars

\* A heap call, once vmm_init has run (kmalloc_init follows it).
HeapStep ==
    /\ kpml4 # NULL
    /\ H!Next
    /\ free' = Frames \ used'
    /\ UNCHANGED vmmVars

Next == VmmStep \/ HeapStep

Spec == Init /\ [][Next]_vars

-----------------------------------------------------------------------------
T(r, u) == V!Translate([mem |-> mem], r, u)
TNext(r, u) == V!Translate([mem |-> mem'], r, u)

\* The pages whose translations the inputs can touch, and the kernel's.
Probe ==
    { x[1] : x \in PageInputs } \cup UnmapInputs \cup { V!VGA_VPN, V!HH_VPN }
    \cup UNION { x[1] .. x[1] + x[2] - 1 : x \in BatchInputs }
    \cup { x[1] - (x[1] % V!HUGE) + j : x \in HugeInputs, j \in {0, 1} }

\* The pages a call may remap: its own, or the 2 MiB region of a huge page.
Target(l) ==
    CASE l.op = "map_huge_page" -> { u \in Probe : u - (u % V!HUGE) = l.v - (l.v % V!HUGE) }
      [] l.op \in {"map_page", "map_pages", "unmap_page"} -> l.v .. l.v + l.n - 1
      [] OTHER -> {}

\* The frames reachable as tables from a root (the recursive slot aside),
\* the pool frames PT entries map, and the frames the heap holds.
Targets(t, I) == { mem[t][i].a : i \in { i \in I : mem[t][i].p } }
PDPTs == UNION { Targets(r, (0 .. E - 1) \ {V!RECURSIVE_INDEX}) : r \in V!Roots }
PDs == UNION { Targets(t, 0 .. E - 1) : t \in PDPTs }
PTs == UNION { Targets(t, { i \in 0 .. E - 1 : ~mem[t][i].h }) : t \in PDs }
Tables == V!Roots \cup PDPTs \cup PDs \cup PTs
DataFrames == UNION { Targets(t, 0 .. E - 1) : t \in PTs } \cap Frames
LargeFrames ==
    UNION { H!FrameOf(a.ptr) .. H!FrameOf(a.ptr) + H!PagesFor(a.size) - 1 :
              a \in { a \in live : a.size > H!KMALLOC_MAX_SIZE } }
HeapFrames == { f \in Frames : slabClass[f] # 0 } \cup LargeFrames

TypeOK == V!TypeOK /\ H!TypeOK /\ free = Frames \ used

(* vmm_map_page, vmm_map_huge_page, vmm_map_pages and vmm_unmap_page      *)
(* change, in every address space, only the translations of the pages      *)
(* they were asked for (the whole 2 MiB region for a huge page), whether   *)
(* they succeed or fail; a success leaves map_page's page at its frame,    *)
(* a huge page's region at the 2 MiB frame, an unmapped page untranslated  *)
(* and map_pages' pages at distinct frames that were free.                 *)
MappingsExact ==
    [][ UNCHANGED heapVars =>     \* a VMM call
        LET l == vlast' IN
        /\ \A r \in V!Roots, u \in Probe \ Target(l) : TNext(r, u) = T(r, u)
        /\ l.ok =>
           CASE l.op = "map_page" -> TNext(l.root, l.v) = l.p
             [] l.op = "map_huge_page" ->
                  \A u \in Target(l) : TNext(l.root, u) = l.p - (l.p % V!HUGE) + (u % V!HUGE)
             [] l.op = "unmap_page" -> TNext(l.root, l.v) = NULL
             [] l.op = "map_pages" ->
                  /\ \A j \in 0 .. l.n - 1 : TNext(l.root, l.v + j) \in free
                  /\ \A j, k \in 0 .. l.n - 1 : j # k => TNext(l.root, l.v + j) # TNext(l.root, l.v + k)
             [] OTHER -> TRUE ]_vars

(* Spec 4.2: an address space shares the kernel's upper half by copying   *)
(* the kernel PML4's upper entries, so a page the kernel (or any space)   *)
(* maps there later translates the same in every space.  The inputs stay  *)
(* under the upper PML4 entries vmm_init creates, as the kernel's do.      *)
KernelHalfShared ==
    \A s \in spaces, u \in Probe :
        V!Index(u, 4) >= E \div 2 => T(s, u) = T(kpml4, u)

(* No frame has two owners across the two allocators: a page table, a     *)
(* frame vmm_map_pages mapped, a slab page and a large allocation are      *)
(* pairwise different frames, and none of them is still free.              *)
FrameRoles ==
    /\ Tables \cap (DataFrames \cup HeapFrames) = {}
    /\ DataFrames \cap HeapFrames = {}
    /\ (Tables \cup DataFrames \cup HeapFrames) \cap free = {}

(* Slab's free lists stay acyclic, class-pure and leak-free, every slot    *)
(* held once (SlotPartition); every live object keeps its magic header     *)
(* (LiveMagic); a pointer kmalloc or kzalloc returns overlaps no allocation *)
(* still held (NoDoubleAllocation): now with VMM calls taking frames from   *)
(* the same pool in between.                                                *)
SlotPartition == H!SlotPartition
LiveMagic == H!LiveMagic
NoDoubleAllocation == [][UNCHANGED vmmVars => H!AllocationFresh]_vars  \* heap calls

====
