-------------------------------- MODULE PMM --------------------------------
(***************************************************************************)
(* Physical memory manager of KOS (src/memory.c).                          *)
(*                                                                         *)
(* pmm_init builds three zones (DMA, DMA32, NORMAL) from the bootloader    *)
(* memory map; each zone keeps a bitmap of allocated frames and a free     *)
(* counter.  The zone bitmaps are carved by pmm_early_alloc out of a       *)
(* window at 1 MiB whose own tracking bitmap lives at the same address.    *)
(* After init, pmm_alloc_page / pmm_alloc_pages / pmm_alloc_huge_page do   *)
(* first-fit scans under the zone lock and zero what they hand out;        *)
(* pmm_free_pages calls pmm_free_page on every frame of a pointer.         *)
(*                                                                         *)
(* Addresses are scaled: memory-map entries are in bytes of a PAGE_SIZE-   *)
(* byte frame, and the thresholds of the code (1 MiB, 16 MiB, 4 GiB, the   *)
(* 0x1000 reserved frames, 512-frame huge pages, 64-bit bitmap words, the  *)
(* 32 KiB early bitmap and its 65536-index scan) are constants, so every   *)
(* formula of the code is kept while frame numbers stay small.  A zone     *)
(* bitmap is the set of frame numbers whose bit is 1.  Each operation runs *)
(* under its zone lock and is one step.                                    *)
(***************************************************************************)
EXTENDS Integers, FiniteSets, Sequences, FiniteSetsExt

CONSTANTS
    PAGE_SIZE,        \* bytes per frame, used to align memory-map entries
    LOW_PFN,          \* 0x100000 / PAGE_SIZE: lower limit and early window
    DMA_LIMIT_PFN,    \* 0x1000000 / PAGE_SIZE
    DMA32_LIMIT_PFN,  \* 0x100000000 / PAGE_SIZE
    RESERVE_PFNS,     \* 0x1000: frames reserved in ZONE_NORMAL
    HUGE_PFNS,        \* 512: frames in a 2 MiB page
    WORD_BITS,        \* 64: bits per bitmap word
    FRAME_BITS,       \* 8 * PAGE_SIZE: bitmap bits one frame holds
    EARLY_BITS,       \* 8 * 32768: bits of the early bitmap
    EARLY_SCAN,       \* 65536: start indices pmm_early_alloc tries
    KERNEL_END_PFN,   \* end of the kernel image, loaded at LOW_PFN
    HIGHER_HALF_PFN,  \* KERNEL_HIGHER_HALF / PAGE_SIZE
    BASE_UNSET,       \* 0xFFFFFFFFFFFFFFFF, the initial base_pfn
    MemMaps,          \* memory maps the bootloader may hand over
    Counts            \* count arguments of pmm_alloc_pages

ZONE_DMA == 0
ZONE_DMA32 == 1
ZONE_NORMAL == 2
Zones == {ZONE_DMA, ZONE_DMA32, ZONE_NORMAL}
MULTIBOOT_MEMORY_AVAILABLE == 1
NULL == 0

VARIABLES
    mmap,      \* the memory map pmm_init parsed
    zone,      \* zones[z].{base_pfn, end_pfn, total_pages, free_pages}
    bitmap,    \* zones[z].bitmap, as the frames whose bit is 1
    bitmapAt,  \* first frame of zones[z].bitmap, for zones that have one
    panicked,  \* pmm_init reached kernel_panic
    held,      \* pointers returned to callers and not yet freed: [ptr, n]
    last       \* the last call: [op, n, ptr] (ptr = NULL on failure)

vars == <<mmap, zone, bitmap, bitmapAt, panicked, held, last>>

MaxOf(a, b) == IF a >= b THEN a ELSE b
MinOf(a, b) == IF a =< b THEN a ELSE b

-----------------------------------------------------------------------------
(* Memory-map parsing, pmm_init lines 96-133 (first pass) and 144-166.     *)

AlignUp(a) == ((a + PAGE_SIZE - 1) \div PAGE_SIZE) * PAGE_SIZE
AlignDown(a) == (a \div PAGE_SIZE) * PAGE_SIZE
StartPfn(e) == AlignUp(e.base) \div PAGE_SIZE
EndPfn(e) == AlignDown(e.base + e.length) \div PAGE_SIZE
ClampedPfn(e) == MaxOf(StartPfn(e), LOW_PFN)
ZoneOf(endPfn) ==
    IF endPfn <= DMA_LIMIT_PFN THEN ZONE_DMA
    ELSE IF endPfn <= DMA32_LIMIT_PFN THEN ZONE_DMA32 ELSE ZONE_NORMAL
Available(m) == { i \in DOMAIN m : m[i].type = MULTIBOOT_MEMORY_AVAILABLE }

\* First pass: available entries that survive the start >= end and the
\* end <= 1 MiB checks, grouped by the zone their end falls in.
InZone(m, z) ==
    { i \in Available(m) : /\ StartPfn(m[i]) < EndPfn(m[i])
                           /\ EndPfn(m[i]) > LOW_PFN
                           /\ ZoneOf(EndPfn(m[i])) = z }

ZoneBox(m, z) ==
    [ base_pfn    |-> IF InZone(m, z) = {} THEN BASE_UNSET
                      ELSE Min({ ClampedPfn(m[i]) : i \in InZone(m, z) }),
      end_pfn     |-> IF InZone(m, z) = {} THEN 0
                      ELSE Max({ EndPfn(m[i]) : i \in InZone(m, z) }),
      total_pages |-> MapThenSumSet(LAMBDA i : EndPfn(m[i]) - ClampedPfn(m[i]), InZone(m, z)) ]

\* Second pass: frames of entry i whose bit is cleared (and counted once
\* per entry) in the zone of the entry's end; only the start is clamped.
SecondPass(m, i, box) ==
    LET z == ZoneOf(EndPfn(m[i]))
    IN  IF box[z].total_pages = 0 THEN {}
        ELSE { p \in ClampedPfn(m[i]) .. EndPfn(m[i]) - 1 :
                 box[z].base_pfn <= p /\ p < box[z].end_pfn }
\* The second pass as it would be without the type check on the entry.
EntriesAnyType(m, z) == { i \in DOMAIN m : ZoneOf(EndPfn(m[i])) = z }
EntriesOf(m, z) == { i \in Available(m) : ZoneOf(EndPfn(m[i])) = z }

-----------------------------------------------------------------------------
(* pmm_early_alloc (lines 38-61) as used by pmm_init (lines 136-141).  The *)
(* early bitmap is at LOW_PFN and index i answers frame LOW_PFN + i.  Each *)
(* zone bitmap is then memset to 0xFF over bitmap_size bytes; where it     *)
(* lies on the early bitmap, that sets the early bits under it.            *)

RoundUp(n, k) == ((n + k - 1) \div k) * k
BitmapBits(box) == RoundUp(box.end_pfn - box.base_pfn, WORD_BITS)
BitmapPages(box) == (BitmapBits(box) + FRAME_BITS - 1) \div FRAME_BITS
EarlyFit(bits, n) == { i \in 0 .. EARLY_SCAN - 1 : (i .. i + n - 1) \cap bits = {} }

\* Places the bitmaps of zones z .. ZONE_NORMAL given the early bits set so
\* far: ok is FALSE when a scan finds no room (kernel_panic), and at maps
\* each zone with pages to the frame of its bitmap.
RECURSIVE PlaceBitmaps(_, _, _)
PlaceBitmaps(box, z, bits) ==
    IF z > ZONE_NORMAL THEN [ok |-> TRUE, at |-> [k \in {} |-> 0]]
    ELSE IF box[z].total_pages = 0 THEN PlaceBitmaps(box, z + 1, bits)
    ELSE IF EarlyFit(bits, BitmapPages(box[z])) = {} THEN [ok |-> FALSE, at |-> [k \in {} |-> 0]]
    ELSE LET i      == Min(EarlyFit(bits, BitmapPages(box[z])))
             marked == bits \cup (i .. i + BitmapPages(box[z]) - 1)
             filled == { b \in i * FRAME_BITS .. i * FRAME_BITS + BitmapBits(box[z]) - 1 :
                           b < EARLY_BITS }
             rest   == PlaceBitmaps(box, z + 1, marked \cup filled)
         IN  [rest EXCEPT !.at = [k \in DOMAIN rest.at \cup {z} |->
                                     IF k = z THEN LOW_PFN + i ELSE rest.at[k]]]

\* Frames holding zone z's bitmap, and the frames whose bits frame f holds.
BitmapFrames(zn, at, z) ==
    IF z \in DOMAIN at THEN at[z] .. at[z] + BitmapPages(zn[z]) - 1 ELSE {}
BitsInFrame(zn, at, z, f) ==
    { p \in zn[z].base_pfn .. zn[z].end_pfn - 1 : at[z] + (p - zn[z].base_pfn) \div FRAME_BITS = f }

-----------------------------------------------------------------------------
(* pmm_init, lines 63-179.  The reserve loop (169-174) sets the bits of    *)
(* NORMAL frames below 0x1000 and decrements free_pages while positive.    *)

Reserved(box) ==
    { p \in 0 .. MinOf(RESERVE_PFNS, box[ZONE_NORMAL].end_pfn) - 1 : p >= box[ZONE_NORMAL].base_pfn }

PmmInit(m) ==
    LET box    == [z \in Zones |-> ZoneBox(m, z)]
        placed == PlaceBitmaps(box, ZONE_DMA, {})
        clear  == [z \in Zones |-> UNION { SecondPass(m, i, box) : i \in EntriesOf(m, z) }]
        count  == [z \in Zones |-> MapThenSumSet(LAMBDA i : Cardinality(SecondPass(m, i, box)),
                                                  EntriesOf(m, z))]
        rsv    == Reserved(box)
    IN  /\ mmap = m
        /\ panicked = ~placed.ok
        /\ bitmapAt = placed.at
        /\ bitmap = [z \in Zones |-> ((box[z].base_pfn .. box[z].end_pfn - 1) \ clear[z])
                                      \cup (IF z = ZONE_NORMAL THEN rsv ELSE {})]
        /\ zone = [z \in Zones |->
                     [ base_pfn    |-> box[z].base_pfn,
                       end_pfn     |-> box[z].end_pfn,
                       total_pages |-> box[z].total_pages,
                       free_pages  |-> IF z = ZONE_NORMAL
                                       THEN MaxOf(0, count[z] - Cardinality(rsv))
                                       ELSE count[z] ]]

Init ==
    /\ \E m \in MemMaps : PmmInit(m)
    /\ held = {}
    /\ last = [op |-> "init", n |-> 0, ptr |-> NULL]

-----------------------------------------------------------------------------
(* Allocation.  A pointer is PHYS_TO_VIRT(pfn * PAGE_SIZE), kept here as   *)
(* the frame number HIGHER_HALF_PFN + pfn of the higher-half window.       *)

ZoneFrames(z) == zone[z].base_pfn .. zone[z].end_pfn - 1
Run(s, n) == s .. s + n - 1

\* memset of the frames fs through the direct map: a zone bitmap stored
\* in one of them loses the bits that frame held.
Zeroed(bm, fs) ==
    [z \in Zones |-> bm[z] \ UNION { BitsInFrame(zone, bitmapAt, z, f) :
                                       f \in fs \cap BitmapFrames(zone, bitmapAt, z) }]

\* Grant with free_pages-- in place of free_pages -= count.
GrantCountOne(z, fs, n, op) ==
    /\ bitmap' = Zeroed([bitmap EXCEPT ![z] = @ \cup fs], fs)
    /\ zone' = [zone EXCEPT ![z].free_pages = @ - 1]
    /\ held' = held \cup {[ptr |-> HIGHER_HALF_PFN + Min(fs), n |-> n]}
    /\ last' = [op |-> op, n |-> n, ptr |-> HIGHER_HALF_PFN + Min(fs)]

\* Grant returning the physical frame instead of PHYS_TO_VIRT of it.
GrantPhys(z, fs, n, op) ==
    /\ bitmap' = Zeroed([bitmap EXCEPT ![z] = @ \cup fs], fs)
    /\ zone' = [zone EXCEPT ![z].free_pages = @ - n]
    /\ held' = held \cup {[ptr |-> Min(fs), n |-> n]}
    /\ last' = [op |-> op, n |-> n, ptr |-> Min(fs)]

\* Set the bits of run fs in zone z, drop free_pages, unlock, zero, return.
Grant(z, fs, n, op) ==
    /\ bitmap' = Zeroed([bitmap EXCEPT ![z] = @ \cup fs], fs)
    /\ zone' = [zone EXCEPT ![z].free_pages = @ - n]
    /\ held' = held \cup {[ptr |-> HIGHER_HALF_PFN + Min(fs), n |-> n]}
    /\ last' = [op |-> op, n |-> n, ptr |-> HIGHER_HALF_PFN + Min(fs)]

Fail(op, n) ==
    /\ last' = [op |-> op, n |-> n, ptr |-> NULL]
    /\ UNCHANGED <<bitmap, zone, held>>

\* pmm_alloc_page, lines 181-207: zones NORMAL, DMA32, DMA, skipping one
\* whose free_pages is 0; first clear bit of the zone.
PageCandidates(z) ==
    IF zone[z].free_pages = 0 THEN {} ELSE { p \in ZoneFrames(z) : p \notin bitmap[z] }

AllocPage ==
    LET zs == { z \in Zones : PageCandidates(z) # {} }
    IN  IF zs = {} THEN Fail("pages", 1)
        ELSE Grant(Max(zs), {Min(PageCandidates(Max(zs)))}, 1, "pages")

\* pmm_alloc_pages, lines 209-246: zones NORMAL down to DMA, skipping one
\* with fewer than count free pages; first run of count clear bits.
\* The run scan without "consecutive = 0" on a set bit: a start whose zone
\* has n clear bits from there on, consecutive or not.
RunStartsNoReset(z, n) ==
    IF zone[z].free_pages < n THEN {}
    ELSE { s \in ZoneFrames(z) : /\ Run(s, n) \subseteq ZoneFrames(z)
                                 /\ s \notin bitmap[z]
                                 /\ Cardinality({ p \in s .. zone[z].end_pfn - 1 : p \notin bitmap[z] }) >= n }

\* The run scan with the pre-check "free_pages <= count".
RunStartsPrecheckLe(z, n) ==
    IF zone[z].free_pages <= n THEN {}
    ELSE { s \in ZoneFrames(z) : Run(s, n) \subseteq ZoneFrames(z) /\ Run(s, n) \cap bitmap[z] = {} }

RunStarts(z, n) ==
    IF zone[z].free_pages < n THEN {}
    ELSE { s \in ZoneFrames(z) : Run(s, n) \subseteq ZoneFrames(z) /\ Run(s, n) \cap bitmap[z] = {} }

AllocPages(n) ==
    /\ ~panicked
    /\ CASE n = 0 -> Fail("pages", 0)
         [] n = 1 -> AllocPage
         [] OTHER -> LET zs == { z \in Zones : RunStarts(z, n) # {} }
                     IN  IF zs = {} THEN Fail("pages", n)
                         ELSE Grant(Max(zs), Run(Min(RunStarts(Max(zs), n)), n), n, "pages")
    /\ UNCHANGED <<mmap, bitmapAt, panicked>>

\* pmm_alloc_huge_page, lines 248-287: blocks of HUGE_PFNS frames at
\* base_pfn, base_pfn + 512, ... inside the zone and entirely clear.
HugeStarts(z) ==
    IF zone[z].free_pages < HUGE_PFNS THEN {}
    ELSE { s \in ZoneFrames(z) : /\ (s - zone[z].base_pfn) % HUGE_PFNS = 0
                                 /\ s + HUGE_PFNS <= zone[z].end_pfn
                                 /\ Run(s, HUGE_PFNS) \cap bitmap[z] = {} }

AllocHugePage ==
    /\ ~panicked
    /\ LET zs == { z \in Zones : HugeStarts(z) # {} }
       IN  IF zs = {} THEN Fail("huge", HUGE_PFNS)
           ELSE Grant(Max(zs), Run(Min(HugeStarts(Max(zs))), HUGE_PFNS), HUGE_PFNS, "huge")
    /\ UNCHANGED <<mmap, bitmapAt, panicked>>

-----------------------------------------------------------------------------
(* pmm_free_page, lines 289-319.  pfn = virt / PAGE_SIZE, with no          *)
(* VIRT_TO_PHYS.  Zones are tried from DMA up; in a zone that holds pfn, a *)
(* SET bit is reported as a double free and the next zone is tried, and a  *)
(* clear bit is cleared and counted.  No zone: "invalid address".          *)

FreeOne(st, pfn) ==
    LET zs == { z \in Zones : /\ st.zone[z].base_pfn <= pfn
                              /\ pfn < st.zone[z].end_pfn
                              /\ pfn \notin st.bitmap[z] }
    IN  IF zs = {} THEN st
        ELSE [bitmap |-> [st.bitmap EXCEPT ![Min(zs)] = @ \ {pfn}],
              zone   |-> [st.zone EXCEPT ![Min(zs)].free_pages = @ + 1]]

\* pmm_free_pages, lines 321-326: pmm_free_page on each frame in turn.
RECURSIVE FreeRun(_, _, _)
FreeRun(st, pfn, k) == IF k = 0 THEN st ELSE FreeRun(FreeOne(st, pfn), pfn + 1, k - 1)

FreePages(a) ==
    /\ ~panicked
    /\ LET st == FreeRun([bitmap |-> bitmap, zone |-> zone], a.ptr, a.n)
       IN  /\ bitmap' = st.bitmap
           /\ zone' = st.zone
    /\ held' = held \ {a}
    /\ last' = [op |-> "free", n |-> a.n, ptr |-> a.ptr]
    /\ UNCHANGED <<mmap, bitmapAt, panicked>>

Next ==
    \/ \E n \in Counts : AllocPages(n)
    \/ AllocHugePage
    \/ \E a \in held : FreePages(a)

Spec == Init /\ [][Next]_vars

-----------------------------------------------------------------------------
(* Properties.                                                             *)

Frames(a) == Run(a.ptr - HIGHER_HALF_PFN, a.n)
HeldFrames == UNION { Frames(a) : a \in held }
KernelFrames == LOW_PFN .. KERNEL_END_PFN - 1
EarlyFrames == LOW_PFN .. LOW_PFN + (EARLY_BITS \div FRAME_BITS) - 1
MetadataFrames == UNION { BitmapFrames(zone, bitmapAt, z) : z \in Zones }
AvailableFrames == UNION { StartPfn(mmap[i]) .. EndPfn(mmap[i]) - 1 : i \in Available(mmap) }

TypeOK ==
    /\ zone \in [Zones -> [base_pfn : Nat, end_pfn : Nat, total_pages : Nat, free_pages : Nat]]
    /\ \A z \in Zones : bitmap[z] \subseteq Nat
    /\ panicked \in BOOLEAN
    /\ \A a \in held : a.ptr >= HIGHER_HALF_PFN /\ a.n \in Nat \ {0}
    /\ last.op \in {"init", "pages", "huge", "free"}

\* Spec section 8: in every zone free_pages equals the number of clear bits
\* in [0, end_pfn - base_pfn), across pmm_init's counting and every
\* allocation's bitmap_set / free_pages decrement.
ZoneAccounting ==
    ~panicked =>
        \A z \in Zones : zone[z].total_pages > 0 =>
            zone[z].free_pages + Cardinality(bitmap[z] \cap ZoneFrames(z))
                = zone[z].end_pfn - zone[z].base_pfn

\* No frame is handed to two callers at once, and every handed-out frame
\* is still marked allocated in its zone bitmap (first-fit scans and the
\* zeroing of returned memory must never make a held frame look free).
NoDoubleAllocation ==
    /\ \A a, b \in held : a # b => Frames(a) \cap Frames(b) = {}
    /\ \A p \in HeldFrames : \E z \in Zones : p \in ZoneFrames(z) /\ p \in bitmap[z]

\* Spec section 3: a frame is either free, allocated to one caller, or
\* reserved for the kernel or firmware: no allocator hands out a frame the
\* memory map does not report available, nor the kernel image, the early
\* bitmap or a zone bitmap.
FrameOwnership ==
    /\ HeldFrames \cap (KernelFrames \cup EarlyFrames \cup MetadataFrames) = {}
    /\ HeldFrames \subseteq AvailableFrames

\* Spec section 8 (boundary): pmm_alloc_page and pmm_alloc_pages(n) return
\* NULL only when no zone has n consecutive clear bits.
NoSpuriousOOM ==
    [][ (last'.op = "pages" /\ last'.ptr = NULL /\ last'.n > 0) =>
          \A z \in Zones : ~\E s \in ZoneFrames(z) :
              Run(s, last'.n) \subseteq ZoneFrames(z) /\ Run(s, last'.n) \cap bitmap[z] = {} ]_vars

====
