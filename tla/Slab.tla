------------------------------- MODULE Slab -------------------------------
(***************************************************************************)
(* The kernel heap of KOS (src/kmalloc.c) over the page interface of the   *)
(* PMM.                                                                     *)
(*                                                                         *)
(* Each size class keeps a LIFO free list threaded through 16-byte object  *)
(* headers {next, magic, size} at the start of every slot of a slab page.  *)
(* kmalloc pops a header and returns the address just after it, obj + 1,   *)
(* so the caller's bytes run to 16 bytes past its slot: over the header of *)
(* the next slot.  kzalloc zeroes those bytes.  Large requests take whole  *)
(* pages from pmm_alloc_pages, and kfree of them reads the 16 bytes before *)
(* the pointer, in the previous frame.                                     *)
(*                                                                         *)
(* The heap lives at addresses VBASE + frame * PAGE_SIZE + offset (the     *)
(* PHYS_TO_VIRT direct map).  hdr holds the header of every slot of every  *)
(* slab page; other memory never holds the magic.  Request sizes are       *)
(* multiples of 16, so a memset covers a header wholly or not at all.      *)
(* slabs[i].allocations and .frees are statistics nothing reads, and are   *)
(* left out.                                                               *)
(***************************************************************************)
EXTENDS Integers, FiniteSets, Sequences, TLC

CONSTANTS
    PAGE_SIZE,        \* bytes per frame
    NUM_SIZES,        \* KMALLOC_NUM_SIZES
    Frames,           \* frames the PMM can hand out, 0 .. n-1
    VBASE,            \* PHYS_TO_VIRT offset of frame 0
    Sizes,            \* sizes callers pass to kmalloc and kzalloc
    MAX_LIVE          \* bound on the allocations callers hold at once

KMALLOC_MIN_SIZE == 16
HDR == 16                                   \* sizeof(struct slab_header)
ClassSize == [i \in 1 .. NUM_SIZES |-> KMALLOC_MIN_SIZE * 2 ^ (i - 1)]
KMALLOC_MAX_SIZE == ClassSize[NUM_SIZES]
NULL == 0

ASSUME KMALLOC_MAX_SIZE = PAGE_SIZE \div 2
ASSUME \A s \in Sizes : s > 0 /\ s % HDR = 0

VARIABLES
    freeList,    \* slabs[i].free_list
    hdr,         \* header of every slot of every slab page
    slabClass,   \* the class a frame was carved for (0: none)
    used,        \* frames the PMM has handed out
    live,        \* allocations callers hold: [ptr, size]
    last         \* the last call and its result

vars == <<freeList, hdr, slabClass, used, live, last>>

Idx == 1 .. NUM_SIZES
Base(f) == VBASE + f * PAGE_SIZE
SlotsOf(f, i) == { Base(f) + k * ClassSize[i] : k \in 0 .. PAGE_SIZE \div ClassSize[i] - 1 }
ZeroHeader == [next |-> NULL, magic |-> FALSE, size |-> 0]

-----------------------------------------------------------------------------
(* The PMM side: pmm_alloc_page and pmm_alloc_pages hand out the lowest    *)
(* free frame, and the lowest run of free frames, of a single zone.        *)

FreeRunStarts(n) == { s \in Frames : \A k \in 0 .. n - 1 : s + k \in Frames \ used }

PagesFor(size) == (size + PAGE_SIZE - 1) \div PAGE_SIZE

-----------------------------------------------------------------------------
(* A heap state is a record of the allocator's variables; each call maps   *)
(* one to [ptr, h].                                                         *)

Heap == [fl |-> freeList, hd |-> hdr, sc |-> slabClass, used |-> used]

\* size_to_index: the smallest class that holds size.
SizeToIndex(size) ==
    IF size > KMALLOC_MAX_SIZE THEN -1
    ELSE CHOOSE i \in Idx : size <= ClassSize[i] /\ \A j \in 1 .. i - 1 : size > ClassSize[j]

\* memset(p, 0, n) through the direct map: every header inside the range
\* becomes zero.
Memset(hd, p, n) ==
    [a \in DOMAIN hd |-> IF p <= a /\ a + HDR <= p + n THEN ZeroHeader ELSE hd[a]]

\* The pop without "slab->free_list = obj->next".
PopNoAdvance(h, i) ==
    LET obj == h.fl[i]
    IN  [ptr |-> obj + HDR,
         h   |-> [h EXCEPT !.hd[obj] = [@ EXCEPT !.magic = TRUE, !.size = ClassSize[i]]]]

\* The pop returning the header itself, "return (void*)obj".
PopReturnsHeader(h, i) ==
    LET obj == h.fl[i]
    IN  [ptr |-> obj,
         h   |-> [h EXCEPT !.fl[i] = h.hd[obj].next,
                           !.hd[obj] = [@ EXCEPT !.magic = TRUE, !.size = ClassSize[i]]]]

\* Lines 66-77 and 106-116: unlink the head of the free list, stamp its
\* header and hand out the bytes after it.
Pop(h, i) ==
    LET obj == h.fl[i]
    IN  [ptr |-> obj + HDR,
         h   |-> [h EXCEPT !.fl[i] = h.hd[obj].next,
                           !.hd[obj] = [@ EXCEPT !.magic = TRUE, !.size = ClassSize[i]]]]

\* The carving loop running to num_objs - 2: the last-but-one header keeps
\* the zero the PMM left in the page.
CarveShort(h, i, f) ==
    LET c == ClassSize[i]
        top == Base(f) + PAGE_SIZE - c
        new == [a \in SlotsOf(f, i) |->
                  IF a >= top - c THEN ZeroHeader
                  ELSE [next |-> a + c, magic |-> FALSE, size |-> 0]]
    IN  [h EXCEPT !.hd = new @@ @, !.fl[i] = Base(f), !.sc[f] = i, !.used = @ \cup {f}]

\* The carving loop without "last->next = NULL".
CarveNoTerminator(h, i, f) ==
    LET c == ClassSize[i]
        new == [a \in SlotsOf(f, i) |-> [next |-> a + c, magic |-> FALSE, size |-> 0]]
    IN  [h EXCEPT !.hd = new @@ @, !.fl[i] = Base(f), !.sc[f] = i, !.used = @ \cup {f}]

\* Mutant: the page is carved without being taken from the PMM's free frames.
CarveKeepFree(h, i, f) ==
    LET c == ClassSize[i]
        top == Base(f) + PAGE_SIZE - c
        new == [a \in SlotsOf(f, i) |->
                  [next |-> IF a = top THEN NULL ELSE a + c, magic |-> FALSE, size |-> 0]]
    IN  [h EXCEPT !.hd = new @@ @, !.fl[i] = Base(f), !.sc[f] = i]

\* Lines 81-104: take a page from the PMM and chain its num_objs slots,
\* each to the next, the last to NULL, all with magic and size 0.
Carve(h, i, f) ==
    LET c == ClassSize[i]
        top == Base(f) + PAGE_SIZE - c
        new == [a \in SlotsOf(f, i) |->
                  [next |-> IF a = top THEN NULL ELSE a + c, magic |-> FALSE, size |-> 0]]
    IN  [h EXCEPT !.hd = new @@ @, !.fl[i] = Base(f), !.sc[f] = i, !.used = @ \cup {f}]

\* kmalloc, lines 47-117 (kmalloc_init has run).
Malloc(size) ==
    LET i == SizeToIndex(size)
        h == Heap
    IN  CASE size > KMALLOC_MAX_SIZE ->
               IF FreeRunStarts(PagesFor(size)) = {} THEN [ptr |-> NULL, h |-> h]
               ELSE LET s == CHOOSE s \in FreeRunStarts(PagesFor(size)) :
                                 \A t \in FreeRunStarts(PagesFor(size)) : s <= t
                    IN  [ptr |-> Base(s),
                         h   |-> [h EXCEPT !.used = @ \cup (s .. s + PagesFor(size) - 1)]]
          [] h.fl[i] # NULL -> Pop(h, i)
          [] FreeRunStarts(1) # {} ->
               LET f == CHOOSE f \in FreeRunStarts(1) : \A g \in FreeRunStarts(1) : f <= g
               IN  Pop(Carve(h, i, f), i)
          [] OTHER -> [ptr |-> NULL, h |-> h]

SetHeap(h) ==
    /\ freeList' = h.fl /\ hdr' = h.hd
    /\ slabClass' = h.sc /\ used' = h.used

Hold(ptr, size) == live' = IF ptr = NULL THEN live ELSE live \cup {[ptr |-> ptr, size |-> size]}

KMalloc(size) ==
    /\ Cardinality(live) < MAX_LIVE
    /\ LET r == Malloc(size)
       IN  /\ SetHeap(r.h)
           /\ Hold(r.ptr, size)
           /\ last' = [op |-> "kmalloc", ptr |-> r.ptr, size |-> size]

\* kzalloc, lines 119-125: kmalloc, then memset(ptr, 0, size).
KZalloc(size) ==
    /\ Cardinality(live) < MAX_LIVE
    /\ LET r == Malloc(size)
       IN  /\ SetHeap([r.h EXCEPT !.hd = IF r.ptr = NULL THEN @ ELSE Memset(@, r.ptr, size)])
           /\ Hold(r.ptr, size)
           /\ last' = [op |-> "kzalloc", ptr |-> r.ptr, size |-> size]

\* kfree, lines 127-162, of an allocation a caller holds.  A header without
\* the magic, or with a size above KMALLOC_MAX_SIZE (pmm_free_pages of a
\* virtual address, which frees nothing), leaves the heap as it is.
KFree(a) ==
    LET obj == a.ptr - HDR
        ok  == obj \in DOMAIN hdr /\ hdr[obj].magic /\ hdr[obj].size <= KMALLOC_MAX_SIZE
        i   == SizeToIndex(hdr[obj].size)
    IN  /\ IF ok
           THEN /\ hdr' = [hdr EXCEPT ![obj].next = freeList[i]]
                /\ freeList' = [freeList EXCEPT ![i] = obj]
           ELSE UNCHANGED <<hdr, freeList>>
        /\ live' = live \ {a}
        /\ last' = [op |-> "kfree", ptr |-> a.ptr, size |-> a.size]
        /\ UNCHANGED <<slabClass, used>>

\* kmalloc_init, lines 25-38.
Init ==
    /\ freeList = [i \in Idx |-> NULL]
    /\ hdr = [a \in {} |-> ZeroHeader]
    /\ slabClass = [f \in Frames |-> 0]
    /\ used = {}
    /\ live = {}
    /\ last = [op |-> "init", ptr |-> NULL, size |-> 0]

Next ==
    \/ \E s \in Sizes : KMalloc(s)
    \/ \E s \in Sizes : KZalloc(s)
    \/ \E a \in live : KFree(a)

Spec == Init /\ [][Next]_vars

-----------------------------------------------------------------------------
(* Properties.                                                             *)

LiveSlab == { a \in live : a.size <= KMALLOC_MAX_SIZE }
Slots == DOMAIN hdr
FrameOf(a) == (a - VBASE) \div PAGE_SIZE

\* The headers met following next from a, at most k of them.
RECURSIVE Chain(_, _)
Chain(a, k) ==
    IF a = NULL \/ k = 0 \/ a \notin Slots THEN << >>
    ELSE << a >> \o Chain(hdr[a].next, k - 1)

FreeChain(i) == Chain(freeList[i], Cardinality(Slots) + 1)

\* How many places hold slot s: the free lists, and the callers.
Holders(s) ==
    Cardinality({ <<i, k>> \in Idx \X (1 .. Cardinality(Slots) + 1) :
                    k <= Len(FreeChain(i)) /\ FreeChain(i)[k] = s })
    + (IF \E a \in LiveSlab : a.ptr - HDR = s THEN 1 ELSE 0)

TypeOK ==
    /\ freeList \in [Idx -> Slots \cup {NULL}]
    /\ \A a \in Slots : /\ hdr[a].next \in Slots \cup {NULL}
                        /\ hdr[a].magic \in BOOLEAN
                        /\ hdr[a].size \in {0} \cup { ClassSize[i] : i \in Idx }
    /\ slabClass \in [Frames -> {0} \cup Idx]
    /\ used \subseteq Frames
    /\ live \subseteq [ptr : Nat, size : Sizes]

\* Every free list, followed from slabs[i].free_list through the headers,
\* ends at NULL after visiting slots of class-i pages only, and every slot
\* of every slab page is held exactly once: by one caller, or at one place
\* on one free list.  Pops, carving and kfree pushes interleaved over
\* several classes keep the lists acyclic and leak nothing.
SlotPartition ==
    /\ \A i \in Idx :
         LET q == FreeChain(i)
         IN  /\ IF q = << >> THEN freeList[i] = NULL
                ELSE Len(q) <= Cardinality(Slots) /\ hdr[q[Len(q)]].next = NULL
             /\ \A k \in DOMAIN q : slabClass[FrameOf(q[k])] = i
    /\ \A s \in Slots : Holders(s) = 1

\* A pointer kmalloc or kzalloc returns never overlaps the bytes of an
\* allocation a caller still holds, whether it comes off a free list, from
\* a freshly carved page or from pmm_alloc_pages.
AllocationFresh ==
    last'.op # "kfree" /\ last'.ptr # NULL =>
        \A a \in live : a.ptr + a.size <= last'.ptr \/ last'.ptr + last'.size <= a.ptr
NoDoubleAllocation == [][AllocationFresh]_vars

\* Spec section 8: for every live slab object the header immediately
\* before the returned pointer holds 0xDEADBEEF (and its class), whatever
\* kzalloc and the other callers wrote since it was handed out.
LiveMagic ==
    \A a \in LiveSlab :
        LET obj == a.ptr - HDR
        IN  obj \in Slots /\ hdr[obj].magic /\ hdr[obj].size = ClassSize[SizeToIndex(a.size)]

====
