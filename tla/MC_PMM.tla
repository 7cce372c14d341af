------------------------------- MODULE MC_PMM -------------------------------
(***************************************************************************)
(* Model-checking instances of PMM.  Frames are PAGE_SIZE = 2 bytes, the   *)
(* early bitmap is 4 frames at frame 1 (the 1 MiB mark) and is scanned     *)
(* over 16 start indices, 16 bits fit in a frame and bitmap words are 2    *)
(* bits.  DMA ends at frame 10, DMA32 at frame 14 (24 in the panic run),   *)
(* the NORMAL reserve covers frames below 10 (as 0x1000 frames are 16      *)
(* MiB), a huge page is 2 frames and the kernel image is frame 1.          *)
(* Entries are [base, length, type] in bytes; type 1 is available.         *)
(***************************************************************************)
EXTENDS PMM

E(b, l, t) == [base |-> b, length |-> l, type |-> t]

\* Maps whose available RAM starts above the early window and the zone
\* bitmaps, with unaligned entries, a firmware hole inside DMA32, and a
\* NORMAL range that covers the reserved frames.
MapsSafe ==
    { << E(0, 2, 1), E(15, 6, 1), E(22, 2, 1), E(24, 2, 2), E(26, 2, 1), E(28, 8, 1) >>,
      << E(0, 2, 1), E(13, 23, 1) >> }

\* The shape of spec scenario 1: RAM from 1 MiB to the end of a DMA32 range
\* reported available, then a hole, then NORMAL memory.
MapsLowRam ==
    { << E(0, 2, 1), E(2, 20, 1), E(30, 8, 1) >> }

\* A DMA32 range from 1 MiB large enough that its bitmap covers the whole
\* early bitmap (with DMA32_LIMIT_PFN = 24), then NORMAL memory.
MapsLargeDma32 ==
    { << E(0, 2, 1), E(2, 44, 1), E(50, 4, 1) >> }

CountsMC == {0, 1, 2}

\* Spec sections 5 and 7: the early allocator panics only on exhaustion of
\* its window; pmm_init completes when the zone bitmaps it must place are
\* far smaller than that window (here 3 pages against 16 start indices),
\* whatever memset does to the bitmaps afterwards.
PmmInitSucceeds == ~panicked

====
