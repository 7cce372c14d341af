------------------------------ MODULE MC_Memory ------------------------------
(***************************************************************************)
(* vmm.c and kmalloc.c on one pool of twelve frames.  Tables have E = 8  *)
(* entries (as in MC_VMM) and pages 256 bytes (as in MC_Slab).  vmm_init   *)
(* takes nine frames; the other three go to address spaces, page tables,          *)
(* vmm_map_pages frames, slab pages and large allocations, whichever asks  *)
(* first, until the pool runs dry.                                         *)
(***************************************************************************)
EXTENDS Memory

FramesMC == 64 .. 75

\* KERNEL_HIGHER_HALF >> 12, spelled out: a constant given through the
\* instance V would make the instance depend on itself.
HigherHalfVPN == (E \div 2) * E * E * E

HeapVPN == HigherHalfVPN + E - 1     \* last PT slot of the kernel image's table

PageInputsMC == {<<HeapVPN, 5>>}
HugeInputsMC == {<<HigherHalfVPN + E * E, 16>>}
BatchInputsMC == {<<HeapVPN, 2>>}
UnmapInputsMC == {HeapVPN}

\* Sizes that leave the 16-byte header room in their class (MC_Slab).
SizesFit == {48, 112, 320}
====
