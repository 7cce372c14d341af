------------------------------- MODULE MC_VMM -------------------------------
(***************************************************************************)
(* vmm.c at E = 8 entries per table (PML4 index 4 is 256, the higher half; *)
(* 6 is the recursive slot 510; 7 holds the VGA page as 511 does).  Twelve *)
(* pool frames: vmm_init takes nine, leaving room for an address space and *)
(* a two-page batch that crosses a page-table boundary.                    *)
(***************************************************************************)
EXTENDS VMM

PoolMC == 64 .. 75

HeapVPN == HH_VPN + E - 1     \* last PT slot of the kernel image's table

PageInputsMC == {<<HeapVPN, 5>>}
HugeInputsMC == {<<HH_VPN + E * E, 16>>}
BatchInputsMC == {<<HeapVPN, 2>>}
UnmapInputsMC == {HeapVPN}
====
