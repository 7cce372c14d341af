------------------------------- MODULE MC_Slab -------------------------------
(***************************************************************************)
(* Model-checking instances of Slab.  Pages are 256 bytes, so the classes  *)
(* are 16, 32, 64 and 128 (KMALLOC_MAX_SIZE is half a page, as 2048 is of  *)
(* 4096), and a class-64 page holds 4 objects.  Four frames, 4096 bytes    *)
(* into the direct map.                                                    *)
(***************************************************************************)
EXTENDS Slab

FramesMC == 0 .. 3

\* The sizes process_create and tcp_socket pass: struct thread is 64 bytes
\* (class 64), struct process 112, the TCP receive ring a large request.
SizesCallers == {64, 112, 320}

====
