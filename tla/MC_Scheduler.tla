---------------------------- MODULE MC_Scheduler ----------------------------
(***************************************************************************)
(* Model-checking instances of Scheduler: three threads, stack allocations *)
(* that succeed at one of two addresses or fail.                           *)
(***************************************************************************)
EXTENDS Scheduler

ThreadsMC == 1 .. 3
StackBasesMC == {0, 1048576, 1064960}
BuildsBoth == {"leave", "ret"}
BuildsLeave == {"leave"}

====
