--------------------------- MODULE MCPageAllocator ---------------------------
(***************************************************************************)
(* PageAllocator for TLC: the processes are interchangeable.                 *)
(***************************************************************************)
EXTENDS PageAllocator, TLC

MCSymmetry == Permutations(Procs)
=============================================================================
