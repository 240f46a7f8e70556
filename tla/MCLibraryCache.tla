--------------------------- MODULE MCLibraryCache ---------------------------
(***************************************************************************)
(* LibraryCache for TLC: one cached and one uncached source.               *)
(***************************************************************************)
EXTENDS LibraryCache, TLC

\* Slots are interchangeable; sound for the runs that check no liveness.
TaskSymmetry == Permutations(Tasks)

=============================================================================
