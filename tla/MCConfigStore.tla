--------------------------- MODULE MCConfigStore ---------------------------
(***************************************************************************)
(* ConfigStore for TLC.                                                    *)
(***************************************************************************)
EXTENDS ConfigStore, TLC

\* Saves of one kind are interchangeable; sound where no liveness is checked.
SaveSymmetry == Permutations(Setups) \cup Permutations(Commits) \cup Permutations(Hands)

=============================================================================
