---------------------------- MODULE MCWriteGate ----------------------------
(***************************************************************************)
(* WriteGate for TLC: two calls at a time, a safe and a destructive intent. *)
(***************************************************************************)
EXTENDS WriteGate, TLC

CONSTANTS monitor, delete

MCIntents == {monitor, delete}
MCTierOf == [i \in MCIntents |-> IF i = delete THEN "destructive" ELSE "safe"]

\* Calls are interchangeable; sound for the run that checks no liveness.
CallSymmetry == Permutations(Calls)

=============================================================================
