----------------------------- MODULE MCStartup -----------------------------
(***************************************************************************)
(* Startup for TLC: two claims and two saves race, one hand edit comes     *)
(* between any two steps, and the process may end once.                    *)
(***************************************************************************)
EXTENDS Startup

=============================================================================
