--------------------------- MODULE MCServiceHttp ---------------------------
(***************************************************************************)
(* ServiceHttp for TLC: two adapters that log in to one account, with two  *)
(* calls and one; and an adapter that logs in beside one with a handshake. *)
(***************************************************************************)
EXTENDS ServiceHttp, TLC

CONSTANTS grimmory, reloaded, transmission, r1, r2, r3

LoginClientOf == r1 :> grimmory @@ r2 :> grimmory @@ r3 :> reloaded
LoginStrategyOf == grimmory :> "login" @@ reloaded :> "login"

MixedClientOf == r1 :> grimmory @@ r2 :> grimmory @@ r3 :> transmission
MixedStrategyOf == grimmory :> "login" @@ transmission :> "handshake"

\* The two calls of one adapter are interchangeable.
RequestSymmetry == Permutations({r1, r2})

=============================================================================
