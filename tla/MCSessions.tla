----------------------------- MODULE MCSessions -----------------------------
(***************************************************************************)
(* Sessions for TLC.                                                       *)
(***************************************************************************)
EXTENDS Sessions, TLC

\* Everything random in the code is interchangeable.
RandomSymmetry == Permutations(Nonces) \cup Permutations(Bases) \cup Permutations(Hashes)
                    \cup Permutations(Attempts)

\* One behaviour in which passwords are guessed, and several in which sessions are
\* opened and ended.
MCBudgets ==
  LET Nothing == [d \in Deeds |-> 0]
  IN {[Nothing EXCEPT !["post"] = 5],
      [Nothing EXCEPT !["post"] = 2, !["signOut"] = 2, !["restart"] = 1, !["lose"] = 1],
      [Nothing EXCEPT !["post"] = 2, !["signOut"] = 1, !["change"] = 1, !["edit"] = 1, !["restart"] = 1]}

=============================================================================
