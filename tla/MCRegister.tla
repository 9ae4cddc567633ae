----------------------------- MODULE MCRegister -----------------------------
(***************************************************************************)
(* Instances of RegisterPromises for TLC.                                  *)
(***************************************************************************)
EXTENDS RegisterPromises, TLC

CONSTANTS u1, u2, g1, g2

OneStream  == {<<u1, 1>>}

ReqSymmetry  == Permutations(Reqs)
AllSymmetry  == ReqSymmetry \cup Permutations(Uids) \cup Permutations(Signals)

=============================================================================
