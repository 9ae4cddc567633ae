------------------------------- MODULE MCRooms -------------------------------
(***************************************************************************)
(* An instance of Rooms for TLC: a peer is <<user, number>>.               *)
(***************************************************************************)
EXTENDS Rooms, TLC

CONSTANTS u1, u2

Connections == {<<u1, 1>>, <<u1, 2>>}
UidOf(p) == p[1]

Symmetry == Permutations(Callers) \cup Permutations(Objects)

=============================================================================
