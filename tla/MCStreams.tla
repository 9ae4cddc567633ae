------------------------------ MODULE MCStreams ------------------------------
(***************************************************************************)
(* An instance of Streams for TLC: all streams are u1's, and any client    *)
(* may ask.                                                                *)
(***************************************************************************)
EXTENDS Streams, TLC

CONSTANT u1

PublishedByU1(m) == u1

Symmetry == Permutations(Mids) \cup Permutations(Sfus) \cup Permutations(Handlers)

=============================================================================
