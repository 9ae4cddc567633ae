---------------------------- MODULE MCSfuRouter ----------------------------
(***************************************************************************)
(* Instances of SfuRouter for TLC.                                         *)
(***************************************************************************)
EXTENDS SfuRouter, TLC

SubSymmetry     == Permutations(Sids)
HandlerSymmetry == Permutations(Handlers)
HandlerAndSubSymmetry == HandlerSymmetry \cup SubSymmetry

=============================================================================
