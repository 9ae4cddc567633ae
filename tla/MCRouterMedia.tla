---------------------------- MODULE MCRouterMedia ----------------------------
(***************************************************************************)
(* An instance of RouterMedia for TLC.                                     *)
(***************************************************************************)
EXTENDS RouterMedia

=============================================================================
