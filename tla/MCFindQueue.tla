---------------------------- MODULE MCFindQueue ----------------------------
(* The find queue at small sizes for TLC.                                   *)
EXTENDS FindQueue

=============================================================================
