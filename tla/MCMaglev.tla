------------------------------ MODULE MCMaglev ------------------------------
(* Small instances of Maglev for TLC.                                       *)
EXTENDS Maglev

BackendOf == [k \in Keys |-> 10 + k]

\* Flows 1 and 2 start at the last slot and wrap around.
Colliding == [k \in Keys |-> IF k <= 2 THEN Capacity - 1 ELSE 0]

=============================================================================
