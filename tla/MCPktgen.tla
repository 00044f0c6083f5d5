------------------------------ MODULE MCPktgen ------------------------------
(* A small instance of PktgenMain for TLC.                                  *)
EXTENDS PktgenMain

\* The round robin of main: the second worker is on the other port.
TwoPorts == [w \in Workers |-> (w - 1) % 2]

\* Boundaries of both options, alone and repeated.
Values == {<<"p", n>> : n \in {-1, 0, 19, 20, 1400, 1401}} \cup {<<"r", n>> : n \in {-1, 0, 1, 6, 8}}
SomeCommandLines == {<<>>} \cup {<<a, b>> : a, b \in Values}

=============================================================================
