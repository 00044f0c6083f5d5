------------------------------ MODULE MCL2fwd ------------------------------
(* Small instances of L2fwd for TLC.                                        *)
EXTENDS L2fwd, TLC

\* One worker with a queue on each of two ports.
TwoQueues == <<<<<<1, 0>>, <<2, 0>>>>>>

\* Two workers that share a port, and one with nothing to do.
SharedPort == <<<<<<1, 0>>>>, <<<<1, 1>>>>, <<>>>>

MbufSymmetry == Permutations(Mbufs)

=============================================================================
