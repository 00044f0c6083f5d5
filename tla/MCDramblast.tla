---------------------------- MODULE MCDramblast ----------------------------
(* Small instances of Dramblast for TLC.                                    *)
EXTENDS Dramblast

\* The backend of a flow; the uninitialised mac_addrs holds neither.
BackendOf == [k \in Keys |-> 10 + k]
Stale == {99}

\* Flows 1 to 3 share the last bucket, so the third one wraps around to the
\* bucket of the others.
CrowdedLast == [k \in Keys |-> IF k <= 3 THEN Capacity - Lanes ELSE 0]

\* All flows share the first bucket.
AllCollide == [k \in Keys |-> 0]

\* Two bursts of flows that meet in the last and in the first bucket.
RaceBatches == {<<1, 2>>, <<3, 4>>}

\* Bursts that repeat a flow, and one with more flows than the table holds.
OverflowBatches == {<<1, 1>>, <<2, 3, 2>>, <<5, 4>>, <<1, 2, 3, 4, 5>>, <<6>>}

=============================================================================
