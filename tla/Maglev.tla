------------------------------- MODULE Maglev -------------------------------
(***************************************************************************)
(* The maglev connection table (l2fwd/libsashstore/maglev.c and the maglev *)
(* half of hashmap.c): linear probing over single slots, shared by all     *)
(* worker lcores without locks.                                            *)
(*                                                                         *)
(* maglev_process_frame handles one frame: maglev_hashmap_get scans for    *)
(* the flow, and if it is not cached maglev_hashmap_insert scans again and *)
(* claims a slot with a 16-byte compare-and-swap.  A step is at most one   *)
(* access to the shared table.                                             *)
(***************************************************************************)
EXTENDS Integers, FiniteSets, Sequences

CONSTANTS Lcores,    \* worker lcores
          Keys,      \* flow hashes of valid frames
          Capacity,  \* CAPACITY, a power of two
          Home,      \* maglev_hash(key) & (CAPACITY - 1)
          Backend    \* maglev_lookup[hash % TABLE_SIZE]

Slots == 0 .. Capacity - 1

ASSUME MaglevAssumption ==
    /\ Capacity \in Nat \ {0}
    /\ Keys \subseteq Nat \ {0}
    /\ Home \in [Keys -> Slots]
    /\ Backend \in [Keys -> Nat \ {0}]

VARIABLES pairs,    \* map->pairs: slot -> [key, value]; key 0 marks it empty
          pc,       \* where each lcore is in maglev_process_frame
          hash,     \* flowhash of the frame, 0 for an invalid one
          i,        \* the probe counter of the current scan
          backend   \* what maglev_process_frame returns

vars == <<pairs, pc, hash, i, backend>>

EmptyPair == [key |-> 0, value |-> 0]

\* maglev_init clears the table.
Init ==
    /\ pairs = [s \in Slots |-> EmptyPair]
    /\ pc = [t \in Lcores |-> "idle"]
    /\ hash = [t \in Lcores |-> 0]
    /\ i = [t \in Lcores |-> 0]
    /\ backend = [t \in Lcores |-> 0]

\* The slot the scan looks at, map->pairs[probe & (CAPACITY - 1)].
Probe(t) == (Home[hash[t]] + i[t]) % Capacity
Pair(t) == pairs[Probe(t)]

Goto(t, label) == pc' = [pc EXCEPT ![t] = label]

-----------------------------------------------------------------------------
(* maglev_process_frame and maglev_hashmap_get                             *)

\* The frame's hash decides whether the table is consulted at all.
ProcessFrame(t) ==
    /\ pc[t] = "idle"
    /\ \E h \in Keys \cup {0} :
          /\ hash' = [hash EXCEPT ![t] = h]
          /\ Goto(t, IF h > 0 THEN "get" ELSE "done")
    /\ UNCHANGED <<pairs, i, backend>>

GetFound(t) ==
    /\ pc[t] = "get"
    /\ Pair(t).key = hash[t]
    /\ Goto(t, "cached")
    /\ UNCHANGED <<pairs, hash, i, backend>>

\* Not cached: a hole, or the whole table was scanned.
GetNull(t) ==
    /\ pc[t] = "get"
    /\ \/ Pair(t).key = 0
       \/ Pair(t).key # hash[t] /\ i[t] + 1 >= Capacity
    /\ i' = [i EXCEPT ![t] = 0]
    /\ Goto(t, "ins_load")
    /\ UNCHANGED <<pairs, hash, backend>>

GetNext(t) ==
    /\ pc[t] = "get"
    /\ Pair(t).key \notin {0, hash[t]}
    /\ i[t] + 1 < Capacity
    /\ i' = [i EXCEPT ![t] = @ + 1]
    /\ UNCHANGED <<pairs, pc, hash, backend>>

\* backend = cached->value, a second access to the pair.
ReadCached(t) ==
    /\ pc[t] = "cached"
    /\ backend' = [backend EXCEPT ![t] = Pair(t).value]
    /\ Goto(t, "done")
    /\ UNCHANGED <<pairs, hash, i>>

-----------------------------------------------------------------------------
(* maglev_hashmap_insert                                                   *)

InsertLoad(t) ==
    /\ pc[t] = "ins_load"
    /\ Goto(t, IF Pair(t).key = 0 THEN "ins_cas" ELSE "ins_check")
    /\ UNCHANGED <<pairs, hash, i, backend>>

\* The insertion succeeded: the frame goes to the looked-up backend.
Inserted(t) ==
    /\ backend' = [backend EXCEPT ![t] = Backend[hash[t]]]
    /\ Goto(t, "done")
    /\ UNCHANGED <<hash, i>>

\* Mutant: the slot is taken without the compare-and-swap.
ClaimBlindly(t) ==
    /\ pc[t] = "ins_cas"
    /\ pairs' = [pairs EXCEPT ![Probe(t)] =
                    [key |-> hash[t], value |-> Backend[hash[t]]]]
    /\ Inserted(t)

Claim(t) ==
    /\ pc[t] = "ins_cas"
    /\ Pair(t) = EmptyPair
    /\ pairs' = [pairs EXCEPT ![Probe(t)] =
                    [key |-> hash[t], value |-> Backend[hash[t]]]]
    /\ Inserted(t)

\* Mutant: the loser of the compare-and-swap believes it succeeded.
LoseClaimTrusting(t) ==
    /\ pc[t] = "ins_cas"
    /\ Pair(t) # EmptyPair
    /\ UNCHANGED pairs
    /\ Inserted(t)

\* Mutant: the loser of the compare-and-swap does not look at the slot again.
LoseClaimMovesOn(t) ==
    /\ pc[t] = "ins_cas"
    /\ Pair(t) # EmptyPair
    /\ i' = [i EXCEPT ![t] = IF i[t] + 1 < Capacity THEN @ + 1 ELSE @]
    /\ Goto(t, "ins_load")
    /\ UNCHANGED <<pairs, hash, backend>>

LoseClaim(t) ==
    /\ pc[t] = "ins_cas"
    /\ Pair(t) # EmptyPair
    /\ Goto(t, "ins_check")
    /\ UNCHANGED <<pairs, hash, i, backend>>

InsertMatch(t) ==
    /\ pc[t] = "ins_check"
    /\ Pair(t).key = hash[t]
    /\ Goto(t, "ins_store")
    /\ UNCHANGED <<pairs, hash, i, backend>>

\* pair->value = value
InsertStore(t) ==
    /\ pc[t] = "ins_store"
    /\ pairs' = [pairs EXCEPT ![Probe(t)].value = Backend[hash[t]]]
    /\ Inserted(t)

\* Mutant: the probe counter wraps with the slot index.
InsertNextForever(t) ==
    /\ pc[t] = "ins_check"
    /\ Pair(t).key # hash[t]
    /\ i' = [i EXCEPT ![t] = (@ + 1) % Capacity]
    /\ Goto(t, "ins_load")
    /\ UNCHANGED <<pairs, hash, backend>>

InsertNext(t) ==
    /\ pc[t] = "ins_check"
    /\ Pair(t).key # hash[t]
    /\ i[t] + 1 < Capacity
    /\ i' = [i EXCEPT ![t] = @ + 1]
    /\ Goto(t, "ins_load")
    /\ UNCHANGED <<pairs, hash, backend>>

\* "hashtable insertion failed, need more memory"
InsertFail(t) ==
    /\ pc[t] = "ins_check"
    /\ Pair(t).key # hash[t]
    /\ i[t] + 1 >= Capacity
    /\ backend' = [backend EXCEPT ![t] = 0]
    /\ Goto(t, "done")
    /\ UNCHANGED <<pairs, hash, i>>

\* Back in the forwarding loop.
Return(t) ==
    /\ pc[t] = "done"
    /\ Goto(t, "idle")
    /\ hash' = [hash EXCEPT ![t] = 0]
    /\ i' = [i EXCEPT ![t] = 0]
    /\ backend' = [backend EXCEPT ![t] = 0]
    /\ UNCHANGED pairs

-----------------------------------------------------------------------------
Get(t) == GetFound(t) \/ GetNull(t) \/ GetNext(t) \/ ReadCached(t)

Insert(t) ==
    \/ InsertLoad(t)
    \/ Claim(t)
    \/ LoseClaim(t)
    \/ InsertMatch(t)
    \/ InsertStore(t)
    \/ InsertNext(t)
    \/ InsertFail(t)

Work(t) == Get(t) \/ Insert(t) \/ Return(t)

Next == \E t \in Lcores : ProcessFrame(t) \/ Work(t)

Spec == Init /\ [][Next]_vars

\* Every worker is a busy-polling thread pinned to its own lcore.
FairSpec == Spec /\ \A t \in Lcores : WF_vars(Work(t))

-----------------------------------------------------------------------------
(* Properties                                                              *)

\* The table and the locals of maglev_process_frame keep their ranges; the
\* probe counter stays below CAPACITY.
TypeOK ==
    /\ pairs \in [Slots -> [key : Keys \cup {0}, value : Nat]]
    /\ pc \in [Lcores -> {"idle", "get", "cached", "ins_load", "ins_cas",
                          "ins_check", "ins_store", "done"}]
    /\ hash \in [Lcores -> Keys \cup {0}]
    /\ i \in [Lcores -> Slots]
    /\ backend \in [Lcores -> Nat]

\* Steps of the linear probe from slot h to slot s.
Dist(h, s) == (s - h) % Capacity

\* Every cached flow is met by a scan from its home slot before any hole and
\* before any second copy of it, whatever insertions raced.
ScanPathUnbroken ==
    \A s \in Slots :
        LET k == pairs[s].key
        IN  k # 0 => \A r \in Slots :
                        Dist(Home[k], r) < Dist(Home[k], s) =>
                            pairs[r].key \notin {0, k}

\* A flow stays with its backend: no store of maglev_hashmap_insert changes
\* an occupied pair, the unguarded "pair->value = value" included.
AffinityKept ==
    [][\A s \in Slots : pairs[s].key # 0 => pairs'[s] = pairs[s]]_vars

\* The binding of a flow is the value of its pair; the frame is a batch of
\* one, and invalid frames never reach the table.
Bound(k) ==
    IF \E s \in Slots : pairs[s].key = k
      THEN pairs[CHOOSE s \in Slots : pairs[s].key = k].value ELSE 0

Bindings == [k \in Keys |-> Bound(k)]
Waiting == [t \in Lcores |-> IF hash[t] = 0 THEN <<>> ELSE <<hash[t]>>]
Answered == [t \in Lcores |->
                IF hash[t] # 0 /\ pc[t] = "done" THEN <<backend[t]>> ELSE <<>>]

Service == INSTANCE FlowService WITH
    bound <- Bindings, batch <- Waiting, answer <- Answered,
    Batches <- {<<k>> : k \in Keys}, RefusalBound <- Capacity

\* maglev.c implements the flow service, and refuses a flow ("insertion can
\* fail if it is full") only when every slot is taken.
ImplementsFlowService == Service!Spec

\* Every frame is answered: both scans end after CAPACITY probes.
FramesAnswered == \A t \in Lcores : pc[t] # "idle" ~> pc[t] = "idle"

=============================================================================
