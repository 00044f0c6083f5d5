---------------------------- MODULE MaglevProofs ----------------------------
(***************************************************************************)
(* Proofs about Maglev for every number of lcores, flows and slots and     *)
(* every hash function.                                                    *)
(*                                                                         *)
(* A scan and an insertion in progress have passed i slots; what makes     *)
(* ScanPathUnbroken inductive is that those slots belong, for good, to     *)
(* other flows.  The refinement of FlowService adds what an answer says    *)
(* about the table when it is handed back.                                 *)
(***************************************************************************)
EXTENDS Maglev, FiniteSetTheorems, TLAPS

-----------------------------------------------------------------------------
(* The inductive invariant                                                  *)

\* A pair is empty, or a flow with its backend.
PairInv ==
    \A s \in Slots :
        IF pairs[s].key = 0 THEN pairs[s] = EmptyPair
                            ELSE pairs[s].value = Backend[pairs[s].key]

\* The first d slots of a scan for k belong to other flows.
Passed(p, k, d) ==
    \A r \in Slots : Dist(Home[k], r) < d => p[r].key \notin {0, k}

Cached(p, k) == \E s \in Slots : p[s].key = k

Scanning == {"get", "cached", "ins_load", "ins_cas", "ins_check", "ins_store"}

\* What lcore t knows of the table where it stands.
LcoreInv(t) ==
    /\ pc[t] = "idle" => hash[t] = 0 /\ i[t] = 0 /\ backend[t] = 0
    /\ pc[t] \in Scanning => hash[t] # 0 /\ Passed(pairs, hash[t], i[t])
    /\ pc[t] \in {"cached", "ins_store"} => Pair(t).key = hash[t]
    /\ pc[t] = "ins_check" => Pair(t).key # 0
    /\ pc[t] = "done" /\ hash[t] # 0 =>
          IF backend[t] = 0 THEN Passed(pairs, hash[t], Capacity)
          ELSE Cached(pairs, hash[t]) /\ backend[t] = Backend[hash[t]]

IInv ==
    /\ TypeOK
    /\ PairInv
    /\ ScanPathUnbroken
    /\ \A t \in Lcores : LcoreInv(t)

-----------------------------------------------------------------------------
(* Index arithmetic                                                         *)

\* "& (CAPACITY - 1)" after one addition or subtraction of slots.
LEMMA Wraps ==
    ASSUME NEW a \in Int
    PROVE  /\ a \in 0 .. Capacity - 1 => a % Capacity = a
           /\ a \in Capacity .. Capacity + Capacity - 1 => a % Capacity = a - Capacity
           /\ a \in -(Capacity - 1) .. -1 => a % Capacity = a + Capacity
<1>1. Capacity \in Nat \ {0} BY MaglevAssumption
<1>2. ASSUME a \in 0 .. Capacity - 1 PROVE a % Capacity = a
  BY <1>1, <1>2
<1>3. ASSUME a \in Capacity .. Capacity + Capacity - 1 PROVE a % Capacity = a - Capacity
  BY <1>1, <1>3
<1>4. ASSUME a \in -(Capacity - 1) .. -1 PROVE a % Capacity = a + Capacity
  BY <1>1, <1>4
<1> QED BY <1>2, <1>3, <1>4

\* Steps of the scan from h to s, without the modulus.
LEMMA DistValue ==
    ASSUME NEW h \in Slots, NEW s \in Slots
    PROVE  Dist(h, s) = IF s >= h THEN s - h ELSE s - h + Capacity
<1>1. Capacity \in Nat \ {0} BY MaglevAssumption
<1>2. s - h \in Int /\ s \in 0 .. Capacity - 1 /\ h \in 0 .. Capacity - 1
  BY <1>1 DEF Slots
<1>3. CASE s >= h
  BY <1>1, <1>2, <1>3, Wraps DEF Dist
<1>4. CASE ~(s >= h)
  <2>1. s - h \in -(Capacity - 1) .. -1 BY <1>1, <1>2, <1>4
  <2> QED BY <1>2, <1>4, <2>1, Wraps DEF Dist
<1> QED BY <1>3, <1>4

\* Distances are below CAPACITY and tell slots apart.
LEMMA DistFacts ==
    ASSUME NEW h \in Slots, NEW s \in Slots
    PROVE  /\ Dist(h, s) \in 0 .. Capacity - 1 /\ Dist(h, s) \in Int
           /\ \A r \in Slots : Dist(h, r) = Dist(h, s) => r = s
<1>1. Capacity \in Nat \ {0} BY MaglevAssumption
<1> QED BY <1>1, DistValue DEF Slots

\* The n-th probe looks at the slot n steps away.
LEMMA ProbeFacts ==
    ASSUME NEW h \in Slots, NEW n \in Slots
    PROVE  (h + n) % Capacity \in Slots /\ Dist(h, (h + n) % Capacity) = n
<1>1. Capacity \in Nat \ {0} BY MaglevAssumption
<1>2. h \in 0 .. Capacity - 1 /\ n \in 0 .. Capacity - 1 /\ h + n \in Int
  BY DEF Slots
<1>3. CASE h + n < Capacity
  <2>1. (h + n) % Capacity = h + n BY <1>1, <1>2, <1>3, Wraps
  <2>2. h + n \in Slots BY <1>1, <1>2, <1>3 DEF Slots
  <2>3. Dist(h, h + n) = n BY <1>1, <1>2, <2>2, DistValue
  <2> QED BY <2>1, <2>2, <2>3
<1>4. CASE ~(h + n < Capacity)
  <2>1. (h + n) % Capacity = h + n - Capacity BY <1>1, <1>2, <1>4, Wraps
  <2>2. h + n - Capacity \in Slots BY <1>1, <1>2, <1>4 DEF Slots
  <2>3. Dist(h, h + n - Capacity) = n BY <1>1, <1>2, <2>2, DistValue
  <2> QED BY <2>1, <2>2, <2>3
<1> QED BY <1>3, <1>4

-----------------------------------------------------------------------------
(* What an lcore knows survives the steps of the others                     *)

\* Occupied pairs do not change in this step.
Grows == \A s \in Slots : pairs[s].key # 0 => pairs'[s] = pairs[s]

\* The step leaves the private state of lcore u alone.
Untouched(u) ==
    pc'[u] = pc[u] /\ hash'[u] = hash[u] /\ i'[u] = i[u] /\ backend'[u] = backend[u]

LEMMA PassedGrows ==
    ASSUME Grows, NEW k, NEW d, Passed(pairs, k, d)
    PROVE  Passed(pairs', k, d)
BY DEF Grows, Passed

LEMMA CachedGrows ==
    ASSUME Grows, NEW k \in Keys, Cached(pairs, k)
    PROVE  Cached(pairs', k)
BY MaglevAssumption DEF Grows, Cached

\* While lcore t scans, its hash is a flow and its probe a slot, i steps away.
LEMMA ScanFacts ==
    ASSUME TypeOK, NEW t \in Lcores, hash[t] # 0
    PROVE  /\ hash[t] \in Keys /\ i[t] \in Slots
           /\ Home[hash[t]] \in Slots
           /\ Backend[hash[t]] \in Nat \ {0}
           /\ Probe(t) \in Slots
           /\ Dist(Home[hash[t]], Probe(t)) = i[t]
<1>1. hash[t] \in Keys /\ i[t] \in Slots BY DEF TypeOK
<1>2. Home[hash[t]] \in Slots /\ Backend[hash[t]] \in Nat \ {0}
  BY <1>1, MaglevAssumption
<1> QED BY <1>1, <1>2, ProbeFacts DEF Probe

LEMMA Frame ==
    ASSUME TypeOK, Grows, NEW u \in Lcores, LcoreInv(u), Untouched(u)
    PROVE  LcoreInv(u)'
<1>1. CASE hash[u] = 0
  BY <1>1 DEF LcoreInv, Untouched, Scanning, TypeOK
<1>2. CASE hash[u] # 0
  <2>1. Probe(u)' = Probe(u) BY DEF Probe, Untouched
  <2>2. Probe(u) \in Slots /\ hash[u] \in Keys BY <1>2, ScanFacts
  <2>3. Pair(u).key # 0 => Pair(u)' = Pair(u)
    BY <2>1, <2>2 DEF Pair, Grows
  <2>4. Passed(pairs, hash[u], i[u]) => Passed(pairs', hash[u], i[u])
    BY PassedGrows
  <2>5. Passed(pairs, hash[u], Capacity) => Passed(pairs', hash[u], Capacity)
    BY PassedGrows
  <2>6. Cached(pairs, hash[u]) => Cached(pairs', hash[u])
    BY <2>2, CachedGrows
  <2> QED BY <1>2, <2>3, <2>4, <2>5, <2>6 DEF LcoreInv, Untouched
<1> QED BY <1>1, <1>2

\* A step that leaves the table alone.
LEMMA LocalStep ==
    ASSUME IInv, NEW t \in Lcores, pairs' = pairs, TypeOK', LcoreInv(t)',
           \A u \in Lcores \ {t} : Untouched(u)
    PROVE  IInv'
<1>1. Grows BY DEF Grows
<1>2. \A u \in Lcores : LcoreInv(u)'
  BY <1>1, Frame DEF IInv
<1>3. PairInv' /\ ScanPathUnbroken'
  BY DEF IInv, PairInv, ScanPathUnbroken
<1> QED BY <1>2, <1>3 DEF IInv

-----------------------------------------------------------------------------
(* Every step preserves the invariant                                       *)

LEMMA InitInvariant == Init => IInv
<1> SUFFICES ASSUME Init PROVE IInv OBVIOUS
<1>1. 0 \in Slots BY MaglevAssumption DEF Slots
<1>2. TypeOK BY <1>1 DEF Init, TypeOK, EmptyPair
<1>3. PairInv BY DEF Init, PairInv, EmptyPair
<1>4. ScanPathUnbroken BY DEF Init, ScanPathUnbroken, EmptyPair
<1>5. \A t \in Lcores : LcoreInv(t) BY DEF Init, LcoreInv, Scanning
<1> QED BY <1>2, <1>3, <1>4, <1>5 DEF IInv

LEMMA ProcessFrameStep ==
    ASSUME IInv, NEW t \in Lcores, ProcessFrame(t)
    PROVE  IInv'
<1> USE DEF ProcessFrame, Goto
<1>1. TypeOK /\ LcoreInv(t) BY DEF IInv
<1>2. PICK h \in Keys \cup {0} :
         /\ hash' = [hash EXCEPT ![t] = h]
         /\ pc' = [pc EXCEPT ![t] = IF h > 0 THEN "get" ELSE "done"]
  OBVIOUS
<1>3. TypeOK' BY <1>1, <1>2 DEF TypeOK
<1>4. hash'[t] = h /\ pc'[t] \in {"get", "done"} /\ i'[t] = 0
  BY <1>1, <1>2 DEF LcoreInv, TypeOK
<1>5. h # 0 => Passed(pairs', h, 0) /\ pc'[t] = "get"
  <2> SUFFICES ASSUME h # 0 PROVE Passed(pairs', h, 0) /\ pc'[t] = "get" OBVIOUS
  <2>1. h \in Keys /\ h \in Nat \ {0} BY MaglevAssumption
  <2>2. Home[h] \in Slots BY <2>1, MaglevAssumption
  <2>3. Passed(pairs', h, 0) BY <2>2, DistFacts DEF Passed
  <2> QED BY <1>1, <1>2, <2>1, <2>3 DEF TypeOK
<1>6. h = 0 => pc'[t] = "done" BY <1>1, <1>2 DEF TypeOK
<1>7. LcoreInv(t)' BY <1>4, <1>5, <1>6 DEF LcoreInv, Scanning
<1>8. \A u \in Lcores \ {t} : Untouched(u) BY <1>2 DEF Untouched, IInv, TypeOK
<1> QED BY <1>3, <1>7, <1>8, LocalStep

\* The slot under the probe and those before it belong to other flows.
LEMMA PassedNext ==
    ASSUME TypeOK, NEW t \in Lcores, hash[t] # 0, Passed(pairs, hash[t], i[t]),
           Pair(t).key \notin {0, hash[t]}
    PROVE  Passed(pairs, hash[t], i[t] + 1)
<1>1. ASSUME NEW r \in Slots, Dist(Home[hash[t]], r) < i[t] + 1
      PROVE  pairs[r].key \notin {0, hash[t]}
  <2>1. Dist(Home[hash[t]], r) \in Int /\ i[t] \in Int
    <3>1. Home[hash[t]] \in Slots /\ i[t] \in Slots BY ScanFacts
    <3>2. i[t] \in Int BY <3>1, MaglevAssumption DEF Slots
    <3> QED BY <3>1, <3>2, DistFacts
  <2>2. CASE Dist(Home[hash[t]], r) < i[t] BY <2>2 DEF Passed
  <2>3. CASE Dist(Home[hash[t]], r) = i[t]
    <3>1. r = Probe(t) BY <2>3, ScanFacts, DistFacts
    <3> QED BY <3>1 DEF Pair
  <2> QED BY <1>1, <2>1, <2>2, <2>3
<1> QED BY <1>1 DEF Passed

LEMMA GetStep ==
    ASSUME IInv, NEW t \in Lcores, Get(t)
    PROVE  IInv'
<1>1. TypeOK /\ LcoreInv(t) /\ pc[t] \in {"get", "cached"}
  BY DEF IInv, Get, GetFound, GetNull, GetNext, ReadCached
<1>2. /\ hash[t] # 0 /\ Passed(pairs, hash[t], i[t])
      /\ pc[t] = "cached" => Pair(t).key = hash[t]
  BY <1>1 DEF LcoreInv, Scanning
<1>3. /\ hash[t] \in Keys /\ i[t] \in Slots /\ Probe(t) \in Slots
      /\ Dist(Home[hash[t]], Probe(t)) = i[t] /\ Home[hash[t]] \in Slots
      /\ Backend[hash[t]] \in Nat \ {0}
  BY <1>1, <1>2, ScanFacts
<1>4. pairs' = pairs /\ hash' = hash
  BY DEF Get, GetFound, GetNull, GetNext, ReadCached
<1>5. \A u \in Lcores \ {t} : Untouched(u)
  BY <1>1 DEF Get, GetFound, GetNull, GetNext, ReadCached, Goto, Untouched, TypeOK
<1>6. CASE GetFound(t)
  <2>1. TypeOK' /\ pc'[t] = "cached" /\ i' = i
    BY <1>1, <1>6 DEF GetFound, Goto, TypeOK
  <2>2. LcoreInv(t)'
    BY <1>2, <1>4, <1>6, <2>1 DEF LcoreInv, Pair, Probe, GetFound, Scanning
  <2> QED BY <1>4, <1>5, <2>1, <2>2, LocalStep
<1>7. CASE GetNull(t)
  <2>1. TypeOK' /\ pc'[t] = "ins_load" /\ i'[t] = 0
    BY <1>1, <1>7, MaglevAssumption DEF GetNull, Goto, TypeOK, Slots
  <2>2. Passed(pairs, hash[t], 0) BY <1>3, DistFacts DEF Passed
  <2>3. LcoreInv(t)' BY <1>2, <1>4, <2>1, <2>2 DEF LcoreInv, Scanning
  <2> QED BY <1>4, <1>5, <2>1, <2>3, LocalStep
<1>8. CASE GetNext(t)
  <2>1. i'[t] = i[t] + 1 /\ pc' = pc /\ pc[t] = "get"
    BY <1>1, <1>8 DEF GetNext, TypeOK
  <2>2. TypeOK'
    <3>1. i[t] + 1 \in Slots BY <1>3, <1>8, MaglevAssumption DEF GetNext, Slots
    <3> QED BY <1>1, <1>8, <3>1 DEF GetNext, TypeOK
  <2>3. Passed(pairs, hash[t], i[t] + 1) BY <1>1, <1>2, <1>8, PassedNext DEF GetNext
  <2>4. LcoreInv(t)' BY <1>2, <1>4, <2>1, <2>3 DEF LcoreInv, Scanning
  <2> QED BY <1>4, <1>5, <2>2, <2>4, LocalStep
<1>9. CASE ReadCached(t)
  <2>1. Pair(t).key = hash[t] /\ Pair(t).value = Backend[hash[t]]
    BY <1>2, <1>3, <1>9 DEF ReadCached, IInv, PairInv, Pair
  <2>2. TypeOK' /\ pc'[t] = "done" /\ backend'[t] = Backend[hash[t]]
    BY <1>1, <1>3, <1>9, <2>1 DEF ReadCached, Goto, TypeOK
  <2>3. Cached(pairs, hash[t]) BY <1>3, <2>1 DEF Cached, Pair
  <2>4. LcoreInv(t)' BY <1>2, <1>3, <1>4, <2>2, <2>3 DEF LcoreInv, Scanning
  <2> QED BY <1>4, <1>5, <2>2, <2>4, LocalStep
<1> QED BY <1>6, <1>7, <1>8, <1>9 DEF Get

LEMMA ReturnStep ==
    ASSUME IInv, NEW t \in Lcores, Return(t)
    PROVE  IInv'
<1> USE DEF Return, Goto
<1>1. TypeOK /\ 0 \in Slots BY MaglevAssumption DEF IInv, Slots
<1>2. TypeOK' BY <1>1 DEF TypeOK
<1>3. LcoreInv(t)' BY <1>1 DEF LcoreInv, TypeOK, Scanning
<1>4. \A u \in Lcores \ {t} : Untouched(u) BY <1>1 DEF Untouched, TypeOK
<1> QED BY <1>2, <1>3, <1>4, LocalStep

\* While lcore t inserts: what is common to all steps of the insertion.
LEMMA InsertFacts ==
    ASSUME IInv, NEW t \in Lcores, Insert(t)
    PROVE  /\ TypeOK /\ LcoreInv(t) /\ pc[t] \in Scanning
           /\ hash[t] # 0 /\ Passed(pairs, hash[t], i[t])
           /\ hash[t] \in Keys /\ i[t] \in Slots /\ Probe(t) \in Slots
           /\ Home[hash[t]] \in Slots
           /\ Dist(Home[hash[t]], Probe(t)) = i[t]
           /\ Backend[hash[t]] \in Nat \ {0}
           /\ hash' = hash
           /\ \A u \in Lcores \ {t} : Untouched(u)
<1>1. TypeOK /\ LcoreInv(t) /\ pc[t] \in Scanning
  BY DEF IInv, Insert, InsertLoad, Claim, LoseClaim, InsertMatch, InsertStore,
         InsertNext, InsertFail, Scanning
<1>2. hash[t] # 0 /\ Passed(pairs, hash[t], i[t])
  BY <1>1 DEF LcoreInv
<1>3. hash' = hash
  BY DEF Insert, InsertLoad, Claim, LoseClaim, InsertMatch, InsertStore,
         InsertNext, InsertFail, Inserted
<1>4. \A u \in Lcores \ {t} : Untouched(u)
  BY <1>1, <1>3 DEF Insert, InsertLoad, Claim, LoseClaim, InsertMatch, InsertStore,
         InsertNext, InsertFail, Inserted, Goto, Untouched, TypeOK
<1> QED BY <1>1, <1>2, <1>3, <1>4, ScanFacts

\* The steps of maglev_hashmap_insert that only read the table.
LEMMA InsertReadStep ==
    ASSUME IInv, NEW t \in Lcores,
           InsertLoad(t) \/ LoseClaim(t) \/ InsertMatch(t) \/ InsertNext(t) \/ InsertFail(t)
    PROVE  IInv'
<1>1. Insert(t) BY DEF Insert
<1>2. /\ TypeOK /\ LcoreInv(t)
      /\ hash[t] # 0 /\ Passed(pairs, hash[t], i[t])
      /\ hash[t] \in Keys /\ i[t] \in Slots /\ Probe(t) \in Slots
      /\ Home[hash[t]] \in Slots
      /\ hash' = hash
      /\ \A u \in Lcores \ {t} : Untouched(u)
  BY <1>1, InsertFacts
<1>3. pairs' = pairs
  BY DEF InsertLoad, LoseClaim, InsertMatch, InsertNext, InsertFail
<1>4. CASE InsertLoad(t)
  <2>1. TypeOK' /\ i' = i /\ pc'[t] = IF Pair(t).key = 0 THEN "ins_cas" ELSE "ins_check"
    BY <1>2, <1>4 DEF InsertLoad, Goto, TypeOK
  <2>2. LcoreInv(t)'
    BY <1>2, <1>3, <2>1 DEF LcoreInv, Scanning, Pair, Probe
  <2> QED BY <1>2, <1>3, <2>1, <2>2, LocalStep
<1>5. CASE LoseClaim(t)
  <2>1. TypeOK' /\ i' = i /\ pc'[t] = "ins_check"
    BY <1>2, <1>5 DEF LoseClaim, Goto, TypeOK
  <2>2. Pair(t).key # 0
    BY <1>2, <1>5 DEF LoseClaim, IInv, PairInv, Pair
  <2>3. LcoreInv(t)'
    BY <1>2, <1>3, <2>1, <2>2 DEF LcoreInv, Scanning, Pair, Probe
  <2> QED BY <1>2, <1>3, <2>1, <2>3, LocalStep
<1>6. CASE InsertMatch(t)
  <2>1. TypeOK' /\ i' = i /\ pc'[t] = "ins_store" /\ Pair(t).key = hash[t]
    BY <1>2, <1>6 DEF InsertMatch, Goto, TypeOK
  <2>2. LcoreInv(t)'
    BY <1>2, <1>3, <2>1 DEF LcoreInv, Scanning, Pair, Probe
  <2> QED BY <1>2, <1>3, <2>1, <2>2, LocalStep
<1>7. ASSUME InsertNext(t) \/ InsertFail(t)
      PROVE  Passed(pairs, hash[t], i[t] + 1)
  <2>1. Pair(t).key # 0 BY <1>2, <1>7 DEF LcoreInv, InsertNext, InsertFail
  <2> QED BY <1>2, <1>7, <2>1, PassedNext DEF InsertNext, InsertFail
<1>8. CASE InsertNext(t)
  <2>1. i[t] + 1 \in Slots BY <1>2, <1>8, MaglevAssumption DEF InsertNext, Slots
  <2>2. TypeOK' /\ i'[t] = i[t] + 1 /\ pc'[t] = "ins_load"
    BY <1>2, <1>8, <2>1 DEF InsertNext, Goto, TypeOK
  <2>3. LcoreInv(t)' BY <1>2, <1>3, <1>7, <1>8, <2>2 DEF LcoreInv, Scanning
  <2> QED BY <1>2, <1>3, <2>2, <2>3, LocalStep
<1>9. CASE InsertFail(t)
  <2>1. i[t] + 1 = Capacity BY <1>2, <1>9, MaglevAssumption DEF InsertFail, Slots
  <2>2. TypeOK' /\ pc'[t] = "done" /\ backend'[t] = 0
    BY <1>2, <1>9 DEF InsertFail, Goto, TypeOK
  <2>3. LcoreInv(t)' BY <1>2, <1>3, <1>7, <1>9, <2>1, <2>2 DEF LcoreInv, Scanning
  <2> QED BY <1>2, <1>3, <2>2, <2>3, LocalStep
<1> QED BY <1>4, <1>5, <1>6, <1>8, <1>9

\* A claimed pair is the first copy of its flow, and there was no hole before it.
LEMMA ClaimStep ==
    ASSUME IInv, NEW t \in Lcores, Claim(t)
    PROVE  IInv' /\ Grows /\ ~Cached(pairs, hash[t])
<1>1. /\ TypeOK /\ LcoreInv(t)
      /\ hash[t] # 0 /\ Passed(pairs, hash[t], i[t])
      /\ hash[t] \in Keys /\ i[t] \in Slots /\ Probe(t) \in Slots
      /\ Home[hash[t]] \in Slots
      /\ Dist(Home[hash[t]], Probe(t)) = i[t]
      /\ Backend[hash[t]] \in Nat \ {0}
      /\ hash' = hash
      /\ \A u \in Lcores \ {t} : Untouched(u)
  BY InsertFacts DEF Insert
<1> DEFINE s == Probe(t)
           k == hash[t]
           new == [key |-> k, value |-> Backend[k]]
<1>2. /\ pairs' = [pairs EXCEPT ![s] = new]
      /\ pairs[s] = EmptyPair
      /\ i' = i
  BY DEF Claim, Inserted, Pair
<1>3. /\ pairs[s].key = 0
      /\ pairs'[s] = new
      /\ \A r \in Slots \ {s} : pairs'[r] = pairs[r]
  BY <1>1, <1>2 DEF TypeOK, EmptyPair
<1>4. Grows BY <1>3 DEF Grows
<1>5. ~Cached(pairs, k)
  <2> SUFFICES ASSUME NEW r \in Slots, pairs[r].key = k PROVE FALSE BY DEF Cached
  <2>1. ~(Dist(Home[k], s) < Dist(Home[k], r))
    BY <1>1, <1>3 DEF IInv, ScanPathUnbroken
  <2>2. ~(Dist(Home[k], r) < i[t]) BY <1>1 DEF Passed
  <2>3. Dist(Home[k], r) \in Int /\ i[t] \in Int
    <3>1. i[t] \in Int BY <1>1, MaglevAssumption DEF Slots
    <3> QED BY <1>1, <3>1, DistFacts
  <2>4. Dist(Home[k], r) = Dist(Home[k], s) BY <1>1, <2>1, <2>2, <2>3
  <2>5. r = s BY <1>1, <2>4, DistFacts
  <2> QED BY <1>1, <1>3, <2>5
<1>6. TypeOK'
  <2>1. pairs' \in [Slots -> [key : Keys \cup {0}, value : Nat]]
    BY <1>1, <1>2 DEF TypeOK
  <2> QED BY <1>1, <2>1 DEF Claim, Inserted, Goto, TypeOK
<1>7. PairInv'
  BY <1>1, <1>3 DEF IInv, PairInv
<1>8. ScanPathUnbroken'
  <2> SUFFICES ASSUME NEW x \in Slots, pairs'[x].key # 0,
                      NEW r \in Slots,
                      Dist(Home[pairs'[x].key], r) < Dist(Home[pairs'[x].key], x)
               PROVE  pairs'[r].key \notin {0, pairs'[x].key}
    BY DEF ScanPathUnbroken
  <2>1. CASE x = s
    <3>1. pairs'[x].key = k BY <1>3, <2>1
    <3>2. pairs[r].key \notin {0, k} BY <1>1, <2>1, <3>1 DEF Passed
    <3> QED BY <1>3, <3>1, <3>2
  <2>2. CASE x # s
    <3>1. pairs'[x] = pairs[x] BY <1>3, <2>2
    <3>2. pairs[r].key \notin {0, pairs[x].key}
      BY <3>1 DEF IInv, ScanPathUnbroken
    <3>3. r # s BY <1>3, <3>2
    <3> QED BY <1>3, <3>1, <3>2, <3>3
  <2> QED BY <2>1, <2>2
<1>9. LcoreInv(t)'
  <2>1. pc'[t] = "done" /\ backend'[t] = Backend[k]
    BY <1>1 DEF Claim, Inserted, Goto, TypeOK
  <2>2. Cached(pairs', k) BY <1>1, <1>3 DEF Cached
  <2> QED BY <1>1, <2>1, <2>2 DEF LcoreInv, Scanning
<1>10. \A u \in Lcores : LcoreInv(u)'
  BY <1>1, <1>4, <1>9, Frame DEF IInv
<1> QED BY <1>4, <1>5, <1>6, <1>7, <1>8, <1>10 DEF IInv

\* "pair->value = value" stores what is there already.
LEMMA InsertStoreStep ==
    ASSUME IInv, NEW t \in Lcores, InsertStore(t)
    PROVE  IInv' /\ pairs' = pairs /\ Pair(t).key = hash[t]
<1>1. /\ TypeOK /\ LcoreInv(t)
      /\ hash[t] # 0
      /\ hash[t] \in Keys /\ Probe(t) \in Slots
      /\ Backend[hash[t]] \in Nat \ {0}
      /\ hash' = hash
      /\ \A u \in Lcores \ {t} : Untouched(u)
  BY InsertFacts DEF Insert
<1>2. Pair(t).key = hash[t] BY <1>1 DEF LcoreInv, InsertStore
<1>3. pairs[Probe(t)].value = Backend[hash[t]]
  BY <1>1, <1>2 DEF IInv, PairInv, Pair
<1>4. pairs' = pairs
  <2>1. pairs' = [pairs EXCEPT ![Probe(t)].value = Backend[hash[t]]] BY DEF InsertStore
  <2>2. pairs[Probe(t)] = [pairs[Probe(t)] EXCEPT !.value = Backend[hash[t]]]
    BY <1>1, <1>3 DEF TypeOK
  <2> QED BY <1>1, <2>1, <2>2 DEF TypeOK
<1>5. TypeOK' /\ pc'[t] = "done" /\ backend'[t] = Backend[hash[t]]
  BY <1>1, <1>4 DEF InsertStore, Inserted, Goto, TypeOK
<1>6. Cached(pairs, hash[t]) BY <1>1, <1>2 DEF Cached, Pair
<1>7. LcoreInv(t)' BY <1>1, <1>4, <1>5, <1>6 DEF LcoreInv, Scanning
<1> QED BY <1>1, <1>2, <1>4, <1>5, <1>7, LocalStep

LEMMA StepInvariant == IInv /\ [Next]_vars => IInv'
<1> SUFFICES ASSUME IInv, [Next]_vars PROVE IInv' OBVIOUS
<1>1. ASSUME NEW t \in Lcores, ProcessFrame(t) \/ Work(t) PROVE IInv'
  BY <1>1, ProcessFrameStep, GetStep, ReturnStep, InsertReadStep, ClaimStep,
     InsertStoreStep DEF Work, Insert
<1>2. CASE UNCHANGED vars
  BY <1>2 DEF vars, IInv, TypeOK, PairInv, ScanPathUnbroken, LcoreInv, Pair, Probe,
              Passed, Cached
<1> QED BY <1>1, <1>2 DEF Next

LEMMA Invariant == Spec => []IInv
BY InitInvariant, StepInvariant, PTL DEF Spec

-----------------------------------------------------------------------------
(* Theorems                                                                 *)

\* The probe counter and the pairs keep their ranges.
THEOREM TypeCorrect == Spec => []TypeOK
<1>1. IInv => TypeOK BY DEF IInv
<1> QED BY <1>1, Invariant, PTL

\* However lookups and insertions race, a cached flow is met by its scan before
\* any hole and is stored once on it.
THEOREM ScanPathsStayUnbroken == Spec => []ScanPathUnbroken
<1>1. IInv => ScanPathUnbroken BY DEF IInv
<1> QED BY <1>1, Invariant, PTL

\* No compare-and-swap and no plain store of maglev_hashmap_insert changes a
\* pair that is taken.
THEOREM AffinityStays == Spec => AffinityKept
<1>1. IInv /\ [Next]_vars =>
          [\A s \in Slots : pairs[s].key # 0 => pairs'[s] = pairs[s]]_vars
  <2> SUFFICES ASSUME IInv, Next PROVE Grows BY DEF Grows
  <2>1. PICK t \in Lcores : ProcessFrame(t) \/ Work(t) BY DEF Next
  <2>2. Claim(t) => Grows BY ClaimStep
  <2>3. InsertStore(t) => Grows BY InsertStoreStep DEF Grows
  <2>4. ~Claim(t) /\ ~InsertStore(t) => pairs' = pairs
    BY <2>1 DEF Work, Get, Insert, ProcessFrame, GetFound, GetNull, GetNext, ReadCached,
                InsertLoad, LoseClaim, InsertMatch, InsertNext, InsertFail, Return
  <2> QED BY <2>2, <2>3, <2>4 DEF Grows
<1> QED BY <1>1, Invariant, PTL DEF Spec, AffinityKept

-----------------------------------------------------------------------------
(* Maglev implements FlowService                                            *)

\* Bound, for any table.
BoundIn(p, k) ==
    IF Cached(p, k) THEN p[CHOOSE s \in Slots : p[s].key = k].value ELSE 0

LEMMA BoundValue ==
    ASSUME NEW p, NEW k \in Keys,
           \A s \in Slots : p[s].key # 0 => p[s].value = Backend[p[s].key]
    PROVE  BoundIn(p, k) = IF Cached(p, k) THEN Backend[k] ELSE 0
<1>1. k # 0 BY MaglevAssumption
<1>2. CASE Cached(p, k)
  <2> DEFINE c == CHOOSE s \in Slots : p[s].key = k
  <2>1. c \in Slots /\ p[c].key = k BY <1>2 DEF Cached
  <2>2. p[c].value = Backend[k] BY <1>1, <2>1
  <2> QED BY <1>2, <2>2 DEF BoundIn
<1>3. CASE ~Cached(p, k) BY <1>3 DEF BoundIn
<1> QED BY <1>2, <1>3

\* The binding of a flow, before and after a step.
LEMMA BoundFacts ==
    ASSUME IInv, IInv', NEW k \in Keys
    PROVE  /\ Bindings[k] = IF Cached(pairs, k) THEN Backend[k] ELSE 0
           /\ Bindings'[k] = IF Cached(pairs', k) THEN Backend[k] ELSE 0
<1>1. Bindings[k] = BoundIn(pairs, k) BY DEF Bindings, Bound, BoundIn, Cached
<1>2. Bindings'[k] = BoundIn(pairs', k) BY DEF Bindings, Bound, BoundIn, Cached
<1>3. \A s \in Slots : pairs[s].key # 0 => pairs[s].value = Backend[pairs[s].key]
  BY DEF IInv, PairInv
<1>4. \A s \in Slots : pairs'[s].key # 0 => pairs'[s].value = Backend[pairs'[s].key]
  BY DEF IInv, PairInv
<1> QED BY <1>1, <1>2, <1>3, <1>4, BoundValue

\* When every slot is taken, as many flows are bound as there are slots.
LEMMA FullTable ==
    ASSUME IInv, \A s \in Slots : pairs[s].key # 0
    PROVE  Cardinality({k \in Keys : Bindings[k] # 0}) >= Capacity
<1> DEFINE T == {k \in Keys : Bindings[k] # 0}
           f == [s \in Slots |-> pairs[s].key]
<1>1. TypeOK /\ PairInv /\ ScanPathUnbroken BY DEF IInv
<1>2. Capacity \in Nat \ {0} BY MaglevAssumption
<1>3. \A k \in Keys : Bindings[k] = IF Cached(pairs, k) THEN Backend[k] ELSE 0
  <2> TAKE k \in Keys
  <2>1. Bindings[k] = BoundIn(pairs, k) BY DEF Bindings, Bound, BoundIn, Cached
  <2>2. \A s \in Slots : pairs[s].key # 0 => pairs[s].value = Backend[pairs[s].key]
    BY <1>1 DEF PairInv
  <2> QED BY <2>1, <2>2, BoundValue
<1>4. \A k \in Keys : k \in T <=> Cached(pairs, k)
  BY <1>3, MaglevAssumption
<1>5. \A s \in Slots : pairs[s].key \in Keys BY <1>1 DEF TypeOK
<1>6. f \in [Slots -> T] BY <1>4, <1>5 DEF Cached
<1>7. \A k \in T : \E s \in Slots : f[s] = k BY <1>4 DEF Cached
<1>8. ASSUME NEW r \in Slots, NEW s \in Slots, f[r] = f[s] PROVE r = s
  <2> DEFINE h == Home[pairs[s].key]
  <2>1. h \in Slots /\ pairs[r].key = pairs[s].key BY <1>5, <1>8, MaglevAssumption
  <2>2. ~(Dist(h, r) < Dist(h, s)) /\ ~(Dist(h, s) < Dist(h, r))
    BY <1>1, <2>1 DEF ScanPathUnbroken
  <2>3. Dist(h, r) \in Int /\ Dist(h, s) \in Int BY <2>1, DistFacts
  <2>4. Dist(h, r) = Dist(h, s) BY <2>2, <2>3
  <2> QED BY <2>1, <2>4, DistFacts
<1>9. f \in Surjection(Slots, T) /\ f \in Injection(Slots, T)
  <2> HIDE DEF T, f
  <2>1. \A r, s \in Slots : f[r] = f[s] => r = s BY <1>8
  <2>2. f \in Surjection(Slots, T) BY <1>6, <1>7, Zenon DEF Surjection
  <2>3. DOMAIN f = Slots BY <1>6
  <2>4. f \in Injection(Slots, T) BY <1>6, <2>1, <2>3, Zenon DEF Injection, IsInjective
  <2> QED BY <2>2, <2>4
<1>10. IsFiniteSet(Slots) /\ Cardinality(Slots) = Capacity
  <2>1. 0 \in Int /\ Capacity - 1 \in Int /\ ~(0 > Capacity - 1) BY <1>2
  <2>2. /\ IsFiniteSet(0 .. Capacity - 1)
        /\ Cardinality(0 .. Capacity - 1) = (Capacity - 1) - 0 + 1
    BY <2>1, FS_Interval
  <2> QED BY <1>2, <2>2 DEF Slots
<1>11. Cardinality(T) = Capacity BY <1>9, <1>10, FS_Surjection
<1> QED BY <1>2, <1>11

\* A step that changes neither the table nor what t waits for is a stutter.
LEMMA Stutters ==
    ASSUME TypeOK, TypeOK', NEW t \in Lcores, pairs' = pairs, hash' = hash,
           \A u \in Lcores \ {t} : Untouched(u),
           pc[t] # "done" \/ hash[t] = 0, pc'[t] # "done" \/ hash[t] = 0
    PROVE  Bindings' = Bindings /\ Waiting' = Waiting /\ Answered' = Answered
<1>1. Bindings' = Bindings BY DEF Bindings, Bound
<1>2. Waiting' = Waiting BY DEF Waiting
<1>3. ASSUME NEW u \in Lcores PROVE Answered'[u] = Answered[u]
  BY DEF Answered, Untouched
<1>4. Answered' = Answered BY <1>3 DEF Answered
<1> QED BY <1>1, <1>2, <1>4

\* The abstract actions, over the refinement mapping.
LEMMA ServiceStutter ==
    ASSUME Bindings' = Bindings, Waiting' = Waiting, Answered' = Answered
    PROVE  UNCHANGED Service!vars
BY DEF Service!vars

LEMMA ServiceRecord ==
    ASSUME NEW t \in Lcores, NEW v, Answered[t] = <<>>,
           Answered' = [Answered EXCEPT ![t] = <<v>>]
    PROVE  Service!Record(t, 1, v)
<1>1. [j \in DOMAIN Answered[t] \cup {1} |-> IF j = 1 THEN v ELSE Answered[t][j]] = <<v>>
  OBVIOUS
<1> QED BY <1>1 DEF Service!Record

\* The table answers the frame of t with v.
LEMMA Answers ==
    ASSUME TypeOK, TypeOK', NEW t \in Lcores, hash[t] # 0, hash' = hash,
           pc[t] # "done", pc'[t] = "done",
           \A u \in Lcores \ {t} : Untouched(u)
    PROVE  /\ Waiting' = Waiting
           /\ Waiting[t] = <<hash[t]>> /\ Answered[t] = <<>>
           /\ Answered' = [Answered EXCEPT ![t] = <<backend'[t]>>]
           /\ 1 \in Service!Unanswered(t)
<1>1. Waiting' = Waiting /\ Waiting[t] = <<hash[t]>> /\ Answered[t] = <<>>
  BY DEF Waiting, Answered
<1>2. ASSUME NEW u \in Lcores
      PROVE  Answered'[u] = [Answered EXCEPT ![t] = <<backend'[t]>>][u]
  BY DEF Answered, Untouched
<1>3. Answered' = [Answered EXCEPT ![t] = <<backend'[t]>>] BY <1>2 DEF Answered
<1>4. 1 \in DOMAIN Waiting[t] \ DOMAIN Answered[t] BY <1>1
<1>5. Service!Unanswered(t) = DOMAIN Waiting[t] \ DOMAIN Answered[t]
  BY DEF Service!Unanswered
<1> QED BY <1>1, <1>3, <1>4, <1>5

LEMMA ProcessFrameRefines ==
    ASSUME IInv, IInv', NEW t \in Lcores, ProcessFrame(t)
    PROVE  [Service!Next]_(Service!vars)
<1>1. TypeOK /\ TypeOK' /\ LcoreInv(t) BY DEF IInv
<1>2. PICK h \in Keys \cup {0} :
         /\ hash' = [hash EXCEPT ![t] = h]
         /\ pc' = [pc EXCEPT ![t] = IF h > 0 THEN "get" ELSE "done"]
  BY DEF ProcessFrame, Goto
<1>3. /\ pairs' = pairs /\ backend' = backend /\ pc[t] = "idle" /\ hash[t] = 0
      /\ \A u \in Lcores \ {t} : hash'[u] = hash[u] /\ pc'[u] = pc[u]
      /\ hash'[t] = h
  BY <1>1, <1>2 DEF ProcessFrame, LcoreInv, TypeOK
<1>4. Bindings' = Bindings BY <1>3 DEF Bindings, Bound
<1>5. h # 0 => pc'[t] = "get"
  BY <1>1, <1>2, MaglevAssumption DEF TypeOK
<1>6. ASSUME NEW u \in Lcores PROVE Answered'[u] = Answered[u]
  BY <1>3, <1>5 DEF Answered
<1>7. Answered' = Answered BY <1>6 DEF Answered
<1>8. CASE h = 0
  <2>1. hash' = hash BY <1>1, <1>2, <1>3, <1>8 DEF TypeOK
  <2>2. Waiting' = Waiting BY <2>1 DEF Waiting
  <2> QED BY <1>4, <1>7, <2>2, ServiceStutter
<1>9. CASE h # 0
  <2>1. ASSUME NEW u \in Lcores PROVE Waiting'[u] = [Waiting EXCEPT ![t] = <<h>>][u]
    BY <1>3, <1>9 DEF Waiting
  <2>2. Waiting' = [Waiting EXCEPT ![t] = <<h>>] BY <2>1 DEF Waiting
  <2>3. Waiting[t] = <<>> BY <1>3 DEF Waiting
  <2>4. <<h>> \in {<<k>> : k \in Keys} BY <1>9
  <2>5. Service!Submit(t)
    BY <1>4, <1>7, <2>2, <2>3, <2>4 DEF Service!Submit
  <2> QED BY <2>5 DEF Service!Next
<1> QED BY <1>8, <1>9

LEMMA ClaimRefines ==
    ASSUME IInv, IInv', NEW t \in Lcores, Claim(t)
    PROVE  Service!Next
<1> DEFINE k == hash[t]
<1>1. /\ TypeOK /\ TypeOK' /\ k # 0 /\ k \in Keys /\ Probe(t) \in Slots
      /\ hash' = hash /\ Backend[k] \in Nat \ {0}
      /\ \A u \in Lcores \ {t} : Untouched(u)
  BY InsertFacts DEF Insert, IInv
<1>2. Grows /\ ~Cached(pairs, k) BY ClaimStep
<1>3. /\ pairs' = [pairs EXCEPT ![Probe(t)] = [key |-> k, value |-> Backend[k]]]
      /\ Pair(t) = EmptyPair /\ pc[t] # "done"
      /\ pc'[t] = "done" /\ backend'[t] = Backend[k]
  BY <1>1 DEF Claim, Inserted, Goto, TypeOK
<1>4. pairs'[Probe(t)].key = k /\ \A r \in Slots \ {Probe(t)} : pairs'[r] = pairs[r]
  BY <1>1, <1>3 DEF TypeOK
<1>5. Cached(pairs', k) BY <1>1, <1>4 DEF Cached
<1>6. ASSUME NEW x \in Keys \ {k} PROVE Cached(pairs', x) <=> Cached(pairs, x)
  <2>1. x # 0 BY MaglevAssumption
  <2>2. pairs[Probe(t)].key = 0 BY <1>3 DEF Pair, EmptyPair
  <2> QED BY <1>4, <2>1, <2>2 DEF Cached
<1>7. Bindings[k] = 0 /\ Bindings'[k] = Backend[k] BY <1>1, <1>2, <1>5, BoundFacts
<1>8. ASSUME NEW x \in Keys PROVE Bindings'[x] = [Bindings EXCEPT ![k] = Backend[k]][x]
  <2>1. CASE x = k BY <1>7, <2>1 DEF Bindings
  <2>2. CASE x # k BY <1>6, <2>2, BoundFacts DEF Bindings
  <2> QED BY <2>1, <2>2
<1>9. Bindings' = [Bindings EXCEPT ![k] = Backend[k]] BY <1>8 DEF Bindings
<1>10. /\ Waiting' = Waiting /\ Waiting[t] = <<k>> /\ Answered[t] = <<>>
       /\ Answered' = [Answered EXCEPT ![t] = <<Backend[k]>>]
       /\ 1 \in Service!Unanswered(t)
  BY <1>1, <1>3, Answers
<1>11. Waiting[t][1] = k BY <1>10
<1>12. Service!Record(t, 1, Backend[k]) BY <1>10, ServiceRecord
<1>13. Service!Bind(t, 1)
  <2> HIDE DEF k
  <2> QED BY <1>7, <1>9, <1>10, <1>11, <1>12 DEF Service!Bind
<1> QED BY <1>10, <1>13 DEF Service!Next

\* A flow that is cached is answered with its binding.
LEMMA FoundRefines ==
    ASSUME IInv, IInv', NEW t \in Lcores, ReadCached(t) \/ InsertStore(t)
    PROVE  Service!Next
<1> DEFINE k == hash[t]
<1>1. TypeOK /\ TypeOK' /\ LcoreInv(t) BY DEF IInv
<1>2. /\ pc[t] \in {"cached", "ins_store"} /\ pc'[t] = "done" /\ hash' = hash
      /\ k # 0 /\ Pair(t).key = k
      /\ \A u \in Lcores \ {t} : Untouched(u)
  BY <1>1 DEF ReadCached, InsertStore, Inserted, Goto, LcoreInv, Scanning, TypeOK, Untouched
<1>3. pairs' = pairs BY InsertStoreStep DEF ReadCached
<1>4. k \in Keys /\ Probe(t) \in Slots /\ Backend[k] \in Nat \ {0}
  BY <1>1, <1>2, ScanFacts
<1>5. Cached(pairs, k) BY <1>2, <1>4 DEF Cached, Pair
<1>6. Bindings[k] = Backend[k] BY <1>4, <1>5, BoundFacts
<1>7. backend'[t] = Backend[k]
  <2>1. Pair(t).value = Backend[k] BY <1>2, <1>4 DEF IInv, PairInv, Pair
  <2> QED BY <1>1, <2>1 DEF ReadCached, InsertStore, Inserted, TypeOK
<1>8. /\ Waiting' = Waiting /\ Waiting[t] = <<k>> /\ Answered[t] = <<>>
      /\ Answered' = [Answered EXCEPT ![t] = <<Backend[k]>>]
      /\ 1 \in Service!Unanswered(t)
  BY <1>1, <1>2, <1>7, Answers
<1>9. Waiting[t][1] = k /\ Bindings' = Bindings BY <1>3, <1>8 DEF Bindings, Bound
<1>10. Service!Record(t, 1, Backend[k]) BY <1>8, ServiceRecord
<1>11. Service!Lookup(t, 1)
  <2> HIDE DEF k
  <2> QED BY <1>4, <1>6, <1>8, <1>9, <1>10 DEF Service!Lookup
<1> QED BY <1>8, <1>11 DEF Service!Next

\* "hashtable insertion failed, need more memory": every slot is taken.
LEMMA FailRefines ==
    ASSUME IInv, IInv', NEW t \in Lcores, InsertFail(t)
    PROVE  Service!Next
<1>1. TypeOK /\ TypeOK' /\ LcoreInv(t)' BY DEF IInv
<1>2. /\ hash[t] # 0 /\ hash' = hash /\ hash[t] \in Keys /\ Home[hash[t]] \in Slots
      /\ \A u \in Lcores \ {t} : Untouched(u)
  BY InsertFacts DEF Insert
<1>3. pc[t] # "done" /\ pc'[t] = "done" /\ backend'[t] = 0 /\ pairs' = pairs
  BY <1>1 DEF InsertFail, Goto, TypeOK
<1>4. Passed(pairs, hash[t], Capacity) BY <1>1, <1>2, <1>3 DEF LcoreInv
<1>5. ASSUME NEW s \in Slots PROVE pairs[s].key # 0
  <2>1. Dist(Home[hash[t]], s) \in 0 .. Capacity - 1 BY <1>2, DistFacts
  <2>2. Dist(Home[hash[t]], s) < Capacity BY <2>1, MaglevAssumption
  <2> QED BY <1>4, <2>2 DEF Passed
<1>6. Cardinality({k \in Keys : Bindings[k] # 0}) >= Capacity BY <1>5, FullTable
<1>7. Service!Cardinality(Service!BoundFlows) >= Capacity
  <2>1. Service!BoundFlows = {k \in Keys : Bindings[k] # 0} BY DEF Service!BoundFlows
  <2>2. \A S : Service!Cardinality(S) = Cardinality(S)
    BY Zenon DEF Service!Cardinality, Cardinality
  <2> QED BY <1>6, <2>1, <2>2
<1>8. /\ Waiting' = Waiting /\ Answered[t] = <<>>
      /\ Answered' = [Answered EXCEPT ![t] = <<0>>]
      /\ 1 \in Service!Unanswered(t)
  BY <1>1, <1>2, <1>3, Answers
<1>9. Bindings' = Bindings BY <1>3 DEF Bindings, Bound
<1>10. Service!Record(t, 1, 0) BY <1>8, ServiceRecord
<1>11. Service!Refuse(t, 1)
  BY <1>7, <1>8, <1>9, <1>10 DEF Service!Refuse
<1> QED BY <1>8, <1>11 DEF Service!Next

LEMMA ReturnRefines ==
    ASSUME IInv, IInv', NEW t \in Lcores, Return(t)
    PROVE  [Service!Next]_(Service!vars)
<1>1. TypeOK /\ TypeOK' BY DEF IInv
<1>2. /\ pairs' = pairs /\ pc[t] = "done" /\ pc'[t] = "idle" /\ hash'[t] = 0
      /\ \A u \in Lcores \ {t} : Untouched(u)
  BY <1>1 DEF Return, Goto, TypeOK, Untouched
<1>3. Bindings' = Bindings BY <1>2 DEF Bindings, Bound
<1>4. ASSUME NEW u \in Lcores
      PROVE  /\ Waiting'[u] = [Waiting EXCEPT ![t] = <<>>][u]
             /\ Answered'[u] = [Answered EXCEPT ![t] = <<>>][u]
  BY <1>2 DEF Waiting, Answered, Untouched
<1>5. Waiting' = [Waiting EXCEPT ![t] = <<>>] BY <1>4 DEF Waiting
<1>6. Answered' = [Answered EXCEPT ![t] = <<>>] BY <1>4 DEF Answered
<1>7. CASE hash[t] = 0
  <2>1. Waiting[t] = <<>> /\ Answered[t] = <<>> BY <1>7 DEF Waiting, Answered
  <2>2. Waiting' = Waiting /\ Answered' = Answered
    BY <1>5, <1>6, <2>1 DEF Waiting, Answered
  <2> QED BY <1>3, <2>2, ServiceStutter
<1>8. CASE hash[t] # 0
  <2>1. Waiting[t] = <<hash[t]>> /\ Answered[t] = <<backend[t]>>
    BY <1>2, <1>8 DEF Waiting, Answered
  <2>2. Waiting[t] # <<>> /\ DOMAIN Waiting[t] \ DOMAIN Answered[t] = {} BY <2>1
  <2>3. Service!Unanswered(t) = {}
    BY <2>2 DEF Service!Unanswered
  <2>4. Service!Return(t)
    BY <1>3, <1>5, <1>6, <2>2, <2>3 DEF Service!Return
  <2> QED BY <2>4 DEF Service!Next
<1> QED BY <1>7, <1>8

\* The steps of the scans that answer nothing.
LEMMA SilentRefines ==
    ASSUME IInv, IInv', NEW t \in Lcores,
           \/ GetFound(t) \/ GetNull(t) \/ GetNext(t)
           \/ InsertLoad(t) \/ LoseClaim(t) \/ InsertMatch(t) \/ InsertNext(t)
    PROVE  UNCHANGED Service!vars
<1>1. TypeOK /\ TypeOK' BY DEF IInv
<1>2. /\ pairs' = pairs /\ hash' = hash /\ pc[t] # "done" /\ pc'[t] # "done"
      /\ \A u \in Lcores \ {t} : Untouched(u)
  BY <1>1 DEF GetFound, GetNull, GetNext, InsertLoad, LoseClaim, InsertMatch, InsertNext,
              Goto, TypeOK, Untouched
<1>3. Bindings' = Bindings /\ Waiting' = Waiting /\ Answered' = Answered
  BY <1>1, <1>2, Stutters
<1> QED BY <1>3, ServiceStutter

\* maglev.c implements the flow service: connection affinity over racing
\* lcores, and a refusal only when as many flows are bound as there are slots.
THEOREM MaglevIsFlowService == Spec => ImplementsFlowService
<1>1. Init => Service!Init
  <2> SUFFICES ASSUME Init PROVE Service!Init OBVIOUS
  <2>1. \A k \in Keys : Bound(k) = 0
    BY MaglevAssumption DEF Init, Bound, EmptyPair
  <2> QED BY <2>1 DEF Init, Service!Init, Bindings, Waiting, Answered
<1>2. IInv /\ IInv' /\ [Next]_vars => [Service!Next]_(Service!vars)
  <2> SUFFICES ASSUME IInv, IInv', [Next]_vars PROVE [Service!Next]_(Service!vars)
    OBVIOUS
  <2>1. ASSUME NEW t \in Lcores, ProcessFrame(t) \/ Work(t)
        PROVE  [Service!Next]_(Service!vars)
    BY <2>1, ProcessFrameRefines, ClaimRefines, FoundRefines, FailRefines,
       ReturnRefines, SilentRefines DEF Work, Get, Insert
  <2>2. CASE UNCHANGED vars
    BY <2>2 DEF vars, Service!vars, Bindings, Waiting, Answered, Bound
  <2> QED BY <2>1, <2>2 DEF Next
<1> QED BY <1>1, <1>2, Invariant, PTL DEF Spec, ImplementsFlowService, Service!Spec

=============================================================================
