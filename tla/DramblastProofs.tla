-------------------------- MODULE DramblastProofs --------------------------
(***************************************************************************)
(* Proofs about Dramblast for every number of lcores, flows, buckets and   *)
(* lanes, every hash function and every batch.                             *)
(*                                                                         *)
(* None of the safety properties is inductive alone.  What makes them so   *)
(* is that each search in progress (a queued lookup, the lookup being      *)
(* probed, an insertion) knows how far it has come and that every slot it  *)
(* has passed belongs, for good, to another flow.                          *)
(***************************************************************************)
EXTENDS Dramblast, FiniteSetTheorems, SequenceTheorems, TLAPS

-----------------------------------------------------------------------------
(* The inductive invariant                                                  *)

\* A slot is empty or holds a flow with its backend.
SlotInv ==
    \A s \in Slots :
        IF table[s].k = 0 THEN table[s] = EmptyKV
                          ELSE table[s].v = Backend[table[s].k]

\* What is known of an unresolved lookup of lcore t.
LookupOK(t, it) ==
    /\ it.id \in 1 .. args_head[t]
    /\ it.k = args[t][it.id]
    /\ it.visit_count = Dist(Home[it.k], it.idx)
    /\ Passed(table, it.k, it.visit_count)

QueueInv(t) == \A i \in 1 .. Len(queue[t]) : LookupOK(t, queue[t][i])

\* The lanes read so far: a key that was seen is still there, and a hole that
\* was seen dates back to the time before k was stored, or k is yet to be seen.
CachelineInv(t) ==
    /\ \A l \in DOMAIN cacheline[t] :
          cacheline[t][l] # 0 => table[item[t].idx + l].k = cacheline[t][l]
    /\ \A l \in DOMAIN cacheline[t] :
          cacheline[t][l] = 0 =>
              \/ missed[t]
              \/ \E m \in LaneIdx :
                    /\ table[item[t].idx + m].k = item[t].k
                    /\ m \in DOMAIN cacheline[t] => cacheline[t][m] = item[t].k

ProbeInv(t) ==
    IF pc[t] = "load"
      THEN /\ item[t] \in QueueItems
           /\ LookupOK(t, item[t])
           /\ CachelineInv(t)
           /\ missed[t] \/ Stored(table, item[t].k)
      ELSE item[t] = NoItem /\ cacheline[t] = <<>>

\* What a result says is true of the table.
ResultOK(t, r) ==
    /\ r.id \in 1 .. args_head[t]
    /\ r.status = "FOUND" =>
          Stored(table, args[t][r.id]) /\ r.v = Backend[args[t][r.id]]
    /\ r.status = "TABLE_FULL" => Passed(table, args[t][r.id], Capacity - Lanes)

ResultInv(t) == \A i \in 1 .. Len(results[t]) : ResultOK(t, results[t][i])

\* What an answer says is true of the table.
AnswerOK(t, id) ==
    /\ ret[t][id] = 0 => Passed(table, args[t][id], Capacity - Lanes)
    /\ ret[t][id] # 0 =>
          Stored(table, args[t][id]) /\ ret[t][id] = Backend[args[t][id]]

AnswerInv(t) == \A i \in 1 .. applied[t] : AnswerOK(t, results[t][i].id)

\* Every lookup that was pushed is queued, being probed or resolved.
TrackInv(t) ==
    \A id \in 1 .. args_head[t] :
        \/ \E i \in 1 .. Len(queue[t]) : queue[t][i].id = id
        \/ pc[t] = "load" /\ item[t].id = id
        \/ \E i \in 1 .. Len(results[t]) : results[t][i].id = id

Inserting == {"ins_load", "ins_cas", "ins_check", "ins_store"}

\* How the counters of a call relate.
PhaseInv(t) ==
    /\ args_head[t] <= Len(args[t])
    /\ Len(queue[t]) < QueueSize
    /\ pc[t] = "load" => Len(queue[t]) + 1 < QueueSize
    /\ Len(results[t]) + Len(queue[t]) + (IF pc[t] = "load" THEN 1 ELSE 0)
         = args_head[t]
    /\ pc[t] = "idle" => args[t] = <<>>
    /\ pc[t] # "idle" => args[t] \in Batches
    /\ pc[t] \in {"find", "load"} =>
          applied[t] = 0 /\ Len(results[t]) < Len(args[t])
    /\ pc[t] \in {"apply"} \cup Inserting =>
          Len(results[t]) = Len(args[t]) /\ applied[t] < Len(results[t])
    /\ pc[t] = "done" =>
          Len(results[t]) = Len(args[t]) /\ applied[t] = Len(results[t])
    /\ pc[t] = "idle" => applied[t] = 0

\* How far the insertion of lcore t has come.
CursorInv(t) ==
    /\ pc[t] = "ins_load" =>
          /\ cursor[t].count = Dist(Home[CurrentKey(t)], cursor[t].idx)
          /\ Passed(table, CurrentKey(t), cursor[t].count)
    /\ pc[t] \in {"ins_cas", "ins_check", "ins_store"} =>
          /\ cursor[t].count = Dist(Home[CurrentKey(t)], cursor[t].idx) + 1
          /\ Passed(table, CurrentKey(t), cursor[t].count - 1)
    /\ pc[t] = "ins_check" => table[cursor[t].idx].k # 0
    /\ pc[t] = "ins_store" => table[cursor[t].idx].k = CurrentKey(t)
    /\ pc[t] \in Inserting => Result(t).status = "ABSENT"

LcoreInv(t) ==
    /\ PhaseInv(t)
    /\ QueueInv(t)
    /\ ProbeInv(t)
    /\ ResultInv(t)
    /\ AnswerInv(t)
    /\ TrackInv(t)
    /\ CursorInv(t)

IInv ==
    /\ TypeOK
    /\ SlotInv
    /\ ProbePathUnbroken
    /\ \A t \in Lcores : LcoreInv(t)

-----------------------------------------------------------------------------
(* Index arithmetic                                                         *)

\* A bucket starts at a slot, and all its lanes are slots (the 64-byte load of
\* dramblast_find_batch_sync stays inside the table).
LEMMA BucketFits ==
    /\ Capacity \in Nat \ {0}
    /\ Lanes \in Nat \ {0}
    /\ Lanes <= Capacity
    /\ \A b \in BucketStarts : b \in Slots /\ b + Lanes <= Capacity
<1>1. Capacity \in Nat \ {0} /\ Lanes \in Nat \ {0} /\ Lanes <= Capacity
  <2>1. ASSUME NEW x \in Nat \ {0}, NEW y \in Nat \ {0}
        PROVE  x * y \in Nat \ {0} /\ x <= x * y
    OBVIOUS
  <2>2. QED  BY <2>1, TableAssumption DEF Capacity
<1>2. ASSUME NEW b \in BucketStarts
      PROVE  b \in Nat /\ b + Lanes <= Capacity
  <2>1. PICK i \in 0 .. Buckets - 1 : b = Lanes * i
    BY DEF BucketStarts
  <2>2. ASSUME NEW x \in Nat, NEW y \in Nat, NEW z \in 0 .. y - 1
        PROVE  x * z \in Nat /\ x * z + x <= x * y
    <3>1. x * z + x = x * (z + 1)
      OBVIOUS
    <3>2. \A d \in Nat : x * (z + 1 + d) = x * (z + 1) + x * d /\ x * d \in Nat
      OBVIOUS
    <3>3. y - (z + 1) \in Nat /\ z + 1 + (y - (z + 1)) = y
      OBVIOUS
    <3>4. x * z \in Nat /\ x * (z + 1) \in Nat
      OBVIOUS
    <3>5. x * y = x * (z + 1) + x * (y - (z + 1)) /\ x * (y - (z + 1)) \in Nat
      BY <3>2, <3>3
    <3>6. QED  BY <3>1, <3>4, <3>5
  <2>3. QED  BY <2>1, <2>2, TableAssumption DEF Capacity
<1>3. QED  BY <1>1, <1>2 DEF Slots

LEMMA LaneSlot == \A b \in BucketStarts, l \in LaneIdx : b + l \in Slots
BY BucketFits DEF Slots, LaneIdx

\* "& (len - 1) & ~0x3" leads from bucket to bucket.
LEMMA NextBucketType == \A b \in BucketStarts : NextBucket(b) \in BucketStarts
<1>1. SUFFICES ASSUME NEW b \in BucketStarts
               PROVE  NextBucket(b) \in BucketStarts
  OBVIOUS
<1>2. PICK i \in 0 .. Buckets - 1 : b = Lanes * i
  BY DEF BucketStarts
<1>3. b + Lanes = Lanes * (i + 1) /\ i + 1 \in Nat
  BY <1>2, TableAssumption
<1>4. CASE i + 1 \in 0 .. Buckets - 1
  <2>1. b + Lanes \in BucketStarts
    BY <1>3, <1>4 DEF BucketStarts
  <2>2. b + Lanes < Capacity
    BY <2>1, BucketFits DEF Slots
  <2>3. QED  BY <2>1, <2>2, BucketFits DEF NextBucket, Wrap, Slots
<1>5. CASE i + 1 = Buckets
  <2>1. b + Lanes = Capacity
    BY <1>3, <1>5 DEF Capacity
  <2>2. NextBucket(b) = 0
    BY <2>1, BucketFits DEF NextBucket, Wrap
  <2>3. 0 \in BucketStarts
    <3>1. Lanes * 0 = 0 /\ 0 \in 0 .. Buckets - 1
      BY TableAssumption
    <3>2. QED  BY <3>1 DEF BucketStarts
  <2>4. QED  BY <2>2, <2>3
<1>6. QED  BY <1>4, <1>5, TableAssumption

\* Distances are less than the capacity, and no two slots share one.
LEMMA DistFacts ==
    ASSUME NEW h \in Slots, NEW s \in Slots
    PROVE  /\ Dist(h, s) \in 0 .. Capacity - 1
           /\ Dist(h, h) = 0
           /\ \A r \in Slots : Dist(h, r) = Dist(h, s) => r = s
BY BucketFits DEF Dist, Slots

\* The next slot is one step further, unless the probe is back at its start.
LEMMA NextSlotFacts ==
    ASSUME NEW h \in Slots, NEW s \in Slots
    PROVE  /\ NextSlot(s) \in Slots
           /\ Dist(h, s) + 1 < Capacity => Dist(h, NextSlot(s)) = Dist(h, s) + 1
BY BucketFits DEF Dist, Slots, NextSlot, Wrap

\* The next bucket is Lanes steps further, and what lies between is the bucket.
LEMMA NextBucketFacts ==
    ASSUME NEW h \in Slots, NEW b \in BucketStarts
    PROVE  /\ Dist(h, b) + Lanes < Capacity =>
                  Dist(h, NextBucket(b)) = Dist(h, b) + Lanes
           /\ \A s \in Slots :
                  Dist(h, s) < Dist(h, b) + Lanes /\ ~(Dist(h, s) < Dist(h, b))
                      => \E l \in LaneIdx : s = b + l
<1>1. /\ Capacity \in Nat \ {0} /\ Lanes \in Nat \ {0} /\ b \in 0 .. Capacity - 1
      /\ b + Lanes <= Capacity /\ h \in 0 .. Capacity - 1
  BY BucketFits DEF Slots
<1>2. Dist(h, b) + Lanes < Capacity => Dist(h, NextBucket(b)) = Dist(h, b) + Lanes
  BY <1>1 DEF Dist, NextBucket, Wrap
<1>3. ASSUME NEW s \in Slots, Dist(h, s) < Dist(h, b) + Lanes,
             ~(Dist(h, s) < Dist(h, b))
      PROVE  \E l \in LaneIdx : s = b + l
  <2>1. s - b \in LaneIdx /\ s = b + (s - b)
    BY <1>1, <1>3 DEF Dist, Slots, LaneIdx
  <2>2. QED  BY <2>1
<1>4. QED  BY <1>2, <1>3

-----------------------------------------------------------------------------
(* What an lcore knows survives the steps of the others                     *)

\* Occupied slots do not change in this step.
Grows == \A s \in Slots : table[s].k # 0 => table'[s] = table[s]

\* The step leaves the private state of lcore u alone.
Untouched(u) ==
    /\ pc'[u] = pc[u]
    /\ args'[u] = args[u]
    /\ args_head'[u] = args_head[u]
    /\ queue'[u] = queue[u]
    /\ item'[u] = item[u]
    /\ cacheline'[u] = cacheline[u]
    /\ results'[u] = results[u]
    /\ applied'[u] = applied[u]
    /\ cursor'[u] = cursor[u]
    /\ ret'[u] = ret[u]
    /\ missed'[u] = missed[u]

LEMMA PassedGrows ==
    ASSUME Grows, NEW k, NEW d, Passed(table, k, d)
    PROVE  Passed(table', k, d)
BY DEF Grows, Passed

LEMMA StoredGrows ==
    ASSUME Grows, NEW k \in Keys, Stored(table, k)
    PROVE  Stored(table', k)
BY FlowAssumption DEF Grows, Stored

\* The keys of a batch are flows.
LEMMA BatchKeys ==
    ASSUME TypeOK, NEW t \in Lcores, PhaseInv(t), NEW id \in 1 .. args_head[t]
    PROVE  args[t][id] \in Keys /\ id \in DOMAIN args[t] /\ id \in 1 .. Len(args[t])
<1>1. pc[t] # "idle"
  BY DEF TypeOK, PhaseInv
<1>2. args[t] \in Seq(Keys)
  BY <1>1, BatchAssumption DEF PhaseInv
<1>3. args_head[t] \in Nat /\ args_head[t] <= Len(args[t])
  BY DEF TypeOK, PhaseInv
<1>4. QED  BY <1>2, <1>3

\* While results are applied, the current one belongs to a lookup of the batch.
LEMMA CurrentFacts ==
    ASSUME TypeOK, NEW t \in Lcores, PhaseInv(t), ResultInv(t),
           pc[t] \in {"apply"} \cup Inserting
    PROVE  /\ applied[t] + 1 \in 1 .. Len(results[t])
           /\ ResultOK(t, Result(t))
           /\ Result(t) \in Results
           /\ Result(t).id \in 1 .. args_head[t]
           /\ CurrentKey(t) \in Keys
<1>1. applied[t] + 1 \in 1 .. Len(results[t]) /\ results[t] \in Seq(Results)
  BY DEF TypeOK, PhaseInv
<1>2. ResultOK(t, Result(t)) /\ Result(t) \in Results
  BY <1>1 DEF ResultInv, Result
<1>3. Result(t).id \in 1 .. args_head[t]
  BY <1>2 DEF ResultOK
<1>4. CurrentKey(t) \in Keys
  BY <1>3, BatchKeys DEF CurrentKey
<1>5. QED  BY <1>1, <1>2, <1>3, <1>4

LEMMA AppliedBound ==
    ASSUME TypeOK, NEW t \in Lcores, PhaseInv(t)
    PROVE  applied[t] \in 0 .. Len(results[t]) /\ Len(results[t]) \in Nat
<1>1. Len(results[t]) \in Nat /\ applied[t] \in Nat
  BY DEF TypeOK
<1>2. applied[t] <= Len(results[t])
  BY <1>1 DEF TypeOK, PhaseInv, Inserting
<1>3. QED  BY <1>1, <1>2

LEMMA Frame ==
    ASSUME TypeOK, Grows, NEW u \in Lcores, LcoreInv(u), Untouched(u)
    PROVE  LcoreInv(u)'
<1> USE DEF Untouched, LcoreInv
<1>1. PhaseInv(u)'
  BY DEF PhaseInv
<1>2. QueueInv(u)'
  BY PassedGrows DEF QueueInv, LookupOK
<1>3. ProbeInv(u)'
  <2>1. CASE pc[u] # "load"
    BY <2>1 DEF ProbeInv
  <2>2. CASE pc[u] = "load"
    <3>1. item[u] \in QueueItems /\ LookupOK(u, item[u]) /\ CachelineInv(u)
      BY <2>2 DEF ProbeInv
    <3>2. LookupOK(u, item[u])'
      BY <3>1, PassedGrows DEF LookupOK
    <3>3. \A l \in LaneIdx : item[u].idx + l \in Slots
      BY <3>1, BucketFits DEF QueueItems, Slots, LaneIdx
    <3>4. item[u].k # 0 /\ DOMAIN cacheline[u] \subseteq LaneIdx
      BY <3>1, FlowAssumption DEF QueueItems, TypeOK
    <3>5. CachelineInv(u)'
      BY <3>1, <3>3, <3>4 DEF CachelineInv, Grows
    <3>6. missed[u] \/ Stored(table', item[u].k)
      BY <2>2, StoredGrows DEF ProbeInv, QueueItems
    <3>7. QED  BY <2>2, <3>1, <3>2, <3>5, <3>6 DEF ProbeInv
  <2>3. QED  BY <2>1, <2>2
<1>4. ResultInv(u)'
  BY PassedGrows, StoredGrows, BatchKeys DEF ResultInv, ResultOK
<1>5. AnswerInv(u)'
  <2>1. \A i \in 1 .. applied[u] : results[u][i].id \in 1 .. args_head[u]
    BY AppliedBound DEF ResultInv, ResultOK
  <2>2. QED  BY <2>1, PassedGrows, StoredGrows, BatchKeys DEF AnswerInv, AnswerOK
<1>6. TrackInv(u)'
  BY DEF TrackInv
<1>7. CursorInv(u)'
  <2>1. CurrentKey(u)' = CurrentKey(u) /\ Result(u)' = Result(u)
    BY DEF CurrentKey, Result
  <2>2. CASE pc[u] \in Inserting
    <3>1. CurrentKey(u) \in Keys
      BY <2>2, CurrentFacts
    <3>2. cursor[u].idx \in Slots /\ CurrentKey(u) # 0
      BY <3>1, FlowAssumption DEF TypeOK
    <3>3. QED  BY <2>1, <3>2, PassedGrows DEF CursorInv, Grows
  <2>3. QED  BY <2>2 DEF CursorInv, Inserting
<1>8. QED  BY <1>1, <1>2, <1>3, <1>4, <1>5, <1>6, <1>7

-----------------------------------------------------------------------------
(* Every action preserves the invariant                                     *)

LEMMA InitInvariant == Init => IInv
<1> SUFFICES ASSUME Init PROVE IInv
  OBVIOUS
<1> USE DEF Init
<1>1. TypeOK
  <2>1. 0 \in Slots /\ 0 \in 0 .. Capacity /\ 0 \in 0 .. MaxBurst
    BY BucketFits, BatchAssumption DEF Slots
  <2>2. table \in [Slots -> [k : Keys \cup {0}, v : Nat]]
    BY DEF EmptyKV
  <2>3. cacheline \in [Lcores -> UNION {[S -> Keys \cup {0}] : S \in SUBSET LaneIdx}]
    <3>1. <<>> \in [{} -> Keys \cup {0}]
      OBVIOUS
    <3>2. QED  BY <3>1
  <2>4. ret \in [Lcores -> [1 .. MaxBurst -> Nat]]
    BY BatchAssumption
  <2>5. cursor \in [Lcores -> [idx : Slots, count : 0 .. Capacity]]
    BY <2>1 DEF NoCursor
  <2>6. /\ queue \in [Lcores -> Seq(QueueItems)]
        /\ results \in [Lcores -> Seq(Results)]
        /\ args \in [Lcores -> Batches \cup {<<>>}]
        /\ item \in [Lcores -> QueueItems \cup {NoItem}]
    OBVIOUS
  <2>7. QED  BY <2>1, <2>2, <2>3, <2>4, <2>5, <2>6 DEF TypeOK
<1>2. SlotInv /\ ProbePathUnbroken
  BY DEF SlotInv, ProbePathUnbroken, EmptyKV
<1>3. ASSUME NEW t \in Lcores
      PROVE  LcoreInv(t)
  <2>1. PhaseInv(t)
    BY BatchAssumption DEF PhaseInv, Inserting
  <2>2. QueueInv(t) /\ ResultInv(t) /\ AnswerInv(t) /\ TrackInv(t)
    BY DEF QueueInv, ResultInv, AnswerInv, TrackInv
  <2>3. ProbeInv(t) /\ CursorInv(t)
    BY DEF ProbeInv, CursorInv, Inserting
  <2>4. QED  BY <2>1, <2>2, <2>3 DEF LcoreInv
<1>4. QED  BY <1>1, <1>2, <1>3 DEF IInv

\* A step of t that leaves the table alone only has to care for t.
LEMMA LocalStep ==
    ASSUME IInv, NEW t \in Lcores, table' = table, TypeOK', LcoreInv(t)',
           \A u \in Lcores \ {t} : Untouched(u)
    PROVE  IInv'
<1>1. Grows
  BY DEF Grows
<1>2. \A u \in Lcores : LcoreInv(u)'
  BY <1>1, Frame DEF IInv
<1>3. SlotInv' /\ ProbePathUnbroken'
  BY DEF IInv, SlotInv, ProbePathUnbroken
<1>4. QED  BY <1>2, <1>3 DEF IInv

LEMMA CallStep ==
    ASSUME IInv, NEW t \in Lcores, Call(t)
    PROVE  IInv'
<1> USE DEF Call, shared, find, apply
<1>1. TypeOK /\ LcoreInv(t)
  BY DEF IInv
<1>2. PICK b \in Batches : args' = [args EXCEPT ![t] = b]
  OBVIOUS
<1>3. TypeOK'
  BY <1>1, <1>2 DEF TypeOK
<1>4. \A u \in Lcores \ {t} : Untouched(u)
  BY <1>1, <1>2 DEF TypeOK, Untouched
<1>5. args_head[t] = 0 /\ Len(results[t]) = 0 /\ Len(queue[t]) = 0
  <2>1. args_head[t] \in Nat /\ Len(results[t]) \in Nat /\ Len(queue[t]) \in Nat
    BY <1>1 DEF TypeOK
  <2>2. Len(args[t]) = 0
    BY <1>1 DEF LcoreInv, PhaseInv
  <2>3. args_head[t] = 0
    BY <1>1, <2>1, <2>2 DEF LcoreInv, PhaseInv
  <2>4. Len(results[t]) + Len(queue[t]) + 0 = 0
    BY <1>1, <2>3 DEF LcoreInv, PhaseInv
  <2>5. \A x, y \in Nat : x + y + 0 = 0 => x = 0 /\ y = 0
    OBVIOUS
  <2>6. QED  BY <2>1, <2>3, <2>4, <2>5
<1>6. LcoreInv(t)'
  <2>1. args'[t] = b /\ pc'[t] = "find" /\ Len(b) \in Nat /\ Len(b) >= 1
    BY <1>1, <1>2, BatchAssumption DEF TypeOK
  <2>2. PhaseInv(t)'
    BY <1>1, <1>5, <2>1 DEF LcoreInv, PhaseInv, Inserting
  <2>3. QueueInv(t)' /\ ResultInv(t)' /\ TrackInv(t)'
    BY <1>5 DEF QueueInv, ResultInv, TrackInv
  <2>4. AnswerInv(t)'
    BY <1>1 DEF LcoreInv, PhaseInv, AnswerInv
  <2>5. ProbeInv(t)' /\ CursorInv(t)'
    BY <1>1, <2>1 DEF LcoreInv, ProbeInv, CursorInv, Inserting
  <2>6. QED  BY <2>2, <2>3, <2>4, <2>5 DEF LcoreInv
<1>7. QED  BY <1>3, <1>4, <1>6, LocalStep

\* What an unresolved lookup of lcore t looks like when the first n arguments
\* have been pushed.
Pending(t, it, n) ==
    /\ it.id \in 1 .. n
    /\ it.k = args[t][it.id]
    /\ it.visit_count = Dist(Home[it.k], it.idx)
    /\ Passed(table, it.k, it.visit_count)

\* Filling never overfills the ring, and leaves something to pop.
LEMMA FilledFacts ==
    ASSUME IInv, NEW t \in Lcores, pc[t] = "find"
    PROVE  /\ PushCount(t) \in Nat
           /\ args_head[t] + PushCount(t) <= Len(args[t])
           /\ Len(queue[t]) + PushCount(t) < QueueSize
           /\ Len(queue[t]) + PushCount(t) > 0
           /\ Filled(t) \in Seq(QueueItems)
           /\ Len(Filled(t)) = Len(queue[t]) + PushCount(t)
           /\ \A i \in 1 .. Len(Filled(t)) :
                  Pending(t, Filled(t)[i], args_head[t] + PushCount(t))
           /\ \A i \in 1 .. Len(queue[t]) : Filled(t)[i] = queue[t][i]
           /\ \A id \in args_head[t] + 1 .. args_head[t] + PushCount(t) :
                  \E i \in 1 .. Len(Filled(t)) : Filled(t)[i].id = id
<1> DEFINE n == PushCount(t)
           new == [i \in 1 .. n |-> NewItem(args[t][args_head[t] + i], args_head[t] + i)]
<1>0. TypeOK /\ PhaseInv(t) /\ QueueInv(t)
  BY DEF IInv, LcoreInv
<1>1. /\ args_head[t] \in Nat /\ Len(results[t]) \in Nat /\ Len(queue[t]) \in Nat
      /\ queue[t] \in Seq(QueueItems)
      /\ queue \in [Lcores -> Seq(QueueItems)] /\ results \in [Lcores -> Seq(Results)]
      /\ args \in [Lcores -> Batches \cup {<<>>}] /\ args_head \in [Lcores -> 0 .. MaxBurst]
      /\ QueueSize \in Nat /\ QueueSize > 1
  BY <1>0, BatchAssumption DEF TypeOK
<1>2. args[t] \in Seq(Keys) /\ Len(args[t]) \in 1 .. MaxBurst
  BY <1>0, BatchAssumption DEF PhaseInv
<1>3. /\ args_head[t] <= Len(args[t])
      /\ Len(queue[t]) < QueueSize
      /\ Len(results[t]) + Len(queue[t]) + 0 = args_head[t]
      /\ Len(results[t]) < Len(args[t])
  BY <1>0 DEF PhaseInv
<1>4. /\ n \in Nat /\ args_head[t] + n <= Len(args[t])
      /\ Len(queue[t]) + n < QueueSize /\ Len(queue[t]) + n > 0
  <2>1. PICK q \in Nat, a \in Nat, h \in Nat, r \in Nat, z \in Nat :
           /\ q = Len(queue[t]) /\ a = Len(args[t]) /\ h = args_head[t]
           /\ r = Len(results[t]) /\ z = QueueSize
    BY <1>1, <1>2
  <2>2. h <= a /\ q < z /\ r + q = h /\ r < a /\ z > 1
    BY <1>1, <1>3, <2>1
  <2>3. n = IF (z - 1) - q < a - h THEN (z - 1) - q ELSE a - h
    BY <1>1, <2>1 DEF PushCount, Room
  <2> HIDE DEF n
  <2>4. CASE (z - 1) - q < a - h
    BY <1>1, <2>1, <2>2, <2>3, <2>4
  <2>5. CASE ~((z - 1) - q < a - h)
    <3>1. n = a - h /\ n \in Nat /\ n <= (z - 1) - q
      BY <2>2, <2>3, <2>5
    <3>2. h + n <= a /\ q + n < z /\ q + n > 0
      BY <2>2, <3>1
    <3>3. QED  BY <1>1, <2>1, <3>1, <3>2
  <2>6. QED  BY <2>4, <2>5
<1> HIDE DEF n
<1>5. ASSUME NEW i \in 1 .. n
      PROVE  /\ args_head[t] + i \in 1 .. args_head[t] + n
             /\ args_head[t] + i \in 1 .. MaxBurst
             /\ args[t][args_head[t] + i] \in Keys
             /\ new[i] = NewItem(args[t][args_head[t] + i], args_head[t] + i)
  <2>1. i \in Nat /\ 1 <= i /\ i <= n /\ Len(args[t]) \in Nat
    BY <1>2, <1>4
  <2>2. args_head[t] + i \in 1 .. args_head[t] + n
    BY <1>1, <1>4, <2>1
  <2>3. args_head[t] + i \in 1 .. Len(args[t])
    BY <1>1, <1>4, <2>1
  <2>4. args_head[t] + i \in 1 .. MaxBurst
    BY <1>2, <2>3, BatchAssumption
  <2>5. QED  BY <1>2, <2>2, <2>3, <2>4
<1>6. ASSUME NEW k \in Keys, NEW id \in 1 .. MaxBurst
      PROVE  /\ NewItem(k, id) \in QueueItems
             /\ NewItem(k, id).id = id /\ NewItem(k, id).k = k
             /\ NewItem(k, id).visit_count = Dist(Home[k], NewItem(k, id).idx)
             /\ Passed(table, k, NewItem(k, id).visit_count)
  <2>1. Home[k] \in BucketStarts /\ Home[k] \in Slots
    BY FlowAssumption, BucketFits
  <2>2. Dist(Home[k], Home[k]) = 0 /\ \A s \in Slots : Dist(Home[k], s) \in Nat
    BY <2>1, DistFacts
  <2>3. Passed(table, k, 0)
    BY <2>2 DEF Passed
  <2>4. QED  BY <2>1, <2>2, <2>3, BucketFits DEF NewItem, QueueItem, QueueItems
<1>7. new \in Seq(QueueItems) /\ Len(new) = n
  <2>1. \A i \in 1 .. n : new[i] \in QueueItems
    BY <1>5, <1>6
  <2>2. QED  BY <1>4, <2>1
<1>8. Filled(t) = queue[t] \o new
  BY DEF Filled, n
<1> HIDE DEF new
<1>9. /\ Filled(t) \in Seq(QueueItems)
      /\ Len(Filled(t)) = Len(queue[t]) + n
      /\ \A i \in 1 .. Len(queue[t]) : Filled(t)[i] = queue[t][i]
      /\ \A i \in 1 .. n : Filled(t)[Len(queue[t]) + i] = new[i]
  <2>1. Filled(t) \in Seq(QueueItems) /\ Len(Filled(t)) = Len(queue[t]) + Len(new)
    <3>1. /\ queue[t] \o new \in Seq(QueueItems)
          /\ Len(queue[t] \o new) = Len(queue[t]) + Len(new)
      BY <1>1, <1>7, ConcatProperties, ZenonT(40)
    <3>2. QED  BY <1>8, <3>1, Zenon
  <2>2. \A i \in 1 .. Len(queue[t]) : Filled(t)[i] = queue[t][i]
    BY <1>1, <1>7, <1>8
  <2>3. \A i \in 1 .. Len(new) : Filled(t)[Len(queue[t]) + i] = new[i]
    BY <1>1, <1>7, <1>8
  <2>4. QED  BY <1>7, <2>1, <2>2, <2>3
<1>10. ASSUME NEW i \in 1 .. Len(Filled(t))
       PROVE  Pending(t, Filled(t)[i], args_head[t] + n)
  <2>1. CASE i \in 1 .. Len(queue[t])
    <3>1. Filled(t)[i] = queue[t][i] /\ LookupOK(t, queue[t][i])
      BY <1>0, <1>9, <2>1 DEF QueueInv
    <3>2. \A id \in 1 .. args_head[t] : id \in 1 .. args_head[t] + n
      BY <1>1, <1>4
    <3>3. QED  BY <3>1, <3>2 DEF LookupOK, Pending
  <2>2. CASE i \notin 1 .. Len(queue[t])
    <3>1. i - Len(queue[t]) \in 1 .. n /\ i = Len(queue[t]) + (i - Len(queue[t]))
      BY <1>1, <1>4, <1>9, <2>2
    <3>2. PICK j \in 1 .. n : Filled(t)[i] = new[j]
      BY <1>9, <3>1
    <3>3. QED  BY <1>5, <1>6, <3>2 DEF Pending
  <2>3. QED  BY <2>1, <2>2
<1>11. ASSUME NEW id \in args_head[t] + 1 .. args_head[t] + n
       PROVE  \E i \in 1 .. Len(Filled(t)) : Filled(t)[i].id = id
  <2>1. id - args_head[t] \in 1 .. n /\ args_head[t] + (id - args_head[t]) = id
    BY <1>1, <1>4
  <2>2. PICK j \in 1 .. n : args_head[t] + j = id
    BY <2>1
  <2>3. new[j].id = id
    BY <1>5, <1>6, <2>2
  <2>4. Len(queue[t]) + j \in 1 .. Len(Filled(t))
    BY <1>1, <1>4, <1>9
  <2>5. QED  BY <1>9, <2>3, <2>4
<1>12. QED  BY <1>4, <1>9, <1>10, <1>11 DEF n

LEMMA FillAndPopStep ==
    ASSUME IInv, NEW t \in Lcores, FillAndPop(t)
    PROVE  IInv'
<1> DEFINE f == Filled(t)
           n == args_head[t] + PushCount(t)
<1>1. TypeOK /\ LcoreInv(t) /\ pc[t] = "find"
  BY DEF IInv, FillAndPop
<1>2. /\ f \in Seq(QueueItems) /\ Len(f) \in Nat /\ Len(f) > 0 /\ Len(f) < QueueSize
      /\ Len(f) = Len(queue[t]) + PushCount(t)
      /\ n \in Nat /\ n <= Len(args[t]) /\ args_head[t] \in Nat /\ args_head[t] <= n
      /\ n \in 0 .. MaxBurst /\ Len(args[t]) \in Nat
      /\ \A i \in 1 .. Len(f) : Pending(t, f[i], n)
      /\ \A i \in 1 .. Len(queue[t]) : f[i] = queue[t][i]
      /\ \A id \in args_head[t] + 1 .. n : \E i \in 1 .. Len(f) : f[i].id = id
  <2>1. /\ args_head[t] \in Nat /\ Len(args[t]) \in 1 .. MaxBurst
        /\ Len(queue[t]) \in Nat /\ QueueSize \in Nat /\ queue \in [Lcores -> Seq(QueueItems)]
        /\ args \in [Lcores -> Batches \cup {<<>>}]
    BY <1>1, BatchAssumption DEF TypeOK, LcoreInv, PhaseInv
  <2>2. PushCount(t) \in Nat
    BY <1>1, FilledFacts
  <2>3. PICK p \in Nat, q \in Nat, h \in Nat, a \in 1 .. MaxBurst :
           p = PushCount(t) /\ q = Len(queue[t]) /\ h = args_head[t] /\ a = Len(args[t])
    BY <2>1, <2>2
  <2>4. h + p <= a /\ q + p < QueueSize /\ q + p > 0 /\ Len(f) = q + p
    BY <1>1, <2>3, FilledFacts
  <2>5. /\ n = h + p /\ n \in Nat /\ n <= a /\ h <= n /\ n \in 0 .. MaxBurst
        /\ Len(f) \in Nat /\ Len(f) > 0 /\ Len(f) < QueueSize
    BY <2>1, <2>3, <2>4, BatchAssumption, SMTT(40)
  <2>6. /\ f \in Seq(QueueItems)
        /\ \A i \in 1 .. Len(f) : Pending(t, f[i], n)
        /\ \A i \in 1 .. Len(queue[t]) : f[i] = queue[t][i]
        /\ \A id \in args_head[t] + 1 .. n : \E i \in 1 .. Len(f) : f[i].id = id
    BY <1>1, FilledFacts
  <2> HIDE DEF f, n
  <2>7. QED  BY <2>1, <2>3, <2>4, <2>5, <2>6
<1>3. f # <<>> /\ Head(f) = f[1] /\ f[1] \in QueueItems /\ 1 \in 1 .. Len(f)
  BY <1>2
<1>4. /\ Tail(f) \in Seq(QueueItems) /\ Len(Tail(f)) = Len(f) - 1
      /\ \A i \in 1 .. Len(Tail(f)) : Tail(f)[i] = f[i + 1]
  BY <1>2, <1>3, HeadTailProperties, Zenon
<1>5. /\ args_head' = [args_head EXCEPT ![t] = n]
      /\ item' = [item EXCEPT ![t] = f[1]]
      /\ queue' = [queue EXCEPT ![t] = Tail(f)]
      /\ missed' = [missed EXCEPT ![t] = ~Stored(table, f[1].k)]
      /\ pc' = [pc EXCEPT ![t] = "load"]
      /\ UNCHANGED <<table, args, cacheline, results, applied, cursor, ret>>
  BY <1>3 DEF FillAndPop, shared, apply
<1> HIDE DEF f, n
<1>6. TypeOK'
  <2>1. queue' \in [Lcores -> Seq(QueueItems)]
    BY <1>1, <1>4, <1>5 DEF TypeOK
  <2>2. missed' \in [Lcores -> BOOLEAN]
    BY <1>1, <1>5 DEF TypeOK, Stored
  <2>3. QED  BY <1>1, <1>2, <1>3, <1>5, <2>1, <2>2 DEF TypeOK
<1>7. \A u \in Lcores \ {t} : Untouched(u)
  BY <1>1, <1>5 DEF TypeOK, Untouched
<1>8. /\ pc'[t] = "load" /\ args_head'[t] = n /\ item'[t] = f[1]
      /\ queue'[t] = Tail(f)
  BY <1>1, <1>5 DEF TypeOK
<1>9. LcoreInv(t)'
  <2>1. PhaseInv(t)'
    <3>1. Len(results[t]) + Len(queue[t]) + 0 = args_head[t] /\ Len(results[t]) < Len(args[t])
      BY <1>1 DEF LcoreInv, PhaseInv
    <3>2. Len(results[t]) + Len(Tail(f)) + 1 = n
      <4>1. /\ results \in [Lcores -> Seq(Results)] /\ queue \in [Lcores -> Seq(QueueItems)]
            /\ PushCount(t) \in Nat /\ args_head \in [Lcores -> 0 .. MaxBurst]
            /\ Len(results[t]) \in Nat /\ Len(queue[t]) \in Nat
        BY <1>1, FilledFacts DEF TypeOK
      <4>2. PICK r \in Nat, q \in Nat, h \in Nat, p \in Nat :
               r = Len(results[t]) /\ q = Len(queue[t]) /\ h = args_head[t] /\ p = PushCount(t)
        BY <1>2, <4>1
      <4>3. r + q + 0 = h /\ n = h + p /\ Len(Tail(f)) = (q + p) - 1
        BY <1>2, <1>4, <3>1, <4>1, <4>2 DEF n
      <4>4. r + ((q + p) - 1) + 1 = h + p
        BY <4>3
      <4>5. QED  BY <4>1, <4>2, <4>3, <4>4
    <3>3. args[t] \in Batches /\ applied[t] = 0
      BY <1>1 DEF LcoreInv, PhaseInv
    <3>4. Len(Tail(f)) \in Nat /\ Len(Tail(f)) + 1 < QueueSize /\ Len(Tail(f)) < QueueSize
      BY <1>2, <1>4, BatchAssumption
    <3>5. /\ Len(queue'[t]) = Len(Tail(f)) /\ results'[t] = results[t] /\ args'[t] = args[t]
          /\ applied'[t] = 0
      BY <1>5, <1>8, <3>3
    <3>6. QED  BY <1>2, <1>6, <1>8, <3>1, <3>2, <3>3, <3>4, <3>5 DEF PhaseInv, Inserting, TypeOK
  <2>2. QueueInv(t)'
    <3>1. ASSUME NEW i \in 1 .. Len(Tail(f))
          PROVE  Pending(t, Tail(f)[i], n)
      BY <1>2, <1>4
    <3>2. QED  BY <1>5, <1>8, <3>1 DEF QueueInv, LookupOK, Pending
  <2>3. ProbeInv(t)'
    <3>1. cacheline'[t] = <<>>
      BY <1>1, <1>5 DEF LcoreInv, ProbeInv
    <3>2. LookupOK(t, item[t])'
      BY <1>2, <1>3, <1>5, <1>8 DEF LookupOK, Pending
    <3>3. CachelineInv(t)'
      BY <3>1 DEF CachelineInv
    <3>4. missed'[t] \/ Stored(table, f[1].k)
      BY <1>1, <1>5 DEF TypeOK
    <3>5. QED  BY <1>3, <1>5, <1>8, <3>2, <3>3, <3>4 DEF ProbeInv
  <2>4. ResultInv(t)'
    <3>1. \A id \in 1 .. args_head[t] : id \in 1 .. n
      BY <1>2
    <3>2. QED  BY <1>1, <1>5, <1>8, <3>1 DEF LcoreInv, ResultInv, ResultOK
  <2>5. AnswerInv(t)'
    BY <1>1, <1>5 DEF LcoreInv, AnswerInv, AnswerOK
  <2>6. TrackInv(t)'
    <3>1. ASSUME NEW id \in 1 .. n, \E i \in 1 .. Len(f) : f[i].id = id
          PROVE  f[1].id = id \/ \E i \in 1 .. Len(Tail(f)) : Tail(f)[i].id = id
      <4>1. PICK i \in 1 .. Len(f) : f[i].id = id
        BY <3>1
      <4>2. CASE i # 1
        <5>1. i - 1 \in 1 .. Len(Tail(f)) /\ (i - 1) + 1 = i
          BY <1>2, <1>4, <4>2
        <5>2. Tail(f)[i - 1] = f[i]
          BY <1>4, <5>1
        <5>3. QED  BY <4>1, <5>1, <5>2
      <4>3. QED  BY <4>1, <4>2
    <3>2. ASSUME NEW id \in 1 .. n
          PROVE  \/ \E i \in 1 .. Len(f) : f[i].id = id
                 \/ \E i \in 1 .. Len(results[t]) : results[t][i].id = id
      <4>1. CASE id \in 1 .. args_head[t]
        <5>1. \/ \E i \in 1 .. Len(queue[t]) : queue[t][i].id = id
              \/ \E i \in 1 .. Len(results[t]) : results[t][i].id = id
          BY <1>1, <4>1 DEF LcoreInv, TrackInv
        <5>2. \A i \in 1 .. Len(queue[t]) : i \in 1 .. Len(f) /\ f[i] = queue[t][i]
          <6>1. PushCount(t) \in Nat /\ Len(queue[t]) \in Nat
            BY <1>1, FilledFacts DEF TypeOK
          <6>2. PICK q \in Nat, p \in Nat : q = Len(queue[t]) /\ p = PushCount(t)
            BY <6>1
          <6>3. Len(f) = q + p
            BY <1>2, <6>2
          <6>4. QED  BY <1>2, <6>2, <6>3
        <5>3. QED  BY <5>1, <5>2
      <4>2. CASE id \notin 1 .. args_head[t]
        <5>1. id \in args_head[t] + 1 .. n
          BY <1>2, <4>2
        <5>2. QED  BY <1>2, <5>1
      <4>3. QED  BY <4>1, <4>2
    <3>3. QED  BY <1>5, <1>8, <3>1, <3>2, SMTT(40) DEF TrackInv
  <2>7. CursorInv(t)'
    BY <1>8 DEF CursorInv, Inserting
  <2>8. QED  BY <2>1, <2>2, <2>3, <2>4, <2>5, <2>6, <2>7 DEF LcoreInv
<1>10. QED  BY <1>5, <1>6, <1>7, <1>9, LocalStep

\* Reading a lane: what is seen now is either a stored key, which stays, or a
\* hole, and behind a hole on its probe path the key cannot be.
LEMMA LoadLaneStep ==
    ASSUME IInv, NEW t \in Lcores, NEW l \in LaneIdx, LoadLane(t, l)
    PROVE  IInv'
<1> USE DEF LoadLane, shared, apply
<1>1. /\ TypeOK /\ LcoreInv(t) /\ pc[t] = "load" /\ item[t] \in QueueItems
      /\ LookupOK(t, item[t]) /\ CachelineInv(t) /\ DOMAIN cacheline[t] \subseteq LaneIdx
  BY DEF IInv, LcoreInv, ProbeInv, TypeOK
<1> DEFINE b == item[t].idx
           k == item[t].k
           c == cacheline'[t]
<1>2. /\ k \in Keys /\ k # 0 /\ b \in BucketStarts /\ \A m \in LaneIdx : b + m \in Slots
      /\ Home[k] \in Slots
  BY <1>1, BucketFits, FlowAssumption DEF QueueItems, Slots, LaneIdx
<1>3. /\ c = [m \in DOMAIN cacheline[t] \cup {l} |->
                IF m = l THEN table[b + l].k ELSE cacheline[t][m]]
      /\ table[b + l].k \in Keys \cup {0}
  BY <1>1, <1>2 DEF TypeOK
<1>4. TypeOK'
  <2>1. cacheline[t] \in [DOMAIN cacheline[t] -> Keys \cup {0}]
    BY <1>1 DEF TypeOK
  <2>2. c \in [DOMAIN cacheline[t] \cup {l} -> Keys \cup {0}]
    BY <1>3, <2>1
  <2>3. DOMAIN cacheline[t] \cup {l} \in SUBSET LaneIdx
    BY <1>1
  <2>4. c \in UNION {[S -> Keys \cup {0}] : S \in SUBSET LaneIdx}
    BY <2>2, <2>3
  <2>5. cacheline' \in [Lcores -> UNION {[S -> Keys \cup {0}] : S \in SUBSET LaneIdx}]
    BY <1>1, <2>4 DEF TypeOK
  <2>6. QED  BY <1>1, <2>5 DEF TypeOK
<1>5. \A u \in Lcores \ {t} : Untouched(u)
  BY <1>1 DEF TypeOK, Untouched
<1>6. CachelineInv(t)'
  <2>1. ASSUME NEW m \in DOMAIN c, c[m] # 0
        PROVE  table[b + m].k = c[m]
    BY <1>1, <1>3, <2>1 DEF CachelineInv
  <2>2. ASSUME NEW m \in DOMAIN c, c[m] = 0, ~missed[t]
        PROVE  \E j \in LaneIdx : table[b + j].k = k /\ (j \in DOMAIN c => c[j] = k)
    <3>1. CASE \E i \in DOMAIN cacheline[t] : cacheline[t][i] = 0
      <4>1. PICK j \in LaneIdx : /\ table[b + j].k = k
                                 /\ j \in DOMAIN cacheline[t] => cacheline[t][j] = k
        BY <1>1, <2>2, <3>1 DEF CachelineInv
      <4>2. QED  BY <1>3, <4>1
    <3>2. CASE \A i \in DOMAIN cacheline[t] : cacheline[t][i] # 0
      <4>1. table[b + l].k = 0
        BY <1>3, <2>2, <3>2
      <4>2. PICK s \in Slots : table[s].k = k
        BY <1>1, <2>2 DEF LcoreInv, ProbeInv, Stored
      <4>3. ~(Dist(Home[k], s) < Dist(Home[k], b))
        BY <1>1, <4>2 DEF LookupOK, Passed
      <4>4. Dist(Home[k], s) < Dist(Home[k], b) + Lanes
        <5>1. Passed(table, k, Dist(Home[k], s))
          BY <1>2, <4>2 DEF IInv, ProbePathUnbroken
        <5>2. ~(Dist(Home[k], b + l) < Dist(Home[k], s))
          BY <1>2, <4>1, <5>1 DEF Passed
        <5>3. Dist(Home[k], b + l) < Dist(Home[k], b) + Lanes
          BY <1>2, BucketFits DEF Dist, Slots, LaneIdx
        <5>4. /\ Dist(Home[k], b + l) \in Int /\ Dist(Home[k], s) \in Int
              /\ Dist(Home[k], b) \in Int /\ Lanes \in Int
          BY <1>2, DistFacts, BucketFits
        <5>5. QED  BY <5>2, <5>3, <5>4
      <4>5. PICK j \in LaneIdx : s = b + j
        BY <1>2, <4>3, <4>4, NextBucketFacts
      <4>6. j \in DOMAIN c => c[j] = k
        BY <1>1, <1>2, <1>3, <3>2, <4>1, <4>2, <4>5 DEF CachelineInv
      <4>7. QED  BY <4>2, <4>5, <4>6
    <3>3. QED  BY <3>1, <3>2
  <2>3. QED  BY <1>1, <2>1, <2>2 DEF CachelineInv
<1>7. LcoreInv(t)'
  <2>1. /\ PhaseInv(t)' /\ QueueInv(t)' /\ ResultInv(t)' /\ AnswerInv(t)'
        /\ TrackInv(t)' /\ CursorInv(t)'
    BY <1>1 DEF LcoreInv, PhaseInv, QueueInv, LookupOK, ResultInv, ResultOK,
                AnswerInv, AnswerOK, TrackInv, CursorInv, CurrentKey, Result
  <2>2. ProbeInv(t)'
    BY <1>1, <1>6 DEF LcoreInv, ProbeInv, LookupOK
  <2>3. QED  BY <2>1, <2>2, ZenonT(40) DEF LcoreInv
<1>8. QED  BY <1>4, <1>5, <1>7, LocalStep

\* A probe that ends with a true result preserves the invariant.
LEMMA ResolveStep ==
    ASSUME IInv, NEW t \in Lcores, pc[t] = "load",
           NEW status \in {"FOUND", "ABSENT", "TABLE_FULL"}, NEW v \in Nat,
           Resolve(t, status, v),
           status = "FOUND" => Stored(table, item[t].k) /\ v = Backend[item[t].k],
           status = "TABLE_FULL" => Passed(table, item[t].k, Capacity - Lanes)
    PROVE  IInv'
<1> DEFINE r == [v |-> v, id |-> item[t].id, status |-> status]
           rs == results[t]
           new == Append(rs, r)
           next == IF Len(rs) + 1 < Len(args[t]) THEN "find" ELSE "apply"
<1>1. TypeOK /\ LcoreInv(t) /\ item[t] \in QueueItems /\ LookupOK(t, item[t])
  BY DEF IInv, LcoreInv, ProbeInv
<1>2. /\ results' = [results EXCEPT ![t] = new]
      /\ pc' = [pc EXCEPT ![t] = next]
      /\ item' = [item EXCEPT ![t] = NoItem]
      /\ cacheline' = [cacheline EXCEPT ![t] = <<>>]
      /\ missed' = [missed EXCEPT ![t] = FALSE]
      /\ UNCHANGED <<table, args, args_head, queue, applied, cursor, ret>>
  BY DEF Resolve, EndProbe, shared, apply
<1>3. r \in Results /\ r.id = item[t].id /\ r.v = v /\ r.status = status
  BY <1>1 DEF QueueItems, Results
<1>4. rs \in Seq(Results) /\ Len(rs) \in Nat
  BY <1>1 DEF TypeOK
<1> HIDE DEF r, rs
<1>5. /\ new \in Seq(Results) /\ Len(new) = Len(rs) + 1
      /\ \A i \in 1 .. Len(rs) : new[i] = rs[i]
      /\ new[Len(rs) + 1] = r
  BY <1>3, <1>4, AppendProperties
<1>6. next \in {"find", "apply"}
  OBVIOUS
<1> HIDE DEF rs, new, next
<1>7. TypeOK'
  <2>1. results' \in [Lcores -> Seq(Results)]
    BY <1>1, <1>2, <1>5 DEF TypeOK
  <2>2. cacheline' \in [Lcores -> UNION {[S -> Keys \cup {0}] : S \in SUBSET LaneIdx}]
    <3>1. <<>> \in [{} -> Keys \cup {0}]
      OBVIOUS
    <3>2. <<>> \in UNION {[S -> Keys \cup {0}] : S \in SUBSET LaneIdx}
      BY <3>1
    <3>3. QED  BY <1>1, <1>2, <3>2 DEF TypeOK
  <2>3. QED  BY <1>1, <1>2, <1>6, <2>1, <2>2 DEF TypeOK
<1>8. \A u \in Lcores \ {t} : Untouched(u)
  BY <1>1, <1>2 DEF TypeOK, Untouched
<1>9. pc'[t] = next /\ results'[t] = new /\ item'[t] = NoItem /\ cacheline'[t] = <<>>
  BY <1>1, <1>2 DEF TypeOK
<1>10. LcoreInv(t)'
  <2>1. PhaseInv(t)'
    <3>1. PICK n \in Nat, q \in Nat, h \in Nat, a \in Nat :
             n = Len(rs) /\ q = Len(queue[t]) /\ h = args_head[t] /\ a = Len(args[t])
      <4>1. Len(queue[t]) \in Nat /\ args_head[t] \in Nat /\ args[t] \in Seq(Keys)
        BY <1>1, BatchAssumption DEF TypeOK, LcoreInv, PhaseInv
      <4>2. QED  BY <1>4, <4>1, SMTT(40)
    <3>2. h <= a /\ q < QueueSize /\ n + q + 1 = h /\ n < a
      BY <1>1, <3>1 DEF LcoreInv, PhaseInv, TypeOK, rs
    <3>3. Len(new) = n + 1 /\ (n + 1) + q + 0 = h
      <4>1. Len(new) = n + 1
        BY <1>5, <3>1
      <4>2. (n + 1) + q + 0 = h
        BY <3>2
      <4>3. QED  BY <4>1, <4>2
    <3>4. \/ next = "find" /\ n + 1 < a
          \/ next = "apply" /\ n + 1 = a
      <4>1. next = IF n + 1 < a THEN "find" ELSE "apply"
        BY <3>1 DEF next
      <4>2. CASE n + 1 < a
        <5>1. next = "find"
          BY <4>1, <4>2
        <5>2. QED  BY <4>2, <5>1
      <4>3. CASE ~(n + 1 < a)
        <5>1. next = "apply"
          BY <4>1, <4>3
        <5>2. n + 1 = a
          BY <3>2, <4>3
        <5>3. QED  BY <5>1, <5>2
      <4>4. QED  BY <4>2, <4>3
    <3>5. args[t] \in Batches /\ applied[t] = 0
      BY <1>1 DEF LcoreInv, PhaseInv
    <3>6. /\ Len(results'[t]) = n + 1 /\ Len(queue'[t]) = q /\ args_head'[t] = h
          /\ Len(args'[t]) = a /\ applied'[t] = 0 /\ args'[t] \in Batches
      BY <1>2, <1>9, <3>1, <3>3, <3>5
    <3>7. CASE next = "find"
      BY <1>7, <1>9, <3>2, <3>3, <3>4, <3>6, <3>7 DEF PhaseInv, Inserting, TypeOK
    <3>8. CASE next = "apply"
      BY <1>7, <1>9, <3>2, <3>3, <3>4, <3>6, <3>8, SMTT(40) DEF PhaseInv, Inserting, TypeOK
    <3>9. QED  BY <1>6, <3>7, <3>8
  <2>2. QueueInv(t)' /\ CursorInv(t)'
    BY <1>1, <1>2, <1>6, <1>9 DEF LcoreInv, QueueInv, LookupOK, CursorInv, Inserting
  <2>3. ProbeInv(t)'
    BY <1>6, <1>9 DEF ProbeInv
  <2>4. ResultInv(t)'
    <3>1. ResultOK(t, r)
      BY <1>1, <1>3 DEF ResultOK, LookupOK
    <3>2. ASSUME NEW i \in 1 .. Len(new)
          PROVE  ResultOK(t, new[i])
      <4>1. CASE i \in 1 .. Len(rs)
        BY <1>1, <1>5, <4>1 DEF LcoreInv, ResultInv, rs
      <4>2. CASE i = Len(rs) + 1
        BY <1>5, <3>1, <4>2
      <4>3. QED  BY <1>4, <1>5, <4>1, <4>2
    <3>3. QED  BY <1>2, <1>9, <3>2 DEF ResultInv, ResultOK
  <2>5. AnswerInv(t)'
    BY <1>1, <1>2 DEF LcoreInv, PhaseInv, AnswerInv
  <2>6. TrackInv(t)'
    <3>1. \A i \in 1 .. Len(rs) : i \in 1 .. Len(new)
      BY <1>4, <1>5
    <3>2. Len(rs) + 1 \in 1 .. Len(new)
      BY <1>4, <1>5
    <3>3. ASSUME NEW id \in 1 .. args_head[t]
          PROVE  \/ \E i \in 1 .. Len(queue[t]) : queue[t][i].id = id
                 \/ \E i \in 1 .. Len(new) : new[i].id = id
      <4>1. \/ \E i \in 1 .. Len(queue[t]) : queue[t][i].id = id
            \/ item[t].id = id
            \/ \E i \in 1 .. Len(rs) : rs[i].id = id
        BY <1>1 DEF LcoreInv, TrackInv, rs
      <4>2. QED  BY <1>3, <1>5, <3>1, <3>2, <4>1
    <3>4. QED  BY <1>2, <1>9, <3>3 DEF TrackInv
  <2>7. QED  BY <2>1, <2>2, <2>3, <2>4, <2>5, <2>6 DEF LcoreInv
<1>11. QED  BY <1>2, <1>7, <1>8, <1>10, LocalStep

\* What a fully loaded probe knows.
LEMMA LoadedFacts ==
    ASSUME IInv, NEW t \in Lcores, Loaded(t)
    PROVE  /\ TypeOK /\ pc[t] = "load" /\ DOMAIN cacheline[t] = LaneIdx
           /\ item[t] \in QueueItems /\ LookupOK(t, item[t]) /\ CachelineInv(t)
           /\ item[t].k \in Keys /\ item[t].k # 0 /\ item[t].idx \in BucketStarts
           /\ Home[item[t].k] \in Slots
           /\ \A m \in LaneIdx : item[t].idx + m \in Slots
<1>1. /\ TypeOK /\ pc[t] = "load" /\ DOMAIN cacheline[t] = LaneIdx
      /\ item[t] \in QueueItems /\ LookupOK(t, item[t]) /\ CachelineInv(t)
  BY DEF IInv, LcoreInv, ProbeInv, Loaded
<1>2. item[t].k \in Keys /\ item[t].k # 0 /\ item[t].idx \in BucketStarts
  BY <1>1, FlowAssumption DEF QueueItems
<1>3. Home[item[t].k] \in Slots
  BY <1>2, FlowAssumption, BucketFits
<1>4. \A m \in LaneIdx : item[t].idx + m \in Slots
  BY <1>2, LaneSlot
<1>5. QED  BY <1>1, <1>2, <1>3, <1>4

LEMMA HitStep ==
    ASSUME IInv, NEW t \in Lcores, Hit(t)
    PROVE  IInv'
<1>1. Loaded(t)
  BY DEF Hit
<1>2. PICK l \in KeyLanes(t) : Resolve(t, "FOUND", table[item[t].idx + l].v)
  BY DEF Hit
<1>3. l \in LaneIdx /\ cacheline[t][l] = item[t].k
  BY <1>2 DEF KeyLanes
<1>4. table[item[t].idx + l].k = item[t].k /\ item[t].idx + l \in Slots
  BY <1>1, <1>3, LoadedFacts DEF CachelineInv
<1>5. Stored(table, item[t].k) /\ table[item[t].idx + l].v = Backend[item[t].k]
  BY <1>1, <1>4, LoadedFacts DEF Stored, IInv, SlotInv
<1>6. table[item[t].idx + l].v \in Nat
  BY <1>1, <1>5, LoadedFacts, FlowAssumption
<1>7. QED  BY <1>1, <1>2, <1>5, <1>6, LoadedFacts, ResolveStep

LEMMA GiveUpStep ==
    ASSUME IInv, NEW t \in Lcores, GiveUp(t)
    PROVE  IInv'
<1>1. Loaded(t) /\ BoundReached(item[t].visit_count) /\ Resolve(t, "TABLE_FULL", 0)
  BY DEF GiveUp
<1>2. item[t].visit_count \in Nat /\ Passed(table, item[t].k, item[t].visit_count)
  BY <1>1, LoadedFacts, BucketFits DEF QueueItems, LookupOK
<1>3. Capacity - Lanes <= item[t].visit_count
  BY <1>1, <1>2, BucketFits DEF BoundReached
<1>4. \A s \in Slots : Dist(Home[item[t].k], s) \in Int
  BY <1>1, LoadedFacts, DistFacts
<1>5. Passed(table, item[t].k, Capacity - Lanes)
  BY <1>2, <1>3, <1>4, BucketFits DEF Passed
<1>6. QED  BY <1>1, <1>5, LoadedFacts, ResolveStep

LEMMA MissStep ==
    ASSUME IInv, NEW t \in Lcores, Miss(t)
    PROVE  IInv'
<1>1. Loaded(t) /\ Resolve(t, "ABSENT", 0)
  BY DEF Miss
<1>2. QED  BY <1>1, LoadedFacts, ResolveStep

\* A bucket full of other flows: the lookup has passed Lanes more slots.
LEMMA ReprobeStep ==
    ASSUME IInv, NEW t \in Lcores, Reprobe(t)
    PROVE  IInv'
<1> DEFINE it == item[t]
           again == QueueItem(NextBucket(it.idx), it.k, it.visit_count + Lanes, it.id)
           qs == queue[t]
           new == Append(qs, again)
<1>1. /\ Loaded(t) /\ KeyLanes(t) = {} /\ EmptyLanes(t) = {}
      /\ ~BoundReached(it.visit_count)
      /\ queue' = [queue EXCEPT ![t] = new]
      /\ pc' = [pc EXCEPT ![t] = "find"]
      /\ item' = [item EXCEPT ![t] = NoItem]
      /\ cacheline' = [cacheline EXCEPT ![t] = <<>>]
      /\ missed' = [missed EXCEPT ![t] = FALSE]
      /\ UNCHANGED <<table, args, args_head, results, applied, cursor, ret>>
  BY DEF Reprobe, EndProbe, shared, apply
<1>2. TypeOK /\ LcoreInv(t) /\ it \in QueueItems /\ LookupOK(t, it)
  BY <1>1, LoadedFacts DEF IInv
<1>3. /\ it.k \in Keys /\ it.idx \in BucketStarts /\ it.visit_count \in Nat
      /\ Home[it.k] \in Slots /\ it.id \in 1 .. MaxBurst
  BY <1>1, <1>2, LoadedFacts, BucketFits DEF QueueItems
<1>4. /\ again.k = it.k /\ again.idx = NextBucket(it.idx)
      /\ again.visit_count = it.visit_count + Lanes /\ again.id = it.id
      /\ again = [k |-> it.k, idx |-> NextBucket(it.idx),
                  visit_count |-> it.visit_count + Lanes, id |-> it.id]
  BY DEF QueueItem
<1>5. it.visit_count + Lanes \in 0 .. Capacity /\ it.visit_count + Lanes < Capacity
  BY <1>1, <1>3, BucketFits, SMTT(40) DEF BoundReached
<1>6. again \in QueueItems
  BY <1>3, <1>4, <1>5, NextBucketType, SMTT(40) DEF QueueItems
<1>7. Pending(t, again, args_head[t])
  <2>1. it.visit_count = Dist(Home[it.k], it.idx) /\ Passed(table, it.k, it.visit_count)
    BY <1>2 DEF LookupOK
  <2>2. it.visit_count + Lanes = Dist(Home[it.k], NextBucket(it.idx))
    BY <1>3, <1>5, <2>1, NextBucketFacts
  <2>3. Passed(table, it.k, it.visit_count + Lanes)
    <3>1. SUFFICES ASSUME NEW s \in Slots,
                          Dist(Home[it.k], s) < it.visit_count + Lanes
                   PROVE  table[s].k \notin {0, it.k}
      BY DEF Passed
    <3>2. CASE Dist(Home[it.k], s) < it.visit_count
      BY <2>1, <3>2 DEF Passed
    <3>3. CASE ~(Dist(Home[it.k], s) < it.visit_count)
      <4>1. PICK l \in LaneIdx : s = it.idx + l
        BY <1>3, <2>1, <3>1, <3>3, NextBucketFacts
      <4>2. cacheline[t][l] # 0 /\ cacheline[t][l] # it.k
        BY <1>1 DEF KeyLanes, EmptyLanes
      <4>3. table[s].k = cacheline[t][l]
        BY <1>1, <4>1, <4>2, LoadedFacts DEF CachelineInv
      <4>4. QED  BY <4>2, <4>3
    <3>4. QED  BY <3>2, <3>3
  <2>4. QED  BY <1>2, <1>4, <2>2, <2>3 DEF LookupOK, Pending
<1>8. qs \in Seq(QueueItems) /\ Len(qs) \in Nat
  BY <1>2 DEF TypeOK
<1> HIDE DEF again, qs
<1>9. /\ new \in Seq(QueueItems) /\ Len(new) = Len(qs) + 1
      /\ \A i \in 1 .. Len(qs) : new[i] = qs[i]
      /\ new[Len(qs) + 1] = again
  BY <1>6, <1>8, AppendProperties
<1> HIDE DEF new
<1>10. TypeOK'
  <2>1. queue' \in [Lcores -> Seq(QueueItems)]
    BY <1>1, <1>2, <1>9 DEF TypeOK
  <2>2. cacheline' \in [Lcores -> UNION {[S -> Keys \cup {0}] : S \in SUBSET LaneIdx}]
    <3>1. <<>> \in [{} -> Keys \cup {0}]
      OBVIOUS
    <3>2. <<>> \in UNION {[S -> Keys \cup {0}] : S \in SUBSET LaneIdx}
      BY <3>1
    <3>3. QED  BY <1>1, <1>2, <3>2 DEF TypeOK
  <2>3. QED  BY <1>1, <1>2, <2>1, <2>2 DEF TypeOK
<1>11. \A u \in Lcores \ {t} : Untouched(u)
  BY <1>1, <1>2 DEF TypeOK, Untouched
<1>12. pc'[t] = "find" /\ queue'[t] = new /\ item'[t] = NoItem /\ cacheline'[t] = <<>>
  BY <1>1, <1>2 DEF TypeOK
<1>13. LcoreInv(t)'
  <2>1. PhaseInv(t)'
    <3>1. pc[t] = "load"
      BY <1>1 DEF Loaded
    <3>2. PICK n \in Nat, q \in Nat, h \in Nat, a \in Nat :
             n = Len(results[t]) /\ q = Len(qs) /\ h = args_head[t] /\ a = Len(args[t])
      <4>1. Len(results[t]) \in Nat /\ args_head[t] \in Nat /\ args[t] \in Seq(Keys)
        BY <1>2, <3>1, BatchAssumption DEF TypeOK, LcoreInv, PhaseInv
      <4>2. QED  BY <1>8, <4>1
    <3>3. h <= a /\ n + q + 1 = h /\ n < a
      BY <1>2, <3>1, <3>2 DEF LcoreInv, PhaseInv, TypeOK, qs
    <3>4. Len(new) = q + 1
      BY <1>9, <3>2
    <3>5. n + (q + 1) + 0 = h
      BY <3>3
    <3>6. q + 1 < QueueSize
      BY <1>2, <3>1, <3>2 DEF LcoreInv, PhaseInv, TypeOK, qs
    <3>7. args[t] \in Batches /\ applied[t] = 0
      BY <1>2, <3>1 DEF LcoreInv, PhaseInv
    <3>8. /\ Len(results'[t]) = n /\ Len(queue'[t]) = q + 1 /\ args_head'[t] = h
          /\ Len(args'[t]) = a /\ applied'[t] = 0 /\ args'[t] \in Batches
      BY <1>1, <1>12, <3>2, <3>4, <3>7
    <3>9. QED  BY <1>10, <1>12, <3>3, <3>5, <3>6, <3>8 DEF PhaseInv, Inserting, TypeOK
  <2>2. QueueInv(t)'
    <3>1. ASSUME NEW i \in 1 .. Len(new)
          PROVE  Pending(t, new[i], args_head[t])
      <4>1. CASE i \in 1 .. Len(qs)
        BY <1>2, <1>9, <4>1 DEF LcoreInv, QueueInv, LookupOK, Pending, qs
      <4>2. CASE i = Len(qs) + 1
        BY <1>7, <1>9, <4>2
      <4>3. QED  BY <1>8, <1>9, <4>1, <4>2
    <3>2. QED  BY <1>1, <1>12, <3>1 DEF QueueInv, LookupOK, Pending
  <2>3. ProbeInv(t)' /\ CursorInv(t)'
    BY <1>12 DEF ProbeInv, CursorInv, Inserting
  <2>4. ResultInv(t)'
    BY <1>1, <1>2 DEF LcoreInv, ResultInv, ResultOK
  <2>5. AnswerInv(t)'
    BY <1>1, <1>2 DEF LcoreInv, AnswerInv, AnswerOK
  <2>6. TrackInv(t)'
    <3>1. (\A i \in 1 .. Len(qs) : i \in 1 .. Len(new)) /\ Len(qs) + 1 \in 1 .. Len(new)
      BY <1>8, <1>9
    <3>2. ASSUME NEW id \in 1 .. args_head[t]
          PROVE  \/ \E i \in 1 .. Len(new) : new[i].id = id
                 \/ \E i \in 1 .. Len(results[t]) : results[t][i].id = id
      <4>1. \/ \E i \in 1 .. Len(qs) : qs[i].id = id
            \/ it.id = id
            \/ \E i \in 1 .. Len(results[t]) : results[t][i].id = id
        BY <1>2 DEF LcoreInv, TrackInv, qs
      <4>2. again.id = it.id
        BY <1>4
      <4>3. QED  BY <1>9, <3>1, <4>1, <4>2
    <3>3. QED  BY <1>1, <1>12, <3>2 DEF TrackInv
  <2>7. QED  BY <2>1, <2>2, <2>3, <2>4, <2>5, <2>6 DEF LcoreInv
<1>14. QED  BY <1>1, <1>10, <1>11, <1>13, LocalStep

\* Writing a true answer preserves the invariant, also in the step that claims
\* a slot.
LEMMA AnswerStep ==
    ASSUME IInv, NEW t \in Lcores, pc[t] \in {"apply"} \cup Inserting,
           NEW v \in Nat, Answer(t, v),
           Grows, table' \in [Slots -> [k : Keys \cup {0}, v : Nat]],
           SlotInv', ProbePathUnbroken',
           v = 0 => Passed(table', CurrentKey(t), Capacity - Lanes),
           v # 0 => Stored(table', CurrentKey(t)) /\ v = Backend[CurrentKey(t)]
    PROVE  IInv'
<1> DEFINE id == Result(t).id
           next == IF applied[t] + 1 < Len(results[t]) THEN "apply" ELSE "done"
<1>1. /\ ret' = [ret EXCEPT ![t] = [ret[t] EXCEPT ![id] = v]]
      /\ applied' = [applied EXCEPT ![t] = applied[t] + 1]
      /\ cursor' = [cursor EXCEPT ![t] = NoCursor]
      /\ pc' = [pc EXCEPT ![t] = next]
      /\ UNCHANGED <<args, args_head, queue, item, cacheline, results, missed>>
  BY DEF Answer, find
<1>2. TypeOK /\ LcoreInv(t) /\ PhaseInv(t) /\ ResultInv(t)
  BY DEF IInv, LcoreInv
<1>3. /\ applied[t] + 1 \in 1 .. Len(results[t])
      /\ id \in 1 .. args_head[t] /\ CurrentKey(t) = args[t][id]
      /\ Result(t) = results[t][applied[t] + 1]
      /\ Result(t) \in Results
  BY <1>2, CurrentFacts DEF CurrentKey, Result
<1>4. id \in 1 .. MaxBurst /\ applied[t] \in Nat
  BY <1>2, <1>3, SMTT(40) DEF Results, TypeOK
<1>5. next \in {"apply", "done"}
  OBVIOUS
<1> HIDE DEF id, next
<1>6. TypeOK'
  <2>1. [ret[t] EXCEPT ![id] = v] \in [1 .. MaxBurst -> Nat]
    BY <1>2, <1>4 DEF TypeOK
  <2>2. ret' \in [Lcores -> [1 .. MaxBurst -> Nat]]
    BY <1>1, <1>2, <2>1 DEF TypeOK
  <2>3. applied[t] + 1 \in 0 .. MaxBurst
    <3>1. Len(results[t]) = Len(args[t]) /\ args[t] \in Batches
      BY <1>2 DEF PhaseInv, Inserting
    <3>2. Len(results[t]) \in 1 .. MaxBurst
      BY <3>1, BatchAssumption
    <3>3. QED  BY <1>3, <1>4, <3>2, BatchAssumption
  <2>4. applied' \in [Lcores -> 0 .. MaxBurst]
    BY <1>1, <1>2, <2>3 DEF TypeOK
  <2>5. cursor' \in [Lcores -> [idx : Slots, count : 0 .. Capacity]]
    <3>1. NoCursor \in [idx : Slots, count : 0 .. Capacity]
      BY BucketFits DEF NoCursor, Slots
    <3>2. QED  BY <1>1, <1>2, <3>1 DEF TypeOK
  <2>6. pc' \in [Lcores -> {"idle", "find", "load", "apply", "ins_load",
                            "ins_cas", "ins_check", "ins_store", "done"}]
    BY <1>1, <1>2, <1>5 DEF TypeOK
  <2>7. QED  BY <1>1, <1>2, <2>2, <2>4, <2>5, <2>6 DEF TypeOK
<1>7. ASSUME NEW u \in Lcores \ {t}
      PROVE  LcoreInv(u)'
  <2>1. Untouched(u)
    BY <1>1, <1>2 DEF TypeOK, Untouched
  <2>2. QED  BY <1>2, <2>1, Frame DEF IInv
<1>8. /\ pc'[t] = next /\ applied'[t] = applied[t] + 1
      /\ \A i \in 1 .. MaxBurst : ret'[t][i] = IF i = id THEN v ELSE ret[t][i]
  BY <1>1, <1>2, <1>4 DEF TypeOK
<1>9. LcoreInv(t)'
  <2>1. PhaseInv(t)'
    <3>1. PICK n \in Nat, p \in Nat : n = Len(results[t]) /\ p = applied[t]
      BY <1>2, <1>4 DEF TypeOK
    <3>2. p + 1 <= n
      BY <1>3, <3>1
    <3>3. /\ next = "apply" => p + 1 < n
          /\ next = "done" => p + 1 = n
      <4>1. next = IF p + 1 < n THEN "apply" ELSE "done"
        BY <3>1 DEF next
      <4>2. CASE p + 1 < n
        BY <4>1, <4>2
      <4>3. CASE ~(p + 1 < n)
        <5>1. p + 1 = n
          BY <3>2, <4>3
        <5>2. QED  BY <4>1, <4>3, <5>1
      <4>4. QED  BY <4>2, <4>3
    <3>4. /\ args_head[t] <= Len(args[t]) /\ Len(queue[t]) < QueueSize
          /\ Len(results[t]) + Len(queue[t]) + 0 = args_head[t]
          /\ args[t] \in Batches /\ Len(results[t]) = Len(args[t])
      BY <1>2 DEF PhaseInv, Inserting
    <3>5. CASE next = "apply"
      BY <1>1, <1>2, <1>8, <3>1, <3>3, <3>4, <3>5 DEF PhaseInv, Inserting, TypeOK
    <3>6. CASE next = "done"
      BY <1>1, <1>2, <1>8, <3>1, <3>3, <3>4, <3>6 DEF PhaseInv, Inserting, TypeOK
    <3>7. QED  BY <1>5, <3>5, <3>6
  <2>2. QueueInv(t)'
    BY <1>1, <1>2, PassedGrows DEF LcoreInv, QueueInv, LookupOK
  <2>3. ProbeInv(t)' /\ CursorInv(t)'
    <3>1. item[t] = NoItem /\ cacheline[t] = <<>>
      BY <1>2 DEF LcoreInv, ProbeInv, Inserting
    <3>2. QED  BY <1>1, <1>5, <1>8, <3>1 DEF ProbeInv, CursorInv, Inserting
  <2>4. ResultInv(t)'
    BY <1>1, <1>2, PassedGrows, StoredGrows, BatchKeys DEF ResultInv, ResultOK
  <2>5. AnswerInv(t)'
    <3>1. ASSUME NEW i \in 1 .. applied[t] + 1
          PROVE  LET j == results[t][i].id
                 IN  /\ ret'[t][j] = 0 => Passed(table', args[t][j], Capacity - Lanes)
                     /\ ret'[t][j] # 0 => /\ Stored(table', args[t][j])
                                          /\ ret'[t][j] = Backend[args[t][j]]
      <4> DEFINE j == results[t][i].id
      <4>1. i \in 1 .. Len(results[t]) /\ results[t] \in Seq(Results)
        BY <1>2, <1>3, <1>4 DEF TypeOK
      <4>2. j \in 1 .. MaxBurst /\ j \in 1 .. args_head[t]
        <5>1. results[t][i] \in Results /\ ResultOK(t, results[t][i])
          BY <1>2, <4>1 DEF ResultInv
        <5>2. QED  BY <5>1 DEF Results, ResultOK
      <4>3. args[t][j] \in Keys
        BY <1>2, <4>2, BatchKeys
      <4>4. CASE j = id
        BY <1>3, <1>8, <4>2, <4>4
      <4>5. CASE j # id
        <5>1. i \in 1 .. applied[t]
          BY <1>3, <1>4, <4>5 DEF id
        <5>2. AnswerOK(t, j)
          BY <1>2, <5>1 DEF LcoreInv, AnswerInv
        <5>3. ret'[t][j] = ret[t][j]
          BY <1>8, <4>2, <4>5
        <5>4. /\ ret[t][j] = 0 => Passed(table', args[t][j], Capacity - Lanes)
              /\ ret[t][j] # 0 => Stored(table', args[t][j]) /\ ret[t][j] = Backend[args[t][j]]
          BY <4>3, <5>2, PassedGrows, StoredGrows DEF AnswerOK
        <5>5. QED  BY <5>3, <5>4
      <4>6. QED  BY <4>4, <4>5
    <3>2. QED  BY <1>1, <1>8, <3>1 DEF AnswerInv, AnswerOK
  <2>6. TrackInv(t)'
    BY <1>1, <1>2 DEF LcoreInv, TrackInv, Inserting
  <2>7. QED  BY <2>1, <2>2, <2>3, <2>4, <2>5, <2>6 DEF LcoreInv
<1>10. QED  BY <1>6, <1>7, <1>9 DEF IInv

LEMMA AnswerFoundStep ==
    ASSUME IInv, NEW t \in Lcores, AnswerFound(t)
    PROVE  IInv'
<1>1. pc[t] = "apply" /\ Result(t).status = "FOUND" /\ Answer(t, Result(t).v) /\ table' = table
  BY DEF AnswerFound, shared
<1>2. TypeOK /\ PhaseInv(t) /\ ResultInv(t) /\ SlotInv /\ ProbePathUnbroken
  BY DEF IInv, LcoreInv
<1>3. ResultOK(t, Result(t)) /\ CurrentKey(t) \in Keys
  BY <1>1, <1>2, CurrentFacts
<1>4. Stored(table, CurrentKey(t)) /\ Result(t).v = Backend[CurrentKey(t)]
  BY <1>1, <1>3 DEF ResultOK, CurrentKey
<1>5. Result(t).v \in Nat \ {0}
  BY <1>3, <1>4, FlowAssumption
<1>6. Grows /\ SlotInv' /\ ProbePathUnbroken'
  BY <1>1, <1>2 DEF Grows, SlotInv, ProbePathUnbroken
<1>7. table' \in [Slots -> [k : Keys \cup {0}, v : Nat]]
  BY <1>1, <1>2 DEF TypeOK
<1>8. QED  BY <1>1, <1>4, <1>5, <1>6, <1>7, AnswerStep

LEMMA AnswerFullStep ==
    ASSUME IInv, NEW t \in Lcores, AnswerFull(t)
    PROVE  IInv'
<1>1. pc[t] = "apply" /\ Result(t).status = "TABLE_FULL" /\ Answer(t, 0) /\ table' = table
  BY DEF AnswerFull, shared
<1>2. TypeOK /\ PhaseInv(t) /\ ResultInv(t) /\ SlotInv /\ ProbePathUnbroken
  BY DEF IInv, LcoreInv
<1>3. Passed(table, CurrentKey(t), Capacity - Lanes)
  BY <1>1, <1>2, CurrentFacts DEF ResultOK, CurrentKey
<1>4. Grows /\ SlotInv' /\ ProbePathUnbroken'
  BY <1>1, <1>2 DEF Grows, SlotInv, ProbePathUnbroken
<1>5. table' \in [Slots -> [k : Keys \cup {0}, v : Nat]]
  BY <1>1, <1>2 DEF TypeOK
<1>6. QED  BY <1>1, <1>3, <1>4, <1>5, AnswerStep

\* A step inside an insertion that only moves the cursor.
LEMMA CursorStep ==
    ASSUME IInv, NEW t \in Lcores, pc[t] \in {"apply"} \cup Inserting,
           NEW p \in Inserting, NEW c \in [idx : Slots, count : 0 .. Capacity],
           pc' = [pc EXCEPT ![t] = p], cursor' = [cursor EXCEPT ![t] = c],
           UNCHANGED <<table, args, args_head, queue, item, cacheline, results,
                       missed, applied, ret>>,
           CursorInv(t)'
    PROVE  IInv'
<1>1. TypeOK /\ LcoreInv(t)
  BY DEF IInv
<1>2. TypeOK'
  <2>1. pc' \in [Lcores -> {"idle", "find", "load", "apply", "ins_load",
                            "ins_cas", "ins_check", "ins_store", "done"}]
    BY <1>1 DEF TypeOK, Inserting
  <2>2. cursor' \in [Lcores -> [idx : Slots, count : 0 .. Capacity]]
    BY <1>1 DEF TypeOK
  <2>3. QED  BY <1>1, <2>1, <2>2 DEF TypeOK
<1>3. \A u \in Lcores \ {t} : Untouched(u)
  BY <1>1 DEF TypeOK, Untouched
<1>4. pc'[t] = p
  BY <1>1 DEF TypeOK
<1>5. LcoreInv(t)'
  <2>1. PhaseInv(t)'
    BY <1>1, <1>4 DEF LcoreInv, PhaseInv, Inserting
  <2>2. QueueInv(t)' /\ ResultInv(t)' /\ AnswerInv(t)'
    BY <1>1 DEF LcoreInv, QueueInv, LookupOK, ResultInv, ResultOK, AnswerInv, AnswerOK
  <2>3. ProbeInv(t)' /\ TrackInv(t)'
    BY <1>1, <1>4 DEF LcoreInv, ProbeInv, TrackInv, Inserting
  <2>4. QED  BY <2>1, <2>2, <2>3 DEF LcoreInv
<1>6. QED  BY <1>2, <1>3, <1>5, LocalStep

\* What an insertion in progress knows.
LEMMA InsertFacts ==
    ASSUME IInv, NEW t \in Lcores, pc[t] \in {"apply"} \cup Inserting
    PROVE  /\ TypeOK /\ PhaseInv(t) /\ ResultInv(t) /\ CursorInv(t)
           /\ SlotInv /\ ProbePathUnbroken
           /\ CurrentKey(t) \in Keys /\ CurrentKey(t) # 0
           /\ Home[CurrentKey(t)] \in Slots
           /\ Backend[CurrentKey(t)] \in Nat \ {0}
           /\ cursor[t].idx \in Slots /\ cursor[t].count \in 0 .. Capacity
           /\ cursor[t] = [idx |-> cursor[t].idx, count |-> cursor[t].count]
           /\ Cell(t) = table[cursor[t].idx]
           /\ Cell(t) \in [k : Keys \cup {0}, v : Nat]
<1>1. TypeOK /\ PhaseInv(t) /\ ResultInv(t) /\ CursorInv(t) /\ SlotInv /\ ProbePathUnbroken
  BY DEF IInv, LcoreInv
<1>2. CurrentKey(t) \in Keys
  BY <1>1, CurrentFacts
<1>3. /\ CurrentKey(t) # 0 /\ Home[CurrentKey(t)] \in Slots
      /\ Backend[CurrentKey(t)] \in Nat \ {0}
  BY <1>2, FlowAssumption, BucketFits
<1>4. /\ cursor[t].idx \in Slots /\ cursor[t].count \in 0 .. Capacity
      /\ cursor[t] = [idx |-> cursor[t].idx, count |-> cursor[t].count]
  BY <1>1 DEF TypeOK
<1>5. Cell(t) = table[cursor[t].idx] /\ Cell(t) \in [k : Keys \cup {0}, v : Nat]
  BY <1>1, <1>4 DEF Cell, TypeOK
<1>6. QED  BY <1>1, <1>2, <1>3, <1>4, <1>5

LEMMA StartInsertStep ==
    ASSUME IInv, NEW t \in Lcores, StartInsert(t)
    PROVE  IInv'
<1> USE DEF StartInsert, shared, find
<1> DEFINE k == CurrentKey(t)
           c == [idx |-> Home[k], count |-> 0]
<1>1. TypeOK /\ k \in Keys /\ Home[k] \in Slots
  BY InsertFacts
<1>2. c \in [idx : Slots, count : 0 .. Capacity]
  BY <1>1, BucketFits
<1>3. Dist(Home[k], Home[k]) = 0 /\ \A s \in Slots : Dist(Home[k], s) \in Nat
  BY <1>1, DistFacts
<1>4. Passed(table, k, 0)
  BY <1>3 DEF Passed
<1>5. CurrentKey(t)' = k /\ Result(t)' = Result(t)
  BY DEF CurrentKey, Result
<1>6. pc'[t] = "ins_load" /\ cursor'[t].idx = Home[k] /\ cursor'[t].count = 0
  BY <1>1 DEF TypeOK
<1> HIDE DEF k
<1>7. CursorInv(t)'
  BY <1>3, <1>4, <1>5, <1>6 DEF CursorInv, Inserting
<1>8. "ins_load" \in Inserting
  BY DEF Inserting
<1>9. QED  BY <1>2, <1>7, <1>8, CursorStep DEF k

LEMMA InsertLoadStep ==
    ASSUME IInv, NEW t \in Lcores, InsertLoad(t)
    PROVE  IInv'
<1> USE DEF InsertLoad, shared, find
<1> DEFINE k == CurrentKey(t)
           i == cursor[t].idx
           n == cursor[t].count
           c == [idx |-> i, count |-> n + 1]
           p == IF Cell(t).k = 0 THEN "ins_cas" ELSE "ins_check"
<1>1. /\ TypeOK /\ CursorInv(t) /\ k \in Keys /\ Home[k] \in Slots /\ i \in Slots
      /\ n \in 0 .. Capacity /\ cursor[t] = [idx |-> i, count |-> n]
      /\ Cell(t) = table[i]
  BY InsertFacts DEF Inserting
<1>2. n = Dist(Home[k], i) /\ Passed(table, k, n) /\ Result(t).status = "ABSENT"
  BY <1>1 DEF CursorInv, Inserting
<1>3. n + 1 \in 0 .. Capacity /\ (n + 1) - 1 = n
  BY <1>1, <1>2, DistFacts, BucketFits
<1>4. c \in [idx : Slots, count : 0 .. Capacity]
  BY <1>1, <1>3
<1>5. CurrentKey(t)' = k /\ Result(t)' = Result(t)
  BY DEF CurrentKey, Result
<1>6. cursor' = [cursor EXCEPT ![t] = c] /\ pc' = [pc EXCEPT ![t] = p]
  <2>1. [cursor[t] EXCEPT !.count = cursor[t].count + 1] = c
    BY <1>1
  <2>2. cursor' = [cursor EXCEPT ![t] = [cursor[t] EXCEPT !.count = cursor[t].count + 1]]
    OBVIOUS
  <2>3. QED  BY <2>1, <2>2
<1>7. pc'[t] = p /\ cursor'[t] = c /\ cursor'[t].idx = i /\ cursor'[t].count = n + 1
  <2>1. pc \in [Lcores -> {"idle", "find", "load", "apply", "ins_load",
                           "ins_cas", "ins_check", "ins_store", "done"}]
    BY <1>1 DEF TypeOK
  <2>2. cursor \in [Lcores -> [idx : Slots, count : 0 .. Capacity]]
    BY <1>1 DEF TypeOK
  <2>3. pc'[t] = p
    BY <1>6, <2>1
  <2>4. cursor'[t] = c
    BY <1>6, <2>2
  <2>5. QED  BY <2>3, <2>4
<1>8. p = IF table[i].k = 0 THEN "ins_cas" ELSE "ins_check"
  BY <1>1
<1>9. p \in Inserting
  BY DEF Inserting
<1> HIDE DEF k, i, n, c, p
<1>10. CursorInv(t)'
  <2>1. CASE table[i].k = 0
    BY <1>2, <1>3, <1>5, <1>7, <1>8, <2>1 DEF CursorInv, Inserting
  <2>2. CASE table[i].k # 0
    BY <1>2, <1>3, <1>5, <1>7, <1>8, <2>2 DEF CursorInv, Inserting
  <2>3. QED  BY <2>1, <2>2
<1>11. pc[t] \in {"apply"} \cup Inserting
  BY DEF Inserting
<1>12. QED  BY <1>4, <1>6, <1>9, <1>10, <1>11, CursorStep

\* The compare-and-swap puts the flow behind slots that all belong to others,
\* into a slot that was empty: the probe paths stay unbroken.
LEMMA ClaimStep ==
    ASSUME IInv, NEW t \in Lcores, Claim(t)
    PROVE  IInv' /\ Grows
<1> DEFINE k == CurrentKey(t)
           i == cursor[t].idx
           kv == [k |-> k, v |-> Backend[k]]
<1>1. /\ pc[t] = "ins_cas" /\ Cell(t) = EmptyKV
      /\ table' = [table EXCEPT ![i] = kv] /\ Answer(t, Backend[k])
  BY DEF Claim
<1>2. pc[t] \in {"apply"} \cup Inserting
  BY <1>1 DEF Inserting
<1>3. /\ TypeOK /\ CursorInv(t) /\ SlotInv /\ ProbePathUnbroken
      /\ k \in Keys /\ k # 0 /\ Home[k] \in Slots /\ Backend[k] \in Nat \ {0}
      /\ i \in Slots /\ cursor[t].count \in 0 .. Capacity /\ Cell(t) = table[i]
  BY <1>2, InsertFacts
<1>4. table[i].k = 0 /\ kv \in [k : Keys \cup {0}, v : Nat]
  BY <1>1, <1>3 DEF EmptyKV
<1>5. /\ table' \in [Slots -> [k : Keys \cup {0}, v : Nat]]
      /\ table'[i] = kv
      /\ \A s \in Slots \ {i} : table'[s] = table[s]
  BY <1>1, <1>3, <1>4 DEF TypeOK
<1>6. kv.k = k /\ kv.v = Backend[k]
  OBVIOUS
<1>7. Passed(table, k, Dist(Home[k], i))
  <2>1. /\ cursor[t].count = Dist(Home[k], i) + 1
        /\ Passed(table, k, cursor[t].count - 1)
    BY <1>1, <1>3 DEF CursorInv
  <2>2. Dist(Home[k], i) \in Nat
    BY <1>3, DistFacts
  <2>3. cursor[t].count - 1 = Dist(Home[k], i)
    BY <2>1, <2>2
  <2>4. QED  BY <2>1, <2>3
<1> HIDE DEF k, i, kv
<1>8. Grows
  BY <1>4, <1>5 DEF Grows
<1>9. SlotInv'
  BY <1>3, <1>5, <1>6 DEF SlotInv
<1>10. ProbePathUnbroken'
  <2>1. ASSUME NEW s \in Slots, table'[s].k # 0
        PROVE  Passed(table', table'[s].k, Dist(Home[table'[s].k], s))
    <3>1. CASE s = i
      BY <1>5, <1>6, <1>7, <1>8, <3>1, PassedGrows
    <3>2. CASE s # i
      <4>1. table'[s] = table[s]
        BY <1>5, <3>2
      <4>2. Passed(table, table[s].k, Dist(Home[table[s].k], s))
        BY <1>3, <2>1, <4>1 DEF ProbePathUnbroken
      <4>3. QED  BY <1>8, <4>1, <4>2, PassedGrows
    <3>3. QED  BY <3>1, <3>2
  <2>2. QED  BY <2>1 DEF ProbePathUnbroken
<1>11. Stored(table', k)
  BY <1>3, <1>5, <1>6 DEF Stored
<1>12. QED  BY <1>1, <1>2, <1>3, <1>5, <1>8, <1>9, <1>10, <1>11, AnswerStep DEF k

LEMMA LoseClaimStep ==
    ASSUME IInv, NEW t \in Lcores, LoseClaim(t)
    PROVE  IInv'
<1> USE DEF LoseClaim, shared, find, apply
<1>1. pc[t] \in {"apply"} \cup Inserting /\ "ins_check" \in Inserting
  BY DEF Inserting
<1>2. /\ TypeOK /\ CursorInv(t) /\ SlotInv /\ cursor[t].idx \in Slots
      /\ Cell(t) = table[cursor[t].idx]
  BY <1>1, InsertFacts
<1>3. table[cursor[t].idx].k # 0
  BY <1>2 DEF SlotInv
<1>4. CurrentKey(t)' = CurrentKey(t) /\ Result(t)' = Result(t)
  BY DEF CurrentKey, Result
<1>5. pc'[t] = "ins_check"
  BY <1>2 DEF TypeOK
<1>6. CursorInv(t)'
  BY <1>2, <1>3, <1>4, <1>5 DEF CursorInv, Inserting
<1>7. cursor' = [cursor EXCEPT ![t] = cursor[t]] /\ cursor[t] \in [idx : Slots, count : 0 .. Capacity]
  BY <1>2 DEF TypeOK
<1>8. QED  BY <1>1, <1>6, <1>7, CursorStep

LEMMA InsertMatchStep ==
    ASSUME IInv, NEW t \in Lcores, InsertMatch(t)
    PROVE  IInv'
<1> USE DEF InsertMatch, shared, find, apply
<1>1. pc[t] \in {"apply"} \cup Inserting /\ "ins_store" \in Inserting
  BY DEF Inserting
<1>2. TypeOK /\ CursorInv(t) /\ Cell(t) = table[cursor[t].idx]
  BY <1>1, InsertFacts
<1>3. CurrentKey(t)' = CurrentKey(t) /\ Result(t)' = Result(t)
  BY DEF CurrentKey, Result
<1>4. pc'[t] = "ins_store"
  BY <1>2 DEF TypeOK
<1>5. CursorInv(t)'
  BY <1>2, <1>3, <1>4 DEF CursorInv, Inserting
<1>6. cursor' = [cursor EXCEPT ![t] = cursor[t]] /\ cursor[t] \in [idx : Slots, count : 0 .. Capacity]
  BY <1>2 DEF TypeOK
<1>7. QED  BY <1>1, <1>5, <1>6, CursorStep

LEMMA InsertNextStep ==
    ASSUME IInv, NEW t \in Lcores, InsertNext(t)
    PROVE  IInv'
<1> USE DEF InsertNext, shared, find
<1> DEFINE k == CurrentKey(t)
           i == cursor[t].idx
           n == cursor[t].count
           c == [idx |-> NextSlot(i), count |-> n]
<1>1. pc[t] \in {"apply"} \cup Inserting /\ "ins_load" \in Inserting
  BY DEF Inserting
<1>2. /\ TypeOK /\ CursorInv(t) /\ k \in Keys /\ Home[k] \in Slots /\ i \in Slots
      /\ n \in 0 .. Capacity /\ cursor[t] = [idx |-> i, count |-> n]
      /\ Cell(t) = table[i]
  BY <1>1, InsertFacts
<1>3. /\ n = Dist(Home[k], i) + 1 /\ Passed(table, k, n - 1) /\ table[i].k # 0
      /\ Result(t).status = "ABSENT" /\ table[i].k # k /\ n < Capacity
  BY <1>2 DEF CursorInv, Inserting
<1>4. n = Dist(Home[k], NextSlot(i)) /\ NextSlot(i) \in Slots
  BY <1>2, <1>3, NextSlotFacts
<1>5. c \in [idx : Slots, count : 0 .. Capacity]
  BY <1>2, <1>4
<1>6. Passed(table, k, n)
  <2>1. SUFFICES ASSUME NEW s \in Slots, Dist(Home[k], s) < n
                 PROVE  table[s].k \notin {0, k}
    BY DEF Passed
  <2>2. /\ Dist(Home[k], s) \in 0 .. Capacity - 1 /\ Dist(Home[k], i) \in 0 .. Capacity - 1
        /\ Dist(Home[k], s) = Dist(Home[k], i) => s = i
    BY <1>2, DistFacts
  <2>3. CASE Dist(Home[k], s) < n - 1
    BY <1>3, <2>3 DEF Passed
  <2>4. CASE ~(Dist(Home[k], s) < n - 1)
    <3>1. Dist(Home[k], s) = Dist(Home[k], i)
      BY <1>3, <2>1, <2>2, <2>4, BucketFits
    <3>2. QED  BY <1>3, <2>2, <3>1
  <2>5. QED  BY <2>3, <2>4
<1>7. CurrentKey(t)' = k /\ Result(t)' = Result(t)
  BY DEF CurrentKey, Result
<1>8. cursor' = [cursor EXCEPT ![t] = c]
  <2>1. [cursor[t] EXCEPT !.idx = NextSlot(cursor[t].idx)] = c
    BY <1>2
  <2>2. cursor' = [cursor EXCEPT ![t] = [cursor[t] EXCEPT !.idx = NextSlot(cursor[t].idx)]]
    OBVIOUS
  <2>3. QED  BY <2>1, <2>2
<1>9. pc'[t] = "ins_load" /\ cursor'[t].idx = NextSlot(i) /\ cursor'[t].count = n
  <2>1. cursor'[t] = c
    BY <1>2, <1>8 DEF TypeOK
  <2>2. pc'[t] = "ins_load"
    BY <1>2 DEF TypeOK
  <2>3. QED  BY <2>1, <2>2
<1> HIDE DEF k, i, n, c
<1>10. CursorInv(t)'
  BY <1>3, <1>4, <1>6, <1>7, <1>9 DEF CursorInv, Inserting
<1>11. QED  BY <1>1, <1>5, <1>8, <1>10, CursorStep

LEMMA InsertFailStep ==
    ASSUME IInv, NEW t \in Lcores, InsertFail(t)
    PROVE  IInv'
<1> DEFINE k == CurrentKey(t)
<1>1. /\ pc[t] = "ins_check" /\ cursor[t].count >= Capacity /\ Answer(t, 0)
      /\ table' = table /\ pc[t] \in {"apply"} \cup Inserting
  BY DEF InsertFail, shared, Inserting
<1>2. /\ TypeOK /\ CursorInv(t) /\ SlotInv /\ ProbePathUnbroken
      /\ k \in Keys /\ Home[k] \in Slots /\ cursor[t].count \in 0 .. Capacity
  BY <1>1, InsertFacts
<1>3. Passed(table, k, cursor[t].count - 1)
  BY <1>1, <1>2 DEF CursorInv
<1>4. Capacity - Lanes <= cursor[t].count - 1
  BY <1>1, <1>2, BucketFits
<1>5. \A s \in Slots : Dist(Home[k], s) \in Int
  BY <1>2, DistFacts
<1>6. Passed(table, k, Capacity - Lanes)
  BY <1>2, <1>3, <1>4, <1>5, BucketFits DEF Passed
<1>7. Grows /\ SlotInv' /\ ProbePathUnbroken'
  BY <1>1, <1>2 DEF Grows, SlotInv, ProbePathUnbroken
<1>8. table' \in [Slots -> [k : Keys \cup {0}, v : Nat]]
  BY <1>1, <1>2 DEF TypeOK
<1>9. QED  BY <1>1, <1>6, <1>7, <1>8, AnswerStep

\* "kv->v = v" stores the value that is there already.
LEMMA InsertStoreStep ==
    ASSUME IInv, NEW t \in Lcores, InsertStore(t)
    PROVE  IInv' /\ table' = table
<1> DEFINE k == CurrentKey(t)
           i == cursor[t].idx
<1>1. /\ pc[t] = "ins_store" /\ Answer(t, Backend[k])
      /\ table' = [table EXCEPT ![i] = [table[i] EXCEPT !.v = Backend[k]]]
      /\ pc[t] \in {"apply"} \cup Inserting
  BY DEF InsertStore, Inserting
<1>2. /\ TypeOK /\ CursorInv(t) /\ SlotInv /\ ProbePathUnbroken
      /\ k \in Keys /\ k # 0 /\ i \in Slots /\ Backend[k] \in Nat \ {0}
  BY <1>1, InsertFacts
<1>3. table[i].k = k
  BY <1>1, <1>2 DEF CursorInv
<1>4. table[i].v = Backend[k] /\ table[i] \in [k : Keys \cup {0}, v : Nat]
  BY <1>2, <1>3 DEF SlotInv, TypeOK
<1>5. table' = table
  <2>1. [table[i] EXCEPT !.v = Backend[k]] = table[i]
    BY <1>4
  <2>2. [table EXCEPT ![i] = table[i]] = table
    BY <1>2 DEF TypeOK
  <2>3. QED  BY <1>1, <2>1, <2>2
<1>6. Stored(table, k)
  BY <1>2, <1>3 DEF Stored
<1>7. Grows /\ SlotInv' /\ ProbePathUnbroken'
  BY <1>2, <1>5 DEF Grows, SlotInv, ProbePathUnbroken
<1>8. table' \in [Slots -> [k : Keys \cup {0}, v : Nat]]
  BY <1>2, <1>5 DEF TypeOK
<1>9. QED  BY <1>1, <1>2, <1>5, <1>6, <1>7, <1>8, AnswerStep

LEMMA ReturnStep ==
    ASSUME IInv, NEW t \in Lcores, Return(t)
    PROVE  IInv'
<1> USE DEF Return, shared
<1>1. TypeOK /\ LcoreInv(t)
  BY DEF IInv
<1>2. TypeOK'
  <2>1. pc' \in [Lcores -> {"idle", "find", "load", "apply", "ins_load",
                          "ins_cas", "ins_check", "ins_store", "done"}]
    BY <1>1 DEF TypeOK
  <2>2. args' \in [Lcores -> Batches \cup {<<>>}]
    BY <1>1 DEF TypeOK
  <2>3. 0 \in 0 .. MaxBurst
    BY BatchAssumption
  <2>4. args_head' \in [Lcores -> 0 .. MaxBurst] /\ applied' \in [Lcores -> 0 .. MaxBurst]
    BY <1>1, <2>3 DEF TypeOK
  <2>5. <<>> \in Seq(Results)
    OBVIOUS
  <2>6. results' \in [Lcores -> Seq(Results)]
    BY <1>1, <2>5, Zenon DEF TypeOK
  <2>7. QED  BY <1>1, <2>1, <2>2, <2>4, <2>6 DEF TypeOK
<1>3. \A u \in Lcores \ {t} : Untouched(u)
  BY <1>1 DEF TypeOK, Untouched
<1>4. /\ pc'[t] = "idle" /\ args'[t] = <<>> /\ args_head'[t] = 0
      /\ results'[t] = <<>> /\ applied'[t] = 0
  BY <1>1 DEF TypeOK
<1>5. Len(queue[t]) = 0
  <2>1. Len(results[t]) \in Nat /\ Len(queue[t]) \in Nat /\ args_head[t] \in Nat
    BY <1>1 DEF TypeOK
  <2>2. PICK n \in Nat, q \in Nat, h \in Nat :
           n = Len(results[t]) /\ q = Len(queue[t]) /\ h = args_head[t]
    BY <2>1
  <2>3. n + q + 0 = h /\ h <= n
    BY <1>1, <2>2 DEF LcoreInv, PhaseInv, TypeOK
  <2>4. q = 0
    BY <2>3
  <2>5. QED  BY <2>2, <2>4
<1>6. LcoreInv(t)'
  <2>1. PhaseInv(t)'
    <3>1. Len(queue'[t]) = 0 /\ Len(results'[t]) = 0 /\ Len(args'[t]) = 0 /\ QueueSize > 0
      BY <1>4, <1>5, BatchAssumption
    <3>2. QED  BY <1>2, <1>4, <3>1, BatchAssumption DEF PhaseInv, Inserting, TypeOK
  <2>2. QueueInv(t)' /\ ResultInv(t)' /\ AnswerInv(t)' /\ TrackInv(t)'
    BY <1>4, <1>5 DEF QueueInv, ResultInv, AnswerInv, TrackInv
  <2>3. ProbeInv(t)' /\ CursorInv(t)'
    BY <1>1, <1>4 DEF LcoreInv, ProbeInv, CursorInv, Inserting
  <2>4. QED  BY <2>1, <2>2, <2>3 DEF LcoreInv
<1>7. QED  BY <1>2, <1>3, <1>6, LocalStep

\* One step of the specification, split into the actions of dramblast.c.
LEMMA NextInvariant == IInv /\ [Next]_vars => IInv'
<1>1. ASSUME IInv, UNCHANGED vars  PROVE  IInv'
  <2>1. Grows /\ \A u \in Lcores : Untouched(u)
    BY <1>1 DEF vars, Grows, Untouched
  <2>2. TypeOK' /\ SlotInv' /\ ProbePathUnbroken'
    BY <1>1 DEF vars, IInv, TypeOK, SlotInv, ProbePathUnbroken
  <2>3. QED  BY <1>1, <2>1, <2>2, Frame DEF IInv
<1>2. ASSUME IInv, NEW t \in Lcores, Call(t) \/ Work(t)
      PROVE  IInv'
  <2>1. CASE Call(t)
    BY <1>2, <2>1, CallStep
  <2>2. CASE Probe(t)
    BY <1>2, <2>2, FillAndPopStep, LoadLaneStep, HitStep, GiveUpStep, MissStep,
       ReprobeStep DEF Probe
  <2>3. CASE AnswerFound(t) \/ AnswerFull(t)
    BY <1>2, <2>3, AnswerFoundStep, AnswerFullStep
  <2>4. CASE Insert(t)
    BY <1>2, <2>4, StartInsertStep, InsertLoadStep, ClaimStep, LoseClaimStep,
       InsertMatchStep, InsertNextStep, InsertFailStep, InsertStoreStep DEF Insert
  <2>5. CASE Return(t)
    BY <1>2, <2>5, ReturnStep
  <2>6. QED  BY <1>2, <2>1, <2>2, <2>3, <2>4, <2>5 DEF Work
<1>3. QED  BY <1>1, <1>2 DEF Next

-----------------------------------------------------------------------------
(* The theorems                                                             *)

\* The strengthened invariant holds in every reachable state of dramblast.c.
THEOREM Invariant == Spec => []IInv
BY InitInvariant, NextInvariant, PTL DEF Spec

\* The table, the queues, the results and the cursors of dramblast.c keep the
\* ranges that their C declarations and index masks promise.
THEOREM TypeCorrect == Spec => []TypeOK
<1>1. IInv => TypeOK
  BY DEF IInv
<1>2. QED  BY <1>1, Invariant, PTL

\* However the insertions of dramblast_insert_one interleave, every stored flow
\* is reachable by a probe from its home bucket and is stored once.
THEOREM ProbePathsStayUnbroken == Spec => []ProbePathUnbroken
<1>1. IInv => ProbePathUnbroken
  BY DEF IInv
<1>2. QED  BY <1>1, Invariant, PTL

\* The find queue never overflows, never underflows and is empty between calls
\* of dramblast_process_frames.
THEOREM QueuesAreDisciplined == Spec => []QueueDiscipline
<1>1. IInv => QueueDiscipline
  <2>1. SUFFICES ASSUME IInv, NEW t \in Lcores
        PROVE  /\ Len(queue[t]) < QueueSize
               /\ pc[t] = "find" => Len(queue[t]) + PushCount(t) > 0
               /\ pc[t] \notin {"find", "load"} => queue[t] = <<>>
    BY DEF QueueDiscipline
  <2>2. TypeOK /\ PhaseInv(t)
    BY <2>1 DEF IInv, LcoreInv
  <2>3. Len(queue[t]) < QueueSize
    BY <2>2 DEF PhaseInv
  <2>4. PICK q \in Nat, r \in Nat, h \in Nat, n \in Nat :
           /\ q = Len(queue[t]) /\ r = Len(results[t]) /\ h = args_head[t]
           /\ n = Len(args[t])
    <3>1. queue[t] \in Seq(QueueItems) /\ results[t] \in Seq(Results)
      BY <2>2 DEF TypeOK
    <3>2. args_head[t] \in Nat
      BY <2>2, BatchAssumption DEF TypeOK
    <3>3. args[t] \in Batches \cup {<<>>}
      BY <2>2 DEF TypeOK
    <3>4. args[t] \in Seq(Keys)
      BY <3>3, BatchAssumption, EmptySeq
    <3>5. Len(queue[t]) \in Nat /\ Len(results[t]) \in Nat /\ Len(args[t]) \in Nat
      BY <3>1, <3>4, LenProperties
    <3>6. QED  BY <3>2, <3>5
  <2>5. ASSUME pc[t] = "find"  PROVE  Len(queue[t]) + PushCount(t) > 0
    <3>1. r + q = h /\ r < n /\ h <= n /\ q < QueueSize
      BY <2>2, <2>4, <2>5 DEF PhaseInv, TypeOK
    <3>2. PushCount(t) = IF (QueueSize - 1) - q < n - h THEN (QueueSize - 1) - q ELSE n - h
      BY <2>4 DEF PushCount, Room
    <3>3. q + PushCount(t) > 0
      BY <3>1, <3>2, BatchAssumption
    <3>4. QED  BY <2>4, <3>3
  <2>6. ASSUME pc[t] \notin {"find", "load"}  PROVE  queue[t] = <<>>
    <3>1. pc[t] # "load" /\ pc[t] \in {"idle", "apply", "done"} \cup Inserting
      BY <2>2, <2>6 DEF TypeOK, Inserting
    <3>2. r + q = h /\ h <= n
      BY <2>2, <2>4, <3>1 DEF PhaseInv, TypeOK
    <3>3. n <= r
      <4>1. CASE pc[t] = "idle"
        <5>1. Len(args[t]) = 0
          BY <2>2, <4>1 DEF PhaseInv
        <5>2. QED  BY <2>4, <5>1
      <4>2. CASE pc[t] # "idle"
        <5>1. Len(results[t]) = Len(args[t])
          BY <2>2, <3>1, <4>2 DEF PhaseInv, TypeOK
        <5>2. QED  BY <2>4, <5>1
      <4>3. QED  BY <4>1, <4>2
    <3>4. q = 0
      BY <3>2, <3>3
    <3>5. queue[t] \in Seq(QueueItems) /\ Len(queue[t]) = 0
      BY <2>2, <2>4, <3>4 DEF TypeOK
    <3>6. QED  BY <3>5, EmptySeq
  <2>7. QED  BY <2>3, <2>5, <2>6
<1>2. QED  BY <1>1, Invariant, PTL

\* Whenever a lookup is answered with 0, every slot of its probe sequence up to
\* the last bucket belongs to another flow.
THEOREM RefusalsAreSubstantiated == Spec => []RefusalSubstantiated
<1>1. IInv => RefusalSubstantiated
  BY DEF IInv, LcoreInv, AnswerInv, AnswerOK, RefusalSubstantiated
<1>2. QED  BY <1>1, Invariant, PTL

\* Only a successful compare-and-swap changes the table: the second store of
\* dramblast_insert_one, "kv->v = v", writes what is already there.
LEMMA TableGrows == IInv /\ [Next]_vars => Grows
<1>1. ASSUME IInv, table' = table  PROVE  Grows
  BY <1>1 DEF Grows
<1>2. ASSUME IInv, NEW t \in Lcores, Call(t) \/ Work(t)
      PROVE  Grows
  <2>1. CASE Claim(t)
    BY <1>2, <2>1, ClaimStep
  <2>2. CASE InsertStore(t)
    BY <1>1, <1>2, <2>2, InsertStoreStep
  <2>3. CASE Call(t) \/ Probe(t)
    BY <1>1, <1>2, <2>3 DEF Call, Probe, FillAndPop, LoadLane, Hit, GiveUp, Miss,
       Reprobe, Resolve, shared
  <2>4. CASE AnswerFound(t) \/ AnswerFull(t) \/ Return(t)
    BY <1>1, <1>2, <2>4 DEF AnswerFound, AnswerFull, Return, shared
  <2>5. CASE StartInsert(t) \/ InsertLoad(t) \/ LoseClaim(t) \/ InsertMatch(t)
             \/ InsertNext(t) \/ InsertFail(t)
    BY <1>1, <1>2, <2>5 DEF StartInsert, InsertLoad, LoseClaim, InsertMatch,
       InsertNext, InsertFail, shared
  <2>6. QED  BY <1>2, <2>1, <2>2, <2>3, <2>4, <2>5 DEF Work, Insert
<1>3. QED  BY <1>1, <1>2 DEF Next, vars

\* Once a flow owns a slot of the table, no step of any lcore changes the slot.
THEOREM SlotsStayPermanent == Spec => SlotsArePermanent
<1>1. IInv /\ [Next]_vars =>
          [\A s \in Slots : table[s].k # 0 => table'[s] = table[s]]_vars
  BY TableGrows DEF Grows
<1>2. QED  BY <1>1, Invariant, PTL DEF Spec, SlotsArePermanent

\* A miss of a fully loaded bucket: had the key been stored when the probe
\* began, the load would have met it before, or together with, the hole.
LEMMA MissLemma ==
    ASSUME IInv, NEW t \in Lcores, Miss(t)
    PROVE  missed[t]
<1>1. Loaded(t) /\ KeyLanes(t) = {} /\ EmptyLanes(t) # {}
  BY DEF Miss
<1>2. CachelineInv(t) /\ DOMAIN cacheline[t] = LaneIdx
  BY <1>1, LoadedFacts
<1>3. PICK l \in LaneIdx : cacheline[t][l] = 0
  BY <1>1 DEF EmptyLanes
<1>4. \A m \in LaneIdx : cacheline[t][m] # item[t].k
  BY <1>1 DEF KeyLanes
<1>5. QED  BY <1>2, <1>3, <1>4 DEF CachelineInv

\* The step that appends an ABSENT result is a miss.
LEMMA AbsentStep ==
    ASSUME IInv, [Next]_vars, NEW u \in Lcores,
           Len(results'[u]) = Len(results[u]) + 1,
           results'[u][Len(results'[u])].status = "ABSENT"
    PROVE  missed[u]
<1>1. TypeOK
  BY DEF IInv
<1>2. results[u] \in Seq(Results) /\ Len(results[u]) \in Nat
  BY <1>1 DEF TypeOK
<1>3. results' # results
  BY <1>2
<1>4. PICK t \in Lcores : Call(t) \/ Work(t)
  BY <1>3 DEF Next, vars
<1>5. Hit(t) \/ GiveUp(t) \/ Miss(t) \/ Return(t)
  BY <1>3, <1>4 DEF Call, Work, Probe, FillAndPop, LoadLane, Reprobe, AnswerFound,
     AnswerFull, Answer, Insert, StartInsert, InsertLoad, Claim, LoseClaim,
     InsertMatch, InsertNext, InsertFail, InsertStore, find
<1>6. ~Return(t)
  <2>1. SUFFICES ASSUME Return(t)  PROVE FALSE
    OBVIOUS
  <2>2. results'[u] = IF u = t THEN <<>> ELSE results[u]
    BY <1>1, <2>1 DEF Return, TypeOK
  <2>3. CASE u = t
    <3>1. Len(results'[u]) = 0
      BY <2>2, <2>3
    <3>2. PICK n \in Nat : n = Len(results[u])
      BY <1>2
    <3>3. 0 = n + 1
      BY <3>1, <3>2
    <3>4. QED  BY <3>3
  <2>4. CASE u # t
    BY <1>2, <2>2, <2>4
  <2>5. QED  BY <2>3, <2>4
<1>7. ASSUME NEW status \in {"FOUND", "TABLE_FULL"}, NEW v, Resolve(t, status, v)
      PROVE  FALSE
  <2> DEFINE r == [v |-> v, id |-> item[t].id, status |-> status]
  <2>1. results'[u] = IF u = t THEN Append(results[u], r) ELSE results[u]
    BY <1>1, <1>7 DEF Resolve, TypeOK
  <2>2. u = t
    BY <1>2, <2>1
  <2>3. Append(results[u], r)[Len(results[u]) + 1] = r
    BY <1>2
  <2>4. results'[u][Len(results'[u])] = r
    BY <2>1, <2>2, <2>3
  <2>5. QED  BY <2>4
<1>8. ~Hit(t) /\ ~GiveUp(t)
  BY <1>7 DEF Hit, GiveUp
<1>9. Miss(t)
  BY <1>5, <1>6, <1>8
<1>10. u = t
  <2>1. results' = [results EXCEPT ![t] =
            Append(@, [v |-> 0, id |-> item[t].id, status |-> "ABSENT"])]
    BY <1>9 DEF Miss, Resolve
  <2>2. u # t => results'[u] = results[u]
    BY <1>1, <2>1 DEF TypeOK
  <2>3. QED  BY <1>2, <2>2
<1>11. QED  BY <1>9, <1>10, MissLemma

\* ABSENT is reported only for a key that was absent when its probe began,
\* whatever the other lcores inserted while the bucket was being read.
THEOREM MissesAreGenuine == Spec => MissIsGenuine
<1>1. IInv /\ [Next]_vars =>
          [\A t \in Lcores :
              /\ Len(results'[t]) = Len(results[t]) + 1
              /\ results'[t][Len(results'[t])].status = "ABSENT"
              => missed[t]]_vars
  BY AbsentStep
<1>2. QED  BY <1>1, Invariant, PTL DEF Spec, MissIsGenuine

\* When dramblast_process_frames returns, every entry of mac_addrs is 0 or the
\* backend that the table holds for that very flow.
THEOREM AnswersAreRight == Spec => []AnswersRight
<1>1. ASSUME IInv, NEW t \in Lcores, pc[t] = "done", NEW id \in DOMAIN args[t]
      PROVE  \/ ret[t][id] = 0
             \/ /\ ret[t][id] = Backend[args[t][id]]
                /\ \E s \in Slots : table[s] = [k |-> args[t][id], v |-> ret[t][id]]
  <2>1. TypeOK /\ LcoreInv(t) /\ SlotInv
    BY <1>1 DEF IInv
  <2>2. args[t] \in Seq(Keys) /\ id \in 1 .. Len(args[t]) /\ args[t][id] \in Keys
    BY <1>1, <2>1, BatchAssumption DEF LcoreInv, PhaseInv
  <2>3. PICK q \in Nat, r \in Nat, h \in Nat, n \in Nat :
           /\ q = Len(queue[t]) /\ r = Len(results[t]) /\ h = args_head[t]
           /\ n = Len(args[t])
    BY <2>1, <2>2 DEF TypeOK
  <2>4. r + q = h /\ h <= n /\ r = n /\ applied[t] = r
    BY <1>1, <2>1, <2>3 DEF LcoreInv, PhaseInv, TypeOK
  <2>5. q = 0 /\ h = n
    BY <2>4
  <2>6. PICK i \in 1 .. applied[t] : results[t][i].id = id
    BY <1>1, <2>1, <2>2, <2>3, <2>4, <2>5 DEF LcoreInv, TrackInv
  <2>7. AnswerOK(t, id)
    BY <2>1, <2>6 DEF LcoreInv, AnswerInv
  <2>8. ASSUME ret[t][id] # 0
        PROVE  \E s \in Slots : table[s] = [k |-> args[t][id], v |-> ret[t][id]]
    <3>1. ret[t][id] = Backend[args[t][id]] /\ args[t][id] # 0
      BY <2>2, <2>7, <2>8, FlowAssumption DEF AnswerOK
    <3>2. PICK s \in Slots : table[s].k = args[t][id]
      BY <2>7, <2>8 DEF AnswerOK, Stored
    <3>3. table[s] \in [k : Keys \cup {0}, v : Nat] /\ table[s].v = ret[t][id]
      BY <2>1, <3>1, <3>2 DEF TypeOK, SlotInv
    <3>4. QED  BY <3>2, <3>3
  <2>9. QED  BY <2>7, <2>8 DEF AnswerOK
<1>2. IInv => AnswersRight
  BY <1>1 DEF AnswersRight
<1>3. QED  BY <1>2, Invariant, PTL

-----------------------------------------------------------------------------
(* Lookups are conserved                                                    *)

\* The lookups of lcore t in a row: resolved ones, queued ones, the probed one.
Row(t) ==
    [p \in 1 .. args_head[t] |->
        IF p <= Len(results[t]) THEN results[t][p].id
        ELSE IF p <= Len(results[t]) + Len(queue[t])
               THEN queue[t][p - Len(results[t])].id
               ELSE item[t].id]

\* The row is as long as there are lookups.
LEMMA RowLength ==
    ASSUME IInv, NEW t \in Lcores
    PROVE  /\ Len(results[t]) \in Nat /\ Len(queue[t]) \in Nat /\ args_head[t] \in Nat
           /\ args_head[t] = Len(results[t]) + Len(queue[t])
                              + (IF pc[t] = "load" THEN 1 ELSE 0)
<1>1. TypeOK /\ PhaseInv(t) BY DEF IInv, LcoreInv
<1>2. Len(results[t]) \in Nat /\ Len(queue[t]) \in Nat /\ args_head[t] \in Nat
  BY <1>1 DEF TypeOK
<1>3. Len(results[t]) + Len(queue[t]) + (IF pc[t] = "load" THEN 1 ELSE 0) = args_head[t]
  BY <1>1 DEF PhaseInv
<1> QED BY <1>2, <1>3

\* Every lookup is somewhere in the row (TrackInv), and the row is as long as
\* there are lookups (PhaseInv): none is in it twice.
LEMMA RowInjective ==
    ASSUME IInv, NEW t \in Lcores
    PROVE  \A p, q \in 1 .. args_head[t] : Row(t)[p] = Row(t)[q] => p = q
<1>1. TypeOK /\ PhaseInv(t) /\ QueueInv(t) /\ ProbeInv(t) /\ ResultInv(t) /\ TrackInv(t)
  BY DEF IInv, LcoreInv
<1>2. PICK r \in Nat, c \in Nat, h \in Nat :
         r = Len(results[t]) /\ c = Len(queue[t]) /\ h = args_head[t]
  BY RowLength
<1>3. h = r + c + (IF pc[t] = "load" THEN 1 ELSE 0) BY <1>2, RowLength
<1> DEFINE f == Row(t)
           S == 1 .. h
<1>4. f = [p \in S |-> IF p <= r THEN results[t][p].id
                       ELSE IF p <= r + c THEN queue[t][p - r].id ELSE item[t].id]
  BY <1>2 DEF Row
<1>5. ASSUME NEW p \in S PROVE f[p] \in S
  <2>1. CASE p <= r
    <3>1. p \in 1 .. Len(results[t]) BY <1>2, <2>1
    <3>2. results[t][p].id \in 1 .. args_head[t] BY <1>1, <3>1 DEF ResultInv, ResultOK
    <3> QED BY <1>2, <1>4, <2>1, <3>2
  <2>2. CASE ~(p <= r) /\ p <= r + c
    <3>0. p - r \in 1 .. c BY <2>2
    <3>1. p - r \in 1 .. Len(queue[t]) BY <1>2, <3>0
    <3>2. queue[t][p - r].id \in 1 .. args_head[t] BY <1>1, <3>1 DEF QueueInv, LookupOK
    <3> QED BY <1>2, <1>4, <2>2, <3>2
  <2>3. CASE ~(p <= r) /\ ~(p <= r + c)
    <3>1. pc[t] = "load" BY <1>3, <2>3
    <3>2. item[t].id \in 1 .. args_head[t] BY <1>1, <3>1 DEF ProbeInv, LookupOK
    <3> QED BY <1>2, <1>4, <2>3, <3>2
  <2> QED BY <2>1, <2>2, <2>3
<1>6. ASSUME NEW id \in S PROVE \E p \in S : f[p] = id
  <2>1. \/ \E i \in 1 .. c : queue[t][i].id = id
        \/ pc[t] = "load" /\ item[t].id = id
        \/ \E i \in 1 .. r : results[t][i].id = id
    BY <1>1, <1>2 DEF TrackInv
  <2>2. ASSUME NEW i \in 1 .. c, queue[t][i].id = id PROVE \E p \in S : f[p] = id
    <3>1. r + i \in S /\ ~(r + i <= r) /\ r + i <= r + c /\ (r + i) - r = i BY <1>3
    <3>2. f[r + i] = queue[t][i].id BY <1>4, <3>1
    <3> QED BY <2>2, <3>1, <3>2
  <2>3. ASSUME pc[t] = "load", item[t].id = id PROVE \E p \in S : f[p] = id
    <3>1. h \in S /\ ~(h <= r) /\ ~(h <= r + c) BY <1>3, <2>3
    <3>2. f[h] = id BY <1>4, <2>3, <3>1
    <3> QED BY <3>1, <3>2
  <2>4. ASSUME NEW i \in 1 .. r, results[t][i].id = id PROVE \E p \in S : f[p] = id
    <3>1. i \in S /\ i <= r BY <1>3
    <3>2. f[i] = id BY <1>4, <2>4, <3>1
    <3> QED BY <3>1, <3>2
  <2> QED BY <2>1, <2>2, <2>3, <2>4
<1>7. f \in Surjection(S, S)
  <2>1. f \in [S -> S] BY <1>4, <1>5
  <2> HIDE DEF f, S
  <2> QED BY <1>6, <2>1, Zenon DEF Surjection
<1>8. IsFiniteSet(S) BY FS_Interval
<1>9. f \in Injection(S, S) BY <1>7, <1>8, FS_Surjection
<1>10. \A p, q \in S : f[p] = f[q] => p = q
  <2>1. DOMAIN f = S BY <1>4
  <2> HIDE DEF f, S
  <2> QED BY <1>9, <2>1, Zenon DEF Injection, IsInjective
<1> QED BY <1>2, <1>10

\* A lookup is in one place at most.
LEMMA IdsDistinct ==
    ASSUME IInv, NEW t \in Lcores
    PROVE  /\ \A i, j \in 1 .. Len(results[t]) :
                  results[t][i].id = results[t][j].id => i = j
           /\ \A i, j \in 1 .. Len(queue[t]) :
                  queue[t][i].id = queue[t][j].id => i = j
           /\ \A i \in 1 .. Len(results[t]), j \in 1 .. Len(queue[t]) :
                  results[t][i].id # queue[t][j].id
           /\ pc[t] = "load" =>
                 /\ \A i \in 1 .. Len(results[t]) : results[t][i].id # item[t].id
                 /\ \A i \in 1 .. Len(queue[t]) : queue[t][i].id # item[t].id
<1>1. TypeOK /\ PhaseInv(t) BY DEF IInv, LcoreInv
<1>2. PICK r \in Nat, c \in Nat, h \in Nat :
         r = Len(results[t]) /\ c = Len(queue[t]) /\ h = args_head[t]
  BY RowLength
<1>3. h = r + c + (IF pc[t] = "load" THEN 1 ELSE 0) BY <1>2, RowLength
<1> DEFINE f == Row(t)
<1>4. \A p, q \in 1 .. h : f[p] = f[q] => p = q BY <1>2, RowInjective
<1>5. ASSUME NEW i \in 1 .. r PROVE i \in 1 .. h /\ f[i] = results[t][i].id
  <2>1. i \in 1 .. h /\ i <= r BY <1>3
  <2> QED BY <1>2, <2>1 DEF Row
<1>6. ASSUME NEW i \in 1 .. c PROVE r + i \in 1 .. h /\ f[r + i] = queue[t][i].id
  <2>1. r + i \in 1 .. h /\ ~(r + i <= r) /\ r + i <= r + c /\ (r + i) - r = i BY <1>3
  <2> QED BY <1>2, <2>1 DEF Row
<1>7. pc[t] = "load" => h \in 1 .. h /\ f[h] = item[t].id
  <2> SUFFICES ASSUME pc[t] = "load" PROVE h \in 1 .. h /\ f[h] = item[t].id OBVIOUS
  <2>1. h \in 1 .. h /\ ~(h <= r) /\ ~(h <= r + c) BY <1>3
  <2> QED BY <1>2, <2>1 DEF Row
<1> HIDE DEF f
<1>8. \A i, j \in 1 .. r : results[t][i].id = results[t][j].id => i = j
  BY <1>4, <1>5
<1>9. \A i, j \in 1 .. c : queue[t][i].id = queue[t][j].id => i = j
  <2> TAKE i, j \in 1 .. c
  <2> HAVE queue[t][i].id = queue[t][j].id
  <2>1. r + i = r + j BY <1>4, <1>6
  <2> QED BY <2>1
<1>10. \A i \in 1 .. r, j \in 1 .. c : results[t][i].id # queue[t][j].id
  <2> TAKE i \in 1 .. r, j \in 1 .. c
  <2>1. i # r + j OBVIOUS
  <2> QED BY <1>4, <1>5, <1>6, <2>1
<1>11. ASSUME pc[t] = "load"
       PROVE  /\ \A i \in 1 .. r : results[t][i].id # item[t].id
              /\ \A i \in 1 .. c : queue[t][i].id # item[t].id
  <2>1. \A i \in 1 .. r : i # h BY <1>3, <1>11
  <2>2. \A i \in 1 .. c : r + i # h BY <1>3, <1>11
  <2> QED BY <1>4, <1>5, <1>6, <1>7, <1>11, <2>1, <2>2
<1> QED BY <1>2, <1>8, <1>9, <1>10, <1>11


\* No lookup of a batch is lost or resolved twice between the argument array,
\* the find queue, the probe and the results of dramblast_find_batch_sync.
THEOREM LookupsStayConserved == Spec => []LookupsConserved
<1>1. IInv => LookupsConserved
  <2> SUFFICES ASSUME IInv, NEW t \in Lcores, NEW id \in DOMAIN args[t]
               PROVE  Places(t, id) = IF id <= args_head[t] THEN 1 ELSE 0
    BY DEF LookupsConserved
  <2> DEFINE Q == {i \in 1 .. Len(queue[t]) : queue[t][i].id = id}
             P == IF pc[t] = "load" /\ item[t].id = id THEN 1 ELSE 0
             R == {i \in 1 .. Len(results[t]) : results[t][i].id = id}
  <2>1. TypeOK /\ PhaseInv(t) /\ QueueInv(t) /\ ProbeInv(t) /\ ResultInv(t) /\ TrackInv(t)
    BY DEF IInv, LcoreInv
  <2>2. DOMAIN queue[t] = 1 .. Len(queue[t]) /\ DOMAIN results[t] = 1 .. Len(results[t])
    BY <2>1 DEF TypeOK
  <2>3. Places(t, id) = Cardinality(Q) + P + Cardinality(R) BY <2>2 DEF Places
  <2>4. Cardinality({}) = 0 /\ \A x : Cardinality({x}) = 1 BY FS_EmptySet, FS_Singleton
  <2>5. args_head[t] \in Nat /\ id \in Nat /\ 1 <= id
    <3>1. args[t] \in Seq(Keys)
      <4>1. args[t] \in Batches \/ args[t] = <<>> BY <2>1 DEF TypeOK
      <4>2. <<>> \in Seq(Keys) OBVIOUS
      <4> QED BY <4>1, <4>2, BatchAssumption
    <3> QED BY <2>1, <3>1 DEF TypeOK
  <2>6. CASE id <= args_head[t]
    <3>1. id \in 1 .. args_head[t] BY <2>5, <2>6
    <3>2. CASE \E i \in 1 .. Len(queue[t]) : queue[t][i].id = id
      <4>1. PICK i \in 1 .. Len(queue[t]) : queue[t][i].id = id BY <3>2
      <4>2. Q = {i} BY <4>1, IdsDistinct
      <4>3. R = {} BY <4>1, IdsDistinct
      <4>4. P = 0 BY <4>1, IdsDistinct
      <4>5. Cardinality(Q) = 1 /\ Cardinality(R) = 0 BY <2>4, <4>2, <4>3
      <4> HIDE DEF Q, P, R
      <4> QED BY <2>3, <2>6, <4>4, <4>5
    <3>3. CASE pc[t] = "load" /\ item[t].id = id
      <4>1. Q = {} BY <3>3, IdsDistinct
      <4>2. R = {} BY <3>3, IdsDistinct
      <4>3. P = 1 BY <3>3
      <4>4. Cardinality(Q) = 0 /\ Cardinality(R) = 0 BY <2>4, <4>1, <4>2
      <4> HIDE DEF Q, P, R
      <4> QED BY <2>3, <2>6, <4>3, <4>4
    <3>4. CASE \E i \in 1 .. Len(results[t]) : results[t][i].id = id
      <4>1. PICK i \in 1 .. Len(results[t]) : results[t][i].id = id BY <3>4
      <4>2. R = {i} BY <4>1, IdsDistinct
      <4>3. Q = {} BY <4>1, IdsDistinct
      <4>4. P = 0 BY <4>1, IdsDistinct
      <4>5. Cardinality(Q) = 0 /\ Cardinality(R) = 1 BY <2>4, <4>2, <4>3
      <4> HIDE DEF Q, P, R
      <4> QED BY <2>3, <2>6, <4>4, <4>5
    <3> QED BY <2>1, <3>1, <3>2, <3>3, <3>4 DEF TrackInv
  <2>7. CASE ~(id <= args_head[t])
    <3>1. id \notin 1 .. args_head[t] BY <2>5, <2>7
    <3>2. Q = {} BY <2>1, <3>1 DEF QueueInv, LookupOK
    <3>3. R = {} BY <2>1, <3>1 DEF ResultInv, ResultOK
    <3>4. P = 0 BY <2>1, <3>1 DEF ProbeInv, LookupOK
    <3>5. Cardinality(Q) = 0 /\ Cardinality(R) = 0 BY <2>4, <3>2, <3>3
    <3> HIDE DEF Q, P, R
    <3> QED BY <2>3, <2>7, <3>4, <3>5
  <2> QED BY <2>6, <2>7
<1> QED BY <1>1, Invariant, PTL

-----------------------------------------------------------------------------
(* Dramblast implements FlowService                                         *)

\* Bound, for any table.
BoundIn(tb, k) ==
    IF Stored(tb, k) THEN tb[CHOOSE s \in Slots : tb[s].k = k].v ELSE 0

\* The binding of a flow is its backend once the flow owns a slot.
LEMMA BoundValue ==
    ASSUME NEW tb, NEW k \in Keys,
           \A s \in Slots : tb[s].k # 0 => tb[s].v = Backend[tb[s].k]
    PROVE  BoundIn(tb, k) = IF Stored(tb, k) THEN Backend[k] ELSE 0
<1>1. k # 0 BY FlowAssumption
<1>2. CASE Stored(tb, k)
  <2> DEFINE c == CHOOSE s \in Slots : tb[s].k = k
  <2>1. c \in Slots /\ tb[c].k = k BY <1>2 DEF Stored
  <2>2. tb[c].v = Backend[k] BY <1>1, <2>1
  <2> QED BY <1>2, <2>2 DEF BoundIn
<1>3. CASE ~Stored(tb, k) BY <1>3 DEF BoundIn
<1> QED BY <1>2, <1>3

LEMMA BoundNow ==
    ASSUME SlotInv, NEW k \in Keys
    PROVE  Bindings[k] = IF Stored(table, k) THEN Backend[k] ELSE 0
<1>1. Bindings[k] = BoundIn(table, k) BY DEF Bindings, Bound, BoundIn
<1>2. \A s \in Slots : table[s].k # 0 => table[s].v = Backend[table[s].k]
  BY DEF SlotInv
<1> QED BY <1>1, <1>2, BoundValue

LEMMA BoundNext ==
    ASSUME SlotInv', NEW k \in Keys
    PROVE  Bindings'[k] = IF Stored(table', k) THEN Backend[k] ELSE 0
<1>1. Bindings'[k] = BoundIn(table', k) BY DEF Bindings, Bound, BoundIn, Stored
<1>2. \A s \in Slots : table'[s].k # 0 => table'[s].v = Backend[table'[s].k]
  BY DEF SlotInv
<1> QED BY <1>1, <1>2, BoundValue

\* A flow that was passed over by a probe of D slots leaves D bound flows.
LEMMA PassedCount ==
    ASSUME IInv, NEW k \in Keys, NEW D \in 0 .. Capacity, Passed(table, k, D)
    PROVE  Cardinality({x \in Keys : Bindings[x] # 0}) >= D
<1> DEFINE T == {x \in Keys : Bindings[x] # 0}
           O == {s \in Slots : table[s].k # 0}
           f == [s \in O |-> table[s].k]
           at(d) == Wrap(Home[k] + (d - 1))
           g == [d \in 1 .. D |-> table[at(d)].k]
<1>1. TypeOK /\ SlotInv /\ ProbePathUnbroken BY DEF IInv
<1>2. Capacity \in Nat \ {0} BY BucketFits
<1>3. \A x \in Keys : x \in T <=> Stored(table, x) BY <1>1, BoundNow, FlowAssumption
<1>4. \A s \in O : table[s].k \in Keys BY <1>1 DEF TypeOK
<1>5. ASSUME NEW r \in O, NEW s \in O, table[r].k = table[s].k PROVE r = s
  <2> DEFINE h == Home[table[s].k]
  <2>1. h \in Slots BY <1>4, FlowAssumption, BucketFits
  <2>2. table[s].k # 0 /\ r \in Slots /\ s \in Slots OBVIOUS
  <2>3. Passed(table, table[s].k, Dist(h, s)) /\ Passed(table, table[s].k, Dist(h, r))
    BY <1>1, <1>5, <2>2 DEF ProbePathUnbroken
  <2>4. ~(Dist(h, r) < Dist(h, s)) /\ ~(Dist(h, s) < Dist(h, r))
    BY <1>5, <2>2, <2>3 DEF Passed
  <2>5. Dist(h, r) \in Int /\ Dist(h, s) \in Int BY <2>1, <2>2, DistFacts
  <2>6. Dist(h, r) = Dist(h, s) BY <2>4, <2>5
  <2> QED BY <2>1, <2>2, <2>6, DistFacts
<1>6. IsFiniteSet(T)
  <2>1. f \in [O -> T] BY <1>3, <1>4 DEF Stored
  <2>2. \A x \in T : \E s \in O : f[s] = x BY <1>3, FlowAssumption DEF Stored
  <2>3. IsFiniteSet(O)
    <3>1. IsFiniteSet(Slots) BY <1>2, FS_Interval DEF Slots
    <3> QED BY <3>1, FS_Subset
  <2>4. f \in Surjection(O, T)
    <3> HIDE DEF f, O, T
    <3> QED BY <2>1, <2>2, Zenon DEF Surjection
  <2> QED BY <2>3, <2>4, FS_Surjection
<1>7. Home[k] \in Slots BY FlowAssumption, BucketFits
<1>8. ASSUME NEW d \in 1 .. D PROVE at(d) \in Slots /\ Dist(Home[k], at(d)) = d - 1
  BY <1>2, <1>7 DEF Slots, Wrap, Dist
<1>9. ASSUME NEW d \in 1 .. D PROVE at(d) \in O /\ g[d] = table[at(d)].k
  <2>1. Dist(Home[k], at(d)) < D BY <1>2, <1>8
  <2>2. at(d) \in Slots BY <1>8
  <2> HIDE DEF at
  <2>3. table[at(d)].k # 0 BY <2>1, <2>2 DEF Passed
  <2> QED BY <2>2, <2>3
<1>10. g \in [1 .. D -> T]
  <2>1. ASSUME NEW d \in 1 .. D PROVE g[d] \in T
    <3> HIDE DEF at
    <3>1. g[d] \in Keys /\ Stored(table, g[d]) BY <1>4, <1>9 DEF Stored
    <3> QED BY <1>3, <3>1
  <2> QED BY <2>1
<1>11. ASSUME NEW d \in 1 .. D, NEW e \in 1 .. D, g[d] = g[e] PROVE d = e
  <2>1. at(d) = at(e)
    <3> HIDE DEF at
    <3>1. table[at(d)].k = table[at(e)].k BY <1>11
    <3> QED BY <1>5, <1>9, <3>1
  <2>2. Dist(Home[k], at(d)) = d - 1 /\ Dist(Home[k], at(e)) = e - 1 BY <1>8
  <2> HIDE DEF at
  <2>3. d - 1 = e - 1 BY <2>1, <2>2
  <2> QED BY <2>3
<1>12. g \in Injection(1 .. D, T)
  <2>1. \A d, e \in 1 .. D : g[d] = g[e] => d = e BY <1>11
  <2> HIDE DEF g, T
  <2>2. DOMAIN g = 1 .. D BY <1>10
  <2> QED BY <1>10, <2>1, <2>2, Zenon DEF Injection, IsInjective
<1>13. IsFiniteSet(1 .. D) /\ Cardinality(1 .. D) = D
  BY FS_Interval
<1>14. Cardinality(1 .. D) <= Cardinality(T) BY <1>6, <1>12, FS_Injection
<1>15. Cardinality(T) \in Nat BY <1>6, FS_CardinalityType
<1> QED BY <1>13, <1>14, <1>15

\* A step that answers nothing and leaves the table and the batches alone.
LEMMA Stutters ==
    ASSUME table' = table, args' = args,
           \A u \in Lcores : AnsweredIds(u)' = AnsweredIds(u), ret' = ret
    PROVE  UNCHANGED Service!vars
<1>1. Bindings' = Bindings BY DEF Bindings, Bound, Stored
<1>2. Answered' = Answered BY DEF Answered
<1> QED BY <1>1, <1>2 DEF Service!vars

\* What the abstract service sees of an answer: position Result(t).id, which
\* was still unanswered, gets the value v.
LEMMA Answers ==
    ASSUME IInv, NEW t \in Lcores, pc[t] \in {"apply"} \cup Inserting,
           NEW v, Answer(t, v)
    PROVE  /\ args' = args
           /\ Result(t).id \in Service!Unanswered(t)
           /\ args[t][Result(t).id] = CurrentKey(t)
           /\ Service!Record(t, Result(t).id, v)
<1> DEFINE id == Result(t).id
           a == applied[t]
<1>1. TypeOK /\ PhaseInv(t) /\ ResultInv(t) BY DEF IInv, LcoreInv
<1>2. /\ a + 1 \in 1 .. Len(results[t]) /\ id \in 1 .. args_head[t]
      /\ Result(t) \in Results
  BY <1>1, CurrentFacts
<1>3. /\ ret' = [ret EXCEPT ![t] = [ret[t] EXCEPT ![id] = v]]
      /\ applied' = [applied EXCEPT ![t] = a + 1]
      /\ args' = args /\ results' = results
  BY DEF Answer, find
<1>4. id = results[t][a + 1].id BY DEF Result
<1>5. a \in Nat /\ Len(results[t]) \in Nat BY <1>1 DEF TypeOK
<1>6. id \in DOMAIN args[t] BY <1>1, <1>2, BatchKeys
<1>7. id \notin AnsweredIds(t)
  <2> SUFFICES ASSUME NEW i \in 1 .. a, results[t][i].id = id PROVE FALSE
    BY DEF AnsweredIds
  <2>1. i \in 1 .. Len(results[t]) /\ i # a + 1 BY <1>2, <1>5
  <2> QED BY <1>2, <1>4, <2>1, IdsDistinct
<1>8. id \in 1 .. MaxBurst /\ ret \in [Lcores -> [1 .. MaxBurst -> Nat]]
      /\ applied \in [Lcores -> 0 .. MaxBurst]
  BY <1>1, <1>2 DEF Results, TypeOK
<1> HIDE DEF id
<1>9. AnsweredIds(t)' = AnsweredIds(t) \cup {id}
  <2>1. applied'[t] = a + 1 BY <1>3, <1>8
  <2>2. 1 .. a + 1 = (1 .. a) \cup {a + 1} BY <1>5
  <2> QED BY <1>3, <1>4, <2>1, <2>2 DEF AnsweredIds
<1>10. \A u \in Lcores \ {t} : AnsweredIds(u)' = AnsweredIds(u) /\ ret'[u] = ret[u]
  BY <1>3, <1>8 DEF AnsweredIds
<1>11. AnsweredIds(t) \subseteq 1 .. MaxBurst
  <2>1. \A i \in 1 .. a : results[t][i] \in Results BY <1>1, <1>2, <1>5 DEF TypeOK
  <2> QED BY <2>1 DEF AnsweredIds, Results
<1>12. \A j \in AnsweredIds(t) \cup {id} : ret'[t][j] = IF j = id THEN v ELSE ret[t][j]
  BY <1>3, <1>8, <1>11
<1>13. DOMAIN Answered[t] = AnsweredIds(t) /\ \A j \in AnsweredIds(t) : Answered[t][j] = ret[t][j]
  BY DEF Answered
<1> DEFINE new == [j \in DOMAIN Answered[t] \cup {id} |->
                      IF j = id THEN v ELSE Answered[t][j]]
<1>14. Answered'[t] = new
  <2>1. Answered'[t] = [j \in AnsweredIds(t) \cup {id} |-> ret'[t][j]]
    BY <1>9 DEF Answered
  <2>2. new = [j \in AnsweredIds(t) \cup {id} |-> IF j = id THEN v ELSE Answered[t][j]]
    BY <1>13
  <2>3. \A j \in AnsweredIds(t) \cup {id} : ret'[t][j] = IF j = id THEN v ELSE Answered[t][j]
    BY <1>12, <1>13
  <2> QED BY <2>1, <2>2, <2>3, Zenon
<1>15. \A u \in Lcores \ {t} : Answered'[u] = Answered[u]
  BY <1>10 DEF Answered
<1>16. Answered' = [Answered EXCEPT ![t] = new]
  <2> HIDE DEF new
  <2>1. \A u \in Lcores : Answered'[u] = [Answered EXCEPT ![t] = new][u]
    BY <1>14, <1>15 DEF Answered
  <2>2. DOMAIN Answered' = Lcores /\ DOMAIN Answered = Lcores BY DEF Answered
  <2> QED BY <2>1, <2>2 DEF Answered
<1>17. Service!Record(t, id, v) BY <1>16 DEF Service!Record
<1>18. id \in Service!Unanswered(t) BY <1>6, <1>7, <1>13 DEF Service!Unanswered
<1>19. args[t][id] = CurrentKey(t) BY DEF CurrentKey, id
<1> QED BY <1>3, <1>17, <1>18, <1>19 DEF id

\* Handing over a batch submits it.
LEMMA CallRefines ==
    ASSUME IInv, NEW t \in Lcores, Call(t)
    PROVE  Service!Next
<1>1. TypeOK /\ PhaseInv(t) BY DEF IInv, LcoreInv
<1>2. args[t] = <<>> BY <1>1 DEF Call, PhaseInv
<1>3. \E b \in Batches : args' = [args EXCEPT ![t] = b] BY DEF Call
<1>4. table' = table /\ results' = results /\ applied' = applied /\ ret' = ret
  BY DEF Call, shared, find, apply
<1>5. Bindings' = Bindings BY <1>4 DEF Bindings, Bound, Stored
<1>6. Answered' = Answered BY <1>4 DEF Answered, AnsweredIds
<1>7. Service!Submit(t) BY <1>2, <1>3, <1>5, <1>6 DEF Service!Submit
<1> QED BY <1>7 DEF Service!Next

\* A lookup that found its flow, and an insertion that met it, answer with the
\* binding.
LEMMA FoundRefines ==
    ASSUME IInv, IInv', NEW t \in Lcores, AnswerFound(t) \/ InsertStore(t)
    PROVE  Service!Next
<1> DEFINE k == CurrentKey(t)
           id == Result(t).id
<1>1. pc[t] \in {"apply"} \cup Inserting BY DEF AnswerFound, InsertStore, Inserting
<1>2. /\ TypeOK /\ PhaseInv(t) /\ ResultInv(t) /\ CursorInv(t) /\ SlotInv
      /\ k \in Keys /\ Backend[k] \in Nat \ {0} /\ cursor[t].idx \in Slots
  BY <1>1, InsertFacts
<1>3. table' = table BY InsertStoreStep DEF AnswerFound, shared
<1>4. Stored(table, k) /\ Answer(t, Backend[k])
  <2>1. CASE AnswerFound(t)
    <3>1. ResultOK(t, Result(t)) BY <1>1, <1>2, CurrentFacts
    <3> QED BY <2>1, <3>1 DEF AnswerFound, ResultOK, CurrentKey
  <2>2. CASE InsertStore(t)
    <3>1. table[cursor[t].idx].k = k BY <1>2, <2>2 DEF InsertStore, CursorInv
    <3> QED BY <1>2, <2>2, <3>1 DEF InsertStore, Stored
  <2> QED BY <2>1, <2>2
<1>5. Bindings[k] = Backend[k] BY <1>2, <1>4, BoundNow
<1>6. Bindings' = Bindings BY <1>3 DEF Bindings, Bound, Stored
<1>7. /\ args' = args /\ id \in Service!Unanswered(t) /\ args[t][id] = k
      /\ Service!Record(t, id, Backend[k])
  BY <1>1, <1>4, Answers
<1>8. Service!Lookup(t, id)
  <2> HIDE DEF k, id
  <2> QED BY <1>2, <1>5, <1>6, <1>7 DEF Service!Lookup
<1> QED BY <1>7, <1>8 DEF Service!Next

\* A successful compare-and-swap binds the flow.
LEMMA ClaimRefines ==
    ASSUME IInv, IInv', NEW t \in Lcores, Claim(t)
    PROVE  Service!Next
<1> DEFINE k == CurrentKey(t)
           id == Result(t).id
           i == cursor[t].idx
<1>1. pc[t] = "ins_cas" /\ pc[t] \in {"apply"} \cup Inserting BY DEF Claim, Inserting
<1>2. /\ TypeOK /\ CursorInv(t) /\ SlotInv /\ SlotInv' /\ ProbePathUnbroken
      /\ k \in Keys /\ k # 0 /\ Home[k] \in Slots /\ Backend[k] \in Nat \ {0}
      /\ i \in Slots /\ Cell(t) = table[i]
  BY <1>1, InsertFacts DEF IInv
<1>3. /\ table' = [table EXCEPT ![i] = [k |-> k, v |-> Backend[k]]]
      /\ table[i].k = 0 /\ Answer(t, Backend[k])
  BY <1>2 DEF Claim, EmptyKV
<1>4. table'[i].k = k /\ \A s \in Slots \ {i} : table'[s] = table[s]
  BY <1>2, <1>3 DEF TypeOK
<1>5. Stored(table', k) BY <1>2, <1>4 DEF Stored
<1>6. ~Stored(table, k)
  <2> SUFFICES ASSUME NEW s \in Slots, table[s].k = k PROVE FALSE BY DEF Stored
  <2>1. /\ cursor[t].count = Dist(Home[k], i) + 1
        /\ Passed(table, k, cursor[t].count - 1)
    BY <1>1, <1>2 DEF CursorInv
  <2>2. Dist(Home[k], i) \in Int /\ Dist(Home[k], s) \in Int BY <1>2, DistFacts
  <2>3. ~(Dist(Home[k], s) < Dist(Home[k], i))
    <3>1. cursor[t].count - 1 = Dist(Home[k], i) BY <2>1, <2>2
    <3> QED BY <2>1, <3>1 DEF Passed
  <2>4. ~(Dist(Home[k], i) < Dist(Home[k], s))
    <3>1. Passed(table, k, Dist(Home[k], s)) BY <1>2 DEF ProbePathUnbroken
    <3> QED BY <1>2, <1>3, <3>1 DEF Passed
  <2>5. Dist(Home[k], i) = Dist(Home[k], s) BY <2>2, <2>3, <2>4
  <2>6. s = i BY <1>2, <2>5, DistFacts
  <2> QED BY <1>2, <1>3, <2>6
<1>7. ASSUME NEW x \in Keys \ {k} PROVE Stored(table', x) <=> Stored(table, x)
  BY <1>2, <1>3, <1>4, FlowAssumption DEF Stored
<1>8. Bindings[k] = 0 /\ Bindings'[k] = Backend[k] BY <1>2, <1>5, <1>6, BoundNow, BoundNext
<1>9. \A x \in Keys \ {k} : Bindings'[x] = Bindings[x]
  BY <1>2, <1>7, BoundNow, BoundNext
<1>10. /\ args' = args /\ id \in Service!Unanswered(t) /\ args[t][id] = k
       /\ Service!Record(t, id, Backend[k])
  BY <1>1, <1>3, Answers
<1>11. DOMAIN Bindings = Keys /\ Bindings = [x \in Keys |-> Bindings[x]]
       /\ Bindings' = [x \in Keys |-> Bindings'[x]]
  BY DEF Bindings
<1> HIDE DEF k, id
<1>12. Bindings' = [Bindings EXCEPT ![k] = Backend[k]] BY <1>8, <1>9, <1>11
<1>13. Service!Bind(t, id) BY <1>8, <1>10, <1>12 DEF Service!Bind
<1> QED BY <1>10, <1>13 DEF Service!Next

\* "giving up on a full table": all but one bucket is taken.
LEMMA RefusalRefines ==
    ASSUME IInv, IInv', NEW t \in Lcores, AnswerFull(t) \/ InsertFail(t)
    PROVE  Service!Next
<1> DEFINE k == CurrentKey(t)
           id == Result(t).id
<1>1. pc[t] \in {"apply"} \cup Inserting /\ table' = table /\ Answer(t, 0)
  BY DEF AnswerFull, InsertFail, Inserting, shared
<1>2. /\ TypeOK /\ PhaseInv(t) /\ ResultInv(t) /\ CursorInv(t)
      /\ k \in Keys /\ Home[k] \in Slots /\ cursor[t].count \in 0 .. Capacity
  BY <1>1, InsertFacts
<1>3. Passed(table, k, Capacity - Lanes)
  <2>1. CASE AnswerFull(t)
    BY <1>1, <1>2, <2>1, CurrentFacts DEF AnswerFull, ResultOK, CurrentKey
  <2>2. CASE InsertFail(t)
    <3>1. Passed(table, k, cursor[t].count - 1) /\ cursor[t].count >= Capacity
      BY <1>2, <2>2 DEF InsertFail, CursorInv
    <3>2. Capacity - Lanes <= cursor[t].count - 1 BY <1>2, <3>1, BucketFits
    <3>3. \A s \in Slots : Dist(Home[k], s) \in Int BY <1>2, DistFacts
    <3> QED BY <1>2, <3>1, <3>2, <3>3, BucketFits DEF Passed
  <2> QED BY <2>1, <2>2
<1>4. Capacity - Lanes \in 0 .. Capacity BY BucketFits
<1>5. Cardinality({x \in Keys : Bindings[x] # 0}) >= Capacity - Lanes
  BY <1>2, <1>3, <1>4, PassedCount
<1>6. Service!Cardinality(Service!BoundFlows) >= Capacity - Lanes
  <2>1. Service!BoundFlows = {x \in Keys : Bindings[x] # 0} BY DEF Service!BoundFlows
  <2>2. \A S : Service!Cardinality(S) = Cardinality(S)
    BY Zenon DEF Service!Cardinality, Cardinality
  <2> QED BY <1>5, <2>1, <2>2
<1>7. Bindings' = Bindings BY <1>1 DEF Bindings, Bound, Stored
<1>8. args' = args /\ id \in Service!Unanswered(t) /\ Service!Record(t, id, 0)
  BY <1>1, Answers
<1>9. Service!Refuse(t, id) BY <1>6, <1>7, <1>8 DEF Service!Refuse
<1> QED BY <1>8, <1>9 DEF Service!Next

\* When the call returns, every position has its answer.
LEMMA ReturnRefines ==
    ASSUME IInv, NEW t \in Lcores, Return(t)
    PROVE  Service!Next
<1>1. TypeOK /\ PhaseInv(t) /\ TrackInv(t) /\ ProbeInv(t) BY DEF IInv, LcoreInv
<1>2. /\ pc[t] = "done" /\ table' = table /\ ret' = ret
      /\ args' = [args EXCEPT ![t] = <<>>]
      /\ results' = [results EXCEPT ![t] = <<>>]
      /\ applied' = [applied EXCEPT ![t] = 0]
  BY DEF Return, shared
<1>3. args[t] \in Batches /\ args[t] # <<>> /\ args[t] \in Seq(Keys)
  BY <1>1, <1>2, BatchAssumption DEF PhaseInv
<1>4. Len(results[t]) = Len(args[t]) /\ applied[t] = Len(results[t])
  BY <1>1, <1>2 DEF PhaseInv
<1>5. args_head[t] = Len(args[t]) /\ Len(queue[t]) = 0
  <2>0. /\ Len(results[t]) \in Nat /\ Len(queue[t]) \in Nat
        /\ args_head[t] \in Nat /\ Len(args[t]) \in Nat
    <3>1. Len(args[t]) \in Nat BY <1>3
    <3> QED BY <3>1, RowLength
  <2>1. PICK r \in Nat, c \in Nat, h \in Nat, n \in Nat :
           r = Len(results[t]) /\ c = Len(queue[t]) /\ h = args_head[t] /\ n = Len(args[t])
    BY <2>0
  <2>2. h = r + c + 0 /\ h <= n /\ r = n
    BY <1>1, <1>2, <1>4, <2>1, RowLength DEF PhaseInv
  <2>3. c = 0 /\ h = n BY <2>2
  <2> QED BY <2>1, <2>3
<1>6. ASSUME NEW id \in DOMAIN args[t] PROVE id \in AnsweredIds(t)
  <2>1. id \in 1 .. args_head[t] BY <1>3, <1>5
  <2>2. \E i \in 1 .. Len(results[t]) : results[t][i].id = id
    BY <1>1, <1>2, <1>5, <2>1 DEF TrackInv
  <2> QED BY <1>4, <2>2 DEF AnsweredIds
<1>7. Service!Unanswered(t) = {}
  <2>1. DOMAIN Answered[t] = AnsweredIds(t) BY DEF Answered
  <2> QED BY <1>6, <2>1 DEF Service!Unanswered
<1>8. Bindings' = Bindings BY <1>2 DEF Bindings, Bound, Stored
<1>9. Answered' = [Answered EXCEPT ![t] = <<>>]
  <2>1. AnsweredIds(t)' = {} BY <1>1, <1>2 DEF AnsweredIds, TypeOK
  <2>2. Answered'[t] = <<>>
    <3>1. Answered'[t] = [j \in {} |-> ret'[t][j]] BY <2>1 DEF Answered
    <3> QED BY <3>1
  <2>3. \A u \in Lcores \ {t} : AnsweredIds(u)' = AnsweredIds(u)
    BY <1>1, <1>2 DEF AnsweredIds, TypeOK
  <2>4. \A u \in Lcores \ {t} : Answered'[u] = Answered[u] BY <1>2, <2>3 DEF Answered
  <2>5. \A u \in Lcores : Answered'[u] = [Answered EXCEPT ![t] = <<>>][u]
    BY <2>2, <2>4 DEF Answered
  <2> QED BY <2>5 DEF Answered
<1>10. Service!Return(t)
  BY <1>2, <1>3, <1>7, <1>8, <1>9 DEF Service!Return
<1> QED BY <1>10 DEF Service!Next

\* Probes, re-queued lookups and the inner steps of an insertion answer nothing.
LEMMA SilentRefines ==
    ASSUME IInv, NEW t \in Lcores,
           \/ Probe(t) \/ StartInsert(t) \/ InsertLoad(t) \/ LoseClaim(t)
           \/ InsertMatch(t) \/ InsertNext(t)
    PROVE  UNCHANGED Service!vars
<1>1. TypeOK /\ PhaseInv(t) BY DEF IInv, LcoreInv
<1>2. table' = table /\ args' = args /\ applied' = applied /\ ret' = ret
  BY DEF Probe, FillAndPop, LoadLane, Hit, GiveUp, Miss, Reprobe, Resolve, StartInsert,
         InsertLoad, LoseClaim, InsertMatch, InsertNext, shared, find, apply
<1>3. \/ results' = results
      \/ pc[t] = "load" /\ \A u \in Lcores \ {t} : results'[u] = results[u]
  <2>1. CASE Probe(t)
    BY <1>1, <2>1 DEF Probe, FillAndPop, LoadLane, Hit, GiveUp, Miss, Reprobe, Resolve,
                      Loaded, TypeOK
  <2>2. CASE ~Probe(t)
    BY <2>2 DEF StartInsert, InsertLoad, LoseClaim, InsertMatch, InsertNext, find
  <2> QED BY <2>1, <2>2
<1>4. pc[t] = "load" => applied[t] = 0 BY <1>1 DEF PhaseInv
<1>5. ASSUME NEW u \in Lcores PROVE AnsweredIds(u)' = AnsweredIds(u)
  BY <1>2, <1>3, <1>4 DEF AnsweredIds
<1> QED BY <1>2, <1>5, Stutters

\* dramblast.c implements the flow service: every answer is a binding that
\* exists at that moment or a refusal with all but one bucket taken.
THEOREM DramblastIsFlowService == Spec => ImplementsFlowService
<1>1. Init => Service!Init
  <2> SUFFICES ASSUME Init PROVE Service!Init OBVIOUS
  <2>1. \A k \in Keys : ~Stored(table, k)
    BY FlowAssumption DEF Init, Stored, EmptyKV
  <2>2. Bindings = [k \in Keys |-> 0] BY <2>1 DEF Bindings, Bound
  <2>3. \A t \in Lcores : AnsweredIds(t) = {} BY DEF Init, AnsweredIds
  <2>4. \A t \in Lcores : [id \in AnsweredIds(t) |-> ret[t][id]] = <<>> BY <2>3
  <2>5. Answered = [t \in Lcores |-> <<>>] BY <2>4 DEF Answered
  <2> QED BY <2>2, <2>5 DEF Init, Service!Init
<1>2. IInv /\ IInv' /\ [Next]_vars => [Service!Next]_(Service!vars)
  <2> SUFFICES ASSUME IInv, IInv', [Next]_vars PROVE [Service!Next]_(Service!vars)
    OBVIOUS
  <2>1. ASSUME NEW t \in Lcores, Call(t) \/ Work(t)
        PROVE  [Service!Next]_(Service!vars)
    BY <2>1, CallRefines, ClaimRefines, FoundRefines, RefusalRefines,
       ReturnRefines, SilentRefines DEF Work, Insert
  <2>2. CASE UNCHANGED vars
    BY <2>2 DEF vars, Service!vars, Bindings, Answered, AnsweredIds, Bound, Stored
  <2> QED BY <2>1, <2>2 DEF Next
<1> QED BY <1>1, <1>2, Invariant, PTL DEF Spec, ImplementsFlowService, Service!Spec
=============================================================================
