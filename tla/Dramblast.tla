----------------------------- MODULE Dramblast -----------------------------
(***************************************************************************)
(* The dramblast connection table (l2fwd/libsashstore/dramblast.c): one    *)
(* open-addressing table shared by all worker lcores without locks.        *)
(*                                                                         *)
(* dramblast_process_frames first looks up a whole batch                   *)
(* (dramblast_find_batch_sync): lookups go through a bounded queue of the  *)
(* lcore, each probe loads one bucket (a cache line of Lanes slots) and    *)
(* either resolves the lookup or puts it back for the next bucket.  It     *)
(* then walks the results and inserts the flows that were absent, slot by  *)
(* slot, with a 16-byte compare-and-swap (dramblast_insert_one).           *)
(*                                                                         *)
(* A step is at most one access to shared memory: the 64-byte vector load  *)
(* is not atomic, so its lanes are read one by one in any order.  Steps    *)
(* that touch only the lcore's own state are merged with the next or the   *)
(* previous access.  Positions in a batch (arg->id) count from 1.          *)
(***************************************************************************)
EXTENDS Integers, FiniteSets, Sequences

CONSTANTS Lcores,     \* worker lcores; each has its own find queue
          Keys,       \* flow hashes (main.c hands over only hash > 0)
          Lanes,      \* slots per bucket (4: DRAMBLAST_BUCKET_IDX_MASK)
          Buckets,    \* ht->len / Lanes; ht->len is a power of two
          QueueSize,  \* DRAMBLAST_FIND_QUEUE_SIZE
          MaxBurst,   \* MAX_PKT_BURST, the length of mac_addrs
          Home,       \* dramblast_hash: the first slot of the home bucket
          Backend,    \* dramblast_backends[k % TABLE_SIZE]
          Batches,    \* the batches the forwarding loop may hand over
          Garbage     \* what the uninitialised mac_addrs may hold

\* ht->len, the number of slots
Capacity == Lanes * Buckets

Slots == 0 .. Capacity - 1
LaneIdx == 0 .. Lanes - 1
BucketStarts == {Lanes * b : b \in 0 .. Buckets - 1}

ASSUME TableAssumption ==
    /\ Lanes \in Nat \ {0}
    /\ Buckets \in Nat \ {0}

ASSUME FlowAssumption ==
    /\ Keys \subseteq Nat \ {0}
    /\ Home \in [Keys -> BucketStarts]
    /\ Backend \in [Keys -> Nat \ {0}]

ASSUME BatchAssumption ==
    /\ QueueSize \in Nat \ {0, 1}
    /\ MaxBurst \in Nat
    /\ Batches \subseteq Seq(Keys)
    /\ \A b \in Batches : Len(b) \in 1 .. MaxBurst
    /\ Garbage \subseteq Nat

VARIABLES
    table,      \* ht->table: slot -> [k, v]; k = 0 marks an empty slot
    pc,         \* where each lcore is in dramblast_process_frames
    args,       \* args[t]: the keys of the batch
    args_head,  \* args[t][1 .. args_head[t]] have been pushed
    queue,      \* the lcore's find queue, oldest item first
    item,       \* the queue item being probed
    cacheline,  \* the lanes of its bucket that the vector load has read
    results,    \* results[0 .. result_head - 1]
    applied,    \* results already turned into answers
    cursor,     \* idx and count of dramblast_insert_one
    ret,        \* mac_addrs of the forwarding loop; survives the call
    missed      \* history: was the probed key absent when its item was popped?

shared == <<table>>
find == <<args_head, queue, item, cacheline, results, missed>>
apply == <<applied, cursor, ret>>
vars == <<table, pc, args, args_head, queue, item, cacheline, results,
          applied, cursor, ret, missed>>

EmptyKV == [k |-> 0, v |-> 0]
NoItem == [k |-> 0, idx |-> 0, visit_count |-> 0, id |-> 0]
NoCursor == [idx |-> 0, count |-> 0]

\* Table tb holds flow k.
Stored(tb, k) == \E s \in Slots : tb[s].k = k

-----------------------------------------------------------------------------
(* Index arithmetic: the masks "& (len - 1)" and "& ~0x3".                 *)

Wrap(i) == IF i >= Capacity THEN i - Capacity ELSE i
NextBucket(i) == Wrap(i + Lanes)
\* Mutant: the slot index is not masked.
NextSlotUnmasked(i) == i + 1

NextSlot(i) == Wrap(i + 1)

-----------------------------------------------------------------------------
Init ==
    /\ table = [s \in Slots |-> EmptyKV]
    /\ pc = [t \in Lcores |-> "idle"]
    /\ args = [t \in Lcores |-> <<>>]
    /\ args_head = [t \in Lcores |-> 0]
    /\ queue = [t \in Lcores |-> <<>>]
    /\ item = [t \in Lcores |-> NoItem]
    /\ cacheline = [t \in Lcores |-> <<>>]
    /\ results = [t \in Lcores |-> <<>>]
    /\ applied = [t \in Lcores |-> 0]
    /\ cursor = [t \in Lcores |-> NoCursor]
    /\ ret \in [Lcores -> [1 .. MaxBurst -> Garbage]]
    /\ missed = [t \in Lcores |-> FALSE]

\* The forwarding loop hands over the flow hashes of one RX burst.
Call(t) ==
    /\ pc[t] = "idle"
    /\ \E b \in Batches : args' = [args EXCEPT ![t] = b]
    /\ pc' = [pc EXCEPT ![t] = "find"]
    /\ UNCHANGED <<shared, find, apply>>

-----------------------------------------------------------------------------
(* dramblast_find_batch_sync                                               *)

\* Mutant: the queue is filled to its last entry.
RoomForOneMore(t) == QueueSize - Len(queue[t])

\* Items that fit: the queue holds at most QueueSize - 1.
Room(t) == (QueueSize - 1) - Len(queue[t])

PushCount(t) ==
    LET left == Len(args[t]) - args_head[t]
    IN  IF Room(t) < left THEN Room(t) ELSE left

\* The entry dramblast_push_queue writes.
QueueItem(idx, k, visit_count, id) ==
    [k |-> k, idx |-> idx, visit_count |-> visit_count, id |-> id]
NewItem(k, id) == QueueItem(Home[k], k, 0, id)

Filled(t) ==
    queue[t] \o [i \in 1 .. PushCount(t) |->
                    NewItem(args[t][args_head[t] + i], args_head[t] + i)]

\* Push as many arguments as fit, then pop the oldest item.
FillAndPop(t) ==
    /\ pc[t] = "find"
    /\ args_head' = [args_head EXCEPT ![t] = @ + PushCount(t)]
    /\ item' = [item EXCEPT ![t] = Head(Filled(t))]
    /\ queue' = [queue EXCEPT ![t] = Tail(Filled(t))]
    /\ missed' = [missed EXCEPT ![t] = ~Stored(table, Head(Filled(t)).k)]
    /\ pc' = [pc EXCEPT ![t] = "load"]
    /\ UNCHANGED <<shared, args, cacheline, results, apply>>

\* _mm512_load_si512 reads one more lane of the bucket.
LoadLane(t, l) ==
    /\ pc[t] = "load"
    /\ l \notin DOMAIN cacheline[t]
    /\ cacheline' = [cacheline EXCEPT ![t] =
                        [m \in DOMAIN cacheline[t] \cup {l} |->
                            IF m = l THEN table[item[t].idx + l].k
                                     ELSE cacheline[t][m]]]
    /\ UNCHANGED <<shared, pc, args, args_head, queue, item, results, missed,
                   apply>>

Loaded(t) == pc[t] = "load" /\ DOMAIN cacheline[t] = LaneIdx

\* Mutant: the SIMD mask selects the value lanes.
ValueLanes(t) == {l \in LaneIdx : table[item[t].idx + l].v = item[t].k}

\* key_cmp and ept_cmp, as sets of lanes.
KeyLanes(t) == {l \in LaneIdx : cacheline[t][l] = item[t].k}
EmptyLanes(t) == {l \in LaneIdx : cacheline[t][l] = 0}

\* Mutant: the probe stops one bucket early.
BoundReachedEarly(count) == count + 2 * Lanes >= Capacity

\* The probe bound, tested after the bucket has been counted.
BoundReached(count) == count + Lanes >= Capacity

\* The probe is over: item, its cache line and the history bit are dead.
EndProbe(t) ==
    /\ item' = [item EXCEPT ![t] = NoItem]
    /\ cacheline' = [cacheline EXCEPT ![t] = <<>>]
    /\ missed' = [missed EXCEPT ![t] = FALSE]

\* Append a result; the loop ends with the last one.
Resolve(t, status, v) ==
    /\ results' = [results EXCEPT ![t] =
                      Append(@, [v |-> v, id |-> item[t].id, status |-> status])]
    /\ pc' = [pc EXCEPT ![t] = IF Len(results[t]) + 1 < Len(args[t])
                                 THEN "find" ELSE "apply"]
    /\ EndProbe(t)
    /\ UNCHANGED <<shared, args, args_head, queue, apply>>

\* The key matched in lane l, the lowest such lane (ctz); its value is read
\* from memory, not from the vector.
Hit(t) ==
    /\ Loaded(t)
    /\ \E l \in KeyLanes(t) :
          /\ \A m \in KeyLanes(t) : l <= m
          /\ Resolve(t, "FOUND", table[item[t].idx + l].v)

GiveUp(t) ==
    /\ Loaded(t)
    /\ KeyLanes(t) = {}
    /\ BoundReached(item[t].visit_count)
    /\ Resolve(t, "TABLE_FULL", 0)

Miss(t) ==
    /\ Loaded(t)
    /\ KeyLanes(t) = {}
    /\ ~BoundReached(item[t].visit_count)
    /\ EmptyLanes(t) # {}
    /\ Resolve(t, "ABSENT", 0)

\* Mutant: the lookup is not queued again.
ReprobeForgets(t) ==
    /\ Loaded(t)
    /\ KeyLanes(t) = {}
    /\ ~BoundReached(item[t].visit_count)
    /\ EmptyLanes(t) = {}
    /\ pc' = [pc EXCEPT ![t] = "find"]
    /\ EndProbe(t)
    /\ UNCHANGED <<shared, args, args_head, queue, results, apply>>

\* Mutant: the re-queued lookup does not carry its visit count.
ReprobeUncounted(t) ==
    /\ Loaded(t)
    /\ KeyLanes(t) = {}
    /\ ~BoundReached(item[t].visit_count)
    /\ EmptyLanes(t) = {}
    /\ queue' = [queue EXCEPT ![t] =
                    Append(@, QueueItem(NextBucket(item[t].idx), item[t].k,
                                        item[t].visit_count, item[t].id))]
    /\ pc' = [pc EXCEPT ![t] = "find"]
    /\ EndProbe(t)
    /\ UNCHANGED <<shared, args, args_head, results, apply>>

\* The bucket is full of other keys: queue the lookup for the next bucket.
Reprobe(t) ==
    /\ Loaded(t)
    /\ KeyLanes(t) = {}
    /\ ~BoundReached(item[t].visit_count)
    /\ EmptyLanes(t) = {}
    /\ queue' = [queue EXCEPT ![t] =
                    Append(@, QueueItem(NextBucket(item[t].idx), item[t].k,
                                        item[t].visit_count + Lanes, item[t].id))]
    /\ pc' = [pc EXCEPT ![t] = "find"]
    /\ EndProbe(t)
    /\ UNCHANGED <<shared, args, args_head, results, apply>>

-----------------------------------------------------------------------------
(* dramblast_process_frames: turn the results into answers                 *)

Result(t) == results[t][applied[t] + 1]
CurrentKey(t) == args[t][Result(t).id]

\* ret[result->id] = v, on to the next result.
Answer(t, v) ==
    /\ ret' = [ret EXCEPT ![t][Result(t).id] = v]
    /\ applied' = [applied EXCEPT ![t] = @ + 1]
    /\ cursor' = [cursor EXCEPT ![t] = NoCursor]
    /\ pc' = [pc EXCEPT ![t] = IF applied[t] + 1 < Len(results[t])
                                 THEN "apply" ELSE "done"]
    /\ UNCHANGED <<args, find>>

AnswerFound(t) ==
    /\ pc[t] = "apply"
    /\ Result(t).status = "FOUND"
    /\ Answer(t, Result(t).v)
    /\ UNCHANGED shared

\* Mutant: a given-up lookup leaves mac_addrs as it was.
AnswerFullSilently(t) ==
    /\ pc[t] = "apply"
    /\ Result(t).status = "TABLE_FULL"
    /\ applied' = [applied EXCEPT ![t] = @ + 1]
    /\ pc' = [pc EXCEPT ![t] = IF applied[t] + 1 < Len(results[t])
                                 THEN "apply" ELSE "done"]
    /\ UNCHANGED <<shared, args, find, cursor, ret>>

\* Mutant: a given-up lookup falls back to the lookup table without binding.
AnswerFullUnbound(t) ==
    /\ pc[t] = "apply"
    /\ Result(t).status = "TABLE_FULL"
    /\ Answer(t, Backend[CurrentKey(t)])
    /\ UNCHANGED shared

\* "Presence is unknown [...] Report no mapping."
AnswerFull(t) ==
    /\ pc[t] = "apply"
    /\ Result(t).status = "TABLE_FULL"
    /\ Answer(t, 0)
    /\ UNCHANGED shared

StartInsert(t) ==
    /\ pc[t] = "apply"
    /\ Result(t).status = "ABSENT"
    /\ cursor' = [cursor EXCEPT ![t] = [idx |-> Home[CurrentKey(t)], count |-> 0]]
    /\ pc' = [pc EXCEPT ![t] = "ins_load"]
    /\ UNCHANGED <<shared, args, find, applied, ret>>

-----------------------------------------------------------------------------
(* dramblast_insert_one                                                    *)

Cell(t) == table[cursor[t].idx]

\* "if (kv->k == 0)" decides whether the compare-and-swap is tried.
InsertLoad(t) ==
    /\ pc[t] = "ins_load"
    /\ cursor' = [cursor EXCEPT ![t].count = @ + 1]
    /\ pc' = [pc EXCEPT ![t] = IF Cell(t).k = 0 THEN "ins_cas" ELSE "ins_check"]
    /\ UNCHANGED <<shared, args, find, applied, ret>>

\* Mutant: a plain store instead of the compare-and-swap.
ClaimBlindly(t) ==
    /\ pc[t] = "ins_cas"
    /\ table' = [table EXCEPT ![cursor[t].idx] =
                    [k |-> CurrentKey(t), v |-> Backend[CurrentKey(t)]]]
    /\ Answer(t, Backend[CurrentKey(t)])

\* The 16-byte compare-and-swap expects key and value to be zero.
Claim(t) ==
    /\ pc[t] = "ins_cas"
    /\ Cell(t) = EmptyKV
    /\ table' = [table EXCEPT ![cursor[t].idx] =
                    [k |-> CurrentKey(t), v |-> Backend[CurrentKey(t)]]]
    /\ Answer(t, Backend[CurrentKey(t)])

\* Mutant: after a lost compare-and-swap the slot is not looked at again.
LoseClaimMovesOn(t) ==
    /\ pc[t] = "ins_cas"
    /\ Cell(t) # EmptyKV
    /\ cursor' = [cursor EXCEPT ![t].idx = NextSlot(@)]
    /\ pc' = [pc EXCEPT ![t] = "ins_load"]
    /\ UNCHANGED <<shared, args, find, applied, ret>>

\* Mutant: the lost compare-and-swap is tried again as it is.
LoseClaimSpins(t) ==
    /\ pc[t] = "ins_cas"
    /\ Cell(t) # EmptyKV
    /\ UNCHANGED vars

LoseClaim(t) ==
    /\ pc[t] = "ins_cas"
    /\ Cell(t) # EmptyKV
    /\ pc' = [pc EXCEPT ![t] = "ins_check"]
    /\ UNCHANGED <<shared, args, find, apply>>

\* "if (kv->k == k)": someone stored the flow meanwhile.
InsertMatch(t) ==
    /\ pc[t] = "ins_check"
    /\ Cell(t).k = CurrentKey(t)
    /\ pc' = [pc EXCEPT ![t] = "ins_store"]
    /\ UNCHANGED <<shared, args, find, apply>>

InsertNext(t) ==
    /\ pc[t] = "ins_check"
    /\ Cell(t).k # CurrentKey(t)
    /\ cursor[t].count < Capacity
    /\ cursor' = [cursor EXCEPT ![t].idx = NextSlot(@)]
    /\ pc' = [pc EXCEPT ![t] = "ins_load"]
    /\ UNCHANGED <<shared, args, find, applied, ret>>

\* All slots were visited: the insertion failed, no mapping.
InsertFail(t) ==
    /\ pc[t] = "ins_check"
    /\ Cell(t).k # CurrentKey(t)
    /\ cursor[t].count >= Capacity
    /\ Answer(t, 0)
    /\ UNCHANGED shared

InsertStore(t) ==
    /\ pc[t] = "ins_store"
    /\ table' = [table EXCEPT ![cursor[t].idx].v = Backend[CurrentKey(t)]]
    /\ Answer(t, Backend[CurrentKey(t)])

\* Back in the forwarding loop, which reads ret[1 .. fn]; results is freed,
\* mac_addrs keeps its contents.
Return(t) ==
    /\ pc[t] = "done"
    /\ pc' = [pc EXCEPT ![t] = "idle"]
    /\ args' = [args EXCEPT ![t] = <<>>]
    /\ args_head' = [args_head EXCEPT ![t] = 0]
    /\ results' = [results EXCEPT ![t] = <<>>]
    /\ applied' = [applied EXCEPT ![t] = 0]
    /\ UNCHANGED <<shared, queue, item, cacheline, missed, cursor, ret>>

-----------------------------------------------------------------------------
Probe(t) ==
    \/ FillAndPop(t)
    \/ \E l \in LaneIdx : LoadLane(t, l)
    \/ Hit(t)
    \/ GiveUp(t)
    \/ Miss(t)
    \/ Reprobe(t)

Insert(t) ==
    \/ StartInsert(t)
    \/ InsertLoad(t)
    \/ Claim(t)
    \/ LoseClaim(t)
    \/ InsertMatch(t)
    \/ InsertNext(t)
    \/ InsertFail(t)
    \/ InsertStore(t)

\* What an lcore does on its own once it has been called.
Work(t) == Probe(t) \/ AnswerFound(t) \/ AnswerFull(t) \/ Insert(t) \/ Return(t)

Next == \E t \in Lcores : Call(t) \/ Work(t)

Spec == Init /\ [][Next]_vars

\* Every worker is a busy-polling thread pinned to its own lcore.
FairSpec == Spec /\ \A t \in Lcores : WF_vars(Work(t))

-----------------------------------------------------------------------------
(* Properties                                                              *)

QueueItems == [k : Keys, idx : BucketStarts, visit_count : 0 .. Capacity,
               id : 1 .. MaxBurst]
Results == [v : Nat, id : 1 .. MaxBurst,
            status : {"FOUND", "ABSENT", "TABLE_FULL"}]

\* The state of dramblast.c is well typed: slots, queue items and results
\* keep the ranges the C declarations and masks give them.
TypeOK ==
    /\ table \in [Slots -> [k : Keys \cup {0}, v : Nat]]
    /\ pc \in [Lcores -> {"idle", "find", "load", "apply", "ins_load",
                          "ins_cas", "ins_check", "ins_store", "done"}]
    /\ args \in [Lcores -> Batches \cup {<<>>}]
    /\ args_head \in [Lcores -> 0 .. MaxBurst]
    /\ queue \in [Lcores -> Seq(QueueItems)]
    /\ item \in [Lcores -> QueueItems \cup {NoItem}]
    /\ cacheline \in [Lcores -> UNION {[S -> Keys \cup {0}] : S \in SUBSET LaneIdx}]
    /\ results \in [Lcores -> Seq(Results)]
    /\ applied \in [Lcores -> 0 .. MaxBurst]
    /\ cursor \in [Lcores -> [idx : Slots, count : 0 .. Capacity]]
    /\ ret \in [Lcores -> [1 .. MaxBurst -> Nat]]
    /\ missed \in [Lcores -> BOOLEAN]

\* Steps of the linear probe from slot h to slot s.
Dist(h, s) == IF s >= h THEN s - h ELSE s - h + Capacity

\* In table tb the first d slots of k's probe sequence belong to other flows.
Passed(tb, k, d) ==
    \A s \in Slots : Dist(Home[k], s) < d => tb[s].k \notin {0, k}

\* Every stored flow is where a probe from its home bucket meets it: no hole
\* and no second copy lies before it.  Racing insertions of
\* dramblast_insert_one (of one flow, or of flows that share a bucket) keep
\* this true although they share no lock.
ProbePathUnbroken ==
    \A s \in Slots :
        LET k == table[s].k
        IN  k # 0 => Passed(table, k, Dist(Home[k], s))

\* ABSENT is "key definitively not present" (dramblast.h): a probe that
\* reports it began when the key really was absent, although the bucket was
\* read lane by lane while other lcores inserted.
MissIsGenuine ==
    [][\A t \in Lcores :
          /\ Len(results'[t]) = Len(results[t]) + 1
          /\ results'[t][Len(results'[t])].status = "ABSENT"
          => missed[t]]_vars

\* A lookup is answered with 0 only if its whole probe sequence up to the
\* last bucket was occupied by other flows, whether find_batch_sync gave up
\* or insert_one failed.
RefusalSubstantiated ==
    \A t \in Lcores : \A i \in 1 .. applied[t] :
        LET id == results[t][i].id
        IN  ret[t][id] = 0 => Passed(table, args[t][id], Capacity - Lanes)

\* When dramblast_process_frames returns, every entry of mac_addrs the
\* caller will read was written by this call: it is 0 or the backend the
\* table holds for that very flow, never a leftover of an earlier burst.
AnswersRight ==
    \A t \in Lcores : pc[t] = "done" =>
        \A id \in DOMAIN args[t] :
            \/ ret[t][id] = 0
            \/ /\ ret[t][id] = Backend[args[t][id]]
               /\ \E s \in Slots :
                     table[s] = [k |-> args[t][id], v |-> ret[t][id]]

\* How often lookup id of lcore t is in its queue, in flight or resolved.
Places(t, id) ==
      Cardinality({i \in DOMAIN queue[t] : queue[t][i].id = id})
    + (IF pc[t] = "load" /\ item[t].id = id THEN 1 ELSE 0)
    + Cardinality({i \in DOMAIN results[t] : results[t][i].id = id})

\* No lookup of a batch is lost or resolved twice while it wanders between
\* the argument array, the find queue, the probe and the results.
LookupsConserved ==
    \A t \in Lcores : \A id \in DOMAIN args[t] :
        Places(t, id) = IF id <= args_head[t] THEN 1 ELSE 0

\* The ring of QueueSize entries never holds more than QueueSize - 1 (it
\* would look empty), never pops when empty, and is drained between calls.
QueueDiscipline ==
    \A t \in Lcores :
        /\ Len(queue[t]) < QueueSize
        /\ pc[t] = "find" => Len(queue[t]) + PushCount(t) > 0
        /\ pc[t] \notin {"find", "load"} => queue[t] = <<>>

\* Connection affinity in the table: once a flow owns a slot, no step of any
\* lcore changes that slot, the unguarded "kv->v = v" included.
SlotsArePermanent ==
    [][\A s \in Slots : table[s].k # 0 => table'[s] = table[s]]_vars

\* TABLE_FULL and a failed insertion mean what dramblast.h calls "giving up
\* on a full table": no slot is empty.
TableFullMeansFull ==
    \A t \in Lcores : \A i \in DOMAIN results[t] :
        results[t][i].status = "TABLE_FULL" =>
            \A s \in Slots : table[s].k # 0

\* The abstract service: the binding of a flow is the value of its slot, an
\* answer exists from the moment it is written to ret.
Bound(k) == IF Stored(table, k) THEN table[CHOOSE s \in Slots : table[s].k = k].v ELSE 0

Bindings == [k \in Keys |-> Bound(k)]
AnsweredIds(t) == {results[t][i].id : i \in 1 .. applied[t]}
Answered == [t \in Lcores |-> [id \in AnsweredIds(t) |-> ret[t][id]]]

Service == INSTANCE FlowService WITH
    bound <- Bindings, batch <- args, answer <- Answered,
    RefusalBound <- Capacity - Lanes

\* dramblast.c implements the flow service: every answer is a binding that
\* exists at that moment or a refusal with all but one bucket taken.
ImplementsFlowService == Service!Spec

\* Every call returns: probes, re-queued lookups and insertions all end.
CallsReturn == \A t \in Lcores : pc[t] # "idle" ~> pc[t] = "idle"

=============================================================================
