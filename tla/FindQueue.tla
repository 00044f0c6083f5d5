----------------------------- MODULE FindQueue -----------------------------
(***************************************************************************)
(* The find queue of one lcore (dramblast.c 27-56) as                      *)
(* dramblast_find_batch_sync drives it: a ring of Size items with a head   *)
(* and a tail index and no element count.  A full ring would look empty,   *)
(* so the caller stops at Size - 1.  dramblast_pop_queue returns a pointer *)
(* into the ring, and the caller goes on reading the item through it after *)
(* the slot has left the queue.                                            *)
(*                                                                         *)
(* Abstracted: an item is its id and its visit count in buckets (its key   *)
(* and its index follow from them); how a probe ends is open.              *)
(***************************************************************************)
EXTENDS Integers, Sequences, FiniteSets

CONSTANTS Size,       \* find_queue_size; a power of two, at least 2
          MaxArgs,    \* the longest batch
          MaxVisits   \* buckets a lookup may visit: ht->len / 4

ASSUME RingAssumption ==
    /\ Size \in Nat \ {0, 1}
    /\ MaxArgs \in Nat \ {0}
    /\ MaxVisits \in Nat \ {0}

Slots == 0 .. Size - 1
Ids == 1 .. MaxArgs
Items == [id : Ids, visit_count : 0 .. MaxVisits - 1]
NoSlot == -1

VARIABLES find_queue,        \* the ring
          find_queue_head,   \* where the next item is written
          find_queue_tail,   \* the oldest item
          args_len,          \* the length of the batch; 0 between batches
          args_head,         \* arguments pushed so far
          queue_tail_slot,   \* the pointer dramblast_pop_queue returned
          results            \* the ids resolved so far, in order

ring == <<find_queue, find_queue_head, find_queue_tail>>
batch == <<args_len, args_head>>
vars == <<ring, batch, queue_tail_slot, results>>

\* What the allocation left in the ring is arbitrary; a slot is written by a
\* push before it is read.
Init ==
    /\ \E x \in Items : find_queue = [s \in Slots |-> x]
    /\ find_queue_head = 0
    /\ find_queue_tail = 0
    /\ args_len = 0
    /\ args_head = 0
    /\ queue_tail_slot = NoSlot
    /\ results = <<>>

-----------------------------------------------------------------------------
(* The ring                                                                *)

\* "i++; i & (find_queue_size - 1)"
Inc(i) == IF i + 1 = Size THEN 0 ELSE i + 1

\* dramblast_get_queue_sz: the unsigned difference under the same mask.
QueueSz ==
    IF find_queue_head >= find_queue_tail
    THEN find_queue_head - find_queue_tail
    ELSE find_queue_head - find_queue_tail + Size

Push(x) ==
    /\ find_queue' = [find_queue EXCEPT ![find_queue_head] = x]
    /\ find_queue_head' = Inc(find_queue_head)
    /\ UNCHANGED find_queue_tail

-----------------------------------------------------------------------------
(* dramblast_find_batch_sync                                               *)

Begin ==
    /\ args_len = 0
    /\ args_len' \in Ids
    /\ UNCHANGED <<ring, args_head, queue_tail_slot, results>>

\* Mutant: the ring may be filled to the last slot.
CanFillAll == args_head < args_len /\ QueueSz < Size

CanFill == args_head < args_len /\ QueueSz < Size - 1

Fill ==
    /\ queue_tail_slot = NoSlot
    /\ CanFill
    /\ args_head' = args_head + 1
    /\ Push([id |-> args_head + 1, visit_count |-> 0])
    /\ UNCHANGED <<args_len, queue_tail_slot, results>>

\* No more arguments to push, or no room: dramblast_pop_queue.
Pop ==
    /\ queue_tail_slot = NoSlot
    /\ Len(results) < args_len
    /\ ~CanFill
    /\ queue_tail_slot' = find_queue_tail
    /\ find_queue_tail' = Inc(find_queue_tail)
    /\ UNCHANGED <<find_queue, find_queue_head, batch, results>>

\* FOUND, ABSENT or TABLE_FULL: the id is read through the pointer.
Resolve ==
    /\ queue_tail_slot # NoSlot
    /\ results' = Append(results, find_queue[queue_tail_slot].id)
    /\ queue_tail_slot' = NoSlot
    /\ UNCHANGED <<ring, batch>>

\* Mutant: the lookup is both resolved and queued again.
RequeueTwice ==
    /\ queue_tail_slot # NoSlot
    /\ find_queue[queue_tail_slot].visit_count + 1 < MaxVisits
    /\ Push([find_queue[queue_tail_slot] EXCEPT !.visit_count = @ + 1])
    /\ queue_tail_slot' = NoSlot
    /\ results' = Append(results, find_queue[queue_tail_slot].id)
    /\ UNCHANGED batch

\* The bucket was full of other keys, and more buckets are left.
Requeue ==
    /\ queue_tail_slot # NoSlot
    /\ find_queue[queue_tail_slot].visit_count + 1 < MaxVisits
    /\ Push([find_queue[queue_tail_slot] EXCEPT !.visit_count = @ + 1])
    /\ queue_tail_slot' = NoSlot
    /\ UNCHANGED <<batch, results>>

End ==
    /\ args_len > 0
    /\ Len(results) >= args_len
    /\ queue_tail_slot = NoSlot
    /\ args_len' = 0
    /\ args_head' = 0
    /\ results' = <<>>
    /\ UNCHANGED <<ring, queue_tail_slot>>

Next == Begin \/ Fill \/ Pop \/ Resolve \/ Requeue \/ End

Spec == Init /\ [][Next]_vars

-----------------------------------------------------------------------------
(* Properties                                                              *)

\* The ring's indices stay inside the ring; items are well formed.
TypeOK ==
    /\ find_queue \in [Slots -> Items]
    /\ find_queue_head \in Slots
    /\ find_queue_tail \in Slots
    /\ args_len \in 0 .. MaxArgs
    /\ args_head \in 0 .. args_len
    /\ queue_tail_slot \in Slots \cup {NoSlot}
    /\ results \in Seq(Ids)

\* The slots between tail and head hold the queue, oldest first.
Pos(i) == IF i < Size THEN i ELSE i - Size
At(j) == find_queue[Pos(find_queue_tail + j - 1)]
Contents == [j \in 1 .. QueueSz |-> At(j)]
Held == IF queue_tail_slot = NoSlot THEN <<>> ELSE <<find_queue[queue_tail_slot]>>

Queue == INSTANCE LookupQueue WITH
    fifo <- Contents, held <- Held, Limit <- Size - 1

\* The ring is a first-in first-out queue of at most Size - 1 lookups: no
\* push overwrites a queued lookup or the one still read through the pointer
\* of dramblast_pop_queue, and no pop takes from an empty ring.
ImplementsLookupQueue == Queue!Spec

\* When dramblast_find_batch_sync returns, each argument has exactly one
\* result and the ring is empty again, wherever in the ring it ended.
BatchComplete ==
    args_len > 0 /\ Len(results) >= args_len /\ queue_tail_slot = NoSlot =>
        /\ find_queue_head = find_queue_tail
        /\ Len(results) = args_len
        /\ {results[n] : n \in DOMAIN results} = 1 .. args_len

-----------------------------------------------------------------------------
(* The inductive invariant                                                 *)

\* Every pushed argument is queued, being probed or resolved.
Accounted ==
    args_head = Len(results) + QueueSz + (IF queue_tail_slot = NoSlot THEN 0 ELSE 1)

\* A lookup that was popped finds room when it is put back.
RoomToPutBack == queue_tail_slot # NoSlot => QueueSz < Size - 1

Somewhere(id) ==
    \/ \E j \in 1 .. QueueSz : At(j).id = id
    \/ queue_tail_slot # NoSlot /\ find_queue[queue_tail_slot].id = id
    \/ \E n \in 1 .. Len(results) : results[n] = id

Tracked == \A id \in Ids : id <= args_head <=> Somewhere(id)

\* The find queue at every step: typed, accounted for, room for the popped
\* lookup, and every pushed argument of dramblast_find_batch_sync somewhere.
IInv == TypeOK /\ Accounted /\ RoomToPutBack /\ Tracked

=============================================================================
