---------------------------- MODULE LookupQueue ----------------------------
(***************************************************************************)
(* What dramblast_find_batch_sync needs of its find queue: a first-in      *)
(* first-out queue of at most Limit lookups.  A lookup that is taken out   *)
(* is held, unchanged, until its probe is over: then it is done, or put    *)
(* back at the end with a larger visit count.                              *)
(***************************************************************************)
EXTENDS Naturals, Sequences

CONSTANTS Items,   \* lookups with their visit counts
          Limit    \* how many the queue may hold

VARIABLES fifo,    \* the queue, oldest lookup first
          held     \* <<the lookup being probed>>, or <<>>

Init == fifo = <<>> /\ held = <<>>

Enqueue ==
    /\ held = <<>>
    /\ Len(fifo) < Limit
    /\ \E x \in Items : x.visit_count = 0 /\ fifo' = Append(fifo, x)
    /\ UNCHANGED held

Dequeue ==
    /\ held = <<>>
    /\ fifo # <<>>
    /\ held' = <<Head(fifo)>>
    /\ fifo' = Tail(fifo)

Finish == held # <<>> /\ held' = <<>> /\ UNCHANGED fifo

PutBack ==
    /\ held # <<>>
    /\ held' = <<>>
    /\ \E x \in Items :
          /\ x.id = held[1].id
          /\ x.visit_count > held[1].visit_count
          /\ fifo' = Append(fifo, x)

Next == Enqueue \/ Dequeue \/ Finish \/ PutBack

Spec == Init /\ [][Next]_<<fifo, held>>

=============================================================================
