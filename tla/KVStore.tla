------------------------------ MODULE KVStore ------------------------------
(***************************************************************************)
(* What the sashstore key-value store promises its clients: a map of the   *)
(* keys whose SET was answered STORED.  The next GET of such a key returns *)
(* what was stored, SETs of other keys change nothing, and a SET is        *)
(* refused only for a new key when room keys are stored.  The reserved key *)
(* is acknowledged but never kept.                                         *)
(*                                                                         *)
(* The store opens on memory that nobody has cleared.  The pairs it finds  *)
(* there are not part of the map, but until their key is stored a GET may  *)
(* return one of them, and they need no room.  Without leftovers this is   *)
(* exactly a map.                                                          *)
(***************************************************************************)
EXTENDS Integers, FiniteSets

CONSTANTS Keys, Values,
          Reserved   \* the key that cannot be kept

VARIABLES store,     \* the stored keys and their values
          room,      \* how many keys there is room for; Closed before the store opens
          leftover,  \* pairs that were in the memory when the store opened
          reply      \* the last answer

vars == <<store, room, leftover, reply>>

Closed == -1

Answer(status) == [status |-> status]
Value(v) == [status |-> "VALUE", value |-> v]

Init ==
    /\ store = <<>>
    /\ room = Closed
    /\ leftover = {}
    /\ reply = Answer("none")

Open ==
    /\ room = Closed
    /\ room' \in Nat
    /\ leftover' \subseteq (Keys \ {Reserved}) \X Values
    /\ UNCHANGED <<store, reply>>

\* The keys among K that take room: a key that was left over may have got the
\* place of its leftover.
Placed(K) == K \ {p[1] : p \in leftover}

Set(k, v) ==
    /\ k # Reserved
    /\ reply' = Answer("STORED")
    /\ k \notin DOMAIN store => Cardinality(Placed(DOMAIN store \cup {k})) <= room
    /\ store' = [x \in DOMAIN store \cup {k} |-> IF x = k THEN v ELSE store[x]]
    /\ UNCHANGED <<room, leftover>>

SetReserved(k) ==
    /\ k = Reserved
    /\ reply' = Answer("STORED")
    /\ Cardinality(Placed(DOMAIN store)) < room
    /\ UNCHANGED <<store, room, leftover>>

SetRefused(k) ==
    /\ reply' = Answer("NOT_STORED")
    /\ k \notin DOMAIN store
    /\ Cardinality(DOMAIN store) >= room
    /\ UNCHANGED <<store, room, leftover>>

Get(k) ==
    /\ \/ k \in DOMAIN store /\ reply' = Value(store[k])
       \/ k \notin DOMAIN store /\ reply' = Answer("NOT_FOUND")
       \/ k \notin DOMAIN store /\ \E p \in leftover : p[1] = k /\ reply' = Value(p[2])
    /\ UNCHANGED <<store, room, leftover>>

\* A request that is neither is not answered.
Ignore ==
    /\ reply' = Answer("none")
    /\ UNCHANGED <<store, room, leftover>>

Request ==
    \/ \E k \in Keys :
          \/ \E v \in Values : Set(k, v)
          \/ SetReserved(k) \/ SetRefused(k) \/ Get(k)
    \/ Ignore

Next == Open \/ (room # Closed /\ Request)

Spec == Init /\ [][Next]_vars

=============================================================================
