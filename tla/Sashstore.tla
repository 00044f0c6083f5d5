----------------------------- MODULE Sashstore -----------------------------
(***************************************************************************)
(* The sashstore key-value store (l2fwd/libsashstore/sashstore.c and the   *)
(* sashstore half of hashmap.c): SET and GET requests in UDP packets on an *)
(* open-addressing table whose empty slots have the zero key.              *)
(*                                                                         *)
(* sashstore_process_frame handles one frame to its end; nothing in the    *)
(* repository calls it from two lcores.  The payload of a frame is one     *)
(* word, the request [mode, key, value].  The reply is its status and its  *)
(* value; the header and the key that it echoes, which share memory with   *)
(* the request, are left out.                                              *)
(***************************************************************************)
EXTENDS PacketTool, FiniteSets, FiniteSetsExt

CONSTANTS Capacity,      \* CAPACITY
          Keys,          \* what the 64 bytes of a key may be
          ZeroKey,       \* empty_key
          Values,        \* what the 64 bytes of a value may be
          Hash,          \* fnv_1 of a key
          Requests,      \* the frames that arrive, as words behind Ethernet
          MaxRequests    \* bound: SET and GET requests handled

ASSUME SashstoreAssumption ==
    /\ Capacity \in Nat \ {0}
    /\ ZeroKey \in Keys
    /\ \A k \in Keys : Hash[k] \in Nat
    \* what the payload of a UDP frame is read as
    /\ \A ip \in Requests :
          LET payload == get_udp_payload(ip)
          IN  payload # 0 => ip[payload].key \in Keys /\ ip[payload].value \in Values
    /\ MaxRequests \in Nat

Slots == 0 .. Capacity - 1

VARIABLES pc,       \* the life of the store: "init", "serve" or "exit"
          pairs,    \* kvstore.pairs: slot -> [key, value]
          total,    \* the six counters of print_sashstore_stats
          reply,    \* what the payload holds when the handler returns
          ret,      \* the length to send, -1 for none
          \* history variables: no action reads them
          fresh,    \* pairs as sashstore_init left them
          acked     \* keys whose SET was answered STORED, ZeroKey apart

vars == <<pc, pairs, total, reply, ret, fresh, acked>>

NoTotals == [set |-> 0, stored |-> 0, not_stored |-> 0,
             get |-> 0, retrieved |-> 0, not_found |-> 0]
NoReply == [status |-> "none"]

\* kvstore is a static variable: pairs is NULL.
Init ==
    /\ pc = "init"
    /\ pairs = <<>>
    /\ total = NoTotals
    /\ reply = NoReply
    /\ ret = 0
    /\ fresh = <<>>
    /\ acked = {}

\* aligned_alloc does not clear the memory: a slot may hold anything, the key
\* of a later request included.
sashstore_init ==
    /\ pc = "init"
    /\ \/ pc' = "serve" /\ pairs' \in [Slots -> [key : Keys, value : Values]]
       \/ pc' = "exit" /\ UNCHANGED pairs
    /\ fresh' = pairs'
    /\ UNCHANGED <<total, reply, ret, acked>>

-----------------------------------------------------------------------------
(* hashmap.c                                                                *)

NULL == -1

\* The slots a probe for k visits, in order.  CAPACITY is a power of two
\* (main.c:434), so that it does not matter if hash + i wraps at 2^64.
Probe(k, i) == (Hash[k] + i) % Capacity

\* The first of them whose key is in K, NULL if there is none.
FirstWith(k, K) ==
    LET hits == {i \in Slots : pairs[Probe(k, i)].key \in K}
    IN  IF hits = {} THEN NULL ELSE Probe(k, Min(hits))

\* Mutant: an empty slot is taken before the key is looked for.
InsertSlotEmptyFirst(k) ==
    IF FirstWith(k, {ZeroKey}) # NULL THEN FirstWith(k, {ZeroKey}) ELSE FirstWith(k, {k})

\* sashstore_hashmap_insert takes the key's slot or an empty one, whichever
\* comes first.
InsertSlot(k) == FirstWith(k, {k, ZeroKey})

\* sashstore_hashmap_get stops at an empty slot, before it compares the key.
GetSlot(k) ==
    LET s == FirstWith(k, {k, ZeroKey})
    IN  IF s = NULL \/ pairs[s].key = ZeroKey THEN NULL ELSE s

-----------------------------------------------------------------------------
(* handle_network_request                                                   *)

Count(a, b) == total' = [total EXCEPT ![a] = @ + 1, ![b] = @ + 1]
\* History: k was answered STORED; the zero key is never kept.
Acknowledge(k) == acked' = acked \cup ({k} \ {ZeroKey})
Handling == pc = "serve" /\ total.set + total.get < MaxRequests

\* Mutant: the key found in the home slot is not compared.
SetHomeSlot(req) ==
    /\ req.mode = "set "
    /\ pairs' = [pairs EXCEPT ![Probe(req.key, 0)] = [key |-> req.key, value |-> req.value]]
    /\ reply' = [status |-> "STORED"] /\ ret' = 18
    /\ Count("set", "stored")
    /\ Acknowledge(req.key)

Set(req) ==
    /\ req.mode = "set "
    /\ LET s == InsertSlot(req.key)
       IN  IF s # NULL
             THEN /\ pairs' = [pairs EXCEPT ![s] = [key |-> req.key, value |-> req.value]]
                  /\ reply' = [status |-> "STORED"]
                  /\ ret' = 18
                  /\ Count("set", "stored")
                  /\ Acknowledge(req.key)
             ELSE /\ reply' = [status |-> "NOT_STORED"]
                  /\ ret' = 10
                  /\ Count("set", "not_stored")
                  /\ UNCHANGED <<pairs, acked>>

Get(req) ==
    /\ req.mode = "get "
    /\ LET s == GetSlot(req.key)
       IN  IF s # NULL
             THEN /\ reply' = [status |-> "VALUE", value |-> pairs[s].value]
                  /\ ret' = 162
                  /\ Count("get", "retrieved")
             ELSE /\ reply' = [status |-> "NOT_FOUND"]
                  /\ ret' = 9
                  /\ Count("get", "not_found")
    /\ UNCHANGED <<pairs, acked>>

\* Neither: the mode is printed, the payload left alone.
OtherMode(req) ==
    /\ req.mode \notin {"set ", "get "}
    /\ reply' = NoReply /\ ret' = -1
    /\ UNCHANGED <<pairs, total, acked>>

\* "malformed packet", or the request in its payload.
sashstore_process_frame(ip) ==
    /\ Handling
    /\ LET payload == get_udp_payload(ip)
       IN  IF payload = 0
             THEN reply' = NoReply /\ ret' = -1 /\ UNCHANGED <<pairs, total, acked>>
             ELSE Set(ip[payload]) \/ Get(ip[payload]) \/ OtherMode(ip[payload])
    /\ UNCHANGED <<pc, fresh>>

-----------------------------------------------------------------------------
Next == sashstore_init \/ \E ip \in Requests : sashstore_process_frame(ip)

Spec == Init /\ [][Next]_vars

-----------------------------------------------------------------------------
(* Properties                                                               *)

\* What a GET may stop at that nobody has stored: the slots of the fresh
\* memory that do not look empty.
LeftSlots == {s \in DOMAIN fresh : fresh[s].key # ZeroKey}
Leftover == {<<fresh[s].key, fresh[s].value>> : s \in LeftSlots}

\* A GET finds every key whose SET was acknowledged, over collisions, the zero
\* key and whatever the memory held at first: the key is stored once, and any
\* other copy is one that was in the fresh memory and is untouched.
KeysReachable ==
    \A k \in acked :
        LET s == GetSlot(k)
        IN  /\ s # NULL
            /\ \A r \in Slots \ {s} : pairs[r].key = k => pairs[r] = fresh[r]

\* The map the table stands for.
Stored == [k \in acked |-> pairs[GetSlot(k)].value]

\* The slots that looked empty at first; -1 before there are any.
Room == IF pc = "serve" THEN Cardinality(Slots \ LeftSlots) ELSE -1

Abstract == INSTANCE KVStore WITH
    Reserved <- ZeroKey, store <- Stored, room <- Room, leftover <- Leftover

\* The store is a map of the acknowledged keys, over collisions: a GET returns
\* what the last acknowledged SET of its key stored.  A key that nobody has
\* stored is not found or, as the memory is not cleared, found with a value
\* that the fresh memory held for it; on cleared memory this is a plain map.
\* A SET is refused only for a new key and only when as many keys are stored
\* as slots looked empty at first.
ImplementsKVStore == Abstract!Spec

=============================================================================
