--------------------------- MODULE SashstoreProofs ---------------------------
(***************************************************************************)
(* Proofs about the sashstore key-value store, for any capacity, keys,     *)
(* hash, number of requests and first contents of the table.               *)
(***************************************************************************)
EXTENDS Sashstore, FiniteSetTheorems, WellFoundedInduction, TLAPS

Pairs == [Slots -> [key : Keys, value : Values]]

\* The table exists once the store is served, and no key is stored before.
TypeInv ==
    /\ pc \in {"init", "serve", "exit"}
    /\ acked \in SUBSET (Keys \ {ZeroKey})
    /\ pc = "serve" => pairs \in Pairs /\ fresh \in Pairs
    /\ pc # "serve" => pairs = <<>> /\ fresh = <<>> /\ acked = {}

\* A slot is empty as it always was, or is a leftover that nobody has touched,
\* or holds an acknowledged key and is where a GET of that key stops; a leftover
\* that is overwritten keeps its key.
SlotInv(s) ==
    \/ pairs[s].key = ZeroKey /\ fresh[s].key = ZeroKey
    \/ pairs[s].key # ZeroKey /\ pairs[s] = fresh[s]
    \/ \E k \in acked :
          pairs[s].key = k /\ GetSlot(k) = s /\ fresh[s].key \in {ZeroKey, k}

TableInv ==
    /\ \A s \in Slots : SlotInv(s)
    /\ \A k \in acked : GetSlot(k) # NULL

IInv == TypeInv /\ (pc = "serve" => TableInv)

-----------------------------------------------------------------------------
(* Probing                                                                  *)

LEMMA Constants ==
    /\ Capacity \in Nat /\ Capacity > 0 /\ ZeroKey \in Keys
    /\ \A k \in Keys : Hash[k] \in Nat
    /\ Slots = 0 .. Capacity - 1
BY SashstoreAssumption DEF Slots

\* Modulus by hand: a number is its remainder plus a multiple of Capacity.
LEMMA Remainder ==
    ASSUME NEW h \in Nat, NEW i \in Nat
    PROVE  (h + i) % Capacity \in Slots
BY Constants

LEMMA Wrap ==
    ASSUME NEW h \in Nat, NEW s \in Slots
    PROVE  \E i \in Slots : (h + i) % Capacity = s
<1>1. /\ Capacity \in Nat /\ Capacity > 0 /\ s \in Nat /\ s < Capacity
      /\ \A i \in Nat : i < Capacity => i \in Slots
  BY Constants
<1>2. PICK d \in Nat, r \in Nat : h = Capacity * d + r /\ r < Capacity
  <2>1. h \div Capacity \in Nat /\ h % Capacity \in Nat /\ h % Capacity < Capacity BY <1>1
  <2>2. h = Capacity * (h \div Capacity) + (h % Capacity) BY <1>1
  <2> QED BY <2>1, <2>2
<1>3. \A e \in Nat : (Capacity * e + s) % Capacity = s BY <1>1
<1>4. CASE s >= r
  <2>1. s - r \in Nat /\ s - r < Capacity BY <1>1, <1>2, <1>4
  <2>2. h + (s - r) = Capacity * d + s BY <1>1, <1>2
  <2> QED BY <1>1, <1>2, <1>3, <2>1, <2>2
<1>5. CASE s < r
  <2>1. (s + Capacity) - r \in Nat /\ (s + Capacity) - r < Capacity BY <1>1, <1>2, <1>5
  <2>2. h + ((s + Capacity) - r) = Capacity * (d + 1) + s BY <1>1, <1>2
  <2>3. (Capacity * (d + 1) + s) % Capacity = s
    <3>1. d + 1 \in Nat BY <1>2
    <3> QED BY <1>3, <3>1
  <2>4. (h + ((s + Capacity) - r)) % Capacity = s BY <2>2, <2>3
  <2> QED BY <1>1, <2>1, <2>4
<1> QED BY <1>1, <1>2, <1>4, <1>5

\* A probe stays in the table and reaches every slot.
LEMMA ProbeFacts ==
    ASSUME NEW k \in Keys
    PROVE  /\ \A i \in Nat : Probe(k, i) \in Slots
           /\ \A s \in Slots : \E i \in Slots : Probe(k, i) = s
BY Constants, Remainder, Wrap DEF Probe

\* A set of numbers has a least element.
LEMMA MinFacts ==
    ASSUME NEW S \in SUBSET Nat, S # {}
    PROVE  Min(S) \in S /\ \A n \in 0 .. Min(S) - 1 : n \notin S
<1>1. PICK x \in S : \A y \in S : ~(<<y, x>> \in OpToRel(<, Nat))
  BY WFMin, NatLessThanWellFounded
<1>2. \A y \in S : ~(y < x) BY <1>1 DEF OpToRel
<1>3. \A y \in S : x =< y BY <1>2
<1>4. Min(S) \in S /\ \A y \in S : Min(S) =< y BY <1>3 DEF Min
<1>5. \A n \in 0 .. Min(S) - 1 : ~(Min(S) =< n)
  <2>1. \A m \in Nat : \A n \in 0 .. m - 1 : ~(m =< n) OBVIOUS
  <2>2. Min(S) \in Nat BY <1>4
  <2> QED BY <2>1, <2>2
<1> QED BY <1>4, <1>5

\* FirstWith finds the first hit of a probe, or there is none.
LEMMA FirstWithFacts ==
    ASSUME NEW k \in Keys, NEW K
    PROVE  \/ FirstWith(k, K) = NULL /\ \A s \in Slots : pairs[s].key \notin K
           \/ \E i \in Slots :
                 /\ FirstWith(k, K) = Probe(k, i) /\ FirstWith(k, K) \in Slots
                 /\ FirstWith(k, K) # NULL
                 /\ pairs[Probe(k, i)].key \in K
                 /\ \A n \in 0 .. i - 1 : pairs[Probe(k, n)].key \notin K
<1> DEFINE hits == {i \in Slots : pairs[Probe(k, i)].key \in K}
<1>1. hits \in SUBSET Nat BY Constants
<1>2. CASE hits = {}
  <2>1. FirstWith(k, K) = NULL BY <1>2 DEF FirstWith
  <2>2. \A s \in Slots : pairs[s].key \notin K BY <1>2, ProbeFacts
  <2> QED BY <2>1, <2>2
<1>3. CASE hits # {}
  <2>1. Min(hits) \in hits /\ \A n \in 0 .. Min(hits) - 1 : n \notin hits
    BY <1>1, <1>3, MinFacts
  <2>2. FirstWith(k, K) = Probe(k, Min(hits)) BY <1>3 DEF FirstWith
  <2>3. Min(hits) \in Slots /\ Min(hits) \in Nat BY <1>1, <2>1
  <2>4. Probe(k, Min(hits)) \in Slots /\ Probe(k, Min(hits)) # NULL
    <3>1. \A i \in Nat : Probe(k, i) \in Slots BY ProbeFacts
    <3>2. \A s \in Slots : s # NULL BY Constants DEF NULL
    <3> HIDE DEF hits
    <3> QED BY <2>3, <3>1, <3>2
  <2>5. \A n \in 0 .. Min(hits) - 1 : n \in Slots BY <2>3, Constants
  <2>6. \A n \in 0 .. Min(hits) - 1 : pairs[Probe(k, n)].key \notin K BY <2>1, <2>5
  <2> QED BY <2>1, <2>2, <2>3, <2>4, <2>6
<1> QED BY <1>2, <1>3

-----------------------------------------------------------------------------
(* What a GET finds                                                         *)

\* A probe for k meets k in slot s, and neither k nor an empty slot before.
Finds(k, s) ==
    /\ pairs[s].key = k
    /\ \E i \in Slots :
          /\ Probe(k, i) = s
          /\ \A n \in 0 .. i - 1 : pairs[Probe(k, n)].key \notin {k, ZeroKey}

\* The slot GetSlot returns is the one that a probe finds.
GetSlotMeaning ==
    /\ GetSlot(ZeroKey) = NULL
    /\ \A k \in Keys \ {ZeroKey} :
          /\ GetSlot(k) # NULL => GetSlot(k) \in Slots /\ Finds(k, GetSlot(k))
          /\ \A s \in Slots : Finds(k, s) => GetSlot(k) = s

LEMMA GetSlotFacts == GetSlotMeaning
<1>1. GetSlot(ZeroKey) = NULL
  <2>1. CASE FirstWith(ZeroKey, {ZeroKey, ZeroKey}) = NULL BY <2>1 DEF GetSlot
  <2>2. CASE FirstWith(ZeroKey, {ZeroKey, ZeroKey}) # NULL
    <3>1. pairs[FirstWith(ZeroKey, {ZeroKey, ZeroKey})].key \in {ZeroKey, ZeroKey}
      BY <2>2, Constants, FirstWithFacts
    <3> QED BY <3>1 DEF GetSlot
  <2> QED BY <2>1, <2>2
<1>2. ASSUME NEW k \in Keys \ {ZeroKey}, GetSlot(k) # NULL
      PROVE  GetSlot(k) \in Slots /\ Finds(k, GetSlot(k))
  <2>1. /\ GetSlot(k) = FirstWith(k, {k, ZeroKey})
        /\ FirstWith(k, {k, ZeroKey}) # NULL
        /\ pairs[FirstWith(k, {k, ZeroKey})].key # ZeroKey
    BY <1>2 DEF GetSlot
  <2>2. PICK i \in Slots :
           /\ FirstWith(k, {k, ZeroKey}) = Probe(k, i) /\ FirstWith(k, {k, ZeroKey}) \in Slots
           /\ pairs[Probe(k, i)].key \in {k, ZeroKey}
           /\ \A n \in 0 .. i - 1 : pairs[Probe(k, n)].key \notin {k, ZeroKey}
    BY <2>1, FirstWithFacts
  <2> QED BY <2>1, <2>2 DEF Finds
<1>3. ASSUME NEW k \in Keys \ {ZeroKey}, NEW s \in Slots, Finds(k, s)
      PROVE  GetSlot(k) = s
  <2>1. PICK j \in Slots :
           /\ Probe(k, j) = s
           /\ \A n \in 0 .. j - 1 : pairs[Probe(k, n)].key \notin {k, ZeroKey}
    BY <1>3 DEF Finds
  <2>2. pairs[s].key = k BY <1>3 DEF Finds
  <2>3. PICK i \in Slots :
           /\ FirstWith(k, {k, ZeroKey}) = Probe(k, i) /\ FirstWith(k, {k, ZeroKey}) # NULL
           /\ pairs[Probe(k, i)].key \in {k, ZeroKey}
           /\ \A n \in 0 .. i - 1 : pairs[Probe(k, n)].key \notin {k, ZeroKey}
    <3>1. ~(\A t \in Slots : pairs[t].key \notin {k, ZeroKey}) BY <2>2
    <3> QED BY <3>1, FirstWithFacts
  <2>4. i \in Nat /\ j \in Nat BY Constants
  <2>5. ~(i < j)
    <3>1. i < j => i \in 0 .. j - 1 BY <2>4
    <3> QED BY <2>1, <2>3, <3>1
  <2>6. ~(j < i)
    <3>1. j < i => j \in 0 .. i - 1 BY <2>4
    <3> QED BY <2>1, <2>2, <2>3, <3>1
  <2>7. i = j BY <2>4, <2>5, <2>6
  <2>8. FirstWith(k, {k, ZeroKey}) = s BY <2>1, <2>3, <2>7
  <2> QED BY <2>2, <2>3, <2>8 DEF GetSlot
<1> QED BY <1>1, <1>2, <1>3 DEF GetSlotMeaning

LEMMA GetSlotFactsNext == GetSlotMeaning'
BY GetSlotFacts, PTL

\* Storing key k with value v in slot s, acknowledged unless it is the zero key.
Stores(k, v, s) ==
    /\ pairs' = [pairs EXCEPT ![s] = [key |-> k, value |-> v]]
    /\ acked' = acked \cup ({k} \ {ZeroKey})
    /\ fresh' = fresh

\* SET puts the key where GET will find it and disturbs no other key.
LEMMA StoreKeeps ==
    ASSUME pairs \in Pairs, fresh \in Pairs, acked \in SUBSET (Keys \ {ZeroKey}), TableInv,
           NEW k \in Keys, NEW v \in Values,
           NEW s, s = FirstWith(k, {k, ZeroKey}), s # NULL, Stores(k, v, s)
    PROVE  /\ pairs' \in Pairs /\ TableInv'
           /\ s \in Slots /\ pairs[s].key \in {k, ZeroKey}
           /\ pairs'[s] = [key |-> k, value |-> v]
           /\ k # ZeroKey => GetSlot(k)' = s
           /\ \A q \in acked \ {k} : /\ GetSlot(q)' = GetSlot(q)
                                     /\ pairs'[GetSlot(q)] = pairs[GetSlot(q)]
<1>1. PICK i \in Slots :
         /\ s = Probe(k, i) /\ s \in Slots /\ pairs[s].key \in {k, ZeroKey}
         /\ \A n \in 0 .. i - 1 : pairs[Probe(k, n)].key \notin {k, ZeroKey}
  BY FirstWithFacts
<1>2. /\ pairs' \in Pairs /\ pairs'[s] = [key |-> k, value |-> v] /\ pairs'[s].key = k
      /\ \A r \in Slots \ {s} : pairs'[r] = pairs[r]
  BY <1>1 DEF Stores, Pairs
<1>3. acked' = acked \cup ({k} \ {ZeroKey}) /\ fresh' = fresh BY DEF Stores
\* What is found before k is stored is found afterwards, in the same slot.
<1>4. ASSUME NEW q \in Keys \ {ZeroKey}, q # k, NEW r \in Slots, Finds(q, r)
      PROVE  r # s /\ GetSlot(q)' = r
  <2>1. PICK j \in Slots :
           /\ Probe(q, j) = r
           /\ \A n \in 0 .. j - 1 : pairs[Probe(q, n)].key \notin {q, ZeroKey}
    BY <1>4 DEF Finds
  <2>2. pairs[r].key = q BY <1>4 DEF Finds
  <2>3. r # s BY <1>1, <1>4, <2>2
  <2>4. \A n \in 0 .. j - 1 : pairs'[Probe(q, n)].key \notin {q, ZeroKey}
    <3> SUFFICES ASSUME NEW n \in 0 .. j - 1
                 PROVE  pairs'[Probe(q, n)].key \notin {q, ZeroKey}
      OBVIOUS
    <3>1. n \in Nat /\ Probe(q, n) \in Slots
      <4>1. n \in Nat BY Constants
      <4> QED BY <4>1, ProbeFacts
    <3>2. CASE Probe(q, n) = s
      <4>1. pairs[s].key # ZeroKey BY <2>1, <3>2
      <4> QED BY <1>1, <1>2, <1>4, <3>2, <4>1
    <3>3. CASE Probe(q, n) # s
      <4>1. pairs'[Probe(q, n)] = pairs[Probe(q, n)] BY <1>2, <3>1, <3>3
      <4> QED BY <2>1, <4>1
    <3> QED BY <3>2, <3>3
  <2>5. pairs'[r].key = q BY <1>2, <2>2, <2>3
  <2>6. Finds(q, r)' BY <2>1, <2>4, <2>5 DEF Finds, Probe
  <2> QED BY <2>3, <2>6, GetSlotFactsNext DEF GetSlotMeaning
<1>5. ASSUME k # ZeroKey PROVE GetSlot(k)' = s
  <2>1. \A n \in 0 .. i - 1 : pairs'[Probe(k, n)].key \notin {k, ZeroKey}
    <3> SUFFICES ASSUME NEW n \in 0 .. i - 1
                 PROVE  pairs'[Probe(k, n)].key \notin {k, ZeroKey}
      OBVIOUS
    <3>1. n \in Nat /\ Probe(k, n) \in Slots
      <4>1. n \in Nat BY <1>1, Constants
      <4> QED BY <4>1, ProbeFacts
    <3>2. Probe(k, n) # s BY <1>1
    <3> QED BY <1>1, <1>2, <3>1, <3>2
  <2>2. Finds(k, s)' BY <1>1, <1>2, <2>1 DEF Finds, Probe
  <2> QED BY <1>1, <1>5, <2>2, GetSlotFactsNext DEF GetSlotMeaning
<1>6. ASSUME NEW q \in acked \ {k}
      PROVE  /\ GetSlot(q)' = GetSlot(q) /\ GetSlot(q) \in Slots
             /\ pairs'[GetSlot(q)] = pairs[GetSlot(q)]
  <2>1. q \in Keys \ {ZeroKey} /\ GetSlot(q) # NULL BY DEF TableInv
  <2>2. GetSlot(q) \in Slots /\ Finds(q, GetSlot(q)) BY <2>1, GetSlotFacts DEF GetSlotMeaning
  <2>3. GetSlot(q) # s /\ GetSlot(q)' = GetSlot(q) BY <1>4, <2>1, <2>2
  <2> QED BY <1>2, <2>2, <2>3
<1>7. ASSUME NEW r \in Slots, r # s PROVE SlotInv(r)'
  <2>1. SlotInv(r) /\ pairs'[r] = pairs[r] /\ fresh'[r] = fresh[r]
    BY <1>2, <1>3, <1>7 DEF TableInv
  <2>2. CASE pairs[r].key = ZeroKey /\ fresh[r].key = ZeroKey BY <2>1, <2>2 DEF SlotInv
  <2>3. CASE pairs[r].key # ZeroKey /\ pairs[r] = fresh[r] BY <2>1, <2>3 DEF SlotInv
  <2>4. CASE \E q \in acked :
               pairs[r].key = q /\ GetSlot(q) = r /\ fresh[r].key \in {ZeroKey, q}
    <3>1. PICK q \in acked :
             pairs[r].key = q /\ GetSlot(q) = r /\ fresh[r].key \in {ZeroKey, q}
      BY <2>4
    <3>2. q # k
      <4> SUFFICES ASSUME q = k PROVE FALSE OBVIOUS
      <4>1. GetSlot(k) = r /\ GetSlot(k) # NULL BY <3>1 DEF TableInv
      <4>2. GetSlot(k) = FirstWith(k, {k, ZeroKey}) BY <4>1 DEF GetSlot
      <4> QED BY <1>7, <4>1, <4>2
    <3>3. GetSlot(q)' = r BY <1>6, <3>1, <3>2
    <3> QED BY <1>3, <2>1, <3>1, <3>3 DEF SlotInv
  <2> QED BY <2>1, <2>2, <2>3, <2>4 DEF SlotInv
<1>8. SlotInv(s)'
  <2>1. SlotInv(s) BY <1>1 DEF TableInv
  <2>2. fresh[s].key \in {k, ZeroKey} /\ (k = ZeroKey => fresh[s].key = ZeroKey)
    BY <1>1, <2>1 DEF SlotInv
  <2>3. CASE k = ZeroKey BY <1>2, <1>3, <2>2, <2>3 DEF SlotInv
  <2>4. CASE k # ZeroKey BY <1>2, <1>3, <1>5, <2>2, <2>4 DEF SlotInv
  <2> QED BY <2>3, <2>4
<1>9. \A q \in acked' : GetSlot(q)' # NULL
  <2>1. ASSUME NEW q \in acked' PROVE GetSlot(q)' # NULL
    <3>1. \A t \in Slots : t # NULL BY Constants DEF NULL
    <3>2. CASE q = k BY <1>1, <1>3, <1>5, <2>1, <3>1, <3>2
    <3>3. CASE q # k BY <1>3, <1>6, <2>1, <3>1, <3>3
    <3> QED BY <3>2, <3>3
  <2> QED BY <2>1
<1>10. TableInv'
  <2>1. \A r \in Slots : SlotInv(r)' BY <1>7, <1>8
  <2>2. Slots' = Slots BY DEF Slots
  <2> QED BY <1>9, <2>1, <2>2 DEF TableInv
<1> QED BY <1>1, <1>2, <1>5, <1>6, <1>10

-----------------------------------------------------------------------------
(* The invariant                                                            *)

\* What a frame may do: nothing to the table, or one SET or GET.
LEMMA RequestFacts ==
    ASSUME NEW ip \in Requests, sashstore_process_frame(ip)
    PROVE  /\ pc = "serve" /\ pc' = pc /\ fresh' = fresh
           /\ \/ reply' = NoReply /\ UNCHANGED <<pairs, acked>>
              \/ \E req : /\ req.key \in Keys /\ req.value \in Values
                          /\ Set(req) \/ Get(req)
<1> DEFINE payload == get_udp_payload(ip)
<1>1. CASE payload = 0 BY <1>1 DEF sashstore_process_frame, Handling
<1>2. CASE payload # 0
  <2>1. ip[payload].key \in Keys /\ ip[payload].value \in Values
    BY <1>2, SashstoreAssumption
  <2>2. /\ pc = "serve" /\ pc' = pc /\ fresh' = fresh
        /\ Set(ip[payload]) \/ Get(ip[payload]) \/ OtherMode(ip[payload])
    BY <1>2 DEF sashstore_process_frame, Handling
  <2> HIDE DEF payload
  <2> QED BY <2>1, <2>2 DEF OtherMode
<1> QED BY <1>1, <1>2

\* What a SET does to the table.
LEMMA SetFacts ==
    ASSUME NEW req, req.key \in Keys, req.value \in Values, Set(req), fresh' = fresh
    PROVE  LET s == FirstWith(req.key, {req.key, ZeroKey})
           IN  \/ s # NULL /\ Stores(req.key, req.value, s) /\ reply' = [status |-> "STORED"]
               \/ s = NULL /\ UNCHANGED <<pairs, acked>> /\ reply' = [status |-> "NOT_STORED"]
BY DEF Set, InsertSlot, Stores, Acknowledge

\* A step that leaves the table and the history alone keeps the invariant.
LEMMA StutterInv ==
    ASSUME IInv, UNCHANGED <<pc, pairs, fresh, acked>>
    PROVE  IInv'
<1>1. \A k : GetSlot(k)' = GetSlot(k) BY DEF GetSlot, FirstWith, Probe
<1>2. TypeInv' BY DEF IInv, TypeInv, Pairs, Slots
<1>3. ASSUME TableInv PROVE TableInv'
  <2>1. ASSUME NEW s \in Slots PROVE SlotInv(s)'
    <3>1. SlotInv(s) BY <1>3 DEF TableInv
    <3> QED BY <1>1, <3>1 DEF SlotInv
  <2> QED BY <1>1, <1>3, <2>1 DEF TableInv, Slots
<1> QED BY <1>2, <1>3 DEF IInv

LEMMA InitInv == Init => IInv
BY DEF Init, IInv, TypeInv

LEMMA NextInv == IInv /\ [Next]_vars => IInv'
<1> SUFFICES ASSUME IInv, [Next]_vars PROVE IInv' OBVIOUS
<1>1. TypeInv /\ (pc = "serve" => TableInv) BY DEF IInv
<1>2. CASE sashstore_init
  <2>1. pc = "init" /\ pairs = <<>> /\ acked = {} /\ acked' = acked /\ fresh' = pairs'
    BY <1>1, <1>2 DEF sashstore_init, TypeInv
  <2>2. CASE pc' = "serve" /\ pairs' \in [Slots -> [key : Keys, value : Values]]
    <3>1. pairs' \in Pairs BY <2>2 DEF Pairs
    <3>2. \A s \in Slots : SlotInv(s)' BY <2>1 DEF SlotInv
    <3>3. TableInv' BY <2>1, <3>2 DEF TableInv, Slots
    <3> QED BY <2>1, <2>2, <3>1, <3>3 DEF IInv, TypeInv
  <2>3. CASE pc' = "exit" /\ UNCHANGED pairs
    BY <2>1, <2>3 DEF IInv, TypeInv
  <2> QED BY <1>2, <2>2, <2>3 DEF sashstore_init
<1>3. CASE \E ip \in Requests : sashstore_process_frame(ip)
  <2>1. PICK ip \in Requests : sashstore_process_frame(ip) BY <1>3
  <2>2. /\ pc = "serve" /\ pc' = pc /\ fresh' = fresh /\ pairs \in Pairs /\ fresh \in Pairs
        /\ acked \in SUBSET (Keys \ {ZeroKey}) /\ TableInv
    BY <1>1, <2>1, RequestFacts DEF TypeInv
  <2>3. CASE UNCHANGED <<pairs, acked>> BY <2>2, <2>3, StutterInv
  <2>4. CASE ~UNCHANGED <<pairs, acked>>
    <3>1. PICK req : req.key \in Keys /\ req.value \in Values /\ Set(req)
      BY <2>1, <2>4, RequestFacts DEF Get
    <3> DEFINE s == FirstWith(req.key, {req.key, ZeroKey})
    <3>2. s # NULL /\ Stores(req.key, req.value, s) BY <2>2, <2>4, <3>1, SetFacts
    <3>3. pairs' \in Pairs /\ TableInv' BY <2>2, <3>1, <3>2, StoreKeeps
    <3>4. acked' \in SUBSET (Keys \ {ZeroKey}) BY <2>2, <3>1, <3>2 DEF Stores
    <3> HIDE DEF s
    <3> QED BY <2>2, <3>3, <3>4 DEF IInv, TypeInv
  <2> QED BY <2>3, <2>4
<1>4. CASE UNCHANGED vars BY <1>4, StutterInv DEF vars
<1> QED BY <1>2, <1>3, <1>4 DEF Next

LEMMA Invariant == Spec => []IInv
BY InitInv, NextInv, PTL DEF Spec

\* A GET finds every key whose SET was acknowledged, whatever the memory held
\* at first: another copy of the key is an untouched leftover of fresh memory.
THEOREM KeysStayReachable == Spec => []KeysReachable
<1>1. ASSUME IInv, NEW k \in acked
      PROVE  /\ GetSlot(k) # NULL
             /\ \A r \in Slots \ {GetSlot(k)} : pairs[r].key = k => pairs[r] = fresh[r]
  <2>1. pc = "serve" /\ TableInv /\ k # ZeroKey BY <1>1 DEF IInv, TypeInv
  <2>2. GetSlot(k) # NULL BY <2>1 DEF TableInv
  <2>3. ASSUME NEW r \in Slots \ {GetSlot(k)}, pairs[r].key = k PROVE pairs[r] = fresh[r]
    BY <2>1, <2>3 DEF TableInv, SlotInv
  <2> QED BY <2>2, <2>3
<1>2. IInv => KeysReachable BY <1>1 DEF KeysReachable
<1> QED BY <1>2, Invariant, PTL

-----------------------------------------------------------------------------
(* Counting                                                                 *)

\* The invariant while the store is served.
Serving ==
    /\ pc = "serve" /\ pairs \in Pairs /\ fresh \in Pairs
    /\ acked \in SUBSET (Keys \ {ZeroKey}) /\ TableInv

LEMMA ServingFacts == IInv /\ pc = "serve" => Serving
BY DEF IInv, TypeInv, Serving

\* An acknowledged key is in the slot that GET returns.
LEMMA AckedSlot ==
    ASSUME Serving, NEW k \in acked
    PROVE  GetSlot(k) \in Slots /\ GetSlot(k) # NULL /\ pairs[GetSlot(k)].key = k
<1>1. k \in Keys \ {ZeroKey} /\ GetSlot(k) # NULL BY DEF Serving, TableInv
<1>2. GetSlot(k) \in Slots /\ Finds(k, GetSlot(k)) BY <1>1, GetSlotFacts DEF GetSlotMeaning
<1> QED BY <1>1, <1>2 DEF Finds

LEMMA SlotsFinite == \A S \in SUBSET Slots : IsFiniteSet(S) /\ Cardinality(S) \in Nat
<1>1. IsFiniteSet(0 .. Capacity - 1)
  <2>1. 0 \in Int /\ Capacity - 1 \in Int BY Constants
  <2> QED BY <2>1, FS_Interval
<1> QED BY <1>1, FS_Subset, FS_CardinalityType DEF Slots

LEMMA LeftFacts ==
    ASSUME Serving
    PROVE  /\ LeftSlots = {s \in Slots : fresh[s].key # ZeroKey}
           /\ {p[1] : p \in Leftover} = {fresh[s].key : s \in LeftSlots}
           /\ Room = Cardinality(Slots \ LeftSlots) /\ Room \in Nat
<1>1. DOMAIN fresh = Slots BY DEF Serving, Pairs
<1>2. LeftSlots = {s \in Slots : fresh[s].key # ZeroKey} BY <1>1 DEF LeftSlots
<1>3. {p[1] : p \in Leftover} = {fresh[s].key : s \in LeftSlots}
  <2>1. ASSUME NEW p \in Leftover PROVE p[1] \in {fresh[s].key : s \in LeftSlots}
    <3>1. PICK s \in LeftSlots : p = <<fresh[s].key, fresh[s].value>> BY DEF Leftover
    <3>2. p[1] = fresh[s].key BY <3>1
    <3> QED BY <3>2
  <2>2. ASSUME NEW s \in LeftSlots PROVE fresh[s].key \in {p[1] : p \in Leftover}
    <3>1. <<fresh[s].key, fresh[s].value>> \in Leftover BY DEF Leftover
    <3>2. <<fresh[s].key, fresh[s].value>>[1] = fresh[s].key OBVIOUS
    <3> QED BY <3>1, <3>2, Zenon
  <2> QED BY <2>1, <2>2
<1>4. Room = Cardinality(Slots \ LeftSlots) BY DEF Serving, Room
<1>5. Slots \ LeftSlots \in SUBSET Slots OBVIOUS
<1> QED BY <1>2, <1>3, <1>4, <1>5, SlotsFinite

\* The keys that are not leftovers are in different slots that looked empty at
\* first and do not any more.
Filled == {s \in Slots \ LeftSlots : pairs[s].key # ZeroKey}
NewKeys == acked \ {p[1] : p \in Leftover}

LEMMA NewKeysCount ==
    ASSUME Serving
    PROVE  /\ IsFiniteSet(NewKeys) /\ Cardinality(NewKeys) \in Nat
           /\ Cardinality(NewKeys) <= Cardinality(Filled)
<1> DEFINE f == [k \in NewKeys |-> GetSlot(k)]
<1>1. ASSUME NEW k \in NewKeys PROVE GetSlot(k) \in Filled
  <2>1. k \in acked /\ k # ZeroKey BY DEF NewKeys, Serving
  <2>2. GetSlot(k) \in Slots /\ pairs[GetSlot(k)].key = k BY <2>1, AckedSlot
  <2>3. fresh[GetSlot(k)].key \in {ZeroKey, k}
    BY <2>1, <2>2 DEF Serving, TableInv, SlotInv
  <2>4. GetSlot(k) \notin LeftSlots
    <3>1. GetSlot(k) \in LeftSlots => k \in {fresh[s].key : s \in LeftSlots}
      BY <2>3, LeftFacts
    <3> QED BY <3>1, LeftFacts DEF NewKeys
  <2> QED BY <2>1, <2>2, <2>4 DEF Filled
<1>2. ASSUME NEW k \in NewKeys, NEW q \in NewKeys, GetSlot(k) = GetSlot(q) PROVE k = q
  <2>1. pairs[GetSlot(k)].key = k /\ pairs[GetSlot(q)].key = q BY AckedSlot DEF NewKeys
  <2> QED BY <1>2, <2>1
<1>3. f \in Injection(NewKeys, Filled) BY <1>1, <1>2 DEF Injection, IsInjective
<1>4. IsFiniteSet(Filled) BY SlotsFinite DEF Filled
<1> HIDE DEF f
<1> QED BY <1>3, <1>4, FS_Injection, FS_CardinalityType

\* They fit in the room that there was, with a slot to spare while one looks
\* empty.
LEMMA RoomForNewKeys ==
    ASSUME Serving
    PROVE  /\ Cardinality(NewKeys) <= Room
           /\ (\E s \in Slots : pairs[s].key = ZeroKey) => Cardinality(NewKeys) < Room
<1>1. Filled \in SUBSET (Slots \ LeftSlots) BY DEF Filled
<1>2. IsFiniteSet(Slots \ LeftSlots) /\ Room = Cardinality(Slots \ LeftSlots) /\ Room \in Nat
  BY SlotsFinite, LeftFacts
<1>3. /\ Cardinality(Filled) <= Room
      /\ Cardinality(Filled) = Room => Filled = Slots \ LeftSlots
  BY <1>1, <1>2, FS_Subset
<1>4. Cardinality(Filled) \in Nat
  <2>1. Filled \in SUBSET Slots BY <1>1
  <2> QED BY <2>1, SlotsFinite
<1>5. Cardinality(NewKeys) \in Nat /\ Cardinality(NewKeys) <= Cardinality(Filled)
  BY NewKeysCount
<1>6. ASSUME NEW s \in Slots, pairs[s].key = ZeroKey PROVE Filled # Slots \ LeftSlots
  <2>1. fresh[s].key = ZeroKey
    BY <1>6 DEF Serving, TableInv, SlotInv
  <2>2. s \in Slots \ LeftSlots BY <2>1, LeftFacts
  <2>3. s \notin Filled BY <1>6 DEF Filled
  <2> QED BY <2>2, <2>3
<1> QED BY <1>2, <1>3, <1>4, <1>5, <1>6

\* When no slot looks empty any more, each that did holds an acknowledged key.
LEMMA FullCount ==
    ASSUME Serving, \A s \in Slots : pairs[s].key # ZeroKey
    PROVE  Cardinality(acked) \in Nat /\ Cardinality(acked) >= Room
<1> DEFINE g == [k \in acked |-> GetSlot(k)]
           f == [s \in Slots \ LeftSlots |-> pairs[s].key]
<1>1. IsFiniteSet(acked) /\ Cardinality(acked) \in Nat
  <2>1. \A k, q \in acked : GetSlot(k) = GetSlot(q) => k = q
    <3> SUFFICES ASSUME NEW k \in acked, NEW q \in acked, GetSlot(k) = GetSlot(q)
                 PROVE  k = q
      OBVIOUS
    <3>1. pairs[GetSlot(k)].key = k /\ pairs[GetSlot(q)].key = q BY AckedSlot
    <3> QED BY <3>1
  <2>2. g \in Injection(acked, Slots) BY <2>1, AckedSlot DEF Injection, IsInjective
  <2>3. IsFiniteSet(Slots) BY SlotsFinite
  <2> HIDE DEF g
  <2> QED BY <2>2, <2>3, FS_Injection, FS_CardinalityType
<1>2. ASSUME NEW s \in Slots \ LeftSlots
      PROVE  pairs[s].key \in acked /\ GetSlot(pairs[s].key) = s
  <2>1. pairs[s].key # ZeroKey /\ fresh[s].key = ZeroKey BY LeftFacts
  <2> QED BY <2>1 DEF Serving, TableInv, SlotInv
<1>3. ASSUME NEW s \in Slots \ LeftSlots, NEW r \in Slots \ LeftSlots,
             pairs[s].key = pairs[r].key
      PROVE  s = r
  BY <1>2, <1>3
<1>4. f \in Injection(Slots \ LeftSlots, acked) BY <1>2, <1>3 DEF Injection, IsInjective
<1> HIDE DEF f, g
<1>5. Cardinality(Slots \ LeftSlots) <= Cardinality(acked) BY <1>1, <1>4, FS_Injection
<1> QED BY <1>1, <1>5, LeftFacts

\* Cardinality means the same in the abstract specification.
LEMMA SameCardinality == \A S : Abstract!Cardinality(S) = Cardinality(S)
BY Zenon DEF Abstract!Cardinality, Cardinality

-----------------------------------------------------------------------------
(* Every step of the store is a step of the map                             *)

LEMMA StoredFacts ==
    DOMAIN Stored = acked /\ \A k \in acked : Stored[k] = pairs[GetSlot(k)].value
BY DEF Stored

\* What the abstract state is made of stays if the table and the history do.
LEMMA AbstractUnchanged ==
    ASSUME UNCHANGED <<pc, pairs, fresh, acked>>
    PROVE  Stored' = Stored /\ Room' = Room /\ Leftover' = Leftover
<1>1. \A k : GetSlot(k)' = GetSlot(k) BY DEF GetSlot, FirstWith, Probe
<1>2. Stored' = Stored BY <1>1 DEF Stored
<1>3. LeftSlots' = LeftSlots BY DEF LeftSlots
<1>4. Leftover' = Leftover BY <1>3 DEF Leftover
<1>5. Room' = Room BY <1>3 DEF Room, Slots
<1> QED BY <1>2, <1>4, <1>5

LEMMA InitRefines == Init => Abstract!Init
<1> SUFFICES ASSUME Init PROVE Abstract!Init OBVIOUS
<1>1. Stored = <<>> BY DEF Init, Stored
<1>2. Leftover = {} BY DEF Init, Leftover, LeftSlots
<1> QED BY <1>1, <1>2 DEF Init, Abstract!Init, Abstract!Closed, Abstract!Answer, Room, NoReply

LEMMA OpenRefines ==
    ASSUME IInv, IInv', sashstore_init
    PROVE  [Abstract!Next]_Abstract!vars
<1>1. /\ pc = "init" /\ pairs = <<>> /\ fresh = <<>> /\ acked = {}
      /\ acked' = acked /\ reply' = reply /\ fresh' = pairs'
  BY DEF IInv, TypeInv, sashstore_init
<1>2. CASE pc' = "serve"
  <2>1. Serving' BY <1>2 DEF IInv, TypeInv, Serving
  <2>2. Stored' = Stored BY <1>1 DEF Stored
  <2>3. Room = Abstract!Closed BY <1>1 DEF Room, Abstract!Closed
  <2>4. Room' \in Nat
    <3>1. (Serving => Room \in Nat)' BY LeftFacts, PTL
    <3> QED BY <2>1, <3>1
  <2>5. Leftover' \subseteq (Keys \ {ZeroKey}) \X Values
    <3>1. fresh' \in [Slots -> [key : Keys, value : Values]] BY <2>1 DEF Serving, Pairs, Slots
    <3>2. LeftSlots' = {s \in Slots : fresh'[s].key # ZeroKey} BY <3>1 DEF LeftSlots
    <3>3. \A s \in LeftSlots' :
             <<fresh'[s].key, fresh'[s].value>> \in (Keys \ {ZeroKey}) \X Values
      BY <3>1, <3>2
    <3> QED BY <3>3 DEF Leftover
  <2>6. Abstract!Open BY <1>1, <2>2, <2>3, <2>4, <2>5 DEF Abstract!Open
  <2> QED BY <2>6 DEF Abstract!Next
<1>3. CASE pc' = "exit" /\ UNCHANGED pairs
  <2>1. Stored' = Stored BY <1>1 DEF Stored
  <2>2. fresh' = fresh BY <1>1, <1>3
  <2>3. Leftover' = Leftover /\ Room' = Room BY <1>1, <1>3, <2>2 DEF Leftover, LeftSlots, Room
  <2> QED BY <1>1, <2>1, <2>3 DEF Abstract!vars
<1> QED BY <1>2, <1>3 DEF sashstore_init

LEMMA OpenRoom ==
    ASSUME Serving
    PROVE  Room # Abstract!Closed
BY LeftFacts DEF Abstract!Closed

LEMMA StoreRefines ==
    ASSUME Serving, Serving', NEW k \in Keys, NEW v \in Values, pc' = pc,
           NEW s, s = FirstWith(k, {k, ZeroKey}), s # NULL, Stores(k, v, s),
           reply' = [status |-> "STORED"]
    PROVE  Abstract!Next
<1>1. /\ s \in Slots /\ pairs[s].key \in {k, ZeroKey}
      /\ pairs'[s] = [key |-> k, value |-> v]
      /\ k # ZeroKey => GetSlot(k)' = s
      /\ \A q \in acked \ {k} : /\ GetSlot(q)' = GetSlot(q)
                                /\ pairs'[GetSlot(q)] = pairs[GetSlot(q)]
  BY StoreKeeps DEF Serving
<1>2. acked' = acked \cup ({k} \ {ZeroKey}) /\ fresh' = fresh BY DEF Stores
<1>3. Leftover' = Leftover /\ Room' = Room BY <1>2 DEF Leftover, LeftSlots, Room, Slots
<1>4. Room # Abstract!Closed BY OpenRoom
<1>5. Stored' = [q \in acked' |-> pairs'[GetSlot(q)'].value] BY DEF Stored
<1>6. CASE k = ZeroKey
  <2>1. k \notin acked /\ acked' = acked BY <1>2, <1>6 DEF Serving
  <2>2. Stored' = Stored BY <1>1, <1>5, <2>1 DEF Stored
  <2>3. Abstract!Cardinality(Abstract!Placed(DOMAIN Stored)) < Room
    <3>1. Cardinality(NewKeys) < Room BY <1>1, <1>6, RoomForNewKeys
    <3>2. Abstract!Placed(DOMAIN Stored) = NewKeys
      BY StoredFacts DEF NewKeys, Abstract!Placed
    <3> QED BY <3>1, <3>2, SameCardinality
  <2>4. Abstract!SetReserved(k)
    BY <1>3, <1>6, <2>2, <2>3 DEF Abstract!SetReserved, Abstract!Answer
  <2> QED BY <1>4, <2>4 DEF Abstract!Next, Abstract!Request
<1>7. CASE k # ZeroKey
  <2>1. acked' = acked \cup {k} BY <1>2, <1>7
  <2>2. Stored' = [x \in DOMAIN Stored \cup {k} |-> IF x = k THEN v ELSE Stored[x]]
    <3>1. \A q \in acked' : pairs'[GetSlot(q)'].value = IF q = k THEN v ELSE Stored[q]
      <4> SUFFICES ASSUME NEW q \in acked'
                   PROVE  pairs'[GetSlot(q)'].value = IF q = k THEN v ELSE Stored[q]
        OBVIOUS
      <4>1. CASE q = k BY <1>1, <1>7, <4>1
      <4>2. CASE q # k
        <5>1. q \in acked \ {k} BY <2>1, <4>2
        <5>2. GetSlot(q)' = GetSlot(q) /\ pairs'[GetSlot(q)] = pairs[GetSlot(q)]
          BY <1>1, <5>1
        <5>3. pairs'[GetSlot(q)'].value = Stored[q] BY <5>1, <5>2, StoredFacts
        <5> QED BY <4>2, <5>3
      <4> QED BY <4>1, <4>2
    <3>2. acked' = DOMAIN Stored \cup {k} BY <2>1, StoredFacts
    <3> QED BY <1>5, <3>1, <3>2
  <2>3. Abstract!Cardinality(Abstract!Placed(DOMAIN Stored \cup {k})) <= Room
    <3>1. (Serving => Cardinality(NewKeys) <= Room)' BY RoomForNewKeys, PTL
    <3>2. NewKeys' = Abstract!Placed(DOMAIN Stored \cup {k})
      BY <1>3, <2>1, StoredFacts DEF NewKeys, Abstract!Placed
    <3>3. Cardinality(NewKeys') <= Room BY <1>3, <3>1
    <3> QED BY <3>2, <3>3, SameCardinality
  <2>4. Abstract!Set(k, v)
    BY <1>3, <1>7, <2>2, <2>3 DEF Abstract!Set, Abstract!Answer
  <2> QED BY <1>4, <2>4 DEF Abstract!Next, Abstract!Request
<1> QED BY <1>6, <1>7

LEMMA RefuseRefines ==
    ASSUME Serving, pc' = pc, fresh' = fresh, NEW k \in Keys,
           FirstWith(k, {k, ZeroKey}) = NULL, UNCHANGED <<pairs, acked>>,
           reply' = [status |-> "NOT_STORED"]
    PROVE  Abstract!Next
<1>1. \A s \in Slots : pairs[s].key \notin {k, ZeroKey} BY FirstWithFacts
<1>2. k \notin acked BY <1>1, AckedSlot
<1>3. Stored' = Stored /\ Room' = Room /\ Leftover' = Leftover BY AbstractUnchanged
<1>4. Room # Abstract!Closed BY OpenRoom
<1>5. Abstract!Cardinality(DOMAIN Stored) >= Room
  <2>1. Cardinality(acked) >= Room BY <1>1, FullCount
  <2> QED BY <2>1, StoredFacts, SameCardinality
<1>6. Abstract!SetRefused(k)
  BY <1>2, <1>3, <1>5, StoredFacts DEF Abstract!SetRefused, Abstract!Answer
<1> QED BY <1>4, <1>6 DEF Abstract!Next, Abstract!Request

LEMMA GetRefines ==
    ASSUME Serving, pc' = pc, fresh' = fresh, NEW req, req.key \in Keys, Get(req)
    PROVE  Abstract!Next
<1> DEFINE k == req.key
<1>1. UNCHANGED <<pairs, acked>> BY DEF Get
<1>2. Stored' = Stored /\ Room' = Room /\ Leftover' = Leftover BY <1>1, AbstractUnchanged
<1>3. Room # Abstract!Closed BY OpenRoom
<1>4. reply' = IF GetSlot(k) # NULL
                 THEN [status |-> "VALUE", value |-> pairs[GetSlot(k)].value]
                 ELSE [status |-> "NOT_FOUND"]
  BY DEF Get
<1>5. Abstract!Get(k)
  <2>1. CASE k \in acked
    <3>1. reply' = [status |-> "VALUE", value |-> Stored[k]]
      BY <1>4, <2>1, AckedSlot, StoredFacts
    <3> QED BY <1>2, <2>1, <3>1, StoredFacts DEF Abstract!Get, Abstract!Value
  <2>2. CASE k \notin acked /\ GetSlot(k) = NULL
    <3>1. reply' = [status |-> "NOT_FOUND"] BY <1>4, <2>2
    <3> QED BY <1>2, <2>2, <3>1, StoredFacts DEF Abstract!Get, Abstract!Answer
  \* Nobody has stored the key: it is a leftover.
  <2>3. CASE k \notin acked /\ GetSlot(k) # NULL
    <3> DEFINE s == GetSlot(k)
    <3>1. k \in Keys \ {ZeroKey} BY <2>3, GetSlotFacts DEF GetSlotMeaning
    <3>2. s \in Slots /\ pairs[s].key = k
      <4>1. s \in Slots /\ Finds(k, s) BY <2>3, <3>1, GetSlotFacts DEF GetSlotMeaning
      <4> QED BY <4>1 DEF Finds
    <3>3. pairs[s] = fresh[s]
      <4>1. SlotInv(s) BY <3>2 DEF Serving, TableInv
      <4> HIDE DEF s, k
      <4> QED BY <2>3, <3>1, <3>2, <4>1 DEF SlotInv
    <3>4. s \in LeftSlots BY <3>1, <3>2, <3>3, LeftFacts
    <3>5. <<k, pairs[s].value>> \in Leftover BY <3>2, <3>3, <3>4 DEF Leftover
    <3>6. reply' = Abstract!Value(pairs[s].value) BY <1>4, <2>3 DEF Abstract!Value
    <3>7. \E p \in Leftover : p[1] = k /\ reply' = Abstract!Value(p[2])
      <4> DEFINE q == <<k, pairs[s].value>>
      <4>1. q[1] = k /\ q[2] = pairs[s].value OBVIOUS
      <4> HIDE DEF s, k
      <4> QED BY <3>5, <3>6, <4>1
    <3> HIDE DEF s
    <3> QED BY <1>2, <2>3, <3>7, StoredFacts DEF Abstract!Get
  <2> QED BY <2>1, <2>2, <2>3
<1> HIDE DEF k
<1>6. k \in Keys BY DEF k
<1> QED BY <1>3, <1>5, <1>6 DEF Abstract!Next, Abstract!Request

LEMMA NextRefines == IInv /\ IInv' /\ [Next]_vars => [Abstract!Next]_Abstract!vars
<1> SUFFICES ASSUME IInv, IInv', [Next]_vars PROVE [Abstract!Next]_Abstract!vars OBVIOUS
<1>1. CASE sashstore_init BY <1>1, OpenRefines
<1>2. CASE \E ip \in Requests : sashstore_process_frame(ip)
  <2>1. PICK ip \in Requests : sashstore_process_frame(ip) BY <1>2
  <2>2. pc = "serve" /\ pc' = pc /\ fresh' = fresh /\ Serving
    BY <2>1, RequestFacts, ServingFacts
  <2>3. Serving'
    <3>1. (IInv /\ pc = "serve" => Serving)' BY ServingFacts, PTL
    <3> QED BY <2>2, <3>1
  <2>4. CASE reply' = NoReply /\ UNCHANGED <<pairs, acked>>
    <3>1. Room' = Room /\ Stored' = Stored /\ Leftover' = Leftover
      BY <2>2, <2>4, AbstractUnchanged
    <3>2. Room # Abstract!Closed BY <2>2, OpenRoom
    <3> QED BY <2>4, <3>1, <3>2
        DEF Abstract!Next, Abstract!Request, Abstract!Ignore, Abstract!Answer, NoReply
  <2>5. CASE \E req : req.key \in Keys /\ req.value \in Values /\ (Set(req) \/ Get(req))
    <3>1. PICK req : req.key \in Keys /\ req.value \in Values /\ (Set(req) \/ Get(req))
      BY <2>5
    <3>2. CASE Get(req) BY <2>2, <3>1, <3>2, GetRefines
    <3>3. CASE Set(req)
      BY <2>2, <2>3, <3>1, <3>3, SetFacts, StoreRefines, RefuseRefines
    <3> QED BY <3>1, <3>2, <3>3
  <2> QED BY <2>1, <2>4, <2>5, RequestFacts
<1>3. CASE UNCHANGED vars
  <2>1. Room' = Room /\ Stored' = Stored /\ Leftover' = Leftover /\ reply' = reply
    BY <1>3, AbstractUnchanged DEF vars
  <2> QED BY <2>1 DEF Abstract!vars
<1> QED BY <1>1, <1>2, <1>3 DEF Next

\* The store is a map of the acknowledged keys, for any first contents of the
\* memory: a GET of such a key returns what its last SET stored, a GET of
\* another key finds nothing or a pair that was left over in fresh memory, and a
\* SET is refused only for a new key when as many are stored as slots looked
\* empty at first.
THEOREM SashstoreIsMap == Spec => ImplementsKVStore
BY InitRefines, NextRefines, Invariant, PTL DEF Spec, ImplementsKVStore, Abstract!Spec

=============================================================================
