---------------------------- MODULE L2fwdProofs ----------------------------
(***************************************************************************)
(* Proofs about L2fwd for every number of workers, ports, queues, mbufs    *)
(* and packets, every mode and every report period.                        *)
(***************************************************************************)
EXTENDS L2fwd, FiniteSetTheorems, WellFoundedInduction, TLAPS

-----------------------------------------------------------------------------
(* The inductive invariant                                                  *)

TypeInv == TypeOK /\ i \in [Workers -> Nat]

\* Where the loop of worker w stands.
WorkerInv(w) ==
    /\ pc[w] \in {"parked", "started"} => i[w] = 1
    /\ pc[w] \in {"loop", "poll"} \cup Busy => i[w] \in 1 .. Len(RxList[w])
    /\ pc[w] = "map" => mode = "maglev" /\ todo[w] # {}
    /\ pc[w] \in {"hash", "lookup", "apply"} => mode = "dramblast"
    /\ pc[w] = "tx" => todo[w] = {}
    /\ pc[w] \notin Busy => pkts_burst[w] = {}
    /\ todo[w] \subseteq pkts_burst[w]

\* Main tears down only what no worker will use again.
MainInv ==
    /\ main_pc = "launch" => \A w \in Workers : pc[w] = "parked"
    /\ main_pc \in {"stop", "exit"} => \A w \in Workers : pc[w] = "exited"
    /\ main_pc \notin {"stop", "exit"} =>
          started = Ports /\ table_alive = (mode # "none")

ControlInv == TypeInv /\ MainInv /\ \A w \in Workers : WorkerInv(w)

-----------------------------------------------------------------------------
(* The worker's current queue and counters                                  *)

LEMMA QueueFacts ==
    ASSUME TypeInv, NEW w \in Workers, i[w] \in 1 .. Len(RxList[w])
    PROVE  /\ Queue(w) \in Queues /\ Port(w) \in Ports /\ Port(w) = Queue(w)[1]
           /\ <<Port(w), w>> \in Cells
<1>1. RxList[w] \in Seq(Ports \X Nat) BY L2fwdAssumption
<1>2. i[w] \in DOMAIN RxList[w] /\ RxList[w][i[w]] \in Ports \X Nat BY <1>1
<1>3. Queue(w) \in Ports \X Nat BY <1>2 DEF Queue
<1>4. Queue(w) \in Queues BY <1>2 DEF Queue, Queues
<1> QED BY <1>3, <1>4 DEF Port, Cells

Fields == {"rx", "fwded", "unmapped", "tx", "tx_dropped"}

LEMMA NoStatsFacts ==
    /\ DOMAIN NoStats = Fields
    /\ \A f \in Fields : NoStats[f] = 0
    /\ NoStats \in [Fields -> Nat]
BY DEF NoStats, Fields

\* Count adds d to the worker's own counters and to no others.
LEMMA CountFacts ==
    ASSUME TypeInv, NEW w \in Workers, i[w] \in 1 .. Len(RxList[w]),
           NEW d \in [Fields -> Nat], Count(w, d)
    PROVE  /\ port_statistics' \in [Cells -> [Fields -> Nat]]
           /\ \A f \in Fields : port_statistics'[<<Port(w), w>>][f]
                                  = port_statistics[<<Port(w), w>>][f] + d[f]
           /\ \A c \in Cells \ {<<Port(w), w>>} : port_statistics'[c] = port_statistics[c]
<1> DEFINE c == <<Port(w), w>>
           s == [f \in Fields |-> port_statistics[c][f] + d[f]]
<1>1. c \in Cells BY QueueFacts
<1>2. port_statistics \in [Cells -> [Fields -> Nat]]
  BY NoStatsFacts DEF TypeInv, TypeOK
<1>3. port_statistics' = [port_statistics EXCEPT ![c] = s] BY NoStatsFacts DEF Count
<1>4. s \in [Fields -> Nat] BY <1>1, <1>2
<1> HIDE DEF c, s
<1>5. /\ port_statistics' \in [Cells -> [Fields -> Nat]]
      /\ port_statistics'[c] = s
      /\ \A x \in Cells \ {c} : port_statistics'[x] = port_statistics[x]
  BY <1>1, <1>2, <1>3, <1>4
<1> QED BY <1>5 DEF c, s

-----------------------------------------------------------------------------
(* Control: the steps of a worker                                           *)

Labels == {"parked", "started", "loop", "poll", "exited"} \cup Busy

\* Worker w moves to label l and entry n of its list, with burst B of which T
\* is still to do.
Moves(w, l, n, B, T) ==
    /\ pc[w] \notin {"parked", "exited"}
    /\ l \in Labels \ {"parked", "started"}
    /\ n \in 1 .. Len(RxList[w]) \/ (l = "exited" /\ n = i[w])
    /\ B \in SUBSET Mbufs /\ T \in SUBSET B
    /\ l \notin Busy => B = {}
    /\ l = "map" => mode = "maglev" /\ T # {}
    /\ l = "tx" => T = {}
    /\ l \in {"hash", "lookup", "apply"} => mode = "dramblast"
    /\ pc' = [pc EXCEPT ![w] = l] /\ i' = [i EXCEPT ![w] = n]
    /\ pkts_burst' = [pkts_burst EXCEPT ![w] = B] /\ todo' = [todo EXCEPT ![w] = T]
    /\ port_statistics' \in [Cells -> [Fields -> Nat]]
    /\ pool' \subseteq Mbufs
    /\ rx_ring' \in [Queues -> SUBSET Mbufs] /\ tx_ring' \in [Queues -> SUBSET Mbufs]
    /\ UNCHANGED <<force_quit, tsc, mainVars, started, arrived, table_alive>>

\* Such a step keeps the control invariant.
LEMMA WorkerStep ==
    ASSUME ControlInv, NEW w \in Workers, NEW l, NEW n, NEW B, NEW T,
           Moves(w, l, n, B, T)
    PROVE  ControlInv'
<1> USE DEF Moves
<1>1. TypeInv /\ TypeOK /\ MainInv /\ \A v \in Workers : WorkerInv(v)
  BY DEF ControlInv, TypeInv
<1>2. UNCHANGED <<force_quit, tsc, main_pc, mode, timer_arg, timer_period, cur_tsc, prev_tsc, scan,
                  total_packets_fwded, total_packets_fwded_prev, SAMPLE_SIZE,
                  started, arrived, table_alive>>
  BY DEF mainVars, config
<1>3. /\ pc'[w] = l /\ i'[w] = n /\ pkts_burst'[w] = B /\ todo'[w] = T
      /\ \A v \in Workers \ {w} :
            /\ pc'[v] = pc[v] /\ i'[v] = i[v]
            /\ pkts_burst'[v] = pkts_burst[v] /\ todo'[v] = todo[v]
  BY <1>1 DEF TypeInv, TypeOK
<1>4. TypeOK'
  <2>1. pc' \in [Workers -> {"parked", "started", "loop", "poll", "exited"} \cup Busy]
    BY <1>1 DEF TypeOK, Labels
  <2>2. \A v \in Workers : i'[v] \in 1 .. Len(RxList[v]) \cup {1}
    BY <1>1, <1>3 DEF TypeOK
  <2>3. pkts_burst' \in [Workers -> SUBSET Mbufs] /\ todo' \in [Workers -> SUBSET Mbufs]
    BY <1>1 DEF TypeOK
  <2>4. port_statistics' \in [Cells -> [DOMAIN NoStats -> Nat]] BY NoStatsFacts
  <2> QED BY <1>1, <1>2, <2>1, <2>2, <2>3, <2>4 DEF TypeOK
<1>5. i' \in [Workers -> Nat]
  <2>1. n \in Nat BY <1>1 DEF TypeInv
  <2> QED BY <1>1, <2>1 DEF TypeInv
<1>6. MainInv' BY <1>1, <1>2, <1>3 DEF MainInv
<1>7. ASSUME NEW v \in Workers PROVE WorkerInv(v)'
  <2>1. CASE v = w BY <1>2, <1>3, <2>1 DEF WorkerInv, Busy
  <2>2. CASE v # w
    <3>1. WorkerInv(v) BY <1>1
    <3> QED BY <1>2, <1>3, <2>2, <3>1 DEF WorkerInv
  <2> QED BY <2>1, <2>2
<1> QED BY <1>4, <1>5, <1>6, <1>7 DEF ControlInv, TypeInv

\* Writing back what is there changes nothing.
LEMMA Same ==
    ASSUME TypeInv, NEW w \in Workers
    PROVE  /\ i = [i EXCEPT ![w] = i[w]] /\ i[w] \in Nat
           /\ pkts_burst = [pkts_burst EXCEPT ![w] = pkts_burst[w]]
           /\ todo = [todo EXCEPT ![w] = todo[w]]
           /\ pkts_burst[w] \in SUBSET Mbufs
           /\ port_statistics \in [Cells -> [Fields -> Nat]]
           /\ pool \subseteq Mbufs
           /\ rx_ring \in [Queues -> SUBSET Mbufs] /\ tx_ring \in [Queues -> SUBSET Mbufs]
BY NoStatsFacts DEF TypeInv, TypeOK

\* The next queue is one of the worker's.
LEMMA NextQueueFacts ==
    ASSUME ControlInv, NEW w \in Workers, i[w] \in 1 .. Len(RxList[w]), NextQueue(w)
    PROVE  \E l \in {"poll", "loop"}, n \in 1 .. Len(RxList[w]) :
               pc' = [pc EXCEPT ![w] = l] /\ i' = [i EXCEPT ![w] = n]
<1>1. Len(RxList[w]) \in Nat /\ i[w] \in Nat BY L2fwdAssumption
<1>2. CASE i[w] < Len(RxList[w])
  <2>1. i[w] + 1 \in 1 .. Len(RxList[w]) BY <1>1, <1>2
  <2>2. pc' = [pc EXCEPT ![w] = "poll"] /\ i' = [i EXCEPT ![w] = i[w] + 1]
    BY <1>2 DEF NextQueue, Goto
  <2> QED BY <2>1, <2>2
<1>3. CASE ~(i[w] < Len(RxList[w]))
  <2>1. 1 \in 1 .. Len(RxList[w]) BY <1>1
  <2>2. pc' = [pc EXCEPT ![w] = "loop"] /\ i' = [i EXCEPT ![w] = 1]
    BY <1>3 DEF NextQueue, Goto
  <2> QED BY <2>1, <2>2
<1> QED BY <1>2, <1>3

\* An mbuf set has a size.
LEMMA SizeFacts ==
    ASSUME NEW S \in SUBSET Mbufs
    PROVE  /\ IsFiniteSet(S) /\ Cardinality(S) \in Nat
           /\ \A R \in SUBSET S : Cardinality(R) <= Cardinality(S)
           /\ Cardinality(S) = 0 <=> S = {}
<1>1. IsFiniteSet(S) BY FS_Subset, L2fwdAssumption
<1> QED BY <1>1, FS_Subset, FS_EmptySet, FS_CardinalityType

\* One packet of burst S has been mapped.
LEMMA SizeLess ==
    ASSUME NEW S \in SUBSET Mbufs, NEW b \in S
    PROVE  Cardinality(S \ {b}) = Cardinality(S) - 1
BY SizeFacts, FS_RemoveElement

\* The counters that a step adds.
LEMMA DeltaFacts ==
    ASSUME NEW n \in Nat, NEW m \in Nat
    PROVE  /\ [NoStats EXCEPT !.rx = n] \in [Fields -> Nat]
           /\ [NoStats EXCEPT !.fwded = n] \in [Fields -> Nat]
           /\ [NoStats EXCEPT !.unmapped = n] \in [Fields -> Nat]
           /\ [NoStats EXCEPT !.fwded = n, !.unmapped = m] \in [Fields -> Nat]
           /\ [NoStats EXCEPT !.tx = n, !.tx_dropped = m] \in [Fields -> Nat]
BY NoStatsFacts DEF Fields

LEMMA EnterControl ==
    ASSUME ControlInv, NEW w \in Workers, Enter(w)
    PROVE  ControlInv'
<1>1. TypeInv /\ WorkerInv(w) BY DEF ControlInv
<1> DEFINE l == IF RxList[w] = <<>> THEN "exited" ELSE "loop"
<1>2. l \in Labels \ {"parked", "started"} /\ l \notin Busy BY DEF Labels, Busy
<1>3. pc[w] = "started" /\ pc' = [pc EXCEPT ![w] = l] BY DEF Enter, Goto
<1>4. i[w] = 1 /\ pkts_burst[w] = {} /\ todo[w] \in SUBSET pkts_burst[w]
  BY <1>1, <1>3 DEF WorkerInv, Busy
<1>5. l # "exited" => i[w] \in 1 .. Len(RxList[w])
  <2>1. RxList[w] \in Seq(Ports \X Nat) BY L2fwdAssumption
  <2> QED BY <1>4, <2>1
<1>6. l \notin {"map", "tx", "hash", "lookup", "apply"} BY DEF Busy
<1>7. /\ UNCHANGED <<force_quit, tsc, mainVars, started, arrived, table_alive>>
      /\ UNCHANGED <<i, pkts_burst, todo, port_statistics, pool, rx_ring, tx_ring>>
  BY DEF Enter, nicVars
<1> HIDE DEF l
<1>8. /\ i' = [i EXCEPT ![w] = i[w]] /\ pkts_burst' = [pkts_burst EXCEPT ![w] = pkts_burst[w]]
      /\ todo' = [todo EXCEPT ![w] = todo[w]]
  BY <1>1, <1>7, Same
<1>m. Moves(w, l, i[w], pkts_burst[w], todo[w])
  BY <1>1, <1>2, <1>3, <1>4, <1>5, <1>6, <1>7, <1>8, Same DEF Moves
<1> QED BY <1>m, WorkerStep

LEMMA LoopHeadControl ==
    ASSUME ControlInv, NEW w \in Workers, LoopHead(w)
    PROVE  ControlInv'
<1>1. TypeInv /\ WorkerInv(w) BY DEF ControlInv
<1> DEFINE l == IF force_quit THEN "exited" ELSE "poll"
<1>2. l \in Labels \ {"parked", "started"} /\ l \notin Busy BY DEF Labels, Busy
<1>3. pc[w] = "loop" /\ pc' = [pc EXCEPT ![w] = l] BY DEF LoopHead, Goto
<1>4. i[w] \in 1 .. Len(RxList[w]) /\ pkts_burst[w] = {} /\ todo[w] \in SUBSET pkts_burst[w]
  BY <1>1, <1>3 DEF WorkerInv, Busy
<1>5. l \notin {"map", "tx", "hash", "lookup", "apply"} BY DEF Busy
<1>6. /\ UNCHANGED <<force_quit, tsc, mainVars, started, arrived, table_alive>>
      /\ UNCHANGED <<i, pkts_burst, todo, port_statistics, pool, rx_ring, tx_ring>>
  BY DEF LoopHead, nicVars
<1> HIDE DEF l
<1>7. /\ i' = [i EXCEPT ![w] = i[w]] /\ pkts_burst' = [pkts_burst EXCEPT ![w] = pkts_burst[w]]
      /\ todo' = [todo EXCEPT ![w] = todo[w]]
  BY <1>1, <1>6, Same
<1>m. Moves(w, l, i[w], pkts_burst[w], todo[w])
  BY <1>1, <1>2, <1>3, <1>4, <1>5, <1>6, <1>7, Same DEF Moves
<1> QED BY <1>m, WorkerStep

LEMMA PollEmptyControl ==
    ASSUME ControlInv, NEW w \in Workers, PollEmpty(w)
    PROVE  ControlInv'
<1>1. TypeInv /\ WorkerInv(w) /\ pc[w] = "poll" BY DEF ControlInv, PollEmpty
<1>2. i[w] \in 1 .. Len(RxList[w]) /\ pkts_burst[w] = {} /\ todo[w] \in SUBSET pkts_burst[w]
  BY <1>1 DEF WorkerInv, Busy
<1>3. PICK l \in {"poll", "loop"}, n \in 1 .. Len(RxList[w]) :
         pc' = [pc EXCEPT ![w] = l] /\ i' = [i EXCEPT ![w] = n]
  BY <1>2, NextQueueFacts DEF PollEmpty
<1>4. /\ l \in Labels \ {"parked", "started"} /\ l \notin Busy /\ n \in Nat
      /\ l \notin {"map", "tx", "hash", "lookup", "apply"}
  BY DEF Labels, Busy
<1>5. /\ UNCHANGED <<force_quit, tsc, mainVars, started, arrived, table_alive>>
      /\ UNCHANGED <<pkts_burst, todo, port_statistics, pool, rx_ring, tx_ring>>
  BY DEF PollEmpty, nicVars
<1>6. /\ pkts_burst' = [pkts_burst EXCEPT ![w] = pkts_burst[w]]
      /\ todo' = [todo EXCEPT ![w] = todo[w]]
  BY <1>1, <1>5, Same
<1>m. Moves(w, l, n, pkts_burst[w], todo[w])
  BY <1>1, <1>2, <1>3, <1>4, <1>5, <1>6, Same DEF Moves
<1> QED BY <1>m, WorkerStep

LEMMA PollControl ==
    ASSUME ControlInv, NEW w \in Workers, Poll(w)
    PROVE  ControlInv'
<1>1. TypeInv /\ WorkerInv(w) /\ pc[w] = "poll" BY DEF ControlInv, Poll
<1>2. i[w] \in 1 .. Len(RxList[w]) BY <1>1 DEF WorkerInv
<1>3. Queue(w) \in Queues BY <1>1, <1>2, QueueFacts
<1>4. PICK B \in (SUBSET rx_ring[Queue(w)]) \ {{}} :
         /\ rx_ring' = [rx_ring EXCEPT ![Queue(w)] = @ \ B]
         /\ pkts_burst' = [pkts_burst EXCEPT ![w] = B]
         /\ todo' = [todo EXCEPT ![w] = B]
         /\ Count(w, [NoStats EXCEPT !.rx = Cardinality(B)])
  BY DEF Poll
<1>5. B \in SUBSET Mbufs /\ B # {}
  <2>1. rx_ring[Queue(w)] \in SUBSET Mbufs BY <1>1, <1>3, Same
  <2> QED BY <2>1
<1>6. Cardinality(B) \in Nat BY <1>5, SizeFacts
<1>7. port_statistics' \in [Cells -> [Fields -> Nat]]
  BY <1>1, <1>2, <1>4, <1>6, DeltaFacts, CountFacts
<1>8. rx_ring' \in [Queues -> SUBSET Mbufs] BY <1>1, <1>3, <1>4, Same
<1> DEFINE l == CASE mode = "maglev" -> "map"
                  [] mode = "dramblast" -> "hash"
                  [] mode = "none" -> "rewrite"
<1>9. pc' = [pc EXCEPT ![w] = l] BY DEF Poll, Goto
<1>10. /\ l \in Labels \ {"parked", "started"} /\ l \in Busy
       /\ l = "map" => mode = "maglev" /\ B # {}
       /\ l \in {"hash", "lookup", "apply"} => mode = "dramblast"
       /\ l # "tx"
  <2>1. mode \in {"maglev", "dramblast", "none"}
    BY <1>1, L2fwdAssumption DEF TypeInv, TypeOK
  <2> QED BY <1>5, <2>1 DEF Labels, Busy
<1>11. /\ UNCHANGED <<force_quit, tsc, mainVars, started, arrived, table_alive>>
       /\ UNCHANGED <<i, pool, tx_ring>>
  BY DEF Poll
<1> HIDE DEF l
<1>m. Moves(w, l, i[w], B, B)
  BY <1>1, <1>2, <1>4, <1>5, <1>7, <1>8, <1>9, <1>10, <1>11, Same DEF Moves
<1> QED BY <1>m, WorkerStep

LEMMA MapOneControl ==
    ASSUME ControlInv, NEW w \in Workers, MapOne(w)
    PROVE  ControlInv'
<1>1. TypeInv /\ WorkerInv(w) /\ pc[w] = "map" BY DEF ControlInv, MapOne
<1>2. /\ i[w] \in 1 .. Len(RxList[w]) /\ mode = "maglev"
      /\ todo[w] \in SUBSET pkts_burst[w]
  BY <1>1 DEF WorkerInv, Busy
<1>3. PICK b \in todo[w] : todo' = [todo EXCEPT ![w] = todo[w] \ {b}] BY DEF MapOne
<1>4. todo[w] \ {b} \in SUBSET pkts_burst[w] /\ todo[w] \in SUBSET Mbufs
  BY <1>1, <1>2 DEF TypeInv, TypeOK
<1>5. port_statistics' \in [Cells -> [Fields -> Nat]]
  <2>1. PICK d \in [Fields -> Nat] : Count(w, d) BY DeltaFacts DEF MapOne
  <2> QED BY <1>1, <1>2, <2>1, CountFacts
<1> DEFINE l == IF Cardinality(todo[w]) = 1 THEN "tx" ELSE "map"
<1>6. pc' = [pc EXCEPT ![w] = l] BY DEF MapOne, Goto
<1>7. (l = "map" => todo[w] \ {b} # {}) /\ (l = "tx" => todo[w] \ {b} = {})
  <2>1. Cardinality(todo[w] \ {b}) = Cardinality(todo[w]) - 1 BY <1>3, <1>4, SizeLess
  <2>2. todo[w] \ {b} = {} <=> Cardinality(todo[w] \ {b}) = 0 BY <1>4, SizeFacts
  <2>3. Cardinality(todo[w]) \in Nat BY <1>4, SizeFacts
  <2> QED BY <2>1, <2>2, <2>3
<1>8. /\ l \in Labels \ {"parked", "started"} /\ l \in Busy
      /\ l \notin {"hash", "lookup", "apply"}
  BY DEF Labels, Busy
<1>9. /\ UNCHANGED <<force_quit, tsc, mainVars, started, arrived, table_alive>>
      /\ UNCHANGED <<i, pkts_burst, pool, rx_ring, tx_ring>>
  BY DEF MapOne, nicVars
<1>10. i' = [i EXCEPT ![w] = i[w]] /\ pkts_burst' = [pkts_burst EXCEPT ![w] = pkts_burst[w]]
  BY <1>1, <1>9, Same
<1> HIDE DEF l
<1>m. Moves(w, l, i[w], pkts_burst[w], todo[w] \ {b})
  BY <1>1, <1>2, <1>3, <1>4, <1>5, <1>6, <1>7, <1>8, <1>9, <1>10, Same DEF Moves
<1> QED BY <1>m, WorkerStep

LEMMA HashLookupControl ==
    ASSUME ControlInv, NEW w \in Workers, HashBurst(w) \/ LookupBurst(w)
    PROVE  ControlInv'
<1>1. TypeInv /\ WorkerInv(w) /\ pc[w] \in {"hash", "lookup"}
  BY DEF ControlInv, HashBurst, LookupBurst
<1>2. /\ i[w] \in 1 .. Len(RxList[w]) /\ mode = "dramblast"
      /\ todo[w] \in SUBSET pkts_burst[w]
  BY <1>1 DEF WorkerInv, Busy
<1>3. PICK F \in SUBSET pkts_burst[w], l \in {"apply", "lookup"} :
         todo' = [todo EXCEPT ![w] = F] /\ pc' = [pc EXCEPT ![w] = l]
  BY <1>2 DEF HashBurst, LookupBurst, Goto
<1>4. l \in Labels \ {"parked", "started"} /\ l \in Busy /\ l \notin {"map", "tx"}
  BY DEF Labels, Busy
<1>5. /\ UNCHANGED <<force_quit, tsc, mainVars, started, arrived, table_alive>>
      /\ UNCHANGED <<i, pkts_burst, port_statistics, pool, rx_ring, tx_ring>>
  BY DEF HashBurst, LookupBurst, nicVars
<1>6. i' = [i EXCEPT ![w] = i[w]] /\ pkts_burst' = [pkts_burst EXCEPT ![w] = pkts_burst[w]]
  BY <1>1, <1>5, Same
<1>m. Moves(w, l, i[w], pkts_burst[w], F)
  BY <1>1, <1>2, <1>3, <1>4, <1>5, <1>6, Same DEF Moves
<1> QED BY <1>m, WorkerStep

LEMMA ApplyRewriteControl ==
    ASSUME ControlInv, NEW w \in Workers, ApplyBurst(w) \/ RewriteBurst(w)
    PROVE  ControlInv'
<1>1. TypeInv /\ WorkerInv(w) /\ pc[w] \in {"apply", "rewrite"}
  BY DEF ControlInv, ApplyBurst, RewriteBurst
<1>2. /\ i[w] \in 1 .. Len(RxList[w]) /\ todo[w] \in SUBSET pkts_burst[w]
      /\ pkts_burst[w] \in SUBSET Mbufs
  BY <1>1, Same DEF WorkerInv, Busy
<1>3. /\ Cardinality(todo[w]) \in Nat /\ Cardinality(pkts_burst[w]) \in Nat
      /\ Cardinality(pkts_burst[w]) - Cardinality(todo[w]) \in Nat
  <2>1. todo[w] \in SUBSET Mbufs BY <1>2
  <2>2. Cardinality(todo[w]) <= Cardinality(pkts_burst[w]) BY <1>2, SizeFacts
  <2> QED BY <1>2, <2>1, <2>2, SizeFacts
<1>4. port_statistics' \in [Cells -> [Fields -> Nat]]
  <2>1. PICK d \in [Fields -> Nat] : Count(w, d)
    BY <1>3, DeltaFacts DEF ApplyBurst, RewriteBurst
  <2> QED BY <1>1, <1>2, <2>1, CountFacts
<1>5. todo' = [todo EXCEPT ![w] = {}] /\ pc' = [pc EXCEPT ![w] = "tx"]
  BY DEF ApplyBurst, RewriteBurst, Goto
<1>6. /\ "tx" \in Labels \ {"parked", "started"} /\ "tx" \in Busy /\ "tx" # "map"
      /\ "tx" \notin {"hash", "lookup", "apply"} /\ {} \in SUBSET pkts_burst[w]
  BY DEF Labels, Busy
<1>7. /\ UNCHANGED <<force_quit, tsc, mainVars, started, arrived, table_alive>>
      /\ UNCHANGED <<i, pkts_burst, pool, rx_ring, tx_ring>>
  BY DEF ApplyBurst, RewriteBurst, nicVars
<1>m. Moves(w, "tx", i[w], pkts_burst[w], {})
  BY <1>1, <1>2, <1>4, <1>5, <1>6, <1>7, Same DEF Moves
<1> QED BY <1>m, WorkerStep

LEMMA TransmitControl ==
    ASSUME ControlInv, NEW w \in Workers, Transmit(w)
    PROVE  ControlInv'
<1>1. TypeInv /\ WorkerInv(w) /\ pc[w] = "tx" BY DEF ControlInv, Transmit
<1>2. /\ i[w] \in 1 .. Len(RxList[w]) /\ todo[w] = {} /\ pkts_burst[w] \in SUBSET Mbufs
  BY <1>1, Same DEF WorkerInv, Busy
<1>3. Queue(w) \in Queues BY <1>1, <1>2, QueueFacts
<1>4. PICK S \in SUBSET pkts_burst[w] :
         /\ tx_ring' = [tx_ring EXCEPT ![Queue(w)] = @ \cup S]
         /\ pool' = pool \cup (pkts_burst[w] \ S)
         /\ Count(w, [NoStats EXCEPT
               !.tx = Cardinality(S),
               !.tx_dropped = Cardinality(pkts_burst[w]) - Cardinality(S)])
  BY DEF Transmit
<1>5. port_statistics' \in [Cells -> [Fields -> Nat]]
  <2>1. S \in SUBSET Mbufs BY <1>2, <1>4
  <2>2. Cardinality(S) <= Cardinality(pkts_burst[w]) BY <1>2, <1>4, SizeFacts
  <2>3. Cardinality(S) \in Nat /\ Cardinality(pkts_burst[w]) - Cardinality(S) \in Nat
    BY <1>2, <2>1, <2>2, SizeFacts
  <2> QED BY <1>1, <1>2, <1>4, <2>3, DeltaFacts, CountFacts
<1>6. pool' \subseteq Mbufs /\ tx_ring' \in [Queues -> SUBSET Mbufs]
  BY <1>1, <1>2, <1>3, <1>4, Same
<1>7. PICK l \in {"poll", "loop"}, n \in 1 .. Len(RxList[w]) :
         pc' = [pc EXCEPT ![w] = l] /\ i' = [i EXCEPT ![w] = n]
  BY <1>2, NextQueueFacts DEF Transmit
<1>8. /\ l \in Labels \ {"parked", "started"} /\ l \notin Busy
      /\ l \notin {"map", "tx", "hash", "lookup", "apply"}
  BY DEF Labels, Busy
<1>9. /\ UNCHANGED <<force_quit, tsc, mainVars, started, arrived, table_alive>>
      /\ rx_ring' = rx_ring /\ todo' = [todo EXCEPT ![w] = {}]
      /\ pkts_burst' = [pkts_burst EXCEPT ![w] = {}]
  BY <1>1, <1>2, Same DEF Transmit
<1>m. Moves(w, l, n, {}, {})
  BY <1>1, <1>2, <1>5, <1>6, <1>7, <1>8, <1>9, Same DEF Moves
<1> QED BY <1>m, WorkerStep

LEMMA WorkerControl ==
    ASSUME ControlInv, NEW w \in Workers, Worker(w)
    PROVE  ControlInv'
BY EnterControl, LoopHeadControl, PollEmptyControl, PollControl, MapOneControl,
   HashLookupControl, ApplyRewriteControl, TransmitControl DEF Worker

-----------------------------------------------------------------------------
(* Control: the steps of main, of the NIC and of the clock                  *)

\* Worker invariants survive steps that leave the workers alone.
LEMMA WorkersUntouched ==
    ASSUME \A w \in Workers : WorkerInv(w), UNCHANGED <<pc, i, pkts_burst, todo, mode>>
    PROVE  \A w \in Workers : WorkerInv(w)'
BY DEF WorkerInv

\* A set of numbers has a least element.
LEMMA NatMin ==
    ASSUME NEW S \in SUBSET Nat, S # {}
    PROVE  \E x \in S : \A y \in S : x <= y
<1>1. PICK x \in S : \A y \in S : ~(<<y, x>> \in OpToRel(<, Nat))
  BY WFMin, NatLessThanWellFounded
<1>2. \A y \in S : ~(y < x) BY <1>1 DEF OpToRel
<1> QED BY <1>2

\* The order in which the two loops of get_aggregated_stats read the counters.
Before(c, d) == c[1] < d[1] \/ (c[1] = d[1] /\ c[2] <= d[2])

LEMMA CellFacts ==
    /\ \A c \in Cells : c[1] \in Nat /\ c[2] \in Nat /\ c = <<c[1], c[2]>>
    /\ \A c, d \in Cells : Before(c, d) \/ Before(d, c)
    /\ \A c, d \in Cells : Before(c, d) /\ Before(d, c) => c = d
<1>1. ASSUME NEW c \in Cells PROVE c[1] \in Nat /\ c[2] \in Nat /\ c = <<c[1], c[2]>>
  <2>1. PICK p \in Ports, w \in Workers : c = <<p, w>> BY DEF Cells
  <2> QED BY <2>1, L2fwdAssumption
<1>2. \A a, b \in Nat : a < b \/ b < a \/ a = b OBVIOUS
<1> QED BY <1>1, <1>2 DEF Before

LEMMA EarliestFacts ==
    ASSUME NEW S \in SUBSET Cells, S # {}
    PROVE  Earliest(S) \in S /\ \A d \in S : Before(Earliest(S), d)
<1> DEFINE P == {c[1] : c \in S}
<1>1. PICK p \in P : \A y \in P : p <= y
  <2>1. P \in SUBSET Nat /\ P # {} BY CellFacts
  <2> QED BY <2>1, NatMin
<1> DEFINE W == {c[2] : c \in {x \in S : x[1] = p}}
<1>2. PICK w \in W : \A y \in W : w <= y
  <2>1. W \in SUBSET Nat /\ W # {} BY CellFacts
  <2> QED BY <2>1, NatMin
<1>3. PICK c \in S : c[1] = p /\ c[2] = w OBVIOUS
<1>4. ASSUME NEW d \in S PROVE Before(c, d)
  <2>1. d[1] \in P /\ p <= d[1] /\ (d[1] = p => d[2] \in W /\ w <= d[2]) BY <1>1, <1>2
  <2>2. p \in Nat /\ d[1] \in Nat BY <1>3, CellFacts
  <2> QED BY <1>3, <2>1, <2>2 DEF Before
<1> QED BY <1>4 DEF Earliest, Before

LEMMA LaunchControl ==
    ASSUME ControlInv, Launch
    PROVE  ControlInv'
<1>1. TypeInv /\ TypeOK /\ MainInv /\ \A w \in Workers : WorkerInv(w)
  BY DEF ControlInv, TypeInv
<1>2. \A w \in Workers : pc[w] = "parked" BY <1>1 DEF MainInv, Launch
<1>3. UNCHANGED <<force_quit, tsc, mode, timer_arg, timer_period, cur_tsc, prev_tsc, scan,
                  total_packets_fwded, total_packets_fwded_prev, SAMPLE_SIZE, i,
                  pkts_burst, todo, port_statistics, pool, rx_ring, tx_ring, started,
                  arrived, table_alive>>
  BY DEF Launch, config, nicVars
<1>4. TypeInv' BY <1>1, <1>3 DEF TypeInv, TypeOK, Launch
<1>5. MainInv' BY <1>1, <1>3 DEF MainInv, Launch
<1>6. \A w \in Workers : WorkerInv(w)'
  BY <1>1, <1>2, <1>3 DEF WorkerInv, Launch, Busy
<1> QED BY <1>4, <1>5, <1>6 DEF ControlInv

\* The statistics loop.
LEMMA StatsControl ==
    ASSUME ControlInv,
           StatsHead \/ ClockEarly \/ ClockDue \/ Aggregate \/ RecordSample \/ WaitWorkers
    PROVE  ControlInv'
<1>1. TypeInv /\ TypeOK /\ MainInv /\ \A w \in Workers : WorkerInv(w)
  BY DEF ControlInv, TypeInv
<1>2. UNCHANGED <<tsc, mode, timer_arg, timer_period, pc, i, pkts_burst, todo, port_statistics,
                  pool, rx_ring, tx_ring, started, arrived, table_alive>>
  BY DEF StatsHead, ClockEarly, ClockDue, Aggregate, RecordSample, WaitWorkers,
         mainRest, workVars, nicVars, config
<1>3. TypeOK'
  <2>1. force_quit' \in BOOLEAN
    <3>1. CASE ClockEarly \/ RecordSample BY <3>1 DEF ClockEarly, RecordSample, CheckEnd
    <3>2. CASE StatsHead \/ ClockDue \/ Aggregate \/ WaitWorkers
      BY <1>1, <3>2 DEF StatsHead, ClockDue, Aggregate, WaitWorkers, TypeOK
    <3> QED BY <3>1, <3>2
  <2>2. /\ main_pc' \in {"launch", "stats", "clock", "aggregate", "final", "stop", "exit"}
        /\ cur_tsc' \in 0 .. MaxTsc /\ prev_tsc' \in 0 .. MaxTsc /\ SAMPLE_SIZE' \in Nat
    BY <1>1 DEF StatsHead, ClockEarly, ClockDue, Aggregate, RecordSample, WaitWorkers, TypeOK
  <2>3. scan' \subseteq Cells /\ total_packets_fwded' \in Nat /\ total_packets_fwded_prev' \in Nat
    <3>1. CASE Aggregate
      <4>1. scan \in SUBSET Cells /\ scan # {} BY <1>1, <3>1 DEF Aggregate, TypeOK
      <4>2. Earliest(scan) \in Cells BY <4>1, EarliestFacts
      <4>3. port_statistics[Earliest(scan)].fwded \in Nat
        BY <1>1, <4>2, Same, NoStatsFacts DEF Fields, TypeOK
      <4> QED BY <1>1, <3>1, <4>3 DEF Aggregate, TypeOK
    <3>2. CASE ~Aggregate
      BY <1>1, <3>2 DEF StatsHead, ClockEarly, ClockDue, RecordSample, WaitWorkers, TypeOK
    <3> QED BY <3>1, <3>2
  <2> QED BY <1>1, <1>2, <2>1, <2>2, <2>3 DEF TypeOK
<1>4. MainInv'
  BY <1>1, <1>2 DEF MainInv, StatsHead, ClockEarly, ClockDue, Aggregate, RecordSample,
                    WaitWorkers
<1> QED BY <1>1, <1>2, <1>3, <1>4, WorkersUntouched DEF ControlInv, TypeInv

LEMMA TeardownControl ==
    ASSUME ControlInv, StopPort \/ Destroy
    PROVE  ControlInv'
<1>1. TypeInv /\ TypeOK /\ MainInv /\ \A w \in Workers : WorkerInv(w)
  BY DEF ControlInv, TypeInv
<1>2. CASE StopPort
  <2>1. UNCHANGED <<force_quit, tsc, main_pc, mode, timer_arg, timer_period, cur_tsc, prev_tsc, scan,
                    total_packets_fwded, total_packets_fwded_prev, SAMPLE_SIZE, pc, i,
                    pkts_burst, todo, port_statistics, arrived, table_alive>>
    BY <1>2 DEF StopPort, mainVars, workVars, config
  <2>2. /\ pool' \subseteq Mbufs /\ started' \subseteq Ports
        /\ rx_ring' \in [Queues -> SUBSET Mbufs] /\ tx_ring' \in [Queues -> SUBSET Mbufs]
    BY <1>1, <1>2 DEF StopPort, TypeOK
  <2>3. TypeInv' BY <1>1, <2>1, <2>2 DEF TypeInv, TypeOK
  <2>4. MainInv' BY <1>1, <1>2, <2>1 DEF MainInv, StopPort
  <2> QED BY <1>1, <2>1, <2>3, <2>4, WorkersUntouched DEF ControlInv
<1>3. CASE Destroy
  <2>1. UNCHANGED <<force_quit, tsc, mode, timer_arg, timer_period, cur_tsc, prev_tsc, scan,
                    total_packets_fwded, total_packets_fwded_prev, SAMPLE_SIZE, pc, i,
                    pkts_burst, todo, port_statistics, pool, rx_ring, tx_ring, started,
                    arrived>>
    BY <1>3 DEF Destroy, config, workVars, nicVars
  <2>2. main_pc' = "exit" /\ main_pc = "stop" /\ table_alive' \in BOOLEAN
    BY <1>3 DEF Destroy
  <2>3. TypeInv' BY <1>1, <2>1, <2>2 DEF TypeInv, TypeOK
  <2>4. MainInv' BY <1>1, <2>1, <2>2 DEF MainInv
  <2> QED BY <1>1, <2>1, <2>3, <2>4, WorkersUntouched DEF ControlInv
<1> QED BY <1>2, <1>3

LEMMA NicControl ==
    ASSUME ControlInv, NEW q \in Queues, NicReceive(q) \/ NicTransmit(q)
    PROVE  ControlInv'
<1>1. TypeInv /\ TypeOK /\ MainInv /\ \A w \in Workers : WorkerInv(w)
  BY DEF ControlInv, TypeInv
<1>2. UNCHANGED <<force_quit, tsc, main_pc, mode, timer_arg, timer_period, cur_tsc, prev_tsc, scan,
                  total_packets_fwded, total_packets_fwded_prev, SAMPLE_SIZE, pc, i,
                  pkts_burst, todo, port_statistics, started, table_alive>>
  BY DEF NicReceive, NicTransmit, mainVars, workVars, config
<1>3. /\ pool' \subseteq Mbufs
      /\ rx_ring' \in [Queues -> SUBSET Mbufs] /\ tx_ring' \in [Queues -> SUBSET Mbufs]
  BY <1>1 DEF NicReceive, NicTransmit, TypeOK
<1>4. arrived' \in 0 .. MaxPackets
  BY <1>1, L2fwdAssumption DEF NicReceive, NicTransmit, TypeOK
<1>5. TypeInv' BY <1>1, <1>2, <1>3, <1>4 DEF TypeInv, TypeOK
<1>6. MainInv' BY <1>1, <1>2 DEF MainInv
<1> QED BY <1>1, <1>2, <1>5, <1>6, WorkersUntouched DEF ControlInv

LEMMA ClockControl ==
    ASSUME ControlInv, Tick \/ signal_handler \/ UNCHANGED vars
    PROVE  ControlInv'
<1>1. TypeInv /\ TypeOK /\ MainInv /\ \A w \in Workers : WorkerInv(w)
  BY DEF ControlInv, TypeInv
<1>2. UNCHANGED <<main_pc, mode, timer_arg, timer_period, cur_tsc, prev_tsc, scan,
                  total_packets_fwded, total_packets_fwded_prev, SAMPLE_SIZE, pc, i,
                  pkts_burst, todo, port_statistics, pool, rx_ring, tx_ring, started,
                  arrived, table_alive>>
  BY DEF Tick, signal_handler, vars, mainVars, workVars, nicVars, config
<1>3. force_quit' \in BOOLEAN /\ tsc' \in 0 .. MaxTsc
  <2>1. CASE Tick BY <1>1, <2>1, L2fwdAssumption DEF Tick, TypeOK
  <2>2. CASE signal_handler \/ UNCHANGED vars
    BY <1>1, <2>2 DEF signal_handler, vars, TypeOK
  <2> QED BY <2>1, <2>2
<1>4. TypeInv' BY <1>1, <1>2, <1>3 DEF TypeInv, TypeOK
<1>5. MainInv' BY <1>1, <1>2 DEF MainInv
<1> QED BY <1>1, <1>2, <1>4, <1>5, WorkersUntouched DEF ControlInv

\* Control: all steps.
LEMMA ControlInvariant == Spec => []ControlInv
<1>1. Init => ControlInv
  <2> SUFFICES ASSUME Init PROVE ControlInv OBVIOUS
  <2>1. tsc \in 0 .. MaxTsc /\ cur_tsc \in 0 .. MaxTsc /\ prev_tsc \in 0 .. MaxTsc
        /\ arrived \in 0 .. MaxPackets
    BY L2fwdAssumption DEF Init
  <2>2. timer_arg \in Nat /\ timer_period \in Nat
    <3>1. timer_arg \in Nat /\ Hz \in Nat /\ Word \in Nat \ {0}
      BY L2fwdAssumption DEF Init
    <3>2. timer_arg * Hz \in Nat BY <3>1
    <3>3. \A n \in Nat : n % Word \in Nat BY <3>1
    <3> QED BY <3>1, <3>2, <3>3 DEF Init
  <2>3. port_statistics \in [Cells -> [DOMAIN NoStats -> Nat]]
    BY NoStatsFacts DEF Init
  <2>4. TypeInv
    BY <2>1, <2>2, <2>3, L2fwdAssumption DEF Init, TypeInv, TypeOK
  <2>5. MainInv /\ \A w \in Workers : WorkerInv(w) BY DEF Init, MainInv, WorkerInv, Busy
  <2> QED BY <2>4, <2>5 DEF ControlInv
<1>2. ControlInv /\ [Next]_vars => ControlInv'
  BY WorkerControl, LaunchControl, StatsControl, TeardownControl, NicControl, ClockControl
  DEF Next, Main, Nic
<1> QED BY <1>1, <1>2, PTL DEF Spec

-----------------------------------------------------------------------------
(* Mbufs                                                                    *)

\* MbufsConserved, mbuf by mbuf.
Somewhere(b) ==
    \/ b \in pool
    \/ \E q \in Queues : b \in rx_ring[q] \/ b \in tx_ring[q]
    \/ \E w \in Workers : b \in pkts_burst[w]

Once(b) ==
    /\ b \in pool => /\ \A q \in Queues : b \notin rx_ring[q] /\ b \notin tx_ring[q]
                     /\ \A w \in Workers : b \notin pkts_burst[w]
    /\ \A q \in Queues : b \in rx_ring[q] \/ b \in tx_ring[q] =>
          /\ ~(b \in rx_ring[q] /\ b \in tx_ring[q])
          /\ \A r \in Queues \ {q} : b \notin rx_ring[r] /\ b \notin tx_ring[r]
          /\ \A w \in Workers : b \notin pkts_burst[w]
    /\ \A w \in Workers : b \in pkts_burst[w] =>
          \A v \in Workers \ {w} : b \notin pkts_burst[v]

MbufInv == \A b \in Mbufs : Somewhere(b) /\ Once(b)

LEMMA MbufsMeaning == TypeInv /\ MbufInv => MbufsConserved
<1> SUFFICES ASSUME TypeInv, MbufInv PROVE MbufsConserved OBVIOUS
<1>1. /\ pool \subseteq Mbufs /\ \A w \in Workers : pkts_burst[w] \subseteq Mbufs
      /\ \A q \in Queues : rx_ring[q] \subseteq Mbufs /\ tx_ring[q] \subseteq Mbufs
  BY DEF TypeInv, TypeOK
<1>2. pool \cup (UNION {rx_ring[q] \cup tx_ring[q] : q \in Queues})
           \cup (UNION {pkts_burst[w] : w \in Workers}) = Mbufs
  <2> DEFINE R == UNION {rx_ring[q] \cup tx_ring[q] : q \in Queues}
             U == UNION {pkts_burst[w] : w \in Workers}
             All == pool \cup R \cup U
  <2>1. ASSUME NEW b PROVE b \in All <=> Somewhere(b)
    <3>1. b \in R <=> \E q \in Queues : b \in rx_ring[q] \/ b \in tx_ring[q]
      OBVIOUS
    <3>2. b \in U <=> \E w \in Workers : b \in pkts_burst[w]
      OBVIOUS
    <3> HIDE DEF R, U
    <3> QED BY <3>1, <3>2 DEF Somewhere
  <2>2. \A b \in Mbufs : Somewhere(b) BY DEF MbufInv
  <2>3. \A b : Somewhere(b) => b \in Mbufs BY <1>1 DEF Somewhere
  <2> HIDE DEF All
  <2>4. All = Mbufs BY <2>1, <2>2, <2>3
  <2> QED BY <2>4, Zenon DEF All, R, U
<1>3. \A w \in Workers :
          /\ pkts_burst[w] \cap pool = {}
          /\ \A v \in Workers \ {w} : pkts_burst[w] \cap pkts_burst[v] = {}
  BY <1>1 DEF MbufInv, Once
<1>4. \A q \in Queues :
          /\ rx_ring[q] \cap tx_ring[q] = {}
          /\ (rx_ring[q] \cup tx_ring[q]) \cap pool = {}
          /\ \A w \in Workers : (rx_ring[q] \cup tx_ring[q]) \cap pkts_burst[w] = {}
          /\ \A r \in Queues \ {q} :
                (rx_ring[q] \cup tx_ring[q]) \cap (rx_ring[r] \cup tx_ring[r]) = {}
  BY <1>1 DEF MbufInv, Once
<1> QED BY <1>2, <1>3, <1>4 DEF MbufsConserved

\* A packet arrives: an mbuf moves from the pool to an RX ring.
LEMMA ReceiveMbufs ==
    ASSUME TypeInv, MbufInv, NEW q \in Queues, NicReceive(q)
    PROVE  MbufInv'
<1>1. PICK b \in pool : /\ pool' = pool \ {b}
                        /\ rx_ring' = [rx_ring EXCEPT ![q] = rx_ring[q] \cup {b}]
  BY DEF NicReceive
<1>2. tx_ring' = tx_ring /\ pkts_burst' = pkts_burst BY DEF NicReceive, workVars
<1>3. rx_ring'[q] = rx_ring[q] \cup {b} /\ \A r \in Queues \ {q} : rx_ring'[r] = rx_ring[r]
  BY <1>1 DEF TypeInv, TypeOK
<1>4. ASSUME NEW m \in Mbufs PROVE Somewhere(m)' /\ Once(m)'
  <2>1. Somewhere(m) /\ Once(m) BY DEF MbufInv
  <2>2. Somewhere(m)' BY <1>1, <1>2, <1>3, <2>1 DEF Somewhere
  <2>3. Once(m)' BY <1>1, <1>2, <1>3, <2>1 DEF Once
  <2> QED BY <2>2, <2>3
<1> QED BY <1>4 DEF MbufInv

\* A packet has left: an mbuf moves from a TX ring to the pool.
LEMMA SentMbufs ==
    ASSUME TypeInv, MbufInv, NEW q \in Queues, NicTransmit(q)
    PROVE  MbufInv'
<1>1. PICK b \in tx_ring[q] : /\ pool' = pool \cup {b}
                              /\ tx_ring' = [tx_ring EXCEPT ![q] = tx_ring[q] \ {b}]
  BY DEF NicTransmit
<1>2. rx_ring' = rx_ring /\ pkts_burst' = pkts_burst BY DEF NicTransmit, workVars
<1>3. tx_ring'[q] = tx_ring[q] \ {b} /\ \A r \in Queues \ {q} : tx_ring'[r] = tx_ring[r]
  BY <1>1 DEF TypeInv, TypeOK
<1>4. ASSUME NEW m \in Mbufs PROVE Somewhere(m)' /\ Once(m)'
  <2>1. Somewhere(m) /\ Once(m) BY DEF MbufInv
  <2>2. Somewhere(m)' BY <1>1, <1>2, <1>3, <2>1 DEF Somewhere
  <2>3. Once(m)' BY <1>1, <1>2, <1>3, <2>1 DEF Once
  <2> QED BY <2>2, <2>3
<1> QED BY <1>4 DEF MbufInv

\* rte_eth_rx_burst hands a part of the ring to a worker whose burst is empty.
LEMMA PollMbufs ==
    ASSUME ControlInv, MbufInv, NEW w \in Workers, Poll(w)
    PROVE  MbufInv'
<1>1. TypeInv /\ WorkerInv(w) /\ pc[w] = "poll" BY DEF ControlInv, Poll
<1>2. pkts_burst[w] = {} /\ Queue(w) \in Queues
  BY <1>1, QueueFacts DEF WorkerInv, Busy
<1> DEFINE q == Queue(w)
<1>3. PICK B \in SUBSET rx_ring[q] :
         /\ rx_ring' = [rx_ring EXCEPT ![q] = rx_ring[q] \ B]
         /\ pkts_burst' = [pkts_burst EXCEPT ![w] = B]
  BY DEF Poll
<1>4. tx_ring' = tx_ring /\ pool' = pool BY DEF Poll
<1> HIDE DEF q
<1>5. /\ rx_ring'[q] = rx_ring[q] \ B /\ \A r \in Queues \ {q} : rx_ring'[r] = rx_ring[r]
      /\ pkts_burst'[w] = B /\ \A v \in Workers \ {w} : pkts_burst'[v] = pkts_burst[v]
  BY <1>1, <1>2, <1>3 DEF TypeInv, TypeOK, q
<1>6. q \in Queues BY <1>2 DEF q
<1>7. ASSUME NEW m \in Mbufs PROVE Somewhere(m)' /\ Once(m)'
  <2>1. Somewhere(m) /\ Once(m) BY DEF MbufInv
  <2>2. Somewhere(m)' BY <1>2, <1>4, <1>5, <1>6, <2>1 DEF Somewhere
  <2>3. Once(m)' BY <1>2, <1>4, <1>5, <1>6, <2>1 DEF Once
  <2> QED BY <2>2, <2>3
<1> QED BY <1>7 DEF MbufInv

\* The burst is sent or freed, every mbuf of it once.
LEMMA TransmitMbufs ==
    ASSUME ControlInv, MbufInv, NEW w \in Workers, Transmit(w)
    PROVE  MbufInv'
<1>1. TypeInv /\ WorkerInv(w) /\ pc[w] = "tx" BY DEF ControlInv, Transmit
<1>2. Queue(w) \in Queues
  BY <1>1, QueueFacts DEF WorkerInv, Busy
<1> DEFINE q == Queue(w)
<1>3. PICK S \in SUBSET pkts_burst[w] :
         /\ tx_ring' = [tx_ring EXCEPT ![q] = tx_ring[q] \cup S]
         /\ pool' = pool \cup (pkts_burst[w] \ S)
  BY DEF Transmit
<1>4. rx_ring' = rx_ring /\ pkts_burst' = [pkts_burst EXCEPT ![w] = {}] BY DEF Transmit
<1> HIDE DEF q
<1>5. /\ tx_ring'[q] = tx_ring[q] \cup S /\ \A r \in Queues \ {q} : tx_ring'[r] = tx_ring[r]
      /\ pkts_burst'[w] = {} /\ \A v \in Workers \ {w} : pkts_burst'[v] = pkts_burst[v]
  BY <1>1, <1>2, <1>3, <1>4 DEF TypeInv, TypeOK, q
<1>6. q \in Queues BY <1>2 DEF q
<1>7. ASSUME NEW m \in Mbufs PROVE Somewhere(m)' /\ Once(m)'
  <2>1. Somewhere(m) /\ Once(m) BY DEF MbufInv
  <2>2. Somewhere(m)' BY <1>3, <1>4, <1>5, <1>6, <2>1 DEF Somewhere
  <2>3. Once(m)' BY <1>3, <1>4, <1>5, <1>6, <2>1 DEF Once
  <2> QED BY <2>2, <2>3
<1> QED BY <1>7 DEF MbufInv

\* rte_eth_dev_close returns the mbufs of the port's rings.
LEMMA StopPortMbufs ==
    ASSUME TypeInv, MbufInv, StopPort
    PROVE  MbufInv'
<1>1. PICK mine \in SUBSET Queues :
         /\ pool' = pool \cup UNION {rx_ring[q] \cup tx_ring[q] : q \in mine}
         /\ rx_ring' = [q \in Queues |-> IF q \in mine THEN {} ELSE rx_ring[q]]
         /\ tx_ring' = [q \in Queues |-> IF q \in mine THEN {} ELSE tx_ring[q]]
  <2> DEFINE p == CHOOSE p \in started : \A r \in started : p <= r
  <2> WITNESS {q \in Queues : q[1] = p} \in SUBSET Queues
  <2> QED BY DEF StopPort
<1>2. pkts_burst' = pkts_burst BY DEF StopPort, workVars
<1>3. ASSUME NEW m \in Mbufs PROVE Somewhere(m)' /\ Once(m)'
  <2>1. Somewhere(m) /\ Once(m) BY DEF MbufInv
  <2>2. m \in pool' <=> m \in pool \/ \E q \in mine : m \in rx_ring[q] \/ m \in tx_ring[q]
    BY <1>1
  <2>3. \A q \in Queues : /\ rx_ring'[q] = IF q \in mine THEN {} ELSE rx_ring[q]
                          /\ tx_ring'[q] = IF q \in mine THEN {} ELSE tx_ring[q]
    BY <1>1
  <2>4. Somewhere(m)' BY <1>2, <2>1, <2>2, <2>3 DEF Somewhere
  <2>5. Once(m)' BY <1>2, <2>1, <2>2, <2>3 DEF Once
  <2> QED BY <2>4, <2>5
<1> QED BY <1>3 DEF MbufInv

LEMMA MbufsStay ==
    ASSUME MbufInv, UNCHANGED <<pool, rx_ring, tx_ring, pkts_burst>>
    PROVE  MbufInv'
BY DEF MbufInv, Somewhere, Once

\* Every mbuf is in exactly one place: the pool, a ring or a burst.  The
\* forwarding loop of main.c leaks none, and none is both sent and freed.
THEOREM MbufsStayConserved == Spec => []MbufsConserved
<1>1. Init => MbufInv BY DEF Init, MbufInv, Somewhere, Once
<1>2. ControlInv /\ MbufInv /\ [Next]_vars => MbufInv'
  <2> SUFFICES ASSUME ControlInv, MbufInv, [Next]_vars PROVE MbufInv' OBVIOUS
  <2>1. TypeInv BY DEF ControlInv
  <2>2. ASSUME NEW w \in Workers, Worker(w) PROVE MbufInv'
    <3>1. CASE ~Poll(w) /\ ~Transmit(w)
      <4>1. UNCHANGED <<pool, rx_ring, tx_ring, pkts_burst>>
        BY <2>2, <3>1 DEF Worker, Enter, LoopHead, PollEmpty, MapOne, HashBurst,
                          LookupBurst, ApplyBurst, RewriteBurst, nicVars
      <4> QED BY <4>1, MbufsStay
    <3> QED BY <2>2, <3>1, PollMbufs, TransmitMbufs
  <2>3. ASSUME Nic PROVE MbufInv' BY <2>1, <2>3, ReceiveMbufs, SentMbufs DEF Nic
  <2>4. ASSUME Main PROVE MbufInv'
    <3>1. CASE ~StopPort
      <4>1. UNCHANGED <<pool, rx_ring, tx_ring, pkts_burst>>
        BY <2>4, <3>1 DEF Main, Launch, StatsHead, ClockEarly, ClockDue, Aggregate,
                          RecordSample, WaitWorkers, Destroy, mainRest, workVars, nicVars
      <4> QED BY <4>1, MbufsStay
    <3> QED BY <2>1, <2>4, <3>1, StopPortMbufs
  <2>5. ASSUME Tick \/ signal_handler \/ UNCHANGED vars PROVE MbufInv'
    <3>1. UNCHANGED <<pool, rx_ring, tx_ring, pkts_burst>>
      BY <2>5 DEF Tick, signal_handler, vars, workVars, nicVars
    <3> QED BY <3>1, MbufsStay
  <2> QED BY <2>2, <2>3, <2>4, <2>5 DEF Next
<1>3. ControlInv /\ MbufInv => MbufsConserved BY MbufsMeaning DEF ControlInv
<1> QED BY <1>1, <1>2, <1>3, ControlInvariant, PTL DEF Spec

-----------------------------------------------------------------------------
(* Counters                                                                 *)

\* Packets of the burst that are received but not yet counted as forwarded or
\* unmapped, and those not yet counted as sent or dropped.
Unmapped(w, p) ==
    IF pc[w] \notin Busy \/ p # Port(w) THEN 0
    ELSE CASE pc[w] = "map" -> Cardinality(todo[w])
           [] pc[w] = "tx" -> 0
           [] OTHER -> Cardinality(pkts_burst[w])
Unsent(w, p) ==
    IF pc[w] \notin Busy \/ p # Port(w) THEN 0 ELSE Cardinality(pkts_burst[w])

Balanced(w, p) ==
    LET s == port_statistics[<<p, w>>]
    IN  /\ s.rx = s.fwded + s.unmapped + Unmapped(w, p)
        /\ s.rx = s.tx + s.tx_dropped + Unsent(w, p)

CountInv == \A w \in Workers : \A p \in Ports : Balanced(w, p)

\* Count, field by field.
LEMMA CountFields ==
    ASSUME TypeInv, NEW w \in Workers, i[w] \in 1 .. Len(RxList[w]),
           NEW d \in [Fields -> Nat], Count(w, d)
    PROVE  LET s == port_statistics[<<Port(w), w>>]
               t == port_statistics'[<<Port(w), w>>]
           IN  /\ t.rx = s.rx + d.rx
               /\ t.fwded = s.fwded + d.fwded
               /\ t.unmapped = s.unmapped + d.unmapped
               /\ t.tx = s.tx + d.tx
               /\ t.tx_dropped = s.tx_dropped + d.tx_dropped
BY CountFacts DEF Fields

\* The counters are numbers.
LEMMA StatsNat ==
    ASSUME TypeInv, NEW c \in Cells
    PROVE  LET s == port_statistics[c]
           IN  /\ s.rx \in Nat /\ s.fwded \in Nat /\ s.unmapped \in Nat
               /\ s.tx \in Nat /\ s.tx_dropped \in Nat
BY NoStatsFacts DEF TypeInv, TypeOK, Fields

\* A worker's step leaves the balance of the other workers and of its other
\* ports alone, if it stays busy with one port.
LEMMA OthersBalanced ==
    ASSUME TypeInv, CountInv, NEW w \in Workers,
           \A v \in Workers \ {w} :
              /\ pc'[v] = pc[v] /\ i'[v] = i[v]
              /\ pkts_burst'[v] = pkts_burst[v] /\ todo'[v] = todo[v],
           \A v \in Workers \ {w} : \A p \in Ports :
              port_statistics'[<<p, v>>] = port_statistics[<<p, v>>],
           \A p \in Ports : Balanced(w, p)'
    PROVE  CountInv'
<1> SUFFICES ASSUME NEW v \in Workers \ {w}, NEW p \in Ports PROVE Balanced(v, p)'
  BY DEF CountInv
<1>1. Balanced(v, p) BY DEF CountInv
<1>2. Port(v)' = Port(v) BY DEF Port, Queue
<1>3. Unmapped(v, p)' = Unmapped(v, p) /\ Unsent(v, p)' = Unsent(v, p)
  BY <1>2 DEF Unmapped, Unsent
<1> QED BY <1>1, <1>3 DEF Balanced

LEMMA Shift ==
    \A r, f, u, dr, df, du, m, n \in Nat :
        r = f + u + m /\ m + dr = df + du + n => r + dr = (f + df) + (u + du) + n
OBVIOUS

\* Worker w adds d to its counters for port P while the burst's uncounted
\* packets go from a to b and its unsent ones from x to y.
Counts(w, P, d, a, b, x, y) ==
    /\ Count(w, d) /\ P = Port(w)
    /\ pc'[w] \in Busy => i'[w] = i[w]
    /\ a = Unmapped(w, P) /\ b = Unmapped(w, P)'
    /\ x = Unsent(w, P) /\ y = Unsent(w, P)'
    /\ a + d.rx = d.fwded + d.unmapped + b
    /\ x + d.rx = d.tx + d.tx_dropped + y
    /\ \A v \in Workers \ {w} :
          /\ pc'[v] = pc[v] /\ i'[v] = i[v]
          /\ pkts_burst'[v] = pkts_burst[v] /\ todo'[v] = todo[v]

\* A burst's progress and the counters move together.
LEMMA StepBalanced ==
    ASSUME TypeInv, CountInv, NEW w \in Workers, i[w] \in 1 .. Len(RxList[w]),
           NEW d \in [Fields -> Nat], NEW P, NEW a \in Nat, NEW b \in Nat,
           NEW x \in Nat, NEW y \in Nat, Counts(w, P, d, a, b, x, y)
    PROVE  CountInv'
<1> USE DEF Counts
<1>1. P \in Ports /\ <<P, w>> \in Cells BY QueueFacts
<1>2. \A c \in Cells \ {<<P, w>>} : port_statistics'[c] = port_statistics[c]
  BY CountFacts
<1>3. Balanced(w, P)'
  <2> DEFINE s == port_statistics[<<P, w>>]
             t == port_statistics'[<<P, w>>]
  <2>1. /\ t.rx = s.rx + d.rx /\ t.fwded = s.fwded + d.fwded
        /\ t.unmapped = s.unmapped + d.unmapped /\ t.tx = s.tx + d.tx
        /\ t.tx_dropped = s.tx_dropped + d.tx_dropped
    BY CountFields
  <2>2. /\ s.rx \in Nat /\ s.fwded \in Nat /\ s.unmapped \in Nat
        /\ s.tx \in Nat /\ s.tx_dropped \in Nat
    BY <1>1, StatsNat
  <2>3. /\ d.rx \in Nat /\ d.fwded \in Nat /\ d.unmapped \in Nat
        /\ d.tx \in Nat /\ d.tx_dropped \in Nat
    BY DEF Fields
  <2>4. s.rx = s.fwded + s.unmapped + a /\ s.rx = s.tx + s.tx_dropped + x
    BY <1>1 DEF CountInv, Balanced
  <2>5. PICK sr \in Nat, sf \in Nat, su \in Nat, st \in Nat, sd \in Nat :
           sr = s.rx /\ sf = s.fwded /\ su = s.unmapped /\ st = s.tx /\ sd = s.tx_dropped
    BY <2>2
  <2>6. PICK dr \in Nat, df \in Nat, du \in Nat, dt \in Nat, dd \in Nat :
           dr = d.rx /\ df = d.fwded /\ du = d.unmapped /\ dt = d.tx /\ dd = d.tx_dropped
    BY <2>3
  <2>7. sr = sf + su + a /\ sr = st + sd + x BY <2>4, <2>5
  <2>8. a + dr = df + du + b /\ x + dr = dt + dd + y BY <2>6
  <2>9. sr + dr = (sf + df) + (su + du) + b /\ sr + dr = (st + dt) + (sd + dd) + y
    <3> HIDE DEF Counts
    <3> QED BY <2>7, <2>8, Shift
  <2>10. /\ t.rx = sr + dr /\ t.fwded = sf + df /\ t.unmapped = su + du
         /\ t.tx = st + dt /\ t.tx_dropped = sd + dd
    BY <2>1, <2>5, <2>6
  <2>11. t.rx = t.fwded + t.unmapped + b /\ t.rx = t.tx + t.tx_dropped + y
    BY <2>9, <2>10
  <2> QED BY <2>11 DEF Balanced
<1>4. ASSUME NEW p \in Ports, p # P PROVE Balanced(w, p)'
  <2>1. Balanced(w, p) BY DEF CountInv
  <2>2. Unmapped(w, p) = 0 /\ Unsent(w, p) = 0 BY <1>4 DEF Unmapped, Unsent
  <2>3. pc'[w] \in Busy => Port(w)' = P BY DEF Port, Queue
  <2>4. Unmapped(w, p)' = 0 /\ Unsent(w, p)' = 0 BY <1>4, <2>3 DEF Unmapped, Unsent
  <2>5. <<p, w>> \in Cells \ {<<P, w>>} BY <1>4 DEF Cells
  <2>6. port_statistics'[<<p, w>>] = port_statistics[<<p, w>>] BY <1>2, <2>5
  <2> QED BY <2>1, <2>2, <2>4, <2>6 DEF Balanced
<1>5. ASSUME NEW v \in Workers \ {w}, NEW p \in Ports
      PROVE  port_statistics'[<<p, v>>] = port_statistics[<<p, v>>]
  <2>1. <<p, v>> \in Cells \ {<<P, w>>} BY DEF Cells
  <2> QED BY <1>2, <2>1
<1> QED BY <1>3, <1>4, <1>5, OthersBalanced

\* Outside a burst nothing is counted.
LEMMA IdleCount ==
    ASSUME ControlInv, CountInv, NEW w \in Workers, Enter(w) \/ LoopHead(w) \/ PollEmpty(w)
    PROVE  CountInv'
<1>1. TypeInv /\ TypeOK /\ WorkerInv(w) BY DEF ControlInv, TypeInv
<1>2. /\ port_statistics' = port_statistics /\ pkts_burst' = pkts_burst /\ todo' = todo
      /\ pc[w] \notin Busy
  BY DEF Enter, LoopHead, PollEmpty, Busy
<1>3. pc'[w] \notin Busy /\ \A v \in Workers \ {w} : pc'[v] = pc[v] /\ i'[v] = i[v]
  BY <1>1 DEF TypeInv, TypeOK, Enter, LoopHead, PollEmpty, NextQueue, Goto, Busy
<1>4. ASSUME NEW p \in Ports PROVE Balanced(w, p)'
  <2>1. Balanced(w, p) BY DEF CountInv
  <2>2. /\ Unmapped(w, p) = 0 /\ Unsent(w, p) = 0
        /\ Unmapped(w, p)' = 0 /\ Unsent(w, p)' = 0
    BY <1>2, <1>3 DEF Unmapped, Unsent
  <2> QED BY <1>2, <2>1, <2>2 DEF Balanced
<1> QED BY <1>1, <1>2, <1>3, <1>4, OthersBalanced

\* What a burst in progress knows.
LEMMA BurstFacts ==
    ASSUME ControlInv, NEW w \in Workers, pc[w] \in {"poll"} \cup Busy
    PROVE  /\ TypeInv /\ TypeOK /\ WorkerInv(w)
           /\ i[w] \in 1 .. Len(RxList[w]) /\ Port(w) \in Ports
           /\ todo[w] \in SUBSET pkts_burst[w] /\ todo[w] \in SUBSET Mbufs
           /\ pkts_burst[w] \in SUBSET Mbufs
           /\ Cardinality(todo[w]) \in Nat /\ Cardinality(pkts_burst[w]) \in Nat
           /\ Cardinality(todo[w]) <= Cardinality(pkts_burst[w])
           /\ \A b \in todo[w] : Cardinality(todo[w] \ {b}) = Cardinality(todo[w]) - 1
<1>1. TypeInv /\ TypeOK /\ WorkerInv(w) BY DEF ControlInv, TypeInv
<1>2. i[w] \in 1 .. Len(RxList[w]) /\ todo[w] \in SUBSET pkts_burst[w]
  BY <1>1 DEF WorkerInv
<1>3. Port(w) \in Ports BY <1>1, <1>2, QueueFacts
<1>4. pkts_burst[w] \in SUBSET Mbufs /\ todo[w] \in SUBSET Mbufs BY <1>1, <1>2, Same
<1>5. Cardinality(todo[w]) <= Cardinality(pkts_burst[w]) BY <1>2, <1>4, SizeFacts
<1>6. \A b \in todo[w] : Cardinality(todo[w] \ {b}) = Cardinality(todo[w]) - 1
  BY <1>4, SizeLess
<1> QED BY <1>1, <1>2, <1>3, <1>4, <1>5, <1>6, SizeFacts

LEMMA PollCount ==
    ASSUME ControlInv, CountInv, NEW w \in Workers, Poll(w)
    PROVE  CountInv'
<1>1. pc[w] = "poll" /\ pc[w] \notin Busy BY DEF Poll, Busy
<1>2. /\ TypeInv /\ TypeOK /\ i[w] \in 1 .. Len(RxList[w])
      /\ Queue(w) \in Queues
  BY <1>1, BurstFacts, QueueFacts
<1>3. PICK B \in SUBSET rx_ring[Queue(w)] :
         /\ pkts_burst' = [pkts_burst EXCEPT ![w] = B]
         /\ todo' = [todo EXCEPT ![w] = B]
         /\ Count(w, [NoStats EXCEPT !.rx = Cardinality(B)])
  BY DEF Poll
<1> DEFINE n == Cardinality(B)
           d == [NoStats EXCEPT !.rx = n]
<1>4. B \in SUBSET Mbufs BY <1>2, Same
<1>5. n \in Nat BY <1>4, SizeFacts
<1>6. pc'[w] \in {"map", "hash", "rewrite"} /\ i' = i
  <2>1. mode \in {"maglev", "dramblast", "none"} BY <1>2, L2fwdAssumption DEF TypeOK
  <2> QED BY <1>2, <2>1 DEF Poll, Goto, TypeOK
<1>7. /\ pkts_burst'[w] = B /\ todo'[w] = B
      /\ \A v \in Workers \ {w} :
            /\ pc'[v] = pc[v] /\ pkts_burst'[v] = pkts_burst[v] /\ todo'[v] = todo[v]
  BY <1>2, <1>3 DEF Poll, Goto, TypeOK
<1>8. /\ d \in [Fields -> Nat] /\ d.rx = n /\ d.fwded = 0 /\ d.unmapped = 0
      /\ d.tx = 0 /\ d.tx_dropped = 0
  <2>1. d \in [Fields -> Nat] BY <1>5, DeltaFacts
  <2> QED BY <2>1 DEF NoStats
<1> HIDE DEF d, n
<1>9. PICK P : P = Port(w) OBVIOUS
<1>10. Unmapped(w, P) = 0 /\ Unsent(w, P) = 0 BY <1>1 DEF Unmapped, Unsent
<1>11. Unmapped(w, P)' = n /\ Unsent(w, P)' = n
  <2>1. Port(w)' = P BY <1>6, <1>9 DEF Port, Queue
  <2> QED BY <1>6, <1>7, <2>1 DEF Unmapped, Unsent, Busy, n
<1>12. 0 + d.rx = d.fwded + d.unmapped + n /\ 0 + d.rx = d.tx + d.tx_dropped + n
  BY <1>5, <1>8
<1>13. Count(w, d) BY <1>3 DEF d, n
<1>14. Counts(w, P, d, 0, n, 0, n)
  BY <1>6, <1>7, <1>9, <1>10, <1>11, <1>12, <1>13 DEF Counts
<1> QED BY <1>2, <1>5, <1>8, <1>14, StepBalanced

LEMMA MapOneCount ==
    ASSUME ControlInv, CountInv, NEW w \in Workers, MapOne(w)
    PROVE  CountInv'
<1>1. pc[w] = "map" /\ pc[w] \in Busy BY DEF MapOne, Busy
<1>2. /\ TypeInv /\ TypeOK /\ i[w] \in 1 .. Len(RxList[w])
      /\ Cardinality(todo[w]) \in Nat /\ Cardinality(pkts_burst[w]) \in Nat
      /\ \A b \in todo[w] : Cardinality(todo[w] \ {b}) = Cardinality(todo[w]) - 1
      /\ todo[w] \in SUBSET Mbufs
  BY <1>1, BurstFacts
<1>3. PICK b \in todo[w] : todo' = [todo EXCEPT ![w] = todo[w] \ {b}] BY DEF MapOne
<1> DEFINE n == Cardinality(todo[w])
           d == [NoStats EXCEPT !.fwded = 1]
           e == [NoStats EXCEPT !.unmapped = 1]
<1>4. n \in Nat /\ n - 1 \in Nat
  <2>1. todo[w] \ {b} \in SUBSET Mbufs BY <1>2
  <2>2. Cardinality(todo[w] \ {b}) \in Nat BY <2>1, SizeFacts
  <2> QED BY <1>2, <1>3, <2>2
<1>5. /\ i' = i /\ pkts_burst' = pkts_burst
      /\ todo'[w] = todo[w] \ {b} /\ pc'[w] = IF n = 1 THEN "tx" ELSE "map"
      /\ \A v \in Workers \ {w} : pc'[v] = pc[v] /\ todo'[v] = todo[v]
  BY <1>2, <1>3 DEF MapOne, Goto, TypeOK
<1>6. /\ d \in [Fields -> Nat] /\ d.rx = 0 /\ d.fwded = 1 /\ d.unmapped = 0
      /\ d.tx = 0 /\ d.tx_dropped = 0
      /\ e \in [Fields -> Nat] /\ e.rx = 0 /\ e.fwded = 0 /\ e.unmapped = 1
      /\ e.tx = 0 /\ e.tx_dropped = 0
  <2>1. d \in [Fields -> Nat] /\ e \in [Fields -> Nat] BY DeltaFacts
  <2> QED BY <2>1 DEF NoStats
<1>7. Count(w, d) \/ Count(w, e) BY DEF MapOne
<1>8. PICK P : P = Port(w) OBVIOUS
<1>9. Unmapped(w, P) = n /\ Unsent(w, P) = Cardinality(pkts_burst[w])
  BY <1>1, <1>8 DEF Unmapped, Unsent
<1>10. Unmapped(w, P)' = n - 1 /\ Unsent(w, P)' = Cardinality(pkts_burst[w])
  <2>1. Port(w)' = P BY <1>5, <1>8 DEF Port, Queue
  <2>2. Cardinality(todo'[w]) = n - 1 BY <1>2, <1>3, <1>5
  <2>3. pc'[w] \in Busy BY <1>5 DEF Busy
  <2>4. Unsent(w, P)' = Cardinality(pkts_burst[w]) BY <1>5, <2>1, <2>3 DEF Unsent
  <2>5. Unmapped(w, P)' = IF pc'[w] = "map" THEN Cardinality(todo'[w]) ELSE 0
    BY <1>5, <2>1, <2>3 DEF Unmapped
  <2>6. CASE n = 1
    <3>1. pc'[w] = "tx" /\ n - 1 = 0 BY <1>5, <2>6
    <3> QED BY <2>4, <2>5, <3>1
  <2>7. CASE n # 1
    <3>1. pc'[w] = "map" BY <1>5, <2>7
    <3> QED BY <2>2, <2>4, <2>5, <3>1
  <2> QED BY <2>6, <2>7
<1> HIDE DEF n, d, e
<1>11. PICK x \in Nat : x = Cardinality(pkts_burst[w]) BY <1>2
<1>12. /\ n + d.rx = d.fwded + d.unmapped + (n - 1) /\ x + d.rx = d.tx + d.tx_dropped + x
       /\ n + e.rx = e.fwded + e.unmapped + (n - 1) /\ x + e.rx = e.tx + e.tx_dropped + x
  BY <1>4, <1>6
<1>13. Unsent(w, P) = x /\ Unsent(w, P)' = x BY <1>9, <1>10, <1>11
<1>14. PICK a \in Nat, b1 \in Nat : a = n /\ b1 = n - 1 BY <1>4
<1>15. \A v \in Workers \ {w} : /\ pc'[v] = pc[v] /\ i'[v] = i[v]
                                /\ pkts_burst'[v] = pkts_burst[v] /\ todo'[v] = todo[v]
  BY <1>5
<1>16. /\ a + d.rx = d.fwded + d.unmapped + b1 /\ a + e.rx = e.fwded + e.unmapped + b1
       /\ a = Unmapped(w, P) /\ b1 = Unmapped(w, P)' /\ i'[w] = i[w]
  BY <1>5, <1>9, <1>10, <1>12, <1>14
<1>17. CASE Count(w, d)
  <2>1. Counts(w, P, d, a, b1, x, x)
    BY <1>8, <1>12, <1>13, <1>15, <1>16, <1>17 DEF Counts
  <2> QED BY <1>2, <1>6, <2>1, StepBalanced
<1>18. CASE Count(w, e)
  <2>1. Counts(w, P, e, a, b1, x, x)
    BY <1>8, <1>12, <1>13, <1>15, <1>16, <1>18 DEF Counts
  <2> QED BY <1>2, <1>6, <2>1, StepBalanced
<1> QED BY <1>7, <1>17, <1>18

\* Hashing and looking up count nothing and keep the burst.
LEMMA HashLookupCount ==
    ASSUME ControlInv, CountInv, NEW w \in Workers, HashBurst(w) \/ LookupBurst(w)
    PROVE  CountInv'
<1>1. TypeInv /\ TypeOK BY DEF ControlInv, TypeInv
<1>2. pc[w] \in {"hash", "lookup"} /\ pc'[w] \in {"lookup", "apply"}
  BY <1>1 DEF HashBurst, LookupBurst, Goto, TypeOK
<1>3. /\ port_statistics' = port_statistics /\ pkts_burst' = pkts_burst /\ i' = i
      /\ \A v \in Workers \ {w} : pc'[v] = pc[v] /\ todo'[v] = todo[v]
  BY <1>1 DEF HashBurst, LookupBurst, Goto, TypeOK
<1>4. ASSUME NEW p \in Ports PROVE Balanced(w, p)'
  <2>1. Balanced(w, p) BY DEF CountInv
  <2>2. Port(w)' = Port(w) BY <1>3 DEF Port, Queue
  <2>3. Unmapped(w, p)' = Unmapped(w, p) /\ Unsent(w, p)' = Unsent(w, p)
    BY <1>2, <1>3, <2>2 DEF Unmapped, Unsent, Busy
  <2> QED BY <1>3, <2>1, <2>3 DEF Balanced
<1> QED BY <1>1, <1>3, <1>4, OthersBalanced

LEMMA ApplyRewriteCount ==
    ASSUME ControlInv, CountInv, NEW w \in Workers, ApplyBurst(w) \/ RewriteBurst(w)
    PROVE  CountInv'
<1>1. pc[w] \in {"apply", "rewrite"} /\ pc[w] \in Busy BY DEF ApplyBurst, RewriteBurst, Busy
<1>2. /\ TypeInv /\ TypeOK /\ i[w] \in 1 .. Len(RxList[w])
      /\ Cardinality(todo[w]) \in Nat /\ Cardinality(pkts_burst[w]) \in Nat
      /\ Cardinality(todo[w]) <= Cardinality(pkts_burst[w])
  BY <1>1, BurstFacts
<1>3. PICK n \in Nat, c \in Nat : n = Cardinality(pkts_burst[w]) /\ c = Cardinality(todo[w])
  BY <1>2
<1>4. PICK d : /\ Count(w, d) /\ d \in [Fields -> Nat]
               /\ d.rx = 0 /\ d.fwded + d.unmapped = n /\ d.tx = 0 /\ d.tx_dropped = 0
  <2>1. CASE ApplyBurst(w)
    <3> DEFINE e == [NoStats EXCEPT !.fwded = c, !.unmapped = n - c]
    <3>1. n - c \in Nat BY <1>2, <1>3
    <3>2. e \in [Fields -> Nat] BY <3>1, DeltaFacts
    <3>3. e.rx = 0 /\ e.fwded + e.unmapped = n /\ e.tx = 0 /\ e.tx_dropped = 0
      BY <3>1 DEF NoStats
    <3>4. Count(w, e) BY <1>3, <2>1 DEF ApplyBurst
    <3> QED BY <3>2, <3>3, <3>4
  <2>2. CASE RewriteBurst(w)
    <3> DEFINE e == [NoStats EXCEPT !.fwded = n]
    <3>1. e \in [Fields -> Nat] BY DeltaFacts
    <3>2. e.rx = 0 /\ e.fwded + e.unmapped = n /\ e.tx = 0 /\ e.tx_dropped = 0
      BY DEF NoStats
    <3>3. Count(w, e) BY <1>3, <2>2 DEF RewriteBurst
    <3> QED BY <3>1, <3>2, <3>3
  <2> QED BY <2>1, <2>2
<1>5. /\ i' = i /\ pkts_burst' = pkts_burst /\ pc'[w] = "tx"
      /\ \A v \in Workers \ {w} : pc'[v] = pc[v] /\ todo'[v] = todo[v]
  BY <1>2 DEF ApplyBurst, RewriteBurst, Goto, TypeOK
<1>6. PICK P : P = Port(w) OBVIOUS
<1>7. Unmapped(w, P) = n /\ Unsent(w, P) = n BY <1>1, <1>3, <1>6 DEF Unmapped, Unsent
<1>8. Unmapped(w, P)' = 0 /\ Unsent(w, P)' = n
  <2>1. Port(w)' = P BY <1>5, <1>6 DEF Port, Queue
  <2> QED BY <1>3, <1>5, <2>1 DEF Unmapped, Unsent, Busy
<1>9. n + d.rx = d.fwded + d.unmapped + 0 /\ n + d.rx = d.tx + d.tx_dropped + n
  BY <1>4
<1>10. Counts(w, P, d, n, 0, n, n)
  BY <1>4, <1>5, <1>6, <1>7, <1>8, <1>9 DEF Counts
<1> QED BY <1>2, <1>4, <1>10, StepBalanced

LEMMA TransmitCount ==
    ASSUME ControlInv, CountInv, NEW w \in Workers, Transmit(w)
    PROVE  CountInv'
<1>1. pc[w] = "tx" /\ pc[w] \in Busy BY DEF Transmit, Busy
<1>2. /\ TypeInv /\ TypeOK /\ i[w] \in 1 .. Len(RxList[w])
      /\ Cardinality(pkts_burst[w]) \in Nat /\ pkts_burst[w] \in SUBSET Mbufs
  BY <1>1, BurstFacts
<1>3. PICK S \in SUBSET pkts_burst[w] :
         Count(w, [NoStats EXCEPT
               !.tx = Cardinality(S),
               !.tx_dropped = Cardinality(pkts_burst[w]) - Cardinality(S)])
  BY DEF Transmit
<1>4. PICK n \in Nat, c \in Nat :
         n = Cardinality(pkts_burst[w]) /\ c = Cardinality(S) /\ c <= n
  <2>1. S \in SUBSET Mbufs BY <1>2, <1>3
  <2>2. Cardinality(S) <= Cardinality(pkts_burst[w]) BY <1>2, <1>3, SizeFacts
  <2> QED BY <1>2, <2>1, <2>2, SizeFacts
<1> DEFINE d == [NoStats EXCEPT !.tx = c, !.tx_dropped = n - c]
<1>5. n - c \in Nat BY <1>4
<1>6. /\ d \in [Fields -> Nat] /\ d.rx = 0 /\ d.fwded = 0 /\ d.unmapped = 0
      /\ d.tx + d.tx_dropped = n
  <2>1. d \in [Fields -> Nat] BY <1>5, DeltaFacts
  <2> QED BY <1>5, <2>1 DEF NoStats
<1>7. Count(w, d) BY <1>3, <1>4
<1>8. /\ pc'[w] \notin Busy
      /\ \A v \in Workers \ {w} :
            /\ pc'[v] = pc[v] /\ i'[v] = i[v]
            /\ pkts_burst'[v] = pkts_burst[v] /\ todo'[v] = todo[v]
  BY <1>2 DEF Transmit, NextQueue, Goto, TypeInv, TypeOK, Busy
<1>9. PICK P : P = Port(w) OBVIOUS
<1>10. Unmapped(w, P) = 0 /\ Unsent(w, P) = n BY <1>1, <1>4, <1>9 DEF Unmapped, Unsent
<1>11. Unmapped(w, P)' = 0 /\ Unsent(w, P)' = 0 BY <1>8 DEF Unmapped, Unsent
<1> HIDE DEF d
<1>12. 0 + d.rx = d.fwded + d.unmapped + 0 /\ n + d.rx = d.tx + d.tx_dropped + 0
  BY <1>4, <1>6
<1>13. Counts(w, P, d, 0, 0, n, 0)
  BY <1>7, <1>8, <1>9, <1>10, <1>11, <1>12 DEF Counts
<1> QED BY <1>2, <1>6, <1>13, StepBalanced

\* Between two bursts the counters of a worker balance: each packet it received
\* was forwarded or unmapped, and was sent or dropped on transmit.
THEOREM PacketsStayAccounted == Spec => []PacketsAccounted
<1>1. Init => CountInv
  BY DEF Init, CountInv, Balanced, Unmapped, Unsent, Busy, NoStats, Cells
<1>2. ControlInv /\ CountInv /\ [Next]_vars => CountInv'
  <2> SUFFICES ASSUME ControlInv, CountInv, [Next]_vars PROVE CountInv' OBVIOUS
  <2>1. ASSUME NEW w \in Workers, Worker(w) PROVE CountInv'
    BY <2>1, IdleCount, PollCount, MapOneCount, HashLookupCount, ApplyRewriteCount,
       TransmitCount DEF Worker
  <2>2. ASSUME UNCHANGED <<pc, i, pkts_burst, todo, port_statistics>> PROVE CountInv'
    BY <2>2 DEF CountInv, Balanced, Unmapped, Unsent, Port, Queue
  <2>3. CASE Launch
    <3>1. \A w \in Workers : pc[w] \notin Busy
      BY <2>3 DEF ControlInv, MainInv, Launch, Busy
    <3>2. \A w \in Workers : pc'[w] \notin Busy BY <2>3 DEF Launch, Busy
    <3>3. port_statistics' = port_statistics BY <2>3 DEF Launch
    <3> QED BY <3>1, <3>2, <3>3 DEF CountInv, Balanced, Unmapped, Unsent
  <2>4. CASE (Main /\ ~Launch) \/ Nic \/ Tick \/ signal_handler \/ UNCHANGED vars
    <3>1. UNCHANGED <<pc, i, pkts_burst, todo, port_statistics>>
      BY <2>4 DEF Main, StatsHead, ClockEarly, ClockDue, Aggregate, RecordSample,
                  WaitWorkers, StopPort, Destroy, Nic, NicReceive, NicTransmit, Tick,
                  signal_handler, vars, mainRest, workVars
    <3> QED BY <2>2, <3>1
  <2> QED BY <2>1, <2>3, <2>4 DEF Next
<1>3. ControlInv /\ CountInv => PacketsAccounted
  <2> SUFFICES ASSUME ControlInv, CountInv, NEW w \in Workers, pc[w] \notin Busy,
                      NEW p \in Ports
               PROVE  LET s == port_statistics[<<p, w>>]
                      IN  s.rx = s.fwded + s.unmapped /\ s.rx = s.tx + s.tx_dropped
    BY DEF PacketsAccounted
  <2>1. Balanced(w, p) /\ Unmapped(w, p) = 0 /\ Unsent(w, p) = 0
    BY DEF CountInv, Unmapped, Unsent
  <2>2. <<p, w>> \in Cells BY DEF Cells
  <2>3. TypeInv BY DEF ControlInv
  <2> QED BY <2>1, <2>2, <2>3, StatsNat DEF Balanced
<1> QED BY <1>1, <1>2, <1>3, ControlInvariant, PTL DEF Spec

\* Nobody uses a port after rte_eth_dev_close or the table after
\* dramblast_destroy: main.c waits for the workers first.
THEOREM NothingUsedAfterTeardown == Spec => []NoUseAfterTeardown
<1>1. ControlInv => NoUseAfterTeardown
  <2> SUFFICES ASSUME ControlInv, NEW w \in Workers
               PROVE  /\ pc[w] \in {"poll"} \cup Busy => Port(w) \in started
                      /\ pc[w] \in {"map", "lookup"} => table_alive
    BY DEF NoUseAfterTeardown
  <2>1. TypeInv /\ MainInv /\ WorkerInv(w) BY DEF ControlInv
  <2>2. ASSUME pc[w] \in {"poll"} \cup Busy PROVE Port(w) \in started
    <3>1. Port(w) \in Ports BY <2>2, BurstFacts
    <3>2. main_pc \notin {"stop", "exit"} BY <2>1, <2>2 DEF MainInv, Busy
    <3> QED BY <2>1, <3>1, <3>2 DEF MainInv
  <2>3. ASSUME pc[w] \in {"map", "lookup"} PROVE table_alive
    BY <2>1, <2>3 DEF MainInv, WorkerInv
  <2> QED BY <2>2, <2>3
<1> QED BY <1>1, ControlInvariant, PTL

\* Every variable of main.c keeps its type, the array indices of the loop
\* included.
THEOREM TypeCorrect == Spec => []TypeOK
<1>1. ControlInv => TypeOK BY DEF ControlInv, TypeInv
<1> QED BY <1>1, ControlInvariant, PTL

-----------------------------------------------------------------------------
(* Samples                                                                  *)

\* Samples are a period apart; once the last report is late enough to end the
\* run, no other begins.  A period that does not wrap is 0 or at least a second.
SampleInv ==
    /\ timer_arg <= MaxPeriod => timer_period = 0 \/ timer_period >= Hz
    /\ SAMPLE_SIZE * timer_period <= prev_tsc
    /\ SamplesFit
    /\ main_pc = "launch" => prev_tsc = 0
    /\ main_pc \in {"clock", "aggregate"} => prev_tsc < EndTsc
    /\ main_pc = "stats" => prev_tsc < EndTsc \/ force_quit
    /\ main_pc = "aggregate" => cur_tsc - prev_tsc >= timer_period

LEMMA TimeFacts ==
    /\ EndTsc \in Nat \ {0}
    /\ \A n \in Nat : n * Hz \in Nat /\ (n + 1) * Hz = n * Hz + Hz
    /\ \A n \in Nat : n * Hz < EndTsc => n < TotalSamples
<1>1. Hz \in Nat \ {0} /\ TotalSamples \in Nat \ {0} BY L2fwdAssumption
<1>2. \A x, y \in Nat \ {0} : x * y \in Nat \ {0} OBVIOUS
<1>3. \A n \in Nat : n * Hz \in Nat /\ (n + 1) * Hz = n * Hz + Hz BY <1>1
<1>4. ASSUME NEW n \in Nat, ~(n < TotalSamples) PROVE ~(n * Hz < EndTsc)
  <2>1. PICK e \in Nat : n = TotalSamples + e
    <3>1. n - TotalSamples \in Nat /\ n = TotalSamples + (n - TotalSamples) BY <1>1, <1>4
    <3> QED BY <3>1
  <2>2. n * Hz = Hz * TotalSamples + e * Hz /\ e * Hz \in Nat BY <1>1, <2>1
  <2>3. Hz * TotalSamples \in Nat BY <1>1
  <2> QED BY <2>2, <2>3 DEF EndTsc
<1>5. EndTsc \in Nat \ {0} BY <1>1, <1>2 DEF EndTsc
<1> QED BY <1>3, <1>4, <1>5

\* Products are monotonic: what a number of seconds is in ticks, at least.
LEMMA Monotonic ==
    ASSUME NEW n \in Nat, NEW x \in Nat, NEW y \in Nat, x <= y
    PROVE  n * x \in Nat /\ n * y \in Nat /\ n * x <= n * y
<1>1. PICK d \in Nat : y = x + d
  <2>1. y - x \in Nat /\ y = x + (y - x) OBVIOUS
  <2> QED BY <2>1
<1>2. n * y = n * x + n * d /\ n * x \in Nat /\ n * d \in Nat BY <1>1
<1> QED BY <1>2

LEMMA RecordSampleSamples ==
    ASSUME ControlInv, SampleInv, RecordSample
    PROVE  SampleInv'
<1>1. TypeOK BY DEF ControlInv, TypeInv
<1>2. /\ prev_tsc \in Nat /\ cur_tsc \in Nat /\ timer_period \in Nat /\ SAMPLE_SIZE \in Nat
      /\ Hz \in Nat \ {0} /\ TotalSamples \in Nat \ {0}
  BY <1>1, L2fwdAssumption DEF TypeOK
<1>3. /\ main_pc = "aggregate" /\ main_pc' = "stats" /\ prev_tsc' = cur_tsc
      /\ timer_period' = timer_period /\ timer_arg' = timer_arg
      /\ SAMPLE_SIZE' = IF timer_period > 0 THEN SAMPLE_SIZE + 1 ELSE SAMPLE_SIZE
      /\ force_quit' = (force_quit \/ cur_tsc >= EndTsc)
  BY DEF RecordSample, CheckEnd, config
<1>4. /\ prev_tsc < EndTsc /\ cur_tsc - prev_tsc >= timer_period
      /\ SAMPLE_SIZE * timer_period <= prev_tsc /\ SamplesFit
      /\ timer_arg <= MaxPeriod => timer_period = 0 \/ timer_period >= Hz
  BY <1>3 DEF SampleInv
<1>5. /\ SAMPLE_SIZE * timer_period \in Nat
      /\ (SAMPLE_SIZE + 1) * timer_period = SAMPLE_SIZE * timer_period + timer_period
  BY <1>2
<1>6. EndTsc \in Nat BY TimeFacts
<1>7. SAMPLE_SIZE' * timer_period <= cur_tsc
  <2>1. CASE timer_period > 0
    <3>1. SAMPLE_SIZE * timer_period + timer_period <= cur_tsc BY <1>2, <1>4, <1>5
    <3>2. SAMPLE_SIZE' = SAMPLE_SIZE + 1 BY <1>3, <2>1
    <3> QED BY <1>5, <3>1, <3>2
  <2>2. CASE ~(timer_period > 0)
    <3>1. SAMPLE_SIZE' = SAMPLE_SIZE BY <1>3, <2>2
    <3>2. SAMPLE_SIZE * timer_period <= cur_tsc BY <1>2, <1>4, <1>5
    <3> QED BY <3>1, <3>2
  <2> QED BY <2>1, <2>2
\* The sample before this one was taken before the end.
<1>8. SamplesFit'
  <2>1. CASE timer_period > 0
    <3>1. SAMPLE_SIZE' = SAMPLE_SIZE + 1 BY <1>3, <2>1
    <3>2. SAMPLE_SIZE * timer_period < EndTsc BY <1>2, <1>4, <1>5, <1>6
    <3>3. (SAMPLE_SIZE + 1) - 1 = SAMPLE_SIZE BY <1>2
    <3>4. ASSUME timer_arg <= MaxPeriod PROVE SAMPLE_SIZE + 1 <= TotalSamples
      <4>1. Hz <= timer_period BY <1>2, <1>4, <2>1, <3>4
      <4>2. SAMPLE_SIZE * Hz \in Nat /\ SAMPLE_SIZE * Hz <= SAMPLE_SIZE * timer_period
        BY <1>2, <4>1, Monotonic
      <4>3. SAMPLE_SIZE * Hz < EndTsc BY <1>5, <1>6, <3>2, <4>2
      <4>4. SAMPLE_SIZE < TotalSamples BY <1>2, <4>3, TimeFacts
      <4> QED BY <1>2, <4>4
    <3> QED BY <1>3, <2>1, <3>1, <3>2, <3>3, <3>4 DEF SamplesFit
  <2>2. CASE ~(timer_period > 0)
    <3>1. SAMPLE_SIZE' = SAMPLE_SIZE BY <1>3, <2>2
    <3> QED BY <1>3, <1>4, <3>1 DEF SamplesFit, EndTsc
  <2> QED BY <2>1, <2>2
<1>9. cur_tsc < EndTsc \/ force_quit'
  <2>1. cur_tsc < EndTsc \/ cur_tsc >= EndTsc BY <1>2, <1>6
  <2> QED BY <1>3, <2>1, Zenon
<1> QED BY <1>3, <1>4, <1>7, <1>8, <1>9 DEF SampleInv

\* What -T gives is multiplied by the clock rate without a wrap up to the
\* maximum that the code defines.
LEMMA PeriodFits ==
    ASSUME NEW n \in Nat, n <= MaxPeriod
    PROVE  (n * Hz) % Word = 0 \/ (n * Hz) % Word >= Hz
<1>1. /\ Hz \in Nat \ {0} /\ MaxPeriod \in Nat /\ Word \in Nat \ {0}
      /\ MaxPeriod * Hz < Word
  BY L2fwdAssumption
<1>2. n * Hz \in Nat /\ n * Hz <= MaxPeriod * Hz /\ MaxPeriod * Hz \in Nat
  <2>1. n * Hz = Hz * n /\ MaxPeriod * Hz = Hz * MaxPeriod BY <1>1
  <2>2. Hz * n \in Nat /\ Hz * MaxPeriod \in Nat /\ Hz * n <= Hz * MaxPeriod
    BY <1>1, Monotonic
  <2> QED BY <2>1, <2>2
<1>3. \A x \in Nat : x < Word => x % Word = x BY <1>1
<1>4. (n * Hz) % Word = n * Hz BY <1>1, <1>2, <1>3
<1>5. CASE n = 0
  <2>1. n * Hz = 0 BY <1>1, <1>5
  <2> QED BY <1>4, <2>1
<1>6. CASE n # 0
  <2>1. PICK m \in Nat : n = m + 1
    <3>1. n - 1 \in Nat /\ n = (n - 1) + 1 BY <1>6
    <3> QED BY <3>1
  <2>2. n * Hz = m * Hz + Hz /\ m * Hz \in Nat BY <1>1, <2>1
  <2> QED BY <1>1, <1>4, <2>2
<1> QED BY <1>5, <1>6

\* The samples of print_stats are a period apart and none is taken after the
\* end of the run, for every -T and however late main polls the clock; up to
\* MAX_TIMER_PERIOD, which the code does not enforce, they fit the array.
THEOREM SamplesAlwaysFit == Spec => []SamplesFit
<1>1. Init => SampleInv
  <2> SUFFICES ASSUME Init PROVE SampleInv OBVIOUS
  <2>1. timer_arg \in Nat /\ Hz \in Nat \ {0} /\ TotalSamples \in Nat /\ Word \in Nat \ {0}
    BY L2fwdAssumption DEF Init
  <2>2. timer_period = (timer_arg * Hz) % Word /\ timer_period \in Nat
    <3>1. timer_arg * Hz \in Nat BY <2>1
    <3>2. \A n \in Nat : n % Word \in Nat BY <2>1
    <3> QED BY <3>1, <3>2 DEF Init
  <2>3. timer_arg <= MaxPeriod => timer_period = 0 \/ timer_period >= Hz
    BY <2>1, <2>2, PeriodFits
  <2>4. 0 * timer_period = 0 BY <2>2
  <2> QED BY <2>1, <2>3, <2>4, TimeFacts DEF Init, SampleInv, SamplesFit
<1>2. ControlInv /\ SampleInv /\ [Next]_vars => SampleInv'
  <2> SUFFICES ASSUME ControlInv, SampleInv, [Next]_vars PROVE SampleInv' OBVIOUS
  <2>1. TypeOK BY DEF ControlInv, TypeInv
  <2>2. CASE RecordSample BY <2>2, RecordSampleSamples
  <2>3. CASE Launch
    BY <2>3, TimeFacts DEF Launch, SampleInv, SamplesFit, config
  <2>4. CASE StatsHead \/ WaitWorkers
    BY <2>4 DEF StatsHead, WaitWorkers, SampleInv, SamplesFit, config
  <2>5. CASE ClockEarly \/ ClockDue
    BY <2>5 DEF ClockEarly, ClockDue, SampleInv, SamplesFit, config, CheckEnd
  <2>6. CASE Aggregate BY <2>6 DEF Aggregate, SampleInv, SamplesFit, config
  <2>7. CASE StopPort \/ Destroy
    BY <2>7 DEF StopPort, Destroy, SampleInv, SamplesFit, mainVars, config
  <2>8. CASE (\E w \in Workers : Worker(w)) \/ Nic \/ Tick \/ UNCHANGED vars
    <3>1. UNCHANGED <<main_pc, timer_arg, timer_period, SAMPLE_SIZE, prev_tsc, cur_tsc,
                      force_quit>>
      BY <2>8 DEF Worker, Enter, LoopHead, PollEmpty, Poll, MapOne, HashBurst, LookupBurst,
         ApplyBurst, RewriteBurst, Transmit, Nic, NicReceive, NicTransmit, Tick, vars,
         mainVars, config
    <3> QED BY <3>1 DEF SampleInv, SamplesFit
  <2>9. CASE signal_handler BY <2>9 DEF signal_handler, SampleInv, SamplesFit, mainVars, config
  <2> QED BY <2>2, <2>3, <2>4, <2>5, <2>6, <2>7, <2>8, <2>9 DEF Next, Main
<1>3. SampleInv => SamplesFit BY DEF SampleInv
<1> QED BY <1>1, <1>2, <1>3, ControlInvariant, PTL DEF Spec

-----------------------------------------------------------------------------
(* The rate: two passes over counters that only grow                        *)

\* What a pass over the counters has yet to read: with a cell, all later ones.
Segment(S) == S \in SUBSET Cells /\ \A c \in S, d \in Cells : Before(c, d) => d \in S

\* f[S] is the total of a pass when it has S left to read, and what it added
\* at each cell is no more than the counter shows in st.
Reached(f, st) ==
    \A S \in SUBSET Cells : Segment(S) /\ S # {} =>
        f[S \ {Earliest(S)}] <= f[S] + st[Earliest(S)].fwded

\* old is the pass that gave total_packets_fwded_prev, cur the one under way:
\* cell by cell, cur stays ahead of old.
PassInv(old) ==
    /\ old[Cells] = 0 /\ old[{}] = total_packets_fwded_prev
    /\ Reached(old, port_statistics)
    /\ main_pc = "aggregate" => total_packets_fwded >= old[scan]

ScanInv(cur) ==
    /\ Segment(scan) /\ cur[Cells] = 0 /\ Reached(cur, port_statistics)
    /\ \A S \in SUBSET scan : cur[S] = total_packets_fwded

RateInv ==
    /\ \E old \in [SUBSET Cells -> Nat] : PassInv(old)
    /\ main_pc = "aggregate" => \E cur \in [SUBSET Cells -> Nat] : ScanInv(cur)

\* No step lowers a forwarded counter.
Grows ==
    \A c \in Cells : port_statistics[c].fwded <= port_statistics'[c].fwded

LEMMA CountGrows ==
    ASSUME ControlInv, NEW w \in Workers, i[w] \in 1 .. Len(RxList[w]),
           NEW d \in [Fields -> Nat], Count(w, d)
    PROVE  Grows
<1>1. TypeInv BY DEF ControlInv
<1>2. "fwded" \in Fields BY DEF Fields
<1>3. port_statistics \in [Cells -> [Fields -> Nat]]
  BY <1>1, NoStatsFacts DEF TypeInv, TypeOK
<1>4. /\ port_statistics'[<<Port(w), w>>]["fwded"]
            = port_statistics[<<Port(w), w>>]["fwded"] + d["fwded"]
      /\ \A c \in Cells \ {<<Port(w), w>>} : port_statistics'[c] = port_statistics[c]
  BY <1>1, <1>2, CountFacts
<1>5. ASSUME NEW c \in Cells PROVE port_statistics[c]["fwded"] <= port_statistics'[c]["fwded"]
  <2>1. port_statistics[c]["fwded"] \in Nat /\ d["fwded"] \in Nat BY <1>2, <1>3
  <2>2. CASE c = <<Port(w), w>>
    <3>1. port_statistics'[c]["fwded"] = port_statistics[c]["fwded"] + d["fwded"]
      BY <1>4, <2>2
    <3> QED BY <2>1, <3>1
  <2>3. CASE c # <<Port(w), w>>
    <3>1. port_statistics'[c]["fwded"] = port_statistics[c]["fwded"] BY <1>4, <2>3
    <3> QED BY <2>1, <3>1
  <2> QED BY <2>2, <2>3
<1> QED BY <1>5 DEF Grows

LEMMA StillGrows ==
    ASSUME ControlInv, port_statistics' = port_statistics
    PROVE  Grows
<1>1. port_statistics \in [Cells -> [Fields -> Nat]] /\ "fwded" \in Fields
  BY NoStatsFacts DEF ControlInv, TypeInv, TypeOK, Fields
<1>2. \A c \in Cells : port_statistics[c].fwded \in Nat BY <1>1
<1> QED BY <1>2 DEF Grows

LEMMA WorkerGrows ==
    ASSUME ControlInv, NEW w \in Workers, Worker(w)
    PROVE  Grows
<1>1. TypeInv /\ WorkerInv(w) BY DEF ControlInv
<1>2. pc[w] \in {"poll"} \cup Busy => i[w] \in 1 .. Len(RxList[w]) BY <1>1 DEF WorkerInv
<1>3. pkts_burst[w] \in SUBSET Mbufs /\ todo[w] \in SUBSET pkts_burst[w]
  BY <1>1, Same DEF WorkerInv
<1>4. CASE Enter(w) \/ LoopHead(w) \/ PollEmpty(w) \/ HashBurst(w) \/ LookupBurst(w)
  BY <1>4, StillGrows DEF Enter, LoopHead, PollEmpty, HashBurst, LookupBurst
<1>5. CASE Poll(w)
  <2>1. PICK B \in SUBSET rx_ring[Queue(w)] :
           Count(w, [NoStats EXCEPT !.rx = Cardinality(B)])
    BY <1>5 DEF Poll
  <2>2. i[w] \in 1 .. Len(RxList[w]) BY <1>2, <1>5 DEF Poll
  <2>3. Queue(w) \in Queues BY <1>1, <2>2, QueueFacts
  <2>4. rx_ring[Queue(w)] \in SUBSET Mbufs BY <1>1, <2>3, Same
  <2>5. Cardinality(B) \in Nat BY <2>1, <2>4, SizeFacts
  <2> QED BY <2>1, <2>2, <2>5, DeltaFacts, CountGrows
<1>6. CASE MapOne(w)
  <2>1. PICK d \in [Fields -> Nat] : Count(w, d) BY <1>6, DeltaFacts DEF MapOne
  <2>2. i[w] \in 1 .. Len(RxList[w]) BY <1>2, <1>6 DEF MapOne, Busy
  <2> QED BY <2>1, <2>2, CountGrows
<1>7. CASE ApplyBurst(w) \/ RewriteBurst(w)
  <2>1. /\ Cardinality(todo[w]) \in Nat /\ Cardinality(pkts_burst[w]) \in Nat
        /\ Cardinality(pkts_burst[w]) - Cardinality(todo[w]) \in Nat
    <3>1. todo[w] \in SUBSET Mbufs BY <1>3
    <3>2. Cardinality(todo[w]) <= Cardinality(pkts_burst[w]) BY <1>3, SizeFacts
    <3> QED BY <1>3, <3>1, <3>2, SizeFacts
  <2>2. PICK d \in [Fields -> Nat] : Count(w, d)
    BY <1>7, <2>1, DeltaFacts DEF ApplyBurst, RewriteBurst
  <2>3. i[w] \in 1 .. Len(RxList[w]) BY <1>2, <1>7 DEF ApplyBurst, RewriteBurst, Busy
  <2> QED BY <2>2, <2>3, CountGrows
<1>8. CASE Transmit(w)
  <2>1. PICK S \in SUBSET pkts_burst[w] :
           Count(w, [NoStats EXCEPT
               !.tx = Cardinality(S),
               !.tx_dropped = Cardinality(pkts_burst[w]) - Cardinality(S)])
    BY <1>8 DEF Transmit
  <2>2. Cardinality(S) \in Nat /\ Cardinality(pkts_burst[w]) - Cardinality(S) \in Nat
    <3>1. S \in SUBSET Mbufs BY <1>3, <2>1
    <3>2. Cardinality(S) <= Cardinality(pkts_burst[w]) BY <1>3, <2>1, SizeFacts
    <3> QED BY <1>3, <3>1, <3>2, SizeFacts
  <2>3. i[w] \in 1 .. Len(RxList[w]) BY <1>2, <1>8 DEF Transmit, Busy
  <2> QED BY <2>1, <2>2, <2>3, DeltaFacts, CountGrows
<1> QED BY <1>4, <1>5, <1>6, <1>7, <1>8 DEF Worker

\* A pass that added no more than the counters show still has not.
LEMMA ReachedGrows ==
    ASSUME ControlInv, ControlInv', Grows,
           NEW f \in [SUBSET Cells -> Nat], Reached(f, port_statistics)
    PROVE  Reached(f, port_statistics')
<1>1. /\ port_statistics \in [Cells -> [Fields -> Nat]]
      /\ port_statistics' \in [Cells -> [Fields -> Nat]] /\ "fwded" \in Fields
  BY NoStatsFacts DEF ControlInv, TypeInv, TypeOK, Fields
<1>2. SUFFICES ASSUME NEW S \in SUBSET Cells, Segment(S), S # {}
               PROVE  f[S \ {Earliest(S)}] <= f[S] + port_statistics'[Earliest(S)].fwded
  BY DEF Reached
<1>3. Earliest(S) \in Cells BY <1>2, EarliestFacts
<1>4. PICK a \in Nat, b \in Nat :
         a = port_statistics[Earliest(S)].fwded /\ b = port_statistics'[Earliest(S)].fwded
  BY <1>1, <1>3
<1>5. a <= b BY <1>3, <1>4 DEF Grows
<1>6. f[S \ {Earliest(S)}] <= f[S] + a BY <1>2, <1>4 DEF Reached
<1>7. f[S \ {Earliest(S)}] \in Nat /\ f[S] \in Nat OBVIOUS
<1> QED BY <1>4, <1>5, <1>6, <1>7

\* Steps of the workers, the NIC and the clock, and main outside its passes.
LEMMA OutsideRate ==
    ASSUME ControlInv, ControlInv', RateInv, Grows,
           UNCHANGED <<total_packets_fwded, total_packets_fwded_prev, scan>>,
           main_pc' = "aggregate" => main_pc = "aggregate"
    PROVE  RateInv'
<1>1. PICK old \in [SUBSET Cells -> Nat] : PassInv(old) BY DEF RateInv
<1>2. PassInv(old)' BY <1>1, ReachedGrows DEF PassInv
<1>3. ASSUME main_pc' = "aggregate"
      PROVE  \E cur \in [SUBSET Cells -> Nat] : ScanInv(cur)'
  <2>1. PICK cur \in [SUBSET Cells -> Nat] : ScanInv(cur) BY <1>3 DEF RateInv
  <2>2. ScanInv(cur)' BY <2>1, ReachedGrows DEF ScanInv
  <2> QED BY <2>2
<1> QED BY <1>2, <1>3 DEF RateInv

\* A pass in which nothing was counted.
LEMMA NothingReached ==
    ASSUME ControlInv
    PROVE  LET z == [S \in SUBSET Cells |-> 0]
           IN  z \in [SUBSET Cells -> Nat] /\ Reached(z, port_statistics)
<1>1. port_statistics \in [Cells -> [Fields -> Nat]] /\ "fwded" \in Fields
  BY NoStatsFacts DEF ControlInv, TypeInv, TypeOK, Fields
<1>2. \A S \in SUBSET Cells : S # {} =>
         /\ port_statistics[Earliest(S)].fwded \in Nat
         /\ S \ {Earliest(S)} \in SUBSET Cells
  BY <1>1, EarliestFacts
<1> QED BY <1>2 DEF Reached

LEMMA ClockDueRate ==
    ASSUME ControlInv, RateInv, ClockDue
    PROVE  RateInv'
<1>1. /\ scan' = Cells /\ total_packets_fwded' = 0 /\ main_pc' = "aggregate"
      /\ UNCHANGED <<port_statistics, total_packets_fwded_prev>>
  BY DEF ClockDue, mainRest, workVars
<1>2. PICK old \in [SUBSET Cells -> Nat] : PassInv(old) BY DEF RateInv
<1>3. PassInv(old)' BY <1>1, <1>2 DEF PassInv
<1> DEFINE z == [S \in SUBSET Cells |-> 0]
<1>4. z \in [SUBSET Cells -> Nat] /\ Reached(z, port_statistics) BY NothingReached
<1>5. z[Cells] = 0 /\ \A S \in SUBSET Cells : z[S] = 0 OBVIOUS
<1>6. Segment(Cells) BY DEF Segment
<1> HIDE DEF z
<1>7. ScanInv(z)' BY <1>1, <1>4, <1>5, <1>6 DEF ScanInv
<1> QED BY <1>1, <1>3, <1>4, <1>7 DEF RateInv

\* Reading the next counter leaves a segment, and no other segment loses its
\* first cell to it.
LEMMA NextCell ==
    ASSUME NEW R \in SUBSET Cells, Segment(R), R # {}
    PROVE  /\ Segment(R \ {Earliest(R)})
           /\ \A S \in SUBSET Cells :
                 /\ Segment(S) /\ S # {}
                 /\ ~(S \subseteq R \ {Earliest(R)})
                 /\ S \ {Earliest(S)} \subseteq R \ {Earliest(R)}
                 => S \subseteq R /\ Earliest(S) = Earliest(R)
<1> DEFINE e == Earliest(R)
<1>1. e \in R /\ e \in Cells /\ \A d \in R : Before(e, d) BY EarliestFacts
<1> HIDE DEF e
<1>2. Segment(R \ {e})
  <2>1. ASSUME NEW c \in R \ {e}, NEW d \in Cells, Before(c, d) PROVE d \in R \ {e}
    <3>1. d \in R BY <2>1 DEF Segment
    <3>2. d # e BY <1>1, <2>1, CellFacts
    <3> QED BY <3>1, <3>2
  <2> QED BY <2>1 DEF Segment
<1>3. ASSUME NEW S \in SUBSET Cells, Segment(S), S # {}, ~(S \subseteq R \ {e}),
             S \ {Earliest(S)} \subseteq R \ {e}
      PROVE  S \subseteq R /\ Earliest(S) = e
  <2> DEFINE x == Earliest(S)
  <2>1. x \in S /\ x \in Cells /\ \A d \in S : Before(x, d) BY <1>3, EarliestFacts
  <2>2. S \ {x} \subseteq R \ {e} BY <1>3
  <2> HIDE DEF x
  <2>3. x \notin R \ {e} BY <1>3, <2>1, <2>2
  <2>4. x \in R
    <3>1. CASE Before(x, e)
      <4>1. e \in S BY <1>1, <1>3, <2>1, <3>1 DEF Segment
      <4> QED BY <1>1, <2>2, <4>1
    <3>2. CASE Before(e, x) BY <1>1, <2>1, <3>2 DEF Segment
    <3> QED BY <1>1, <2>1, <3>1, <3>2, CellFacts
  <2>5. x = e BY <2>3, <2>4
  <2> QED BY <1>1, <2>2, <2>5 DEF x
<1> QED BY <1>2, <1>3 DEF e

LEMMA AggregateRate ==
    ASSUME ControlInv, RateInv, Aggregate
    PROVE  RateInv'
<1> DEFINE e == Earliest(scan)
           n == port_statistics[e].fwded
<1>1. /\ total_packets_fwded' = total_packets_fwded + n
      /\ scan' = scan \ {e} /\ scan # {} /\ main_pc = "aggregate" /\ main_pc' = "aggregate"
      /\ UNCHANGED <<port_statistics, total_packets_fwded_prev>>
  BY DEF Aggregate, mainRest, workVars
<1>2. scan \in SUBSET Cells /\ total_packets_fwded \in Nat
  BY DEF ControlInv, TypeInv, TypeOK
<1>3. e \in scan /\ e \in Cells BY <1>1, <1>2, EarliestFacts
<1>4. port_statistics \in [Cells -> [Fields -> Nat]] /\ "fwded" \in Fields
  BY NoStatsFacts DEF ControlInv, TypeInv, TypeOK, Fields
<1>5. \A c \in Cells : port_statistics[c].fwded \in Nat BY <1>4
<1>6. n \in Nat BY <1>3, <1>5
<1>7. PICK old \in [SUBSET Cells -> Nat] : PassInv(old) BY DEF RateInv
<1>8. PICK cur \in [SUBSET Cells -> Nat] : ScanInv(cur) BY <1>1 DEF RateInv
<1>9. Segment(scan) BY <1>8 DEF ScanInv
<1>10. PassInv(old)'
  <2>1. old[scan \ {e}] <= old[scan] + n BY <1>1, <1>2, <1>7, <1>9 DEF PassInv, Reached
  <2>2. old[scan \ {e}] \in Nat /\ old[scan] \in Nat BY <1>2, <1>7
  <2>3. total_packets_fwded >= old[scan] BY <1>1, <1>7 DEF PassInv
  <2> HIDE DEF e, n
  <2>4. total_packets_fwded + n >= old[scan \ {e}] BY <1>2, <1>6, <2>1, <2>2, <2>3
  <2> QED BY <1>1, <1>7, <2>4 DEF PassInv
<1> DEFINE next == [S \in SUBSET Cells |->
                      IF S \subseteq scan \ {e} THEN total_packets_fwded + n ELSE cur[S]]
<1>11. next \in [SUBSET Cells -> Nat]
  <2> HIDE DEF e, n
  <2> QED BY <1>2, <1>6, <1>8
<1>12. next[Cells] = 0
  <2>1. ~(Cells \subseteq scan \ {e}) BY <1>3
  <2>2. cur[Cells] = 0 BY <1>8 DEF ScanInv
  <2> QED BY <2>1, <2>2
<1>13. Reached(next, port_statistics)
  <2> SUFFICES ASSUME NEW S \in SUBSET Cells, Segment(S), S # {}
               PROVE  next[S \ {Earliest(S)}]
                        <= next[S] + port_statistics[Earliest(S)].fwded
    BY DEF Reached
  <2> DEFINE x == Earliest(S)
             m == port_statistics[x].fwded
  <2>1. x \in S /\ S \ {x} \in SUBSET Cells BY EarliestFacts
  <2>2. m \in Nat BY <1>5, <2>1
  <2>3. next[S \ {x}] \in Nat /\ next[S] \in Nat BY <1>11, <2>1
  <2>4. CASE S \subseteq scan \ {e}
    <3>1. S \ {x} \subseteq scan \ {e} BY <2>4
    <3>2. next[S] = total_packets_fwded + n /\ next[S \ {x}] = total_packets_fwded + n
      BY <2>1, <2>4, <3>1
    <3>3. next[S \ {x}] = next[S] BY <3>2
    <3> HIDE DEF next, m
    <3> QED BY <2>2, <2>3, <3>3 DEF m
  <2>5. CASE ~(S \subseteq scan \ {e}) /\ S \ {x} \subseteq scan \ {e}
    <3>1. S \subseteq scan /\ x = e BY <1>1, <1>2, <1>9, <2>5, NextCell
    <3>2. next[S \ {x}] = total_packets_fwded + n /\ next[S] = cur[S] BY <2>1, <2>5
    <3>3. cur[S] = total_packets_fwded BY <1>8, <3>1 DEF ScanInv
    <3>4. m = n BY <3>1
    <3> HIDE DEF next, m, n
    <3>5. next[S \ {x}] <= next[S] + m BY <1>2, <1>6, <3>2, <3>3, <3>4
    <3> QED BY <3>5 DEF m
  <2>6. CASE ~(S \subseteq scan \ {e}) /\ ~(S \ {x} \subseteq scan \ {e})
    <3>1. next[S \ {x}] = cur[S \ {x}] /\ next[S] = cur[S] BY <2>1, <2>6
    <3>2. cur[S \ {x}] <= cur[S] + m BY <1>8 DEF ScanInv, Reached
    <3> HIDE DEF next
    <3> QED BY <3>1, <3>2
  <2> QED BY <2>4, <2>5, <2>6
<1>14. \A S \in SUBSET (scan \ {e}) : next[S] = total_packets_fwded + n
  <2>1. \A S \in SUBSET (scan \ {e}) : S \in SUBSET Cells BY <1>2
  <2> QED BY <2>1
<1>15. Segment(scan \ {e}) BY <1>1, <1>2, <1>9, NextCell
<1> HIDE DEF next, e, n
<1>16. PICK now \in [SUBSET Cells -> Nat] : now = next BY <1>11
<1>17. ScanInv(now)'
  <2>1. \A S \in SUBSET scan' : now[S] = total_packets_fwded' BY <1>1, <1>14, <1>16
  <2>2. Reached(now, port_statistics') BY <1>1, <1>13, <1>16
  <2> QED BY <1>1, <1>12, <1>15, <1>16, <2>1, <2>2 DEF ScanInv
<1> QED BY <1>10, <1>17 DEF RateInv

LEMMA RecordSampleRate ==
    ASSUME ControlInv, RateInv, RecordSample
    PROVE  RateInv'
<1>1. /\ main_pc = "aggregate" /\ main_pc' = "stats" /\ scan = {}
      /\ total_packets_fwded_prev' = total_packets_fwded
      /\ UNCHANGED port_statistics
  BY DEF RecordSample, mainRest, workVars
<1>2. PICK cur \in [SUBSET Cells -> Nat] : ScanInv(cur) BY <1>1 DEF RateInv
<1>3. cur[{}] = total_packets_fwded BY <1>1, <1>2 DEF ScanInv
<1>4. PassInv(cur)' BY <1>1, <1>2, <1>3 DEF ScanInv, PassInv
<1> QED BY <1>1, <1>4 DEF RateInv

\* The rate of print_stats is never negative: a pass over the counters while
\* the workers run sees, cell by cell, no less than the pass before it did.
THEOREM RateStaysUnwrapped == Spec => []RateNeverWraps
<1>1. Init => RateInv
  <2> SUFFICES ASSUME Init PROVE RateInv OBVIOUS
  <2>1. port_statistics = [c \in Cells |-> NoStats] BY DEF Init
  <2> DEFINE z == [S \in SUBSET Cells |-> 0]
  <2>2. z \in [SUBSET Cells -> Nat] /\ z[Cells] = 0 /\ z[{}] = 0 OBVIOUS
  <2>3. Reached(z, port_statistics)
    <3>1. \A S \in SUBSET Cells : S # {} =>
             /\ port_statistics[Earliest(S)].fwded = 0
             /\ S \ {Earliest(S)} \in SUBSET Cells
      BY <2>1, EarliestFacts DEF NoStats
    <3> QED BY <3>1 DEF Reached
  <2> HIDE DEF z
  <2>4. PassInv(z) BY <2>2, <2>3 DEF PassInv, Init
  <2> QED BY <2>2, <2>4 DEF RateInv, Init
<1>2. ControlInv /\ ControlInv' /\ RateInv /\ [Next]_vars => RateInv'
  <2> SUFFICES ASSUME ControlInv, ControlInv', RateInv, [Next]_vars PROVE RateInv' OBVIOUS
  <2>1. CASE ClockDue BY <2>1, ClockDueRate
  <2>2. CASE Aggregate BY <2>2, AggregateRate
  <2>3. CASE RecordSample BY <2>3, RecordSampleRate
  <2>4. CASE Launch \/ StatsHead \/ ClockEarly \/ WaitWorkers \/ StopPort \/ Destroy
    <3>1. /\ UNCHANGED <<total_packets_fwded, total_packets_fwded_prev, scan, port_statistics>>
          /\ main_pc' = "aggregate" => main_pc = "aggregate"
      BY <2>4 DEF Launch, StatsHead, ClockEarly, WaitWorkers, StopPort, Destroy, mainRest,
                  mainVars, workVars
    <3> QED BY <3>1, StillGrows, OutsideRate
  <2>5. CASE \E w \in Workers : Worker(w)
    <3>1. PICK w \in Workers : Worker(w) BY <2>5
    <3>2. UNCHANGED <<total_packets_fwded, total_packets_fwded_prev, scan, main_pc>>
      BY <3>1 DEF Worker, Enter, LoopHead, PollEmpty, Poll, MapOne, HashBurst, LookupBurst,
         ApplyBurst, RewriteBurst, Transmit, mainVars
    <3> QED BY <3>1, <3>2, WorkerGrows, OutsideRate
  <2>6. CASE Nic \/ Tick \/ signal_handler \/ UNCHANGED vars
    <3>1. UNCHANGED <<total_packets_fwded, total_packets_fwded_prev, scan, main_pc,
                      port_statistics>>
      BY <2>6 DEF Nic, NicReceive, NicTransmit, Tick, signal_handler, vars, mainVars, workVars
    <3> QED BY <3>1, StillGrows, OutsideRate
  <2> QED BY <2>1, <2>2, <2>3, <2>4, <2>5, <2>6 DEF Next, Main
<1>3. ControlInv /\ RateInv => RateNeverWraps
  <2> SUFFICES ASSUME RateInv, main_pc = "aggregate", scan = {}
               PROVE  total_packets_fwded >= total_packets_fwded_prev
    BY DEF RateNeverWraps
  <2>1. PICK old \in [SUBSET Cells -> Nat] : PassInv(old) BY DEF RateInv
  <2> QED BY <2>1 DEF PassInv
<1> QED BY <1>1, <1>2, <1>3, ControlInvariant, PTL DEF Spec

=============================================================================
