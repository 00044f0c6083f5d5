------------------------------- MODULE Pktgen -------------------------------
(***************************************************************************)
(* The packet generator at run time (pktgen/pktgen.c): TX workers that     *)
(* allocate, build and send bursts of numbered packets, RX workers that    *)
(* count what comes back, and the main lcore that reports once a second    *)
(* until a signal ends the run.  Every worker has its own mbuf pool, queue *)
(* and counters; workers publish their counters now and then.              *)
(*                                                                         *)
(* Abstracted: a packet is <<thread_id, packet_id>>; headers, byte counts, *)
(* latencies and hardware counters are only printed.  Whether the publish  *)
(* interval (g_timer_hz / 10) has passed is open.                          *)
(***************************************************************************)
EXTENDS Integers, FiniteSets, Sequences

CONSTANTS TxLcores, RxLcores,   \* the workers (numbers) by role
          PortOf,               \* lcore_config[w].port_id
          Burst,                \* BURST_SIZE
          PoolSizes,            \* values of NUM_MBUFS_PER_CORE to consider
          TxRing, RxRing,       \* TX_RING_SIZE, RX_RING_SIZE
          MaxPackets            \* bound: packets a port accepts per TX worker

Workers == TxLcores \cup RxLcores
Ports == {PortOf[w] : w \in Workers}

ASSUME PktgenAssumption ==
    /\ Workers \subseteq Nat /\ IsFiniteSet(Workers)
    /\ TxLcores \cap RxLcores = {}
    /\ \A w \in Workers : PortOf[w] \in Nat
    /\ Burst \in Nat \ {0} /\ PoolSizes \subseteq Nat
    /\ TxRing \in Nat /\ RxRing \in Nat /\ MaxPackets \in Nat

VARIABLES
    pool_size,    \* NUM_MBUFS_PER_CORE of this build
    force_quit,
    \* the main lcore
    main_pc,
    scan,         \* workers whose counters this report has yet to read
    prev_pkts,    \* prev_tx_pkts or prev_rx_pkts, by worker
    open,         \* ports that are started
    \* the workers
    pc,
    bufs,         \* the packets (mbufs) of the burst in hand
    local_pkts,
    g_stats,      \* the published packet counter
    avail,        \* free mbufs in the worker's pool
    ring,         \* packets in the worker's TX or RX queue
    \* history
    accepted,     \* packet ids the port took from a TX worker, in order
    reported      \* sum of the per-second rates printed for a worker

mainVars == <<pool_size, main_pc, scan, prev_pkts, open, reported>>
workVars == <<pc, bufs, local_pkts, g_stats, avail, ring, accepted>>
vars == <<force_quit, mainVars, workVars>>

\* Ports are started, "Waiting 4 seconds for physical links to come up".
Init ==
    /\ pool_size \in PoolSizes
    /\ force_quit = FALSE
    /\ main_pc = "links"
    /\ scan = {}
    /\ prev_pkts = [w \in Workers |-> 0]
    /\ open = Ports
    /\ pc = [w \in Workers |-> "wait"]
    /\ bufs = [w \in Workers |-> <<>>]
    /\ local_pkts = [w \in Workers |-> 0]
    /\ g_stats = [w \in Workers |-> 0]
    /\ avail = [w \in Workers |-> pool_size]
    /\ ring = [w \in Workers |-> <<>>]
    /\ accepted = [w \in TxLcores |-> <<>>]
    /\ reported = [w \in Workers |-> 0]

\* SIGINT or SIGTERM, at any time.
signal_handler ==
    /\ main_pc # "exit"
    /\ force_quit' = TRUE
    /\ UNCHANGED <<mainVars, workVars>>

-----------------------------------------------------------------------------
(* All workers                                                             *)

\* Mutant: the worker does not look at force_quit.
LoopHeadBlind(w) ==
    /\ pc[w] = "head"
    /\ pc' = [pc EXCEPT ![w] = "burst"]
    /\ UNCHANGED <<force_quit, mainVars, bufs, local_pkts, g_stats, avail, ring, accepted>>

\* "while (!force_quit)"
LoopHead(w) ==
    /\ pc[w] = "head"
    /\ pc' = [pc EXCEPT ![w] = IF force_quit THEN "flush" ELSE "burst"]
    /\ UNCHANGED <<force_quit, mainVars, bufs, local_pkts, g_stats, avail, ring, accepted>>

\* The publish interval has passed.
Publish(w) ==
    /\ pc[w] = "publish"
    /\ g_stats' = [g_stats EXCEPT ![w] = local_pkts[w]]
    /\ pc' = [pc EXCEPT ![w] = "head"]
    /\ UNCHANGED <<force_quit, mainVars, bufs, local_pkts, avail, ring, accepted>>

NotYet(w) ==
    /\ pc[w] = "publish"
    /\ pc' = [pc EXCEPT ![w] = "head"]
    /\ UNCHANGED <<force_quit, mainVars, bufs, local_pkts, g_stats, avail, ring, accepted>>

\* The last counters are published when the worker ends.
Flush(w) ==
    /\ pc[w] = "flush"
    /\ g_stats' = [g_stats EXCEPT ![w] = local_pkts[w]]
    /\ pc' = [pc EXCEPT ![w] = "finished"]
    /\ UNCHANGED <<force_quit, mainVars, bufs, local_pkts, avail, ring, accepted>>

-----------------------------------------------------------------------------
(* tx_worker_loop                                                          *)

\* rte_pktmbuf_alloc_bulk takes all or nothing; "continue".
AllocFail(w) ==
    /\ w \in TxLcores /\ pc[w] = "burst"
    /\ avail[w] < Burst
    /\ pc' = [pc EXCEPT ![w] = "head"]
    /\ UNCHANGED <<force_quit, mainVars, bufs, local_pkts, g_stats, avail, ring, accepted>>

\* Allocate and build a burst; packet_id = local_pkts + i.
Build(w) ==
    /\ w \in TxLcores /\ pc[w] = "burst"
    /\ avail[w] >= Burst
    /\ avail' = [avail EXCEPT ![w] = @ - Burst]
    /\ bufs' = [bufs EXCEPT ![w] = [i \in 1 .. Burst |-> <<w, local_pkts[w] + i - 1>>]]
    /\ pc' = [pc EXCEPT ![w] = "tx"]
    /\ UNCHANGED <<force_quit, mainVars, local_pkts, g_stats, ring, accepted>>

\* How many packets the port may take: none at all is possible too.
NbTx(w) ==
    {n \in 0 .. Burst : /\ Len(ring[w]) + n <= TxRing
                        /\ local_pkts[w] + n <= MaxPackets}

\* What rte_eth_tx_burst does when it takes n packets.
TxBurst(w, n) ==
    /\ ring' = [ring EXCEPT ![w] = @ \o SubSeq(bufs[w], 1, n)]
    /\ accepted' = [accepted EXCEPT ![w] = @ \o [i \in 1 .. n |-> bufs[w][i][2]]]

\* Mutant: the packets the port did not take are not freed.
TransmitLeaks(w) ==
    /\ w \in TxLcores /\ pc[w] = "tx"
    /\ \E n \in NbTx(w) :
          /\ TxBurst(w, n)
          /\ local_pkts' = [local_pkts EXCEPT ![w] = @ + n]
    /\ bufs' = [bufs EXCEPT ![w] = <<>>]
    /\ pc' = [pc EXCEPT ![w] = "publish"]
    /\ UNCHANGED <<force_quit, mainVars, g_stats, avail>>

\* Mutant: the whole burst is counted, whatever the port took.
TransmitCountsAll(w) ==
    /\ w \in TxLcores /\ pc[w] = "tx"
    /\ \E n \in NbTx(w) :
          /\ TxBurst(w, n)
          /\ avail' = [avail EXCEPT ![w] = @ + (Burst - n)]
          /\ local_pkts' = [local_pkts EXCEPT ![w] = @ + Burst]
    /\ bufs' = [bufs EXCEPT ![w] = <<>>]
    /\ pc' = [pc EXCEPT ![w] = "publish"]
    /\ UNCHANGED <<force_quit, mainVars, g_stats>>

\* Send the burst, free what was not taken, count what was.
Transmit(w) ==
    /\ w \in TxLcores /\ pc[w] = "tx"
    /\ \E n \in NbTx(w) :
          /\ TxBurst(w, n)
          /\ avail' = [avail EXCEPT ![w] = @ + (Burst - n)]
          /\ local_pkts' = [local_pkts EXCEPT ![w] = @ + n]
    /\ bufs' = [bufs EXCEPT ![w] = <<>>]
    /\ pc' = [pc EXCEPT ![w] = "publish"]
    /\ UNCHANGED <<force_quit, mainVars, g_stats>>

-----------------------------------------------------------------------------
(* rx_worker_loop                                                          *)

\* nb_rx == 0: pause; the publish interval is not looked at.
PollEmpty(w) ==
    /\ w \in RxLcores /\ pc[w] = "burst"
    /\ ring[w] = <<>>
    /\ pc' = [pc EXCEPT ![w] = "head"]
    /\ UNCHANGED <<force_quit, mainVars, bufs, local_pkts, g_stats, avail, ring, accepted>>

Poll(w) ==
    /\ w \in RxLcores /\ pc[w] = "burst"
    /\ \E n \in 1 .. Burst :
          /\ n <= Len(ring[w])
          /\ bufs' = [bufs EXCEPT ![w] = SubSeq(ring[w], 1, n)]
          /\ ring' = [ring EXCEPT ![w] = SubSeq(@, n + 1, Len(@))]
    /\ pc' = [pc EXCEPT ![w] = "count"]
    /\ UNCHANGED <<force_quit, mainVars, local_pkts, g_stats, avail, accepted>>

\* Every packet is measured and freed, then the burst is counted.
Count(w) ==
    /\ pc[w] = "count"
    /\ avail' = [avail EXCEPT ![w] = @ + Len(bufs[w])]
    /\ local_pkts' = [local_pkts EXCEPT ![w] = @ + Len(bufs[w])]
    /\ bufs' = [bufs EXCEPT ![w] = <<>>]
    /\ pc' = [pc EXCEPT ![w] = "publish"]
    /\ UNCHANGED <<force_quit, mainVars, g_stats, ring, accepted>>

-----------------------------------------------------------------------------
(* The ports and the wire (external)                                       *)

\* The oldest packet of a TX queue is sent, its mbuf goes back to the pool;
\* it comes back on an RX queue with room and a free mbuf, or gets lost.
Wire(w) ==
    /\ PortOf[w] \in open /\ ring[w] # <<>>
    /\ \/ /\ ring' = [ring EXCEPT ![w] = Tail(@)]
          /\ avail' = [avail EXCEPT ![w] = @ + 1]
       \/ \E r \in RxLcores :
             /\ PortOf[r] \in open /\ Len(ring[r]) < RxRing /\ avail[r] > 0
             /\ ring' = [ring EXCEPT ![w] = Tail(@), ![r] = Append(@, Head(ring[w]))]
             /\ avail' = [avail EXCEPT ![w] = @ + 1, ![r] = @ - 1]
    /\ UNCHANGED <<force_quit, mainVars, pc, bufs, local_pkts, g_stats, accepted>>

-----------------------------------------------------------------------------
(* The main lcore                                                          *)

\* rte_eal_mp_remote_launch
Launch ==
    /\ main_pc = "links"
    /\ main_pc' = "head"
    /\ pc' = [w \in Workers |-> "head"]
    /\ UNCHANGED <<force_quit, pool_size, scan, prev_pkts, open, reported,
                   bufs, local_pkts, g_stats, avail, ring, accepted>>

ReportHead ==
    /\ main_pc = "head"
    /\ main_pc' = IF force_quit THEN "join" ELSE "sleep"
    /\ UNCHANGED <<force_quit, pool_size, scan, prev_pkts, open, reported, workVars>>

\* sleep(1), then force_quit is looked at again.
Wake ==
    /\ main_pc = "sleep"
    /\ IF force_quit
       THEN main_pc' = "join" /\ UNCHANGED scan
       ELSE main_pc' = "report" /\ scan' = Workers
    /\ UNCHANGED <<force_quit, pool_size, prev_pkts, open, reported, workVars>>

Earliest(S) == CHOOSE w \in S : \A v \in S : w <= v

\* Mutant: the previous counter is not remembered.
ReadStatsForgets ==
    /\ main_pc = "report" /\ scan # {}
    /\ LET w == Earliest(scan)
       IN  /\ reported' = [reported EXCEPT ![w] = @ + (g_stats[w] - prev_pkts[w])]
           /\ scan' = scan \ {w}
    /\ UNCHANGED <<force_quit, pool_size, main_pc, prev_pkts, open, workVars>>

\* One worker's counter is read and turned into a rate.
ReadStats ==
    /\ main_pc = "report" /\ scan # {}
    /\ LET w == Earliest(scan)
       IN  /\ reported' = [reported EXCEPT ![w] = @ + (g_stats[w] - prev_pkts[w])]
           /\ prev_pkts' = [prev_pkts EXCEPT ![w] = g_stats[w]]
           /\ scan' = scan \ {w}
    /\ UNCHANGED <<force_quit, pool_size, main_pc, open, workVars>>

\* The hardware counters are read and the report is printed.
Report ==
    /\ main_pc = "report" /\ scan = {}
    /\ main_pc' = "head"
    /\ UNCHANGED <<force_quit, pool_size, scan, prev_pkts, open, reported, workVars>>

\* Mutant: the main lcore does not wait.
JoinNobody ==
    /\ main_pc = "join"
    /\ main_pc' = "close"
    /\ UNCHANGED <<force_quit, pool_size, scan, prev_pkts, open, reported, workVars>>

\* rte_eal_mp_wait_lcore
Join ==
    /\ main_pc = "join"
    /\ \A w \in Workers : pc[w] = "finished"
    /\ main_pc' = "close"
    /\ UNCHANGED <<force_quit, pool_size, scan, prev_pkts, open, reported, workVars>>

\* Stop and close the ports; what their queues still hold goes back.
ClosePort ==
    /\ main_pc = "close" /\ open # {}
    /\ LET p == Earliest(open)
           ws == {w \in Workers : PortOf[w] = p}
       IN  /\ open' = open \ {p}
           /\ avail' = [w \in Workers |-> avail[w] + IF w \in ws THEN Len(ring[w]) ELSE 0]
           /\ ring' = [w \in Workers |-> IF w \in ws THEN <<>> ELSE ring[w]]
    /\ UNCHANGED <<force_quit, pool_size, main_pc, scan, prev_pkts, reported,
                   pc, bufs, local_pkts, g_stats, accepted>>

Exit ==
    /\ main_pc = "close" /\ open = {}
    /\ main_pc' = "exit"
    /\ UNCHANGED <<force_quit, pool_size, scan, prev_pkts, open, reported, workVars>>

-----------------------------------------------------------------------------
Worker(w) ==
    \/ LoopHead(w) \/ Publish(w) \/ NotYet(w) \/ Flush(w)
    \/ AllocFail(w) \/ Build(w) \/ Transmit(w)
    \/ PollEmpty(w) \/ Poll(w) \/ Count(w)

Main ==
    Launch \/ ReportHead \/ Wake \/ ReadStats \/ Report \/ Join \/ ClosePort \/ Exit

Next ==
    \/ Main
    \/ \E w \in Workers : Worker(w)
    \/ \E w \in TxLcores : Wire(w)
    \/ signal_handler

Spec == Init /\ [][Next]_vars

-----------------------------------------------------------------------------
(* Properties                                                              *)

\* Every mbuf of a worker's pool is free, in the worker's hand or in its
\* queue: partial bursts and failed allocations neither leak nor free twice.
PoolsConserved ==
    \A w \in Workers : avail[w] + Len(bufs[w]) + Len(ring[w]) = pool_size

\* The packet ids that leave a TX worker are 0, 1, 2, ... without gap or
\* repetition, although a burst that is taken partly is numbered again.
IdsDense ==
    \A w \in TxLcores : \A i \in DOMAIN accepted[w] : accepted[w][i] = i - 1

\* A pool with room for a full TX queue and a burst never runs dry, so the
\* sizes of pktgen.c (8191 >= 1024 + 64) rule out the retry.
NeverStarved ==
    pool_size >= TxRing + Burst =>
        \A w \in TxLcores : pc[w] = "burst" => avail[w] >= Burst

\* What the reports add up to for a TX worker is never more than the port
\* took from it, no rate wraps around below zero, and a worker that has
\* ended has published everything.
ReportsHonest ==
    \A w \in Workers :
        /\ prev_pkts[w] <= g_stats[w]
        /\ w \in TxLcores => reported[w] <= Len(accepted[w])
        /\ pc[w] = "finished" => g_stats[w] = local_pkts[w]

\* No worker touches a queue of a port that was closed.
NoUseAfterClose ==
    \A w \in Workers :
        pc[w] \in {"head", "burst", "tx", "count", "publish"} => PortOf[w] \in open

=============================================================================
