------------------------------- MODULE L2fwd -------------------------------
(***************************************************************************)
(* The forwarder at run time (l2fwd/main.c): worker lcores that poll their *)
(* RX queues, map each burst to backends and transmit it; the main lcore   *)
(* that samples the counters, ends the run and tears everything down; the  *)
(* signal handler.  All of them share force_quit, the counters, the mbuf   *)
(* pool, the ports and the connection table, without locks.                *)
(*                                                                         *)
(* Abstracted: a packet is its mbuf; which packets belong to a valid flow  *)
(* and which flows have a backend is open (FlowService says what the table *)
(* answers).  rx_cnt, hash_tsc and the hardware counters are only printed  *)
(* and are left out.                                                       *)
(***************************************************************************)
EXTENDS Integers, FiniteSets, Sequences

CONSTANTS Workers,       \* worker lcores (numbers)
          Ports,         \* enabled ports (numbers)
          RxList,        \* RxList[w]: the <<port, queue>> pairs w polls
          Modes,         \* what -m may select: "maglev", "dramblast", "none"
          MaxBurst,      \* MAX_PKT_BURST
          Mbufs,         \* the mbufs of l2fwd_pktmbuf_pool
          Hz,            \* rte_get_timer_hz() and rte_get_tsc_hz()
          TotalSamples,  \* TOTAL_SAMPLES, the length of samples
          Word,          \* how many values a uint64_t has: 2^64
          MaxPeriod,     \* MAX_TIMER_PERIOD, which nothing compares -T with
          Periods,       \* what strtol may leave in timer_period for a -T
          MaxPackets,    \* bound: packets that arrive during the run
          MaxTsc         \* bound: the clock stops here, not before end_tsc

Queues == UNION {{RxList[w][n] : n \in DOMAIN RxList[w]} : w \in Workers}
Cells == Ports \X Workers

\* end_tsc - start_tsc
EndTsc == Hz * TotalSamples

ASSUME L2fwdAssumption ==
    /\ Workers \subseteq Nat /\ IsFiniteSet(Workers)
    /\ Ports \subseteq Nat /\ IsFiniteSet(Ports)
    /\ RxList \in [Workers -> Seq(Ports \X Nat)]
    \* a queue belongs to one lcore: "Same ID used for RX and TX to avoid locks"
    /\ \A v, w \in Workers : \A m \in DOMAIN RxList[v], n \in DOMAIN RxList[w] :
          RxList[v][m] = RxList[w][n] => v = w /\ m = n
    /\ Modes \subseteq {"maglev", "dramblast", "none"}
    /\ IsFiniteSet(Mbufs)
    /\ MaxBurst \in Nat \ {0} /\ Hz \in Nat \ {0} /\ TotalSamples \in Nat \ {0}
    \* 86400 seconds of clock ticks are far from 2^64
    /\ Word \in Nat \ {0} /\ MaxPeriod \in Nat /\ MaxPeriod * Hz < Word
    /\ Periods \subseteq 0 .. Word - 1 /\ MaxPackets \in Nat
    /\ MaxTsc \in Nat /\ MaxTsc >= EndTsc

VARIABLES
    force_quit,     \* set by the signal handler or at the end of the run
    tsc,            \* the time stamp counter, from start_tsc on
    mode, timer_arg,      \* the command line's -m and -T
    timer_period,         \* the period in clock ticks
    \* the main lcore
    main_pc, cur_tsc, prev_tsc,
    scan,           \* counters get_aggregated_stats has yet to read
    total_packets_fwded, total_packets_fwded_prev,
    SAMPLE_SIZE,
    \* worker lcores
    pc, i,          \* position in the loop and in rx_port_list
    pkts_burst,     \* the mbufs of the burst
    todo,           \* maglev: packets not yet processed; dramblast: frames
    port_statistics,
    \* what they share
    pool, rx_ring, tx_ring, started, table_alive,
    arrived         \* packets that have arrived (see MaxPackets)

config == <<mode, timer_arg, timer_period>>
mainVars == <<main_pc, config, cur_tsc, prev_tsc, scan,
              total_packets_fwded, total_packets_fwded_prev, SAMPLE_SIZE>>
workVars == <<pc, i, pkts_burst, todo, port_statistics>>
nicVars == <<pool, rx_ring, tx_ring, started, arrived>>
vars == <<force_quit, tsc, mainVars, workVars, nicVars, table_alive>>

NoStats == [rx |-> 0, fwded |-> 0, unmapped |-> 0, tx |-> 0, tx_dropped |-> 0]

\* Ports are started, the table is initialised, workers are not yet launched.
\* Any -T is taken, a negative one as its uint64_t, and the multiplication by
\* the clock rate wraps.
Init ==
    /\ force_quit = FALSE
    /\ tsc = 0
    /\ main_pc = "launch"
    /\ mode \in Modes
    /\ timer_arg \in Periods
    /\ timer_period = (timer_arg * Hz) % Word
    /\ cur_tsc = 0 /\ prev_tsc = 0
    /\ scan = {}
    /\ total_packets_fwded = 0 /\ total_packets_fwded_prev = 0
    /\ SAMPLE_SIZE = 0
    /\ pc = [w \in Workers |-> "parked"]
    /\ i = [w \in Workers |-> 1]
    /\ pkts_burst = [w \in Workers |-> {}]
    /\ todo = [w \in Workers |-> {}]
    /\ port_statistics = [c \in Cells |-> NoStats]
    /\ pool = Mbufs
    /\ rx_ring = [q \in Queues |-> {}]
    /\ tx_ring = [q \in Queues |-> {}]
    /\ started = Ports
    /\ table_alive = (mode # "none")
    /\ arrived = 0

-----------------------------------------------------------------------------
(* The NIC, the clock and the operator (external)                           *)

\* A packet arrives in an mbuf of the pool.
NicReceive(q) ==
    /\ q[1] \in started
    /\ arrived < MaxPackets
    /\ \E b \in pool :
          /\ pool' = pool \ {b}
          /\ rx_ring' = [rx_ring EXCEPT ![q] = @ \cup {b}]
    /\ arrived' = arrived + 1
    /\ UNCHANGED <<force_quit, tsc, mainVars, workVars, tx_ring, started, table_alive>>

\* A packet has left; its mbuf returns to the pool.
NicTransmit(q) ==
    /\ q[1] \in started
    /\ \E b \in tx_ring[q] :
          /\ tx_ring' = [tx_ring EXCEPT ![q] = @ \ {b}]
          /\ pool' = pool \cup {b}
    /\ UNCHANGED <<force_quit, tsc, mainVars, workVars, rx_ring, started, arrived,
                   table_alive>>

\* The clock counts from start_tsc, which main reads when it has launched the
\* workers.
Tick ==
    /\ main_pc # "launch"
    /\ tsc < MaxTsc
    /\ tsc' = tsc + 1
    /\ UNCHANGED <<force_quit, mainVars, workVars, nicVars, table_alive>>

\* SIGINT or SIGTERM, at any time while the program runs.
signal_handler ==
    /\ main_pc # "exit"
    /\ force_quit' = TRUE
    /\ UNCHANGED <<tsc, mainVars, workVars, nicVars, table_alive>>

-----------------------------------------------------------------------------
(* l2fwd_main_loop                                                          *)

Queue(w) == RxList[w][i[w]]
Port(w) == Queue(w)[1]
Goto(w, label) == pc' = [pc EXCEPT ![w] = label]

\* Add the record d to the counters of w for its current port.
Count(w, d) ==
    port_statistics' = [port_statistics EXCEPT ![<<Port(w), w>>] =
                           [f \in DOMAIN NoStats |-> @[f] + d[f]]]

\* "lcore %u has nothing to do"
Enter(w) ==
    /\ pc[w] = "started"
    /\ Goto(w, IF RxList[w] = <<>> THEN "exited" ELSE "loop")
    /\ UNCHANGED <<force_quit, tsc, mainVars, i, pkts_burst, todo, port_statistics,
                   nicVars, table_alive>>

\* Mutant: the loop does not look at force_quit.
LoopHeadBlind(w) ==
    /\ pc[w] = "loop"
    /\ Goto(w, "poll")
    /\ UNCHANGED <<force_quit, tsc, mainVars, i, pkts_burst, todo, port_statistics,
                   nicVars, table_alive>>

\* force_quit is read once per round over the queues.
LoopHead(w) ==
    /\ pc[w] = "loop"
    /\ Goto(w, IF force_quit THEN "exited" ELSE "poll")
    /\ UNCHANGED <<force_quit, tsc, mainVars, i, pkts_burst, todo, port_statistics,
                   nicVars, table_alive>>

\* On to the next queue of the round.
NextQueue(w) ==
    IF i[w] < Len(RxList[w])
      THEN Goto(w, "poll") /\ i' = [i EXCEPT ![w] = @ + 1]
      ELSE Goto(w, "loop") /\ i' = [i EXCEPT ![w] = 1]

\* rte_eth_rx_burst found nothing.
PollEmpty(w) ==
    /\ pc[w] = "poll"
    /\ rx_ring[Queue(w)] = {}
    /\ NextQueue(w)
    /\ UNCHANGED <<force_quit, tsc, mainVars, pkts_burst, todo, port_statistics,
                   nicVars, table_alive>>

\* rte_eth_rx_burst delivers up to MAX_PKT_BURST packets.
Poll(w) ==
    /\ pc[w] = "poll"
    /\ \E B \in (SUBSET rx_ring[Queue(w)]) \ {{}} :
          /\ Cardinality(B) <= MaxBurst
          /\ rx_ring' = [rx_ring EXCEPT ![Queue(w)] = @ \ B]
          /\ pkts_burst' = [pkts_burst EXCEPT ![w] = B]
          /\ todo' = [todo EXCEPT ![w] = B]
          /\ Count(w, [NoStats EXCEPT !.rx = Cardinality(B)])
    /\ Goto(w, CASE mode = "maglev" -> "map"
                 [] mode = "dramblast" -> "hash"
                 [] mode = "none" -> "rewrite")
    /\ UNCHANGED <<force_quit, tsc, mainVars, i, pool, tx_ring, started, arrived,
                   table_alive>>

\* maglev: one packet at a time; mac = 0 means unmapped.
MapOne(w) ==
    /\ pc[w] = "map"
    /\ \E b \in todo[w] : todo' = [todo EXCEPT ![w] = @ \ {b}]
    /\ \/ Count(w, [NoStats EXCEPT !.fwded = 1])
       \/ Count(w, [NoStats EXCEPT !.unmapped = 1])
    /\ Goto(w, IF Cardinality(todo[w]) = 1 THEN "tx" ELSE "map")
    /\ UNCHANGED <<force_quit, tsc, mainVars, i, pkts_burst, nicVars, table_alive>>

\* dramblast: keep the frames with a valid flow hash; the table is only
\* called if there are any.
HashBurst(w) ==
    /\ pc[w] = "hash"
    /\ \E F \in SUBSET pkts_burst[w] :
          /\ todo' = [todo EXCEPT ![w] = F]
          /\ Goto(w, IF F = {} THEN "apply" ELSE "lookup")
    /\ UNCHANGED <<force_quit, tsc, mainVars, i, pkts_burst, port_statistics,
                   nicVars, table_alive>>

\* dramblast_process_frames: todo keeps the frames that have a backend.
LookupBurst(w) ==
    /\ pc[w] = "lookup"
    /\ \E F \in SUBSET todo[w] : todo' = [todo EXCEPT ![w] = F]
    /\ Goto(w, "apply")
    /\ UNCHANGED <<force_quit, tsc, mainVars, i, pkts_burst, port_statistics,
                   nicVars, table_alive>>

\* Mutant: the last burst's count replaces the counter.
ApplyBurstOverwrites(w) ==
    /\ pc[w] = "apply"
    /\ port_statistics' = [port_statistics EXCEPT
          ![<<Port(w), w>>].fwded = Cardinality(todo[w]),
          ![<<Port(w), w>>].unmapped = @ + Cardinality(pkts_burst[w] \ todo[w])]
    /\ todo' = [todo EXCEPT ![w] = {}]
    /\ Goto(w, "tx")
    /\ UNCHANGED <<force_quit, tsc, mainVars, i, pkts_burst, nicVars, table_alive>>

\* Mutant: frames without a valid hash are not counted as unmapped.
ApplyBurstForgetsInvalid(w) ==
    /\ pc[w] = "apply"
    /\ Count(w, [NoStats EXCEPT
          !.fwded = Cardinality(todo[w]),
          !.unmapped = IF todo[w] = {} THEN 0 ELSE Cardinality(pkts_burst[w] \ todo[w])])
    /\ todo' = [todo EXCEPT ![w] = {}]
    /\ Goto(w, "tx")
    /\ UNCHANGED <<force_quit, tsc, mainVars, i, pkts_burst, nicVars, table_alive>>

\* fwded += found; unmapped += nb_rx - found
ApplyBurst(w) ==
    /\ pc[w] = "apply"
    /\ Count(w, [NoStats EXCEPT
          !.fwded = Cardinality(todo[w]),
          !.unmapped = Cardinality(pkts_burst[w]) - Cardinality(todo[w])])
    /\ todo' = [todo EXCEPT ![w] = {}]
    /\ Goto(w, "tx")
    /\ UNCHANGED <<force_quit, tsc, mainVars, i, pkts_burst, nicVars, table_alive>>

\* none: every packet gets the same address.
RewriteBurst(w) ==
    /\ pc[w] = "rewrite"
    /\ Count(w, [NoStats EXCEPT !.fwded = Cardinality(pkts_burst[w])])
    /\ todo' = [todo EXCEPT ![w] = {}]
    /\ Goto(w, "tx")
    /\ UNCHANGED <<force_quit, tsc, mainVars, i, pkts_burst, nicVars, table_alive>>

\* Mutant: packets the NIC does not take are not freed.
TransmitLeaks(w) ==
    /\ pc[w] = "tx"
    /\ \E S \in SUBSET pkts_burst[w] :
          /\ tx_ring' = [tx_ring EXCEPT ![Queue(w)] = @ \cup S]
          /\ Count(w, [NoStats EXCEPT
                !.tx = Cardinality(S),
                !.tx_dropped = Cardinality(pkts_burst[w]) - Cardinality(S)])
    /\ pkts_burst' = [pkts_burst EXCEPT ![w] = {}]
    /\ NextQueue(w)
    /\ UNCHANGED <<force_quit, tsc, mainVars, todo, pool, rx_ring, started, arrived,
                   table_alive>>

\* rte_eth_tx_burst on the queue the packets came from takes some of them;
\* the rest is freed and counted as dropped.
Transmit(w) ==
    /\ pc[w] = "tx"
    /\ \E S \in SUBSET pkts_burst[w] :
          /\ tx_ring' = [tx_ring EXCEPT ![Queue(w)] = @ \cup S]
          /\ pool' = pool \cup (pkts_burst[w] \ S)
          /\ Count(w, [NoStats EXCEPT
                !.tx = Cardinality(S),
                !.tx_dropped = Cardinality(pkts_burst[w]) - Cardinality(S)])
    /\ pkts_burst' = [pkts_burst EXCEPT ![w] = {}]
    /\ NextQueue(w)
    /\ UNCHANGED <<force_quit, tsc, mainVars, todo, rx_ring, started, arrived,
                   table_alive>>

-----------------------------------------------------------------------------
(* main: the statistics loop and the teardown                               *)

mainRest == <<tsc, workVars, nicVars, table_alive>>

\* rte_eal_mp_remote_launch(..., SKIP_MAIN)
Launch ==
    /\ main_pc = "launch"
    /\ pc' = [w \in Workers |-> "started"]
    /\ main_pc' = "stats"
    /\ UNCHANGED <<force_quit, tsc, config, cur_tsc, prev_tsc, scan, total_packets_fwded,
                   total_packets_fwded_prev, SAMPLE_SIZE, i, pkts_burst, todo,
                   port_statistics, nicVars, table_alive>>

StatsHead ==
    /\ main_pc = "stats"
    /\ main_pc' = IF force_quit THEN "final" ELSE "clock"
    /\ UNCHANGED <<force_quit, config, cur_tsc, prev_tsc, scan,
                   total_packets_fwded, total_packets_fwded_prev, SAMPLE_SIZE, mainRest>>

\* The run is over at end_tsc.
CheckEnd(now) == force_quit' = (force_quit \/ now >= EndTsc)

\* Not yet time to print.
ClockEarly ==
    /\ main_pc = "clock"
    /\ tsc - prev_tsc < timer_period
    /\ cur_tsc' = tsc
    /\ CheckEnd(tsc)
    /\ main_pc' = "stats"
    /\ UNCHANGED <<config, prev_tsc, scan, total_packets_fwded,
                   total_packets_fwded_prev, SAMPLE_SIZE, mainRest>>

\* print_stats begins to add up the counters of all ports and lcores.
ClockDue ==
    /\ main_pc = "clock"
    /\ tsc - prev_tsc >= timer_period
    /\ cur_tsc' = tsc
    /\ scan' = Cells
    /\ total_packets_fwded' = 0
    /\ main_pc' = "aggregate"
    /\ UNCHANGED <<force_quit, config, prev_tsc, total_packets_fwded_prev,
                   SAMPLE_SIZE, mainRest>>

\* The next counter in the order of the two loops.
Earliest(S) ==
    CHOOSE c \in S : \A d \in S : c[1] < d[1] \/ (c[1] = d[1] /\ c[2] <= d[2])

\* get_aggregated_stats reads one lcore's counters while it may be running.
Aggregate ==
    /\ main_pc = "aggregate"
    /\ scan # {}
    /\ total_packets_fwded' =
          total_packets_fwded + port_statistics[Earliest(scan)].fwded
    /\ scan' = scan \ {Earliest(scan)}
    /\ UNCHANGED <<force_quit, main_pc, config, cur_tsc, prev_tsc,
                   total_packets_fwded_prev, SAMPLE_SIZE, mainRest>>

\* Mutant: a sample is taken for every report.
RecordSampleAlways ==
    /\ main_pc = "aggregate"
    /\ scan = {}
    /\ SAMPLE_SIZE' = SAMPLE_SIZE + 1
    /\ total_packets_fwded_prev' = total_packets_fwded
    /\ prev_tsc' = cur_tsc
    /\ CheckEnd(cur_tsc)
    /\ main_pc' = "stats"
    /\ UNCHANGED <<config, cur_tsc, scan, total_packets_fwded, mainRest>>

\* The rest of print_stats: samples[SAMPLE_SIZE++], unless the period is 0.
RecordSample ==
    /\ main_pc = "aggregate"
    /\ scan = {}
    /\ SAMPLE_SIZE' = IF timer_period > 0 THEN SAMPLE_SIZE + 1 ELSE SAMPLE_SIZE
    /\ total_packets_fwded_prev' = total_packets_fwded
    /\ prev_tsc' = cur_tsc
    /\ CheckEnd(cur_tsc)
    /\ main_pc' = "stats"
    /\ UNCHANGED <<config, cur_tsc, scan, total_packets_fwded, mainRest>>

\* Mutant: main does not wait for the workers.
WaitWorkersNot ==
    /\ main_pc = "final"
    /\ main_pc' = "stop"
    /\ UNCHANGED <<force_quit, config, cur_tsc, prev_tsc, scan,
                   total_packets_fwded, total_packets_fwded_prev, SAMPLE_SIZE, mainRest>>

\* print_final_stats, then rte_eal_wait_lcore for every worker (the workers
\* return 0, so the loop is never left early).
WaitWorkers ==
    /\ main_pc = "final"
    /\ \A w \in Workers : pc[w] = "exited"
    /\ main_pc' = "stop"
    /\ UNCHANGED <<force_quit, config, cur_tsc, prev_tsc, scan,
                   total_packets_fwded, total_packets_fwded_prev, SAMPLE_SIZE, mainRest>>

\* rte_eth_dev_stop and rte_eth_dev_close; closing frees the rings' mbufs.
StopPort ==
    /\ main_pc = "stop"
    /\ started # {}
    /\ LET p == CHOOSE p \in started : \A r \in started : p <= r
           mine == {q \in Queues : q[1] = p}
       IN  /\ started' = started \ {p}
           /\ pool' = pool \cup UNION {rx_ring[q] \cup tx_ring[q] : q \in mine}
           /\ rx_ring' = [q \in Queues |-> IF q \in mine THEN {} ELSE rx_ring[q]]
           /\ tx_ring' = [q \in Queues |-> IF q \in mine THEN {} ELSE tx_ring[q]]
    /\ UNCHANGED <<force_quit, tsc, mainVars, workVars, arrived, table_alive>>

\* dramblast_destroy; the maglev table is left to the process exit.
Destroy ==
    /\ main_pc = "stop"
    /\ started = {}
    /\ table_alive' = (table_alive /\ mode # "dramblast")
    /\ main_pc' = "exit"
    /\ UNCHANGED <<force_quit, tsc, config, cur_tsc, prev_tsc, scan,
                   total_packets_fwded, total_packets_fwded_prev, SAMPLE_SIZE,
                   workVars, nicVars>>

-----------------------------------------------------------------------------
Worker(w) ==
    \/ Enter(w) \/ LoopHead(w) \/ PollEmpty(w) \/ Poll(w)
    \/ MapOne(w)
    \/ HashBurst(w) \/ LookupBurst(w) \/ ApplyBurst(w)
    \/ RewriteBurst(w)
    \/ Transmit(w)

Main ==
    \/ Launch \/ StatsHead \/ ClockEarly \/ ClockDue \/ Aggregate \/ RecordSample
    \/ WaitWorkers \/ StopPort \/ Destroy

Nic == \E q \in Queues : NicReceive(q) \/ NicTransmit(q)

Next == Main \/ (\E w \in Workers : Worker(w)) \/ Nic \/ Tick \/ signal_handler

Spec == Init /\ [][Next]_vars

\* Each lcore has a thread of its own that never blocks, and time passes.
FairSpec ==
    /\ Spec
    /\ WF_vars(Main) /\ WF_vars(Tick)
    /\ \A w \in Workers : WF_vars(Worker(w))

-----------------------------------------------------------------------------
(* Properties                                                               *)

Busy == {"map", "hash", "lookup", "apply", "rewrite", "tx"}

\* Counters, clocks and mbuf sets of main.c stay in their ranges.
TypeOK ==
    /\ force_quit \in BOOLEAN /\ table_alive \in BOOLEAN
    /\ tsc \in 0 .. MaxTsc /\ cur_tsc \in 0 .. MaxTsc /\ prev_tsc \in 0 .. MaxTsc
    /\ main_pc \in {"launch", "stats", "clock", "aggregate", "final", "stop", "exit"}
    /\ mode \in Modes /\ timer_arg \in Nat /\ timer_period \in Nat
    /\ SAMPLE_SIZE \in Nat
    /\ total_packets_fwded \in Nat /\ total_packets_fwded_prev \in Nat
    /\ scan \subseteq Cells /\ started \subseteq Ports
    /\ pc \in [Workers -> {"parked", "started", "loop", "poll", "exited"} \cup Busy]
    /\ \A w \in Workers : i[w] \in 1 .. Len(RxList[w]) \cup {1}
    /\ pkts_burst \in [Workers -> SUBSET Mbufs] /\ todo \in [Workers -> SUBSET Mbufs]
    /\ port_statistics \in [Cells -> [DOMAIN NoStats -> Nat]]
    /\ pool \subseteq Mbufs
    /\ rx_ring \in [Queues -> SUBSET Mbufs] /\ tx_ring \in [Queues -> SUBSET Mbufs]
    /\ arrived \in 0 .. MaxPackets

\* Every mbuf is in exactly one place: the pool, a ring or a burst.  None is
\* leaked by the forwarding loop, and none is sent and freed.
MbufsConserved ==
    /\ pool \cup (UNION {rx_ring[q] \cup tx_ring[q] : q \in Queues})
            \cup (UNION {pkts_burst[w] : w \in Workers}) = Mbufs
    /\ \A w \in Workers :
          /\ pkts_burst[w] \cap pool = {}
          /\ \A v \in Workers \ {w} : pkts_burst[w] \cap pkts_burst[v] = {}
    /\ \A q \in Queues :
          /\ rx_ring[q] \cap tx_ring[q] = {}
          /\ (rx_ring[q] \cup tx_ring[q]) \cap pool = {}
          /\ \A w \in Workers : (rx_ring[q] \cup tx_ring[q]) \cap pkts_burst[w] = {}
          /\ \A r \in Queues \ {q} :
                (rx_ring[q] \cup tx_ring[q]) \cap (rx_ring[r] \cup tx_ring[r]) = {}

\* Between two bursts the counters of a worker balance, in every mode: each
\* received packet was forwarded or unmapped ("still transmitted, not
\* dropped"), and was sent or dropped on transmit.
PacketsAccounted ==
    \A w \in Workers : pc[w] \notin Busy =>
        \A p \in Ports :
            LET s == port_statistics[<<p, w>>]
            IN  s.rx = s.fwded + s.unmapped /\ s.rx = s.tx + s.tx_dropped

\* Nobody uses a port after rte_eth_dev_close or the table after
\* dramblast_destroy.
NoUseAfterTeardown ==
    \A w \in Workers :
        /\ pc[w] \in {"poll"} \cup Busy => Port(w) \in started
        /\ pc[w] \in {"map", "lookup"} => table_alive

\* However late main polls, samples are taken a whole period apart and none
\* after the end of the run: so print_stats stays inside samples for every
\* -T up to MAX_TIMER_PERIOD.  Beyond it, where the product may wrap to less
\* than a second, only the first bound is left, and the model counts samples
\* that the code writes past the array.
SamplesFit ==
    /\ SAMPLE_SIZE > 0 =>
          timer_period > 0 /\ (SAMPLE_SIZE - 1) * timer_period < EndTsc
    /\ timer_arg <= MaxPeriod => SAMPLE_SIZE <= TotalSamples

\* The unsigned difference total_packets_fwded - total_packets_fwded_prev
\* never wraps, although the counters are read while the workers run.
RateNeverWraps ==
    main_pc = "aggregate" /\ scan = {} =>
        total_packets_fwded >= total_packets_fwded_prev

\* The run ends by itself after TOTAL_SAMPLES seconds, or after a signal at
\* any time, with the ports closed.
RunEnds == <>[](main_pc = "exit" /\ started = {})

=============================================================================
