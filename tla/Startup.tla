------------------------------ MODULE Startup ------------------------------
(***************************************************************************)
(* The start of the forwarder (l2fwd/main.c): l2fwd_parse_args reads the   *)
(* options one by one, main pairs the ports, gives every RX queue to an    *)
(* lcore, sets the ports up and initialises the table that was selected.   *)
(* Any of these may end the program.  L2fwd is what happens while it runs; *)
(* at the end the dramblast table is destroyed.                            *)
(*                                                                         *)
(* An option is a record [opt, arg]; its argument is the parsed number, a  *)
(* set of ports for the mask of -p, or the word of -m.                     *)
(***************************************************************************)
EXTENDS DramblastMemory, FiniteSets, Sequences, FiniteSetsExt

CONSTANTS CommandLines,     \* the option lists the program may be started with
          Devices,          \* the Ethernet ports DPDK found (numbers)
          Enabled,          \* lcores given with -l
          MainLcore,        \* rte_get_main_lcore()
          MaxLcore,         \* RTE_MAX_LCORE
          MaxRxQueue,       \* MAX_RX_QUEUE_PER_LCORE
          MaxCapacity,      \* 2^32, what the CRC hash can address
          DefaultCapacity   \* the initial CAPACITY

LcoreIds == 0 .. MaxLcore - 1

\* CAPACITY != 0 and CAPACITY & (CAPACITY - 1) == 0: no odd number but 1 divides it.
PowerOfTwo(n) == n > 0 /\ \A d \in 2 .. n : n % d = 0 => d % 2 = 0

\* Every option of every command line.
Options == UNION {{line[n] : n \in DOMAIN line} : line \in CommandLines}

ASSUME StartupAssumption ==
    /\ Devices \subseteq Nat /\ IsFiniteSet(Devices)
    /\ MaxLcore \in Nat \ {0} /\ MaxRxQueue \in Nat \ {0}
    /\ Enabled \subseteq LcoreIds /\ MainLcore \in Enabled
    \* an lcore id indexes ht->queues: RTE_MAX_LCORE is at most MAX_CPU
    /\ MaxLcore <= MaxCpu
    \* 1 << 24 slots, in buckets that start where "& ~0x3" says
    /\ PowerOfTwo(DefaultCapacity) /\ DefaultCapacity <= MaxCapacity
    /\ DefaultCapacity \in Nat /\ MaxCapacity \in Nat
    /\ PowerOfTwo(Lanes)
    \* what strtoul returns
    /\ CommandLines \subseteq Seq(Options)
    /\ \A o \in Options : o.opt \in {"c", "q"} => o.arg \in Nat

VARIABLES pc,             \* the phase of main, or how it ended
          argv,           \* options not yet parsed
          maglev_enabled, sashstore_enabled, dramblast_enabled,
          CAPACITY, port_mask, queues_per_port,
          todo,           \* ports the current loop has not reached
          last_port, nb_ports_in_mask, dst_ports,
          rx_lcore_id, q,
          rx_port_list,   \* of each lcore
          tables          \* the tables that have been initialised

args == <<maglev_enabled, sashstore_enabled, dramblast_enabled, CAPACITY,
          port_mask, queues_per_port>>
pairing == <<last_port, nb_ports_in_mask, dst_ports>>
assignment == <<rx_lcore_id, q, rx_port_list>>
vars == <<pc, argv, args, todo, pairing, assignment, tables, memVars>>

Init ==
    /\ pc = "parse"
    /\ argv \in CommandLines
    /\ maglev_enabled = FALSE /\ sashstore_enabled = FALSE /\ dramblast_enabled = FALSE
    /\ CAPACITY = DefaultCapacity
    /\ port_mask = {} /\ queues_per_port = 1
    /\ todo = {}
    /\ last_port = 0 /\ nb_ports_in_mask = 0
    /\ dst_ports = [p \in Devices |-> 0]
    /\ rx_lcore_id = 0 /\ q = 0
    /\ rx_port_list = [l \in LcoreIds |-> <<>>]
    /\ tables = {}
    /\ MemInit

-----------------------------------------------------------------------------
(* l2fwd_parse_args                                                         *)

\* getopt_long returns the next option.
Option(o) == pc = "parse" /\ argv # <<>> /\ Head(argv).opt = o
Arg == Head(argv).arg

\* Take the option if it is valid, otherwise "Invalid L2FWD arguments".
Accept(valid) ==
    /\ argv' = Tail(argv)
    /\ pc' = IF valid THEN "parse" ELSE "bad_args"
    /\ UNCHANGED <<todo, pairing, assignment, tables, memVars>>

\* Modes add up; only "none" takes them back.
ParseMode ==
    /\ Option("m")
    /\ maglev_enabled' = (Arg = "maglev" \/ (maglev_enabled /\ Arg # "none"))
    /\ sashstore_enabled' = (Arg = "sashstore" \/ (sashstore_enabled /\ Arg # "none"))
    /\ dramblast_enabled' = (Arg = "dramblast" \/ (dramblast_enabled /\ Arg # "none"))
    /\ Accept(Arg \in {"maglev", "sashstore", "dramblast", "none"})
    /\ UNCHANGED <<CAPACITY, port_mask, queues_per_port>>

ParseCapacity ==
    /\ Option("c")
    /\ CAPACITY' = Arg
    /\ Accept(PowerOfTwo(Arg) /\ Arg <= MaxCapacity)
    /\ UNCHANGED <<maglev_enabled, sashstore_enabled, dramblast_enabled, port_mask,
                   queues_per_port>>

ParsePorts ==
    /\ Option("p")
    /\ port_mask' = Arg
    /\ Accept(Arg # {})
    /\ UNCHANGED <<maglev_enabled, sashstore_enabled, dramblast_enabled, CAPACITY,
                   queues_per_port>>

ParseQueues ==
    /\ Option("q")
    /\ queues_per_port' = Arg
    /\ Accept(Arg # 0)
    /\ UNCHANGED <<maglev_enabled, sashstore_enabled, dramblast_enabled, CAPACITY,
                   port_mask>>

\* -T and --[no-]mac-updating change nothing that startup looks at; anything
\* else is an error.
ParseOther ==
    /\ pc = "parse" /\ argv # <<>>
    /\ Head(argv).opt \notin {"m", "c", "p", "q"}
    /\ Accept(Head(argv).opt \in {"T", "mac-updating", "no-mac-updating"})
    /\ UNCHANGED args

\* All options are read: "No Ethernet ports", or on to the pairing.
ParseDone ==
    /\ pc = "parse" /\ argv = <<>>
    /\ pc' = IF Devices = {} THEN "no_ports" ELSE "pair"
    /\ todo' = Devices
    /\ UNCHANGED <<argv, args, pairing, assignment, tables, memVars>>

-----------------------------------------------------------------------------
(* main: the port map                                                       *)

\* RTE_ETH_FOREACH_DEV in ascending order.
Dev == Min(todo)

\* A port that -p does not name is passed over by every loop.
SkipPort ==
    /\ pc \in {"pair", "assign", "setup"}
    /\ todo # {} /\ Dev \notin port_mask
    /\ todo' = todo \ {Dev}
    /\ UNCHANGED <<pc, argv, args, pairing, assignment, tables, memVars>>

\* Mutant: the partner's entry is not set.
PairPortOneWay ==
    /\ pc = "pair" /\ todo # {} /\ Dev \in port_mask
    /\ IF nb_ports_in_mask % 2 = 1
         THEN /\ dst_ports' = [dst_ports EXCEPT ![Dev] = last_port]
              /\ UNCHANGED last_port
         ELSE last_port' = Dev /\ UNCHANGED dst_ports
    /\ nb_ports_in_mask' = nb_ports_in_mask + 1
    /\ todo' = todo \ {Dev}
    /\ UNCHANGED <<pc, argv, args, assignment, tables, memVars>>

\* Every second enabled port is paired with the one before it.
PairPort ==
    /\ pc = "pair" /\ todo # {} /\ Dev \in port_mask
    /\ IF nb_ports_in_mask % 2 = 1
         THEN /\ dst_ports' = [dst_ports EXCEPT ![Dev] = last_port,
                                                ![last_port] = Dev]
              /\ UNCHANGED last_port
         ELSE last_port' = Dev /\ UNCHANGED dst_ports
    /\ nb_ports_in_mask' = nb_ports_in_mask + 1
    /\ todo' = todo \ {Dev}
    /\ UNCHANGED <<pc, argv, args, assignment, tables, memVars>>

\* An odd port out is its own destination.
PairDone ==
    /\ pc = "pair" /\ todo = {}
    /\ dst_ports' = IF nb_ports_in_mask % 2 = 1
                      THEN [dst_ports EXCEPT ![last_port] = last_port]
                      ELSE dst_ports
    /\ pc' = "assign"
    /\ todo' = Devices
    /\ UNCHANGED <<argv, args, last_port, nb_ports_in_mask, assignment, tables, memVars>>

-----------------------------------------------------------------------------
(* main: "Distribute port-queues across available lcores"                   *)

Assigning == pc = "assign" /\ todo # {} /\ Dev \in port_mask /\ q < queues_per_port

\* The while loop passes over the lcores that are not usable.
Usable(l) ==
    /\ l \in Enabled
    /\ l # MainLcore
    /\ Len(rx_port_list[l]) # MaxRxQueue

\* rx_lcore_id only grows; past the last lcore it is "Not enough cores".
NextLcore ==
    /\ Assigning /\ ~Usable(rx_lcore_id)
    /\ rx_lcore_id' = rx_lcore_id + 1
    /\ pc' = IF rx_lcore_id + 1 >= MaxLcore THEN "not_enough_cores" ELSE "assign"
    /\ UNCHANGED <<argv, args, todo, pairing, q, rx_port_list, tables, memVars>>

AssignQueue ==
    /\ Assigning /\ Usable(rx_lcore_id)
    /\ rx_port_list' = [rx_port_list EXCEPT ![rx_lcore_id] = Append(@, <<Dev, q>>)]
    /\ rx_lcore_id' = rx_lcore_id + 1
    /\ q' = q + 1
    /\ UNCHANGED <<pc, argv, args, todo, pairing, tables, memVars>>

\* Mutant: the queue counter runs on from port to port.
AssignNextPortKeepsQueue ==
    /\ pc = "assign" /\ todo # {} /\ Dev \in port_mask /\ q >= queues_per_port
    /\ todo' = todo \ {Dev}
    /\ UNCHANGED <<pc, argv, args, pairing, assignment, tables, memVars>>

AssignNextPort ==
    /\ pc = "assign" /\ todo # {} /\ Dev \in port_mask /\ q >= queues_per_port
    /\ todo' = todo \ {Dev}
    /\ q' = 0
    /\ UNCHANGED <<pc, argv, args, pairing, rx_lcore_id, rx_port_list, tables, memVars>>

\* The mbuf pool is created between the loops and may fail.
AssignDone ==
    /\ pc = "assign" /\ todo = {}
    /\ \/ pc' = "setup" /\ todo' = Devices
       \/ pc' = "no_pool" /\ UNCHANGED todo
    /\ UNCHANGED <<argv, args, pairing, assignment, tables, memVars>>

\* Configure, set up the queues and start a port; each call may fail.
SetupPort ==
    /\ pc = "setup" /\ todo # {} /\ Dev \in port_mask
    /\ \/ pc' = "setup" /\ todo' = todo \ {Dev}
       \/ pc' = "port_failed" /\ UNCHANGED todo
    /\ UNCHANGED <<argv, args, pairing, assignment, tables, memVars>>

\* An lcore with queues gets a TX buffer for every enabled port; "Cannot
\* allocate buffer" ends the program.
NoTxBuffer ==
    /\ pc = "setup" /\ todo = {}
    /\ Devices \cap port_mask # {} /\ \E l \in LcoreIds : rx_port_list[l] # <<>>
    /\ pc' = "no_buffer"
    /\ UNCHANGED <<argv, args, todo, pairing, assignment, tables, memVars>>

\* Mutant: dramblast is looked at first.
InitTableDramblastFirst ==
    /\ pc = "setup" /\ todo = {}
    /\ IF dramblast_enabled THEN pc' = "dramblast_init" /\ UNCHANGED tables
       ELSE IF sashstore_enabled THEN pc' = "not_wired" /\ UNCHANGED tables
       ELSE IF maglev_enabled THEN pc' = "run" /\ tables' = {"maglev"}
       ELSE pc' = "run" /\ UNCHANGED tables
    /\ UNCHANGED <<argv, args, todo, pairing, assignment, memVars>>

\* maglev_init, "-m sashstore is not wired into l2fwd_main_loop", or
\* dramblast_init, in this order; maglev_init may run out of memory.
InitTable ==
    /\ pc = "setup" /\ todo = {}
    /\ IF maglev_enabled
         THEN \/ pc' = "run" /\ tables' = {"maglev"}
              \/ pc' = "no_memory" /\ UNCHANGED tables
       ELSE IF sashstore_enabled THEN pc' = "not_wired" /\ UNCHANGED tables
       ELSE IF dramblast_enabled THEN pc' = "dramblast_init" /\ UNCHANGED tables
       ELSE pc' = "run" /\ UNCHANGED tables
    /\ UNCHANGED <<argv, args, todo, pairing, assignment, memVars>>

\* dramblast_init step by step; the program runs, ends or crashes with it.
InitDramblast ==
    /\ pc = "dramblast_init"
    /\ dramblast_init(CAPACITY)
    /\ pc' = CASE mem' = "ready" -> "run"
               [] mem' \in {"no_memory", "null_write"} -> mem'
               [] OTHER -> pc
    /\ tables' = IF mem' = "ready" THEN {"dramblast"} ELSE tables
    /\ UNCHANGED <<argv, args, todo, pairing, assignment>>

-----------------------------------------------------------------------------
(* main: the end of the run                                                 *)

\* The workers are done and the ports closed; "if (l2fwd_dramblast_enabled)".
Finish ==
    /\ pc = "run"
    /\ pc' = IF dramblast_enabled THEN "destroy" ELSE "exit"
    /\ UNCHANGED <<argv, args, todo, pairing, assignment, tables, memVars>>

Destroy ==
    /\ pc = "destroy"
    /\ dramblast_destroy
    /\ pc' = IF mem' = "gone" THEN "exit" ELSE pc
    /\ UNCHANGED <<argv, args, todo, pairing, assignment, tables>>

-----------------------------------------------------------------------------
Parse == ParseMode \/ ParseCapacity \/ ParsePorts \/ ParseQueues \/ ParseOther \/ ParseDone
Pair == PairPort \/ PairDone
Assign == NextLcore \/ AssignQueue \/ AssignNextPort \/ AssignDone

Next == Parse \/ SkipPort \/ Pair \/ Assign \/ SetupPort \/ NoTxBuffer \/ InitTable
        \/ InitDramblast \/ Finish \/ Destroy

Spec == Init /\ [][Next]_vars

-----------------------------------------------------------------------------
(* Properties                                                               *)

Ports == Devices \cap port_mask

\* Who polls queue n of port p.
Pollers(p, n) ==
    {slot \in LcoreIds \X (1 .. MaxRxQueue) :
        LET queues == rx_port_list[slot[1]]
        IN  slot[2] \in DOMAIN queues /\ queues[slot[2]] = <<p, n>>}

\* When the forwarder runs, every queue of every enabled port is polled at
\* exactly one place, which is what lets RX and TX go without locks; nobody
\* polls a queue that was not set up, and the main lcore polls none.
QueuesOwnedOnce ==
    pc = "run" =>
        /\ \A p \in Ports : \A n \in 0 .. queues_per_port - 1 :
              Cardinality(Pollers(p, n)) = 1
        /\ \A l \in LcoreIds : rx_port_list[l] # <<>> => l \in Enabled \ {MainLcore}
        /\ \A l \in LcoreIds : \A m \in DOMAIN rx_port_list[l] :
              rx_port_list[l][m] \in Ports \X (0 .. queues_per_port - 1)

\* The destination map pairs the enabled ports: it is its own inverse and at
\* most one port is its own destination.
PortsPaired ==
    pc = "run" =>
        /\ \A p \in Ports : dst_ports[p] \in Ports /\ dst_ports[dst_ports[p]] = p
        /\ Cardinality({p \in Ports : dst_ports[p] = p}) = Cardinality(Ports) % 2

\* The table l2fwd_main_loop will use (maglev before dramblast) has been
\* initialised, whatever combination of -m options was given, with a capacity
\* that can be used as a mask, also if -c was given more than once; and no run
\* reports numbers for sashstore.
LoopTableReady ==
    pc = "run" =>
        /\ IF maglev_enabled THEN "maglev" \in tables
           ELSE ~sashstore_enabled /\ (dramblast_enabled => "dramblast" \in tables)
        /\ tables # {} => PowerOfTwo(CAPACITY) /\ CAPACITY <= MaxCapacity

\* While the forwarder runs on the dramblast table, every bucket load and every
\* insertion stays inside the mapping, whatever -c gave: with -c 1 or -c 2 a
\* bucket is larger than the table and the load reads past len.
LoadsMapped ==
    pc = "run" /\ "dramblast" \in tables =>
        /\ len = CAPACITY
        /\ \A s \in LoadedSlots \cup (0 .. len - 1) : Bytes(s + 1) <= mapping.bytes

\* When the program has ended normally nothing of the dramblast table is left:
\* no heap object, no mapped page, whichever -m options were combined.
MemoryReturned ==
    pc = "exit" => heap = {} /\ mapping = NoMapping

\* "Distribute port-queues across available lcores": as long as the workers
\* have room for all queues there are enough cores.
LcoresSuffice ==
    pc = "not_enough_cores" =>
        Cardinality(Ports) * queues_per_port >
            MaxRxQueue * Cardinality(Enabled \ {MainLcore})

=============================================================================
