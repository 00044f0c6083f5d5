----------------------------- MODULE PktgenMain -----------------------------
(***************************************************************************)
(* The packet generator from its command line to its end: main of pktgen.c *)
(* sets up the machine (PktgenSetup), then launches the workers and        *)
(* reports until a signal ends the run (Pktgen).  The signal handler is    *)
(* installed once the options are read, so a signal may also arrive during *)
(* the setup.                                                              *)
(*                                                                         *)
(* Every machine and command line is followed to the launch; the run       *)
(* itself is followed on the machine that Pktgen's constants describe.     *)
(***************************************************************************)
EXTENDS Pktgen

CONSTANTS MaxWorkers, MaxPorts, CommandLines, MinPayload, MaxPayload

ASSUME SetupAssumption ==
    /\ MaxWorkers \in Nat /\ MaxPorts \in Nat
    /\ MinPayload \in Nat /\ MaxPayload \in Nat /\ MinPayload <= MaxPayload
    /\ \A c \in CommandLines : c \in Seq({"r", "p"} \X Int)

VARIABLES setup_pc, argv, ip_range, payload_size, nb_workers, nb_ports,
          lcore_config, tx_queues_per_port, rx_queues_per_port, port_rr,
          portid, queues_set_up

Setup == INSTANCE PktgenSetup WITH pc <- setup_pc

setupVars == <<setup_pc, argv, ip_range, payload_size, nb_workers, nb_ports,
               lcore_config, tx_queues_per_port, rx_queues_per_port, port_rr,
               portid, queues_set_up>>
programVars == <<vars, setupVars>>

MainInit == Setup!Init /\ Init

-----------------------------------------------------------------------------
SetupStep == Setup!Next /\ UNCHANGED vars

\* The handler is installed after the options.
EarlySignal ==
    /\ setup_pc \in {"roles", "ports"}
    /\ signal_handler
    /\ UNCHANGED setupVars

\* The machine that was set up is the one of Pktgen: worker w of lcore_config
\* has the role and the port of w, and the options are the default ones.
Followed ==
    /\ setup_pc = "launch"
    /\ ip_range = 256 /\ payload_size = MinPayload
    /\ nb_ports = Cardinality(Ports) /\ DOMAIN lcore_config = Workers
    /\ \A w \in Workers :
          /\ lcore_config[w].type = IF w \in TxLcores THEN "TX" ELSE "RX"
          /\ lcore_config[w].port_id = PortOf[w]

RunStep == Followed /\ Next /\ UNCHANGED setupVars

MainNext == SetupStep \/ EarlySignal \/ RunStep

\* The main lcore sets up and runs; workers are threads of their own.
MainSpec ==
    /\ MainInit /\ [][MainNext]_programVars
    /\ WF_programVars(SetupStep)
    /\ WF_programVars(Followed /\ Main /\ UNCHANGED setupVars)
    /\ \A w \in Workers : WF_programVars(Followed /\ Worker(w) /\ UNCHANGED setupVars)

-----------------------------------------------------------------------------
(* Properties                                                               *)

\* At the launch every worker has a queue of its own that was set up, and the
\* ports have no other queues: the round robin of main over workers and ports.
QueuesMatch == Setup!QueuesMatch

\* A signal is never lost, also when it arrives before the workers are
\* launched: unless the setup fails, the program ends with every mbuf back in
\* its pool.
SignalEndsProgram ==
    force_quit ~> \/ setup_pc = "failed"
                  \/ setup_pc = "launch" /\ ~Followed
                  \/ main_pc = "exit" /\ avail = [w \in Workers |-> pool_size]

=============================================================================
