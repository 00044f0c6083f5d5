---------------------------- MODULE PktgenSetup ----------------------------
(***************************************************************************)
(* main of pktgen.c up to the launch of the workers: the options, the      *)
(* split of the workers into TX and RX halves, the round robin over the    *)
(* ports with its queue numbers, and the setup of the ports.               *)
(***************************************************************************)
EXTENDS Integers, Sequences, FiniteSets

CONSTANTS MaxWorkers, MaxPorts,   \* the largest machine considered
          CommandLines,           \* lists of <<option, number>>
          MinPayload,             \* sizeof(struct custom_payload)
          MaxPayload              \* 1400

VARIABLES pc,                  \* the phase of main, or "failed"
          argv,                \* options not yet read
          ip_range,            \* g_ip_mask + 1
          payload_size,        \* g_payload_size
          nb_workers, nb_ports,
          lcore_config,        \* the workers that have a role, in lcore order
          tx_queues_per_port, rx_queues_per_port, port_rr,
          portid,              \* the port being set up
          queues_set_up        \* <<port, type, queue>>

options == <<argv, ip_range, payload_size>>
machine == <<nb_workers, nb_ports>>
roles == <<lcore_config, tx_queues_per_port, rx_queues_per_port, port_rr>>
ports == <<portid, queues_set_up>>
vars == <<pc, options, machine, roles, ports>>

Init ==
    /\ pc = "options"
    /\ argv \in CommandLines
    /\ ip_range = 256
    /\ payload_size = 0
    /\ nb_workers \in 0 .. MaxWorkers
    /\ nb_ports \in 0 .. MaxPorts
    /\ lcore_config = <<>>
    /\ tx_queues_per_port = [p \in 0 .. MaxPorts |-> 0]
    /\ rx_queues_per_port = [p \in 0 .. MaxPorts |-> 0]
    /\ port_rr = 0
    /\ portid = 0
    /\ queues_set_up = {}

\* rte_exit
Fail == pc' = "failed"

PowerOfTwo(n) == \E e \in 0 .. n : n = 2 ^ e

\* -r: the number of client addresses.
OptionR ==
    /\ pc = "options" /\ argv # <<>> /\ argv[1][1] = "r"
    /\ LET range == argv[1][2]
       IN  IF range <= 0 \/ ~PowerOfTwo(range)
           THEN Fail /\ UNCHANGED options
           ELSE ip_range' = range /\ argv' = Tail(argv) /\ UNCHANGED <<pc, payload_size>>
    /\ UNCHANGED <<machine, roles, ports>>

\* -p: the payload.
OptionP ==
    /\ pc = "options" /\ argv # <<>> /\ argv[1][1] = "p"
    /\ LET payload == argv[1][2]
       IN  IF payload < 0 \/ payload > MaxPayload
           THEN Fail /\ UNCHANGED options
           ELSE payload_size' = payload /\ argv' = Tail(argv) /\ UNCHANGED <<pc, ip_range>>
    /\ UNCHANGED <<machine, roles, ports>>

\* Enlarge the payload, then look at the machine.
OptionsDone ==
    /\ pc = "options" /\ argv = <<>>
    /\ payload_size' = IF payload_size < MinPayload THEN MinPayload ELSE payload_size
    /\ IF nb_ports = 0 \/ nb_workers < 2 THEN Fail ELSE pc' = "roles"
    /\ UNCHANGED <<argv, ip_range, machine, roles, ports>>

\* The next worker gets role type and the next queue of that kind.
Assign(type, queue_id) ==
    /\ lcore_config' = Append(lcore_config,
                              [type |-> type, port_id |-> port_rr, queue_id |-> queue_id])
    /\ port_rr' = (port_rr + 1) % nb_ports

Unassigned == pc = "roles" /\ Len(lcore_config) < nb_workers

\* "First half TX, Second half RX"
FirstHalf == Len(lcore_config) < nb_workers \div 2

AssignTx ==
    /\ Unassigned /\ FirstHalf
    /\ Assign("TX", tx_queues_per_port[port_rr])
    /\ tx_queues_per_port' = [tx_queues_per_port EXCEPT ![port_rr] = @ + 1]
    /\ UNCHANGED <<pc, options, machine, rx_queues_per_port, ports>>

\* Mutant: RX queues are numbered by the TX counter.
AssignRxTxNumber ==
    /\ Unassigned /\ ~FirstHalf
    /\ Assign("RX", tx_queues_per_port[port_rr])
    /\ rx_queues_per_port' = [rx_queues_per_port EXCEPT ![port_rr] = @ + 1]
    /\ UNCHANGED <<pc, options, machine, tx_queues_per_port, ports>>

AssignRx ==
    /\ Unassigned /\ ~FirstHalf
    /\ Assign("RX", rx_queues_per_port[port_rr])
    /\ rx_queues_per_port' = [rx_queues_per_port EXCEPT ![port_rr] = @ + 1]
    /\ UNCHANGED <<pc, options, machine, tx_queues_per_port, ports>>

\* rte_pktmbuf_pool_create may fail.
NoPool ==
    /\ Unassigned
    /\ Fail
    /\ UNCHANGED <<options, machine, roles, ports>>

RolesDone ==
    /\ pc = "roles" /\ Len(lcore_config) = nb_workers
    /\ pc' = "ports"
    /\ UNCHANGED <<options, machine, roles, ports>>

Unused(p) == tx_queues_per_port[p] = 0 /\ rx_queues_per_port[p] = 0

SkipPort ==
    /\ pc = "ports" /\ portid < nb_ports /\ Unused(portid)
    /\ portid' = portid + 1
    /\ UNCHANGED <<pc, options, machine, roles, queues_set_up>>

\* Configure, set up every queue of the port's workers, start.
SetupPort ==
    /\ pc = "ports" /\ portid < nb_ports /\ ~Unused(portid)
    /\ LET mine == {i \in DOMAIN lcore_config : lcore_config[i].port_id = portid}
       IN  queues_set_up' = queues_set_up \cup
                 {<<portid, lcore_config[i].type, lcore_config[i].queue_id>> : i \in mine}
    /\ portid' = portid + 1
    /\ UNCHANGED <<pc, options, machine, roles>>

\* A call of rte_ethdev may fail.
SetupFails ==
    /\ pc = "ports" /\ portid < nb_ports /\ ~Unused(portid)
    /\ Fail
    /\ UNCHANGED <<options, machine, roles, ports>>

SetupDone ==
    /\ pc = "ports" /\ portid = nb_ports
    /\ pc' = "launch"
    /\ UNCHANGED <<options, machine, roles, ports>>

Next ==
    \/ OptionR \/ OptionP \/ OptionsDone
    \/ AssignTx \/ AssignRx \/ NoPool \/ RolesDone
    \/ SkipPort \/ SetupPort \/ SetupFails \/ SetupDone

Spec == Init /\ [][Next]_vars

-----------------------------------------------------------------------------
(* Properties                                                              *)

\* At the launch every worker has a queue of its own that was set up, and
\* every queue a port was configured with is set up: no gap, none shared.
QueuesMatch ==
    pc = "launch" =>
        /\ \A i, j \in DOMAIN lcore_config : lcore_config[i] = lcore_config[j] => i = j
        /\ queues_set_up =
              {<<lcore_config[i].port_id, lcore_config[i].type, lcore_config[i].queue_id>> :
                  i \in DOMAIN lcore_config}
        /\ queues_set_up =
              UNION {{<<p, "TX", n>> : n \in 0 .. tx_queues_per_port[p] - 1}
                     \cup {<<p, "RX", n>> : n \in 0 .. rx_queues_per_port[p] - 1} :
                        p \in 0 .. nb_ports - 1}

=============================================================================
