------------------------------ MODULE Balancer ------------------------------
(***************************************************************************)
(* The load balancer as a whole: the forwarding loop of l2fwd/main.c, with *)
(* the packets it handles, over the connection table it uses.  Workers     *)
(* poll bursts, hash the flows, ask the table, rewrite the destination of  *)
(* the packets that have a backend and transmit the burst.                 *)
(*                                                                         *)
(* The table is FlowService, which Dramblast and Maglev are shown to       *)
(* implement.  L2fwd models the same loop with its mbufs, counters and     *)
(* shutdown but without the packets' contents; here it is the contents     *)
(* that matter.                                                            *)
(*                                                                         *)
(* A packet is [conn, ip, dst]: the connection it belongs to (which the    *)
(* code never sees), the words behind its Ethernet header, and its         *)
(* destination address.                                                    *)
(***************************************************************************)
EXTENDS PacketTool, FiniteSets

CONSTANTS Workers,        \* worker lcores
          Modes,          \* what -m may select: "maglev", "dramblast", "none"
          Frames,         \* the frames that arrive: [conn, ip]
          Backend,        \* the lookup table, by flow hash
          RefusalBound,   \* flows bound before the table may refuse one
          MaxBurst,       \* MAX_PKT_BURST, the length of mac_addrs
          Garbage,        \* what the uninitialised mac_addrs may hold
          NoneMac,        \* 0xff
          MacValues,      \* 2^48: an address is the low 6 bytes of a value
          MaxRounds       \* bound: bursts received by all workers together

\* The valid flow hashes of the frames.
Keys == {flowhash(f.ip) : f \in Frames} \ {0}

\* The address a packet arrives with.
Arrived == 0

ASSUME BalancerAssumption ==
    /\ Modes \subseteq {"maglev", "dramblast", "none"}
    /\ MaxBurst \in Nat \ {0} /\ MaxRounds \in Nat /\ MacValues \in Nat
    /\ NoneMac \in 1 .. MacValues - 1
    /\ Keys \subseteq Nat \ {0} /\ IsFiniteSet(Keys)
    /\ \A k \in Keys : Backend[k] \in 1 .. MacValues - 1
    /\ RefusalBound \in Nat
    /\ Garbage \subseteq Nat

\* What a connection is: the addresses, the protocol and, for TCP and UDP, the
\* ports, which follow the header of ihl words.
ASSUME ConnectionAssumption ==
    \A f, g \in Frames : f.conn = g.conn =>
        /\ f.ip[4] = g.ip[4] /\ f.ip[5] = g.ip[5]
        /\ f.ip[3].proto = g.ip[3].proto
        /\ f.ip[3].proto \in {6, 17} =>
               f.ip[f.ip[1].ihl + 1] = g.ip[g.ip[1].ihl + 1]

VARIABLES
    mode,         \* the command line's -m
    pc,
    pkts_burst,   \* the packets of the burst
    j,            \* maglev: the packet being processed
    frames,       \* dramblast: positions in pkts_burst of the valid flows
    mac_addrs,    \* dramblast: its answers; survives from burst to burst
    rounds,       \* bursts received (see MaxRounds)
    sent,         \* history: what has been transmitted
    bound, batch, answer   \* the table: see FlowService

table == <<bound, batch, answer>>
vars == <<mode, pc, pkts_burst, j, frames, mac_addrs, rounds, sent, table>>

SeqsUpTo(S, n) == UNION {[1 .. m -> S] : m \in 1 .. n}

Table == INSTANCE FlowService
             WITH Lcores <- Workers, Batches <- SeqsUpTo(Keys, MaxBurst)

Init ==
    /\ mode \in Modes
    /\ pc = [w \in Workers |-> "poll"]
    /\ pkts_burst = [w \in Workers |-> <<>>]
    /\ j = [w \in Workers |-> 1]
    /\ frames = [w \in Workers |-> <<>>]
    /\ mac_addrs \in [Workers -> [1 .. MaxBurst -> Garbage]]
    /\ rounds = 0
    /\ sent = {}
    /\ Table!Init

Goto(w, label) == pc' = [pc EXCEPT ![w] = label]

\* l2fwd_mac_updating stores 8 bytes at the 6 byte destination, then the
\* source address over the 2 that were too many.
l2fwd_mac_updating(pkt, mac) == [pkt EXCEPT !.dst = mac % MacValues]

\* Hand a batch of hashes to the table.
Submit(w, b) == Table!Submit(w) /\ batch'[w] = b

-----------------------------------------------------------------------------
(* One burst                                                                *)

Poll(w) ==
    /\ pc[w] = "poll"
    /\ rounds < MaxRounds
    /\ \E b \in SeqsUpTo(Frames, MaxBurst) :
          pkts_burst' = [pkts_burst EXCEPT ![w] =
              [n \in DOMAIN b |-> [conn |-> b[n].conn, ip |-> b[n].ip, dst |-> Arrived]]]
    /\ j' = [j EXCEPT ![w] = 1]
    /\ rounds' = rounds + 1
    /\ Goto(w, mode)
    /\ UNCHANGED <<mode, frames, mac_addrs, sent, table>>

\* Mutant: a packet without a valid hash is tried again.
MaglevFrameStays(w) ==
    /\ pc[w] = "maglev" /\ j[w] <= Len(pkts_burst[w])
    /\ LET hash == flowhash(pkts_burst[w][j[w]].ip)
       IN  /\ hash # 0
           /\ Submit(w, <<hash>>) /\ Goto(w, "maglev_wait")
           /\ UNCHANGED j
    /\ UNCHANGED <<mode, pkts_burst, frames, mac_addrs, rounds, sent>>

\* maglev_process_frame asks the table if the hash is valid.
MaglevFrame(w) ==
    /\ pc[w] = "maglev" /\ j[w] <= Len(pkts_burst[w])
    /\ LET hash == flowhash(pkts_burst[w][j[w]].ip)
       IN  IF hash > 0
             THEN Submit(w, <<hash>>) /\ Goto(w, "maglev_wait") /\ UNCHANGED j
             ELSE j' = [j EXCEPT ![w] = @ + 1] /\ UNCHANGED <<pc, table>>
    /\ UNCHANGED <<mode, pkts_burst, frames, mac_addrs, rounds, sent>>

\* The packet gets the backend, if there is one.
MaglevReturn(w) ==
    /\ pc[w] = "maglev_wait"
    /\ Table!Return(w)
    /\ LET mac == answer[w][1]
       IN  pkts_burst' = IF mac = 0 THEN pkts_burst
                         ELSE [pkts_burst EXCEPT ![w][j[w]] = l2fwd_mac_updating(@, mac)]
    /\ j' = [j EXCEPT ![w] = @ + 1]
    /\ Goto(w, "maglev")
    /\ UNCHANGED <<mode, frames, mac_addrs, rounds, sent>>

MaglevDone(w) ==
    /\ pc[w] = "maglev" /\ j[w] > Len(pkts_burst[w])
    /\ Goto(w, "transmit")
    /\ UNCHANGED <<mode, pkts_burst, j, frames, mac_addrs, rounds, sent, table>>

\* The positions S of a burst in the order in which its loop meets them.
Ascending(S) ==
    {fs \in [1 .. Cardinality(S) -> S] : \A n, m \in DOMAIN fs : n < m => fs[n] < fs[m]}

\* frames[] and args[] are filled side by side with the packets that have a
\* valid hash; the table is asked only if there is one.
DramblastFrames(w) ==
    /\ pc[w] = "dramblast"
    /\ \E fs \in Ascending({n \in DOMAIN pkts_burst[w] : flowhash(pkts_burst[w][n].ip) > 0}) :
           /\ frames' = [frames EXCEPT ![w] = fs]
           /\ IF fs = <<>> THEN Goto(w, "rewrite") /\ UNCHANGED table
              ELSE /\ Submit(w, [n \in DOMAIN fs |-> flowhash(pkts_burst[w][fs[n]].ip)])
                   /\ Goto(w, "dramblast_wait")
    /\ UNCHANGED <<mode, pkts_burst, j, mac_addrs, rounds, sent>>

\* dramblast_process_frames has stored one address per hash.
DramblastReturn(w) ==
    /\ pc[w] = "dramblast_wait"
    /\ Table!Return(w)
    /\ mac_addrs' = [mac_addrs EXCEPT ![w] =
                        [n \in 1 .. MaxBurst |->
                            IF n \in DOMAIN answer[w] THEN answer[w][n] ELSE @[n]]]
    /\ Goto(w, "rewrite")
    /\ UNCHANGED <<mode, pkts_burst, j, frames, rounds, sent>>

\* Mutant: mac_addrs is applied to the burst, not to the frames.
RewriteBurst(w) ==
    /\ pc[w] = "rewrite"
    /\ pkts_burst' = [pkts_burst EXCEPT ![w] =
           [n \in DOMAIN @ |->
               IF n \in DOMAIN frames[w] /\ mac_addrs[w][n] > 0
                 THEN l2fwd_mac_updating(@[n], mac_addrs[w][n]) ELSE @[n]]]
    /\ Goto(w, "transmit")
    /\ UNCHANGED <<mode, j, frames, mac_addrs, rounds, sent, table>>

\* frames[n] gets mac_addrs[n], unless that is 0.
Rewrite(w) ==
    /\ pc[w] = "rewrite"
    /\ LET fs == frames[w]
           Rewritten == {n \in DOMAIN fs : mac_addrs[w][n] > 0}
           Mac(p) == mac_addrs[w][CHOOSE n \in DOMAIN fs : fs[n] = p]
       IN  pkts_burst' = [pkts_burst EXCEPT ![w] =
               [p \in DOMAIN @ |-> IF p \in {fs[n] : n \in Rewritten}
                                     THEN l2fwd_mac_updating(@[p], Mac(p)) ELSE @[p]]]
    /\ Goto(w, "transmit")
    /\ UNCHANGED <<mode, j, frames, mac_addrs, rounds, sent, table>>

\* Without a table every packet gets the constant address.
RewriteNone(w) ==
    /\ pc[w] = "none"
    /\ pkts_burst' = [pkts_burst EXCEPT ![w] =
                         [n \in DOMAIN @ |-> l2fwd_mac_updating(@[n], NoneMac)]]
    /\ Goto(w, "transmit")
    /\ UNCHANGED <<mode, j, frames, mac_addrs, rounds, sent, table>>

\* The NIC takes the first nb_tx packets, the others are freed.
Transmit(w) ==
    /\ pc[w] = "transmit"
    /\ \E nb_tx \in 0 .. Len(pkts_burst[w]) :
          sent' = sent \cup {[packet |-> pkts_burst[w][n],
                              full |-> Cardinality(Table!BoundFlows) >= RefusalBound] :
                                 n \in 1 .. nb_tx}
    /\ pkts_burst' = [pkts_burst EXCEPT ![w] = <<>>]
    /\ Goto(w, "poll")
    /\ UNCHANGED <<mode, j, frames, mac_addrs, rounds, table>>

\* The table works on w's batch (Dramblast and Maglev, in detail).
Answer(w) ==
    /\ \E n \in Table!Unanswered(w) :
          Table!Bind(w, n) \/ Table!Lookup(w, n) \/ Table!Refuse(w, n)
    /\ UNCHANGED <<mode, pc, pkts_burst, j, frames, mac_addrs, rounds, sent>>

-----------------------------------------------------------------------------
Work(w) ==
    \/ MaglevFrame(w) \/ MaglevReturn(w) \/ MaglevDone(w)
    \/ DramblastFrames(w) \/ DramblastReturn(w) \/ Rewrite(w)
    \/ RewriteNone(w) \/ Transmit(w) \/ Answer(w)

Next == \E w \in Workers : Poll(w) \/ Work(w)

Spec == Init /\ [][Next]_vars

\* A worker lcore is never descheduled for good, and a call of the table
\* returns (CallsReturn of Dramblast and Maglev).
FairSpec == Spec /\ \A w \in Workers : WF_vars(Work(w))

-----------------------------------------------------------------------------
(* Properties                                                               *)

\* Every packet leaves with the address it should have: the backend of its
\* flow hash or, if the hash is invalid or the table refused the flow (which
\* takes RefusalBound flows), the address it came with.  No packet gets the
\* answer of another packet of its burst, nor one left in mac_addrs by an
\* earlier burst.
RewrittenRight ==
    \A s \in sent :
        LET hash == flowhash(s.packet.ip)
        IN  IF mode = "none" THEN s.packet.dst = NoneMac
            ELSE \/ hash # 0 /\ s.packet.dst = Backend[hash]
                 \/ (hash = 0 \/ s.full) /\ s.packet.dst = Arrived

\* All packets of a connection that go to a backend go to the same one,
\* whichever workers handled them, with and without IP options.
ConnectionsStick ==
    \A s, r \in sent :
        s.packet.conn = r.packet.conn /\ s.packet.dst # Arrived /\ r.packet.dst # Arrived
            => s.packet.dst = r.packet.dst

\* Every burst is transmitted and the worker polls again, whatever the mix of
\* valid and invalid packets in it.
BurstsLeave == \A w \in Workers : pc[w] # "poll" ~> pc[w] = "poll"

=============================================================================
