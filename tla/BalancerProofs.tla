--------------------------- MODULE BalancerProofs ---------------------------
(***************************************************************************)
(* Proofs about the load balancer as a whole: every packet leaves with the *)
(* backend of its own flow, and a connection keeps its backend, for any    *)
(* number of workers, any frames, bursts, tables and hash functions.       *)
(*                                                                         *)
(* The invariant follows a burst through its handling: which packets are   *)
(* already right, which are untouched, and what the table has been asked   *)
(* for.  An answer of 0 is justified by the flows bound when it was given, *)
(* and stays so because the table never forgets a flow (FullStays).        *)
(***************************************************************************)
EXTENDS Balancer, FiniteSetTheorems, TLAPS

-----------------------------------------------------------------------------
(* The invariant                                                            *)

\* What a packet of the program can be.
Packet == {[conn |-> f.conn, ip |-> f.ip, dst |-> d] : f \in Frames, d \in Nat}

\* The table may refuse a flow.
Full == Cardinality(Table!BoundFlows) >= RefusalBound

\* RewrittenRight for one packet, which leaves when the table is full or not.
RightIf(p, full) ==
    LET hash == flowhash(p.ip)
    IN  IF mode = "none" THEN p.dst = NoneMac
        ELSE \/ hash # 0 /\ p.dst = Backend[hash]
             \/ (hash = 0 \/ full) /\ p.dst = Arrived

\* An answer the table may give for flow k.
Good(k, v) == v = Backend[k] \/ (v = 0 /\ Full)

Hash(w, n) == flowhash(pkts_burst[w][n].ip)

TypeInv ==
    /\ mode \in Modes
    /\ pc \in [Workers -> {"poll", "maglev", "maglev_wait", "dramblast", "dramblast_wait",
                          "rewrite", "none", "transmit"}]
    /\ pkts_burst \in [Workers -> Seq(Packet)]
    /\ j \in [Workers -> Nat \ {0}]
    /\ frames \in [Workers -> Seq(Nat)]
    /\ mac_addrs \in [Workers -> [1 .. MaxBurst -> Nat]]

\* Bindings come from the lookup table; answers are bindings or refusals.
TableInv ==
    /\ bound \in [Keys -> Nat]
    /\ \A k \in Keys : bound[k] \in {0, Backend[k]}
    /\ batch \in [Workers -> {<<>>} \cup SeqsUpTo(Keys, MaxBurst)]
    /\ DOMAIN answer = Workers

AnswersGood(w) ==
    \A n \in DOMAIN answer[w] : n \in DOMAIN batch[w] /\ Good(batch[w][n], answer[w][n])

\* No packet of the burst has been touched.
Untouched(w) == \A n \in DOMAIN pkts_burst[w] : pkts_burst[w][n].dst = Arrived

\* frames has the positions of the packets with a valid hash, and no others.
FramesMatch(w) ==
    /\ Len(frames[w]) <= MaxBurst
    /\ \A n \in DOMAIN frames[w] :
          frames[w][n] \in DOMAIN pkts_burst[w] /\ Hash(w, frames[w][n]) # 0
    /\ \A p \in DOMAIN pkts_burst[w] :
          Hash(w, p) # 0 => \E n \in DOMAIN frames[w] : frames[w][n] = p

\* maglev: the packets before j are right, the others untouched.
MaglevInv(w) ==
    /\ pc[w] \in {"maglev", "maglev_wait"} =>
          /\ mode = "maglev"
          /\ \A n \in DOMAIN pkts_burst[w] :
                IF n < j[w] THEN RightIf(pkts_burst[w][n], Full)
                ELSE pkts_burst[w][n].dst = Arrived
    /\ pc[w] = "maglev_wait" =>
          j[w] <= Len(pkts_burst[w]) /\ Hash(w, j[w]) # 0 /\ batch[w] = <<Hash(w, j[w])>>

\* dramblast: nothing is touched before Rewrite, and by then mac_addrs[n] is
\* an answer for the packet at frames[n].
DramblastInv(w) ==
    /\ pc[w] \in {"dramblast", "dramblast_wait", "rewrite"} =>
          mode = "dramblast" /\ Untouched(w)
    /\ pc[w] \in {"dramblast_wait", "rewrite"} => FramesMatch(w)
    /\ pc[w] = "dramblast_wait" =>
          batch[w] = [n \in DOMAIN frames[w] |-> Hash(w, frames[w][n])]
    /\ pc[w] = "rewrite" =>
          \A n \in DOMAIN frames[w] : Good(Hash(w, frames[w][n]), mac_addrs[w][n])

WorkerInv(w) ==
    /\ Len(pkts_burst[w]) <= MaxBurst
    /\ AnswersGood(w)
    /\ pc[w] \notin {"maglev_wait", "dramblast_wait"} => batch[w] = <<>>
    /\ MaglevInv(w)
    /\ DramblastInv(w)
    /\ pc[w] = "none" => mode = "none"
    /\ pc[w] = "transmit" =>
          \A n \in DOMAIN pkts_burst[w] : RightIf(pkts_burst[w][n], Full)

SentInv ==
    \A s \in sent : s.packet \in Packet /\ RightIf(s.packet, s.full)

IInv == TypeInv /\ TableInv /\ (\A w \in Workers : WorkerInv(w)) /\ SentInv

-----------------------------------------------------------------------------
(* Facts about packets and the table                                        *)

USE BalancerAssumption

\* Cardinality means the same in the abstract specification.
LEMMA SameCardinality == \A S : Table!Cardinality(S) = Cardinality(S)
BY Zenon DEF Table!Cardinality, Cardinality

\* A backend is an address, and not 0.
LEMMA BackendFacts ==
    \A k \in Keys : Backend[k] \in Nat /\ Backend[k] # 0 /\ Backend[k] < MacValues
<1> SUFFICES ASSUME NEW k \in Keys
             PROVE  Backend[k] \in Nat /\ Backend[k] # 0 /\ Backend[k] < MacValues
  OBVIOUS
<1>1. Backend[k] \in 1 .. MacValues - 1 /\ MacValues \in Nat OBVIOUS
<1> QED BY <1>1

\* The hash of a packet is a flow hash or invalid.
LEMMA HashFacts ==
    ASSUME NEW p \in Packet
    PROVE  /\ flowhash(p.ip) \in Keys \cup {0}
           /\ flowhash(p.ip) \in Nat
           /\ p.dst \in Nat
           /\ \E f \in Frames : p.conn = f.conn /\ p.ip = f.ip
<1>1. PICK f \in Frames, d \in Nat : p = [conn |-> f.conn, ip |-> f.ip, dst |-> d]
  BY DEF Packet
<1>2. p.ip = f.ip /\ p.dst = d /\ p.conn = f.conn BY <1>1
<1>3. flowhash(f.ip) \in Keys \cup {0} BY DEF Keys
<1>4. Keys \cup {0} \subseteq Nat OBVIOUS
<1> QED BY <1>2, <1>3, <1>4

\* l2fwd_mac_updating changes the address only, to the backend if it is one.
LEMMA UpdateFacts ==
    ASSUME NEW p \in Packet, NEW mac \in Nat
    PROVE  /\ l2fwd_mac_updating(p, mac) \in Packet
           /\ l2fwd_mac_updating(p, mac).ip = p.ip
           /\ mac < MacValues => l2fwd_mac_updating(p, mac).dst = mac
<1>1. PICK f \in Frames, d \in Nat : p = [conn |-> f.conn, ip |-> f.ip, dst |-> d]
  BY DEF Packet
<1> DEFINE m == mac % MacValues
<1>2. l2fwd_mac_updating(p, mac) = [conn |-> f.conn, ip |-> f.ip, dst |-> m]
  BY <1>1 DEF l2fwd_mac_updating
<1>3. m \in Nat /\ (mac < MacValues => m = mac) OBVIOUS
<1> HIDE DEF m
<1> QED BY <1>1, <1>2, <1>3 DEF Packet

\* An answer, applied to an untouched packet of its flow unless it is 0,
\* makes the packet right.
LEMMA ApplyAnswer ==
    ASSUME mode # "none", NEW p \in Packet, p.dst = Arrived, flowhash(p.ip) # 0,
           NEW v \in Nat, Good(flowhash(p.ip), v)
    PROVE  RightIf(IF v = 0 THEN p ELSE l2fwd_mac_updating(p, v), Full)
<1>1. flowhash(p.ip) \in Keys BY HashFacts
<1>2. CASE v = 0
  <2>1. Backend[flowhash(p.ip)] # 0 BY <1>1, BackendFacts
  <2> QED BY <1>2, <2>1 DEF Good, RightIf
<1>3. CASE v # 0
  <2>1. v = Backend[flowhash(p.ip)] /\ v < MacValues BY <1>1, <1>3, BackendFacts DEF Good
  <2> QED BY <1>3, <2>1, UpdateFacts DEF RightIf
<1> QED BY <1>2, <1>3

\* The table only grows: a refusal that was justified stays so.
LEMMA FullStays ==
    ASSUME bound \in [Keys -> Nat], \A k \in Keys : bound[k] # 0 => bound'[k] # 0
    PROVE  Full => Full'
<1>1. Table!BoundFlows \subseteq Table!BoundFlows' BY DEF Table!BoundFlows
<1>2. Table!BoundFlows' \subseteq Keys BY DEF Table!BoundFlows
<1>3. IsFiniteSet(Table!BoundFlows') BY <1>2, FS_Subset
<1>4. Cardinality(Table!BoundFlows) <= Cardinality(Table!BoundFlows')
      /\ IsFiniteSet(Table!BoundFlows)
  BY <1>1, <1>3, FS_Subset
<1>5. Cardinality(Table!BoundFlows) \in Nat /\ Cardinality(Table!BoundFlows') \in Nat
  BY <1>3, <1>4, FS_CardinalityType
<1> QED BY <1>4, <1>5 DEF Full

\* A step that leaves a worker alone and does not shrink the table keeps what
\* is known of it.
LEMMA WorkerFrame ==
    ASSUME NEW w \in Workers, WorkerInv(w), mode' = mode, Full => Full',
           pc'[w] = pc[w], pkts_burst'[w] = pkts_burst[w], j'[w] = j[w],
           frames'[w] = frames[w], mac_addrs'[w] = mac_addrs[w],
           batch'[w] = batch[w], answer'[w] = answer[w]
    PROVE  WorkerInv(w)'
<1>1. \A k, v : Good(k, v) => Good(k, v)' BY DEF Good
<1>2. \A p : RightIf(p, Full) => RightIf(p, Full)' BY DEF RightIf
<1>3. AnswersGood(w)' BY <1>1 DEF WorkerInv, AnswersGood
<1>4. MaglevInv(w)' BY <1>2 DEF WorkerInv, MaglevInv, Hash
<1>5. DramblastInv(w)' BY <1>1 DEF WorkerInv, DramblastInv, Untouched, FramesMatch, Hash
<1> QED BY <1>2, <1>3, <1>4, <1>5 DEF WorkerInv

\* What was sent stays right.
LEMMA SentFrame ==
    ASSUME SentInv, UNCHANGED <<mode, sent>>
    PROVE  SentInv'
BY DEF SentInv, RightIf

\* The invariant after a step of w.
LEMMA StepOf ==
    ASSUME IInv, NEW w \in Workers, TypeInv', TableInv', SentInv', WorkerInv(w)',
           mode' = mode, Full => Full',
           \A u \in Workers \ {w} :
               /\ pc'[u] = pc[u] /\ pkts_burst'[u] = pkts_burst[u] /\ j'[u] = j[u]
               /\ frames'[u] = frames[u] /\ mac_addrs'[u] = mac_addrs[u]
               /\ batch'[u] = batch[u] /\ answer'[u] = answer[u]
    PROVE  IInv'
<1>1. ASSUME NEW u \in Workers PROVE WorkerInv(u)'
  <2>1. CASE u = w BY <2>1
  <2>2. CASE u # w
    <3>1. u \in Workers \ {w} BY <2>2
    <3>2. /\ pc'[u] = pc[u] /\ pkts_burst'[u] = pkts_burst[u] /\ j'[u] = j[u]
          /\ frames'[u] = frames[u] /\ mac_addrs'[u] = mac_addrs[u]
          /\ batch'[u] = batch[u] /\ answer'[u] = answer[u]
      BY <3>1
    <3> QED BY <3>2, WorkerFrame DEF IInv
  <2> QED BY <2>1, <2>2
<1> QED BY <1>1 DEF IInv

\* Steps of the loop that do not involve the table.
LEMMA TableQuiet ==
    ASSUME TableInv, UNCHANGED table
    PROVE  /\ TableInv' /\ Full' = Full
           /\ bound' = bound /\ batch' = batch /\ answer' = answer
           /\ \A w : AnswersGood(w) => AnswersGood(w)'
           /\ \A k, v : Good(k, v) => Good(k, v)'
<1>1. bound' = bound /\ batch' = batch /\ answer' = answer BY DEF table
<1>2. TableInv' BY <1>1 DEF TableInv
<1>3. Full' = Full BY <1>1 DEF Full, Table!BoundFlows
<1>4. \A k, v : Good(k, v) => Good(k, v)' BY <1>3 DEF Good
<1>5. \A w : AnswersGood(w) => AnswersGood(w)' BY <1>1, <1>4 DEF AnswersGood
<1> QED BY <1>1, <1>2, <1>3, <1>4, <1>5

\* A batch of hashes is handed to the table.
LEMMA SubmitFacts ==
    ASSUME TableInv, NEW w \in Workers, WorkerInv(w), NEW b, Submit(w, b)
    PROVE  /\ TableInv' /\ Full' = Full
           /\ batch[w] = <<>> /\ batch'[w] = b /\ answer' = answer
           /\ \A u \in Workers \ {w} : batch'[u] = batch[u]
           /\ AnswersGood(w)'
<1>1. PICK c \in SeqsUpTo(Keys, MaxBurst) :
          batch[w] = <<>> /\ batch' = [batch EXCEPT ![w] = c] /\ UNCHANGED <<bound, answer>>
  BY DEF Submit, Table!Submit
<1>2. batch'[w] = b BY DEF Submit
<1>3. TableInv' BY <1>1 DEF TableInv
<1>4. Full' = Full BY <1>1 DEF Full, Table!BoundFlows
<1>5. \A u \in Workers \ {w} : batch'[u] = batch[u] BY <1>1 DEF TableInv
<1>6. AnswersGood(w)'
  <2>1. DOMAIN answer[w] = {} BY <1>1 DEF WorkerInv, AnswersGood
  <2> QED BY <1>1, <2>1 DEF AnswersGood
<1> QED BY <1>1, <1>2, <1>3, <1>4, <1>5, <1>6

\* A batch comes back with an answer for each of its flows.
LEMMA ReturnFacts ==
    ASSUME TableInv, NEW w \in Workers, WorkerInv(w), Table!Return(w)
    PROVE  /\ TableInv' /\ Full' = Full
           /\ batch'[w] = <<>>
           /\ \A u \in Workers \ {w} : batch'[u] = batch[u] /\ answer'[u] = answer[u]
           /\ AnswersGood(w)'
           /\ DOMAIN answer[w] = DOMAIN batch[w]
           /\ \A n \in DOMAIN batch[w] : Good(batch[w][n], answer[w][n])
<1>1. /\ DOMAIN batch[w] \ DOMAIN answer[w] = {}
      /\ batch' = [batch EXCEPT ![w] = <<>>]
      /\ answer' = [answer EXCEPT ![w] = <<>>]
      /\ bound' = bound
  BY DEF Table!Return, Table!Unanswered
<1>2. TableInv' BY <1>1 DEF TableInv
<1>3. Full' = Full BY <1>1 DEF Full, Table!BoundFlows
<1>4. batch'[w] = <<>> /\ answer'[w] = <<>> BY <1>1 DEF TableInv
<1>5. \A u \in Workers \ {w} : batch'[u] = batch[u] /\ answer'[u] = answer[u]
  BY <1>1 DEF TableInv
<1>6. AnswersGood(w)' BY <1>4 DEF AnswersGood
<1>7. DOMAIN answer[w] = DOMAIN batch[w]
      /\ \A n \in DOMAIN batch[w] : Good(batch[w][n], answer[w][n])
  BY <1>1 DEF WorkerInv, AnswersGood
<1> QED BY <1>2, <1>3, <1>4, <1>5, <1>6, <1>7

\* An answer is a number.
LEMMA GoodIsNat == ASSUME NEW k \in Keys, NEW v, Good(k, v) PROVE v \in Nat
BY BackendFacts DEF Good

-----------------------------------------------------------------------------
(* Every action keeps the invariant                                         *)

LEMMA PollKeeps == ASSUME IInv, NEW w \in Workers, Poll(w) PROVE IInv'
<1> USE DEF IInv
<1>1. PICK b \in SeqsUpTo(Frames, MaxBurst) :
          pkts_burst' = [pkts_burst EXCEPT ![w] =
              [n \in DOMAIN b |-> [conn |-> b[n].conn, ip |-> b[n].ip, dst |-> Arrived]]]
  BY DEF Poll
<1>2. PICK m \in 1 .. MaxBurst : b \in [1 .. m -> Frames] BY DEF SeqsUpTo
<1> DEFINE p(n) == [conn |-> b[n].conn, ip |-> b[n].ip, dst |-> Arrived]
           ps == [n \in 1 .. m |-> p(n)]
<1>3. \A n \in 1 .. m : p(n) \in Packet /\ p(n).dst = Arrived
  BY <1>2 DEF Packet, Arrived
<1>4. DOMAIN b = 1 .. m BY <1>2
<1>5. pkts_burst' = [pkts_burst EXCEPT ![w] = ps] BY <1>1, <1>4
<1> HIDE DEF p
<1>6. m \in Nat /\ ps \in Seq(Packet) /\ Len(ps) = m /\ \A n \in DOMAIN ps : ps[n].dst = Arrived
  <2>1. m \in Nat OBVIOUS
  <2>2. ps \in [1 .. m -> Packet] BY <1>3
  <2>3. ps \in Seq(Packet) /\ Len(ps) = m BY <2>1, <2>2
  <2>4. \A n \in DOMAIN ps : ps[n].dst = Arrived BY <1>3
  <2> QED BY <2>1, <2>3, <2>4
<1> HIDE DEF ps
<1>7. /\ pc[w] = "poll" /\ pc' = [pc EXCEPT ![w] = mode] /\ j' = [j EXCEPT ![w] = 1]
      /\ UNCHANGED <<mode, frames, mac_addrs, sent, table>>
  BY DEF Poll, Goto
<1>8. mode \in {"maglev", "dramblast", "none"} BY DEF TypeInv
<1>9. /\ TableInv' /\ Full' = Full /\ batch' = batch /\ answer' = answer /\ AnswersGood(w)'
  BY <1>7, TableQuiet DEF WorkerInv
<1>10. TypeInv' BY <1>5, <1>6, <1>7, <1>8 DEF TypeInv
<1>11. pc'[w] = mode /\ pkts_burst'[w] = ps /\ j'[w] = 1 BY <1>5, <1>7 DEF TypeInv
<1>12. batch'[w] = <<>> BY <1>7, <1>9 DEF WorkerInv
<1>13. MaglevInv(w)' BY <1>6, <1>7, <1>8, <1>11 DEF MaglevInv
<1>14. DramblastInv(w)' BY <1>6, <1>7, <1>8, <1>11 DEF DramblastInv, Untouched
<1>15. Len(ps) <= MaxBurst BY <1>2, <1>6
<1>16. WorkerInv(w)'
  BY <1>7, <1>8, <1>9, <1>11, <1>12, <1>13, <1>14, <1>15 DEF WorkerInv
<1>17. SentInv' BY <1>7, SentFrame
<1> QED BY <1>5, <1>7, <1>9, <1>10, <1>16, <1>17, StepOf DEF TypeInv

LEMMA MaglevFrameKeeps == ASSUME IInv, NEW w \in Workers, MaglevFrame(w) PROVE IInv'
<1> USE DEF IInv
<1> DEFINE p == pkts_burst[w][j[w]]
<1>1. /\ pc[w] = "maglev" /\ j[w] <= Len(pkts_burst[w])
      /\ UNCHANGED <<mode, pkts_burst, frames, mac_addrs, sent>>
  BY DEF MaglevFrame
<1>2. j[w] \in DOMAIN pkts_burst[w] /\ p \in Packet BY <1>1 DEF TypeInv
<1>3. flowhash(p.ip) \in Keys \cup {0} /\ flowhash(p.ip) \in Nat BY <1>2, HashFacts
<1>4. mode = "maglev" /\ p.dst = Arrived BY <1>1, <1>2 DEF WorkerInv, MaglevInv, TypeInv
<1>5. SentInv' BY <1>1, SentFrame
<1>6. CASE flowhash(p.ip) > 0
  <2>1. Submit(w, <<flowhash(p.ip)>>) /\ pc' = [pc EXCEPT ![w] = "maglev_wait"] /\ j' = j
    BY <1>6 DEF MaglevFrame, Goto
  <2>2. /\ TableInv' /\ Full' = Full /\ answer' = answer /\ AnswersGood(w)'
        /\ batch'[w] = <<flowhash(p.ip)>> /\ \A u \in Workers \ {w} : batch'[u] = batch[u]
    BY <2>1, SubmitFacts
  <2>3. TypeInv' BY <1>1, <2>1 DEF TypeInv
  <2>4. pc'[w] = "maglev_wait" BY <2>1 DEF TypeInv
  <2>5. flowhash(p.ip) # 0 BY <1>3, <1>6
  <2>6. MaglevInv(w)'
    BY <1>1, <1>4, <2>1, <2>2, <2>4, <2>5 DEF WorkerInv, MaglevInv, Hash, RightIf
  <2>7. WorkerInv(w)' BY <1>1, <2>2, <2>4, <2>6 DEF WorkerInv, DramblastInv
  <2> QED BY <1>1, <1>5, <2>1, <2>2, <2>3, <2>7, StepOf DEF TypeInv
<1>7. CASE ~(flowhash(p.ip) > 0)
  <2>1. j' = [j EXCEPT ![w] = @ + 1] /\ UNCHANGED <<pc, table>> BY <1>7 DEF MaglevFrame
  <2>2. /\ TableInv' /\ Full' = Full /\ batch' = batch /\ answer' = answer /\ AnswersGood(w)'
    BY <2>1, TableQuiet DEF WorkerInv
  <2>3. TypeInv' BY <1>1, <2>1 DEF TypeInv
  <2>4. RightIf(p, Full) BY <1>3, <1>4, <1>7 DEF RightIf
  <2>5. j'[w] = j[w] + 1 /\ j[w] \in Nat BY <2>1 DEF TypeInv
  <2>6. \A n \in DOMAIN pkts_burst[w] :
            IF n < j[w] + 1 THEN RightIf(pkts_burst[w][n], Full)
            ELSE pkts_burst[w][n].dst = Arrived
    <3> SUFFICES ASSUME NEW n \in DOMAIN pkts_burst[w]
                 PROVE  IF n < j[w] + 1 THEN RightIf(pkts_burst[w][n], Full)
                        ELSE pkts_burst[w][n].dst = Arrived
      OBVIOUS
    <3>1. n \in Nat BY DEF TypeInv
    <3>2. n < j[w] + 1 <=> n < j[w] \/ n = j[w] BY <2>5, <3>1
    <3> QED BY <1>1, <2>4, <3>2 DEF WorkerInv, MaglevInv
  <2>7. MaglevInv(w)' BY <1>1, <1>4, <2>1, <2>2, <2>5, <2>6 DEF MaglevInv, RightIf
  <2>8. WorkerInv(w)' BY <1>1, <2>1, <2>2, <2>7 DEF WorkerInv, DramblastInv
  <2> QED BY <1>1, <1>5, <2>1, <2>2, <2>3, <2>8, StepOf DEF TypeInv
<1> QED BY <1>6, <1>7

LEMMA MaglevReturnKeeps == ASSUME IInv, NEW w \in Workers, MaglevReturn(w) PROVE IInv'
<1> USE DEF IInv
<1> DEFINE p == pkts_burst[w][j[w]]
           mac == answer[w][1]
           r == IF mac = 0 THEN p ELSE l2fwd_mac_updating(p, mac)
<1>1. /\ pc[w] = "maglev_wait" /\ Table!Return(w)
      /\ j' = [j EXCEPT ![w] = @ + 1] /\ pc' = [pc EXCEPT ![w] = "maglev"]
      /\ UNCHANGED <<mode, frames, mac_addrs, sent>>
  BY DEF MaglevReturn, Goto
<1>2. /\ mode = "maglev" /\ j[w] <= Len(pkts_burst[w]) /\ Hash(w, j[w]) # 0
      /\ batch[w] = <<Hash(w, j[w])>>
  BY <1>1 DEF WorkerInv, MaglevInv
<1>3. j[w] \in DOMAIN pkts_burst[w] /\ p \in Packet /\ j[w] \in Nat BY <1>2 DEF TypeInv
<1>4. p.dst = Arrived BY <1>1, <1>3 DEF WorkerInv, MaglevInv, TypeInv
<1>5. flowhash(p.ip) # 0 /\ flowhash(p.ip) \in Keys BY <1>2, <1>3, HashFacts DEF Hash
<1>6. /\ TableInv' /\ Full' = Full /\ batch'[w] = <<>> /\ AnswersGood(w)'
      /\ \A u \in Workers \ {w} : batch'[u] = batch[u] /\ answer'[u] = answer[u]
      /\ \A n \in DOMAIN batch[w] : Good(batch[w][n], answer[w][n])
  BY <1>1, ReturnFacts
<1>7. Good(flowhash(p.ip), mac) BY <1>2, <1>6 DEF Hash
<1>8. mac \in Nat BY <1>5, <1>7, GoodIsNat
<1>9. RightIf(r, Full) /\ r \in Packet
  BY <1>2, <1>3, <1>4, <1>5, <1>7, <1>8, ApplyAnswer, UpdateFacts
<1>10. pkts_burst' = [pkts_burst EXCEPT ![w][j[w]] = r]
  <2>1. CASE mac = 0
    <3>1. pkts_burst' = pkts_burst BY <2>1 DEF MaglevReturn
    <3>2. [pkts_burst[w] EXCEPT ![j[w]] = p] = pkts_burst[w] BY DEF TypeInv
    <3> QED BY <2>1, <3>1, <3>2 DEF TypeInv
  <2>2. CASE mac # 0 BY <2>2 DEF MaglevReturn
  <2> QED BY <2>1, <2>2
<1> HIDE DEF r
<1>11. /\ pkts_burst'[w] = [pkts_burst[w] EXCEPT ![j[w]] = r]
       /\ \A u \in Workers \ {w} : pkts_burst'[u] = pkts_burst[u]
       /\ pkts_burst' \in [Workers -> Seq(Packet)]
  BY <1>3, <1>9, <1>10 DEF TypeInv
<1>12. j'[w] = j[w] + 1 /\ pc'[w] = "maglev" BY <1>1 DEF TypeInv
<1>13. TypeInv'
  <2>1. j' \in [Workers -> Nat \ {0}] BY <1>1 DEF TypeInv
  <2>2. pc' = [pc EXCEPT ![w] = "maglev"] BY <1>1
  <2> QED BY <1>1, <1>11, <2>1, <2>2 DEF TypeInv
<1>14. \A n \in DOMAIN pkts_burst'[w] :
           IF n < j[w] + 1 THEN RightIf(pkts_burst'[w][n], Full)
           ELSE pkts_burst'[w][n].dst = Arrived
  <2> SUFFICES ASSUME NEW n \in DOMAIN pkts_burst[w]
               PROVE  IF n < j[w] + 1 THEN RightIf(pkts_burst'[w][n], Full)
                      ELSE pkts_burst'[w][n].dst = Arrived
    BY <1>11
  <2>1. n \in Nat BY DEF TypeInv
  <2>2. CASE n = j[w]
    <3>1. pkts_burst'[w][n] = r /\ n < j[w] + 1 BY <1>3, <1>11, <2>2
    <3> QED BY <1>9, <3>1
  <2>3. CASE n # j[w]
    <3>1. pkts_burst'[w][n] = pkts_burst[w][n] BY <1>11, <2>3
    <3>2. n < j[w] + 1 <=> n < j[w] BY <1>3, <2>1, <2>3
    <3> QED BY <1>1, <3>1, <3>2 DEF WorkerInv, MaglevInv
  <2> QED BY <2>2, <2>3
<1>15. MaglevInv(w)' BY <1>1, <1>2, <1>6, <1>12, <1>14 DEF MaglevInv, RightIf
<1>16. Len(pkts_burst'[w]) <= MaxBurst BY <1>3, <1>11 DEF TypeInv, WorkerInv
<1>17. WorkerInv(w)' BY <1>6, <1>12, <1>15, <1>16 DEF WorkerInv, DramblastInv
<1>18. SentInv' BY <1>1, SentFrame
<1> QED BY <1>1, <1>6, <1>11, <1>13, <1>17, <1>18, StepOf DEF TypeInv

LEMMA MaglevDoneKeeps == ASSUME IInv, NEW w \in Workers, MaglevDone(w) PROVE IInv'
<1> USE DEF IInv
<1>1. /\ pc[w] = "maglev" /\ j[w] > Len(pkts_burst[w])
      /\ pc' = [pc EXCEPT ![w] = "transmit"]
      /\ UNCHANGED <<mode, pkts_burst, j, frames, mac_addrs, sent, table>>
  BY DEF MaglevDone, Goto
<1>2. /\ TableInv' /\ Full' = Full /\ batch' = batch /\ answer' = answer /\ AnswersGood(w)'
  BY <1>1, TableQuiet DEF WorkerInv
<1>3. TypeInv' BY <1>1 DEF TypeInv
<1>4. pc'[w] = "transmit" BY <1>1 DEF TypeInv
<1>5. \A n \in DOMAIN pkts_burst[w] : n < j[w] BY <1>1 DEF TypeInv
<1>6. \A n \in DOMAIN pkts_burst[w] : RightIf(pkts_burst[w][n], Full)
  BY <1>1, <1>5 DEF WorkerInv, MaglevInv
<1>7. (\A n \in DOMAIN pkts_burst[w] : RightIf(pkts_burst[w][n], Full))'
  BY <1>1, <1>2, <1>6 DEF RightIf
<1>8. WorkerInv(w)'
  BY <1>1, <1>2, <1>4, <1>7 DEF WorkerInv, MaglevInv, DramblastInv
<1>9. SentInv' BY <1>1, SentFrame
<1> QED BY <1>1, <1>2, <1>3, <1>8, <1>9, StepOf DEF TypeInv

\* The positions in ascending order are all positions, each once.
LEMMA AscendingFacts ==
    ASSUME NEW m \in Nat, NEW S \in SUBSET (1 .. m), NEW fs \in Ascending(S)
    PROVE  /\ fs \in Seq(Nat) /\ Len(fs) <= m
           /\ \A n \in DOMAIN fs : fs[n] \in S
           /\ \A x \in S : \E n \in DOMAIN fs : fs[n] = x
<1> DEFINE c == Cardinality(S)
           T == {fs[n] : n \in 1 .. c}
<1>1. IsFiniteSet(1 .. m) /\ Cardinality(1 .. m) = m BY FS_Interval
<1>2. IsFiniteSet(S) /\ c \in Nat /\ c <= m BY <1>1, FS_Subset, FS_CardinalityType
<1>3. IsFiniteSet(1 .. c) /\ Cardinality(1 .. c) = c BY <1>2, FS_Interval
<1> HIDE DEF c
<1>4. fs \in [1 .. c -> S] /\ \A a, b \in 1 .. c : a < b => fs[a] < fs[b]
  BY DEF Ascending, c
<1>5. \A a, b \in 1 .. c : fs[a] = fs[b] => a = b
  <2> SUFFICES ASSUME NEW a \in 1 .. c, NEW b \in 1 .. c, a # b PROVE fs[a] # fs[b]
    OBVIOUS
  <2>1. fs[a] \in Nat /\ fs[b] \in Nat
    <3>1. 1 .. m \subseteq Nat OBVIOUS
    <3> QED BY <1>4, <3>1
  <2>2. a < b \/ b < a BY <1>2
  <2> QED BY <1>4, <2>1, <2>2
<1>6. fs \in Bijection(1 .. c, T)
  <2>1. fs \in [1 .. c -> T] BY <1>4
  <2>2. \A t \in T : \E n \in 1 .. c : fs[n] = t OBVIOUS
  <2> QED BY <1>5, <2>1, <2>2 DEF Bijection, Injection, Surjection, IsInjective
<1>7. ExistsBijection(1 .. c, T) BY <1>6 DEF ExistsBijection
<1>8. IsFiniteSet(T) /\ Cardinality(T) = c BY <1>3, <1>7, FS_Bijection
<1>9. T \subseteq S BY <1>4
<1>10. T = S
  <2> HIDE DEF T
  <2> QED BY <1>2, <1>8, <1>9, FS_Subset DEF c
<1>11. fs \in Seq(Nat) /\ Len(fs) = c
  <2>1. 1 .. m \subseteq Nat OBVIOUS
  <2>2. fs \in [1 .. c -> Nat] BY <1>4, <2>1
  <2> QED BY <1>2, <2>2
<1>12. \A n \in DOMAIN fs : fs[n] \in S BY <1>4
<1> QED BY <1>2, <1>4, <1>10, <1>11, <1>12

LEMMA DramblastFramesKeeps == ASSUME IInv, NEW w \in Workers, DramblastFrames(w) PROVE IInv'
<1> USE DEF IInv
<1> DEFINE S == {n \in DOMAIN pkts_burst[w] : Hash(w, n) > 0}
           m == Len(pkts_burst[w])
<1>1. PICK fs \in Ascending(S) :
          /\ frames' = [frames EXCEPT ![w] = fs]
          /\ IF fs = <<>> THEN pc' = [pc EXCEPT ![w] = "rewrite"] /\ UNCHANGED table
             ELSE /\ Submit(w, [n \in DOMAIN fs |-> Hash(w, fs[n])])
                  /\ pc' = [pc EXCEPT ![w] = "dramblast_wait"]
  BY DEF DramblastFrames, Goto, Hash
<1>2. pc[w] = "dramblast" /\ UNCHANGED <<mode, pkts_burst, j, mac_addrs, sent>>
  BY DEF DramblastFrames
<1>3. mode = "dramblast" /\ Untouched(w) BY <1>2 DEF WorkerInv, DramblastInv
<1>4. m \in Nat /\ DOMAIN pkts_burst[w] = 1 .. m /\ m <= MaxBurst BY DEF TypeInv, WorkerInv
<1>5. \A n \in DOMAIN pkts_burst[w] : Hash(w, n) \in Nat
  <2> SUFFICES ASSUME NEW n \in DOMAIN pkts_burst[w] PROVE Hash(w, n) \in Nat OBVIOUS
  <2>1. pkts_burst[w][n] \in Packet BY DEF TypeInv
  <2> QED BY <2>1, HashFacts DEF Hash
<1>6. S \in SUBSET (1 .. m) BY <1>4
<1>7. \A p \in DOMAIN pkts_burst[w] : p \in S <=> Hash(w, p) # 0 BY <1>5
<1> HIDE DEF S, m
<1>8. /\ fs \in Seq(Nat) /\ Len(fs) <= m
      /\ \A n \in DOMAIN fs : fs[n] \in S
      /\ \A x \in S : \E n \in DOMAIN fs : fs[n] = x
  BY <1>1, <1>4, <1>6, AscendingFacts
<1>9. frames'[w] = fs /\ \A u \in Workers \ {w} : frames'[u] = frames[u] BY <1>1 DEF TypeInv
<1>10. FramesMatch(w)'
  <2>1. Len(fs) <= MaxBurst BY <1>4, <1>8
  <2>2. \A n \in DOMAIN fs : fs[n] \in DOMAIN pkts_burst[w] /\ Hash(w, fs[n]) # 0
    BY <1>4, <1>6, <1>7, <1>8
  <2>3. \A p \in DOMAIN pkts_burst[w] : Hash(w, p) # 0 => \E n \in DOMAIN fs : fs[n] = p
    BY <1>7, <1>8
  <2> QED BY <1>2, <1>9, <2>1, <2>2, <2>3 DEF FramesMatch, Hash
<1>11. Untouched(w)' BY <1>2, <1>3 DEF Untouched
<1>12. SentInv' BY <1>2, SentFrame
<1>13. CASE fs = <<>>
  <2>1. pc' = [pc EXCEPT ![w] = "rewrite"] /\ UNCHANGED table BY <1>1, <1>13
  <2>2. /\ TableInv' /\ Full' = Full /\ batch' = batch /\ answer' = answer /\ AnswersGood(w)'
    BY <2>1, TableQuiet DEF WorkerInv
  <2>3. pc'[w] = "rewrite" BY <2>1 DEF TypeInv
  <2>4. TypeInv' BY <1>1, <1>2, <1>8, <2>1 DEF TypeInv
  <2>5. DOMAIN frames'[w] = {} BY <1>9, <1>13
  <2>6. DramblastInv(w)' BY <1>2, <1>3, <1>10, <1>11, <2>3, <2>5 DEF DramblastInv
  <2>7. WorkerInv(w)' BY <1>2, <2>2, <2>3, <2>6 DEF WorkerInv, MaglevInv
  <2> QED BY <1>2, <1>9, <1>12, <2>1, <2>2, <2>4, <2>7, StepOf DEF TypeInv
<1>14. CASE fs # <<>>
  <2>1. /\ pc' = [pc EXCEPT ![w] = "dramblast_wait"]
        /\ Submit(w, [n \in DOMAIN fs |-> Hash(w, fs[n])])
    BY <1>1, <1>14
  <2>2. /\ TableInv' /\ Full' = Full /\ answer' = answer /\ AnswersGood(w)'
        /\ batch'[w] = [n \in DOMAIN fs |-> Hash(w, fs[n])]
        /\ \A u \in Workers \ {w} : batch'[u] = batch[u]
    BY <2>1, SubmitFacts
  <2>3. pc'[w] = "dramblast_wait" BY <2>1 DEF TypeInv
  <2>4. TypeInv' BY <1>1, <1>2, <1>8, <2>1 DEF TypeInv
  <2>5. (batch[w] = [n \in DOMAIN frames[w] |-> Hash(w, frames[w][n])])'
    BY <1>2, <1>9, <2>2 DEF Hash
  <2>6. DramblastInv(w)' BY <1>2, <1>3, <1>10, <1>11, <2>3, <2>5 DEF DramblastInv
  <2>7. WorkerInv(w)' BY <1>2, <2>2, <2>3, <2>6 DEF WorkerInv, MaglevInv
  <2> QED BY <1>2, <1>9, <1>12, <2>1, <2>2, <2>4, <2>7, StepOf DEF TypeInv
<1> QED BY <1>13, <1>14

LEMMA DramblastReturnKeeps == ASSUME IInv, NEW w \in Workers, DramblastReturn(w) PROVE IInv'
<1> USE DEF IInv
<1> DEFINE mac(n) == IF n \in DOMAIN answer[w] THEN answer[w][n] ELSE mac_addrs[w][n]
<1>1. /\ pc[w] = "dramblast_wait" /\ Table!Return(w)
      /\ pc' = [pc EXCEPT ![w] = "rewrite"]
      /\ UNCHANGED <<mode, pkts_burst, j, frames, sent>>
  BY DEF DramblastReturn, Goto
<1>2. mac_addrs' = [mac_addrs EXCEPT ![w] = [n \in 1 .. MaxBurst |-> mac(n)]]
  BY DEF DramblastReturn
<1>3. /\ mode = "dramblast" /\ Untouched(w) /\ FramesMatch(w)
      /\ batch[w] = [n \in DOMAIN frames[w] |-> Hash(w, frames[w][n])]
  BY <1>1 DEF WorkerInv, DramblastInv
<1>4. /\ TableInv' /\ Full' = Full /\ batch'[w] = <<>> /\ AnswersGood(w)'
      /\ \A u \in Workers \ {w} : batch'[u] = batch[u] /\ answer'[u] = answer[u]
      /\ DOMAIN answer[w] = DOMAIN batch[w]
      /\ \A n \in DOMAIN batch[w] : Good(batch[w][n], answer[w][n])
  BY <1>1, ReturnFacts
<1>5. \A n \in DOMAIN frames[w] : n \in DOMAIN answer[w] /\ Good(Hash(w, frames[w][n]), answer[w][n])
  BY <1>3, <1>4
<1>6. \A n \in DOMAIN answer[w] : answer[w][n] \in Nat
  <2> SUFFICES ASSUME NEW n \in DOMAIN answer[w] PROVE answer[w][n] \in Nat OBVIOUS
  <2>1. n \in DOMAIN frames[w] BY <1>3, <1>4
  <2>2. frames[w][n] \in DOMAIN pkts_burst[w] /\ Hash(w, frames[w][n]) # 0
    BY <1>3, <2>1 DEF FramesMatch
  <2>3. pkts_burst[w][frames[w][n]] \in Packet BY <2>2 DEF TypeInv
  <2>4. Hash(w, frames[w][n]) \in Keys BY <2>2, <2>3, HashFacts DEF Hash
  <2> QED BY <1>5, <2>1, <2>4, GoodIsNat
<1>7. \A n \in 1 .. MaxBurst : mac(n) \in Nat BY <1>6 DEF TypeInv
<1>8. \A n \in DOMAIN frames[w] : n \in 1 .. MaxBurst BY <1>3 DEF FramesMatch, TypeInv
<1>9. \A n \in DOMAIN frames[w] : Good(Hash(w, frames[w][n]), mac(n)) BY <1>5
<1> HIDE DEF mac
<1>10. /\ mac_addrs'[w] = [n \in 1 .. MaxBurst |-> mac(n)]
       /\ \A u \in Workers \ {w} : mac_addrs'[u] = mac_addrs[u]
       /\ mac_addrs' \in [Workers -> [1 .. MaxBurst -> Nat]]
  BY <1>2, <1>7 DEF TypeInv
<1>11. TypeInv' BY <1>1, <1>10 DEF TypeInv
<1>12. \A n \in DOMAIN frames[w] : Good(Hash(w, frames[w][n]), mac_addrs'[w][n])
  BY <1>8, <1>9, <1>10
<1>13. pc'[w] = "rewrite" BY <1>1 DEF TypeInv
<1>14. (\A n \in DOMAIN frames[w] : Good(Hash(w, frames[w][n]), mac_addrs[w][n]))'
  BY <1>1, <1>4, <1>12 DEF Good, Hash
<1>15. Untouched(w)' /\ FramesMatch(w)' BY <1>1, <1>3 DEF Untouched, FramesMatch, Hash
<1>16. DramblastInv(w)' BY <1>1, <1>3, <1>13, <1>14, <1>15 DEF DramblastInv
<1>17. WorkerInv(w)' BY <1>1, <1>4, <1>13, <1>16 DEF WorkerInv, MaglevInv
<1>18. SentInv' BY <1>1, SentFrame
<1> QED BY <1>1, <1>4, <1>10, <1>11, <1>17, <1>18, StepOf DEF TypeInv

\* The bursts after a step that gives w another burst of as many packets.
LEMMA BurstFacts ==
    ASSUME TypeInv, NEW w \in Workers, NEW ps \in [DOMAIN pkts_burst[w] -> Packet]
    PROVE  /\ [pkts_burst EXCEPT ![w] = ps] \in [Workers -> Seq(Packet)]
           /\ [pkts_burst EXCEPT ![w] = ps][w] = ps
           /\ Len(ps) = Len(pkts_burst[w])
           /\ \A u \in Workers \ {w} : [pkts_burst EXCEPT ![w] = ps][u] = pkts_burst[u]
<1> DEFINE m == Len(pkts_burst[w])
<1>1. m \in Nat /\ DOMAIN pkts_burst[w] = 1 .. m BY DEF TypeInv
<1> HIDE DEF m
<1>2. ps \in Seq(Packet) /\ Len(ps) = m BY <1>1
<1> QED BY <1>2 DEF TypeInv, m

LEMMA RewriteKeeps == ASSUME IInv, NEW w \in Workers, Rewrite(w) PROVE IInv'
<1> USE DEF IInv
<1> DEFINE fs == frames[w]
           Rewritten == {n \in DOMAIN fs : mac_addrs[w][n] > 0}
           Mac(p) == mac_addrs[w][CHOOSE n \in DOMAIN fs : fs[n] = p]
           new(p) == IF p \in {fs[n] : n \in Rewritten}
                       THEN l2fwd_mac_updating(pkts_burst[w][p], Mac(p))
                       ELSE pkts_burst[w][p]
           ps == [p \in DOMAIN pkts_burst[w] |-> new(p)]
<1>1. /\ pc[w] = "rewrite" /\ pc' = [pc EXCEPT ![w] = "transmit"]
      /\ UNCHANGED <<mode, j, frames, mac_addrs, sent, table>>
  BY DEF Rewrite, Goto
<1>2. pkts_burst' = [pkts_burst EXCEPT ![w] = ps] BY DEF Rewrite
<1>3. /\ mode = "dramblast" /\ Untouched(w) /\ FramesMatch(w)
      /\ \A n \in DOMAIN fs : Good(Hash(w, fs[n]), mac_addrs[w][n])
  BY <1>1 DEF WorkerInv, DramblastInv
<1>4. \A n \in DOMAIN fs : mac_addrs[w][n] \in Nat
  <2>1. \A n \in DOMAIN fs : n \in 1 .. MaxBurst BY <1>3 DEF FramesMatch, TypeInv
  <2> QED BY <2>1 DEF TypeInv
<1>5. ASSUME NEW p \in DOMAIN pkts_burst[w]
      PROVE  new(p) \in Packet /\ RightIf(new(p), Full)
  <2>1. pkts_burst[w][p] \in Packet /\ pkts_burst[w][p].dst = Arrived
    BY <1>3 DEF TypeInv, Untouched
  <2>2. CASE ~ \E n \in DOMAIN fs : fs[n] = p
    <3>1. Hash(w, p) = 0 BY <1>3, <2>2 DEF FramesMatch
    <3>2. new(p) = pkts_burst[w][p] BY <2>2
    <3> HIDE DEF new
    <3> QED BY <1>3, <2>1, <3>1, <3>2 DEF RightIf, Hash
  <2>3. CASE \E n \in DOMAIN fs : fs[n] = p
    <3> DEFINE c == CHOOSE n \in DOMAIN fs : fs[n] = p
    <3>1. c \in DOMAIN fs /\ fs[c] = p BY <2>3
    <3>2. new(p) = IF p \in {fs[n] : n \in Rewritten}
                     THEN l2fwd_mac_updating(pkts_burst[w][p], mac_addrs[w][c])
                     ELSE pkts_burst[w][p]
      OBVIOUS
    <3> HIDE DEF c, new
    <3>3. \A n \in DOMAIN fs : fs[n] = p =>
              mac_addrs[w][n] \in Nat /\ Good(Hash(w, p), mac_addrs[w][n])
      BY <1>3, <1>4
    <3>4. Hash(w, p) # 0 /\ Hash(w, p) \in Keys
      BY <1>3, <2>1, <3>1, HashFacts DEF FramesMatch, Hash
    <3>5. Full \/ \A n \in DOMAIN fs : fs[n] = p => mac_addrs[w][n] = Backend[Hash(w, p)]
      BY <3>3 DEF Good
    <3>6. CASE p \in {fs[n] : n \in Rewritten}
      <4>1. CASE mac_addrs[w][c] # 0
        <5>1. new(p) = l2fwd_mac_updating(pkts_burst[w][p], mac_addrs[w][c])
          BY <3>2, <3>6
        <5>2. mac_addrs[w][c] \in Nat /\ Good(Hash(w, p), mac_addrs[w][c]) BY <3>1, <3>3
        <5> QED BY <1>3, <2>1, <3>4, <4>1, <5>1, <5>2, ApplyAnswer, UpdateFacts DEF Hash
      <4>2. CASE mac_addrs[w][c] = 0
        <5>1. Full BY <3>1, <3>4, <3>5, <4>2, BackendFacts
        <5>2. new(p) = l2fwd_mac_updating(pkts_burst[w][p], 0) BY <3>2, <3>6, <4>2
        <5>3. new(p) \in Packet /\ new(p).ip = pkts_burst[w][p].ip /\ new(p).dst = 0
          BY <2>1, <5>2, UpdateFacts
        <5> QED BY <1>3, <5>1, <5>3 DEF RightIf, Arrived
      <4> QED BY <4>1, <4>2
    <3>7. CASE p \notin {fs[n] : n \in Rewritten}
      <4>1. new(p) = pkts_burst[w][p] BY <3>2, <3>7
      <4>2. mac_addrs[w][c] = 0 BY <1>4, <3>1, <3>7
      <4>3. Good(Hash(w, p), 0) BY <3>1, <3>3, <4>2
      <4> QED BY <1>3, <2>1, <3>4, <4>1, <4>3, ApplyAnswer DEF Hash
    <3> QED BY <3>6, <3>7
  <2> QED BY <2>2, <2>3
<1> HIDE DEF new
<1>6. ps \in [DOMAIN pkts_burst[w] -> Packet]
      /\ \A n \in DOMAIN ps : RightIf(ps[n], Full)
  BY <1>5
<1> HIDE DEF ps
<1>7. /\ pkts_burst' \in [Workers -> Seq(Packet)] /\ pkts_burst'[w] = ps
      /\ Len(ps) = Len(pkts_burst[w])
      /\ \A u \in Workers \ {w} : pkts_burst'[u] = pkts_burst[u]
  BY <1>2, <1>6, BurstFacts
<1>8. /\ TableInv' /\ Full' = Full /\ batch' = batch /\ answer' = answer /\ AnswersGood(w)'
  BY <1>1, TableQuiet DEF WorkerInv
<1>9. TypeInv' BY <1>1, <1>7 DEF TypeInv
<1>10. pc'[w] = "transmit" BY <1>1 DEF TypeInv
<1>11. (\A n \in DOMAIN pkts_burst[w] : RightIf(pkts_burst[w][n], Full))'
  BY <1>1, <1>6, <1>7, <1>8 DEF RightIf
<1>12. WorkerInv(w)'
  BY <1>1, <1>7, <1>8, <1>10, <1>11 DEF WorkerInv, MaglevInv, DramblastInv
<1>13. SentInv' BY <1>1, SentFrame
<1> QED BY <1>1, <1>7, <1>8, <1>9, <1>12, <1>13, StepOf DEF TypeInv

LEMMA RewriteNoneKeeps == ASSUME IInv, NEW w \in Workers, RewriteNone(w) PROVE IInv'
<1> USE DEF IInv
<1> DEFINE new(n) == l2fwd_mac_updating(pkts_burst[w][n], NoneMac)
           ps == [n \in DOMAIN pkts_burst[w] |-> new(n)]
<1>1. /\ pc[w] = "none" /\ pc' = [pc EXCEPT ![w] = "transmit"]
      /\ UNCHANGED <<mode, j, frames, mac_addrs, sent, table>>
  BY DEF RewriteNone, Goto
<1>2. pkts_burst' = [pkts_burst EXCEPT ![w] = ps] BY DEF RewriteNone
<1>3. mode = "none" BY <1>1 DEF WorkerInv
<1>4. NoneMac \in Nat /\ NoneMac < MacValues OBVIOUS
<1>5. ASSUME NEW n \in DOMAIN pkts_burst[w] PROVE new(n) \in Packet /\ RightIf(new(n), Full)
  <2>1. pkts_burst[w][n] \in Packet BY DEF TypeInv
  <2>2. new(n) \in Packet /\ new(n).dst = NoneMac BY <1>4, <2>1, UpdateFacts
  <2> HIDE DEF new
  <2> QED BY <1>3, <2>2 DEF RightIf
<1> HIDE DEF new
<1>6. ps \in [DOMAIN pkts_burst[w] -> Packet]
      /\ \A n \in DOMAIN ps : RightIf(ps[n], Full)
  BY <1>5
<1> HIDE DEF ps
<1>7. /\ pkts_burst' \in [Workers -> Seq(Packet)] /\ pkts_burst'[w] = ps
      /\ Len(ps) = Len(pkts_burst[w])
      /\ \A u \in Workers \ {w} : pkts_burst'[u] = pkts_burst[u]
  BY <1>2, <1>6, BurstFacts
<1>8. /\ TableInv' /\ Full' = Full /\ batch' = batch /\ answer' = answer /\ AnswersGood(w)'
  BY <1>1, TableQuiet DEF WorkerInv
<1>9. TypeInv' BY <1>1, <1>7 DEF TypeInv
<1>10. pc'[w] = "transmit" BY <1>1 DEF TypeInv
<1>11. (\A n \in DOMAIN pkts_burst[w] : RightIf(pkts_burst[w][n], Full))'
  BY <1>1, <1>6, <1>7, <1>8 DEF RightIf
<1>12. WorkerInv(w)'
  BY <1>1, <1>7, <1>8, <1>10, <1>11 DEF WorkerInv, MaglevInv, DramblastInv
<1>13. SentInv' BY <1>1, SentFrame
<1> QED BY <1>1, <1>7, <1>8, <1>9, <1>12, <1>13, StepOf DEF TypeInv

LEMMA TransmitKeeps == ASSUME IInv, NEW w \in Workers, Transmit(w) PROVE IInv'
<1> USE DEF IInv
<1>1. /\ pc[w] = "transmit" /\ pc' = [pc EXCEPT ![w] = "poll"]
      /\ pkts_burst' = [pkts_burst EXCEPT ![w] = <<>>]
      /\ UNCHANGED <<mode, j, frames, mac_addrs, table>>
  BY DEF Transmit, Goto
<1>2. PICK nb_tx \in 0 .. Len(pkts_burst[w]) :
          sent' = sent \cup {[packet |-> pkts_burst[w][n], full |-> Full] : n \in 1 .. nb_tx}
  BY DEF Transmit, Full
<1>3. \A n \in 1 .. nb_tx : n \in DOMAIN pkts_burst[w] BY DEF TypeInv
<1>4. \A n \in 1 .. nb_tx : pkts_burst[w][n] \in Packet /\ RightIf(pkts_burst[w][n], Full)
  BY <1>1, <1>3 DEF TypeInv, WorkerInv
<1>5. \A s \in sent' : s.packet \in Packet /\ RightIf(s.packet, s.full)
  <2> SUFFICES ASSUME NEW s \in sent' PROVE s.packet \in Packet /\ RightIf(s.packet, s.full)
    OBVIOUS
  <2>1. CASE s \in sent BY <2>1 DEF SentInv
  <2>2. CASE s \notin sent
    <3>1. PICK n \in 1 .. nb_tx : s = [packet |-> pkts_burst[w][n], full |-> Full]
      BY <1>2, <2>2
    <3>2. s.packet = pkts_burst[w][n] /\ s.full = Full BY <3>1
    <3> QED BY <1>4, <3>2
  <2> QED BY <2>1, <2>2
<1>6. SentInv' BY <1>1, <1>5 DEF SentInv, RightIf
<1>7. /\ TableInv' /\ Full' = Full /\ batch' = batch /\ answer' = answer /\ AnswersGood(w)'
  BY <1>1, TableQuiet DEF WorkerInv
<1>8. TypeInv' BY <1>1 DEF TypeInv
<1>9. pc'[w] = "poll" /\ pkts_burst'[w] = <<>> BY <1>1 DEF TypeInv
<1>10. batch'[w] = <<>> BY <1>1, <1>7 DEF WorkerInv
<1>11. Len(pkts_burst'[w]) <= MaxBurst BY <1>9
<1>12. MaglevInv(w)' /\ DramblastInv(w)' BY <1>9 DEF MaglevInv, DramblastInv
<1>13. WorkerInv(w)' BY <1>7, <1>9, <1>10, <1>11, <1>12 DEF WorkerInv
<1> QED BY <1>1, <1>6, <1>7, <1>8, <1>13, StepOf DEF TypeInv

LEMMA AnswerKeeps == ASSUME IInv, NEW w \in Workers, Answer(w) PROVE IInv'
<1> USE DEF IInv
<1>1. PICK n \in Table!Unanswered(w) : Table!Bind(w, n) \/ Table!Lookup(w, n) \/ Table!Refuse(w, n)
  BY DEF Answer
<1>2. UNCHANGED <<mode, pc, pkts_burst, j, frames, mac_addrs, sent>> BY DEF Answer
<1> DEFINE k == batch[w][n]
<1>3. n \in DOMAIN batch[w] /\ batch[w] \in SeqsUpTo(Keys, MaxBurst)
  BY DEF Table!Unanswered, TableInv
<1>4. k \in Keys BY <1>3 DEF SeqsUpTo
<1>5. /\ batch' = batch /\ bound' \in [Keys -> Nat]
      /\ \A x \in Keys : bound'[x] \in {0, Backend[x]} /\ (bound[x] # 0 => bound'[x] # 0)
  BY <1>1, <1>4, BackendFacts DEF Table!Bind, Table!Lookup, Table!Refuse, TableInv
<1>6. Full => Full' BY <1>5, FullStays DEF TableInv
<1>7. PICK v : Table!Record(w, n, v) /\ (v = Backend[k] \/ (v = 0 /\ Full'))
  <2>1. CASE Table!Bind(w, n)
    <3>1. Table!Record(w, n, Backend[k]) BY <2>1 DEF Table!Bind
    <3> QED BY <3>1, Zenon
  <2>2. CASE Table!Lookup(w, n)
    <3>1. Table!Record(w, n, bound[k]) /\ bound[k] # 0 BY <2>2 DEF Table!Lookup
    <3>2. bound[k] = Backend[k] BY <1>4, <3>1 DEF TableInv
    <3>3. Table!Record(w, n, Backend[k]) BY <3>1, <3>2
    <3> QED BY <3>3, Zenon
  <2>3. CASE Table!Refuse(w, n)
    <3>1. Table!Record(w, n, 0) /\ Full BY <2>3, SameCardinality DEF Table!Refuse, Full
    <3> QED BY <1>6, <3>1
  <2> QED BY <1>1, <2>1, <2>2, <2>3
<1>8. answer' = [answer EXCEPT ![w] = [i \in DOMAIN answer[w] \cup {n} |->
                                           IF i = n THEN v ELSE answer[w][i]]]
  BY <1>7 DEF Table!Record
<1>9. /\ DOMAIN answer' = Workers
      /\ answer'[w] = [i \in DOMAIN answer[w] \cup {n} |-> IF i = n THEN v ELSE answer[w][i]]
      /\ \A u \in Workers \ {w} : answer'[u] = answer[u]
  BY <1>8 DEF TableInv
<1>10. TableInv' BY <1>5, <1>9 DEF TableInv
<1>11. \A x, y : Good(x, y) => Good(x, y)' BY <1>6 DEF Good
<1>12. AnswersGood(w)'
  BY <1>3, <1>5, <1>7, <1>9, <1>11 DEF WorkerInv, AnswersGood, Good
<1>13. \A p : RightIf(p, Full) => RightIf(p, Full)' BY <1>2, <1>6 DEF RightIf
<1>14. MaglevInv(w)' BY <1>2, <1>5, <1>13 DEF WorkerInv, MaglevInv, Hash
<1>15. DramblastInv(w)'
  BY <1>2, <1>5, <1>11 DEF WorkerInv, DramblastInv, Untouched, FramesMatch, Hash
<1>16. WorkerInv(w)' BY <1>2, <1>5, <1>12, <1>13, <1>14, <1>15 DEF WorkerInv
<1>17. TypeInv' /\ SentInv' BY <1>2, SentFrame DEF TypeInv
<1> QED BY <1>2, <1>5, <1>6, <1>9, <1>10, <1>16, <1>17, StepOf

-----------------------------------------------------------------------------
(* Theorems                                                                 *)

LEMMA InitInv == Init => IInv
<1> SUFFICES ASSUME Init PROVE IInv OBVIOUS
<1>1. TypeInv
  <2>1. mac_addrs \in [Workers -> [1 .. MaxBurst -> Nat]]
    <3>1. Garbage \subseteq Nat OBVIOUS
    <3>2. mac_addrs \in [Workers -> [1 .. MaxBurst -> Garbage]] BY DEF Init
    <3> QED BY <3>1, <3>2
  <2> QED BY <2>1 DEF Init, TypeInv
<1>2. TableInv BY DEF Init, TableInv, Table!Init
<1>3. ASSUME NEW w \in Workers PROVE WorkerInv(w)
  <2>1. /\ pc[w] = "poll" /\ pkts_burst[w] = <<>>
        /\ batch[w] = <<>> /\ answer[w] = <<>>
    BY DEF Init, Table!Init
  <2> QED BY <2>1 DEF WorkerInv, AnswersGood, MaglevInv, DramblastInv
<1>4. SentInv BY DEF Init, SentInv
<1> QED BY <1>1, <1>2, <1>3, <1>4 DEF IInv

LEMMA NextInv == IInv /\ [Next]_vars => IInv'
<1> SUFFICES ASSUME IInv, [Next]_vars PROVE IInv' OBVIOUS
<1>1. CASE Next
  <2>1. PICK w \in Workers : Poll(w) \/ Work(w) BY <1>1 DEF Next
  <2> QED
    BY <2>1, PollKeeps, MaglevFrameKeeps, MaglevReturnKeeps, MaglevDoneKeeps,
       DramblastFramesKeeps, DramblastReturnKeeps, RewriteKeeps, RewriteNoneKeeps,
       TransmitKeeps, AnswerKeeps
    DEF Work
<1>2. CASE UNCHANGED vars
  <2>1. TypeInv' /\ SentInv' BY <1>2, SentFrame DEF vars, IInv, TypeInv
  <2>2. TableInv' /\ Full' = Full BY <1>2, TableQuiet DEF vars, IInv
  <2>3. \A w \in Workers : WorkerInv(w)' BY <1>2, <2>2, WorkerFrame DEF vars, table, IInv
  <2> QED BY <2>1, <2>2, <2>3 DEF IInv
<1> QED BY <1>1, <1>2

LEMMA Invariant == Spec => []IInv
BY InitInv, NextInv, PTL DEF Spec

\* Every packet leaves main.c's loop with the backend of its own flow hash, or
\* with the address it came with if it has no valid hash or the table was full.
THEOREM PacketsAreRewrittenRight == Spec => []RewrittenRight
<1>1. IInv => RewrittenRight BY DEF IInv, SentInv, RightIf, RewrittenRight
<1> QED BY <1>1, Invariant, PTL

\* The packets of a connection have the same flow hash, if a valid one.
LEMMA SameHash ==
    ASSUME NEW f \in Frames, NEW g \in Frames, f.conn = g.conn,
           flowhash(f.ip) # 0, flowhash(g.ip) # 0
    PROVE  flowhash(f.ip) = flowhash(g.ip)
<1>1. f.ip[3].proto \in {6, 17} /\ g.ip[3].proto \in {6, 17} BY DEF flowhash
<1>2. /\ f.ip[4] = g.ip[4] /\ f.ip[5] = g.ip[5] /\ f.ip[3].proto = g.ip[3].proto
      /\ f.ip[f.ip[1].ihl + 1] = g.ip[g.ip[1].ihl + 1]
  BY <1>1, ConnectionAssumption
<1> QED BY <1>2 DEF flowhash, FirstAfterHeader

\* Packets of one connection that are sent to a backend are sent to the same
\* one, whichever lcore, burst and table slot they met.
THEOREM ConnectionsAlwaysStick == Spec => []ConnectionsStick
<1>1. IInv => ConnectionsStick
  <2> SUFFICES ASSUME IInv, NEW s \in sent, NEW r \in sent,
                      s.packet.conn = r.packet.conn,
                      s.packet.dst # Arrived, r.packet.dst # Arrived
               PROVE  s.packet.dst = r.packet.dst
    BY DEF ConnectionsStick
  <2>1. /\ s.packet \in Packet /\ r.packet \in Packet
        /\ RightIf(s.packet, s.full) /\ RightIf(r.packet, r.full)
    BY DEF IInv, SentInv
  <2>2. CASE mode = "none" BY <2>1, <2>2 DEF RightIf
  <2>3. CASE mode # "none"
    <3>1. /\ flowhash(s.packet.ip) # 0 /\ s.packet.dst = Backend[flowhash(s.packet.ip)]
          /\ flowhash(r.packet.ip) # 0 /\ r.packet.dst = Backend[flowhash(r.packet.ip)]
      BY <2>1, <2>3 DEF RightIf
    <3>2. PICK f \in Frames : s.packet.conn = f.conn /\ s.packet.ip = f.ip
      BY <2>1, HashFacts
    <3>3. PICK g \in Frames : r.packet.conn = g.conn /\ r.packet.ip = g.ip
      BY <2>1, HashFacts
    <3>4. flowhash(f.ip) = flowhash(g.ip) BY <3>1, <3>2, <3>3, SameHash
    <3> QED BY <3>1, <3>2, <3>3, <3>4
  <2> QED BY <2>2, <2>3
<1> QED BY <1>1, Invariant, PTL

=============================================================================
