---------------------------- MODULE PktgenProofs ----------------------------
(***************************************************************************)
(* Proofs about the packet generator, for any workers, ports, burst, pool  *)
(* and ring sizes and any number of packets.  The theorems are about the   *)
(* whole program (MainSpec), which is a run (Spec) behind a setup.         *)
(***************************************************************************)
EXTENDS PktgenMain, WellFoundedInduction, TLAPS

-----------------------------------------------------------------------------
(* The inductive invariant of a run                                         *)

Packets == Workers \X Nat
Labels == {"wait", "head", "burst", "tx", "count", "publish", "flush", "finished"}

TypeInv ==
    /\ pool_size \in Nat
    /\ main_pc \in {"links", "head", "sleep", "report", "join", "close", "exit"}
    /\ scan \in SUBSET Workers /\ open \in SUBSET Ports
    /\ pc \in [Workers -> Labels]
    /\ bufs \in [Workers -> Seq(Packets)] /\ ring \in [Workers -> Seq(Packets)]
    /\ local_pkts \in [Workers -> Nat] /\ g_stats \in [Workers -> Nat]
    /\ avail \in [Workers -> Nat]
    /\ prev_pkts \in [Workers -> Nat] /\ reported \in [Workers -> Nat]
    /\ accepted \in [TxLcores -> Seq(Nat)]

\* The mbufs of worker w.
BufInv(w) ==
    /\ avail[w] + Len(bufs[w]) + Len(ring[w]) = pool_size
    /\ pc[w] \notin {"tx", "count"} => bufs[w] = <<>>
    /\ w \in TxLcores => Len(ring[w]) <= TxRing

\* The burst in the hand of a TX worker continues the ids the port has taken.
IdInv(w) ==
    /\ pc[w] = "tx" => w \in TxLcores /\ Len(bufs[w]) = Burst
    /\ pc[w] = "tx" => \A n \in 1 .. Burst : bufs[w][n][2] = local_pkts[w] + n - 1
    /\ pc[w] = "count" => w \in RxLcores
    /\ w \in TxLcores => Len(accepted[w]) = local_pkts[w]
    /\ w \in TxLcores => \A n \in DOMAIN accepted[w] : accepted[w][n] = n - 1

\* Read, published and counted packets.
StatInv(w) ==
    /\ reported[w] = prev_pkts[w]
    /\ prev_pkts[w] <= g_stats[w] /\ g_stats[w] <= local_pkts[w]
    /\ pc[w] = "finished" => g_stats[w] = local_pkts[w]

\* Ports are closed when every worker has ended.
MainInv ==
    /\ main_pc = "links" => \A w \in Workers : pc[w] = "wait"
    /\ main_pc \in {"close", "exit"} => \A w \in Workers : pc[w] = "finished"
    /\ main_pc \notin {"close", "exit"} => open = Ports

WorkerInv(w) == BufInv(w) /\ IdInv(w) /\ StatInv(w)

IInv == TypeInv /\ MainInv /\ \A w \in Workers : WorkerInv(w)

-----------------------------------------------------------------------------
(* Constants and sequences                                                  *)

LEMMA Constants ==
    /\ Burst \in Nat \ {0} /\ PoolSizes \subseteq Nat /\ TxRing \in Nat /\ RxRing \in Nat
    /\ TxLcores \subseteq Workers /\ RxLcores \subseteq Workers
    /\ \A w \in TxLcores : w \notin RxLcores
    /\ Workers \subseteq Nat /\ Ports \subseteq Nat
    /\ \A w \in Workers : PortOf[w] \in Ports
BY PktgenAssumption DEF Workers, Ports

\* A set of numbers has a least element, which Earliest picks.
LEMMA EarliestIn ==
    ASSUME NEW S \in SUBSET Nat, S # {}
    PROVE  Earliest(S) \in S
<1>1. PICK x \in S : \A y \in S : ~(<<y, x>> \in OpToRel(<, Nat))
  BY WFMin, NatLessThanWellFounded
<1>2. \A y \in S : ~(y < x) BY <1>1 DEF OpToRel
<1>3. \A y \in S : x <= y BY <1>2
<1> QED BY <1>3 DEF Earliest

\* Taking the first n elements of a sequence.
LEMMA Cut ==
    ASSUME NEW S, NEW s \in Seq(S), NEW n \in 0 .. Len(s)
    PROVE  /\ SubSeq(s, 1, n) \in Seq(S) /\ Len(SubSeq(s, 1, n)) = n
           /\ SubSeq(s, n + 1, Len(s)) \in Seq(S)
           /\ Len(SubSeq(s, n + 1, Len(s))) = Len(s) - n
OBVIOUS

\* Moving n mbufs, or one, from here to there.
LEMMA Sums ==
    /\ \A a, b, q, n, p \in Nat :
          n <= b /\ a + b + q = p => a + (b - n) \in Nat /\ a + (b - n) + (q + n) = p
    /\ \A a, b, r, c, q, p, m \in Nat :
          a + b + r = p /\ c + q = a + r => c + b + q = p /\ (q <= r /\ r <= m => q <= m)
    /\ \A a, n \in Nat : (a + 1) + (n - 1) = a + n /\ n - 1 <= n
OBVIOUS

-----------------------------------------------------------------------------
(* Steps of a worker                                                        *)

\* Worker w moves to label l: b is what it has in hand, a its free mbufs, r
\* its ring, k its counter, g the published one and t what the port took.
Moves(w, l, b, a, r, k, g) ==
    /\ pc[w] \notin {"wait", "finished"}
    /\ l \in Labels \ {"wait"}
    /\ b \in Seq(Packets) /\ r \in Seq(Packets)
    /\ a \in Nat /\ k \in Nat /\ g \in Nat
    /\ a + Len(b) + Len(r) = pool_size
    /\ l \notin {"tx", "count"} => b = <<>>
    /\ w \in TxLcores => Len(r) <= TxRing
    /\ l = "tx" => w \in TxLcores /\ Len(b) = Burst
    /\ l = "tx" => \A n \in 1 .. Burst : b[n][2] = k + n - 1
    /\ l = "count" => w \in RxLcores
    /\ g_stats[w] <= g /\ g <= k
    /\ l = "finished" => g = k
    /\ pc' = [pc EXCEPT ![w] = l] /\ bufs' = [bufs EXCEPT ![w] = b]
    /\ avail' = [avail EXCEPT ![w] = a] /\ ring' = [ring EXCEPT ![w] = r]
    /\ local_pkts' = [local_pkts EXCEPT ![w] = k] /\ g_stats' = [g_stats EXCEPT ![w] = g]
    /\ accepted' \in [TxLcores -> Seq(Nat)]
    /\ \A v \in TxLcores \ {w} : accepted'[v] = accepted[v]
    /\ w \in TxLcores => Len(accepted'[w]) = k
    /\ w \in TxLcores => \A n \in DOMAIN accepted'[w] : accepted'[w][n] = n - 1
    /\ UNCHANGED <<force_quit, mainVars>>

\* Such a step keeps the invariant.
LEMMA WorkerStep ==
    ASSUME IInv, NEW w \in Workers, NEW l, NEW b, NEW a, NEW r, NEW k, NEW g,
           Moves(w, l, b, a, r, k, g)
    PROVE  IInv'
<1>1. TypeInv /\ MainInv /\ \A v \in Workers : WorkerInv(v) BY DEF IInv
<1>2. UNCHANGED <<pool_size, main_pc, scan, prev_pkts, open, reported>>
  BY DEF Moves, mainVars
<1>3. TypeInv' BY <1>1, <1>2 DEF TypeInv, Moves
<1>4. MainInv' BY <1>1, <1>2 DEF MainInv, Moves, TypeInv
<1>5. ASSUME NEW v \in Workers PROVE WorkerInv(v)'
  <2>1. CASE v = w
    <3>1. /\ pc'[w] = l /\ bufs'[w] = b /\ avail'[w] = a /\ ring'[w] = r
          /\ local_pkts'[w] = k /\ g_stats'[w] = g
      BY <1>1 DEF Moves, TypeInv
    <3>2. BufInv(w)' BY <1>2, <3>1 DEF BufInv, Moves
    <3>3. IdInv(w)' BY <3>1 DEF IdInv, Moves
    <3>4. StatInv(w)'
      <4>1. StatInv(w) /\ prev_pkts[w] \in Nat /\ g_stats[w] \in Nat /\ g \in Nat
        BY <1>1 DEF WorkerInv, TypeInv, Moves
      <4> QED BY <1>2, <3>1, <4>1 DEF StatInv, Moves
    <3> QED BY <2>1, <3>2, <3>3, <3>4 DEF WorkerInv
  <2>2. CASE v # w
    <3>1. /\ pc'[v] = pc[v] /\ bufs'[v] = bufs[v] /\ avail'[v] = avail[v]
          /\ ring'[v] = ring[v] /\ local_pkts'[v] = local_pkts[v]
          /\ g_stats'[v] = g_stats[v] /\ (v \in TxLcores => accepted'[v] = accepted[v])
      BY <1>1, <2>2 DEF Moves, TypeInv
    <3>2. BufInv(v) /\ IdInv(v) /\ StatInv(v) BY <1>1 DEF WorkerInv
    <3>3. BufInv(v)' BY <1>2, <3>1, <3>2 DEF BufInv
    <3>4. IdInv(v)' BY <3>1, <3>2 DEF IdInv
    <3>5. StatInv(v)' BY <1>2, <3>1, <3>2 DEF StatInv
    <3> QED BY <3>3, <3>4, <3>5 DEF WorkerInv
  <2> QED BY <2>1, <2>2
<1> QED BY <1>3, <1>4, <1>5 DEF IInv

\* What the invariant says of a worker, and writing back what is there.
LEMMA Same ==
    ASSUME IInv, NEW w \in Workers
    PROVE  /\ pc[w] \in Labels /\ bufs[w] \in Seq(Packets) /\ ring[w] \in Seq(Packets)
           /\ local_pkts[w] \in Nat /\ g_stats[w] \in Nat /\ avail[w] \in Nat
           /\ pool_size \in Nat
           /\ bufs = [bufs EXCEPT ![w] = bufs[w]] /\ avail = [avail EXCEPT ![w] = avail[w]]
           /\ ring = [ring EXCEPT ![w] = ring[w]]
           /\ local_pkts = [local_pkts EXCEPT ![w] = local_pkts[w]]
           /\ g_stats = [g_stats EXCEPT ![w] = g_stats[w]]
           /\ accepted \in [TxLcores -> Seq(Nat)]
           /\ BufInv(w) /\ IdInv(w) /\ StatInv(w)
BY DEF IInv, WorkerInv, TypeInv

\* Steps that change the label and the published counter at most.
LEMMA LabelKeeps ==
    ASSUME IInv, NEW w \in Workers, NEW l \in Labels \ {"wait", "tx", "count"},
           pc[w] \notin {"wait", "finished", "tx", "count"},
           NEW g \in {g_stats[w], local_pkts[w]},
           l = "finished" => g = local_pkts[w],
           pc' = [pc EXCEPT ![w] = l], g_stats' = [g_stats EXCEPT ![w] = g],
           UNCHANGED <<force_quit, mainVars, bufs, local_pkts, avail, ring, accepted>>
    PROVE  IInv'
<1>1. g \in Nat /\ g_stats[w] <= g /\ g <= local_pkts[w] BY Same DEF StatInv
<1>2. Moves(w, l, bufs[w], avail[w], ring[w], local_pkts[w], g)
  BY <1>1, Same DEF Moves, BufInv, IdInv
<1> QED BY <1>2, WorkerStep

LEMMA IdleSteps ==
    ASSUME IInv, NEW w \in Workers,
           LoopHead(w) \/ NotYet(w) \/ AllocFail(w) \/ PollEmpty(w)
    PROVE  IInv'
<1>1. PICK l \in {"flush", "burst", "head"} : pc' = [pc EXCEPT ![w] = l]
  BY DEF LoopHead, NotYet, AllocFail, PollEmpty
<1>2. l \in Labels \ {"wait", "tx", "count", "finished"} BY DEF Labels
<1>3. /\ pc[w] \notin {"wait", "finished", "tx", "count"}
      /\ UNCHANGED <<force_quit, mainVars, bufs, local_pkts, g_stats, avail, ring, accepted>>
  BY DEF LoopHead, NotYet, AllocFail, PollEmpty
<1>4. g_stats' = [g_stats EXCEPT ![w] = g_stats[w]] BY <1>3, Same
<1> QED BY <1>1, <1>2, <1>3, <1>4, LabelKeeps

LEMMA PublishSteps ==
    ASSUME IInv, NEW w \in Workers, Publish(w) \/ Flush(w)
    PROVE  IInv'
<1>1. PICK l \in {"head", "finished"} : pc' = [pc EXCEPT ![w] = l]
  BY DEF Publish, Flush
<1>2. l \in Labels \ {"wait", "tx", "count"} BY DEF Labels
<1>3. /\ pc[w] \notin {"wait", "finished", "tx", "count"}
      /\ g_stats' = [g_stats EXCEPT ![w] = local_pkts[w]]
      /\ UNCHANGED <<force_quit, mainVars, bufs, local_pkts, avail, ring, accepted>>
  BY DEF Publish, Flush
<1> QED BY <1>1, <1>2, <1>3, LabelKeeps

LEMMA BuildStep ==
    ASSUME IInv, NEW w \in Workers, Build(w)
    PROVE  IInv'
<1> DEFINE b == [n \in 1 .. Burst |-> <<w, local_pkts[w] + n - 1>>]
<1>1. /\ w \in TxLcores /\ pc[w] = "burst" /\ avail[w] >= Burst
      /\ avail' = [avail EXCEPT ![w] = avail[w] - Burst]
      /\ bufs' = [bufs EXCEPT ![w] = b] /\ pc' = [pc EXCEPT ![w] = "tx"]
      /\ UNCHANGED <<force_quit, mainVars, local_pkts, g_stats, ring, accepted>>
  BY DEF Build
<1>2. Burst \in Nat /\ local_pkts[w] \in Nat /\ avail[w] \in Nat BY Constants, Same
<1>3. b \in Seq(Packets) /\ Len(b) = Burst
  <2>1. \A n \in 1 .. Burst : <<w, local_pkts[w] + n - 1>> \in Packets
    BY <1>2 DEF Packets
  <2>2. b \in [1 .. Burst -> Packets] BY <2>1
  <2> HIDE DEF b
  <2> QED BY <1>2, <2>2
<1>4. \A n \in 1 .. Burst : b[n][2] = local_pkts[w] + n - 1 OBVIOUS
<1>5. Len(bufs[w]) = 0
  <2>1. bufs[w] = <<>> BY <1>1, Same DEF BufInv
  <2> QED BY <2>1
<1>6. avail[w] - Burst \in Nat /\ (avail[w] - Burst) + Burst + Len(ring[w]) = pool_size
  BY <1>1, <1>2, <1>5, Same DEF BufInv
<1> HIDE DEF b
<1>7. "tx" \in Labels \ {"wait"} BY DEF Labels
<1>8. g_stats[w] <= g_stats[w] /\ g_stats[w] <= local_pkts[w] BY Same DEF StatInv
<1>9. Moves(w, "tx", b, avail[w] - Burst, ring[w], local_pkts[w], g_stats[w])
  BY <1>1, <1>3, <1>4, <1>6, <1>7, <1>8, Same DEF Moves, BufInv, IdInv
<1> QED BY <1>9, WorkerStep

\* The ids that the port takes continue the ones it has taken.
LEMMA IdsContinue ==
    ASSUME NEW s \in Seq(Nat), \A j \in DOMAIN s : s[j] = j - 1,
           NEW n \in Nat, NEW t, t = [j \in 1 .. n |-> Len(s) + j - 1]
    PROVE  /\ s \o t \in Seq(Nat) /\ Len(s \o t) = Len(s) + n
           /\ \A j \in DOMAIN (s \o t) : (s \o t)[j] = j - 1
<1>1. t \in Seq(Nat) /\ Len(t) = n
  <2>1. \A j \in 1 .. n : Len(s) + j - 1 \in Nat OBVIOUS
  <2>2. t \in [1 .. n -> Nat] BY <2>1
  <2> QED BY <2>2
<1>2. s \o t \in Seq(Nat) /\ Len(s \o t) = Len(s) + n BY <1>1
<1>3. ASSUME NEW j \in 1 .. Len(s) + n PROVE (s \o t)[j] = j - 1
  <2>1. CASE j <= Len(s)
    <3>1. j \in DOMAIN s /\ (s \o t)[j] = s[j] BY <1>1, <2>1
    <3> QED BY <3>1
  <2>2. CASE ~(j <= Len(s))
    <3>1. j - Len(s) \in 1 .. n /\ (s \o t)[j] = t[j - Len(s)] BY <1>1, <2>2
    <3>2. t[j - Len(s)] = Len(s) + (j - Len(s)) - 1 BY <3>1
    <3> QED BY <3>1, <3>2
  <2> QED BY <2>1, <2>2
<1> QED BY <1>2, <1>3

LEMMA TransmitStep ==
    ASSUME IInv, NEW w \in Workers, Transmit(w)
    PROVE  IInv'
<1>1. w \in TxLcores /\ pc[w] = "tx" BY DEF Transmit
<1>2. PICK n \in NbTx(w) :
         /\ TxBurst(w, n)
         /\ avail' = [avail EXCEPT ![w] = avail[w] + (Burst - n)]
         /\ local_pkts' = [local_pkts EXCEPT ![w] = local_pkts[w] + n]
  BY DEF Transmit
<1>3. n \in 0 .. Burst /\ Len(ring[w]) + n <= TxRing BY <1>2 DEF NbTx
<1>4. /\ Len(bufs[w]) = Burst /\ Burst \in Nat /\ Len(ring[w]) \in Nat
      /\ \A j \in 1 .. Burst : bufs[w][j][2] = local_pkts[w] + j - 1
  BY <1>1, Same, Constants DEF IdInv
<1> DEFINE r == ring[w] \o SubSeq(bufs[w], 1, n)
           t == [j \in 1 .. n |-> bufs[w][j][2]]
<1>5. r \in Seq(Packets) /\ Len(r) = Len(ring[w]) + n
  <2>1. SubSeq(bufs[w], 1, n) \in Seq(Packets) /\ Len(SubSeq(bufs[w], 1, n)) = n
    BY <1>3, <1>4, Same, Cut
  <2> QED BY <2>1, Same
<1>6. /\ accepted[w] \in Seq(Nat) /\ Len(accepted[w]) = local_pkts[w]
      /\ \A j \in DOMAIN accepted[w] : accepted[w][j] = j - 1
  BY <1>1, Same DEF IdInv
<1>7. t = [j \in 1 .. n |-> Len(accepted[w]) + j - 1]
  <2>1. \A j \in 1 .. n : bufs[w][j][2] = Len(accepted[w]) + j - 1 BY <1>3, <1>4, <1>6
  <2> QED BY <2>1
<1>8. ring' = [ring EXCEPT ![w] = r] /\ accepted' = [accepted EXCEPT ![w] = accepted[w] \o t]
  BY <1>2 DEF TxBurst
<1> HIDE DEF r, t
<1>9. /\ accepted[w] \o t \in Seq(Nat) /\ Len(accepted[w] \o t) = local_pkts[w] + n
      /\ \A j \in DOMAIN (accepted[w] \o t) : (accepted[w] \o t)[j] = j - 1
  <2>1. n \in Nat BY <1>3, <1>4
  <2>2. PICK s \in Seq(Nat) : s = accepted[w] BY <1>6
  <2>3. \A j \in DOMAIN s : s[j] = j - 1 BY <1>6, <2>2
  <2>4. t = [j \in 1 .. n |-> Len(s) + j - 1] BY <1>7, <2>2
  <2>5. /\ s \o t \in Seq(Nat) /\ Len(s \o t) = Len(s) + n
        /\ \A j \in DOMAIN (s \o t) : (s \o t)[j] = j - 1
    BY <2>1, <2>3, <2>4, IdsContinue
  <2> QED BY <1>6, <2>2, <2>5
<1>10. /\ accepted' \in [TxLcores -> Seq(Nat)] /\ accepted'[w] = accepted[w] \o t
       /\ \A v \in TxLcores \ {w} : accepted'[v] = accepted[v]
  BY <1>1, <1>8, <1>9, Same
<1>11. /\ bufs' = [bufs EXCEPT ![w] = <<>>] /\ pc' = [pc EXCEPT ![w] = "publish"]
       /\ UNCHANGED <<force_quit, mainVars, g_stats>>
  BY DEF Transmit
<1>12. avail[w] + (Burst - n) \in Nat /\ avail[w] + (Burst - n) + Len(r) = pool_size
  <2>1. avail[w] + Burst + Len(ring[w]) = pool_size BY <1>4, Same DEF BufInv
  <2>2. /\ avail[w] \in Nat /\ Len(ring[w]) \in Nat /\ pool_size \in Nat
        /\ n \in Nat /\ n <= Burst
    BY <1>3, <1>4, Same
  <2> QED BY <1>4, <1>5, <2>1, <2>2, Sums
<1>13. local_pkts[w] + n \in Nat /\ g_stats[w] <= g_stats[w] /\ g_stats[w] <= local_pkts[w] + n
  BY <1>3, <1>4, Same DEF StatInv
<1>14. "publish" \in Labels \ {"wait"} /\ <<>> \in Seq(Packets) /\ Len(<<>>) = 0
  BY DEF Labels
<1>15. Len(r) <= TxRing BY <1>3, <1>5
<1>16. avail[w] + (Burst - n) + Len(<<>>) + Len(r) = pool_size
  BY <1>4, <1>3, <1>5, <1>12, <1>14, Same
<1>17. Moves(w, "publish", <<>>, avail[w] + (Burst - n), r, local_pkts[w] + n, g_stats[w])
  BY <1>1, <1>2, <1>5, <1>8, <1>9, <1>10, <1>11, <1>12, <1>13, <1>14, <1>15, <1>16, Same
  DEF Moves
<1> QED BY <1>17, WorkerStep

LEMMA PollStep ==
    ASSUME IInv, NEW w \in Workers, Poll(w)
    PROVE  IInv'
<1>1. w \in RxLcores /\ w \notin TxLcores /\ pc[w] = "burst" BY Constants DEF Poll
<1>2. PICK n \in 1 .. Burst :
         /\ n <= Len(ring[w])
         /\ bufs' = [bufs EXCEPT ![w] = SubSeq(ring[w], 1, n)]
         /\ ring' = [ring EXCEPT ![w] = SubSeq(ring[w], n + 1, Len(ring[w]))]
  BY DEF Poll
<1> DEFINE b == SubSeq(ring[w], 1, n)
           r == SubSeq(ring[w], n + 1, Len(ring[w]))
<1>3. n \in 0 .. Len(ring[w]) /\ n \in Nat BY <1>2, Constants, Same
<1>4. /\ b \in Seq(Packets) /\ Len(b) = n /\ r \in Seq(Packets)
      /\ Len(r) = Len(ring[w]) - n
  BY <1>3, Same, Cut
<1>5. Len(bufs[w]) = 0
  <2>1. bufs[w] = <<>> BY <1>1, Same DEF BufInv
  <2> QED BY <2>1
<1>6. avail[w] + Len(b) + Len(r) = pool_size
  <2>1. avail[w] + 0 + Len(ring[w]) = pool_size BY <1>5, Same DEF BufInv
  <2>2. avail[w] \in Nat /\ Len(ring[w]) \in Nat BY Same
  <2> HIDE DEF b, r
  <2> QED BY <1>3, <1>4, <2>1, <2>2
<1>7. /\ pc' = [pc EXCEPT ![w] = "count"]
      /\ UNCHANGED <<force_quit, mainVars, local_pkts, g_stats, avail, accepted>>
  BY DEF Poll
<1>8. g_stats[w] <= g_stats[w] /\ g_stats[w] <= local_pkts[w] BY Same DEF StatInv
<1>9. "count" \in Labels \ {"wait"} BY DEF Labels
<1>10. bufs' = [bufs EXCEPT ![w] = b] /\ ring' = [ring EXCEPT ![w] = r] BY <1>2
<1> HIDE DEF b, r
<1>11. Moves(w, "count", b, avail[w], r, local_pkts[w], g_stats[w])
  BY <1>1, <1>4, <1>6, <1>7, <1>8, <1>9, <1>10, Same DEF Moves
<1> QED BY <1>11, WorkerStep

LEMMA CountStep ==
    ASSUME IInv, NEW w \in Workers, Count(w)
    PROVE  IInv'
<1> DEFINE n == Len(bufs[w])
<1>1. w \in RxLcores /\ w \notin TxLcores /\ pc[w] = "count"
  BY Same, Constants DEF Count, IdInv
<1>2. n \in Nat BY Same
<1>3. /\ avail' = [avail EXCEPT ![w] = avail[w] + n]
      /\ local_pkts' = [local_pkts EXCEPT ![w] = local_pkts[w] + n]
      /\ bufs' = [bufs EXCEPT ![w] = <<>>] /\ pc' = [pc EXCEPT ![w] = "publish"]
      /\ UNCHANGED <<force_quit, mainVars, g_stats, ring, accepted>>
  BY DEF Count
<1>4. avail[w] + n + Len(ring[w]) = pool_size BY Same DEF BufInv
<1> HIDE DEF n
<1>5. <<>> \in Seq(Packets) /\ Len(<<>>) = 0 OBVIOUS
<1>6. avail[w] + n \in Nat /\ (avail[w] + n) + Len(<<>>) + Len(ring[w]) = pool_size
  BY <1>2, <1>4, <1>5, Same
<1>7. /\ local_pkts[w] + n \in Nat /\ g_stats[w] <= g_stats[w]
      /\ g_stats[w] <= local_pkts[w] + n
  BY <1>2, Same DEF StatInv
<1>8. "publish" \in Labels \ {"wait"} BY DEF Labels
<1>9. Moves(w, "publish", <<>>, avail[w] + n, ring[w], local_pkts[w] + n, g_stats[w])
  BY <1>1, <1>3, <1>5, <1>6, <1>7, <1>8, Same DEF Moves
<1> QED BY <1>9, WorkerStep

-----------------------------------------------------------------------------
(* The wire, the main lcore and the signal                                  *)

\* Mbufs that move between the rings and the pools of the workers.
Rearranged ==
    /\ ring' \in [Workers -> Seq(Packets)] /\ avail' \in [Workers -> Nat]
    /\ \A v \in Workers : /\ avail'[v] + Len(ring'[v]) = avail[v] + Len(ring[v])
                          /\ v \in TxLcores => Len(ring'[v]) <= Len(ring[v])

LEMMA RearrangedKeeps ==
    ASSUME IInv, Rearranged, NEW v \in Workers,
           UNCHANGED <<pool_size, prev_pkts, reported, pc, bufs, local_pkts, g_stats, accepted>>
    PROVE  WorkerInv(v)'
<1>1. BufInv(v) /\ IdInv(v) /\ StatInv(v) /\ TypeInv BY DEF IInv, WorkerInv
<1>2. PICK a \in Nat, b \in Nat, r \in Nat, c \in Nat, q \in Nat :
         /\ a = avail[v] /\ b = Len(bufs[v]) /\ r = Len(ring[v])
         /\ c = avail'[v] /\ q = Len(ring'[v])
  BY <1>1 DEF TypeInv, Rearranged
<1>3. c + q = a + r /\ (v \in TxLcores => q <= r) BY <1>2 DEF Rearranged
<1>4. a + b + r = pool_size /\ (v \in TxLcores => r <= TxRing) BY <1>1, <1>2 DEF BufInv
<1>5. c + b + q = pool_size /\ (v \in TxLcores => q <= TxRing)
  <2>1. TxRing \in Nat /\ pool_size \in Nat BY <1>1, Constants DEF TypeInv
  <2> QED BY <1>3, <1>4, <2>1, Sums
<1>6. BufInv(v)' BY <1>1, <1>2, <1>5 DEF BufInv
<1>7. IdInv(v)' BY <1>1 DEF IdInv
<1>8. StatInv(v)' BY <1>1 DEF StatInv
<1> QED BY <1>6, <1>7, <1>8 DEF WorkerInv

LEMMA WireStep ==
    ASSUME IInv, NEW w \in TxLcores, Wire(w)
    PROVE  IInv'
<1>1. TypeInv /\ MainInv /\ (\A v \in Workers : WorkerInv(v)) /\ w \in Workers
  BY Constants DEF IInv
<1>2. UNCHANGED <<force_quit, pool_size, main_pc, scan, prev_pkts, open, reported,
                  pc, bufs, local_pkts, g_stats, accepted>>
  BY DEF Wire, mainVars
<1>3. ring[w] \in Seq(Packets) /\ ring[w] # <<>> /\ avail[w] \in Nat
  BY <1>1, Same DEF Wire
<1>4. /\ Tail(ring[w]) \in Seq(Packets) /\ Len(Tail(ring[w])) = Len(ring[w]) - 1
      /\ Head(ring[w]) \in Packets /\ Len(ring[w]) \in Nat
  BY <1>3
<1>5. SUFFICES Rearranged
  <2>1. Rearranged => TypeInv' BY <1>1, <1>2 DEF TypeInv, Rearranged
  <2>2. MainInv' BY <1>1, <1>2 DEF MainInv
  <2>3. Rearranged => \A v \in Workers : WorkerInv(v)' BY <1>2, RearrangedKeeps
  <2> QED BY <2>1, <2>2, <2>3 DEF IInv
<1>6. /\ ring \in [Workers -> Seq(Packets)] /\ avail \in [Workers -> Nat]
      /\ \A v \in Workers : avail[v] \in Nat /\ Len(ring[v]) \in Nat
  BY <1>1 DEF TypeInv
<1>7. CASE /\ ring' = [ring EXCEPT ![w] = Tail(ring[w])]
           /\ avail' = [avail EXCEPT ![w] = avail[w] + 1]
  <2>1. ring' \in [Workers -> Seq(Packets)] /\ avail' \in [Workers -> Nat]
    BY <1>1, <1>3, <1>4, <1>6, <1>7
  <2>2. /\ ring'[w] = Tail(ring[w]) /\ avail'[w] = avail[w] + 1
        /\ \A v \in Workers \ {w} : ring'[v] = ring[v] /\ avail'[v] = avail[v]
    BY <1>1, <1>6, <1>7
  <2>3. /\ avail'[w] + Len(ring'[w]) = avail[w] + Len(ring[w])
        /\ Len(ring'[w]) <= Len(ring[w])
    BY <1>3, <1>4, <2>2, Sums
  <2>4. \A v \in Workers \ {w} : /\ avail'[v] + Len(ring'[v]) = avail[v] + Len(ring[v])
                                 /\ Len(ring'[v]) <= Len(ring[v])
    BY <1>6, <2>2
  <2> QED BY <2>1, <2>3, <2>4 DEF Rearranged
<1>8. CASE \E r \in RxLcores :
             /\ avail[r] > 0
             /\ ring' = [ring EXCEPT ![w] = Tail(@), ![r] = Append(@, Head(ring[w]))]
             /\ avail' = [avail EXCEPT ![w] = @ + 1, ![r] = @ - 1]
  <2>1. PICK r \in RxLcores :
             /\ avail[r] > 0
             /\ ring' = [ring EXCEPT ![w] = Tail(@), ![r] = Append(@, Head(ring[w]))]
             /\ avail' = [avail EXCEPT ![w] = @ + 1, ![r] = @ - 1]
    BY <1>8
  <2>2. r \in Workers /\ r # w /\ r \notin TxLcores BY Constants
  <2>3. /\ Append(ring[r], Head(ring[w])) \in Seq(Packets)
        /\ Len(Append(ring[r], Head(ring[w]))) = Len(ring[r]) + 1
        /\ avail[r] - 1 \in Nat
    BY <1>4, <1>6, <2>1, <2>2
  <2>4. /\ ring'[w] = Tail(ring[w]) /\ ring'[r] = Append(ring[r], Head(ring[w]))
        /\ avail'[w] = avail[w] + 1 /\ avail'[r] = avail[r] - 1
        /\ \A v \in Workers \ {w, r} : ring'[v] = ring[v] /\ avail'[v] = avail[v]
    BY <1>1, <1>6, <2>1, <2>2
  <2>5. ring' \in [Workers -> Seq(Packets)] /\ avail' \in [Workers -> Nat]
    <3>1. avail[w] + 1 \in Nat BY <1>3
    <3> QED BY <1>1, <1>4, <1>6, <2>1, <2>2, <2>3, <3>1
  <2>6. /\ avail'[w] + Len(ring'[w]) = avail[w] + Len(ring[w])
        /\ Len(ring'[w]) <= Len(ring[w])
    <3>1. Len(ring'[w]) = Len(ring[w]) - 1 /\ avail'[w] = avail[w] + 1 BY <1>4, <2>4
    <3>2. /\ (avail[w] + 1) + (Len(ring[w]) - 1) = avail[w] + Len(ring[w])
          /\ Len(ring[w]) - 1 <= Len(ring[w])
      BY <1>3, <1>4, Sums
    <3> QED BY <3>1, <3>2
  <2>7. avail'[r] + Len(ring'[r]) = avail[r] + Len(ring[r]) BY <1>6, <2>2, <2>3, <2>4
  <2>8. \A v \in Workers \ {w, r} : /\ avail'[v] + Len(ring'[v]) = avail[v] + Len(ring[v])
                                    /\ Len(ring'[v]) <= Len(ring[v])
    BY <1>6, <2>4
  <2> QED BY <2>2, <2>5, <2>6, <2>7, <2>8 DEF Rearranged
<1> QED BY <1>7, <1>8 DEF Wire

\* Steps of main that move only its program counter and its pass.
LEMMA MainMoves ==
    ASSUME IInv, ReportHead \/ Wake \/ Report \/ Join \/ Exit
    PROVE  IInv'
<1>1. TypeInv /\ MainInv /\ \A v \in Workers : WorkerInv(v) BY DEF IInv
<1>2. UNCHANGED <<pool_size, prev_pkts, open, reported, pc, bufs, local_pkts, g_stats,
                  avail, ring, accepted>>
  BY DEF ReportHead, Wake, Report, Join, Exit, workVars
<1>3. scan' \in SUBSET Workers
  BY <1>1 DEF ReportHead, Wake, Report, Join, Exit, TypeInv
<1>4. main_pc' \in {"head", "sleep", "report", "join", "close", "exit"}
  BY DEF ReportHead, Wake, Report, Join, Exit
<1>5. TypeInv' BY <1>1, <1>2, <1>3, <1>4 DEF TypeInv
<1>6. MainInv' BY <1>1, <1>2 DEF MainInv, ReportHead, Wake, Report, Join, Exit
<1>7. \A v \in Workers : WorkerInv(v)'
  BY <1>1, <1>2 DEF WorkerInv, BufInv, IdInv, StatInv
<1> QED BY <1>5, <1>6, <1>7 DEF IInv

LEMMA LaunchStep ==
    ASSUME IInv, Launch
    PROVE  IInv'
<1>1. TypeInv /\ MainInv /\ \A v \in Workers : WorkerInv(v) BY DEF IInv
<1>2. UNCHANGED <<pool_size, scan, prev_pkts, open, reported, bufs, local_pkts, g_stats,
                  avail, ring, accepted>>
  BY DEF Launch
<1>3. /\ main_pc = "links" /\ main_pc' = "head" /\ pc' = [w \in Workers |-> "head"]
      /\ \A w \in Workers : pc[w] = "wait"
  BY <1>1 DEF Launch, MainInv
<1>4. pc' \in [Workers -> Labels] BY <1>3 DEF Labels
<1>5. TypeInv' BY <1>1, <1>2, <1>3, <1>4 DEF TypeInv
<1>6. MainInv' BY <1>1, <1>2, <1>3 DEF MainInv
<1>7. \A v \in Workers : WorkerInv(v)'
  BY <1>1, <1>2, <1>3 DEF WorkerInv, BufInv, IdInv, StatInv
<1> QED BY <1>5, <1>6, <1>7 DEF IInv

LEMMA ReadStatsStep ==
    ASSUME IInv, ReadStats
    PROVE  IInv'
<1>1. TypeInv /\ MainInv /\ \A v \in Workers : WorkerInv(v) BY DEF IInv
<1>2. UNCHANGED <<pool_size, main_pc, open, pc, bufs, local_pkts, g_stats, avail, ring,
                  accepted>>
  BY DEF ReadStats, workVars
<1>3. PICK w \in Workers :
         /\ reported' = [reported EXCEPT ![w] = reported[w] + (g_stats[w] - prev_pkts[w])]
         /\ prev_pkts' = [prev_pkts EXCEPT ![w] = g_stats[w]]
         /\ scan' = scan \ {w}
  <2>1. scan \in SUBSET Nat /\ scan # {} /\ scan \in SUBSET Workers
    BY <1>1, Constants DEF ReadStats, TypeInv
  <2>2. Earliest(scan) \in Workers BY <2>1, EarliestIn
  <2> QED BY <2>2 DEF ReadStats
<1>4. /\ g_stats[w] \in Nat /\ prev_pkts[w] \in Nat /\ reported[w] = prev_pkts[w]
      /\ prev_pkts[w] <= g_stats[w]
  BY <1>1 DEF TypeInv, WorkerInv, StatInv
<1>5. reported[w] + (g_stats[w] - prev_pkts[w]) = g_stats[w] BY <1>4
<1>6. TypeInv' BY <1>1, <1>2, <1>3, <1>4, <1>5 DEF TypeInv
<1>7. MainInv' BY <1>1, <1>2 DEF MainInv
<1>8. ASSUME NEW v \in Workers PROVE WorkerInv(v)'
  <2>1. BufInv(v) /\ IdInv(v) /\ StatInv(v) BY <1>1 DEF WorkerInv
  <2>2. BufInv(v)' BY <1>2, <2>1 DEF BufInv
  <2>3. IdInv(v)' BY <1>2, <2>1 DEF IdInv
  <2>4. CASE v = w
    <3>1. reported'[v] = g_stats[v] /\ prev_pkts'[v] = g_stats[v]
      BY <1>1, <1>3, <1>5, <2>4 DEF TypeInv
    <3>2. StatInv(v)' BY <1>2, <1>4, <2>1, <2>4, <3>1 DEF StatInv
    <3> QED BY <2>2, <2>3, <3>2 DEF WorkerInv
  <2>5. CASE v # w
    <3>1. reported'[v] = reported[v] /\ prev_pkts'[v] = prev_pkts[v]
      BY <1>1, <1>3, <2>5 DEF TypeInv
    <3>2. StatInv(v)' BY <1>2, <2>1, <3>1 DEF StatInv
    <3> QED BY <2>2, <2>3, <3>2 DEF WorkerInv
  <2> QED BY <2>4, <2>5
<1> QED BY <1>6, <1>7, <1>8 DEF IInv

LEMMA ClosePortStep ==
    ASSUME IInv, ClosePort
    PROVE  IInv'
<1>1. TypeInv /\ MainInv /\ \A v \in Workers : WorkerInv(v) BY DEF IInv
<1>2. UNCHANGED <<pool_size, main_pc, scan, prev_pkts, reported, pc, bufs, local_pkts,
                  g_stats, accepted>>
  BY DEF ClosePort
<1>3. PICK ws \in SUBSET Workers :
         /\ avail' = [w \in Workers |-> avail[w] + IF w \in ws THEN Len(ring[w]) ELSE 0]
         /\ ring' = [w \in Workers |-> IF w \in ws THEN <<>> ELSE ring[w]]
  BY DEF ClosePort
<1>4. open' \in SUBSET Ports /\ main_pc = "close" BY <1>1 DEF ClosePort, TypeInv
<1>5. ASSUME NEW v \in Workers
      PROVE  /\ ring'[v] \in Seq(Packets) /\ avail'[v] \in Nat
             /\ avail'[v] + Len(ring'[v]) = avail[v] + Len(ring[v])
             /\ Len(ring'[v]) <= Len(ring[v])
  <2>1. ring[v] \in Seq(Packets) /\ avail[v] \in Nat /\ Len(ring[v]) \in Nat
    BY <1>1 DEF TypeInv
  <2>2. CASE v \in ws
    <3>1. ring'[v] = <<>> /\ avail'[v] = avail[v] + Len(ring[v]) BY <1>3, <2>2
    <3>2. Len(ring'[v]) = 0 BY <3>1
    <3> QED BY <2>1, <3>1, <3>2
  <2>3. CASE v \notin ws
    <3>1. ring'[v] = ring[v] /\ avail'[v] = avail[v] + 0 BY <1>3, <2>3
    <3>2. avail'[v] = avail[v] BY <2>1, <3>1
    <3> QED BY <2>1, <3>1, <3>2
  <2> QED BY <2>2, <2>3
<1>6. ring' \in [Workers -> Seq(Packets)] /\ avail' \in [Workers -> Nat]
  BY <1>3, <1>5
<1>7. TypeInv' BY <1>1, <1>2, <1>4, <1>6 DEF TypeInv
<1>8. MainInv' BY <1>1, <1>2, <1>4 DEF MainInv
<1>9. Rearranged BY <1>5, <1>6 DEF Rearranged
<1>10. \A v \in Workers : WorkerInv(v)' BY <1>2, <1>9, RearrangedKeeps
<1> QED BY <1>7, <1>8, <1>10 DEF IInv

-----------------------------------------------------------------------------
(* A run keeps the invariant                                                *)

LEMMA InitInv == Init => IInv
<1> SUFFICES ASSUME Init PROVE IInv OBVIOUS
<1>1. pool_size \in Nat BY Constants DEF Init
<1>2. <<>> \in Seq(Packets) /\ <<>> \in Seq(Nat) /\ Len(<<>>) = 0 OBVIOUS
<1>3. TypeInv
  <2>1. pc \in [Workers -> Labels] BY DEF Init, Labels
  <2> QED BY <1>1, <1>2, <2>1 DEF Init, TypeInv
<1>4. MainInv BY DEF Init, MainInv
<1>5. ASSUME NEW w \in Workers PROVE WorkerInv(w)
  <2>1. BufInv(w) BY <1>1, <1>2, Constants DEF Init, BufInv
  <2>2. IdInv(w) BY <1>2 DEF Init, IdInv
  <2>3. StatInv(w) BY DEF Init, StatInv
  <2> QED BY <2>1, <2>2, <2>3 DEF WorkerInv
<1> QED BY <1>3, <1>4, <1>5 DEF IInv

LEMMA NextInv == IInv /\ [Next]_vars => IInv'
<1> SUFFICES ASSUME IInv, [Next]_vars PROVE IInv' OBVIOUS
<1>1. CASE \E w \in Workers : Worker(w)
  <2>1. PICK w \in Workers : Worker(w) BY <1>1
  <2> QED BY <2>1, IdleSteps, PublishSteps, BuildStep, TransmitStep, PollStep, CountStep
          DEF Worker
<1>2. CASE \E w \in TxLcores : Wire(w) BY <1>2, WireStep
<1>3. CASE Main BY <1>3, MainMoves, LaunchStep, ReadStatsStep, ClosePortStep DEF Main
<1>4. CASE signal_handler \/ UNCHANGED vars
  <2>1. UNCHANGED <<mainVars, workVars>> BY <1>4 DEF signal_handler, vars
  <2> QED BY <2>1 DEF IInv, TypeInv, MainInv, WorkerInv, BufInv, IdInv, StatInv,
                      mainVars, workVars
<1> QED BY <1>1, <1>2, <1>3, <1>4 DEF Next

LEMMA Invariant == Spec => []IInv
BY InitInv, NextInv, PTL DEF Spec

\* The program's setup is followed by a run of the workers: whatever main
\* does before the launch, a signal during the setup included, is a step of
\* the run or none.
THEOREM ProgramRuns == MainSpec => Spec
<1>1. MainInit => Init BY DEF MainInit
<1>2. [MainNext]_programVars => [Next]_vars
  BY DEF MainNext, SetupStep, EarlySignal, RunStep, programVars, Next
<1> QED BY <1>1, <1>2, PTL DEF MainSpec, Spec

\* Partial bursts, failed allocations, lost packets and closed ports neither
\* leak an mbuf nor free one twice.
THEOREM PoolsStayConserved == MainSpec => []PoolsConserved
<1>1. IInv => PoolsConserved BY DEF IInv, WorkerInv, BufInv, PoolsConserved
<1> QED BY <1>1, Invariant, ProgramRuns, PTL

\* What leaves a TX worker is numbered 0, 1, 2, ..., however the port splits
\* its bursts.
THEOREM IdsStayDense == MainSpec => []IdsDense
<1>1. IInv => IdsDense BY Constants DEF IInv, WorkerInv, IdInv, IdsDense
<1> QED BY <1>1, Invariant, ProgramRuns, PTL

\* No rate wraps, the reports never add up to more than was sent, and a worker
\* that has ended has published everything.
THEOREM ReportsStayHonest == MainSpec => []ReportsHonest
<1>1. IInv => ReportsHonest
  <2> SUFFICES ASSUME IInv, NEW w \in Workers
               PROVE  /\ prev_pkts[w] <= g_stats[w]
                      /\ w \in TxLcores => reported[w] <= Len(accepted[w])
                      /\ pc[w] = "finished" => g_stats[w] = local_pkts[w]
    BY DEF ReportsHonest
  <2>1. StatInv(w) /\ IdInv(w) BY DEF IInv, WorkerInv
  <2>2. prev_pkts[w] \in Nat /\ g_stats[w] \in Nat /\ local_pkts[w] \in Nat
    BY DEF IInv, TypeInv
  <2>3. prev_pkts[w] <= local_pkts[w] BY <2>1, <2>2 DEF StatInv
  <2> QED BY <2>1, <2>3 DEF StatInv, IdInv
<1> QED BY <1>1, Invariant, ProgramRuns, PTL

\* With a pool as large as pktgen.c makes it, an allocation never fails.
THEOREM NobodyStarves == MainSpec => []NeverStarved
<1>1. IInv => NeverStarved
  <2> SUFFICES ASSUME IInv, pool_size >= TxRing + Burst, NEW w \in TxLcores, pc[w] = "burst"
               PROVE  avail[w] >= Burst
    BY DEF NeverStarved
  <2>1. w \in Workers BY Constants
  <2>2. BufInv(w) /\ avail[w] \in Nat /\ ring[w] \in Seq(Packets) /\ pool_size \in Nat
    BY <2>1, Same
  <2>3. Len(bufs[w]) = 0
    <3>1. bufs[w] = <<>> BY <2>2 DEF BufInv
    <3> QED BY <3>1
  <2>4. avail[w] + 0 + Len(ring[w]) = pool_size /\ Len(ring[w]) <= TxRing
    BY <2>2, <2>3 DEF BufInv
  <2>5. Len(ring[w]) \in Nat BY <2>2
  <2> QED BY <2>2, <2>4, <2>5, Constants
<1> QED BY <1>1, Invariant, ProgramRuns, PTL

\* A port is closed only when no worker will use it again.
THEOREM NothingUsedAfterClose == MainSpec => []NoUseAfterClose
<1>1. IInv => NoUseAfterClose
  <2> SUFFICES ASSUME IInv, NEW w \in Workers,
                      pc[w] \in {"head", "burst", "tx", "count", "publish"}
               PROVE  PortOf[w] \in open
    BY DEF NoUseAfterClose
  <2>1. MainInv /\ pc[w] # "finished" BY DEF IInv
  <2>2. open = Ports BY <2>1 DEF MainInv
  <2> QED BY <2>2, Constants
<1> QED BY <1>1, Invariant, ProgramRuns, PTL

-----------------------------------------------------------------------------
(* The setup: roles and queues                                              *)

Config == [type : {"TX", "RX"}, port_id : 0 .. MaxPorts, queue_id : Nat]

\* The queue that a worker was given.
QueueOf(c) == <<c.port_id, c.type, c.queue_id>>

SetupTypeInv ==
    /\ setup_pc \in {"options", "failed", "roles", "ports", "launch"}
    /\ nb_ports \in 0 .. MaxPorts /\ port_rr \in 0 .. MaxPorts /\ portid \in 0 .. nb_ports
    /\ lcore_config \in Seq(Config)
    /\ tx_queues_per_port \in [0 .. MaxPorts -> Nat]
    /\ rx_queues_per_port \in [0 .. MaxPorts -> Nat]

\* The queue numbers that configs gives out on port p for role t are those
\* below n.
Given(configs, p, t, n) ==
    \A q \in Nat : q < n <=> \E k \in DOMAIN configs : QueueOf(configs[k]) = <<p, t, q>>

\* No two workers share a queue, and no number is left out.
QueueInv ==
    /\ \A j, k \in DOMAIN lcore_config :
          QueueOf(lcore_config[j]) = QueueOf(lcore_config[k]) => j = k
    /\ \A p \in 0 .. MaxPorts : /\ Given(lcore_config, p, "TX", tx_queues_per_port[p])
                                /\ Given(lcore_config, p, "RX", rx_queues_per_port[p])

\* Ports are given out round robin, and set up in order.
PhaseInv ==
    /\ setup_pc \in {"options", "roles"} => portid = 0 /\ queues_set_up = {}
    /\ setup_pc \in {"roles", "ports", "launch"} => port_rr < nb_ports
    /\ setup_pc = "options" => lcore_config = <<>> /\ port_rr = 0
    /\ setup_pc = "launch" => portid = nb_ports
    /\ \A k \in DOMAIN lcore_config : lcore_config[k].port_id < nb_ports
    /\ setup_pc # "failed" =>
          queues_set_up = {QueueOf(lcore_config[k]) :
                              k \in {j \in DOMAIN lcore_config :
                                        lcore_config[j].port_id < portid}}

SetupInv == SetupTypeInv /\ QueueInv /\ PhaseInv

LEMMA SetupInitInv == Setup!Init => SetupInv
<1> SUFFICES ASSUME Setup!Init PROVE SetupInv OBVIOUS
<1>1. MaxPorts \in Nat BY SetupAssumption
<1>2. lcore_config = <<>> /\ DOMAIN lcore_config = {} BY DEF Setup!Init
<1>3. SetupTypeInv BY <1>1, <1>2 DEF Setup!Init, SetupTypeInv
<1>4. QueueInv BY <1>1, <1>2 DEF Setup!Init, QueueInv, Given
<1>5. PhaseInv BY <1>1, <1>2 DEF Setup!Init, PhaseInv
<1> QED BY <1>3, <1>4, <1>5 DEF SetupInv

\* The next worker's queue is the first one that is not given out.
LEMMA AssignKeeps ==
    ASSUME SetupInv, setup_pc = "roles", NEW t \in {"TX", "RX"},
           NEW n, n = (IF t = "TX" THEN tx_queues_per_port ELSE rx_queues_per_port)[port_rr],
           lcore_config' = Append(lcore_config,
                                  [type |-> t, port_id |-> port_rr, queue_id |-> n]),
           port_rr' = (port_rr + 1) % nb_ports,
           tx_queues_per_port' = IF t = "TX"
                                 THEN [tx_queues_per_port EXCEPT ![port_rr] = n + 1]
                                 ELSE tx_queues_per_port,
           rx_queues_per_port' = IF t = "RX"
                                 THEN [rx_queues_per_port EXCEPT ![port_rr] = n + 1]
                                 ELSE rx_queues_per_port,
           UNCHANGED <<setup_pc, nb_ports, portid, queues_set_up>>
    PROVE  SetupInv'
<1> DEFINE c == [type |-> t, port_id |-> port_rr, queue_id |-> n]
           L == Len(lcore_config)
<1>1. SetupTypeInv /\ QueueInv /\ PhaseInv BY DEF SetupInv
<1>2. MaxPorts \in Nat /\ nb_ports \in 0 .. MaxPorts /\ port_rr \in 0 .. MaxPorts
  BY <1>1, SetupAssumption DEF SetupTypeInv
<1>3. port_rr < nb_ports BY <1>1 DEF PhaseInv
<1>4. port_rr' \in 0 .. nb_ports - 1
  <2>1. port_rr + 1 \in Nat /\ nb_ports \in Nat \ {0} BY <1>2, <1>3
  <2> QED BY <2>1
<1>5. n \in Nat
  BY <1>1, <1>2 DEF SetupTypeInv
<1>6. c \in Config /\ QueueOf(c) = <<port_rr, t, n>> BY <1>2, <1>5 DEF Config, QueueOf
<1>7. L \in Nat /\ lcore_config \in Seq(Config) /\ DOMAIN lcore_config = 1 .. L
  BY <1>1 DEF SetupTypeInv
<1> HIDE DEF c
<1>8. /\ lcore_config' = Append(lcore_config, c) /\ lcore_config' \in Seq(Config)
      /\ DOMAIN lcore_config' = 1 .. L + 1 /\ lcore_config'[L + 1] = c
      /\ \A k \in 1 .. L : lcore_config'[k] = lcore_config[k]
  BY <1>6, <1>7 DEF c
<1>9. SetupTypeInv'
  <2>1. /\ tx_queues_per_port' \in [0 .. MaxPorts -> Nat]
        /\ rx_queues_per_port' \in [0 .. MaxPorts -> Nat]
    <3>1. n + 1 \in Nat BY <1>5
    <3>2. CASE t = "TX" BY <1>1, <1>2, <3>1, <3>2 DEF SetupTypeInv
    <3>3. CASE t = "RX" BY <1>1, <1>2, <3>1, <3>3 DEF SetupTypeInv
    <3> QED BY <3>2, <3>3
  <2>2. port_rr' \in 0 .. MaxPorts BY <1>2, <1>4
  <2> QED BY <1>1, <1>8, <2>1, <2>2 DEF SetupTypeInv
\* Nobody had this queue.
<1>10. \A k \in 1 .. L : QueueOf(lcore_config[k]) # <<port_rr, t, n>>
  <2>1. Given(lcore_config, port_rr, t, n) BY <1>1, <1>2 DEF QueueInv
  <2>2. ~(n < n) BY <1>5
  <2> QED BY <1>5, <1>7, <2>1, <2>2 DEF Given
<1>11. ASSUME NEW j \in 1 .. L + 1, NEW k \in 1 .. L + 1,
              QueueOf(lcore_config'[j]) = QueueOf(lcore_config'[k])
       PROVE  j = k
  <2>1. CASE j = L + 1 /\ k # L + 1
    <3>1. k \in 1 .. L BY <1>7, <2>1
    <3> QED BY <1>6, <1>8, <1>10, <1>11, <2>1, <3>1
  <2>2. CASE j # L + 1 /\ k = L + 1
    <3>1. j \in 1 .. L BY <1>7, <2>2
    <3> QED BY <1>6, <1>8, <1>10, <1>11, <2>2, <3>1
  <2>3. CASE j # L + 1 /\ k # L + 1
    <3>1. j \in 1 .. L /\ k \in 1 .. L BY <1>7, <2>3
    <3>2. QueueOf(lcore_config[j]) = QueueOf(lcore_config[k]) BY <1>8, <1>11, <3>1
    <3> QED BY <1>1, <1>7, <3>1, <3>2 DEF QueueInv
  <2> QED BY <2>1, <2>2, <2>3
\* A number is given out now if it was before or is this one.
<1>12. ASSUME NEW p \in 0 .. MaxPorts, NEW u \in {"TX", "RX"}, NEW m \in Nat, NEW m1 \in Nat,
              Given(lcore_config, p, u, m), m1 = IF <<p, u>> = <<port_rr, t>> THEN m + 1 ELSE m,
              <<p, u>> = <<port_rr, t>> => m = n
       PROVE  Given(lcore_config', p, u, m1)
  <2> SUFFICES ASSUME NEW q \in Nat
               PROVE  q < m1 <=> \E k \in 1 .. L + 1 : QueueOf(lcore_config'[k]) = <<p, u, q>>
    BY <1>8 DEF Given
  <2>1. (\E k \in 1 .. L + 1 : QueueOf(lcore_config'[k]) = <<p, u, q>>)
          <=> \/ \E k \in 1 .. L : QueueOf(lcore_config[k]) = <<p, u, q>>
              \/ QueueOf(c) = <<p, u, q>>
    <3>1. \A k \in 1 .. L + 1 : k \in 1 .. L \/ k = L + 1 BY <1>7
    <3>2. (L + 1 \in 1 .. L + 1) /\ \A k \in 1 .. L : k \in 1 .. L + 1 BY <1>7
    <3> QED BY <1>8, <3>1, <3>2
  <2>2. (\E k \in 1 .. L : QueueOf(lcore_config[k]) = <<p, u, q>>) <=> q < m
    BY <1>7, <1>12 DEF Given
  <2>3. QueueOf(c) = <<p, u, q>> <=> <<p, u>> = <<port_rr, t>> /\ q = n BY <1>6
  <2>4. q < m1 <=> q < m \/ (<<p, u>> = <<port_rr, t>> /\ q = n) BY <1>5, <1>12
  <2> QED BY <2>1, <2>2, <2>3, <2>4
<1>13. ASSUME NEW p \in 0 .. MaxPorts
       PROVE  /\ Given(lcore_config, p, "TX", tx_queues_per_port[p])'
              /\ Given(lcore_config, p, "RX", rx_queues_per_port[p])'
  <2>1. Given(lcore_config, p, "TX", tx_queues_per_port[p]) /\ Given(lcore_config, p, "RX", rx_queues_per_port[p])
    BY <1>1 DEF QueueInv
  <2>2. /\ tx_queues_per_port[p] \in Nat /\ rx_queues_per_port[p] \in Nat
        /\ tx_queues_per_port'[p] \in Nat /\ rx_queues_per_port'[p] \in Nat
    BY <1>1, <1>9 DEF SetupTypeInv
  <2>3. /\ tx_queues_per_port'[p] = IF <<p, "TX">> = <<port_rr, t>>
                                    THEN tx_queues_per_port[p] + 1 ELSE tx_queues_per_port[p]
        /\ <<p, "TX">> = <<port_rr, t>> => tx_queues_per_port[p] = n
    BY <1>1, <1>2 DEF SetupTypeInv
  <2>4. /\ rx_queues_per_port'[p] = IF <<p, "RX">> = <<port_rr, t>>
                                    THEN rx_queues_per_port[p] + 1 ELSE rx_queues_per_port[p]
        /\ <<p, "RX">> = <<port_rr, t>> => rx_queues_per_port[p] = n
    BY <1>1, <1>2 DEF SetupTypeInv
  <2>5. /\ Given(lcore_config', p, "TX", tx_queues_per_port'[p])
        /\ Given(lcore_config', p, "RX", rx_queues_per_port'[p])
    BY <1>12, <2>1, <2>2, <2>3, <2>4
  <2> QED BY <2>5
<1>14. QueueInv' BY <1>8, <1>11, <1>13 DEF QueueInv
<1>15. PhaseInv'
  <2>1. port_rr' < nb_ports BY <1>2, <1>4
  <2>2. \A k \in DOMAIN lcore_config' : lcore_config'[k].port_id < nb_ports
    <3>1. \A k \in 1 .. L + 1 : k \in 1 .. L \/ k = L + 1 BY <1>7
    <3>2. c.port_id = port_rr BY DEF c
    <3> QED BY <1>1, <1>3, <1>7, <1>8, <3>1, <3>2 DEF PhaseInv
  <2>3. portid = 0 /\ queues_set_up = {} BY <1>1 DEF PhaseInv
  <2>4. \A k \in DOMAIN lcore_config' : ~(lcore_config'[k].port_id < portid)
    <3>1. ASSUME NEW k \in DOMAIN lcore_config' PROVE ~(lcore_config'[k].port_id < portid)
      <4>1. lcore_config'[k] \in Config BY <1>8
      <4>2. lcore_config'[k].port_id \in 0 .. MaxPorts BY <4>1 DEF Config
      <4> QED BY <1>2, <2>3, <4>2
    <3> QED BY <3>1
  <2> QED BY <2>1, <2>2, <2>3, <2>4 DEF PhaseInv
<1> QED BY <1>9, <1>14, <1>15 DEF SetupInv

LEMMA AssignSteps ==
    ASSUME SetupInv, Setup!AssignTx \/ Setup!AssignRx
    PROVE  SetupInv'
<1>1. CASE Setup!AssignTx
  <2> DEFINE n == tx_queues_per_port[port_rr]
  <2>1. /\ setup_pc = "roles"
        /\ lcore_config' = Append(lcore_config,
                                  [type |-> "TX", port_id |-> port_rr, queue_id |-> n])
        /\ port_rr' = (port_rr + 1) % nb_ports
        /\ tx_queues_per_port' = [tx_queues_per_port EXCEPT ![port_rr] = n + 1]
        /\ UNCHANGED <<rx_queues_per_port, setup_pc, nb_ports, portid, queues_set_up>>
    BY <1>1 DEF Setup!AssignTx, Setup!Assign, Setup!Unassigned, Setup!machine, Setup!ports
  <2> QED BY <2>1, AssignKeeps
<1>2. CASE Setup!AssignRx
  <2> DEFINE n == rx_queues_per_port[port_rr]
  <2>1. /\ setup_pc = "roles"
        /\ lcore_config' = Append(lcore_config,
                                  [type |-> "RX", port_id |-> port_rr, queue_id |-> n])
        /\ port_rr' = (port_rr + 1) % nb_ports
        /\ rx_queues_per_port' = [rx_queues_per_port EXCEPT ![port_rr] = n + 1]
        /\ UNCHANGED <<tx_queues_per_port, setup_pc, nb_ports, portid, queues_set_up>>
    BY <1>2 DEF Setup!AssignRx, Setup!Assign, Setup!Unassigned, Setup!machine, Setup!ports
  <2> QED BY <2>1, AssignKeeps
<1> QED BY <1>1, <1>2

LEMMA OptionSteps ==
    ASSUME SetupInv,
           Setup!OptionR \/ Setup!OptionP \/ Setup!OptionsDone \/ Setup!NoPool
             \/ Setup!RolesDone \/ Setup!SetupFails
    PROVE  SetupInv'
<1>1. SetupTypeInv /\ QueueInv /\ PhaseInv BY DEF SetupInv
<1>2. UNCHANGED <<nb_ports, lcore_config, tx_queues_per_port, rx_queues_per_port, port_rr,
                  portid, queues_set_up>>
  BY DEF Setup!OptionR, Setup!OptionP, Setup!OptionsDone, Setup!NoPool, Setup!RolesDone,
         Setup!SetupFails, Setup!machine, Setup!roles, Setup!ports
<1>3. \/ setup_pc' = "failed"
      \/ setup_pc = "options" /\ setup_pc' = "options"
      \/ setup_pc = "options" /\ setup_pc' = "roles" /\ nb_ports # 0
      \/ setup_pc = "roles" /\ setup_pc' = "ports"
  BY DEF Setup!OptionR, Setup!OptionP, Setup!OptionsDone, Setup!NoPool, Setup!RolesDone,
         Setup!SetupFails, Setup!Fail, Setup!options
<1>4. SetupTypeInv' BY <1>1, <1>2, <1>3 DEF SetupTypeInv
<1>5. QueueInv' BY <1>1, <1>2 DEF QueueInv
<1>6. PhaseInv'
  <2>1. nb_ports \in Nat /\ MaxPorts \in Nat BY <1>1, SetupAssumption DEF SetupTypeInv
  <2> QED BY <1>1, <1>2, <1>3, <2>1 DEF PhaseInv
<1> QED BY <1>4, <1>5, <1>6 DEF SetupInv

LEMMA PortSteps ==
    ASSUME SetupInv, Setup!SkipPort \/ Setup!SetupPort
    PROVE  SetupInv'
<1>1. SetupTypeInv /\ QueueInv /\ PhaseInv BY DEF SetupInv
<1>2. /\ setup_pc = "ports" /\ portid < nb_ports /\ portid' = portid + 1
      /\ UNCHANGED <<setup_pc, nb_ports, lcore_config, tx_queues_per_port,
                     rx_queues_per_port, port_rr>>
  BY DEF Setup!SkipPort, Setup!SetupPort, Setup!machine, Setup!roles
<1>3. /\ MaxPorts \in Nat /\ nb_ports \in 0 .. MaxPorts /\ portid \in Nat
      /\ \A k \in DOMAIN lcore_config : lcore_config[k] \in Config
  BY <1>1, SetupAssumption DEF SetupTypeInv
<1>4. \A k \in DOMAIN lcore_config : lcore_config[k].port_id \in Nat BY <1>3 DEF Config
<1>5. SetupTypeInv'
  <2>1. portid + 1 \in 0 .. nb_ports BY <1>2, <1>3
  <2> QED BY <1>1, <1>2, <2>1 DEF SetupTypeInv
<1>6. QueueInv' BY <1>1, <1>2 DEF QueueInv
<1> DEFINE mine == {j \in DOMAIN lcore_config : lcore_config[j].port_id = portid}
<1>7. queues_set_up' = queues_set_up \cup {QueueOf(lcore_config[k]) : k \in mine}
  <2>1. CASE Setup!SkipPort
    <3>1. tx_queues_per_port[portid] = 0 /\ rx_queues_per_port[portid] = 0
      BY <2>1 DEF Setup!SkipPort, Setup!Unused
    <3>2. portid \in 0 .. MaxPorts BY <1>2, <1>3
    <3>3. Given(lcore_config, portid, "TX", 0) /\ Given(lcore_config, portid, "RX", 0)
      BY <1>1, <3>1, <3>2 DEF QueueInv
    <3>4. ASSUME NEW k \in mine PROVE FALSE
      <4>1. lcore_config[k] \in Config BY <1>3
      <4>2. lcore_config[k].queue_id \in Nat /\ lcore_config[k].type \in {"TX", "RX"}
        BY <4>1 DEF Config
      <4>3. QueueOf(lcore_config[k])
              = <<portid, lcore_config[k].type, lcore_config[k].queue_id>>
        BY DEF QueueOf
      <4>4. lcore_config[k].queue_id < 0 BY <3>3, <4>2, <4>3 DEF Given
      <4> QED BY <4>2, <4>4
    <3>5. queues_set_up' = queues_set_up BY <2>1 DEF Setup!SkipPort
    <3> QED BY <3>4, <3>5
  <2>2. CASE Setup!SetupPort BY <2>2 DEF Setup!SetupPort, QueueOf
  <2> QED BY <2>1, <2>2
<1>8. queues_set_up' = {QueueOf(lcore_config[k]) :
                           k \in {j \in DOMAIN lcore_config :
                                     lcore_config[j].port_id < portid + 1}}
  <2>1. queues_set_up = {QueueOf(lcore_config[k]) :
                           k \in {j \in DOMAIN lcore_config :
                                     lcore_config[j].port_id < portid}}
    BY <1>1, <1>2 DEF PhaseInv
  <2>2. {j \in DOMAIN lcore_config : lcore_config[j].port_id < portid + 1}
          = {j \in DOMAIN lcore_config : lcore_config[j].port_id < portid} \cup mine
    BY <1>3, <1>4
  <2> HIDE DEF mine
  <2> QED BY <1>7, <2>1, <2>2
<1> HIDE DEF mine
<1>9. PhaseInv' BY <1>1, <1>2, <1>8 DEF PhaseInv
<1> QED BY <1>5, <1>6, <1>9 DEF SetupInv

LEMMA SetupDoneStep ==
    ASSUME SetupInv, Setup!SetupDone
    PROVE  SetupInv'
<1>1. SetupTypeInv /\ QueueInv /\ PhaseInv BY DEF SetupInv
<1>2. /\ UNCHANGED <<nb_ports, lcore_config, tx_queues_per_port, rx_queues_per_port, port_rr,
                     portid, queues_set_up>>
      /\ setup_pc = "ports" /\ portid = nb_ports /\ setup_pc' = "launch"
  BY DEF Setup!SetupDone, Setup!machine, Setup!roles, Setup!ports
<1> QED BY <1>1, <1>2 DEF SetupInv, SetupTypeInv, QueueInv, PhaseInv

LEMMA SetupInvariant == MainSpec => []SetupInv
<1>1. MainInit => SetupInv BY SetupInitInv DEF MainInit
<1>2. SetupInv /\ [MainNext]_programVars => SetupInv'
  <2> SUFFICES ASSUME SetupInv, [MainNext]_programVars PROVE SetupInv' OBVIOUS
  <2>1. CASE Setup!Next
    BY <2>1, AssignSteps, OptionSteps, PortSteps, SetupDoneStep DEF Setup!Next
  <2>2. CASE UNCHANGED setupVars
    BY <2>2 DEF setupVars, SetupInv, SetupTypeInv, QueueInv, PhaseInv
  <2> QED BY <2>1, <2>2 DEF MainNext, SetupStep, EarlySignal, RunStep, programVars
<1> QED BY <1>1, <1>2, PTL DEF MainSpec

\* At the launch every worker has a queue of its own that was set up, on any
\* number of ports, and the ports have no other queues.
THEOREM QueuesAlwaysMatch == MainSpec => []QueuesMatch
<1>1. SetupInv => QueuesMatch
  <2> SUFFICES ASSUME SetupInv, setup_pc = "launch"
               PROVE  /\ \A j, k \in DOMAIN lcore_config :
                            lcore_config[j] = lcore_config[k] => j = k
                      /\ queues_set_up = {QueueOf(lcore_config[k]) : k \in DOMAIN lcore_config}
                      /\ queues_set_up =
                            UNION {{<<p, "TX", n>> : n \in 0 .. tx_queues_per_port[p] - 1}
                                   \cup {<<p, "RX", n>> : n \in 0 .. rx_queues_per_port[p] - 1} :
                                      p \in 0 .. nb_ports - 1}
    BY DEF QueuesMatch, Setup!QueuesMatch, QueueOf
  <2>1. SetupTypeInv /\ QueueInv /\ PhaseInv BY DEF SetupInv
  <2>2. \A j, k \in DOMAIN lcore_config : lcore_config[j] = lcore_config[k] => j = k
    BY <2>1 DEF QueueInv
  <2>3. queues_set_up = {QueueOf(lcore_config[k]) : k \in DOMAIN lcore_config}
    <3>1. portid = nb_ports BY <2>1 DEF PhaseInv
    <3>2. {j \in DOMAIN lcore_config : lcore_config[j].port_id < portid} = DOMAIN lcore_config
      BY <2>1, <3>1 DEF PhaseInv
    <3> QED BY <2>1, <3>2 DEF PhaseInv
  <2>4. MaxPorts \in Nat /\ nb_ports \in 0 .. MaxPorts
    BY <2>1, SetupAssumption DEF SetupTypeInv
  <2>5. \A p \in 0 .. nb_ports - 1 :
           /\ p \in 0 .. MaxPorts /\ tx_queues_per_port[p] \in Nat
           /\ rx_queues_per_port[p] \in Nat
           /\ Given(lcore_config, p, "TX", tx_queues_per_port[p])
           /\ Given(lcore_config, p, "RX", rx_queues_per_port[p])
    BY <2>1, <2>4 DEF SetupTypeInv, QueueInv
  <2> DEFINE N(p) == {<<p, "TX", n>> : n \in 0 .. tx_queues_per_port[p] - 1}
                       \cup {<<p, "RX", n>> : n \in 0 .. rx_queues_per_port[p] - 1}
             U == UNION {N(p) : p \in 0 .. nb_ports - 1}
  <2>6. ASSUME NEW x \in queues_set_up PROVE x \in U
    <3>1. PICK k \in DOMAIN lcore_config : x = QueueOf(lcore_config[k]) BY <2>3
    <3>2. lcore_config[k] \in Config BY <2>1 DEF SetupTypeInv
    <3>3. PICK p \in 0 .. MaxPorts, t \in {"TX", "RX"}, q \in Nat :
             p = lcore_config[k].port_id /\ t = lcore_config[k].type
             /\ q = lcore_config[k].queue_id
      BY <3>2 DEF Config
    <3>4. x = <<p, t, q>> BY <3>1, <3>3 DEF QueueOf
    <3>5. p \in 0 .. nb_ports - 1 BY <2>1, <2>4, <3>3 DEF PhaseInv
    <3>6. CASE t = "TX"
      <4>1. q < tx_queues_per_port[p] BY <2>5, <3>1, <3>4, <3>5, <3>6 DEF Given
      <4>2. q \in 0 .. tx_queues_per_port[p] - 1 BY <2>5, <3>5, <4>1
      <4>3. x \in N(p) BY <3>4, <3>6, <4>2
      <4> HIDE DEF N
      <4> QED BY <3>5, <4>3
    <3>7. CASE t = "RX"
      <4>1. q < rx_queues_per_port[p] BY <2>5, <3>1, <3>4, <3>5, <3>7 DEF Given
      <4>2. q \in 0 .. rx_queues_per_port[p] - 1 BY <2>5, <3>5, <4>1
      <4>3. x \in N(p) BY <3>4, <3>7, <4>2
      <4> HIDE DEF N
      <4> QED BY <3>5, <4>3
    <3> QED BY <3>6, <3>7
  <2>7. ASSUME NEW x \in U PROVE x \in queues_set_up
    <3>1. PICK p \in 0 .. nb_ports - 1 : x \in N(p) OBVIOUS
    <3>2. CASE x \in {<<p, "TX", n>> : n \in 0 .. tx_queues_per_port[p] - 1}
      <4>1. PICK n \in 0 .. tx_queues_per_port[p] - 1 : x = <<p, "TX", n>> BY <3>2
      <4>2. n \in Nat /\ n < tx_queues_per_port[p] BY <2>5, <4>1
      <4>3. \E k \in DOMAIN lcore_config : QueueOf(lcore_config[k]) = x
        BY <2>5, <4>1, <4>2 DEF Given
      <4> QED BY <2>3, <4>3
    <3>3. CASE x \in {<<p, "RX", n>> : n \in 0 .. rx_queues_per_port[p] - 1}
      <4>1. PICK n \in 0 .. rx_queues_per_port[p] - 1 : x = <<p, "RX", n>> BY <3>3
      <4>2. n \in Nat /\ n < rx_queues_per_port[p] BY <2>5, <4>1
      <4>3. \E k \in DOMAIN lcore_config : QueueOf(lcore_config[k]) = x
        BY <2>5, <4>1, <4>2 DEF Given
      <4> QED BY <2>3, <4>3
    <3> QED BY <3>1, <3>2, <3>3
  <2>8. queues_set_up = U
    <3> HIDE DEF U
    <3> QED BY <2>6, <2>7
  <2> QED BY <2>2, <2>3, <2>8
<1> QED BY <1>1, SetupInvariant, PTL

=============================================================================
