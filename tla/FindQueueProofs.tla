-------------------------- MODULE FindQueueProofs --------------------------
(***************************************************************************)
(* The ring of the find queue is a queue, for every size, batch length and *)
(* probe bound.                                                            *)
(***************************************************************************)
EXTENDS FindQueue, SequenceTheorems, TLAPS

USE RingAssumption DEF Slots, Ids, Items, NoSlot

LEMMA IncTyped == ASSUME NEW i \in Slots PROVE Inc(i) \in Slots
  BY DEF Inc

\* dramblast_get_queue_sz is at most find_queue_size - 1.
LEMMA QueueSzTyped == ASSUME TypeOK PROVE QueueSz \in 0 .. Size - 1
  BY DEF TypeOK, QueueSz

LEMMA AtTyped ==
    ASSUME TypeOK, NEW j \in 1 .. QueueSz PROVE At(j) \in Items
  <1>1. QueueSz \in 0 .. Size - 1 BY QueueSzTyped
  <1> QED BY <1>1 DEF TypeOK, At, Pos

LEMMA ContentsTyped ==
    ASSUME TypeOK
    PROVE  /\ Contents \in Seq(Items)
           /\ Len(Contents) = QueueSz
           /\ \A j \in 1 .. QueueSz : Contents[j] = At(j)
  <1>1. QueueSz \in Nat BY QueueSzTyped
  <1> QED BY <1>1, AtTyped DEF Contents

\* A push on a ring with room writes behind the last item of the queue.
LEMMA PushExtends ==
    ASSUME TypeOK, NEW x \in Items, QueueSz < Size - 1, Push(x)
    PROVE  /\ QueueSz' = QueueSz + 1
           /\ \A j \in 1 .. QueueSz : At(j)' = At(j)
           /\ At(QueueSz)' = x
  <1>1. QueueSz' = QueueSz + 1
    BY SMTT(40) DEF TypeOK, QueueSz, Push, Inc
  <1>2. ASSUME NEW j \in 1 .. QueueSz PROVE At(j)' = At(j)
    BY SMTT(40) DEF TypeOK, QueueSz, Push, Inc, At, Pos
  <1>3. At(QueueSz)' = x
    <2>1. find_queue_head = Pos(find_queue_tail + (QueueSz + 1) - 1)
      BY DEF TypeOK, QueueSz, Pos
    <2>2. find_queue'[find_queue_head] = x /\ find_queue_tail' = find_queue_tail
      BY DEF TypeOK, Push
    <2>3. At(QueueSz)' = find_queue'[Pos(find_queue_tail' + QueueSz' - 1)]
      BY DEF At, Pos
    <2>4. At(QueueSz)' = find_queue'[Pos(find_queue_tail + (QueueSz + 1) - 1)]
      BY <1>1, <2>2, <2>3
    <2> QED BY <2>1, <2>2, <2>4
  <1> QED BY <1>1, <1>2, <1>3

\* A pop of a ring that is not empty leaves the items behind the first one.
LEMMA PopShifts ==
    ASSUME TypeOK, QueueSz > 0, find_queue_tail' = Inc(find_queue_tail),
           UNCHANGED <<find_queue, find_queue_head>>
    PROVE  /\ QueueSz' = QueueSz - 1
           /\ \A j \in 1 .. QueueSz - 1 : At(j)' = At(j + 1)
           /\ At(1) = find_queue[find_queue_tail]
  <1>1. QueueSz' = QueueSz - 1
    BY DEF TypeOK, QueueSz, Inc
  <1>2. ASSUME NEW j \in 1 .. QueueSz - 1 PROVE At(j)' = At(j + 1)
    <2>1. QueueSz \in 0 .. Size - 1 BY QueueSzTyped
    <2>2. Pos(find_queue_tail' + j - 1) = Pos(find_queue_tail + (j + 1) - 1)
      BY <2>1 DEF TypeOK, Pos, Inc
    <2>3. At(j)' = find_queue'[Pos(find_queue_tail' + j - 1)]
      BY DEF At, Pos
    <2> QED BY <2>2, <2>3 DEF At
  <1>3. At(1) = find_queue[find_queue_tail]
    BY DEF TypeOK, At, Pos
  <1> QED BY <1>1, <1>2, <1>3

LEMMA PushTyped ==
    ASSUME TypeOK, NEW x \in Items, Push(x)
    PROVE  /\ find_queue' \in [Slots -> Items]
           /\ find_queue_head' \in Slots
           /\ find_queue_tail' \in Slots
  BY IncTyped DEF TypeOK, Push

\* The ring is not empty when it is popped.
LEMMA PopNonEmpty == ASSUME IInv, Pop PROVE QueueSz > 0
  <1>1. QueueSz \in 0 .. Size - 1 /\ Len(results) \in Nat
    BY QueueSzTyped DEF IInv, TypeOK
  <1> QED BY <1>1 DEF IInv, TypeOK, Accounted, Pop, CanFill

\* What each action does to the ring, the popped lookup and the results, in
\* terms of the queue between tail and head.
LEMMA FillEffect ==
    ASSUME IInv, Fill
    PROVE  LET x == [id |-> args_head + 1, visit_count |-> 0]
           IN  /\ x \in Items
               /\ QueueSz < Size - 1
               /\ QueueSz' = QueueSz + 1
               /\ \A j \in 1 .. QueueSz : At(j)' = At(j)
               /\ At(QueueSz)' = x
  <1> DEFINE x == [id |-> args_head + 1, visit_count |-> 0]
  <1>1. x \in Items
    BY DEF IInv, TypeOK, Fill, CanFill
  <1>2. QueueSz < Size - 1 /\ Push(x)
    BY DEF Fill, CanFill
  <1> QED BY <1>1, <1>2, PushExtends DEF IInv

LEMMA RequeueEffect ==
    ASSUME IInv, Requeue
    PROVE  LET old == find_queue[queue_tail_slot]
               x == [id |-> old.id, visit_count |-> old.visit_count + 1]
           IN  /\ old \in Items
               /\ x \in Items
               /\ Push(x)
               /\ QueueSz < Size - 1
               /\ QueueSz' = QueueSz + 1
               /\ \A j \in 1 .. QueueSz : At(j)' = At(j)
               /\ At(QueueSz)' = x
  <1> DEFINE old == find_queue[queue_tail_slot]
             x == [id |-> old.id, visit_count |-> old.visit_count + 1]
  <1>1. old \in Items
    BY DEF IInv, TypeOK, Requeue
  <1>2. x \in Items /\ [old EXCEPT !.visit_count = @ + 1] = x
    BY <1>1 DEF Requeue
  <1>3. QueueSz < Size - 1 /\ Push(x)
    BY <1>2 DEF IInv, RoomToPutBack, Requeue
  <1> HIDE DEF x, old
  <1>4. /\ QueueSz' = QueueSz + 1
        /\ \A j \in 1 .. QueueSz : At(j)' = At(j)
        /\ At(QueueSz)' = x
    BY <1>2, <1>3, PushExtends DEF IInv
  <1> QED BY <1>1, <1>2, <1>3, <1>4 DEF x, old

\* A push is made of an argument or of the popped lookup, with room for it.
LEMMA TypeStep == ASSUME IInv, [Next]_vars PROVE TypeOK'
  <1> USE DEF IInv
  <1>1. CASE Begin
    BY <1>1 DEF TypeOK, Begin, ring
  <1>2. CASE Fill
    <2>1. /\ find_queue' \in [Slots -> Items]
          /\ find_queue_head' \in Slots
          /\ find_queue_tail' \in Slots
      BY <1>2, FillEffect, PushTyped DEF Fill
    <2>2. args_head + 1 \in 0 .. args_len
      BY <1>2 DEF TypeOK, Fill, CanFill
    <2> QED BY <1>2, <2>1, <2>2 DEF TypeOK, Fill
  <1>3. CASE Pop
    BY <1>3, IncTyped DEF TypeOK, Pop, batch
  <1>4. CASE Resolve
    <2>1. find_queue[queue_tail_slot].id \in Ids
      BY <1>4 DEF TypeOK, Resolve
    <2> QED BY <1>4, <2>1, SMTT(40) DEF TypeOK, Resolve, ring, batch
  <1>5. CASE Requeue
    <2>1. /\ find_queue' \in [Slots -> Items]
          /\ find_queue_head' \in Slots
          /\ find_queue_tail' \in Slots
      BY <1>5, RequeueEffect, PushTyped
    <2> QED BY <1>5, <2>1 DEF TypeOK, Requeue, batch
  <1>6. CASE End
    BY <1>6 DEF TypeOK, End, ring
  <1>7. CASE UNCHANGED vars
    BY <1>7 DEF TypeOK, vars, ring, batch
  <1> QED BY <1>1, <1>2, <1>3, <1>4, <1>5, <1>6, <1>7 DEF Next

LEMMA RingUnchanged ==
    ASSUME UNCHANGED ring
    PROVE  QueueSz' = QueueSz /\ \A j \in 1 .. QueueSz : At(j)' = At(j)
  BY DEF ring, QueueSz, At, Pos

LEMMA AccountedStep ==
    ASSUME IInv, [Next]_vars PROVE Accounted' /\ RoomToPutBack'
  <1> USE DEF IInv
  <1>0. QueueSz \in 0 .. Size - 1 /\ Len(results) \in Nat
    BY QueueSzTyped DEF TypeOK
  <1>1. CASE Begin
    BY <1>1, RingUnchanged DEF Accounted, RoomToPutBack, Begin
  <1>2. CASE Fill
    BY <1>2, <1>0, FillEffect, SMTT(40) DEF TypeOK, Accounted, RoomToPutBack, Fill
  <1>3. CASE Pop
    <2>1. QueueSz' = QueueSz - 1
      BY <1>3, PopNonEmpty, PopShifts DEF Pop
    <2>2. queue_tail_slot' # NoSlot
      BY <1>3 DEF TypeOK, Pop
    <2> QED BY <1>3, <1>0, <2>1, <2>2 DEF TypeOK, Accounted, RoomToPutBack, Pop, batch
  <1>4. CASE Resolve
    <2>1. Len(results') = Len(results) + 1
      BY <1>4 DEF TypeOK, Resolve
    <2> QED BY <1>4, <1>0, <2>1, RingUnchanged
            DEF TypeOK, Accounted, RoomToPutBack, Resolve, batch
  <1>5. CASE Requeue
    <2>1. QueueSz' = QueueSz + 1
      BY <1>5, RequeueEffect
    <2>2. /\ queue_tail_slot # NoSlot /\ queue_tail_slot' = NoSlot
          /\ UNCHANGED <<args_head, results>>
      BY <1>5 DEF Requeue, batch
    <2> QED BY <1>0, <2>1, <2>2 DEF Accounted, RoomToPutBack
  <1>6. CASE End
    BY <1>6, <1>0, RingUnchanged DEF TypeOK, Accounted, RoomToPutBack, End
  <1>7. CASE UNCHANGED vars
    BY <1>7, RingUnchanged DEF Accounted, RoomToPutBack, vars, batch
  <1> QED BY <1>1, <1>2, <1>3, <1>4, <1>5, <1>6, <1>7 DEF Next

\* Every step moves lookups between queue, probe and results; none is lost
\* and none appears but the one that Fill pushes.
LEMMA TrackedStep == ASSUME IInv, [Next]_vars PROVE Tracked'
  <1> USE DEF IInv
  <1>0. QueueSz \in 0 .. Size - 1 /\ Len(results) \in Nat /\ args_head \in Nat
    BY QueueSzTyped DEF TypeOK
  <1>a. SUFFICES ASSUME NEW id \in Ids
                 PROVE  id <= args_head' <=> Somewhere(id)'
    BY DEF Tracked
  <1>b. id <= args_head <=> Somewhere(id)
    BY DEF Tracked
  <1>1. CASE Begin
    BY <1>1, <1>b, RingUnchanged DEF Begin, Somewhere, ring
  <1>2. CASE Fill
    <2>1. /\ QueueSz' = QueueSz + 1
          /\ \A j \in 1 .. QueueSz : At(j)' = At(j)
          /\ At(QueueSz)' = [id |-> args_head + 1, visit_count |-> 0]
      BY <1>2, FillEffect
    <2>2. (\E j \in 1 .. QueueSz' : At(j)'.id = id)
             <=> (\E j \in 1 .. QueueSz : At(j).id = id) \/ id = args_head + 1
      BY <1>0, <2>1
    <2> QED BY <1>2, <1>0, <1>b, <2>2 DEF Fill, Somewhere
  <1>3. CASE Pop
    <2>1. /\ QueueSz' = QueueSz - 1
          /\ \A j \in 1 .. QueueSz - 1 : At(j)' = At(j + 1)
          /\ At(1) = find_queue[find_queue_tail]
          /\ QueueSz > 0
      BY <1>3, PopNonEmpty, PopShifts DEF Pop
    <2>2. (\E j \in 1 .. QueueSz : At(j).id = id)
             <=> (\E j \in 1 .. QueueSz' : At(j)'.id = id)
                 \/ find_queue[find_queue_tail].id = id
      <3>1. ASSUME NEW j \in 1 .. QueueSz, At(j).id = id
            PROVE  \/ \E m \in 1 .. QueueSz' : At(m)'.id = id
                   \/ find_queue[find_queue_tail].id = id
        <4>1. CASE j = 1 BY <3>1, <4>1, <2>1
        <4>2. CASE j # 1
          <5>1. j - 1 \in 1 .. QueueSz - 1 /\ (j - 1) + 1 = j
            BY <1>0, <4>2
          <5>2. PICK m \in 1 .. QueueSz - 1 : m + 1 = j BY <5>1
          <5> QED BY <5>2, <2>1, <3>1
        <4> QED BY <4>1, <4>2
      <3>2. ASSUME NEW m \in 1 .. QueueSz', At(m)'.id = id
            PROVE  \E j \in 1 .. QueueSz : At(j).id = id
        <4>1. m \in 1 .. QueueSz - 1 /\ m + 1 \in 1 .. QueueSz
          BY <1>0, <2>1
        <4>2. At(m + 1).id = id BY <2>1, <3>2, <4>1
        <4> QED BY <4>1, <4>2
      <3>3. 1 \in 1 .. QueueSz BY <1>0, <2>1
      <3> QED BY <3>1, <3>2, <3>3, <2>1
    <2>3. /\ queue_tail_slot = NoSlot
          /\ queue_tail_slot' # NoSlot
          /\ find_queue'[queue_tail_slot'] = find_queue[find_queue_tail]
          /\ UNCHANGED <<args_head, results>>
      BY <1>3 DEF TypeOK, Pop, batch
    <2> QED BY <1>b, <2>2, <2>3 DEF Somewhere
  <1>4. CASE Resolve
    <2>1. /\ results' = Append(results, find_queue[queue_tail_slot].id)
          /\ queue_tail_slot # NoSlot /\ queue_tail_slot' = NoSlot
          /\ args_head' = args_head
      BY <1>4 DEF Resolve, batch
    <2>2. (\E n \in 1 .. Len(results)' : results'[n] = id)
             <=> (\E n \in 1 .. Len(results) : results[n] = id)
                 \/ find_queue[queue_tail_slot].id = id
      <3>1. find_queue[queue_tail_slot].id \in Ids /\ results \in Seq(Ids)
        BY <2>1 DEF TypeOK
      <3>2. /\ Len(results') = Len(results) + 1
            /\ \A n \in 1 .. Len(results) : results'[n] = results[n]
            /\ results'[Len(results) + 1] = find_queue[queue_tail_slot].id
        BY <2>1, <3>1, AppendProperties
      <3> QED BY <1>0, <3>2
    <2>3. (\E j \in 1 .. QueueSz' : At(j)'.id = id)
             <=> (\E j \in 1 .. QueueSz : At(j).id = id)
      BY <1>4, RingUnchanged DEF Resolve
    <2> QED BY <1>b, <2>1, <2>2, <2>3 DEF Somewhere
  <1>5. CASE Requeue
    <2> DEFINE old == find_queue[queue_tail_slot]
    <2>1. /\ QueueSz' = QueueSz + 1
          /\ \A j \in 1 .. QueueSz : At(j)' = At(j)
          /\ At(QueueSz)' = [id |-> old.id, visit_count |-> old.visit_count + 1]
      BY <1>5, RequeueEffect
    <2>2. (\E j \in 1 .. QueueSz' : At(j)'.id = id)
             <=> (\E j \in 1 .. QueueSz : At(j).id = id) \/ id = old.id
      BY <1>0, <2>1
    <2>3. /\ queue_tail_slot # NoSlot
          /\ queue_tail_slot' = NoSlot
          /\ UNCHANGED <<args_head, results>>
      BY <1>5 DEF Requeue, batch
    <2> QED BY <1>b, <2>2, <2>3 DEF Somewhere
  <1>6. CASE End
    <2>1. QueueSz' = 0 /\ Len(results') = 0
      BY <1>6, <1>0, RingUnchanged DEF TypeOK, Accounted, End
    <2> QED BY <1>6, <2>1 DEF End, Somewhere
  <1>7. CASE UNCHANGED vars
    BY <1>7, <1>b, RingUnchanged DEF vars, batch, ring, Somewhere
  <1> QED BY <1>1, <1>2, <1>3, <1>4, <1>5, <1>6, <1>7 DEF Next


LEMMA InitIInv == ASSUME Init PROVE IInv
  <1>1. TypeOK
    BY DEF Init, TypeOK
  <1>2. QueueSz = 0 /\ Len(results) = 0 /\ args_head = 0
    BY DEF Init, QueueSz
  <1>3. Accounted /\ RoomToPutBack
    BY <1>2 DEF Init, Accounted, RoomToPutBack
  <1>4. Tracked
    BY <1>2 DEF Init, Tracked, Somewhere
  <1> QED BY <1>1, <1>3, <1>4 DEF IInv

\* The inductive invariant of the find queue holds in every reachable state.
THEOREM Invariant == Spec => []IInv
  <1>1. IInv /\ [Next]_vars => IInv'
    BY TypeStep, AccountedStep, TrackedStep DEF IInv
  <1> QED BY InitIInv, <1>1, PTL DEF Spec

\* Type correctness: head and tail never leave the ring of dramblast_queue_t.
THEOREM TypeCorrect == Spec => []TypeOK
  <1>1. IInv => TypeOK BY DEF IInv
  <1> QED BY Invariant, <1>1, PTL

\* Every batch of dramblast_find_batch_sync ends with one result for each
\* argument and an empty ring.
THEOREM BatchesComplete == Spec => []BatchComplete
  <1>1. ASSUME IInv PROVE BatchComplete
    <2> USE DEF IInv
    <2>1. SUFFICES ASSUME args_len > 0, Len(results) >= args_len,
                          queue_tail_slot = NoSlot
                   PROVE  /\ find_queue_head = find_queue_tail
                          /\ Len(results) = args_len
                          /\ {results[n] : n \in DOMAIN results} = 1 .. args_len
      BY <1>1 DEF BatchComplete
    <2>2. QueueSz \in 0 .. Size - 1 /\ Len(results) \in Nat
      BY <1>1, QueueSzTyped DEF TypeOK
    <2>3. QueueSz = 0 /\ Len(results) = args_len /\ args_head = args_len
      BY <1>1, <2>1, <2>2 DEF TypeOK, Accounted
    <2>4. find_queue_head = find_queue_tail
      BY <1>1, <2>3 DEF TypeOK, QueueSz
    <2>5. \A id \in Ids : id <= args_len <=> \E n \in 1 .. Len(results) : results[n] = id
      BY <1>1, <2>1, <2>3 DEF Tracked, Somewhere
    <2>6. results \in Seq(Ids) /\ args_len \in 0 .. MaxArgs
      BY <1>1 DEF TypeOK
    <2>7. ASSUME NEW id
          PROVE  id \in {results[n] : n \in DOMAIN results} <=> id \in 1 .. args_len
      BY <2>5, <2>6
    <2> QED BY <2>3, <2>4, <2>7
  <1> QED BY Invariant, <1>1, PTL


-----------------------------------------------------------------------------
(* Refinement                                                              *)

LEMMA FunctionIsSeq ==
    ASSUME NEW S, NEW n \in Nat, NEW f \in [1 .. n -> S]
    PROVE  f \in Seq(S) /\ Len(f) = n
  OBVIOUS

LEMMA ContentsTypedNext ==
    ASSUME TypeOK'
    PROVE  /\ Contents' \in Seq(Items)
           /\ Len(Contents') = QueueSz'
           /\ \A j \in 1 .. QueueSz' : Contents'[j] = At(j)'
  <1>0. /\ find_queue' \in [Slots -> Items]
        /\ find_queue_head' \in Slots
        /\ find_queue_tail' \in Slots
    BY DEF TypeOK
  <1>1. QueueSz' \in 0 .. Size - 1
    <2> DEFINE h == find_queue_head'
               t == find_queue_tail'
    <2>1. h \in 0 .. Size - 1 /\ t \in 0 .. Size - 1 BY <1>0
    <2>2. QueueSz' = IF h >= t THEN h - t ELSE h - t + Size BY DEF QueueSz
    <2> HIDE DEF h, t
    <2> QED BY <2>1, <2>2
  <1>2. ASSUME NEW j \in 1 .. QueueSz' PROVE At(j)' \in Items
    <2> DEFINE t == find_queue_tail'
               n == QueueSz'
    <2>0. t \in 0 .. Size - 1 /\ n \in 0 .. Size - 1 /\ j \in 1 .. n
      BY <1>0, <1>1
    <2>1. Pos(t + j - 1) \in Slots
      <3> HIDE DEF t, n
      <3> QED BY <2>0 DEF Pos
    <2>2. At(j)' = find_queue'[Pos(find_queue_tail' + j - 1)]
      BY DEF At, Pos
    <2> QED BY <1>0, <2>1, <2>2
  <1>3. Contents' = [j \in 1 .. QueueSz' |-> At(j)']
    BY DEF Contents
  <1>4. Contents' \in [1 .. QueueSz' -> Items]
    BY <1>2, <1>3, Zenon
  <1>5. QueueSz' \in Nat BY <1>1
  <1>6. ASSUME NEW j \in 1 .. QueueSz' PROVE Contents'[j] = At(j)'
    BY <1>3, Zenon
  <1> QED BY <1>4, <1>5, <1>6, FunctionIsSeq

\* A push appends to the queue, a pop removes its head.
LEMMA ContentsPush ==
    ASSUME TypeOK, TypeOK', NEW x \in Items, QueueSz < Size - 1, Push(x)
    PROVE  Contents' = Append(Contents, x)
  <1>1. /\ Contents \in Seq(Items) /\ Len(Contents) = QueueSz
        /\ \A j \in 1 .. QueueSz : Contents[j] = At(j)
    BY ContentsTyped
  <1>2. /\ Contents' \in Seq(Items) /\ Len(Contents') = QueueSz'
        /\ \A j \in 1 .. QueueSz' : Contents'[j] = At(j)'
    BY ContentsTypedNext
  <1>3. /\ QueueSz' = QueueSz + 1
        /\ \A j \in 1 .. QueueSz : At(j)' = At(j)
        /\ At(QueueSz)' = x
    BY PushExtends
  <1>4. QueueSz \in Nat BY QueueSzTyped
  <1>5. /\ Append(Contents, x) \in Seq(Items)
        /\ Len(Append(Contents, x)) = QueueSz + 1
        /\ \A j \in 1 .. QueueSz : Append(Contents, x)[j] = Contents[j]
        /\ Append(Contents, x)[QueueSz + 1] = x
    BY <1>1, AppendProperties
  <1>6. Contents'[QueueSz + 1] = x
    BY <1>2, <1>3, <1>4
  <1>7. ASSUME NEW j \in 1 .. QueueSz + 1
        PROVE  Contents'[j] = Append(Contents, x)[j]
    <2>1. CASE j = QueueSz + 1 BY <2>1, <1>5, <1>6
    <2>2. CASE j # QueueSz + 1
      <3>1. j \in 1 .. QueueSz /\ j \in 1 .. QueueSz'
        BY <2>2, <1>3, <1>4
      <3> QED BY <3>1, <1>1, <1>2, <1>3, <1>5
    <2> QED BY <2>1, <2>2
  <1>8. \A j \in 1 .. Len(Contents') : Contents'[j] = Append(Contents, x)[j]
    BY <1>2, <1>3, <1>7
  <1>9. Len(Contents') = Len(Append(Contents, x))
    BY <1>2, <1>3, <1>5
  <1> QED BY <1>2, <1>5, <1>8, <1>9, SeqEqual

LEMMA ContentsPop ==
    ASSUME TypeOK, TypeOK', QueueSz > 0, find_queue_tail' = Inc(find_queue_tail),
           UNCHANGED <<find_queue, find_queue_head>>
    PROVE  /\ Contents # <<>>
           /\ Contents' = Tail(Contents)
           /\ Head(Contents) = find_queue[find_queue_tail]
  <1>1. /\ Contents \in Seq(Items) /\ Len(Contents) = QueueSz
        /\ \A j \in 1 .. QueueSz : Contents[j] = At(j)
    BY ContentsTyped
  <1>2. /\ Contents' \in Seq(Items) /\ Len(Contents') = QueueSz'
        /\ \A j \in 1 .. QueueSz' : Contents'[j] = At(j)'
    BY ContentsTypedNext
  <1>3. /\ QueueSz' = QueueSz - 1
        /\ \A j \in 1 .. QueueSz - 1 : At(j)' = At(j + 1)
        /\ At(1) = find_queue[find_queue_tail]
    BY PopShifts
  <1>4. QueueSz \in Nat BY QueueSzTyped
  <1>5. Contents # <<>> BY <1>1, <1>4
  <1>6. /\ Tail(Contents) \in Seq(Items)
        /\ Len(Tail(Contents)) = QueueSz - 1
        /\ \A j \in 1 .. QueueSz - 1 : Tail(Contents)[j] = Contents[j + 1]
    BY <1>1, <1>5, HeadTailProperties
  <1>7. ASSUME NEW j \in 1 .. QueueSz - 1
        PROVE  Contents'[j] = Tail(Contents)[j]
    <2>1. j \in 1 .. QueueSz' /\ j + 1 \in 1 .. QueueSz
      BY <1>3, <1>4
    <2> QED BY <2>1, <1>1, <1>2, <1>3, <1>6
  <1>8. Contents' = Tail(Contents)
    BY <1>2, <1>3, <1>6, <1>7, SeqEqual
  <1>9. Head(Contents) = find_queue[find_queue_tail]
    <2>1. 1 \in 1 .. QueueSz BY <1>4
    <2>2. Head(Contents) = Contents[1] BY <1>1, <1>5
    <2> QED BY <2>1, <2>2, <1>1, <1>3
  <1> QED BY <1>5, <1>8, <1>9

LEMMA ContentsSame == ASSUME UNCHANGED ring PROVE Contents' = Contents
  BY DEF ring, Contents, QueueSz, At, Pos

\* Every step of the ring is a step of the abstract queue, or none of its own.
LEMMA RingStep ==
    ASSUME IInv, TypeOK', [Next]_vars
    PROVE  [Queue!Next]_<<Contents, Held>>
  <1> USE DEF IInv
  <1>1. CASE Begin \/ End
    BY <1>1, ContentsSame DEF Begin, End, Held, ring
  <1>2. CASE Fill
    <2> DEFINE x == [id |-> args_head + 1, visit_count |-> 0]
    <2>1. x \in Items /\ QueueSz < Size - 1 /\ Push(x)
      BY <1>2, FillEffect DEF Fill
    <2>2. Contents' = Append(Contents, x) /\ Len(Contents) < Size - 1
      BY <2>1, ContentsPush, ContentsTyped
    <2>3. Held = <<>> /\ Held' = <<>>
      BY <1>2 DEF Fill, Held
    <2>4. x.visit_count = 0 OBVIOUS
    <2> HIDE DEF x
    <2> QED BY <2>1, <2>2, <2>3, <2>4 DEF Queue!Next, Queue!Enqueue, Items
  <1>3. CASE Pop
    <2>1. /\ Contents # <<>>
          /\ Contents' = Tail(Contents)
          /\ Head(Contents) = find_queue[find_queue_tail]
      BY <1>3, PopNonEmpty, ContentsPop DEF Pop
    <2>2. Held = <<>> /\ Held' = <<find_queue[find_queue_tail]>>
      BY <1>3 DEF TypeOK, Pop, Held
    <2> QED BY <2>1, <2>2 DEF Queue!Next, Queue!Dequeue
  <1>4. CASE Resolve
    <2>1. Held # <<>> /\ Held' = <<>>
      BY <1>4 DEF Resolve, Held
    <2> QED BY <1>4, <2>1, ContentsSame DEF Resolve, Queue!Next, Queue!Finish
  <1>5. CASE Requeue
    <2> DEFINE old == find_queue[queue_tail_slot]
               x == [id |-> old.id, visit_count |-> old.visit_count + 1]
    <2>1. old \in Items /\ x \in Items /\ QueueSz < Size - 1 /\ Push(x)
      BY <1>5, RequeueEffect
    <2>2. Contents' = Append(Contents, x)
      BY <2>1, ContentsPush
    <2>3. Held = <<old>> /\ Held' = <<>>
      BY <1>5 DEF Requeue, Held
    <2>4. x.id = old.id /\ x.visit_count > old.visit_count
      BY <2>1
    <2> HIDE DEF x, old
    <2> QED BY <2>1, <2>2, <2>3, <2>4 DEF Queue!Next, Queue!PutBack
  <1>6. CASE UNCHANGED vars
    BY <1>6, ContentsSame DEF vars, ring, Held
  <1> QED BY <1>1, <1>2, <1>3, <1>4, <1>5, <1>6 DEF Next

\* The ring with its head and tail, as dramblast_find_batch_sync drives it,
\* implements a first-in first-out queue of find_queue_size - 1 lookups.
THEOREM RingIsQueue == Spec => ImplementsLookupQueue
  <1>1. Init => Queue!Init
    <2>1. SUFFICES ASSUME Init PROVE Contents = <<>> /\ Held = <<>>
      BY DEF Queue!Init
    <2>2. QueueSz = 0 BY <2>1 DEF Init, QueueSz
    <2> QED BY <2>1, <2>2 DEF Init, Contents, Held
  <1>2. IInv /\ IInv' /\ [Next]_vars => [Queue!Next]_<<Contents, Held>>
    BY RingStep DEF IInv
  <1> QED BY Invariant, <1>1, <1>2, PTL DEF Spec, ImplementsLookupQueue, Queue!Spec


=============================================================================
