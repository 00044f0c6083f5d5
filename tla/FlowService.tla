---------------------------- MODULE FlowService ----------------------------
(***************************************************************************)
(* What the connection-tracking tables promise to the forwarding loop of   *)
(* l2fwd, whichever of them (maglev or dramblast) is selected.             *)
(*                                                                         *)
(* An lcore submits a batch of flow hashes and gets one answer for each:   *)
(* the backend the flow is bound to, or 0, "no mapping".  A flow is bound  *)
(* once, to the backend the lookup table gives it, and the binding never   *)
(* changes: connection affinity.  A flow may be refused only when at least *)
(* RefusalBound flows are bound.                                           *)
(***************************************************************************)
EXTENDS Naturals, FiniteSets, Sequences

CONSTANTS Lcores,        \* the worker lcores
          Keys,          \* flow hashes; 0 is not one of them
          Backend,       \* the lookup table: the backend of every flow
          Batches,       \* the batches an lcore may submit
          RefusalBound   \* flows that must be bound before one is refused

VARIABLES bound,   \* bound[k]: the backend flow k is bound to, 0 if none
          batch,   \* batch[t]: the batch t waits for, <<>> if none
          answer   \* answer[t]: the answers so far, by position in the batch

vars == <<bound, batch, answer>>

BoundFlows == {k \in Keys : bound[k] # 0}

Unanswered(t) == DOMAIN batch[t] \ DOMAIN answer[t]

Init ==
    /\ bound = [k \in Keys |-> 0]
    /\ batch = [t \in Lcores |-> <<>>]
    /\ answer = [t \in Lcores |-> <<>>]

Submit(t) ==
    /\ batch[t] = <<>>
    /\ \E b \in Batches : batch' = [batch EXCEPT ![t] = b]
    /\ UNCHANGED <<bound, answer>>

\* Record v as the answer to position i of t's batch.
Record(t, i, v) ==
    answer' = [answer EXCEPT ![t] =
                  [j \in DOMAIN answer[t] \cup {i} |->
                      IF j = i THEN v ELSE answer[t][j]]]

\* A new flow is bound to its backend, and that is the answer.
Bind(t, i) ==
    /\ bound[batch[t][i]] = 0
    /\ bound' = [bound EXCEPT ![batch[t][i]] = Backend[batch[t][i]]]
    /\ Record(t, i, Backend[batch[t][i]])
    /\ UNCHANGED batch

\* A known flow keeps its backend.
Lookup(t, i) ==
    /\ bound[batch[t][i]] # 0
    /\ Record(t, i, bound[batch[t][i]])
    /\ UNCHANGED <<bound, batch>>

\* The table cannot hold the flow.
Refuse(t, i) ==
    /\ Cardinality(BoundFlows) >= RefusalBound
    /\ Record(t, i, 0)
    /\ UNCHANGED <<bound, batch>>

Return(t) ==
    /\ batch[t] # <<>>
    /\ Unanswered(t) = {}
    /\ batch' = [batch EXCEPT ![t] = <<>>]
    /\ answer' = [answer EXCEPT ![t] = <<>>]
    /\ UNCHANGED bound

Next ==
    \E t \in Lcores :
        \/ Submit(t)
        \/ \E i \in Unanswered(t) : Bind(t, i) \/ Lookup(t, i) \/ Refuse(t, i)
        \/ Return(t)

Spec == Init /\ [][Next]_vars

=============================================================================
