--------------------------- MODULE SyncQueueProofs ---------------------------
(***************************************************************************)
(* Proofs about SyncQueue for any set of callers, who may call Trigger at  *)
(* any time: type correctness, and that the channel of size one keeps the  *)
(* promise of CoalescedSync.                                               *)
(***************************************************************************)
EXTENDS SyncQueue, TLAPS

\* The loop holds a batch exactly between taking a token and starting the sync
\* that serves it: it never syncs for nothing, and never forgets a batch.
NeverForNothing == batch # {} <=> qpc \in {"drain", "wait", "call"}

QueueInv == TypeOK /\ NeverForNothing

-----------------------------------------------------------------------------
\* Every variable of the queue stays in its type, whatever triggers come in and
\* whatever the monitor reports.
THEOREM TypeCorrect == Spec => []TypeOK
<1>1. Init => TypeOK
  BY DEF Init, TypeOK
<1>2. ASSUME TypeOK, [Next]_vars
      PROVE  TypeOK'
  BY <1>2 DEF TypeOK, Next, vars, queueVars, Trigger, Loop, Receive, Drain,
              Drained, WaitOver, CallSync, SyncReturns, MonitorChanges
<1> QED
  BY <1>1, <1>2, PTL DEF Spec

\* The inductive invariant: the loop holds triggers exactly when it is past
\* "for range q.trigger" and before syncFn.
THEOREM QueueInductive == Spec => []QueueInv
<1>1. Init => QueueInv
  BY DEF Init, QueueInv, TypeOK, NeverForNothing
<1>2. ASSUME QueueInv, [Next]_vars
      PROVE  NeverForNothing'
  <2> USE <1>2 DEF QueueInv, TypeOK, NeverForNothing
  <2>1. ASSUME NEW c \in Callers, Trigger(c)
        PROVE  NeverForNothing'
    BY <2>1 DEF Trigger
  <2>2. CASE Receive
    BY <2>2 DEF Receive
  <2>3. CASE Drain
    <3>1. batch' # {}
      BY <2>3 DEF Drain
    <3> QED
      BY <2>3, <3>1 DEF Drain
  <2>4. CASE Drained
    BY <2>4 DEF Drained
  <2>5. CASE WaitOver
    BY <2>5 DEF WaitOver
  <2>6. CASE CallSync
    BY <2>6 DEF CallSync
  <2>7. CASE SyncReturns
    BY <2>7 DEF SyncReturns
  <2>8. CASE MonitorChanges
    BY <2>8 DEF MonitorChanges, queueVars
  <2>9. CASE UNCHANGED vars
    BY <2>9 DEF vars, queueVars
  <2> QED
    BY <2>1, <2>2, <2>3, <2>4, <2>5, <2>6, <2>7, <2>8, <2>9 DEF Next, Loop
<1> QED
  BY <1>1, <1>2, TypeCorrect, PTL DEF Spec, QueueInv

-----------------------------------------------------------------------------
\* Every step of the queue is a step the promise allows, or none at all: the
\* moves of a call between the channel and the loop's batch are invisible.
LEMMA PromiseStep ==
    ASSUME QueueInv, [Next]_vars
    PROVE  [Promise!CoalescedNext]_(Promise!syncVars)
<1> USE DEF QueueInv, TypeOK, Promise!CoalescedNext, Promise!syncVars
<1>1. ASSUME NEW c \in Callers, Trigger(c)
      PROVE  Promise!CoalescedNext
  <2>1. Promise!Ask(c)
    BY <1>1 DEF Trigger, Promise!Ask
  <2> QED
    BY <2>1
<1>2. CASE Receive
  <2>1. batch = {}
    BY <1>2 DEF Receive, NeverForNothing
  <2> QED
    BY <1>2, <2>1 DEF Receive
<1>3. CASE Drain
  BY <1>3 DEF Drain
<1>4. CASE Drained
  BY <1>4 DEF Drained
<1>5. CASE WaitOver
  BY <1>5 DEF WaitOver
<1>6. CASE CallSync
  <2>1. batch # {} /\ ~(qpc = "syncing") /\ (qpc = "syncing")' = TRUE
    BY <1>6 DEF CallSync, NeverForNothing
  <2>2. (trigger \cup batch)' \in SUBSET (trigger \cup batch)
    BY <1>6 DEF CallSync
  <2>3. Promise!Begin
    BY <2>1, <2>2 DEF Promise!Begin
  <2> QED
    BY <2>3
<1>7. CASE SyncReturns
  <2>1. Promise!End
    BY <1>7 DEF SyncReturns, Promise!End
  <2> QED
    BY <2>1
<1>8. CASE MonitorChanges
  BY <1>8 DEF MonitorChanges, queueVars
<1>9. CASE UNCHANGED vars
  BY <1>9 DEF vars, queueVars
<1> QED
  BY <1>1, <1>2, <1>3, <1>4, <1>5, <1>6, <1>7, <1>8, <1>9 DEF Next, Loop

\* SyncQueue implements its promise: no Trigger call is lost in the channel, the
\* drain or the wait, and no queued sync runs without one.
THEOREM KeepsPromise == Spec => ServesEveryTrigger
<1>1. Init => Promise!CoalescedInit
  BY DEF Init, Promise!CoalescedInit
<1>2. QueueInv /\ [Next]_vars => [Promise!CoalescedNext]_(Promise!syncVars)
  BY PromiseStep
<1> QED
  BY <1>1, <1>2, QueueInductive, PTL
  DEF Spec, ServesEveryTrigger, Promise!CoalescedSpec

=============================================================================
