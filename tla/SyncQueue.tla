------------------------------ MODULE SyncQueue ------------------------------
(***************************************************************************)
(* The queue that coalesces sync triggers, internal/proxy/sync_queue.go.   *)
(*                                                                         *)
(* The channel holds at most one token.  The model keeps, for every token, *)
(* whose Trigger calls it stands for: a call that finds the channel full   *)
(* is dropped by the code and joins the token that is already there.       *)
(* Callers may call at any time, and again before they have been served.   *)
(***************************************************************************)
CONSTANT Callers        \* of Trigger, each any number of times

VARIABLES
    trigger,            \* q.trigger: who is behind its token, {} when empty
    batch,              \* whose calls the loop has received and not yet served
    qpc,                \* where loop() is
    gState              \* grafanaMonitor.State()

queueVars == <<trigger, batch, qpc>>
vars      == <<queueVars, gState>>

TypeOK ==
    /\ trigger \in SUBSET Callers
    /\ batch \in SUBSET Callers
    /\ qpc \in {"idle", "drain", "wait", "call", "syncing"}
    /\ gState \in {"Up", "Down"}

\* main wires the monitor, optimistic at first, before it serves requests, so
\* that the loop never meets a trigger without one.
Init ==
    /\ trigger = {}
    /\ batch = {}
    /\ qpc = "idle"
    /\ gState = "Up"

-----------------------------------------------------------------------------
\* Trigger, from an HTTP handler: send if there is room, else do nothing.
Trigger(c) ==
    /\ trigger' = trigger \cup {c}
    /\ UNCHANGED <<batch, qpc, gState>>

\* "for range q.trigger" takes the token.
Receive ==
    /\ qpc = "idle"
    /\ trigger # {}
    /\ batch' = trigger
    /\ trigger' = {}
    /\ qpc' = "drain"
    /\ UNCHANGED gState

\* "for len(q.trigger) > 0": tokens that came in meanwhile join the batch, and
\* as long as more keep coming this does not end.
Drain ==
    /\ qpc = "drain"
    /\ trigger # {}
    /\ batch' = batch \cup trigger
    /\ trigger' = {}
    /\ UNCHANGED <<qpc, gState>>

Drained ==
    /\ qpc = "drain"
    /\ trigger = {}
    /\ qpc' = "wait"
    /\ UNCHANGED <<trigger, batch, gState>>

\* The polling loop ends at a poll that does not find StateDown.
WaitOver_GivesUp ==
    /\ qpc = "wait"
    /\ qpc' = IF gState = "Down" THEN "idle" ELSE "call"
    /\ batch' = IF gState = "Down" THEN {} ELSE batch
    /\ UNCHANGED <<trigger, gState>>

WaitOver ==
    /\ qpc = "wait"
    /\ gState # "Down"
    /\ qpc' = "call"
    /\ UNCHANGED <<trigger, batch, gState>>

\* q.syncFn() gets past runMu and begins its pass: this serves the batch.
CallSync ==
    /\ qpc = "call"
    /\ qpc' = "syncing"
    /\ batch' = {}
    /\ UNCHANGED <<trigger, gState>>

\* It returns; whether the pass failed is only logged (doSync in main.go).
SyncReturns_Drains ==
    /\ qpc = "syncing"
    /\ qpc' = "idle"
    /\ trigger' = {}
    /\ UNCHANGED <<batch, gState>>

SyncReturns_Exits ==
    /\ qpc = "syncing"
    /\ qpc' = "exited"
    /\ UNCHANGED <<trigger, batch, gState>>

SyncReturns ==
    /\ qpc = "syncing"
    /\ qpc' = "idle"
    /\ UNCHANGED <<trigger, batch, gState>>

\* The monitor goes up and down, whatever the loop has just read.
MonitorChanges ==
    /\ gState' = IF gState = "Up" THEN "Down" ELSE "Up"
    /\ UNCHANGED queueVars

Loop ==
    \/ Receive
    \/ Drain
    \/ Drained
    \/ WaitOver
    \/ CallSync
    \/ SyncReturns

Next ==
    \/ \E c \in Callers : Trigger(c)
    \/ Loop
    \/ MonitorChanges

(***************************************************************************)
(* The goroutine runs and its sync returns; nobody is obliged to trigger,  *)
(* or to stop doing so.                                                    *)
(***************************************************************************)
Spec == Init /\ [][Next]_vars /\ WF_vars(Loop)

-----------------------------------------------------------------------------
\* The promise, under the mapping that hides the channel and the loop.
Promise == INSTANCE CoalescedSync
           WITH outstanding <- trigger \cup batch, running <- qpc = "syncing"

\* No trigger is lost and no sync runs without one: whoever found the channel
\* full, or called during the drain, the wait or a sync, is served by a sync that
\* begins after the call.
ServesEveryTrigger == Promise!CoalescedSpec

\* If Grafana stays up, every trigger is taken by the loop, and what the loop has
\* taken is served, whatever comes in behind it.  The second premise is needed: the
\* drain has no limit, and triggers that come in as fast as it takes them keep the
\* loop there for ever, with nobody served.
TriggersAreServed ==
    (<>[](gState = "Up") /\ []<>(qpc # "drain")) =>
        \A c \in Callers : /\ c \in trigger ~> c \in batch
                           /\ c \in batch ~> c \notin batch

(***************************************************************************)
(* What the comment of SyncQueue says, and the code does not ensure.  The  *)
(* loop may have read StateUp before the monitor closes the gate.          *)
(***************************************************************************)
\* "When Grafana is down, triggers are queued but not executed immediately."
NoSyncWhileDown ==
    [][qpc = "call" /\ qpc' = "syncing" => gState = "Up"]_vars

=============================================================================
