-------------------------------- MODULE Savras --------------------------------
(***************************************************************************)
(* Savras as cmd/savras/main.go puts it together: the middleware chain and *)
(* the login and logout handlers of internal/proxy/proxy.go, the token     *)
(* generations of internal/auth/auth.go, the sync worker of                *)
(* internal/sync/sync.go, and the recovery callback that joins them.       *)
(*                                                                         *)
(* The monitor and the queue appear as GrafanaGate and CoalescedSync, the  *)
(* abstract specifications GrafanaMonitor and SyncQueue implement; a sync  *)
(* pass, which TeamSync has in detail, either rebuilds the permissions or  *)
(* fails.  Clients are browsers, each with its cookie, at most one request *)
(* and one login under way.                                                *)
(***************************************************************************)
EXTENDS Integers

CONSTANTS
    Clients,
    Loops,              \* probe loops, each with its recovery callback (bound)
    SyncEnabled,        \* cfg.Sync.Enabled: worker, queue and recoveryFn exist
    MaxOutages,         \* bound on how often the monitor enters StateDown
    MaxBoots            \* bound on how often Grafana has a new database

ASSUME SavrasAssumption ==
    /\ SyncEnabled \in BOOLEAN
    /\ MaxOutages \in Nat /\ MaxBoots \in Nat \ {0}
    /\ Loops \cap {"free", "worker", "queue"} = {}

VARIABLES
    alive, boot,        \* Grafana answers; which database of its it has
    rights,             \* the last database whose permissions a pass has rebuilt
    state, probed,      \* m.state; a probe has succeeded in this outage
    callback,           \* where recoveryFn is in each loop
    runMu,              \* who is inside syncOnce, and Grafana's boot at the start
    worker,             \* "off", "initial" before and in the first pass, "loop"
    outstanding,        \* triggers the queue has not served
    posting,            \* logins whose goroutine has yet to call syncTriggerFn
    tokenGen,
    cookie,             \* the token in each browser's cookie
    req, login,         \* each browser's request and login
    outages,            \* how often the gate has closed (counted for the bound)
    recoveries          \* history: how many recovery passes have ended

grafanaVars == <<alive, boot>>
gateVars    == <<state, probed, outages>>
syncVars    == <<rights, runMu, worker>>
queueVars   == <<outstanding, posting>>
recoverVars == <<callback, recoveries>>
clientVars  == <<cookie, req, login>>
vars == <<grafanaVars, gateVars, syncVars, queueVars, recoverVars, tokenGen, clientVars>>

Gate  == INSTANCE GrafanaGate
         WITH recovering <- {l \in Loops : callback[l] # "none"},
              onRecovery <- SyncEnabled
Queue == INSTANCE CoalescedSync
         WITH Callers <- Clients, running <- runMu.by = "queue"

\* A token: its generation, and, as history, the recoveries before it was made
\* and the database Grafana had, or may come back with.
Token   == [gen : 0 .. MaxOutages + 1, since : 0 .. MaxOutages, boot : 0 .. MaxBoots]
NoToken == [gen |-> 0, since |-> 0, boot |-> 0]

\* ValidateJWT: signed by Savras, which every token here is, and of the current
\* generation.
Accepts(token) == token # NoToken /\ token.gen = tokenGen

Actors == Loops \cup {"worker", "queue"}

TypeOK ==
    /\ alive \in BOOLEAN
    /\ boot \in 1 .. MaxBoots
    /\ rights \in 0 .. MaxBoots
    /\ state \in {"Up", "Down"}
    /\ probed \in BOOLEAN
    /\ callback \in [Loops -> {"none", "lock", "sync", "invalidate"}]
    /\ runMu \in [by : Actors \cup {"free"}, boot : 0 .. MaxBoots]
    /\ worker \in {"off", "initial", "loop"}
    /\ outstanding \in SUBSET Clients
    /\ posting \in SUBSET Clients
    /\ tokenGen \in 1 .. MaxOutages + 1
    /\ cookie \in [Clients -> Token]
    /\ req \in [Clients -> [step : {"none", "gated", "forward"}, token : Token]]
    /\ login \in [Clients -> [step : {"none", "known", "minted"}, token : Token]]
    /\ outages \in 0 .. MaxOutages
    /\ recoveries \in 0 .. MaxOutages

Idle == [step |-> "none", token |-> NoToken]
Free == [by |-> "free", boot |-> 0]

\* main: tokens of a generation of this process only, the worker on its way to
\* its initial sync, the monitor optimistic.
Init ==
    /\ alive \in BOOLEAN
    /\ boot = 1
    /\ rights = 0
    /\ state = "Up" /\ probed = FALSE
    /\ callback = [l \in Loops |-> "none"]
    /\ runMu = Free
    /\ worker = IF SyncEnabled THEN "initial" ELSE "off"
    /\ outstanding = {} /\ posting = {}
    /\ tokenGen = 1
    /\ cookie = [c \in Clients |-> NoToken]
    /\ req = [c \in Clients |-> Idle]
    /\ login = [c \in Clients |-> Idle]
    /\ outages = 0 /\ recoveries = 0

-----------------------------------------------------------------------------
(***************************************************************************)
(* The monitor, and Grafana.                                               *)
(***************************************************************************)
OnProxyError ==
    \/ /\ state = "Down"
       /\ UNCHANGED gateVars
    \/ /\ outages < MaxOutages
       /\ Gate!GateCloses
       /\ probed' = FALSE
       /\ outages' = outages + 1

\* The background check found nobody there.  A probe that timed out is reported
\* when Grafana may be back.
BackgroundCheck ==
    /\ UNCHANGED <<grafanaVars, syncVars, queueVars, recoverVars, tokenGen, clientVars>>
    /\ OnProxyError

ProbeSucceeds ==
    /\ alive
    /\ state = "Down"
    /\ probed' = TRUE
    /\ UNCHANGED <<grafanaVars, state, outages, syncVars, queueVars, recoverVars,
                   tokenGen, clientVars>>

\* StateUp, then recoveryFn, which main leaves nil without sync.
MonitorOpens(l) ==
    /\ probed
    /\ callback' = [callback EXCEPT ![l] = IF SyncEnabled THEN "lock" ELSE "none"]
    /\ Gate!GateOpens(l)
    /\ probed' = FALSE
    /\ UNCHANGED <<grafanaVars, outages, syncVars, queueVars, recoveries, tokenGen,
                   clientVars>>

GrafanaStops ==
    /\ alive
    /\ alive' = FALSE
    /\ UNCHANGED <<boot, gateVars, syncVars, queueVars, recoverVars, tokenGen, clientVars>>

\* With the database it had, or as a Grafana that has lost its own.
GrafanaStarts ==
    /\ ~alive
    /\ alive' = TRUE
    /\ boot' \in {boot, boot + 1}
    /\ boot' <= MaxBoots
    /\ UNCHANGED <<gateVars, syncVars, queueVars, recoverVars, tokenGen, clientVars>>

-----------------------------------------------------------------------------
(***************************************************************************)
(* Passes, all of them under runMu.                                        *)
(***************************************************************************)
Lock(a) ==
    /\ runMu = Free
    /\ runMu' = [by |-> a, boot |-> boot]

\* syncOnce returns.  Permissions are rebuilt if nothing failed and Grafana is
\* the one the pass began with; an error is logged, and nothing else.
Unlock(a) ==
    /\ runMu.by = a
    /\ runMu' = Free
    /\ \/ alive /\ runMu.boot = boot /\ rights' = boot
       \/ UNCHANGED rights

\* SyncWorker: the initial pass after the delay, then one per tick.
WorkerLocks ==
    /\ worker # "off"
    /\ Lock("worker")
    /\ UNCHANGED <<grafanaVars, gateVars, rights, worker, queueVars, recoverVars,
                   tokenGen, clientVars>>

\* The initial pass closes ready, whether or not it failed.
WorkerUnlocks ==
    /\ Unlock("worker")
    /\ worker' = "loop"
    /\ UNCHANGED <<grafanaVars, gateVars, queueVars, recoverVars, tokenGen, clientVars>>

QueueLocks ==
    /\ Lock("queue")
    /\ Queue!Begin
    /\ UNCHANGED <<grafanaVars, gateVars, rights, worker, posting, recoverVars,
                   tokenGen, clientVars>>

QueueUnlocks ==
    /\ Unlock("queue")
    /\ UNCHANGED <<grafanaVars, gateVars, worker, queueVars, recoverVars, tokenGen,
                   clientVars>>

\* recoveryFn: doSync, then InvalidateTokens.
RecoveryLocks(l) ==
    /\ callback[l] = "lock"
    /\ Lock(l)
    /\ callback' = [callback EXCEPT ![l] = "sync"]
    /\ UNCHANGED <<grafanaVars, gateVars, rights, worker, queueVars, recoveries,
                   tokenGen, clientVars>>

RecoveryUnlocks_Returns(l) ==
    /\ callback[l] = "sync"
    /\ Unlock(l)
    /\ callback' = [callback EXCEPT ![l] = "none"]
    /\ recoveries' = recoveries + 1
    /\ UNCHANGED <<grafanaVars, gateVars, worker, queueVars, tokenGen, clientVars>>

RecoveryUnlocks(l) ==
    /\ callback[l] = "sync"
    /\ Unlock(l)
    /\ callback' = [callback EXCEPT ![l] = "invalidate"]
    /\ recoveries' = recoveries + 1
    /\ UNCHANGED <<grafanaVars, gateVars, worker, queueVars, tokenGen, clientVars>>

RecoveryEnds_NoReturn(l) ==
    /\ callback[l] = "invalidate"
    /\ callback' = [callback EXCEPT ![l] = "lock"]
    /\ UNCHANGED recoveries

RecoveryEnds(l) ==
    /\ callback[l] = "invalidate"
    /\ callback' = [callback EXCEPT ![l] = "none"]
    /\ UNCHANGED recoveries

InvalidateTokens_Forgotten(l) ==
    /\ RecoveryEnds(l)
    /\ UNCHANGED <<grafanaVars, gateVars, syncVars, queueVars, tokenGen, clientVars>>

InvalidateTokens(l) ==
    /\ RecoveryEnds(l)
    /\ tokenGen' = tokenGen + 1
    /\ UNCHANGED <<grafanaVars, gateVars, syncVars, queueVars, clientVars>>

-----------------------------------------------------------------------------
(***************************************************************************)
(* Requests: BlockWhenDown, Auth, header injection, the reverse proxy.     *)
(***************************************************************************)
\* A request the gate lets through, with the cookie of that moment.
BlockWhenDown(c) ==
    /\ req[c] = Idle
    /\ state = "Up"
    /\ req' = [req EXCEPT ![c] = [step |-> "gated", token |-> cookie[c]]]
    /\ UNCHANGED <<grafanaVars, gateVars, syncVars, queueVars, recoverVars, tokenGen,
                   cookie, login>>

\* A token that is not accepted, or has expired, costs the browser its cookie,
\* even if a login has replaced it meanwhile; a missing one is only redirected.
AuthMiddleware(c) ==
    /\ req[c].step = "gated"
    /\ \/ /\ Accepts(req[c].token)
          /\ req' = [req EXCEPT ![c].step = "forward"]
          /\ UNCHANGED cookie
       \/ /\ req' = [req EXCEPT ![c] = Idle]
          /\ cookie' = IF req[c].token = NoToken THEN cookie
                       ELSE [cookie EXCEPT ![c] = NoToken]
    /\ UNCHANGED <<grafanaVars, gateVars, syncVars, queueVars, recoverVars, tokenGen,
                   login>>

\* Grafana answers the request.
Forward(c) ==
    /\ req[c].step = "forward"
    /\ alive
    /\ req' = [req EXCEPT ![c] = Idle]
    /\ UNCHANGED <<grafanaVars, gateVars, syncVars, queueVars, recoverVars, tokenGen,
                   cookie, login>>

\* The ErrorHandler: Grafana is gone, or the client has hung up.
ErrorHandler(c) ==
    /\ req[c].step = "forward"
    /\ req' = [req EXCEPT ![c] = Idle]
    /\ UNCHANGED <<grafanaVars, syncVars, queueVars, recoverVars, tokenGen, cookie, login>>
    /\ OnProxyError

-----------------------------------------------------------------------------
(***************************************************************************)
(* Login, logout and the trigger endpoint, which the gate does not guard.  *)
(***************************************************************************)
\* POST /login with credentials Authenticate confirms; others change nothing.
Authenticate(c) ==
    /\ login[c] = Idle
    /\ login' = [login EXCEPT ![c].step = "known"]
    /\ UNCHANGED <<grafanaVars, gateVars, syncVars, queueVars, recoverVars, tokenGen,
                   cookie, req>>

\* For the history: a Grafana that is down may come back with another database.
BootToSee == IF alive \/ boot = MaxBoots THEN boot ELSE boot + 1

GenerateJWT(c) ==
    /\ login[c].step = "known"
    /\ login' = [login EXCEPT ![c] = [step  |-> "minted",
                                      token |-> [gen   |-> tokenGen,
                                                 since |-> recoveries,
                                                 boot  |-> BootToSee]]]
    /\ UNCHANGED <<grafanaVars, gateVars, syncVars, queueVars, recoverVars, tokenGen,
                   cookie, req>>

\* Set-Cookie, the goroutine for the post-login sync, and the redirect.
LoginResponds(c) ==
    /\ login[c].step = "minted"
    /\ login' = [login EXCEPT ![c] = Idle]
    /\ cookie' = [cookie EXCEPT ![c] = login[c].token]
    /\ posting' = posting \cup (IF SyncEnabled THEN {c} ELSE {})
    /\ UNCHANGED <<grafanaVars, gateVars, syncVars, outstanding, recoverVars, tokenGen,
                   req>>

\* The post-login goroutine calls syncTriggerFn; the trigger endpoint does too.
PostLoginTrigger(c) ==
    /\ c \in posting
    /\ posting' = posting \ {c}
    /\ UNCHANGED <<grafanaVars, gateVars, syncVars, recoverVars, tokenGen, clientVars>>
    /\ Queue!Ask(c)

SyncTrigger(c) ==
    /\ SyncEnabled
    /\ UNCHANGED <<grafanaVars, gateVars, syncVars, posting, recoverVars, tokenGen,
                   clientVars>>
    /\ Queue!Ask(c)

\* /-/savras/logout, and Grafana's own logout paths: these are forwarded, but
\* the answer clears the cookie even if Grafana does not give one.
Logout(c) ==
    /\ cookie' = [cookie EXCEPT ![c] = NoToken]
    /\ UNCHANGED <<grafanaVars, gateVars, syncVars, queueVars, recoverVars, tokenGen,
                   req, login>>

\* /-/savras/health answers 200 (with LDAP reachable).
Healthy ==
    /\ worker # "initial"
    /\ state = "Up"
    /\ alive

-----------------------------------------------------------------------------
ClientStep(c) ==
    \/ BlockWhenDown(c) \/ AuthMiddleware(c) \/ Forward(c) \/ ErrorHandler(c)
    \/ Authenticate(c) \/ GenerateJWT(c) \/ LoginResponds(c)
    \/ PostLoginTrigger(c) \/ SyncTrigger(c)
    \/ Logout(c)

Next ==
    \/ GrafanaStops \/ GrafanaStarts
    \/ BackgroundCheck \/ ProbeSucceeds
    \/ WorkerLocks \/ WorkerUnlocks
    \/ QueueLocks \/ QueueUnlocks
    \/ \E l \in Loops : \/ MonitorOpens(l)
                        \/ RecoveryLocks(l) \/ RecoveryUnlocks(l) \/ InvalidateTokens(l)
    \/ \E c \in Clients : ClientStep(c)

(***************************************************************************)
(* Goroutines run: the monitor's (GrafanaMonitor has the detail), the      *)
(* handlers' and the queue's; passes end, as TeamSync shows, and the       *)
(* worker's ticker asks for the next; a goroutine that waits for a Go      *)
(* mutex gets it even if others keep taking it, since a starving waiter is *)
(* served first.  Browsers need not send anything, and Grafana owes        *)
(* nothing.                                                                *)
(***************************************************************************)
Fairness ==
    /\ WF_vars(~alive /\ BackgroundCheck)
    /\ WF_vars(ProbeSucceeds)
    /\ WF_vars(\E l \in Loops : MonitorOpens(l))
    /\ SF_vars(WorkerLocks) /\ WF_vars(WorkerUnlocks)
    /\ SF_vars(QueueLocks) /\ WF_vars(QueueUnlocks)
    /\ \A l \in Loops : /\ SF_vars(RecoveryLocks(l))
                        /\ WF_vars(RecoveryUnlocks(l))
                        /\ WF_vars(InvalidateTokens(l))
    /\ \A c \in Clients : /\ WF_vars(AuthMiddleware(c) \/ Forward(c) \/ ErrorHandler(c))
                          /\ WF_vars(GenerateJWT(c) \/ LoginResponds(c))
                          /\ WF_vars(PostLoginTrigger(c))

Spec == Init /\ [][Next]_vars /\ Fairness

-----------------------------------------------------------------------------
(***************************************************************************)
(* What makes the composition correct.                                     *)
(***************************************************************************)
Tokens == {cookie[c] : c \in Clients} \cup {req[c].token : c \in Clients}
          \cup {login[c].token : c \in Clients}

\* Once every recovery callback has returned, no token made before the last
\* recovery pass ended is accepted, wherever it is: in a cookie, in a request on
\* its way to ValidateJWT, or in the answer to a login that overlapped with the
\* recovery.  (recoveryFn invalidates after doSync, and the two do not overlap
\* with those of another loop in a way that loses an invalidation.)
RecoveryEndsSessions ==
    (\A l \in Loops : callback[l] = "none") =>
        \A t \in Tokens : Accepts(t) => t.since = recoveries

\* The same while callbacks run: an accepted token older than the last recovery
\* pass is one that a callback is about to invalidate.
OldSessionsAreDoomed ==
    \A t \in Tokens :
        /\ t.gen <= tokenGen
        /\ Accepts(t) /\ t.since # recoveries => \E l \in Loops : callback[l] = "invalidate"

\* A session that exists when an outage is detected does not outlive it, if
\* Grafana comes back for good: the callback gets runMu, however many passes
\* compete for it, and its invalidation reaches every cookie.
OutageEndsSessions ==
    <>[]alive => \A c \in Clients :
        (state = "Down" /\ Accepts(cookie[c])) ~> ~Accepts(cookie[c])

\* The health endpoint answers 200 only when an initial sync has applied the
\* permissions, "to avoid serving traffic before team permissions are applied".
\* Does not hold: ready is closed after a failed pass too.
HealthyMeansSynced == SyncEnabled /\ Healthy => rights # 0

\* A restart of Grafana that loses its database ends the sessions made before it:
\* the background check is there so that "Grafana restarts are detected even during
\* periods of no user traffic".  Does not hold: Grafana may be back before the next
\* check.  The last disjunct only excludes behaviours that have used up the bound.
RestartEndsSessions ==
    \A c \in Clients :
        LET survives == Accepts(cookie[c]) /\ cookie[c].boot < boot
        IN  survives ~> (~survives \/ outages = MaxOutages)

=============================================================================
