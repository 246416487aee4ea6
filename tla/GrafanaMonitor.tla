--------------------------- MODULE GrafanaMonitor ---------------------------
(***************************************************************************)
(* The Grafana lifecycle monitor, internal/proxy/grafana_monitor.go.       *)
(*                                                                         *)
(* Three kinds of goroutine share the mutex-protected fields state,        *)
(* probeCancel and bgCancel:                                               *)
(*   - request goroutines, whose reverse-proxy ErrorHandler calls          *)
(*     OnProxyError;                                                       *)
(*   - one backgroundCheck goroutine (every 30s);                          *)
(*   - the probeLoop goroutines OnProxyError starts, one per outage.       *)
(* A probeLoop sets StateUp BEFORE it runs the recovery callback, so a     *)
(* second loop may start while an earlier one is still recovering.         *)
(*                                                                         *)
(* main starts the background check before it serves requests, and stops   *)
(* the monitor once, last of all.  Every action is one critical section,   *)
(* or one blocking call, of one goroutine.  Time is left out: a timer may  *)
(* fire whenever it is armed.                                              *)
(***************************************************************************)
EXTENDS Integers

CONSTANTS
    Loops,          \* identities for probeLoop goroutines alive at once (bound)
    NoLoop,         \* probeCancel is nil, or cancels a loop that has returned
    BaseInterval,   \* baseInterval, 1s in NewGrafanaMonitor
    MaxInterval     \* maxInterval, 10s in NewGrafanaMonitor

ASSUME MonitorAssumption ==
    /\ NoLoop \notin Loops
    /\ BaseInterval \in Nat \ {0}
    /\ MaxInterval \in Nat
    /\ 2 * BaseInterval <= MaxInterval

VARIABLES
    grafana,        \* environment: how Grafana answers GET /api/health
    onRecovery,     \* m.onRecovery is not nil; main.go leaves it nil without sync
    state,          \* m.state, StateUp or StateDown
    loop,           \* where each probeLoop goroutine is
    interval,       \* the local variable interval of each probeLoop
    cancelled,      \* loops whose ctx is done
    probeCancel,    \* the loop m.probeCancel would cancel
    bg,             \* where the backgroundCheck goroutine is
    bgCtx,          \* its context: not created, live or cancelled
    stopped,        \* history: Stop has been called
    confirmed       \* history: a probe got a 2xx since the last StateDown

extVars  == <<grafana, onRecovery>>
loopVars == <<loop, interval, cancelled, probeCancel>>
bgVars   == <<bg, bgCtx>>
vars     == <<extVars, state, loopVars, bgVars, stopped, confirmed>>

(***************************************************************************)
(* Grafana itself.  "degraded" is a Grafana that answers but is not ready  *)
(* (a non-2xx health status), or answers too late for the client timeout.  *)
(***************************************************************************)
Grafana == {"serving", "degraded", "unreachable"}

Replies(g) == CASE g = "serving"     -> {"2xx"}
                [] g = "degraded"    -> {"non2xx", "error"}
                [] g = "unreachable" -> {"error"}

(***************************************************************************)
(* A probeLoop goroutine: started but not yet run ("spawned"), at the top  *)
(* of its loop ("checking"), waiting for client.Get ("probing"), in        *)
(* time.After ("backoff"), holding a 2xx but not yet the mutex             *)
(* ("healthy"), and inside onRecovery ("recovering").                      *)
(***************************************************************************)
ProbeSteps == {"spawned", "checking", "probing", "backoff", "healthy"}
LoopSteps  == ProbeSteps \cup {"none", "recovering"}

Probing(l) == loop[l] \in ProbeSteps

TypeOK ==
    /\ grafana \in Grafana
    /\ onRecovery \in BOOLEAN
    /\ state \in {"Up", "Down"}
    /\ loop \in [Loops -> LoopSteps]
    /\ interval \in [Loops -> Nat]
    /\ cancelled \in SUBSET Loops
    /\ probeCancel \in Loops \cup {NoLoop}
    /\ bg \in {"off", "probing", "failed", "waiting", "exited"}
    /\ bgCtx \in {"none", "live", "cancelled"}
    /\ stopped \in BOOLEAN
    /\ confirmed \in BOOLEAN

\* NewGrafanaMonitor: optimistic, Grafana is taken to be up.
Init ==
    /\ grafana \in Grafana
    /\ onRecovery \in BOOLEAN
    /\ state = "Up"
    /\ loop = [l \in Loops |-> "none"]
    /\ interval = [l \in Loops |-> BaseInterval]
    /\ cancelled = {}
    /\ probeCancel = NoLoop
    /\ bg = "off"
    /\ bgCtx = "none"
    /\ stopped = FALSE
    /\ confirmed = TRUE

-----------------------------------------------------------------------------
(***************************************************************************)
(* OnProxyError: the test and the write of state are one critical section. *)
(* "go probeLoop()" follows the unlock; a goroutine that has not been      *)
(* scheduled and one that has not been started look the same to everybody, *)
(* so the start is part of the step.                                       *)
(***************************************************************************)
OnProxyError_NoTest ==
    \E l \in Loops :
        /\ loop[l] = "none"
        /\ state' = "Down"
        /\ loop' = [loop EXCEPT ![l] = "spawned"]
        /\ confirmed' = FALSE

OnProxyError ==
    \/ /\ state = "Down"
       /\ UNCHANGED <<state, loop, confirmed>>
    \/ /\ state = "Up"
       /\ \E l \in Loops :
            /\ loop[l] = "none"
            /\ state' = "Down"
            /\ loop' = [loop EXCEPT ![l] = "spawned"]
            /\ confirmed' = FALSE

\* A request goroutine reports a failed round trip.  A client that hangs up
\* is one (the transport returns "context canceled"), so Grafana may be fine.
ProxyError ==
    /\ bg # "off"
    /\ OnProxyError
    /\ UNCHANGED <<extVars, interval, cancelled, probeCancel, bgVars, stopped>>

-----------------------------------------------------------------------------
(***************************************************************************)
(* backgroundCheck: only a transport error counts, any HTTP status is fine.*)
(* The result is used after the call returned, when it may be out of date. *)
(***************************************************************************)
Start ==
    /\ bg = "off"
    /\ bg' = "probing"
    /\ bgCtx' = "live"
    /\ UNCHANGED <<extVars, state, loopVars, stopped, confirmed>>

BgProbe ==
    /\ bg = "probing"
    /\ \E r \in Replies(grafana) :
         bg' = IF r = "error" THEN "failed" ELSE "waiting"
    /\ UNCHANGED <<extVars, state, loopVars, bgCtx, stopped, confirmed>>

BgReport_Dropped ==
    /\ bg = "failed"
    /\ bg' = "waiting"
    /\ UNCHANGED <<extVars, state, loopVars, bgCtx, stopped, confirmed>>

BgReport ==
    /\ bg = "failed"
    /\ OnProxyError
    /\ bg' = "waiting"
    /\ UNCHANGED <<extVars, interval, cancelled, probeCancel, bgCtx, stopped>>

\* select between ctx.Done() and ticker.C: either, when both are ready.
BgTick ==
    /\ bg = "waiting"
    /\ bg' = "probing"
    /\ UNCHANGED <<extVars, state, loopVars, bgCtx, stopped, confirmed>>

BgExit ==
    /\ bg = "waiting"
    /\ bgCtx = "cancelled"
    /\ bg' = "exited"
    /\ UNCHANGED <<extVars, state, loopVars, bgCtx, stopped, confirmed>>

-----------------------------------------------------------------------------
(***************************************************************************)
(* probeLoop.                                                              *)
(***************************************************************************)
\* The goroutine returns.  Its cancel function, if m.probeCancel still holds
\* it, has no effect any more; its locals are dead.
Return(l) ==
    /\ loop' = [loop EXCEPT ![l] = "none"]
    /\ interval' = [interval EXCEPT ![l] = BaseInterval]
    /\ cancelled' = cancelled \ {l}
    /\ probeCancel' = IF probeCancel = l THEN NoLoop ELSE probeCancel

Register_Forgotten(l) ==
    /\ loop[l] = "spawned"
    /\ loop' = [loop EXCEPT ![l] = "checking"]
    /\ UNCHANGED <<extVars, state, interval, cancelled, probeCancel, bgVars,
                   stopped, confirmed>>

Register(l) ==
    /\ loop[l] = "spawned"
    /\ loop' = [loop EXCEPT ![l] = "checking"]
    /\ probeCancel' = l
    /\ UNCHANGED <<extVars, state, interval, cancelled, bgVars, stopped, confirmed>>

\* The select at the top of the loop.
CheckDone(l) ==
    /\ loop[l] = "checking"
    /\ \/ /\ l \in cancelled
          /\ Return(l)
       \/ /\ l \notin cancelled
          /\ loop' = [loop EXCEPT ![l] = "probing"]
          /\ UNCHANGED <<interval, cancelled, probeCancel>>
    /\ UNCHANGED <<extVars, state, bgVars, stopped, confirmed>>

ProbeOK(l) ==
    /\ loop[l] = "probing"
    /\ "2xx" \in Replies(grafana)
    /\ loop' = [loop EXCEPT ![l] = "healthy"]
    /\ confirmed' = TRUE
    /\ UNCHANGED <<extVars, state, interval, cancelled, probeCancel, bgVars, stopped>>

\* nextInterval: min(2 * current, maxInterval) plus rand.Int63n(half of it).
Doubled(current) == IF 2 * current > MaxInterval THEN MaxInterval ELSE 2 * current

nextInterval_Uncapped(current) ==
    {2 * current + jitter : jitter \in 0 .. ((2 * current) \div 2 - 1)}

nextInterval(current) ==
    {Doubled(current) + jitter : jitter \in 0 .. (Doubled(current) \div 2 - 1)}

\* Both failure branches, transport error and non-2xx status, do the same.
ProbeFails_Returns(l) ==
    /\ loop[l] = "probing"
    /\ Replies(grafana) # {"2xx"}
    /\ Return(l)
    /\ UNCHANGED <<extVars, state, bgVars, stopped, confirmed>>

ProbeFails(l) ==
    /\ loop[l] = "probing"
    /\ Replies(grafana) # {"2xx"}
    /\ \E i \in nextInterval(interval[l]) :
         interval' = [interval EXCEPT ![l] = i]
    /\ loop' = [loop EXCEPT ![l] = "backoff"]
    /\ UNCHANGED <<extVars, state, cancelled, probeCancel, bgVars, stopped, confirmed>>

\* The select in the back-off: the timer, or ctx.Done() and return.
BackoffOver(l) ==
    /\ loop[l] = "backoff"
    /\ loop' = [loop EXCEPT ![l] = "checking"]
    /\ UNCHANGED <<extVars, state, interval, cancelled, probeCancel, bgVars,
                   stopped, confirmed>>

BackoffCancelled(l) ==
    /\ loop[l] = "backoff"
    /\ l \in cancelled
    /\ Return(l)
    /\ UNCHANGED <<extVars, state, bgVars, stopped, confirmed>>

MarkUp_NoCallback(l) ==
    /\ loop[l] = "healthy"
    /\ state' = "Up"
    /\ Return(l)
    /\ UNCHANGED <<extVars, bgVars, stopped, confirmed>>

\* The last critical section: StateUp first, the callback after the unlock.
MarkUp(l) ==
    /\ loop[l] = "healthy"
    /\ state' = "Up"
    /\ \/ /\ onRecovery
          /\ loop' = [loop EXCEPT ![l] = "recovering"]
          /\ interval' = [interval EXCEPT ![l] = BaseInterval]
          /\ UNCHANGED <<cancelled, probeCancel>>
       \/ /\ ~onRecovery
          /\ Return(l)
    /\ UNCHANGED <<extVars, bgVars, stopped, confirmed>>

\* onRecovery, a blocking sync, has returned.
RecoveryReturns(l) ==
    /\ loop[l] = "recovering"
    /\ Return(l)
    /\ UNCHANGED <<extVars, state, bgVars, stopped, confirmed>>

-----------------------------------------------------------------------------
Stop_NoNilCheck ==
    /\ ~stopped
    /\ bg # "off"
    /\ cancelled' = cancelled \cup {probeCancel}
    /\ probeCancel' = NoLoop
    /\ bgCtx' = "cancelled"
    /\ stopped' = TRUE
    /\ UNCHANGED <<extVars, state, loop, interval, bg, confirmed>>

\* Called by main, after Start, and once: a loop that has not registered by now,
\* or starts later, is not cancelled any more.
Stop ==
    /\ ~stopped
    /\ bg # "off"
    /\ cancelled' = cancelled \cup ({probeCancel} \ {NoLoop})
    /\ probeCancel' = NoLoop
    /\ bgCtx' = "cancelled"
    /\ stopped' = TRUE
    /\ UNCHANGED <<extVars, state, loop, interval, bg, confirmed>>

GrafanaChanges ==
    /\ grafana' \in Grafana \ {grafana}
    /\ UNCHANGED <<onRecovery, state, loopVars, bgVars, stopped, confirmed>>

LoopStep(l) ==
    \/ Register(l)
    \/ CheckDone(l)
    \/ ProbeOK(l)
    \/ ProbeFails(l)
    \/ BackoffOver(l)
    \/ BackoffCancelled(l)
    \/ MarkUp(l)
    \/ RecoveryReturns(l)

BgStep ==
    \/ BgProbe
    \/ BgReport
    \/ BgTick
    \/ BgExit

Next ==
    \/ GrafanaChanges
    \/ ProxyError
    \/ Start
    \/ BgStep
    \/ \E l \in Loops : LoopStep(l)
    \/ Stop

(***************************************************************************)
(* Goroutines run: timers fire, HTTP clients have timeouts (3s and 5s) and *)
(* the callback returns.  Nothing obliges Grafana, the requests or a       *)
(* shutdown to do anything.                                                *)
(***************************************************************************)
Fairness ==
    /\ WF_vars(Start)
    /\ WF_vars(BgStep)
    /\ \A l \in Loops : WF_vars(LoopStep(l))

Spec == Init /\ [][Next]_vars /\ Fairness

-----------------------------------------------------------------------------
(***************************************************************************)
(* Safety.                                                                 *)
(***************************************************************************)
\* At most one goroutine is looking for a recovery at any time, however many
\* requests and background checks report errors, and although earlier loops
\* may still be inside their recovery callback.
SingleProber == \A k, l \in Loops : Probing(k) /\ Probing(l) => k = l

\* Until Stop, traffic is blocked exactly as long as some loop is working on
\* unblocking it: StateDown is never orphaned (Savras would answer 503 for
\* ever) and no loop probes a Grafana that is already taken to be up.
BlockedIffProbing ==
    ~stopped => (state = "Down" <=> \E l \in Loops : Probing(l))

\* Traffic resumes only on a 2xx that was received after the outage was
\* declared, never on the answer an earlier loop got in an earlier outage.
ResumesOnFreshProbe == state = "Up" => confirmed

\* Stop cancels every probe loop that has registered its cancel function: the
\* field still holds that function, and no loop of another outage, returning or
\* still in its callback, has overwritten or cleared it.  The comment of Stop says
\* "any active probe loop", which is more than holds: a loop that OnProxyError
\* has started and that has not yet registered is missed, and probes on.
StopReachesProbers ==
    [][~stopped /\ stopped' =>
         \A l \in Loops : Probing(l) /\ loop[l] # "spawned" => l \in cancelled']_vars

\* A loop in its back-off waits at least twice the base interval and less than
\* maxInterval and a half, jitter included, and however long the outage is.
BackoffBounded ==
    \A l \in Loops :
        loop[l] = "backoff" =>
            /\ interval[l] >= 2 * BaseInterval
            /\ interval[l] < MaxInterval + MaxInterval \div 2

\* The monitor as its users see it, with the probing hidden.
Gate == INSTANCE GrafanaGate
        WITH recovering <- {l \in Loops : loop[l] = "recovering"}

\* Whatever the probe loops do, others see a gate that closes, and opens again;
\* each opening runs the recovery callback, if there is one, and runs it once.
ImplementsGate == Gate!GateSpec

(***************************************************************************)
(* Liveness.                                                               *)
(***************************************************************************)
\* If Grafana stays healthy and Savras is not shut down, traffic is let through
\* again and again, whatever spurious errors keep being reported.
UnblocksWhenServing ==
    <>[](grafana = "serving" /\ ~stopped) => []<>(state = "Up")

\* If Grafana stays unreachable, the monitor ends up in StateDown and stays
\* there, even when no request reports an error: the background check does.
OutageDetected ==
    <>[](grafana = "unreachable" /\ ~stopped) => <>[](state = "Down")

(***************************************************************************)
(* What a comment of grafana_monitor.go says, and the code does not do.    *)
(***************************************************************************)
\* "onRecovery is called once when Grafana transitions from StateDown back to
\* StateUp, before traffic resumes."
RecoveryBeforeTraffic ==
    state = "Up" => \A l \in Loops : loop[l] # "recovering"

=============================================================================
