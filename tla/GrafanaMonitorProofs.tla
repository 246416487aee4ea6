------------------------ MODULE GrafanaMonitorProofs ------------------------
(***************************************************************************)
(* Proofs about GrafanaMonitor, for any number of concurrent probeLoop     *)
(* goroutines and any intervals the ASSUME of GrafanaMonitor allows.       *)
(***************************************************************************)
EXTENDS GrafanaMonitor, TLAPS

(***************************************************************************)
(* The safety invariants are not inductive as they stand.  SingleProber    *)
(* needs to know that a loop probes only in StateDown, because the guard   *)
(* of OnProxyError tests state and not the loops; BlockedIffProbing needs  *)
(* to know that only Stop cancels a loop; ResumesOnFreshProbe needs the    *)
(* evidence the "healthy" loop holds; StopReachesProbers needs to know whose *)
(* cancel function probeCancel is; BackoffBounded needs a floor under every *)
(* interval.                                                               *)
(***************************************************************************)
ProbingIsDown    == \A l \in Loops : Probing(l) => state = "Down"
DownIsWatched    == ~stopped /\ state = "Down" => \E l \in Loops : Probing(l)
StopCancels      == cancelled # {} => stopped
HealthyConfirmed == \A l \in Loops : loop[l] = "healthy" => confirmed
RegisteredProber ==
    \A l \in Loops :
        Probing(l) /\ loop[l] # "spawned" => l \in cancelled \/ probeCancel = l
IntervalFloor    == \A l \in Loops : interval[l] >= BaseInterval

ProberInv ==
    /\ SingleProber
    /\ ProbingIsDown
    /\ DownIsWatched
    /\ StopCancels

EvidenceInv ==
    /\ HealthyConfirmed
    /\ ResumesOnFreshProbe

BackoffInv ==
    /\ IntervalFloor
    /\ BackoffBounded

IndInv == TypeOK /\ ProberInv /\ EvidenceInv /\ RegisteredProber /\ BackoffInv

-----------------------------------------------------------------------------
\* nextInterval of grafana_monitor.go: from an interval of at least
\* baseInterval it yields one between 2 * baseInterval and 1.5 * maxInterval.
LEMMA NextIntervalBounds ==
    ASSUME NEW current \in Nat, current >= BaseInterval,
           NEW i \in nextInterval(current)
    PROVE  /\ i \in Nat
           /\ i >= 2 * BaseInterval
           /\ i < MaxInterval + MaxInterval \div 2
<1> DEFINE d == Doubled(current)
<1>1. d \in Nat /\ d >= 2 * BaseInterval /\ d <= MaxInterval /\ d >= 2
    BY MonitorAssumption DEF Doubled
<1>2. PICK jitter \in 0 .. (d \div 2 - 1) : i = d + jitter
    BY DEF nextInterval
<1> HIDE DEF d
<1>3. d \div 2 \in Nat /\ d \div 2 <= MaxInterval \div 2
    BY <1>1, MonitorAssumption
<1>4. MaxInterval \div 2 \in Nat
    BY MonitorAssumption
<1>5. QED
    BY <1>1, <1>2, <1>3, <1>4, MonitorAssumption

\* The types of the monitor's fields and of its goroutines' program counters
\* hold initially and are preserved by every step.
THEOREM TypeCorrect == Spec => []TypeOK
<1>1. Init => TypeOK
    BY MonitorAssumption
    DEF Init, TypeOK, Grafana, LoopSteps, ProbeSteps
<1>2. TypeOK /\ [Next]_vars => TypeOK'
  <2> SUFFICES ASSUME TypeOK, [Next]_vars PROVE TypeOK'
      OBVIOUS
  <2> USE MonitorAssumption DEF TypeOK, LoopSteps, ProbeSteps, extVars, loopVars, bgVars
  <2>1. CASE GrafanaChanges
      BY <2>1 DEF GrafanaChanges, Grafana
  <2>2. CASE ProxyError
      BY <2>2 DEF ProxyError, OnProxyError
  <2>3. CASE Start
      BY <2>3 DEF Start
  <2>4. CASE BgStep
      BY <2>4 DEF BgStep, BgProbe, BgReport, BgTick, BgExit, OnProxyError
  <2>5. CASE Stop
      BY <2>5 DEF Stop
  <2>6. ASSUME NEW l \in Loops, LoopStep(l) PROVE TypeOK'
    <3>1. CASE Register(l)
        BY <3>1 DEF Register
    <3>2. CASE CheckDone(l)
        BY <3>2 DEF CheckDone, Return
    <3>3. CASE ProbeOK(l)
        BY <3>3 DEF ProbeOK
    <3>4. CASE ProbeFails(l)
      <4>1. PICK i \in nextInterval(interval[l]) :
                interval' = [interval EXCEPT ![l] = i]
          BY <3>4 DEF ProbeFails
      <4>2. Doubled(interval[l]) \in Nat
          BY DEF Doubled
      <4>3. i \in Nat
          BY <4>1, <4>2 DEF nextInterval
      <4>4. QED
          BY <3>4, <4>1, <4>3 DEF ProbeFails
    <3>5. CASE BackoffOver(l)
        BY <3>5 DEF BackoffOver
    <3>6. CASE BackoffCancelled(l)
        BY <3>6 DEF BackoffCancelled, Return
    <3>7. CASE MarkUp(l)
        BY <3>7 DEF MarkUp, Return
    <3>8. CASE RecoveryReturns(l)
        BY <3>8 DEF RecoveryReturns, Return
    <3>9. QED
        BY <2>6, <3>1, <3>2, <3>3, <3>4, <3>5, <3>6, <3>7, <3>8 DEF LoopStep
  <2>7. CASE UNCHANGED vars
      BY <2>7 DEF vars
  <2>8. QED
      BY <2>1, <2>2, <2>3, <2>4, <2>5, <2>6, <2>7 DEF Next
<1>3. QED
    BY <1>1, <1>2, PTL DEF Spec

-----------------------------------------------------------------------------
\* Who may be probing: preserved by every step.  OnProxyError starts a loop
\* only from StateUp, when ProbingIsDown leaves no other one; MarkUp takes the
\* single prober out; a prober returns early only if Stop cancelled it.
LEMMA ProberStep == TypeOK /\ ProberInv /\ [Next]_vars => ProberInv'
<1> SUFFICES ASSUME TypeOK, ProberInv, [Next]_vars PROVE ProberInv'
    OBVIOUS
<1> USE DEF TypeOK, ProberInv, SingleProber, ProbingIsDown, DownIsWatched,
            StopCancels, Probing, LoopSteps, ProbeSteps, extVars, loopVars, bgVars
<1>1. CASE GrafanaChanges
    BY <1>1 DEF GrafanaChanges
<1>2. ASSUME OnProxyError, UNCHANGED <<cancelled, stopped>> PROVE ProberInv'
    BY <1>2 DEF OnProxyError
<1>3. CASE ProxyError
    BY <1>2, <1>3 DEF ProxyError
<1>4. CASE Start
    BY <1>4 DEF Start
<1>5. CASE BgStep
    BY <1>2, <1>5 DEF BgStep, BgProbe, BgReport, BgTick, BgExit
<1>6. CASE Stop
    BY <1>6 DEF Stop
<1>7. ASSUME NEW l \in Loops, LoopStep(l) PROVE ProberInv'
  <2>1. CASE Register(l)
      BY <2>1 DEF Register
  <2>2. CASE CheckDone(l)
      BY <2>2 DEF CheckDone, Return
  <2>3. CASE ProbeOK(l)
      BY <2>3 DEF ProbeOK
  <2>4. CASE ProbeFails(l)
      BY <2>4 DEF ProbeFails
  <2>5. CASE BackoffOver(l)
      BY <2>5 DEF BackoffOver
  <2>6. CASE BackoffCancelled(l)
      BY <2>6 DEF BackoffCancelled, Return
  <2>7. CASE MarkUp(l)
      BY <2>7 DEF MarkUp, Return
  <2>8. CASE RecoveryReturns(l)
      BY <2>8 DEF RecoveryReturns, Return
  <2>9. QED
      BY <1>7, <2>1, <2>2, <2>3, <2>4, <2>5, <2>6, <2>7, <2>8 DEF LoopStep
<1>8. CASE UNCHANGED vars
    BY <1>8 DEF vars
<1>9. QED
    BY <1>1, <1>3, <1>4, <1>5, <1>6, <1>7, <1>8 DEF Next

\* What the loop about to set StateUp knows: preserved by every step.  A new
\* outage clears the evidence only when no loop is holding any.
LEMMA EvidenceStep == TypeOK /\ ProberInv /\ EvidenceInv /\ [Next]_vars => EvidenceInv'
<1> SUFFICES ASSUME TypeOK, ProberInv, EvidenceInv, [Next]_vars PROVE EvidenceInv'
    OBVIOUS
<1> USE DEF TypeOK, EvidenceInv, HealthyConfirmed, ResumesOnFreshProbe,
            extVars, loopVars, bgVars
<1>1. CASE GrafanaChanges
    BY <1>1 DEF GrafanaChanges
<1>2. ASSUME OnProxyError PROVE EvidenceInv'
    BY <1>2 DEF OnProxyError, ProberInv, ProbingIsDown, Probing, ProbeSteps
<1>3. CASE ProxyError
    BY <1>2, <1>3 DEF ProxyError
<1>4. CASE Start
    BY <1>4 DEF Start
<1>5. CASE BgStep
    BY <1>2, <1>5 DEF BgStep, BgProbe, BgReport, BgTick, BgExit
<1>6. CASE Stop
    BY <1>6 DEF Stop
<1>7. ASSUME NEW l \in Loops, LoopStep(l) PROVE EvidenceInv'
    BY <1>7 DEF LoopStep, Register, CheckDone, ProbeOK, ProbeFails, BackoffOver,
                BackoffCancelled, MarkUp, RecoveryReturns, Return
<1>8. CASE UNCHANGED vars
    BY <1>8 DEF vars
<1>9. QED
    BY <1>1, <1>3, <1>4, <1>5, <1>6, <1>7, <1>8 DEF Next

\* m.probeCancel is the registered prober's own: preserved by every step,
\* since a registration overwrites it only when there is no other prober.
LEMMA CancellableStep ==
    TypeOK /\ ProberInv /\ RegisteredProber /\ [Next]_vars => RegisteredProber'
<1> SUFFICES ASSUME TypeOK, ProberInv, RegisteredProber, [Next]_vars
             PROVE  RegisteredProber'
    OBVIOUS
<1> USE MonitorAssumption
    DEF TypeOK, RegisteredProber, Probing, ProbeSteps, extVars, loopVars, bgVars
<1>1. CASE GrafanaChanges
    BY <1>1 DEF GrafanaChanges
<1>2. ASSUME OnProxyError, UNCHANGED <<cancelled, probeCancel>>
      PROVE  RegisteredProber'
    BY <1>2 DEF OnProxyError
<1>3. CASE ProxyError
    BY <1>2, <1>3 DEF ProxyError
<1>4. CASE Start
    BY <1>4 DEF Start
<1>5. CASE BgStep
    BY <1>2, <1>5 DEF BgStep, BgProbe, BgReport, BgTick, BgExit
<1>6. CASE Stop
    BY <1>6 DEF Stop
<1>7. ASSUME NEW l \in Loops, LoopStep(l) PROVE RegisteredProber'
  <2>1. CASE Register(l)
      BY <2>1 DEF Register, ProberInv, SingleProber
  <2>2. CASE CheckDone(l)
      BY <2>2 DEF CheckDone, Return
  <2>3. CASE ProbeOK(l)
      BY <2>3 DEF ProbeOK
  <2>4. CASE ProbeFails(l)
      BY <2>4 DEF ProbeFails
  <2>5. CASE BackoffOver(l)
      BY <2>5 DEF BackoffOver
  <2>6. CASE BackoffCancelled(l)
      BY <2>6 DEF BackoffCancelled, Return
  <2>7. CASE MarkUp(l)
      BY <2>7 DEF MarkUp, Return
  <2>8. CASE RecoveryReturns(l)
      BY <2>8 DEF RecoveryReturns, Return
  <2>9. QED
      BY <1>7, <2>1, <2>2, <2>3, <2>4, <2>5, <2>6, <2>7, <2>8 DEF LoopStep
<1>8. CASE UNCHANGED vars
    BY <1>8 DEF vars
<1>9. QED
    BY <1>1, <1>3, <1>4, <1>5, <1>6, <1>7, <1>8 DEF Next

\* The back-off stays within its bounds: only ProbeFails computes an interval.
LEMMA BackoffStep == TypeOK /\ BackoffInv /\ [Next]_vars => BackoffInv'
<1> SUFFICES ASSUME TypeOK, BackoffInv, [Next]_vars PROVE BackoffInv'
    OBVIOUS
<1> USE MonitorAssumption
    DEF TypeOK, BackoffInv, IntervalFloor, BackoffBounded, extVars, loopVars, bgVars
<1>1. CASE GrafanaChanges
    BY <1>1 DEF GrafanaChanges
<1>2. ASSUME OnProxyError, UNCHANGED interval PROVE BackoffInv'
    BY <1>2 DEF OnProxyError
<1>3. CASE ProxyError
    BY <1>2, <1>3 DEF ProxyError
<1>4. CASE Start
    BY <1>4 DEF Start
<1>5. CASE BgStep
    BY <1>2, <1>5 DEF BgStep, BgProbe, BgReport, BgTick, BgExit
<1>6. CASE Stop
    BY <1>6 DEF Stop
<1>7. ASSUME NEW l \in Loops, LoopStep(l) PROVE BackoffInv'
  <2>1. CASE Register(l)
      BY <2>1 DEF Register
  <2>2. CASE CheckDone(l)
      BY <2>2 DEF CheckDone, Return
  <2>3. CASE ProbeOK(l)
      BY <2>3 DEF ProbeOK
  <2>4. CASE ProbeFails(l)
    <3>1. PICK i \in nextInterval(interval[l]) :
              interval' = [interval EXCEPT ![l] = i]
        BY <2>4 DEF ProbeFails
    <3>2. /\ i \in Nat
          /\ i >= 2 * BaseInterval
          /\ i < MaxInterval + MaxInterval \div 2
        BY <3>1, NextIntervalBounds
    <3>3. QED
        BY <2>4, <3>1, <3>2 DEF ProbeFails
  <2>5. CASE BackoffOver(l)
      BY <2>5 DEF BackoffOver
  <2>6. CASE BackoffCancelled(l)
      BY <2>6 DEF BackoffCancelled, Return
  <2>7. CASE MarkUp(l)
      BY <2>7 DEF MarkUp, Return
  <2>8. CASE RecoveryReturns(l)
      BY <2>8 DEF RecoveryReturns, Return
  <2>9. QED
      BY <1>7, <2>1, <2>2, <2>3, <2>4, <2>5, <2>6, <2>7, <2>8 DEF LoopStep
<1>8. CASE UNCHANGED vars
    BY <1>8 DEF vars
<1>9. QED
    BY <1>1, <1>3, <1>4, <1>5, <1>6, <1>7, <1>8 DEF Next

-----------------------------------------------------------------------------
\* The inductive invariant holds in every reachable state of the monitor.
THEOREM Inductive == Spec => []IndInv
<1>1. Init => IndInv
  <2> SUFFICES ASSUME Init PROVE IndInv
      OBVIOUS
  <2>1. TypeOK
      BY MonitorAssumption DEF Init, TypeOK, LoopSteps
  <2>2. ProberInv /\ EvidenceInv /\ RegisteredProber
      BY DEF Init, ProberInv, SingleProber, ProbingIsDown, DownIsWatched, StopCancels,
             Probing, ProbeSteps, EvidenceInv, HealthyConfirmed,
             ResumesOnFreshProbe, RegisteredProber
  <2>3. BackoffInv
      BY MonitorAssumption DEF Init, BackoffInv, IntervalFloor, BackoffBounded
  <2>4. QED
      BY <2>1, <2>2, <2>3 DEF IndInv
<1>2. TypeOK' /\ IndInv /\ [Next]_vars => IndInv'
    BY ProberStep, EvidenceStep, CancellableStep, BackoffStep DEF IndInv
<1>3. QED
    BY <1>1, <1>2, TypeCorrect, PTL DEF Spec

\* At most one probeLoop goroutine is ever looking for a recovery.
THEOREM SingleProberHolds == Spec => []SingleProber
<1>1. IndInv => SingleProber
    BY DEF IndInv, ProberInv
<1>2. QED
    BY <1>1, Inductive, PTL

\* Until Stop, StateDown and a working probeLoop come and go together.
THEOREM BlockedIffProbingHolds == Spec => []BlockedIffProbing
<1>1. IndInv => BlockedIffProbing
    BY DEF IndInv, TypeOK, ProberInv, ProbingIsDown, DownIsWatched, BlockedIffProbing
<1>2. QED
    BY <1>1, Inductive, PTL

\* StateUp is only ever reached on a 2xx newer than the outage it ends.
THEOREM ResumesOnFreshProbeHolds == Spec => []ResumesOnFreshProbe
<1>1. IndInv => ResumesOnFreshProbe
    BY DEF IndInv, EvidenceInv
<1>2. QED
    BY <1>1, Inductive, PTL

\* Stop reaches every probeLoop that has registered its cancel function.
THEOREM StopReachesHolds == Spec => StopReachesProbers
<1> DEFINE Reached == ~stopped /\ stopped' =>
             \A l \in Loops : Probing(l) /\ loop[l] # "spawned" => l \in cancelled'
<1>1. IndInv /\ [Next]_vars => [Reached]_vars
  <2> SUFFICES ASSUME IndInv, Next, ~stopped, stopped',
                      NEW l \in Loops, Probing(l), loop[l] # "spawned"
               PROVE  l \in cancelled'
      OBVIOUS
  <2>1. Stop
      BY DEF Next, GrafanaChanges, ProxyError, Start, BgStep, BgProbe, BgReport, BgTick,
             BgExit, LoopStep, Register, CheckDone, ProbeOK, ProbeFails, BackoffOver,
             BackoffCancelled, MarkUp, RecoveryReturns, bgVars
  <2>2. l \in cancelled \/ probeCancel = l
      BY DEF IndInv, RegisteredProber
  <2> QED
      BY <2>1, <2>2, MonitorAssumption DEF Stop
<1>2. QED
    BY <1>1, Inductive, PTL DEF Spec, StopReachesProbers

\* The back-off of an outage of any length stays within its bounds.
THEOREM BackoffBoundedHolds == Spec => []BackoffBounded
<1>1. IndInv => BackoffBounded
    BY DEF IndInv, BackoffInv
<1>2. QED
    BY <1>1, Inductive, PTL

-----------------------------------------------------------------------------
\* Every step of the monitor is a step of the gate or leaves it alone, and the
\* first state is the gate's: GrafanaMonitor implements GrafanaGate.
THEOREM GateRefinement == Spec => ImplementsGate
<1> DEFINE rec == {l \in Loops : loop[l] = "recovering"}
<1>1. Init => Gate!GateInit
    BY DEF Init, Gate!GateInit
<1>2. IndInv /\ [Next]_vars => [Gate!GateNext]_(Gate!gateVars)
  <2> SUFFICES ASSUME IndInv, [Next]_vars
               PROVE  Gate!GateNext \/ UNCHANGED <<state, onRecovery, rec>>
      BY DEF Gate!gateVars
  <2> USE DEF IndInv, TypeOK, extVars, loopVars, bgVars
  <2>1. ASSUME OnProxyError, UNCHANGED onRecovery
        PROVE  Gate!GateCloses \/ UNCHANGED <<state, onRecovery, rec>>
      BY <2>1 DEF OnProxyError, Gate!GateCloses
  <2>2. CASE GrafanaChanges \/ ProxyError \/ Start \/ Stop \/ BgStep
      BY <2>1, <2>2 DEF GrafanaChanges, ProxyError, Start, Stop, BgStep, BgProbe,
                        BgReport, BgTick, BgExit, Gate!GateNext
  <2>3. ASSUME NEW l \in Loops, LoopStep(l)
        PROVE  Gate!GateNext \/ UNCHANGED <<state, onRecovery, rec>>
    <3>1. CASE \/ Register(l) \/ CheckDone(l) \/ ProbeOK(l) \/ ProbeFails(l)
               \/ BackoffOver(l) \/ BackoffCancelled(l)
        BY <3>1 DEF Register, CheckDone, ProbeOK, ProbeFails, BackoffOver,
                    BackoffCancelled, Return
    <3>2. CASE MarkUp(l)
      <4>1. state = "Down" /\ l \notin rec /\ state' = "Up"
          BY <3>2 DEF MarkUp, ProberInv, ProbingIsDown, Probing, ProbeSteps
      <4>2. rec' = IF onRecovery THEN rec \cup {l} ELSE rec
        <5>1. CASE onRecovery
          <6>1. rec' = rec \cup {l}
              BY <3>2, <5>1 DEF MarkUp
          <6>2. QED
              BY <5>1, <6>1
        <5>2. CASE ~onRecovery
          <6>1. rec' = rec
              BY <3>2, <5>2 DEF MarkUp, Return
          <6>2. QED
              BY <5>2, <6>1
        <5>3. QED
            BY <5>1, <5>2
      <4>3. onRecovery' = onRecovery
          BY <3>2 DEF MarkUp
      <4>4. QED
          BY <4>1, <4>2, <4>3 DEF Gate!GateNext, Gate!GateOpens
    <3>3. CASE RecoveryReturns(l)
      <4>1. l \in rec /\ UNCHANGED <<state, onRecovery>>
          BY <3>3 DEF RecoveryReturns
      <4>2. rec' = rec \ {l}
          BY <3>3 DEF RecoveryReturns, Return
      <4>3. QED
          BY <4>1, <4>2 DEF Gate!GateNext, Gate!RecoveryEnds
    <3>4. QED
        BY <2>3, <3>1, <3>2, <3>3 DEF LoopStep
  <2>4. CASE UNCHANGED vars
      BY <2>4 DEF vars
  <2>5. QED
      BY <2>2, <2>3, <2>4 DEF Next
<1>3. QED
    BY <1>1, <1>2, Inductive, PTL DEF Spec, ImplementsGate, Gate!GateSpec

=============================================================================
