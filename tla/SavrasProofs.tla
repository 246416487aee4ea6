---------------------------- MODULE SavrasProofs ----------------------------
(***************************************************************************)
(* Proofs about Savras for any number of browsers and probe loops, with    *)
(* sync on or off: type correctness, for which outages, recoveries and     *)
(* invalidations are counted against each other, and that a recovery ends  *)
(* the sessions made before it.                                            *)
(***************************************************************************)
EXTENDS Savras, FiniteSetTheorems, TLAPS

-----------------------------------------------------------------------------
(***************************************************************************)
(* The steps, and what they change.                                        *)
(***************************************************************************)
sessionVars == <<recoverVars, tokenGen, clientVars>>

\* The steps that touch neither tokens nor callbacks.
Bystander ==
    \/ BackgroundCheck \/ ProbeSucceeds \/ GrafanaStops \/ GrafanaStarts
    \/ WorkerLocks \/ WorkerUnlocks \/ QueueLocks \/ QueueUnlocks
    \/ \E c \in Clients : PostLoginTrigger(c) \/ SyncTrigger(c)

\* A step of the monitor, a pass or a trigger leaves every session as it is.
LEMMA BystanderStep ==
    ASSUME Bystander
    PROVE  UNCHANGED sessionVars
BY DEF Bystander, BackgroundCheck, ProbeSucceeds, GrafanaStops, GrafanaStarts, WorkerLocks,
       WorkerUnlocks, QueueLocks, QueueUnlocks, PostLoginTrigger, SyncTrigger, sessionVars

\* Every step of the program is a bystander's or one of those listed here.
LEMMA Steps ==
    ASSUME Next
    PROVE  \/ Bystander
           \/ \E l \in Loops : \/ MonitorOpens(l) \/ RecoveryLocks(l)
                               \/ RecoveryUnlocks(l) \/ InvalidateTokens(l)
           \/ \E c \in Clients : \/ BlockWhenDown(c) \/ AuthMiddleware(c)
                                 \/ Forward(c) \/ ErrorHandler(c)
                                 \/ Authenticate(c) \/ GenerateJWT(c) \/ LoginResponds(c)
                                 \/ Logout(c)
BY DEF Next, ClientStep, Bystander

-----------------------------------------------------------------------------
(***************************************************************************)
(* Outages, recoveries and invalidations.                                  *)
(***************************************************************************)
\* The callbacks whose pass has not ended, and those in front of InvalidateTokens.
Waiting      == {l \in Loops : callback[l] \in {"lock", "sync"}}
Invalidating == {l \in Loops : callback[l] = "invalidate"}

\* Every callback whose pass has not ended, and every recovery pass that has, was
\* begun by an outage of its own that is over; and each of those passes has ended
\* a generation of tokens, or its callback is about to.
Counted ==
    /\ IsFiniteSet(Waiting) /\ IsFiniteSet(Invalidating)
    /\ recoveries + Cardinality(Waiting) + (IF state = "Down" THEN 1 ELSE 0) <= outages
    /\ tokenGen + Cardinality(Invalidating) = recoveries + 1

\* The types of what is counted.
Counters ==
    /\ outages \in Nat /\ recoveries \in Nat /\ tokenGen \in Nat
    /\ state \in {"Up", "Down"}
    /\ callback \in [Loops -> {"none", "lock", "sync", "invalidate"}]

LEMMA CountersOf == TypeOK => Counters
BY SavrasAssumption DEF TypeOK, Counters

\* Only the outages bound what is counted.
LEMMA CountedWithin ==
    ASSUME Counters, Counted
    PROVE  recoveries <= outages /\ tokenGen <= recoveries + 1
<1>1. Cardinality(Waiting) \in Nat /\ Cardinality(Invalidating) \in Nat
  BY FS_CardinalityType DEF Counted
<1> QED
  BY <1>1 DEF Counters, Counted

\* The gate closes at most once per outage, and only a callback changes the rest.
LEMMA GateMoves ==
    ASSUME Counters, Counted, UNCHANGED <<callback, recoveries, tokenGen>>,
           UNCHANGED <<state, outages>> \/ OnProxyError
    PROVE  Counters' /\ Counted'
<1>1. Cardinality(Waiting) \in Nat
  BY FS_CardinalityType DEF Counted
<1>2. Waiting' = Waiting /\ Invalidating' = Invalidating
  BY DEF Waiting, Invalidating
<1>3. \/ UNCHANGED <<state, outages>>
      \/ state = "Up" /\ state' = "Down" /\ outages' = outages + 1
  BY DEF OnProxyError, gateVars, Gate!GateCloses
<1> QED
  BY <1>1, <1>2, <1>3 DEF Counters, Counted

LEMMA CallbackMoves ==
    ASSUME Counters, Counted, NEW l \in Loops,
           MonitorOpens(l) \/ RecoveryLocks(l) \/ RecoveryUnlocks(l) \/ InvalidateTokens(l)
    PROVE  Counters' /\ Counted'
<1>1. /\ Cardinality(Waiting) \in Nat /\ IsFiniteSet(Waiting)
      /\ Cardinality(Invalidating) \in Nat /\ IsFiniteSet(Invalidating)
  BY FS_CardinalityType DEF Counted
<1>2. CASE MonitorOpens(l)
  <2>1. /\ state = "Down" /\ state' = "Up" /\ callback[l] = "none"
        /\ UNCHANGED <<recoveries, outages, tokenGen>>
        /\ callback' = [callback EXCEPT ![l] = IF SyncEnabled THEN "lock" ELSE "none"]
    BY <1>2 DEF MonitorOpens, Gate!GateOpens
  <2>2. /\ Waiting' = Waiting \/ Waiting' = Waiting \cup {l}
        /\ Invalidating' = Invalidating
        /\ Counters'
    BY <2>1 DEF Waiting, Invalidating, Counters
  <2>3. /\ IsFiniteSet(Waiting')
        /\ Cardinality(Waiting') \in {Cardinality(Waiting), Cardinality(Waiting) + 1}
    BY <1>1, <2>2, FS_AddElement
  <2> QED
    BY <1>1, <2>1, <2>2, <2>3 DEF Counters, Counted
<1>3. CASE RecoveryLocks(l)
  <2>1. /\ UNCHANGED <<recoveries, outages, tokenGen, state>> /\ callback[l] = "lock"
        /\ callback' = [callback EXCEPT ![l] = "sync"]
    BY <1>3 DEF RecoveryLocks, gateVars
  <2>2. Waiting' = Waiting /\ Invalidating' = Invalidating /\ Counters'
    BY <2>1 DEF Waiting, Invalidating, Counters
  <2> QED
    BY <2>1, <2>2 DEF Counted
<1>4. CASE RecoveryUnlocks(l)
  <2>1. /\ UNCHANGED <<outages, tokenGen, state>> /\ callback[l] = "sync"
        /\ callback' = [callback EXCEPT ![l] = "invalidate"]
        /\ recoveries' = recoveries + 1
    BY <1>4 DEF RecoveryUnlocks, gateVars
  <2>2. /\ l \in Waiting /\ Waiting' = Waiting \ {l}
        /\ l \notin Invalidating /\ Invalidating' = Invalidating \cup {l}
        /\ Counters'
    BY <2>1 DEF Waiting, Invalidating, Counters
  <2>3. /\ IsFiniteSet(Waiting') /\ Cardinality(Waiting') = Cardinality(Waiting) - 1
        /\ IsFiniteSet(Invalidating')
        /\ Cardinality(Invalidating') = Cardinality(Invalidating) + 1
    BY <1>1, <2>2, FS_AddElement, FS_RemoveElement
  <2> QED
    BY <1>1, <2>1, <2>2, <2>3 DEF Counters, Counted
<1>5. CASE InvalidateTokens(l)
  <2>1. /\ UNCHANGED <<outages, recoveries, state>> /\ callback[l] = "invalidate"
        /\ callback' = [callback EXCEPT ![l] = "none"]
        /\ tokenGen' = tokenGen + 1
    BY <1>5 DEF InvalidateTokens, RecoveryEnds, gateVars
  <2>2. /\ Waiting' = Waiting
        /\ l \in Invalidating /\ Invalidating' = Invalidating \ {l}
        /\ Counters'
    BY <2>1 DEF Waiting, Invalidating, Counters
  <2>3. /\ IsFiniteSet(Invalidating')
        /\ Cardinality(Invalidating') = Cardinality(Invalidating) - 1
    BY <1>1, <2>2, FS_RemoveElement
  <2> QED
    BY <1>1, <2>1, <2>2, <2>3 DEF Counters, Counted
<1> QED
  BY <1>2, <1>3, <1>4, <1>5

LEMMA CountedStep ==
    ASSUME TypeOK, Counted, [Next]_vars
    PROVE  Counters' /\ Counted'
<1>1. Counters
  BY CountersOf
<1>2. CASE Bystander \/ UNCHANGED vars
  <2>1. UNCHANGED <<callback, recoveries, tokenGen>>
    BY <1>2, BystanderStep, Zenon DEF vars, sessionVars, recoverVars
  <2>2. UNCHANGED <<state, outages>> \/ OnProxyError
    BY <1>2, Zenon DEF Bystander, BackgroundCheck, ProbeSucceeds, GrafanaStops, GrafanaStarts,
       WorkerLocks, WorkerUnlocks, QueueLocks, QueueUnlocks, PostLoginTrigger, SyncTrigger,
       vars, gateVars
  <2> QED
    BY <1>1, <2>1, <2>2, GateMoves
<1>3. ASSUME NEW c \in Clients,
             \/ BlockWhenDown(c) \/ AuthMiddleware(c) \/ Forward(c) \/ ErrorHandler(c)
             \/ Authenticate(c) \/ GenerateJWT(c) \/ LoginResponds(c) \/ Logout(c)
      PROVE  Counters' /\ Counted'
  <2>1. /\ UNCHANGED <<callback, recoveries, tokenGen>>
        /\ UNCHANGED <<state, outages>> \/ OnProxyError
    BY <1>3, Zenon DEF BlockWhenDown, AuthMiddleware, Forward, ErrorHandler, Authenticate,
       GenerateJWT, LoginResponds, Logout, gateVars, recoverVars
  <2> QED
    BY <1>1, <2>1, GateMoves
<1> QED
  BY <1>1, <1>2, <1>3, CallbackMoves, Steps

-----------------------------------------------------------------------------
(***************************************************************************)
(* Types.                                                                  *)
(***************************************************************************)
LEMMA TokenTypes == TypeOK => NoToken \in Token /\ BootToSee \in 1 .. MaxBoots
BY SavrasAssumption DEF TypeOK, NoToken, Token, BootToSee

\* The types of what the worker and the browsers have, by part.
SyncTypes ==
    /\ rights \in 0 .. MaxBoots
    /\ runMu \in [by : Actors \cup {"free"}, boot : 0 .. MaxBoots]
    /\ worker \in {"off", "initial", "loop"}

SessionTypes ==
    /\ cookie \in [Clients -> Token]
    /\ req \in [Clients -> [step : {"none", "gated", "forward"}, token : Token]]
    /\ login \in [Clients -> [step : {"none", "known", "minted"}, token : Token]]

LEMMA GrafanaTypesStep ==
    ASSUME TypeOK, [Next]_vars
    PROVE  /\ alive' \in BOOLEAN /\ boot' \in 1 .. MaxBoots
           /\ probed' \in BOOLEAN /\ outages' \in 0 .. MaxOutages
<1>0. /\ alive \in BOOLEAN /\ boot \in 1 .. MaxBoots
      /\ probed \in BOOLEAN /\ outages \in 0 .. MaxOutages
      /\ MaxOutages \in Nat /\ MaxBoots \in Nat
  BY SavrasAssumption DEF TypeOK
<1>1. CASE BackgroundCheck \/ \E c \in Clients : ErrorHandler(c)
  <2>1. OnProxyError /\ UNCHANGED <<alive, boot>>
    BY <1>1, Zenon DEF BackgroundCheck, ErrorHandler, grafanaVars
  <2>2. \/ UNCHANGED <<probed, outages>>
        \/ outages < MaxOutages /\ probed' = FALSE /\ outages' = outages + 1
    BY <2>1, Zenon DEF OnProxyError, gateVars
  <2>3. ASSUME NEW M \in Nat, NEW o \in 0 .. M, o < M
        PROVE  o + 1 \in 0 .. M
    BY <2>3
  <2>4. outages' \in 0 .. MaxOutages
    BY <1>0, <2>2, <2>3, Zenon
  <2> QED
    BY <1>0, <2>1, <2>2, <2>4
<1>2. CASE ProbeSucceeds
  BY <1>0, <1>2 DEF ProbeSucceeds, grafanaVars
<1>3. CASE GrafanaStops \/ GrafanaStarts
  <2>1. /\ alive' \in BOOLEAN /\ UNCHANGED <<probed, outages>>
        /\ \/ boot' = boot
           \/ boot' = boot + 1 /\ boot' <= MaxBoots
    BY <1>3, Zenon DEF GrafanaStops, GrafanaStarts, gateVars
  <2>2. ASSUME NEW M \in Nat, NEW b \in 1 .. M, b + 1 <= M
        PROVE  b + 1 \in 1 .. M
    BY <2>2
  <2>3. boot' \in 1 .. MaxBoots
    BY <1>0, <2>1, <2>2, Zenon
  <2> QED
    BY <1>0, <2>1, <2>3
<1>4. CASE \E l \in Loops : MonitorOpens(l)
  BY <1>0, <1>4 DEF MonitorOpens, grafanaVars
<1>5. ASSUME \/ WorkerLocks \/ WorkerUnlocks \/ QueueLocks \/ QueueUnlocks
             \/ (\E l \in Loops : RecoveryLocks(l) \/ RecoveryUnlocks(l) \/ InvalidateTokens(l))
             \/ (\E c \in Clients : \/ BlockWhenDown(c) \/ AuthMiddleware(c) \/ Forward(c)
                                    \/ Authenticate(c) \/ GenerateJWT(c) \/ LoginResponds(c)
                                    \/ PostLoginTrigger(c) \/ SyncTrigger(c) \/ Logout(c))
             \/ UNCHANGED vars
      PROVE  UNCHANGED <<grafanaVars, gateVars>>
  BY <1>5, Zenon DEF WorkerLocks, WorkerUnlocks, QueueLocks, QueueUnlocks, RecoveryLocks,
     RecoveryUnlocks, InvalidateTokens, BlockWhenDown, AuthMiddleware, Forward, Authenticate,
     GenerateJWT, LoginResponds, PostLoginTrigger, SyncTrigger, Logout, vars
<1>6. CASE UNCHANGED <<grafanaVars, gateVars>>
  BY <1>0, <1>6 DEF grafanaVars, gateVars
<1> QED
  BY <1>1, <1>2, <1>3, <1>4, <1>5, <1>6, Zenon DEF Next, ClientStep

LEMMA SyncTypesStep ==
    ASSUME TypeOK, [Next]_vars
    PROVE  SyncTypes'
<1> USE SavrasAssumption DEF TypeOK, SyncTypes
<1>1. ASSUME NEW a \in Actors, Lock(a), UNCHANGED <<rights, worker>>
      PROVE  SyncTypes'
  BY <1>1 DEF Lock
<1>2. ASSUME NEW a \in Actors, Unlock(a), worker' \in {worker, "loop"}
      PROVE  SyncTypes'
  BY <1>2 DEF Unlock, Free
<1>3. CASE WorkerLocks \/ QueueLocks \/ \E l \in Loops : RecoveryLocks(l)
  BY <1>1, <1>3, Zenon DEF WorkerLocks, QueueLocks, RecoveryLocks, Actors
<1>4. CASE WorkerUnlocks \/ QueueUnlocks \/ \E l \in Loops : RecoveryUnlocks(l)
  BY <1>2, <1>4, Zenon DEF WorkerUnlocks, QueueUnlocks, RecoveryUnlocks, Actors
<1>5. ASSUME \/ BackgroundCheck \/ ProbeSucceeds \/ GrafanaStops \/ GrafanaStarts
             \/ (\E l \in Loops : MonitorOpens(l) \/ InvalidateTokens(l))
             \/ (\E c \in Clients : ClientStep(c))
             \/ UNCHANGED vars
      PROVE  UNCHANGED syncVars
  BY <1>5, Zenon DEF BackgroundCheck, ProbeSucceeds, GrafanaStops, GrafanaStarts, MonitorOpens,
     InvalidateTokens, ClientStep, BlockWhenDown, AuthMiddleware, Forward, ErrorHandler,
     Authenticate, GenerateJWT, LoginResponds, PostLoginTrigger, SyncTrigger, Logout, vars
<1>6. CASE UNCHANGED syncVars
  BY <1>6 DEF syncVars
<1> QED
  BY <1>3, <1>4, <1>5, <1>6, Zenon DEF Next

LEMMA QueueTypesStep ==
    ASSUME TypeOK, [Next]_vars
    PROVE  outstanding' \in SUBSET Clients /\ posting' \in SUBSET Clients
<1> USE DEF TypeOK
<1>1. CASE QueueLocks
  BY <1>1 DEF QueueLocks, Queue!Begin
<1>2. ASSUME NEW c \in Clients, PostLoginTrigger(c) \/ SyncTrigger(c)
      PROVE  outstanding' \in SUBSET Clients /\ posting' \in SUBSET Clients
  BY <1>2 DEF PostLoginTrigger, SyncTrigger, Queue!Ask
<1>3. ASSUME NEW c \in Clients, LoginResponds(c)
      PROVE  outstanding' \in SUBSET Clients /\ posting' \in SUBSET Clients
  <2>1. UNCHANGED outstanding /\ posting' = posting \cup (IF SyncEnabled THEN {c} ELSE {})
    BY <1>3, Zenon DEF LoginResponds
  <2> QED
    BY <2>1
<1>4. ASSUME \/ BackgroundCheck \/ ProbeSucceeds \/ GrafanaStops \/ GrafanaStarts
             \/ WorkerLocks \/ WorkerUnlocks \/ QueueUnlocks
             \/ (\E l \in Loops : \/ MonitorOpens(l) \/ RecoveryLocks(l)
                                  \/ RecoveryUnlocks(l) \/ InvalidateTokens(l))
             \/ (\E c \in Clients : \/ BlockWhenDown(c) \/ AuthMiddleware(c) \/ Forward(c)
                                    \/ ErrorHandler(c) \/ Authenticate(c) \/ GenerateJWT(c)
                                    \/ Logout(c))
             \/ UNCHANGED vars
      PROVE  UNCHANGED queueVars
  BY <1>4, Zenon DEF BackgroundCheck, ProbeSucceeds, GrafanaStops, GrafanaStarts, WorkerLocks,
     WorkerUnlocks, QueueUnlocks, MonitorOpens, RecoveryLocks, RecoveryUnlocks,
     InvalidateTokens, BlockWhenDown, AuthMiddleware, Forward, ErrorHandler, Authenticate,
     GenerateJWT, Logout, vars
<1>5. CASE UNCHANGED queueVars
  BY <1>5 DEF queueVars
<1> QED
  BY <1>1, <1>2, <1>3, <1>4, <1>5, Zenon DEF Next, ClientStep

LEMMA SessionTypesStep ==
    ASSUME TypeOK, [Next]_vars
    PROVE  SessionTypes'
<1>1. NoToken \in Token /\ SessionTypes
  BY TokenTypes DEF TypeOK, SessionTypes
<1>2. CASE UNCHANGED clientVars
  BY <1>1, <1>2 DEF SessionTypes, clientVars
<1>3. ASSUME \/ UNCHANGED vars \/ Bystander
             \/ \E l \in Loops : \/ MonitorOpens(l) \/ RecoveryLocks(l)
                                 \/ RecoveryUnlocks(l) \/ InvalidateTokens(l)
      PROVE  UNCHANGED clientVars
  BY <1>3, BystanderStep, Zenon DEF MonitorOpens, RecoveryLocks, RecoveryUnlocks,
     InvalidateTokens, vars, sessionVars
<1>4. ASSUME NEW c \in Clients,
             \/ BlockWhenDown(c) \/ AuthMiddleware(c) \/ Forward(c) \/ ErrorHandler(c)
             \/ Authenticate(c) \/ GenerateJWT(c) \/ LoginResponds(c) \/ Logout(c)
      PROVE  SessionTypes'
  <2>1. CASE BlockWhenDown(c)
    BY <1>1, <2>1 DEF BlockWhenDown, SessionTypes
  <2>2. CASE AuthMiddleware(c)
    <3>1. cookie' \in [Clients -> Token]
      BY <1>1, <2>2 DEF AuthMiddleware, SessionTypes
    <3>2. req' \in [Clients -> [step : {"none", "gated", "forward"}, token : Token]]
      <4>1. CASE req' = [req EXCEPT ![c].step = "forward"]
        BY <1>1, <4>1 DEF SessionTypes
      <4>2. CASE req' = [req EXCEPT ![c] = Idle]
        BY <1>1, <4>2 DEF Idle, SessionTypes
      <4> QED BY <2>2, <4>1, <4>2 DEF AuthMiddleware
    <3> QED BY <1>1, <2>2, <3>1, <3>2 DEF AuthMiddleware, SessionTypes
  <2>3. CASE Forward(c) \/ ErrorHandler(c)
    BY <1>1, <2>3 DEF Forward, ErrorHandler, Idle, SessionTypes
  <2>4. CASE Authenticate(c)
    BY <1>1, <2>4 DEF Authenticate, SessionTypes
  <2>5. CASE GenerateJWT(c)
    <3>1. [gen |-> tokenGen, since |-> recoveries, boot |-> BootToSee] \in Token
      BY SavrasAssumption, TokenTypes DEF TypeOK, Token
    <3> QED BY <1>1, <2>5, <3>1 DEF GenerateJWT, SessionTypes
  <2>6. CASE LoginResponds(c)
    BY <1>1, <2>6 DEF LoginResponds, Idle, SessionTypes
  <2>7. CASE Logout(c)
    BY <1>1, <2>7 DEF Logout, SessionTypes
  <2> QED BY <1>4, <2>1, <2>2, <2>3, <2>4, <2>5, <2>6, <2>7
<1> QED BY <1>2, <1>3, <1>4, Steps

LEMMA TypeStep ==
    ASSUME TypeOK, Counted, [Next]_vars
    PROVE  TypeOK' /\ Counted'
<1>1. Counters' /\ Counted'
  BY CountedStep
<1>2. recoveries' <= outages' /\ tokenGen' <= recoveries' + 1
  <2>1. IsFiniteSet(Waiting') /\ IsFiniteSet(Invalidating')
    BY <1>1 DEF Counted
  <2>2. Cardinality(Waiting') \in Nat /\ Cardinality(Invalidating') \in Nat
    BY <2>1, FS_CardinalityType
  <2>3. /\ outages' \in Nat /\ recoveries' \in Nat /\ tokenGen' \in Nat
        /\ recoveries' + Cardinality(Waiting') + (IF state' = "Down" THEN 1 ELSE 0) <= outages'
        /\ tokenGen' + Cardinality(Invalidating') = recoveries' + 1
    BY <1>1, Zenon DEF Counters, Counted
  <2>4. ASSUME NEW o \in Nat, NEW r \in Nat, NEW t \in Nat, NEW w \in Nat, NEW i \in Nat,
               r + w + (IF state' = "Down" THEN 1 ELSE 0) <= o, t + i = r + 1
        PROVE  r <= o /\ t <= r + 1
    BY <2>4
  <2> QED
    BY <2>2, <2>3, <2>4, Zenon
<1>3. tokenGen' \in 1 .. MaxOutages + 1 /\ recoveries' \in 0 .. MaxOutages
  <2>1. tokenGen' \in {tokenGen, tokenGen + 1}
    <3>1. ASSUME NEW l \in Loops,
                 \/ MonitorOpens(l) \/ RecoveryLocks(l) \/ RecoveryUnlocks(l)
                 \/ InvalidateTokens(l)
          PROVE  tokenGen' \in {tokenGen, tokenGen + 1}
      BY <3>1 DEF MonitorOpens, RecoveryLocks, RecoveryUnlocks, InvalidateTokens
    <3>2. ASSUME NEW c \in Clients,
                 \/ BlockWhenDown(c) \/ AuthMiddleware(c) \/ Forward(c) \/ ErrorHandler(c)
                 \/ Authenticate(c) \/ GenerateJWT(c) \/ LoginResponds(c) \/ Logout(c)
          PROVE  tokenGen' = tokenGen
      BY <3>2, Zenon DEF BlockWhenDown, AuthMiddleware, Forward, ErrorHandler, Authenticate,
         GenerateJWT, LoginResponds, Logout
    <3>3. Bystander \/ UNCHANGED vars => tokenGen' = tokenGen
      BY BystanderStep, Zenon DEF sessionVars, vars
    <3> QED
      BY <3>1, <3>2, <3>3, Steps
  <2>2. outages' \in 0 .. MaxOutages
    BY GrafanaTypesStep
  <2>3. /\ tokenGen \in 1 .. MaxOutages + 1 /\ MaxOutages \in Nat
        /\ recoveries' \in Nat
    BY <1>1, SavrasAssumption DEF TypeOK, Counters
  <2>4. ASSUME NEW M \in Nat, NEW t \in 1 .. M + 1, NEW t1 \in {t, t + 1},
               NEW r1 \in Nat, NEW o1 \in 0 .. M, r1 <= o1, t1 <= r1 + 1
        PROVE  t1 \in 1 .. M + 1 /\ r1 \in 0 .. M
    BY <2>4
  <2> QED
    BY <1>2, <2>1, <2>2, <2>3, <2>4, Zenon
<1>4. TypeOK'
  BY <1>1, <1>3, GrafanaTypesStep, SyncTypesStep, QueueTypesStep, SessionTypesStep
     DEF TypeOK, Counters, SyncTypes, SessionTypes
<1> QED
  BY <1>1, <1>4

LEMMA TypeInit == Init => TypeOK /\ Counted
<1> SUFFICES ASSUME Init
             PROVE  TypeOK /\ Counted
  OBVIOUS
<1>1. NoToken \in Token
  BY SavrasAssumption DEF NoToken, Token
<1>2. TypeOK
  <2>1. /\ MaxOutages \in Nat /\ MaxBoots \in Nat \ {0}
    BY SavrasAssumption
  <2>2. /\ cookie \in [Clients -> Token]
        /\ req \in [Clients -> [step : {"none", "gated", "forward"}, token : Token]]
        /\ login \in [Clients -> [step : {"none", "known", "minted"}, token : Token]]
    BY <1>1 DEF Init, Idle
  <2>3. /\ runMu \in [by : Actors \cup {"free"}, boot : 0 .. MaxBoots]
        /\ callback \in [Loops -> {"none", "lock", "sync", "invalidate"}]
    BY <2>1 DEF Init, Free
  <2>4. /\ boot \in 1 .. MaxBoots /\ rights \in 0 .. MaxBoots
        /\ tokenGen \in 1 .. MaxOutages + 1
        /\ outages \in 0 .. MaxOutages /\ recoveries \in 0 .. MaxOutages
    BY <2>1 DEF Init
  <2> QED
    BY <2>2, <2>3, <2>4 DEF Init, TypeOK
<1>3. Waiting = {} /\ Invalidating = {}
  BY DEF Init, Waiting, Invalidating
<1> QED
  BY <1>2, <1>3, FS_EmptySet DEF Init, Counted

\* Types bound the counts and the counts keep the types.
LEMMA TypeInvariance == Spec => [](TypeOK /\ Counted)
BY TypeInit, TypeStep, PTL DEF Spec

\* Every variable stays in its type.  For tokenGen this says that no invalidation
\* happens without a recovery pass, and for recoveries that no recovery pass
\* happens without an outage.
THEOREM TypeCorrect == Spec => []TypeOK
BY TypeInvariance, PTL

-----------------------------------------------------------------------------
\* A step that lets no callback skip its invalidation, and after which browsers
\* hold tokens they held before, or none, or one of the current generation made
\* after the last recovery pass, preserves the invariant.
LEMMA TokensMove ==
    ASSUME TypeOK, OldSessionsAreDoomed,
           UNCHANGED <<tokenGen, recoveries>>,
           \A l \in Loops : callback[l] = "invalidate" => callback'[l] = "invalidate",
           \A t \in Tokens' : \/ t \in Tokens \cup {NoToken}
                              \/ t.gen = tokenGen /\ t.since = recoveries
    PROVE  OldSessionsAreDoomed'
<1> SUFFICES ASSUME NEW t \in Tokens'
             PROVE  /\ t.gen <= tokenGen
                    /\ t # NoToken /\ t.gen = tokenGen /\ t.since # recoveries =>
                         \E l \in Loops : callback'[l] = "invalidate"
  BY DEF OldSessionsAreDoomed, Accepts
<1>1. CASE t \in Tokens
  BY <1>1 DEF OldSessionsAreDoomed, Accepts
<1>2. CASE t = NoToken
  BY <1>2 DEF NoToken, TypeOK
<1>3. CASE t.gen = tokenGen /\ t.since = recoveries
  BY <1>3 DEF TypeOK
<1> QED BY <1>1, <1>2, <1>3

\* Where the tokens come from when only one browser's state changes.
LEMMA TokensOf ==
    /\ \A c \in Clients : /\ cookie[c] \in Tokens
                          /\ req[c].token \in Tokens
                          /\ login[c].token \in Tokens
    /\ \A t \in Tokens' : \E c \in Clients : \/ t = cookie'[c]
                                             \/ t = req'[c].token
                                             \/ t = login'[c].token
BY DEF Tokens

-----------------------------------------------------------------------------
\* No step of Savras lets a token older than the last recovery pass be accepted
\* unless a callback is about to invalidate it.
LEMMA DoomedStep ==
    ASSUME TypeOK, OldSessionsAreDoomed, [Next]_vars
    PROVE  OldSessionsAreDoomed'
<1>1. CASE UNCHANGED sessionVars
  BY <1>1 DEF sessionVars, recoverVars, clientVars, OldSessionsAreDoomed, Accepts, Tokens
<1>2. CASE Bystander
  BY <1>1, <1>2, BystanderStep
<1>3. CASE UNCHANGED vars
  BY <1>1, <1>3 DEF vars, sessionVars
<1>4. ASSUME NEW l \in Loops,
             MonitorOpens(l) \/ RecoveryLocks(l) \/ RecoveryUnlocks(l) \/ InvalidateTokens(l)
      PROVE  OldSessionsAreDoomed'
  <2>0. Tokens' = Tokens
    BY <1>4 DEF MonitorOpens, RecoveryLocks, RecoveryUnlocks, InvalidateTokens, clientVars, Tokens
  <2>a. \A t \in Tokens' : \/ t \in Tokens \cup {NoToken}
                           \/ t.gen = tokenGen /\ t.since = recoveries
    BY <2>0
  <2>1. CASE MonitorOpens(l)
    <3>1. callback[l] = "none"
      BY <2>1 DEF MonitorOpens, Gate!GateOpens
    <3>2. UNCHANGED <<tokenGen, recoveries>>
      BY <2>1 DEF MonitorOpens
    <3>3. \A k \in Loops : callback[k] = "invalidate" => callback'[k] = "invalidate"
      BY <2>1, <3>1 DEF MonitorOpens, TypeOK
    <3> QED BY <2>a, <3>2, <3>3, TokensMove
  <2>2. CASE RecoveryLocks(l)
    <3>1. UNCHANGED <<tokenGen, recoveries>>
      BY <2>2 DEF RecoveryLocks
    <3>2. \A k \in Loops : callback[k] = "invalidate" => callback'[k] = "invalidate"
      BY <2>2 DEF RecoveryLocks, TypeOK
    <3> QED BY <2>a, <3>1, <3>2, TokensMove
  \* The pass has ended: every token is now older, and this callback's turn comes.
  <2>3. CASE RecoveryUnlocks(l)
    <3>1. callback'[l] = "invalidate" /\ tokenGen' = tokenGen
      BY <2>3 DEF RecoveryUnlocks, TypeOK
    <3> QED BY <2>0, <3>1 DEF OldSessionsAreDoomed, Accepts
  \* The new generation is larger than that of any token.
  <2>4. CASE InvalidateTokens(l)
    <3>1. tokenGen' = tokenGen + 1
      BY <2>4 DEF InvalidateTokens
    <3>2. \A t \in Tokens : t.gen \in Nat /\ t.gen <= tokenGen
      BY SavrasAssumption DEF OldSessionsAreDoomed, Tokens, TypeOK, Token
    <3> QED BY <2>0, <3>1, <3>2 DEF OldSessionsAreDoomed, Accepts, TypeOK
  <2> QED BY <1>4, <2>1, <2>2, <2>3, <2>4
<1>5. ASSUME NEW c \in Clients,
             \/ BlockWhenDown(c) \/ AuthMiddleware(c) \/ Forward(c) \/ ErrorHandler(c)
             \/ Authenticate(c) \/ GenerateJWT(c) \/ LoginResponds(c) \/ Logout(c)
      PROVE  OldSessionsAreDoomed'
  <2>0. UNCHANGED <<tokenGen, recoveries>> /\ UNCHANGED callback
    BY <1>5 DEF BlockWhenDown, AuthMiddleware, Forward, ErrorHandler, Authenticate,
                GenerateJWT, LoginResponds, Logout, recoverVars
  <2> SUFFICES ASSUME NEW b \in Clients,
                      NEW t \in {cookie'[b], req'[b].token, login'[b].token}
               PROVE  \/ t \in Tokens \cup {NoToken}
                      \/ t.gen = tokenGen /\ t.since = recoveries
    <3>1. \A t \in Tokens' : \/ t \in Tokens \cup {NoToken}
                             \/ t.gen = tokenGen /\ t.since = recoveries
      BY TokensOf
    <3> QED BY <2>0, <3>1, TokensMove
  <2>1. /\ cookie[b] \in Tokens /\ req[b].token \in Tokens /\ login[b].token \in Tokens
        /\ cookie[c] \in Tokens /\ req[c].token \in Tokens /\ login[c].token \in Tokens
    BY TokensOf
  <2>2. CASE BlockWhenDown(c)
    BY <2>1, <2>2 DEF BlockWhenDown, TypeOK
  <2>3. CASE AuthMiddleware(c)
    <3>1. cookie'[b] \in {cookie[b], NoToken} /\ login' = login
      BY <2>3 DEF AuthMiddleware, TypeOK
    <3>2. req'[b].token \in {req[b].token, NoToken}
      <4>1. CASE req' = [req EXCEPT ![c].step = "forward"]
        BY <4>1 DEF TypeOK
      <4>2. CASE req' = [req EXCEPT ![c] = Idle]
        BY <4>2 DEF TypeOK, Idle
      <4> QED BY <2>3, <4>1, <4>2 DEF AuthMiddleware
    <3> QED BY <2>1, <3>1, <3>2
  <2>4. CASE Forward(c)
    BY <2>1, <2>4 DEF Forward, Idle, TypeOK
  <2>5. CASE ErrorHandler(c)
    BY <2>1, <2>5 DEF ErrorHandler, Idle, TypeOK
  <2>6. CASE Authenticate(c)
    BY <2>1, <2>6 DEF Authenticate, TypeOK
  \* The generation is read after the last recovery pass, or before an
  \* invalidation that is still to come.
  <2>7. CASE GenerateJWT(c)
    BY <2>1, <2>7 DEF GenerateJWT, TypeOK
  <2>8. CASE LoginResponds(c)
    BY <2>1, <2>8 DEF LoginResponds, Idle, TypeOK
  <2>9. CASE Logout(c)
    BY <2>1, <2>9 DEF Logout, TypeOK
  <2> QED BY <1>5, <2>2, <2>3, <2>4, <2>5, <2>6, <2>7, <2>8, <2>9
<1> QED BY <1>2, <1>3, <1>4, <1>5, Steps

\* Savras starts without tokens.
LEMMA DoomedInit == Init => OldSessionsAreDoomed
<1>1. Init => \A t \in Tokens : t = NoToken
  BY DEF Init, Idle, Tokens
<1> QED
  BY <1>1 DEF Init, OldSessionsAreDoomed, Accepts, NoToken

\* The invariant holds throughout: an accepted token older than the last recovery
\* pass is one that a running callback is about to invalidate.
THEOREM DoomedHolds == Spec => []OldSessionsAreDoomed
<1>1. TypeOK /\ OldSessionsAreDoomed /\ [Next]_vars => OldSessionsAreDoomed'
  BY DoomedStep
<1> QED
  BY <1>1, DoomedInit, TypeCorrect, PTL DEF Spec

\* Once the recovery callbacks have returned, InvalidateTokens has ended every
\* session made before the last recovery pass ended, for any number of browsers
\* and overlapping recoveries.
THEOREM RecoveryEndsSessionsHolds == Spec => []RecoveryEndsSessions
<1>1. OldSessionsAreDoomed => RecoveryEndsSessions
  BY DEF OldSessionsAreDoomed, RecoveryEndsSessions
<1> QED BY <1>1, DoomedHolds, PTL

=============================================================================
