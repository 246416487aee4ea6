-------------------------- MODULE LifecycleProofs --------------------------
(***************************************************************************)
(* Theorems about Lifecycle: what sessions promise, and what the ticker    *)
(* makes of the interval, for all configurations, credentials and          *)
(* directories.                                                            *)
(*                                                                         *)
(* A token is validated long after it was made, perhaps by another process *)
(* with another configuration, perhaps after a recovery.  Every start and  *)
(* every invalidation makes one generation; TokensMade says so, and ties a *)
(* token to the start and the invalidation it follows: of those it has the *)
(* generation, and, while the process lives, the key.  LoginsVouchedFor    *)
(* carries what the directory said through the steps of a login.           *)
(***************************************************************************)
EXTENDS Lifecycle, TLAPS

Made(token) ==
    /\ token.gen = token.start + token.since
    /\ token.start <= starts /\ token.since <= invalidations
    /\ (token # NoToken /\ token.start = starts)
         => token.key = SigningKey(source) /\ token.key # NoKey

TokensMade ==
    /\ tokenGen = starts + invalidations
    /\ Made(cookie)
    /\ Made(login.token)

LoginsVouchedFor ==
    /\ stage = "off" => login = NoLogin /\ req = "none"
    /\ login.step # "none" /\ login.typed \in directory => login.confirmed
    /\ login.step \in {"issue", "respond"} =>
         \/ login.confirmed
         \/ IsLocalAdmin(source, login.typed.username, login.typed.password)

\* A callback begins only within the bound.
RecoveryBounded == recovery # "none" => invalidations < MaxInvalidations

IndInv == /\ TypeOK /\ RecoveryBounded /\ TokensMade /\ LoginsVouchedFor
          /\ PanicsOnlyOnOverflow

-----------------------------------------------------------------------------
\* The facts about numbers among the assumptions on the configuration.
LEMMA ConfigNumbers ==
    /\ Minute \in Nat \ {0} /\ MaxDuration \in Nat /\ 15 * Minute <= MaxDuration
    /\ \A src \in Sources : Field(src, "interval_minutes") \in Int
BY ConfigAssumption, LifecycleAssumption, Zenon

\* What fits a Duration is not changed by the multiplication.
LEMMA WrappedFits ==
    ASSUME NEW n \in 0 .. MaxDuration
    PROVE  Wrapped(n) = n
<1> DEFINE half == MaxDuration + 1
<1>1. half \in Nat \ {0} /\ n \in Nat /\ n < half /\ n + MaxDuration + 1 = n + half
  BY ConfigNumbers
<1>2. Wrapped(n) = ((n + half) % (2 * half)) - half
  BY <1>1, Zenon DEF Wrapped
<1> HIDE DEF half
<1>3. n + half \in 0 .. 2 * half - 1
  BY <1>1
<1>4. (n + half) % (2 * half) = n + half
  BY <1>1, <1>3
<1> QED
  BY <1>1, <1>2, <1>4

LEMMA IntervalTypes ==
    ASSUME NEW src \in Sources
    PROVE  LoadConfig(src).Interval \in Int
<1> DEFINE n == Field(src, "interval_minutes") * Minute
<1>1. n \in Int /\ MaxDuration \in Nat /\ Minute \in Nat
  <2>1. Field(src, "interval_minutes") \in Int /\ Minute \in Nat /\ MaxDuration \in Nat
    BY ConfigNumbers
  <2> QED
    BY <2>1
<1> HIDE DEF n
<1>2. (n + MaxDuration + 1) % (2 * (MaxDuration + 1)) \in Int
  BY <1>1
<1>3. Wrapped(n) \in Int
  BY <1>1, <1>2 DEF Wrapped
<1> QED
  BY <1>1, <1>3 DEF LoadConfig, Interval, n

\* The interval of a configuration whose minutes fit a Duration is positive, be
\* they given, zero, negative, or left to the default.
LEMMA IntervalPositive ==
    ASSUME NEW src \in Sources,
           Field(src, "interval_minutes") * Minute <= MaxDuration
    PROVE  LoadConfig(src).Interval > 0
<1> DEFINE minutes == Field(src, "interval_minutes")
<1>1. minutes \in Int /\ Minute \in Nat \ {0} /\ MaxDuration \in Nat
  BY ConfigNumbers
<1>2. LoadConfig(src).Interval =
        IF minutes > 0 THEN Wrapped(minutes * Minute) ELSE 15 * Minute
  BY DEF LoadConfig, Interval
<1>3. minutes * Minute <= MaxDuration
  OBVIOUS
<1> HIDE DEF minutes
<1>4. CASE minutes > 0
  <2>1. minutes * Minute \in 1 .. MaxDuration
    BY <1>1, <1>3, <1>4
  <2>2. Wrapped(minutes * Minute) = minutes * Minute
    BY <2>1, <1>1, WrappedFits
  <2> QED
    BY <1>2, <1>4, <2>1, <2>2
<1>5. CASE ~(minutes > 0)
  BY <1>1, <1>2, <1>5
<1> QED
  BY <1>4, <1>5

\* What LoadConfig derives for tokens has the type its users need.
LEMMA ConfigTypes ==
    ASSUME NEW src \in Sources
    PROVE  /\ LoadConfig(src).JwtExpiryDuration \in Int
           /\ SigningKey(src) \in Keys
<1>1. Lifetime(src) \in Int
  <2>1. CASE Field(src, "jwt_expiry") \in DOMAIN Durations
    BY <2>1, ConfigAssumption DEF Lifetime
  <2>2. CASE Field(src, "jwt_expiry") \notin DOMAIN Durations
    <3>1. Lifetime(src) = DefaultLifetime
      BY <2>2 DEF Lifetime
    <3>2. DefaultLifetime \in Nat
      BY ConfigAssumption, Zenon
    <3>3. DefaultLifetime \in Int
      BY <3>2
    <3> QED
      BY <3>1, <3>3, Zenon
  <2> QED
    BY <2>1, <2>2
<1> QED
  BY <1>1 DEF LoadConfig, Keys

LEMMA NoTokenTypes == NoToken \in Token /\ Older(NoToken) = NoToken
BY LifecycleAssumption DEF NoToken, Token, Keys, Older

LEMMA NoLoginTypes ==
    /\ NoLogin \in Login
    /\ NoLogin.step = "none" /\ NoLogin.token = NoToken /\ NoLogin.confirmed = FALSE
BY LifecycleAssumption, NoTokenTypes DEF NoLogin, Login

\* Time takes nothing from a token but time.
LEMMA OlderKeeps ==
    ASSUME NEW token \in Token
    PROVE  /\ Older(token) \in Token
           /\ Older(token).key = token.key /\ Older(token).gen = token.gen
           /\ Older(token).start = token.start /\ Older(token).since = token.since
           /\ Older(token) # NoToken => token # NoToken
<1>1. token.left \in Int
  BY DEF Token
<1>2. /\ Older(token) \in Token
      /\ Older(token).key = token.key /\ Older(token).gen = token.gen
      /\ Older(token).start = token.start /\ Older(token).since = token.since
  BY <1>1 DEF Older, Token
<1> QED
  BY <1>2, NoTokenTypes

\* The steps of the syncs touch neither main, nor a handler, nor a token.
LEMMA SyncSteps ==
    ASSUME TypeOK,
           \/ PostTrigger \/ QueueLocks \/ QueueUnlocks
           \/ InitialSync \/ Tick \/ WorkerUnlocks \/ LoopEnds
           \/ RecoveryLocks \/ RecoveryUnlocks
    PROVE  /\ UNCHANGED <<mainVars, handlerVars, cookie, directory>>
           /\ worker' \in {"off", "delay", "pass", "loop", "ended"}
           /\ posting' \in BOOLEAN
           /\ queue' \in {"empty", "asked", "pass", "pass+"}
           /\ recovery' \in {"none", "pass", "invalidate"}
           /\ recovery # "none" \/ recovery' = "none" \/ invalidations < MaxInvalidations
           /\ owed' \in BOOLEAN
BY DEF TypeOK, PostTrigger, QueueLocks, QueueUnlocks, InitialSync, Tick, WorkerUnlocks,
       LoopEnds, WorkerMoves, RecoveryLocks, RecoveryUnlocks

-----------------------------------------------------------------------------
\* The variables keep their types, whatever the configurations.
LEMMA TypesStep ==
    ASSUME TypeOK, RecoveryBounded, [Next]_vars
    PROVE  TypeOK'
<1> USE DEF Login
<1>1. CASE UNCHANGED vars
  BY <1>1 DEF TypeOK, vars, mainVars, handlerVars, syncVars
<1>2. ASSUME NEW src \in Sources, Start(src) \/ StartFails(src)
      PROVE  TypeOK'
  <2>1. CASE Start(src)
    <3>1. /\ stage' = "serving" /\ late' = FALSE /\ source' = src
          /\ starts' = starts + 1 /\ tokenGen' = tokenGen + 1 /\ starts < MaxStarts
          /\ worker' \in {"delay", "off"} /\ status' = "none"
          /\ UNCHANGED <<login, req, posting, queue, recovery, invalidations, owed, cookie,
                         directory>>
      BY <2>1 DEF Start, StartWith, FreshGen, handlerVars
    <3>2. MaxStarts \in Nat
      BY LifecycleAssumption
    <3>3. starts' \in 0 .. MaxStarts /\ tokenGen' \in Nat
      BY <3>1, <3>2 DEF TypeOK
    <3>4. source' \in Sources
      BY <3>1
    <3>5. /\ stage' \in {"off", "serving", "draining", "closing", "returning"}
          /\ late' \in BOOLEAN
          /\ worker' \in {"off", "delay", "pass", "loop", "ended"}
          /\ status' \in {"none", "ok", "failed", "panicked"}
      BY <3>1
    <3>6. UNCHANGED <<login, req, posting, queue, recovery, invalidations, owed, cookie,
                      directory>>
      BY <3>1, Zenon
    <3> HIDE DEF Login
    <3> QED
      BY <3>3, <3>4, <3>5, <3>6 DEF TypeOK
  <2>2. CASE StartFails(src)
    BY <2>2 DEF TypeOK, StartFails, handlerVars, syncVars
  <2> QED
    BY <1>2, <2>1, <2>2
<1>3. CASE Crashes \/ MainReturns \/ NewTickerPanics
  BY <1>3, NoLoginTypes DEF TypeOK, Crashes, MainReturns, NewTickerPanics, Exits
<1>4. CASE Signal \/ DeadlinePasses \/ ShutdownReturns \/ Stop
  <2>1. /\ stage' \in {"serving", "draining", "closing", "returning"}
        /\ late' \in BOOLEAN
        /\ UNCHANGED <<source, tokenGen, starts, invalidations, status, handlerVars,
                       syncVars, cookie, directory>>
    BY <1>4 DEF TypeOK, Signal, DeadlinePasses, ShutdownReturns, Stop, MainMoves
  <2>2. stage' \in {"off", "serving", "draining", "closing", "returning"}
    BY <2>1
  <2>3. UNCHANGED <<source, tokenGen, starts, invalidations, status, login, req, worker,
                    posting, queue, recovery, owed, cookie, directory>>
    BY <2>1, Zenon DEF handlerVars, syncVars
  <2> QED
    BY <2>1, <2>2, <2>3 DEF TypeOK
<1>5. ASSUME NEW typed \in Credentials, PostLogin(typed)
      PROVE  TypeOK'
  BY <1>5, NoTokenTypes DEF TypeOK, PostLogin, mainVars, syncVars
<1>6. CASE ldapSearchEntry \/ Bind
  BY <1>6, NoLoginTypes DEF TypeOK, ldapSearchEntry, Bind, Refused, LoginStep, mainVars,
                            syncVars
<1>7. CASE GenerateJWT
  <2>1. CASE login' = NoLogin
    BY <1>7, <2>1, NoLoginTypes DEF TypeOK, GenerateJWT, LoginStep, mainVars, syncVars
  <2>2. CASE login' # NoLogin
    <3> DEFINE token == [key |-> SigningKey(source), gen |-> tokenGen,
                         left |-> LoadConfig(source).JwtExpiryDuration,
                         start |-> starts, since |-> invalidations]
    <3>1. login' = [login EXCEPT !.step = "respond", !.token = token]
      BY <1>7, <2>2 DEF GenerateJWT, Refused
    <3>2. token \in Token
      BY ConfigTypes DEF TypeOK, Token
    <3>3. UNCHANGED <<stage, late, source, tokenGen, starts, invalidations, status, req,
                      worker, posting, queue, recovery, owed, cookie, directory>>
      BY <1>7, Zenon DEF GenerateJWT, LoginStep, mainVars, syncVars
    <3> HIDE DEF token
    <3>4. login' \in Login
      BY <3>1, <3>2 DEF TypeOK
    <3> QED
      BY <3>3, <3>4 DEF TypeOK
  <2> QED
    BY <2>1, <2>2
<1>8. CASE LoginResponds
  BY <1>8, NoLoginTypes DEF TypeOK, LoginResponds, mainVars
<1>9. CASE AuthMiddleware \/ Redirected \/ SwitchesProtocols \/ Answered \/ Logout
  BY <1>9, NoTokenTypes DEF TypeOK, AuthMiddleware, Redirected, SwitchesProtocols, Answered,
                            Logout, mainVars, handlerVars, syncVars
<1>10. CASE \/ PostTrigger \/ QueueLocks \/ QueueUnlocks
            \/ InitialSync \/ Tick \/ WorkerUnlocks \/ LoopEnds
            \/ RecoveryLocks \/ RecoveryUnlocks
  BY <1>10, SyncSteps DEF TypeOK, mainVars, handlerVars
<1>11. CASE TimePasses
  BY <1>11, OlderKeeps DEF TypeOK, TimePasses, mainVars, syncVars
<1>12. CASE DirectoryChanges
  <2>1. login' \in Login
    <3> DEFINE confirmed ==
                 login.confirmed \/ (login # NoLogin /\ login.typed \in directory')
    <3>1. confirmed \in BOOLEAN
      OBVIOUS
    <3>2. login' = [login EXCEPT !.confirmed = confirmed]
      BY <1>12, Zenon DEF DirectoryChanges
    <3> HIDE DEF confirmed
    <3> QED
      BY <3>1, <3>2 DEF TypeOK
  <2>2. directory' \in Directories
    BY <1>12 DEF DirectoryChanges
  <2>3. UNCHANGED <<stage, late, source, tokenGen, starts, invalidations, status, req,
                    worker, posting, queue, recovery, owed, cookie>>
    BY <1>12, Zenon DEF DirectoryChanges, mainVars, syncVars
  <2> QED
    BY <2>1, <2>2, <2>3 DEF TypeOK
<1>13. CASE InvalidateTokens
  <2>1. /\ recovery = "invalidate" /\ recovery' = "none"
        /\ tokenGen' = tokenGen + 1 /\ invalidations' = invalidations + 1
        /\ UNCHANGED <<stage, late, source, starts, status, login, req, worker, posting,
                       queue, owed, cookie, directory>>
    BY <1>13 DEF InvalidateTokens, Invalidates, FreshGen, handlerVars
  <2>2. invalidations < MaxInvalidations /\ MaxInvalidations \in Nat
    BY <2>1, LifecycleAssumption DEF RecoveryBounded
  <2>3. tokenGen' \in Nat /\ invalidations' \in 0 .. MaxInvalidations
    BY <2>1, <2>2 DEF TypeOK
  <2> QED
    BY <2>1, <2>3 DEF TypeOK
<1> QED
  BY <1>1, <1>2, <1>3, <1>4, <1>5, <1>6, <1>7, <1>8, <1>9, <1>10, <1>11, <1>12, <1>13 DEF Next

\* The callback has not yet been counted while it runs, and a panic is remembered
\* with the configuration it came from.
LEMMA BoundsStep ==
    ASSUME TypeOK, RecoveryBounded, PanicsOnlyOnOverflow, [Next]_vars
    PROVE  RecoveryBounded' /\ PanicsOnlyOnOverflow'
<1> USE DEF RecoveryBounded, PanicsOnlyOnOverflow
<1>1. CASE UNCHANGED vars
  BY <1>1 DEF vars, mainVars, syncVars
<1>2. ASSUME NEW src \in Sources, Start(src) \/ StartFails(src)
      PROVE  RecoveryBounded' /\ PanicsOnlyOnOverflow'
  BY <1>2 DEF Start, StartWith, StartFails, syncVars
<1>3. CASE Crashes \/ MainReturns
  BY <1>3 DEF Crashes, MainReturns, Exits
<1>4. CASE NewTickerPanics
  <2>1. ~(LoadConfig(source).Interval > 0) /\ source \in Sources
    <3>1. LoadConfig(source).Interval <= 0 /\ source \in Sources
      BY <1>4 DEF NewTickerPanics, TypeOK
    <3>2. LoadConfig(source).Interval \in Int
      BY <3>1, IntervalTypes
    <3> QED
      BY <3>1, <3>2
  <2>2. ~(Field(source, "interval_minutes") * Minute <= MaxDuration)
    BY <2>1, IntervalPositive
  <2>3. Field(source, "interval_minutes") * Minute \in Int /\ MaxDuration \in Int
    <3>1. Field(source, "interval_minutes") \in Int /\ Minute \in Int /\ MaxDuration \in Int
      BY <2>1, ConfigNumbers
    <3> QED
      BY <3>1
  <2>4. Field(source, "interval_minutes") * Minute > MaxDuration
    BY <2>2, <2>3
  <2>5. UNCHANGED source /\ recovery' = "none"
    BY <1>4 DEF NewTickerPanics, Exits
  <2> QED
    BY <2>4, <2>5
<1>5. CASE Signal \/ DeadlinePasses \/ ShutdownReturns \/ Stop
  BY <1>5 DEF Signal, DeadlinePasses, ShutdownReturns, Stop, MainMoves, syncVars
<1>6. ASSUME NEW typed \in Credentials, PostLogin(typed)
      PROVE  RecoveryBounded' /\ PanicsOnlyOnOverflow'
  BY <1>6 DEF PostLogin, mainVars, syncVars
<1>7. CASE ldapSearchEntry \/ Bind \/ GenerateJWT \/ LoginResponds
  BY <1>7 DEF ldapSearchEntry, Bind, GenerateJWT, LoginStep, LoginResponds, mainVars, syncVars
<1>8. CASE \/ AuthMiddleware \/ Redirected \/ SwitchesProtocols \/ Answered \/ Logout
           \/ TimePasses \/ DirectoryChanges
  BY <1>8 DEF AuthMiddleware, Redirected, SwitchesProtocols, Answered, Logout, TimePasses,
              DirectoryChanges, mainVars, syncVars
<1>9. CASE \/ PostTrigger \/ QueueLocks \/ QueueUnlocks
           \/ InitialSync \/ Tick \/ WorkerUnlocks \/ LoopEnds
           \/ RecoveryLocks \/ RecoveryUnlocks
  BY <1>9, SyncSteps DEF mainVars
<1>10. CASE InvalidateTokens
  BY <1>10 DEF InvalidateTokens, Invalidates
<1> QED
  BY <1>1, <1>2, <1>3, <1>4, <1>5, <1>6, <1>7, <1>8, <1>9, <1>10 DEF Next

-----------------------------------------------------------------------------
\* Every token is of the generation of its start, and of this process's key if
\* this process made it.
LEMMA TokensMadeStep ==
    ASSUME TypeOK, TypeOK', LoginsVouchedFor, TokensMade, [Next]_vars
    PROVE  TokensMade'
<1> USE NoTokenTypes, NoLoginTypes DEF TokensMade, Made, Login
<1>1. CASE UNCHANGED vars
  BY <1>1 DEF vars, mainVars, handlerVars
<1>2. ASSUME NEW src \in Sources, Start(src)
      PROVE  TokensMade'
  <2>1. /\ starts' = starts + 1 /\ tokenGen' = tokenGen + 1
        /\ UNCHANGED <<invalidations, login, cookie>>
    BY <1>2 DEF Start, StartWith, FreshGen, handlerVars
  <2>2. /\ starts \in Nat /\ cookie.start \in Nat /\ login.token.start \in Nat
        /\ invalidations \in Nat
    BY DEF TypeOK, Token
  <2> QED
    BY <2>1, <2>2
<1>3. ASSUME NEW src \in Sources, StartFails(src)
      PROVE  TokensMade'
  BY <1>3 DEF StartFails, handlerVars
<1>4. CASE Crashes \/ MainReturns \/ NewTickerPanics
  <2>1. login' = NoLogin /\ UNCHANGED <<source, tokenGen, starts, invalidations, cookie>>
    BY <1>4 DEF Crashes, MainReturns, NewTickerPanics, Exits
  <2>2. Made(NoToken)'
    BY <2>1 DEF NoToken, TypeOK
  <2> QED
    BY <2>1, <2>2
<1>5. CASE Signal \/ DeadlinePasses \/ ShutdownReturns \/ Stop
  BY <1>5 DEF Signal, DeadlinePasses, ShutdownReturns, Stop, MainMoves, handlerVars
<1>6. ASSUME NEW typed \in Credentials, PostLogin(typed)
      PROVE  TokensMade'
  BY <1>6 DEF PostLogin, mainVars, NoToken, TypeOK
<1>7. CASE ldapSearchEntry
  BY <1>7 DEF ldapSearchEntry, Refused, LoginStep, mainVars, NoToken, TypeOK
<1>8. CASE Bind
  BY <1>8 DEF Bind, Refused, LoginStep, mainVars, NoToken, TypeOK
<1>9. CASE GenerateJWT
  <2>1. UNCHANGED <<source, tokenGen, starts, invalidations, cookie>>
    BY <1>9, Zenon DEF GenerateJWT, LoginStep, mainVars
  <2>2. Made(login.token)'
    <3>1. CASE Refused
      BY <2>1, <3>1 DEF Refused, NoToken, TypeOK
    <3>2. CASE ~Refused
      <4> DEFINE token == [key |-> SigningKey(source), gen |-> tokenGen,
                           left |-> LoadConfig(source).JwtExpiryDuration,
                           start |-> starts, since |-> invalidations]
      <4>1. /\ SigningKey(source) # NoKey
            /\ login' = [login EXCEPT !.step = "respond", !.token = token]
        BY <1>9, <3>2, Zenon DEF GenerateJWT
      <4>2. login'.token = token
        BY <4>1 DEF TypeOK
      <4>3. /\ token.key = SigningKey(source)
            /\ token.gen = starts + invalidations
            /\ token.start = starts /\ token.since = invalidations
        OBVIOUS
      <4>4. starts <= starts /\ invalidations <= invalidations
        BY DEF TypeOK
      <4> HIDE DEF token
      <4> QED
        BY <2>1, <4>1, <4>2, <4>3, <4>4
    <3> QED
      BY <3>1, <3>2
  <2> QED
    BY <2>1, <2>2
<1>10. CASE LoginResponds
  BY <1>10 DEF LoginResponds, mainVars, NoToken, TypeOK
<1>11. CASE AuthMiddleware \/ Redirected \/ SwitchesProtocols \/ Answered \/ Logout
  <2>1. /\ cookie' \in {cookie, NoToken}
        /\ UNCHANGED <<source, tokenGen, starts, invalidations, login>>
    BY <1>11 DEF AuthMiddleware, Redirected, SwitchesProtocols, Answered, Logout, mainVars,
                 handlerVars
  <2>2. Made(NoToken)'
    BY <2>1 DEF NoToken, TypeOK
  <2> QED
    BY <2>1, <2>2
<1>12. CASE \/ PostTrigger \/ QueueLocks \/ QueueUnlocks
            \/ InitialSync \/ Tick \/ WorkerUnlocks \/ LoopEnds
            \/ RecoveryLocks \/ RecoveryUnlocks
  BY <1>12, SyncSteps DEF mainVars, handlerVars
<1>13. CASE TimePasses
  BY <1>13, OlderKeeps DEF TimePasses, mainVars, TypeOK
<1>14. CASE DirectoryChanges
  BY <1>14 DEF DirectoryChanges, mainVars, TypeOK
<1>15. CASE InvalidateTokens
  <2>1. /\ tokenGen' = tokenGen + 1 /\ invalidations' = invalidations + 1
        /\ UNCHANGED <<source, starts, login, cookie>>
    BY <1>15 DEF InvalidateTokens, Invalidates, FreshGen, handlerVars
  <2>2. /\ starts \in Nat /\ invalidations \in Nat
        /\ cookie.since \in Nat /\ login.token.since \in Nat
    BY DEF TypeOK, Token
  <2> QED
    BY <2>1, <2>2
<1> QED
  BY <1>1, <1>2, <1>3, <1>4, <1>5, <1>6, <1>7, <1>8,
     <1>9, <1>10, <1>11, <1>12, <1>13, <1>14, <1>15 DEF Next

\* A login knows what the directory has said, and goes on only if somebody
\* vouches for it.
LEMMA LoginsVouchedForStep ==
    ASSUME TypeOK, TypeOK', LoginsVouchedFor, [Next]_vars
    PROVE  LoginsVouchedFor'
<1> USE NoTokenTypes, NoLoginTypes DEF LoginsVouchedFor, Login
<1>1. CASE UNCHANGED vars
  BY <1>1 DEF vars, mainVars, handlerVars
<1>2. ASSUME NEW src \in Sources, Start(src)
      PROVE  LoginsVouchedFor'
  BY <1>2 DEF Start, StartWith, handlerVars
<1>3. ASSUME NEW src \in Sources, StartFails(src)
      PROVE  LoginsVouchedFor'
  BY <1>3 DEF StartFails, handlerVars
<1>4. CASE Crashes \/ MainReturns \/ NewTickerPanics
  BY <1>4 DEF Crashes, MainReturns, NewTickerPanics, Exits
<1>5. CASE Signal \/ DeadlinePasses \/ ShutdownReturns \/ Stop
  BY <1>5 DEF Signal, DeadlinePasses, ShutdownReturns, Stop, MainMoves, handlerVars
<1>6. ASSUME NEW typed \in Credentials, PostLogin(typed)
      PROVE  LoginsVouchedFor'
  BY <1>6 DEF PostLogin, mainVars, TypeOK
<1>7. CASE ldapSearchEntry
  BY <1>7 DEF ldapSearchEntry, Refused, LoginStep, mainVars, TypeOK
<1>8. CASE Bind
  BY <1>8 DEF Bind, Refused, LoginStep, mainVars, TypeOK
<1>9. CASE GenerateJWT
  BY <1>9 DEF GenerateJWT, Refused, LoginStep, mainVars, TypeOK
<1>10. CASE LoginResponds
  BY <1>10 DEF LoginResponds, mainVars, TypeOK
<1>11. CASE AuthMiddleware \/ Redirected \/ SwitchesProtocols \/ Answered \/ Logout
  BY <1>11 DEF AuthMiddleware, Redirected, SwitchesProtocols, Answered, Logout, mainVars,
               handlerVars, TypeOK
<1>12. CASE \/ PostTrigger \/ QueueLocks \/ QueueUnlocks
            \/ InitialSync \/ Tick \/ WorkerUnlocks \/ LoopEnds
            \/ RecoveryLocks \/ RecoveryUnlocks
  BY <1>12, SyncSteps DEF mainVars, handlerVars
<1>13. CASE TimePasses
  BY <1>13 DEF TimePasses, mainVars, TypeOK
<1>14. CASE DirectoryChanges
  BY <1>14 DEF DirectoryChanges, mainVars, TypeOK
<1>15. CASE InvalidateTokens
  BY <1>15 DEF InvalidateTokens, Invalidates, handlerVars
<1> QED
  BY <1>1, <1>2, <1>3, <1>4, <1>5, <1>6, <1>7, <1>8,
     <1>9, <1>10, <1>11, <1>12, <1>13, <1>14, <1>15 DEF Next

-----------------------------------------------------------------------------
\* The parts hold in every state of Savras, and of its successors after a
\* crash, an exit or a change of the configuration.
THEOREM Invariance == Spec => []IndInv
<1>1. Init => IndInv
  <2> SUFFICES ASSUME Init PROVE IndInv
    OBVIOUS
  <2>1. /\ stage = "off" /\ late = FALSE /\ source \in Sources /\ tokenGen = 0
        /\ login = NoLogin /\ req = "none" /\ worker = "off" /\ posting = FALSE
        /\ queue = "empty" /\ recovery = "none" /\ cookie = NoToken
        /\ directory \in Directories /\ starts = 0 /\ invalidations = 0
        /\ status = "none" /\ owed = FALSE
    BY Zenon DEF Init
  <2>3. MaxStarts \in Nat /\ MaxInvalidations \in Nat
    BY LifecycleAssumption
  <2>4. TypeOK
    <3>1. /\ tokenGen \in Nat /\ starts \in 0 .. MaxStarts
          /\ invalidations \in 0 .. MaxInvalidations
      BY <2>1, <2>3
    <3>2. cookie \in Token /\ login \in Login
      BY <2>1, NoTokenTypes, NoLoginTypes, Zenon
    <3> QED
      BY <2>1, <3>1, <3>2 DEF TypeOK
  <2>5. TokensMade
    BY <2>1, NoLoginTypes DEF TokensMade, Made, NoToken
  <2>6. LoginsVouchedFor /\ RecoveryBounded /\ PanicsOnlyOnOverflow
    BY <2>1, NoLoginTypes DEF LoginsVouchedFor, RecoveryBounded, PanicsOnlyOnOverflow
  <2> QED
    BY <2>4, <2>5, <2>6 DEF IndInv
<1>2. IndInv /\ [Next]_vars => IndInv'
  BY TypesStep, BoundsStep, TokensMadeStep, LoginsVouchedForStep DEF IndInv
<1> QED
  BY <1>1, <1>2, PTL DEF Spec

\* Type correctness, whatever is configured.
THEOREM TypeCorrect == Spec => []TypeOK
<1>1. IndInv => TypeOK
  BY DEF IndInv
<1> QED
  BY <1>1, Invariance, PTL

\* Which steps begin to answer a request, and give a browser a token.
LEMMA Movers ==
    ASSUME TypeOK, Next
    PROVE  /\ req = "none" /\ req' # "none" => AuthMiddleware
           /\ cookie' \notin {cookie, Older(cookie), NoToken} => LoginResponds
BY SyncSteps DEF Next, Start, StartWith, StartFails, Crashes, MainReturns, NewTickerPanics,
     Exits, Signal, DeadlinePasses, ShutdownReturns, Stop, MainMoves, PostLogin,
     ldapSearchEntry, Bind, GenerateJWT, LoginStep, LoginResponds, AuthMiddleware,
     Redirected, SwitchesProtocols, Answered, Logout, InvalidateTokens, Invalidates,
     TimePasses, DirectoryChanges, mainVars, handlerVars

\* A request is let through only with a token that the running process made after
\* its last invalidation.
THEOREM SessionsEndHolds == Spec => SessionsEndWithTheProcess
<1> DEFINE EndStep == req = "none" /\ req' = "forward" =>
                        /\ cookie.start = starts /\ cookie.since = invalidations
                        /\ cookie.left > 0
<1>1. IndInv /\ [Next]_vars => [EndStep]_vars
  <2> SUFFICES ASSUME IndInv, Next, req = "none", req' = "forward"
               PROVE  /\ cookie.start = starts /\ cookie.since = invalidations
                      /\ cookie.left > 0
    OBVIOUS
  <2>1. AuthMiddleware
    BY Movers DEF IndInv
  <2>2. ValidateJWT(cookie)
    BY <2>1 DEF AuthMiddleware
  <2>3. /\ starts \in Nat /\ invalidations \in Nat
        /\ cookie.start \in Nat /\ cookie.since \in Nat
    BY DEF IndInv, TypeOK, Token
  <2>4. /\ cookie.start + cookie.since = starts + invalidations
        /\ cookie.start <= starts /\ cookie.since <= invalidations
    BY <2>2 DEF ValidateJWT, IndInv, TokensMade, Made
  <2> QED
    BY <2>2, <2>3, <2>4 DEF ValidateJWT
<1> QED
  BY <1>1, Invariance, PTL DEF Spec, SessionsEndWithTheProcess

\* A process refuses no token of its own before it expires or is invalidated.
THEOREM SessionsHoldHolds == Spec => SessionsHoldTheirTerm
<1> DEFINE HoldStep == req = "none" /\ req' = "clear" =>
                         \/ cookie.left <= 0
                         \/ cookie.start # starts \/ cookie.since # invalidations
<1>1. IndInv /\ [Next]_vars => [HoldStep]_vars
  <2> SUFFICES ASSUME IndInv, Next, req = "none", req' = "clear", cookie.start = starts,
                      cookie.since = invalidations
               PROVE  cookie.left <= 0
    OBVIOUS
  <2>1. AuthMiddleware
    BY Movers DEF IndInv
  <2>2. cookie # NoToken /\ ~ValidateJWT(cookie)
    BY <2>1 DEF AuthMiddleware
  <2>3. cookie.left \in Int
    BY DEF IndInv, TypeOK, Token
  <2> QED
    BY <2>2, <2>3 DEF ValidateJWT, IndInv, TokensMade, Made
<1> QED
  BY <1>1, Invariance, PTL DEF Spec, SessionsHoldTheirTerm

\* Whoever gets a session has been confirmed by the directory during the login,
\* or is the local admin.
THEOREM SessionsAreEarnedHolds == Spec => SessionsAreEarned
<1> DEFINE EarnStep == cookie' \notin {cookie, Older(cookie), NoToken} =>
                         \/ login.confirmed
                         \/ IsLocalAdmin(source, login.typed.username, login.typed.password)
<1>1. IndInv /\ [Next]_vars => [EarnStep]_vars
  <2> SUFFICES ASSUME IndInv, Next, cookie' \notin {cookie, Older(cookie), NoToken}
               PROVE  \/ login.confirmed
                      \/ IsLocalAdmin(source, login.typed.username, login.typed.password)
    OBVIOUS
  <2>1. LoginResponds
    BY Movers DEF IndInv
  <2> QED
    BY <2>1 DEF LoginResponds, IndInv, LoginsVouchedFor
<1> QED
  BY <1>1, Invariance, PTL DEF Spec, SessionsAreEarned

\* The worker's ticker panics, and Savras with it, only if the configured minutes
\* do not fit a Duration.
THEOREM PanicsOnlyOnOverflowHolds == Spec => []PanicsOnlyOnOverflow
<1>1. IndInv => PanicsOnlyOnOverflow
  BY DEF IndInv
<1> QED
  BY <1>1, Invariance, PTL

=============================================================================
