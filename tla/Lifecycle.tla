------------------------------ MODULE Lifecycle ------------------------------
(***************************************************************************)
(* Savras from start to exit, and again: main of cmd/savras/main.go with   *)
(* the login and the tokens of internal/auth/auth.go, the loop of the sync *)
(* worker, and what a process leaves behind: the cookie of a browser.      *)
(*                                                                         *)
(* The configuration may be another one at each start (module Config).     *)
(* LDAP and Grafana may keep a handler or a pass waiting for ever, since   *)
(* neither LDAP calls nor the reverse proxy have a timeout.  Of a recovery *)
(* of Grafana there is the callback, one at a time (module Savras has more *)
(* of them, and what leads to them); the queue appears as what it promises *)
(* (CoalescedSync), with Grafana up.                                       *)
(***************************************************************************)
EXTENDS Config

CONSTANTS
    Sources,            \* the configurations a process may find
    Credentials,        \* what users type: records username, password
    Directories,        \* sets of the credentials LDAP confirms
    MaxStarts,          \* bound on how often Savras is started
    MaxInvalidations    \* bound on how often InvalidateTokens is called

ASSUME LifecycleAssumption ==
    /\ \A src \in Sources : Field(src, "interval_minutes") \in Int
    /\ Credentials # {}
    /\ MaxStarts \in Nat \ {0}
    /\ MaxInvalidations \in Nat

VARIABLES
    \* The process.
    stage,              \* of main: "off", "serving", "draining" (in Shutdown),
                        \* "closing" (it has returned), "returning" (all stopped)
    late,               \* the ten seconds of shutdownCtx are over
    source,             \* the configuration of the process, or of the last one
    tokenGen,
    \* Its handlers, one login and one proxied request at a time.
    login, req,
    \* Its syncs.
    worker,             \* "off", "delay" before the first pass, "pass", "loop", "ended"
    posting,            \* a goroutine has yet to call syncTriggerFn
    queue,              \* "empty", "asked"; "pass" and "pass+" (asked again) inside one
    recovery,           \* recoveryFn: "none", "pass" inside doSync, "invalidate" after it
    \* What is outside.
    cookie,             \* the browser's token
    directory,          \* the credentials LDAP would confirm now
    \* History.
    starts,             \* how often Savras has been started
    invalidations,      \* how often InvalidateTokens has been called, by any process
    status,             \* how the last process ended: "none", "ok", "failed", "panicked"
    owed                \* a login has been answered, and no pass has begun since

mainVars    == <<stage, late, source, tokenGen, starts, invalidations, status>>
handlerVars == <<login, req>>
syncVars    == <<worker, posting, queue, recovery, owed>>
vars        == <<mainVars, handlerVars, syncVars, cookie, directory>>

\* A token: the key it is signed with, its generation, the time until it expires,
\* and, as history, the process that made it and the invalidations before that.
NoToken == [key |-> NoKey, gen |-> 0, left |-> 0, start |-> 0, since |-> 0]

\* A login under way; confirmed, history too, says that the directory would have
\* confirmed the credentials at some moment since it began.
NoLogin == [step |-> "none", typed |-> CHOOSE c \in Credentials : TRUE,
            confirmed |-> FALSE, token |-> NoToken]

Keys  == {SigningKey(src) : src \in Sources} \cup {NoKey}
Token == [key : Keys, gen : Nat, left : Int, start : 0 .. MaxStarts,
          since : 0 .. MaxInvalidations]

Login == [step : {"none", "search", "bind", "issue", "respond"},
          typed : Credentials, confirmed : BOOLEAN, token : Token]

RunMuFree == worker # "pass" /\ queue \notin {"pass", "pass+"} /\ recovery # "pass"

TypeOK ==
    /\ stage \in {"off", "serving", "draining", "closing", "returning"}
    /\ late \in BOOLEAN
    /\ source \in Sources
    /\ tokenGen \in Nat
    /\ login \in Login
    /\ req \in {"none", "forward", "hijacked", "clear"}
    /\ worker \in {"off", "delay", "pass", "loop", "ended"}
    /\ posting \in BOOLEAN
    /\ queue \in {"empty", "asked", "pass", "pass+"}
    /\ recovery \in {"none", "pass", "invalidate"}
    /\ cookie \in Token
    /\ directory \in Directories
    /\ starts \in 0 .. MaxStarts
    /\ invalidations \in 0 .. MaxInvalidations
    /\ status \in {"none", "ok", "failed", "panicked"}
    /\ owed \in BOOLEAN

Init ==
    /\ stage = "off" /\ late = FALSE
    /\ source \in Sources
    /\ tokenGen = 0
    /\ login = NoLogin /\ req = "none"
    /\ worker = "off" /\ posting = FALSE /\ queue = "empty" /\ recovery = "none"
    /\ cookie = NoToken
    /\ directory \in Directories
    /\ starts = 0 /\ invalidations = 0 /\ status = "none" /\ owed = FALSE

-----------------------------------------------------------------------------
(***************************************************************************)
(* main.                                                                   *)
(***************************************************************************)
\* Generations are UUIDs: a fresh one is none that was there before.
FreshGen == tokenGen + 1

\* LoadConfig, auth.Init with a generation, and the worker, which is to begin as
\* first; the queue, the monitor and the server.
StartWith(src, gen, first) ==
    /\ stage = "off"
    /\ starts < MaxStarts
    /\ src.wellFormed
    /\ stage' = "serving" /\ late' = FALSE
    /\ source' = src
    /\ tokenGen' = gen
    /\ worker' = IF LoadConfig(src).SyncEnabled THEN first ELSE "off"
    /\ starts' = starts + 1
    /\ status' = "none"
    /\ UNCHANGED <<handlerVars, posting, queue, recovery, invalidations, owed, cookie,
                   directory>>

Start_CountsGenerations(src) == StartWith(src, 1, "delay")

Start_NoInitialSync(src) == StartWith(src, FreshGen, "loop")

Start(src) == StartWith(src, FreshGen, "delay")

\* LoadConfig returns an error: os.Exit(1).
StartFails(src) ==
    /\ stage = "off"
    /\ ~src.wellFormed
    /\ status' = "failed"
    /\ UNCHANGED <<stage, late, source, tokenGen, starts, invalidations, handlerVars,
                   syncVars, cookie, directory>>

\* All goroutines are gone, with what they were doing.
Exits(how) ==
    /\ stage' = "off" /\ late' = FALSE
    /\ login' = NoLogin /\ req' = "none"
    /\ worker' = "off" /\ posting' = FALSE /\ queue' = "empty" /\ recovery' = "none"
    /\ status' = how
    /\ UNCHANGED <<source, tokenGen, starts, invalidations, owed, cookie, directory>>

\* A kill, a signal before Notify, or os.Exit(1) when the listener fails.
Crashes ==
    /\ stage # "off"
    /\ Exits("failed")

MainMoves(from, to) ==
    /\ stage = from
    /\ stage' = to
    /\ UNCHANGED <<source, tokenGen, starts, invalidations, status, handlerVars, syncVars,
                   cookie, directory>>

\* SIGINT or SIGTERM; main calls srv.Shutdown, which closes the listener.  Any
\* further signal stays in the channel.
Signal ==
    /\ MainMoves("serving", "draining")
    /\ UNCHANGED late

DeadlinePasses ==
    /\ MainMoves("draining", "draining")
    /\ ~late /\ late' = TRUE

\* The handlers Shutdown waits for: a hijacked connection is not the server's.
Active == login # NoLogin \/ req \in {"forward", "clear"}

ShutdownReturns_NoTimeout ==
    /\ MainMoves("draining", "closing")
    /\ ~Active
    /\ UNCHANGED late

\* When no such handler is left, or because of the deadline.
ShutdownReturns ==
    /\ MainMoves("draining", "closing")
    /\ ~Active \/ late
    /\ UNCHANGED late

\* monitor.Stop and worker.Stop: both signal their goroutines and wait for none.
Stop ==
    /\ MainMoves("closing", "returning")
    /\ UNCHANGED late

MainReturns ==
    /\ stage = "returning"
    /\ Exits("ok")

-----------------------------------------------------------------------------
(***************************************************************************)
(* Login: Authenticate, GenerateJWT and the answer.                        *)
(***************************************************************************)
PostLogin(typed) ==
    /\ stage = "serving"
    /\ login = NoLogin
    /\ login' = [step      |-> IF IsLocalAdmin(source, typed.username, typed.password)
                               THEN "issue" ELSE "search",
                 typed     |-> typed,
                 confirmed |-> typed \in directory,
                 token     |-> NoToken]
    /\ UNCHANGED <<mainVars, req, syncVars, cookie, directory>>

\* The login form again, or, without a key, an internal error.
Refused == login' = NoLogin

LoginStep(from) ==
    /\ login.step = from
    /\ UNCHANGED <<mainVars, req, syncVars, cookie, directory>>

ldapSearchEntry_Suffices ==
    /\ LoginStep("search")
    /\ \/ /\ \E entry \in directory : entry.username = login.typed.username
          /\ login' = [login EXCEPT !.step = "issue"]
       \/ Refused

\* An entry, none, or an error on the way.
ldapSearchEntry ==
    /\ LoginStep("search")
    /\ \/ /\ \E entry \in directory : entry.username = login.typed.username
          /\ login' = [login EXCEPT !.step = "bind"]
       \/ Refused

\* A second connection, bound as the entry with the password that was typed.
Bind ==
    /\ LoginStep("bind")
    /\ \/ login.typed \in directory /\ login' = [login EXCEPT !.step = "issue"]
       \/ Refused

GenerateJWT ==
    /\ LoginStep("issue")
    /\ \/ /\ SigningKey(source) # NoKey
          /\ login' = [login EXCEPT
                         !.step  = "respond",
                         !.token = [key |-> SigningKey(source), gen |-> tokenGen,
                                    left |-> LoadConfig(source).JwtExpiryDuration,
                                    start |-> starts, since |-> invalidations]]
       \/ SigningKey(source) = NoKey /\ Refused

\* Set-Cookie, and the goroutine for the post-login sync.
LoginResponds ==
    /\ login.step = "respond"
    /\ login' = NoLogin
    /\ cookie' = login.token
    /\ posting' = (posting \/ LoadConfig(source).SyncEnabled)
    /\ owed' = (owed \/ LoadConfig(source).SyncEnabled)
    /\ UNCHANGED <<mainVars, req, worker, queue, recovery, directory>>

-----------------------------------------------------------------------------
(***************************************************************************)
(* Requests.                                                               *)
(***************************************************************************)
ValidateJWT_RSAOnly(token) ==
    /\ getPrivateKey(source) # ""
    /\ token.key = [method |-> "RS256", text |-> getPrivateKey(source)]
    /\ token.left > 0
    /\ token.gen = tokenGen

\* By the key of this process, whatever the token says, then the expiry and the
\* generation.
ValidateJWT(token) ==
    /\ SigningKey(source) # NoKey
    /\ token.key = SigningKey(source)
    /\ token.left > 0
    /\ token.gen = tokenGen

AuthMiddleware ==
    /\ stage = "serving"
    /\ req = "none"
    /\ cookie # NoToken
    /\ req' = IF ValidateJWT(cookie) THEN "forward" ELSE "clear"
    /\ UNCHANGED <<mainVars, login, syncVars, cookie, directory>>

\* The redirect to the login page reaches the browser and clears its cookie, be it
\* still the one that was refused or not.
Redirected ==
    /\ req = "clear"
    /\ req' = "none"
    /\ cookie' = NoToken
    /\ UNCHANGED <<mainVars, login, syncVars, directory>>

\* Grafana answers a WebSocket request with 101: the reverse proxy hijacks the
\* connection and copies bytes until either side ends it.
SwitchesProtocols ==
    /\ req = "forward"
    /\ req' = "hijacked"
    /\ UNCHANGED <<mainVars, login, syncVars, cookie, directory>>

\* Grafana's answer, its failure, or the end of the WebSocket reaches the client.
Answered ==
    /\ req \in {"forward", "hijacked"}
    /\ req' = "none"
    /\ UNCHANGED <<mainVars, login, syncVars, cookie, directory>>

Logout ==
    /\ stage = "serving"
    /\ cookie' = NoToken
    /\ UNCHANGED <<mainVars, handlerVars, syncVars, directory>>

-----------------------------------------------------------------------------
(***************************************************************************)
(* Syncs.                                                                  *)
(***************************************************************************)
\* The post-login goroutine; a trigger joins one that is outstanding.
PostTrigger ==
    /\ posting
    /\ posting' = FALSE
    /\ \/ queue = "empty" /\ queue' = "asked"
       \/ queue = "pass" /\ queue' = "pass+"
       \/ queue \in {"asked", "pass+"} /\ UNCHANGED queue
    /\ UNCHANGED <<mainVars, handlerVars, worker, recovery, owed, cookie, directory>>

QueueLocks ==
    /\ queue = "asked"
    /\ RunMuFree
    /\ queue' = "pass"
    /\ owed' = FALSE
    /\ UNCHANGED <<mainVars, handlerVars, worker, posting, recovery, cookie, directory>>

QueueUnlocks ==
    /\ queue \in {"pass", "pass+"}
    /\ queue' = IF queue = "pass" THEN "empty" ELSE "asked"
    /\ UNCHANGED <<mainVars, handlerVars, worker, posting, recovery, owed, cookie,
                   directory>>

WorkerMoves(from, to) ==
    /\ worker = from
    /\ worker' = to
    /\ UNCHANGED <<mainVars, handlerVars, posting, queue, recovery, cookie, directory>>

\* The startup delay is over: the initial sync.
InitialSync ==
    /\ WorkerMoves("delay", "pass")
    /\ RunMuFree
    /\ owed' = FALSE

\* The select takes a tick, even if stop is closed as well.
Tick ==
    /\ WorkerMoves("loop", "pass")
    /\ RunMuFree
    /\ owed' = FALSE

\* Back to the select; after the initial pass by way of NewTicker, which accepts
\* positive intervals only.
WorkerUnlocks ==
    /\ WorkerMoves("pass", "loop")
    /\ LoadConfig(source).Interval > 0
    /\ UNCHANGED owed

\* The panic of a goroutine ends the process.
NewTickerPanics ==
    /\ worker = "pass"
    /\ LoadConfig(source).Interval <= 0
    /\ Exits("panicked")

LoopEnds ==
    /\ stage = "returning"
    /\ WorkerMoves("loop", "ended")
    /\ UNCHANGED owed

\* recoveryFn, which main leaves nil without sync: doSync, then InvalidateTokens.
RecoveryLocks ==
    /\ stage # "off" /\ LoadConfig(source).SyncEnabled
    /\ recovery = "none"
    /\ invalidations < MaxInvalidations
    /\ RunMuFree
    /\ recovery' = "pass"
    /\ owed' = FALSE
    /\ UNCHANGED <<mainVars, handlerVars, worker, posting, queue, cookie, directory>>

RecoveryUnlocks ==
    /\ recovery = "pass"
    /\ recovery' = "invalidate"
    /\ UNCHANGED <<mainVars, handlerVars, worker, posting, queue, owed, cookie, directory>>

Invalidates(returned) ==
    /\ recovery = "invalidate"
    /\ recovery' = returned
    /\ tokenGen' = FreshGen
    /\ invalidations' = invalidations + 1
    /\ UNCHANGED <<stage, late, source, starts, status, handlerVars, worker, posting,
                   queue, owed, cookie, directory>>

InvalidateTokens_NoReturn == Invalidates("invalidate")

InvalidateTokens == Invalidates("none")

-----------------------------------------------------------------------------
(***************************************************************************)
(* What is outside.                                                        *)
(***************************************************************************)
Older(token) == [token EXCEPT !.left = IF @ > 0 THEN @ - 1 ELSE @]

TimePasses ==
    /\ cookie.left > 0 \/ login.token.left > 0
    /\ cookie' = Older(cookie)
    /\ login' = [login EXCEPT !.token = Older(@)]
    /\ UNCHANGED <<mainVars, req, syncVars, directory>>

\* Users come, go, and change their passwords.
DirectoryChanges ==
    /\ directory' \in Directories \ {directory}
    /\ login' = [login EXCEPT
                   !.confirmed = @ \/ (login # NoLogin /\ login.typed \in directory')]
    /\ UNCHANGED <<mainVars, req, syncVars, cookie>>

Next ==
    \/ \E src \in Sources : Start(src) \/ StartFails(src)
    \/ Crashes
    \/ Signal \/ DeadlinePasses \/ ShutdownReturns \/ Stop \/ MainReturns
    \/ \E typed \in Credentials : PostLogin(typed)
    \/ ldapSearchEntry \/ Bind \/ GenerateJWT \/ LoginResponds
    \/ AuthMiddleware \/ Redirected \/ SwitchesProtocols \/ Answered \/ Logout
    \/ PostTrigger \/ QueueLocks \/ QueueUnlocks
    \/ InitialSync \/ Tick \/ WorkerUnlocks \/ NewTickerPanics \/ LoopEnds
    \/ RecoveryLocks \/ RecoveryUnlocks \/ InvalidateTokens
    \/ TimePasses \/ DirectoryChanges

(***************************************************************************)
(* main goes on, and the deadline comes.  The goroutines of the post-login *)
(* sync and the queue run, the startup delay ends, and a waiter for runMu  *)
(* gets it even if others keep taking it.  No handler and no pass need     *)
(* ever end, no tick need come, and nobody has to start Savras.            *)
(***************************************************************************)
Fairness ==
    /\ WF_vars(DeadlinePasses)
    /\ WF_vars(ShutdownReturns \/ Stop \/ MainReturns)
    /\ WF_vars(PostTrigger)
    /\ SF_vars(QueueLocks)
    /\ SF_vars(InitialSync)

Spec == Init /\ [][Next]_vars /\ Fairness

-----------------------------------------------------------------------------
(***************************************************************************)
(* What a process promises.                                                *)
(***************************************************************************)
\* AuthMiddleware refuses a token only if it has expired, another process made it,
\* or tokens have been invalidated since: for every configuration, GenerateJWT and
\* ValidateJWT agree on the key, a key that cannot be parsed included, LoadConfig
\* yields the same one to both, and only a recovery replaces the generation.
SessionsHoldTheirTerm ==
    [][req = "none" /\ req' = "clear" =>
         cookie.left <= 0 \/ cookie.start # starts \/ cookie.since # invalidations]_vars

\* No session outlives the process that gave it, whatever the configurations of
\* the two have in common, nor an invalidation: Savras forgets what it has
\* invalidated, so that a token of an earlier process may be one that a recovery
\* has ended.
SessionsEndWithTheProcess ==
    [][req = "none" /\ req' = "forward" =>
         /\ cookie.start = starts /\ cookie.since = invalidations
         /\ cookie.left > 0]_vars

\* A login gives a session only to somebody whose credentials are those of the
\* local admin, or were confirmed by the directory at some moment during the
\* login, even if the directory changes between the search and the bind.
SessionsAreEarned ==
    [][cookie' \notin {cookie, Older(cookie), NoToken} =>
         \/ login.confirmed
         \/ IsLocalAdmin(source, login.typed.username, login.typed.password)]_vars

\* What is configured as the sync interval does not bring Savras down when the
\* worker hands it to NewTicker, nothing, zero and less included, unless it is too
\* large for a Duration; then the product may be negative, and does.
PanicsOnlyOnOverflow ==
    status = "panicked" => Field(source, "interval_minutes") * Minute > MaxDuration

\* After a signal the process ends, although a login may hang in LDAP, a request
\* in Grafana, hijacked or not, and a pass in either, runMu in its hands.
ShutdownCompletes == stage = "draining" ~> stage = "off"

\* A login is followed by a sync that begins after it, without waiting for a tick,
\* if Savras finally stays up, with sync enabled, and no pass hangs for ever: a
\* trigger that is lost with its process is made up for by the initial sync of
\* the next one.
LoginIsSynced ==
    (<>[](stage = "serving" /\ LoadConfig(source).SyncEnabled) /\ []<>RunMuFree)
        => (owed ~> ~owed)

=============================================================================
