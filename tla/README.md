# Savras in TLA+

Savras is a sidecar in front of Grafana. It authenticates users against Active
Directory, issues JWT cookies, forwards requests to Grafana with the user's name in
a header, watches whether Grafana is alive, and keeps Grafana's teams and folder
permissions in step with AD groups. This directory holds TLA+ models of its
concurrent and failure-prone parts, TLC configurations, and TLAPS proofs.

## Inventory

| Part | State | Operations | Talks to |
|---|---|---|---|
| `GrafanaMonitor` (`internal/proxy/grafana_monitor.go`) | `state`, `probeCancel`, `bgCancel`, one `probeLoop` goroutine per outage | `OnProxyError`, `Start`/`backgroundCheck`, `probeLoop`, `ShouldBlock`, `State`, `Stop` | told of failures by the reverse proxy, runs `recoveryFn` of `main.go`, read by the middleware, the health endpoint and the queue |
| `SyncQueue` (`internal/proxy/sync_queue.go`) | channel of size one, its `loop` goroutine | `Trigger`, `loop` | fed by the login and trigger handlers, polls the monitor, calls `SyncNow` |
| Sync pass (`internal/sync/sync.go`) | locals of `syncOnce` | `syncOnce`, `resolveTeam`, `syncFolderPermissions`, `addTeamMemberWithRetry` | LDAP search, Grafana API |
| `SyncWorker` loop (same file) | `trigger`, `stop`, `ready`, `runMu` | `Start`, `Stop`, `Ready`, `SyncNow`, `Trigger`, `loop` | starts passes; competes for `runMu` with the queue and recovery callbacks |
| API client (`internal/grafana/client.go`) | base URL, credentials | one method per call | Grafana, 15s timeout |
| Tokens and LDAP login (`internal/auth/auth.go`) | `tokenGen`, cached `privateKey` | `Authenticate`, `GenerateJWT`, `ValidateJWT`, `InvalidateTokens` | the login handler, the auth middleware, `recoveryFn` |
| Request pipeline (`internal/proxy/proxy.go`) | the user's cookie | BlockWhenDown, Auth, header injection, reverse proxy; `/login`, `/logout`, `/api/auth/logout`, `/-/savras/*` | all of the above |
| Configuration (`internal/config/config.go`) | the loaded record | `LoadConfig`, `URL` | everybody |
| Wiring (`cmd/savras/main.go`) | - | start-up order, `recoveryFn`, shutdown order | everybody |

What is hard about it:

* **Interleaving.** Any number of requests, a background check and several probe
  loops (a loop that is still inside its recovery callback overlaps with the loop of
  the next outage) work on one state and one cancel function.
* **Stale reads.** The queue polls the state and then syncs; a pass uses the LDAP
  snapshot, team ids and user ids long after it read them.
* **Partial failure.** A pass is some dozens of HTTP calls. Any of them may fail, or
  take effect and lose its answer; groups and folders are to fail independently.
* **Restart of Grafana.** With an ephemeral database it loses teams, users and
  permissions and hands out the same ids again, while its search index may still name
  what is gone.
* **Restart of Savras.** A process may end at any step, with a pass half done, a
  trigger in its channel and a request in Grafana, and the next one may find another
  configuration. Only the cookies of the browsers and what Grafana was told remain.
* **Liveness.** A lost recovery means 503 for ever; a pass that never ends holds
  `runMu` against every other sync; nothing that hangs may keep Savras from exiting.

What makes each part correct: the monitor never has two probers, never blocks without
one, opens only on fresh evidence, and keeps its back-off in bounds; the queue never
loses a trigger; a pass puts the right people into the right teams whatever fails,
never takes access away without cause, writes whole permission lists or none, ends, and
converges; every request forwarded carries a session of the current token generation,
and a detected outage ends the sessions there were; whatever the configuration, a process
honours its own tokens until they expire or are invalidated, and no others; what is configured
does not bring the process down; an exit comes, whatever hangs.

## Modules

| Module | Role |
|---|---|
| `GrafanaGate` | abstract: a gate that closes, opens, and runs one recovery callback per opening if there is one |
| `GrafanaMonitor` | the monitor; shown to implement `GrafanaGate` |
| `GrafanaMonitorProofs` | its theorems |
| `CoalescedSync` | abstract: every call of `Trigger` is served by a sync that begins after it |
| `SyncQueue` | the queue; shown to implement `CoalescedSync` |
| `SyncQueueProofs` | its theorems |
| `TeamSync` | one sync pass after another against LDAP and Grafana |
| `TeamSyncProofs` | its type correctness, and lemmas about its steps for the two below |
| `TeamSyncSafetyProofs` | what holds whatever fails: nobody joins wrongly, no partial grants |
| `TeamSyncTurnProofs` | what a turn without failures does |
| `Savras` | the whole program: middleware, login, tokens, worker, `runMu`, `recoveryFn`, over `GrafanaGate` and `CoalescedSync` |
| `SavrasProofs` | its theorems |
| `Config` | pure operators: what `LoadConfig` makes of file, environment and defaults, and the signing key |
| `Lifecycle` | one process after another: start, login, tokens, passes, shutdown, crash |
| `LifecycleProofs` | its theorems |
| `MC*` | the modules TLC is run on |

Operators named `X_Something` beside an operator `X` are faulty variants of `X`, which
show that a property notices the fault; no specification uses them. The exceptions are
`LookupUser_Then`, `GetTeam_Among` and `GetTeamMembers_Then`, the common bodies of an
operation and its faulty variant.

### GrafanaMonitor

Each action is one critical section of `mu`, or one blocking call, of one goroutine.
`loop[l]` is the program counter of a `probeLoop`: `spawned` (before it has stored its
cancel function), `checking`, `probing`, `backoff`, `healthy` (2xx in hand, mutex not
taken yet), `recovering` (inside `onRecovery`, after StateUp). `probeCancel` names the
loop that `m.probeCancel` would cancel. Grafana is `serving`, `degraded` (answers, but
not 2xx, or too late) or `unreachable`, and changes at any time; a probe sees the state
at the moment it is answered. `ProxyError` may occur at any time, whatever Grafana's
state, because the reverse proxy's ErrorHandler also runs when a client hangs up. `main` calls
`Start` before it serves requests and `Stop` once, last of all, and so does the model: a
loop that registers after `Stop` is never cancelled. Time is abstracted: a timer may fire
whenever it is armed. `stopped` and `confirmed` are history variables.

`GrafanaGate` has the callback of the code: if `onRecovery` is set each opening starts one,
and if it is nil none does.

### SyncQueue

The token in the channel is modelled by the set of callers whose `Trigger` it stands for,
so that "a dropped trigger joins the one that is there" is visible and the promise can be
stated. A caller may trigger at any time, also while an earlier call of its own is in the
token or in the batch, so the drain may go on for ever. The monitor is there from the start
and up, because `main` wires it before the server listens. `CallSync` is the point where the pass begins, past `runMu`; that is when the
batch is served.

### TeamSync

One action per API call, so that everything outside can change between any two. The
locals of `syncOnce` and its callees are the record `pass`. A user's id and a team's id
are their places in the sequences `accounts` and `teams`, which a `Wipe` empties: ids
are then reused. Membership is kept by id, as Grafana keeps it. `titles` are the folders
that exist: Savras makes none, they appear when somebody makes them, also in mid-pass.
`folderPerms` numbers the configured entries of a folder in the order of the configuration.
`Exits` is the end of Savras in mid-pass, by a crash or because `worker.Stop` waits for
nobody: the pass is gone, what it has done stays, and the next process begins anew.

While `reliable` holds, every call is answered correctly. While it does not, each call
may succeed, fail, or (CreateTeam, AddTeamMember, RemoveTeamMember,
UpdateFolderPermissions) take effect and fail all the same; the search may answer with
a stale id or miss a team. GetTeam's error leads to CreateTeam, as in the code, and
Grafana refuses a name that is taken. `disturbed` records the groups and folders whose
turn overlapped with unreliable calls, `wiped` that the database was lost during the
pass; both are history.

Left out: group entries with the same name in different subtrees, members that are
edited by hand in Grafana during a pass (the initial state has such members), and calls
that take effect late: one that fails has taken effect by then, or never will.

### Savras

The composition of `main.go`. The monitor and the queue take part as the abstract
specifications they were shown to implement: `Savras` instantiates `GrafanaGate` and
`CoalescedSync` and its actions are theirs (`Gate!GateCloses`, `Gate!GateOpens`,
`Queue!Ask`, `Queue!Begin`). A sync pass is the interval between taking and releasing
`runMu`; it rebuilds the permissions, or fails. `callback[l]` is where `recoveryFn` is in
the goroutine of probe loop `l`: waiting for `runMu`, in `doSync`, about to call
`InvalidateTokens`. A request is taken in by the gate (`BlockWhenDown`), then checked
(`AuthMiddleware`), then answered by Grafana (`Forward`) or failed (`ErrorHandler`); the
gate, the generation and the cookie may change between any two of these. A login reads
the credentials, then the generation (`GenerateJWT`), then sets the cookie and starts the
goroutine that calls `syncTriggerFn`. Grafana is `alive` or not; it comes back with the database it had, or has lost it: `boot` counts the
databases, and `rights` is the last one whose permissions a pass has rebuilt. A token
carries, as history, how many recovery passes had ended when it was made and for which boot.

Left out: which key signs a token, when it expires (AuthMiddleware may reject any token
as expired), two tabs of one browser, the end of Savras, an interval that makes the worker's
ticker panic; `Lifecycle` has all of these but the tabs.

### Config

`Field(src, k)` is the value of setting `k` after viper and the overrides of lines
114-130: viper lets the environment win, but only for settings that have a default or are
in the file (`Unmarshal`), while the sensitive fields are read from their variables in any
case. `Lifetime` and `Interval` are the derived values; the interval is a product of int64
Durations, so that it wraps (`Wrapped`) above `MaxDuration`, perhaps to a negative value.
`LoadConfig` is the record, `getPrivateKey` and `SigningKey` what `auth.go` makes of it.
That the operator is a function of the configuration stands for the lazily filled
`privateKey`: each writer stores the same key. Texts are compared after trimming; a private
key either is one (`RSAKeys`) or does not parse.

### Lifecycle

`main` from start to exit, `MaxStarts` times, each time with any configuration of
`Sources`. `stage` is the program counter of `main`. A login takes four steps (search,
bind, issue, respond) and the directory may change between any two; any step may fail. A
request is validated (`AuthMiddleware`) and then forwarded or redirected; the redirect
clears the cookie when it arrives, whatever the cookie is by then. The worker is its
delay, its initial pass and its loop; when the initial pass ends, `time.NewTicker` gets the
interval, and panics if it is not positive (`NewTickerPanics`). The queue is there as
`CoalescedSync`: nothing asked, asked, in a pass, asked again in a pass. `recovery` is a
recovery callback: in `doSync`, then about to call `InvalidateTokens`, which replaces the
generation while the process lives. `Crashes`, `NewTickerPanics` and `MainReturns` end every
goroutine at whatever step it is. A login, a request and a pass may hang for ever.

A forwarded request may become a hijacked connection (`SwitchesProtocols`): the reverse
proxy answers a WebSocket upgrade that way, and `srv.Shutdown` does not wait for it, while it
waits for a login and for any other request (`Active`), up to its deadline.

A token is its key, its generation, the time it has left and, as history, the start that
made it and the invalidations before that. A fresh UUID is a number that was not used
before. `confirmed`, `owed`, `invalidations` and `status` are history: the directory would
have confirmed these credentials at some moment of this login; a login has been answered and
no pass has begun since; how often tokens were invalidated; how the last process ended.

Left out: the gate, and recoveries that overlap (`Savras` has them), more than one login and
one request at a time, the trigger endpoint, requests that reach Savras after `srv.Shutdown`
has been called (the listener is closed and idle connections are).

## Runs

| Run | Instance | Checks |
|---|---|---|
| `monitor` | 3 loops, back-off 1..10 with every jitter (29 070 states) | `TypeOK`; `SingleProber`; `BlockedIffProbing`; `ResumesOnFreshProbe`; `StopReachesProbers`; `BackoffBounded`; `ImplementsGate`; `UnblocksWhenServing`; `OutageDetected` |
| `monitor_recovery` | 2 loops | violates `RecoveryBeforeTraffic` |
| `queue` | 3 callers (368 states) | `TypeOK`, `ServesEveryTrigger`, `TriggersAreServed` |
| `queue_down` | 1 caller | violates `NoSyncWhileDown` |
| `teamsync` | 2 users, 1 group, 2 teams, a folder shared by both teams, one with a permission the code does not know (1.7 million states up to symmetry of the users) | `TypeOK`, `UndisturbedAreSynced`, `NoOutsiderJoins`, `NoMemberDropped`, `GrantsAreWhole` |
| `teamsync_groups` | 1 user, 2 groups with a team each, one mapping entry overridden (2.3 million states) | `UndisturbedAreSynced`, `NoOutsiderJoins` |
| `teamsync_live` | 1 user, 1 group, 1 folder whose team has no group (90 297 states) | `PassEnds`, `Converges` |
| `teamsync_lookup` | the same | violates `RemovesOnlyOutsiders` |
| `savras` | 1 browser, 2 probe loops, 2 outages, 1 database (215 552 states) | `TypeOK`, `RecoveryEndsSessions`, `OldSessionsAreDoomed`, `OutageEndsSessions` |
| `savras_health` | 1 browser, 1 loop, 1 outage, 2 databases | violates `HealthyMeansSynced` |
| `savras_restart` | the same | violates `RestartEndsSessions` |
| `lifecycle` | 2 starts, 1 invalidation, 6 configurations, 2 credentials, a directory with Alice's old or new password (441 792 states) | `TypeOK`, `SessionsHoldTheirTerm`, `SessionsEndWithTheProcess`, `SessionsAreEarned`, `PanicsOnlyOnOverflow`, `ShutdownCompletes`, `LoginIsSynced` |

**Bounds.** `Loops` bounds the probe loops alive at once, those inside the callback
included: two are needed for a loop to overlap with the recovery of an earlier one,
three for a prober beside two recoveries. The theorems remove the bound. Three callers
of `Trigger` let one be in the loop's batch, one behind the token and one be dropped.
In `TeamSync` two users tell "this one" from "the others", two teams tell a wrong
team from the right one and let ids be swapped after a restart, two groups let one
fail while the other goes on; nothing bounds the number of passes, restarts, failures
or AD changes. `Retries` is the code's own 2.
In `Savras` one browser has three places for a token (cookie, request, login), so old and
new tokens meet; two outages and two loops let two recoveries overlap; the theorem removes
these bounds. `MaxOutages` also bounds the token generations.
Which database Grafana has matters only to the two runs that expect a violation, so the
passing run has one.
In `Lifecycle` two starts let a cookie meet a process that did not make it, with the same
key or another; the theorems remove the bound. The six configurations are the cases of
`SigningKey` (a key from the file, from either variable, one that does not parse beside a
good one that is not asked for, a secret, nothing), of the expiry (given, useless, zero,
absent, set where viper does not look) and of the interval (zero, left to the default, too
large), with sync on and off, and one that does not load. An interval has eight bits there
and a minute is two of its units, so that 64 minutes wrap to a negative Duration, as
153,722,868 do in 64 bits; the theorem has any width. Two credentials: the local admin, whom
the directory does not know, and a user whose password may be another one by the time of the
search or of the bind. Time is counted in days, so that a token lives one, or is expired when
it is made. One invalidation separates the tokens before it from those after it, in either
process; the theorems remove the bound.

**Fairness.** In the monitor, goroutines run and their HTTP clients have timeouts (3s
and 5s), so `LoopStep`, `BgStep` and `Start` are weakly fair; requests, Grafana and
`Stop` are not. `RecoveryReturns` being fair rests on the recovery sync ending
(`PassEnds`). In the queue its one goroutine is weakly fair; that callers
do not trigger as fast as it drains the channel is a premise of `TriggersAreServed`, since
nothing in the code sees to it. In `TeamSync`, the ticker
makes `Begin` fair and client timeouts make `PassStep` fair. In `Savras` each goroutine is
weakly fair, and whoever waits for `runMu` strongly fair, because a Go mutex hands itself
to a waiter that has starved for a millisecond; the background check is fair only while
Grafana is down (it may also time out on a live one, but need not); browsers and Grafana
are not fair. In `Lifecycle` only `main` (one goroutine, one condition for its three last
steps), its deadline, the post-login goroutine, the end
of the startup delay and the wait for `runMu` are fair; handlers, passes and ticks are not,
so `ShutdownCompletes` holds though anything else hangs, and `LoginIsSynced` does not rest
on the ticker. LDAP calls have no timeout in the code; that they return is an assumption of
`PassEnds`, `Converges` and `OutageEndsSessions`, and `LoginIsSynced` states it as `[]<>RunMuFree`.
`Converges` also assumes that Savras is not ended for ever in mid-pass and that the
directory comes to rest.

## What the runs show

The properties of the passing runs hold. Five statements of comments in the code do not:

1. *"onRecovery is called ... before traffic resumes"* (`grafana_monitor.go:35`;
   `main.go:51` relies on it). `probeLoop` sets StateUp first and calls the callback
   after the unlock. Requests pass while permissions are rebuilt, with tokens that are
   invalidated only afterwards.
2. *"When Grafana is down, triggers are queued but not executed immediately"*
   (`sync_queue.go:8`). The state is polled before, not while, the sync starts.
3. *"Remove members not in AD group"* (`sync.go:266`). A lookup that fails for any
   reason counts as "not in the group": one timeout takes a member of the group out of
   the team until a later pass. `NoMemberDropped` shows that this is the only way: a
   turn without failures never does it.
4. *"Returns 503 ... until the initial sync cycle completes, to avoid serving traffic
   before team permissions are applied"* (`proxy.go:178`). `Start` closes `ready` after an
   initial pass that failed, too, so health answers 200 with no permissions applied.
5. *"This ensures Grafana restarts are detected even during periods of no user traffic"*
   (`grafana_monitor.go:75`; the repository's README, line 81). A Grafana that is gone and
   back between two background checks is not noticed; the old sessions stay valid and no
   sync is started before the next tick. `OutageEndsSessions` and `RecoveryEndsSessions`
   show that what is detected is handled.

Two more statements do not hold in a corner that the properties name and leave out:

* *"Stop cancels any active probe loop"* (`grafana_monitor.go:59`): a loop that
  `OnProxyError` has started, but that has not yet stored its cancel function (line 145), is
  missed. `main` calls `Stop` once, so nobody cancels that loop any more. `StopReachesProbers`
  shows that no other loop there is at that moment is missed; one that starts after `Stop` is
  not cancelled either. Neither does harm, because the process ends next.
* `LoadConfig` replaces an interval of zero or less by the default, but one of more than
  153,722,867 minutes overflows, and if the product is not positive Savras dies in
  `time.NewTicker` after the initial pass. `PanicsOnlyOnOverflow` shows that no other interval
  does that.

And two limits that the code sets nowhere: the queue's drain (`sync_queue.go:47`) lasts as long
as triggers come in as fast as it takes them, and an exit cuts off hijacked connections at once,
for `srv.Shutdown` does not wait for them.

Met while modelling, with no run of their own because no property turns on them: the sample
configuration says that the API token is used if there is no local admin
(`config.example.yaml:21`), while `NewClient` uses the token whenever there is one
(`client.go:59`); the comment *"SAVRAS_ prefix with dot -> underscore mapping"*
(`config.go:86`) does not hold for a setting without a default that the file does not
mention, such as `SAVRAS_AUTH_JWT_EXPIRY`; and without sync a recovery invalidates no tokens
(`main.go:53`).

## Proofs

All for every value of the constants. `GrafanaMonitor` assumes a positive base interval
and a maximum of at least twice the base (`MonitorAssumption`; the code has 1s and 10s);
`SyncQueue` assumes nothing; the others are named below.

* `GrafanaMonitorProofs`: type correctness, the five safety invariants and the
  refinement of `GrafanaGate`. The invariants are not inductive one by one.
  `OnProxyError` tests `state`, not the loops, so `SingleProber` needs `ProbingIsDown`
  (a loop probes only in StateDown); that StateDown is watched needs `StopCancels` (a
  loop returns early only after Stop); `ResumesOnFreshProbe` needs `HealthyConfirmed`
  (what the loop about to set StateUp holds); `StopReachesProbers` needs `RegisteredProber`
  (the field holds the cancel function of every registered loop that is not cancelled), which needs
  `SingleProber` (a registration overwrites nobody's cancel function); the back-off needs a floor
  under every interval, with `NextIntervalBounds` about the arithmetic. `IndInv` is the
  conjunction; one lemma per part has one step per action. `GateRefinement` uses
  `SingleProber` and `ProbingIsDown`: `MarkUp` always opens a closed gate.
* `SyncQueueProofs`: type correctness and the refinement of `CoalescedSync`. The
  inductive invariant `QueueInv` says that the loop has somebody in its batch from receiving
  a token to starting a sync; without it a sync might begin for nothing. A caller may be in
  the batch and behind the token at once, and then remains outstanding when the sync begins.
* `TeamSyncProofs`: type correctness, under `TeamSyncAssumption` (the users and team names
  are finite, the two values for "none in hand" are no group and no folder, and the mapping
  and the permission list are sequences of entries). `TypeOK` bounds ids by the number of users and
  of team names, which only holds because a login has one account and a name one team. So
  `TypeInv` adds `Databases` (that, and that members have accounts) and `Control`
  (what is in hand at each point of the code; without it `resolveTeam` might be called for
  nothing). `Mapped` and `Listed` show that the `CHOOSE` in `adToGrafana` and in `folderPerms`
  always finds something; they rest on `Greatest`, a maximum found with facts about finite sets
  in place of an induction. The `...Effect` lemmas say which fields of `pass` an action
  changes, `TeamsChange`, `AccountsChange` and `OthersKept` who changes what else.
* `TeamSyncSafetyProofs`: `NoOutsiderJoins` and `GrantsAreWhole`, with every call free to fail
  or to take effect unseen. What a join rests on was read many calls before, so `GroupKnown`
  carries it: the ids looked up are accounts of users in the group's list, the team id has the
  name the mapping wants. A wipe gives the ids to others; it also marks the group as
  disturbed, and `Known` is the part of the turn before that. For grants, `ListResolved`
  says that what has been resolved and what has not make up the configured list;
  `ListComplete` is the point where nothing is left.
* `TeamSyncTurnProofs`: `NoMemberDropped` and `UndisturbedAreSynced`, which speak of turns
  without failures. A turn is `Calm` while nothing unreliable has concerned what is in hand.
  Then the answers were right (`CalmTurn`), every member of the team who belongs to the group
  has been found (`MembersFound`), every user of the group who had an account when the pass
  began has been found (`UsersFound`), and `toAdd` and `toRemove` are the exact difference
  (`ChangesRight`), which each call keeps true as it shrinks them. At the end of the turn the
  team is therefore right (`GroupGetsSynced`), the turns of other groups leave it alone
  because no other group has that team (`GroupStaysSynced`), and first visits and folders that
  appear do not touch it; `GroupsSynced` and `FoldersSynced` carry this to the end of the pass.
* `SavrasProofs`: type correctness, and that a recovery ends the sessions made before it,
  under `SavrasAssumption`. `TypeOK` bounds the counters by `MaxOutages`, so
  outages, recoveries and generations are counted against each other (`Counted`): recovery
  passes that have ended, callbacks whose pass has not, and an outage that still lasts are
  together no more than the outages there were; and every recovery pass has started a
  generation of tokens, or its callback stands in front of `InvalidateTokens`. Whatever the
  callbacks overlap with, none invalidates twice or not at all. `RecoveryEndsSessions`
  speaks of moments without callbacks and is not inductive; `OldSessionsAreDoomed` covers
  the others: a token of the current generation that is older than the last recovery pass
  has a callback in front of `InvalidateTokens` as its end, and no token is ahead of the
  generation. Steps that only move tokens between cookie, request and login share the
  lemma `TokensMove`; the two that matter are the end of a recovery pass, which makes
  every token old but puts its own callback before the invalidation, and the
  invalidation, whose generation no token has yet.
* `LifecycleProofs`: type correctness, the three promises about sessions, and that only an
  overflow makes the ticker panic, for every set of configurations, credentials and
  directories. The assumptions are that durations and intervals are integers, which
  `time.ParseDuration` and viper's typed unmarshalling see to, that fifteen minutes fit a
  Duration, and that somebody has credentials. A token is judged long after it was made, so
  the promises are not inductive: `TokensMade` says that a token has the running generation
  exactly if this process made it after the last invalidation, and then its key;
  `LoginsVouchedFor` carries the directory's word from the search to the answer;
  `RecoveryBounded` bounds the invalidation a callback is yet to make. For the ticker,
  `WrappedFits` says that what fits a Duration does not wrap, and `IntervalPositive` that the
  interval is then positive. Steps of the syncs share the lemma `SyncSteps`.

Every inductive invariant was checked by TLC on the instances above before it was proved.

Every invariant and every safety property of a passing run is a theorem. Only model-checked
are the liveness properties, which are outside the reach of the prover: `UnblocksWhenServing`,
`OutageDetected`, `TriggersAreServed`, `PassEnds`, `Converges`, `OutageEndsSessions`,
`ShutdownCompletes` and `LoginIsSynced`. The two refinements are theorems as a whole, since
the abstract specifications state no fairness.

## Not modelled yet, and the plan

1. **Proofs** still worth having about `Savras`: that a callback is in `doSync` exactly while
   its loop holds `runMu`, and that its steps on the gate and on the queue are those of
   `GrafanaGate` and `CoalescedSync` and of nobody else; about `Config`: which settings
   decide the signing key.
2. **The gate in `Lifecycle`**: a signal during an outage, with the loop that `Stop` may miss.
3. **The client's credentials** and the two formats of member lists, should a property ever
   turn on them.

Left out for good: the login page (static HTML), settings that are passed on as they are
(addresses, names, LDAP attributes), `GetUserInfo` and the worker's own `Trigger` (no callers),
request building and JSON formats of
the client, the LDAP protocol and cryptography, logging, and the deployment samples.
