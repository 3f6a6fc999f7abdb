# PiCommand in TLA+

PiCommand manages Raspberry Pi nodes: an agent on every Pi keeps one WebSocket
to a FastAPI server, and operators run commands, deploy packages, move files,
schedule jobs and watch metrics through the server's REST API. This directory
holds a formal model of the server's concurrent core and of the agent's
connection, the TLC configurations that check it, and machine-checked proofs of
its main safety properties. Every definition that stands for code is listed with
its lines in `PROJECT.json`, under `map`.

    tlc -config Presence.cfg MCNodePresence.tla      # one of the runs below
    tlapm CommandExecutionProofs.tla                 # one of the eight proof modules

## 1. The system

The server is one process with one asyncio event loop. Coroutines interleave at
their awaits only: database statements, socket sends and receives, sleeps. All
state that is not in PostgreSQL is in the `ConnectionManager` singleton and is
lost with the process.

| Component | State | Operations | Talks to | What is hard | What makes it correct |
|---|---|---|---|---|---|
| Connection registry (`connection_manager.py`) | `_connections`: node -> ConnectionState; two dictionaries of futures per state | `connect`, `disconnect`, `is_connected`, `send` | handler, endpoints, watchdog, scheduler | a disconnect that arrives after a reconnect | an entry belongs to a live handler or to a lost socket; a session removes nobody else |
| Node presence (`node_ws.py`) | `nodes.status`, `nodes.last_seen`; one coroutine per session | handshake, message loop, finally block, `_update_last_seen`, PATCH of a node | registry, database | reconnects, half-dead sockets, failing writes, a restart | a node that is gone is shown offline in the end |
| Offline watchdog (`background.py`) | its transaction | one pass every 30 s | registry, database, notifications | check and update are separated by awaits | stale and unconnected nodes go offline |
| Command execution (`connection_manager.py`, `routes.py`, `node_ws.py`) | futures, `commands` and `deployments` rows | `execute_command`, `resolve_command`, command, bulk and deploy endpoints, `_update_command_result` | registry, agent, database | timeout against late result, reconnects, partial failure of a bulk call | every request is answered once, with its own result or an excuse, and its row agrees |
| File transfers (`connection_manager.py`, `routes.py`, `node_ws.py`) | futures, `file_transfers` rows, the pool's connections | push, pull, `resolve_file_transfer` | registry, agent, pool | late answers, reconnects, a pool that runs dry | each transfer ends; row, answer and the node's own report agree |
| Alerts (`alert_service.py`) | `alerts`, `alert_rules` | `check_metric_alerts`, create and delete a rule | metrics messages, notifications | overlapping checks, rules that change | one active alert per metric and severity; fired, resolved and told as the metrics say |
| Notifications (`notification_service.py`) | none | `dispatch_alert`, `dispatch_node_offline` | webhook, ntfy | order and loss | told only what was committed |
| Dashboard events (`connection_manager.py`, `routes.py`) | subscriber queues of 256 | subscribe, broadcast, stream | registry | competing sessions, a full queue, a client that leaves early | the last event of a node tells its state; a queue nobody reads goes |
| Job scheduler (`background.py`, `routes.py`) | `scheduled_jobs.last_run` | one pass a minute; create, change, delete a job | `execute_command` | one commit for many runs, edits during a pass | a fire is served, and again only after a rollback |
| Agent (`agent.py`) | socket, reconnect delay, tunnel process | connect, serve, reconnect, run commands | server | connections that die in silence, a server that is slow or says no | it comes back, and waits no less each time |
| Node registration (`routes.py`, `models.py`) | `nodes`, `audit_log` | register, delete | other tables | checks and inserts that are apart | one node per name and port; answers that are true |
| Users and tokens (`routes.py`, `dependencies.py`, `security.py`, `models.py`) | `users`, `api_tokens`, JWTs | login, refresh, authentication, roles, API tokens | every endpoint | tokens and requests that outlive changes | power comes from another admin only; no reference without its user |
| Server auto-update (`background.py`) | the update flag | fetch, compare, hand over | update script | the script fails | the flag is true only while updating |
| Metrics store, pruner, service status | `node_metrics`, `node_services` | insert, upsert, dated delete | alerts | - | - |

## 2. Modules

| Module | Models | Extends |
|---|---|---|
| `ConnectionRegistry` | the dictionary, `connect()`, `disconnect()` | |
| `SessionLife` | what the rest of the server sees of sessions; refined by `NodePresence`, `AgentLink`, `CommandExecution` and `FileTransfers` | `ConnectionRegistry` |
| `NodePresence` | the handler, `send()`, the watchdog, status and last_seen | `ConnectionRegistry` |
| `AgentLink` | the agent's loop with its delay, the handshake at both ends | `ConnectionRegistry` |
| `CommandExecution` | futures, the endpoints, result recording, the agent's answers | `ConnectionRegistry` |
| `CommandContract` | what a caller is promised; refined by `CommandExecution` and `FileTransfers` | |
| `FileTransfers` | push and pull, their rows and futures, the pool | `ConnectionRegistry` |
| `EventStream` | subscribers, broadcasts, the stream's generator | `ConnectionRegistry` |
| `AlertService` | checks, rules, order of commit and notification | |
| `JobScheduler` | passes, jobs, cron fires, rollbacks | |
| `NodeRegistry` | registration and deletion statement by statement | |
| `NodeDirectory` | what the nodes table promises; refined by `NodeRegistry` | |
| `Accounts` | users, roles, tokens, requests under way, foreign keys | |
| `MC...` (nine) | instances for TLC | the module of that name |
| `DatabaseProofs` | theorems about `NodeRegistry`, `Accounts` and `JobScheduler` | these three |
| `SessionLifeProofs` and six more | theorems | the module of that name |

**ConnectionRegistry.** `connections[n]` is the session registered for node `n`
or `None`. A session stands for the `ConnectionState` object its handler builds.
`connect()` and `disconnect()` are single steps: the only awaits in them are
those of the lock, which is never held across a suspension, and of
`_broadcast_event`, which never suspends. All modules about sessions share it, each with
as much of a session's life as its question needs; `NodePresence` has all of it.

**SessionLife.** What a command or a file meets of a session: it registers
(`Arrive`), with the agent's only socket or with one the agent has given up; its
handler is greeting, serving or off; it leaves with its own entry (`HandlerExits`) or,
when the greeting fails, without it (`GreetingFails`); a failed send on any socket of
the node takes the entry that is there (`SendFails`). `CommandExecution` and
`FileTransfers` have these steps, one for one, in place of the handshake, the message
loop and the database of `NodePresence`; only, a session is used once there. All
handlers of `NodePresence` and `AgentLink` do to a session is a step of `SessionLife`, so
that the short versions leave out nothing a command could meet; that these refine it,
too, says that they add nothing. What follows from it, `OpenIsServed` (an open socket has
a handler, and a node one open socket at most) and `EntryIsTaken` (the three ways in which
a session whose socket works can lose its entry), is proved once and holds of all four.
Its leads-to, a served session whose socket is lost
does not stay registered, is checked of `NodePresence`, whose fairness it needs.

**NodePresence.** `phase[s]` is the place of a handler between its awaits:

| Action | Code |
|---|---|
| `Open` | accept, node lookup, disabled check, challenge |
| `HandshakeEnds` | every return and exception before the session is registered |
| `MarkOnline`, `Register` | the two commits of step 3, the second together with `connect()` |
| `GreetingSent`, `GreetingFails` | `send_text(auth_ok)`, which is outside the try block |
| `Heartbeat`, `Touch`, `TouchFails` | a metrics or heartbeat message and its `_update_last_seen` task |
| `LeaveLoop` | timeout, disconnection or exception, and `disconnect(expected_state=state)` |
| `WriteOffline`, `WriteOfflineFails` | the rest of the finally block |
| `StartSend`, `SendReturns`, `SendFails` | `send()` around its await |
| `WatchdogSelect/Check/Update/Commit/Fails` | a watchdog pass |
| `SetStatus`, `Restart`, `Age`, `SocketLost` | PATCH, process restart, time, network |

A watchdog pass holds row locks from its UPDATE to its commit; `RowFree` makes
the other writers of the row wait. Time is not counted: `last_seen` is `"fresh"`
until `Age` makes it older than three heartbeat intervals. A session identity is
used again once nothing refers to it, so that the model never runs out of
reconnects.

**AgentLink.** Both ends of the sockets. The agent: `at[n]` is its place in `run()`
and `_connect_and_serve()`, `on[n]` the socket it holds, `delay[n]` the
`_current_delay`. It dials (`Dial`, `DialFails`), answers the challenge (`Answer`),
is let in (`Accepted`), gives up (`GiveUp` on what it notices, `AgentTimesOut` after
15 s), is closed cleanly (`EndsCleanly`, the only end that resets the delay) or
restarts. The server: `srv[s]` goes lookup, auth, marking, greeting, loop, with
`Register` and `Hangup` calling `connect()` and `disconnect()`. While it marks a
node online the handler does not look at its socket, so it may still be at work for
an agent that has dialled again. `StartSend`, `SendReturns` and `SendFails` are a
`send()` by an endpoint, which disconnects whatever session is registered when it
fails. `unseated` remembers the sessions whose entry an older session took away, by
registering later or by such a send: the only two ways, says `ServedIsReachable`, in
which an agent that is served can be missing from the registry.

**CommandExecution.** One request is one `execute_command` call with the
endpoint around it. `pc[r]` goes `idle`, `accepted` (row committed), `sending`
(future registered, `send_text` awaited), `waiting`, `returned` (the endpoint has
still to write the row), `answered`, or `gone` when a crash or a database error ended
its coroutine first. `wire[r]` is the message on its way and then
the agent's result; `received` and `recording` are the two things the handler
does with it. `session[r]` is the state captured by `execute_command`, which the
code uses for the future but not for the send nor for `resolve_command`: that
difference is in `ReceiveResult` and `SendFails`. Of exit code and output the
model keeps the status they lead to. The bulk requests of an instance form one
bulk call, the tagged ones one deployment by tag, whose tasks are awaited one
after another (`ItsTurn`). A statement that raises (`DatabaseFails`,
`BulkWriteFails`, `RecordingFails`) cuts off the request it belongs to, and in a
deployment by tag those that have not begun: Starlette stops at the first background
task that raises. `forgotten` are the results that were received and never written.
A session arrives with the agent's only socket, or with one the agent has given up
(`TakesSocket`), after a newer one or before it.

**FileTransfers.** The same registry and the other dictionary of futures, with what
is different: the endpoint re-reads its row after the first commit (`Refresh`) and so
keeps a connection of the pool (`holding`) while it waits up to 300 s; a pool that
stays empty ends the request (`PoolTimesOut`), as a database error does
(`DatabaseFails`), both outside the try block that would mark the row. It refines the
safety part of `CommandContract`, a transfer in place of a command. `AsRead` is
the handler's test of an answer: an error with an empty text passes for success
(`node_ws.py:212`). The contract does not hide that: such an answer and such a report
are called `misread` in it. The row is committed (`WriteRow`) before the caller is
answered (`Respond`). `Restart` leaves the rows of unfinished transfers pending.

**EventStream.** `connect()` and `disconnect()` with the event each tells, to
bounded queues. A full queue is taken off the list (`Broadcast`); the endpoint
subscribes before its generator runs (`Subscribe`, `Open`), and only a generator that
has begun unsubscribes (`Leave`). `told[c][n]` is what the client last received.

**AlertService.** The checks of one node. A check gathers the rules in its first query,
evaluates one rule per query, resolves one key per query, commits and notifies; other
checks and rule changes happen in between. An alert is a key (metric, severity) and a
number that tells duplicates apart. `told[k]` is the last event dispatched for a key. A
database error ends a check before its commit, and `Restart` ends all of them at any
point: those that have committed and not yet notified leave alerts nobody is told of.
`touched[c]` and `unsure` are history: the keys other checks have written since `c`
began, and those of which receivers may know wrong. Rules are evaluated in any order, as
the query without ORDER BY may return them; for the built-in ones, which have a fixed
order, this allows more than the code does, and makes no difference, since no two of
them share a key.

**JobScheduler.** A fire is a moment of a job's cron expression; the model keeps
whether a job has one up to the moment when the last pass began (`before`) or one since
(`after`). A pass selects (`BeginPass`), with a `plan` for each job made of its row as it
was read, looks at each job (`NotDue`, `Skip`, `Start`, `Finish`) and
commits `last_run` for all of them at once (`Commit`); an error or a restart forgets
them all (`RollBack`). Jobs are created, enabled, disabled, deleted and given a new
expression (`EditJob`) meanwhile, but not while the pass holds their row lock. A new
expression has other fires, and the pass goes on with the old one; its commit then drops
the fires of the new one up to its own beginning. A `barren` job has an expression
croniter accepts and then finds no date for, as 30 February is (`Raise`).
`fate`, `edited` and `late` are history for the properties.

**NodeRegistry.** A registration is five statements: look for the name, read the used
ports, commit the node, read it back, commit the audit row (`LookForName`,
`ChoosePort`, `Insert`, `Audit`); unique constraints (`Violates`) and the audit rows
that forbid a deletion come from `models.py`. A fault may come before or after either
commit, so that a registration which failed may have left a node. `since[r]` is history:
who has written a node since `r` looked for its name. Refines `NodeDirectory`.

**Accounts.** A request carries its user's row as it was read at authentication
(`request[q]`) and acts on it after further awaits. `signed` is the set of JWTs that
exist, `owner` the API tokens; `acted` are the users that rows refer to which are never
deleted (`audit_log`, and with it almost all a user does), `authored` those of rows that
can be (scheduled jobs). Each endpoint that changes a user, a token or such a row is an
action.

## 3. Runs

Passing runs:

| Run | Instance | Shows |
|---|---|---|
| `Presence` | 1 node, 2 sessions, 1 send per session, 1 fault | `EntryIsServedOrDead`: who may be in the registry; `ReplacedExitIsSilent`: a replaced handler disturbs nothing; `KeepsSessions`: refinement of `SessionLife` with its liveness, a lost session leaves; `ShownWasSeen`: a node that a handler shows online is one the watchdog does not pass over; `AbsentIsNotOnline`: the watchdog repairs what crashes and failed writes leave behind |
| `AgentLink` | 1 agent, 2 sessions with a send each, delays 1 to 3, any number of failures | `ServedIsReachable`: what may keep commands from a served agent; `BackoffHolds`: failures never shorten the delay; `Returns`: once the trouble is over the agent ends up served |
| `CommandSafety` | 1 node, 2 sessions, two of a single command, a deployment and a bulk call, 1 fault | `NoStuckCaller`; `EndedRowAgrees`: what the row of a request may say once it is over, whatever was lost on the way; `OutputIsKept` |
| `CommandContract` | 2 nodes with a session each, a bulk call or a deployment by tag to both, 1 fault | `KeepsContract`: refinement of `CommandContract` with its liveness |
| `FileTransfers` | 1 node, 2 sessions, a pull and a push, a pool of 1, 1 fault | `NoStuckTransfer`, `RowTellsOutcome`, `ExitSparesOthers`; `KeepsContract`: refinement of the safety part of `CommandContract`; `TransfersEnd`, also when the pool is empty |
| `EventStream` | 2 nodes, 3 sessions of which two compete, 1 client, a queue of 3 | `NewsIsTrue`, `Heard`, `LeakIsFound` |
| `AlertsOneByOne` | 2 metrics, 3 built-in and 2 custom rules, 1 check at a time, 1 fault | `RecoveredIsResolved` |
| `AlertsOverlap` | 1 metric, 1 built-in and 2 custom rules, 2 checks, 1 fault | `OnlyRacesDuplicate`: what may give a key a second alert; `DuplicatesAreBounded`: there is no third; `CommitSettles`: what a commit leaves of the keys nobody else wrote; `ToldAsItIs`: of which keys receivers may know wrong |
| `JobScheduler` | 2 jobs, one of them edited, 1 fault | `OnceMoreAtMost`: a job disabled in a pass starts once more at most; `RepeatedOnlyAfterRollback`; `FireIsServed` |
| `NodeRegistry` | 3 registrations, 2 names, 2 ports, 1 fault | `KeepsDirectory`: refinement of `NodeDirectory`; `AnswersAreTrue`: what a client is told, refusals and errors included, when he is told |
| `Accounts` | 2 users, 2 requests at a time, 1 API token | `NothingDangles`, `PowerIsGranted` |

Each of them but `Presence`, `CommandContract` and `AlertsOverlap` also checks the module's
type invariant, `TypeOK`, `AccountsType` or `JobsType`; that of `NodePresence` is proved.

The property of one run states what comments say of the program, and is violated; the
counterexample is what the code does.

| Run | Said | Done |
|---|---|---|
| `SendStaleDisconnect` | `connection_manager.py:71-74, 103-104`: a stale disconnect leaves the new state alone | `send()` disconnects without an expected state (line 148): a send that fails on the old socket removes the new session |

The models contain more that a reader of the code may not expect. These have no run
of their own; the hazards in `PROJECT.json` name most of them:

- Two overlapping checks both insert an alert of a key (`alert_service.py:148-172`), after
  which every check that looks at the key raises (156, 191) and rolls back: nothing of
  that node is fired or resolved any more, though a check "resolves existing ones if
  recovered" (124). It is a race of two checks on the key that does it, and nothing else
  (`OnlyRacesDuplicate`).
- A server that dies between the commit of a check and its notifications, each of which
  may take 20 s, leaves alerts that nobody is ever told of (`alert_service.py:197-201`).
- The finally block writes offline two awaits after it left the registry
  (`node_ws.py:248`), over the online status of a session that came in between;
  243-245 want to avoid that.
- `auth_ok` fails outside the try block (`node_ws.py:164`): the entry stays, and the
  watchdog, which is to mark stale nodes (`background.py:37-38`), skips the node.
- A handler that waits for the database longer than its agent waits for it registers
  late and evicts the session the agent holds by then (`node_ws.py:162`). `connect()`
  leaves the evicted socket open and its handler goes on serving the agent, which
  notices nothing: no command reaches the node until that connection ends for another
  reason. `ServedIsReachable` admits it, and `Returns` speaks of being served only.
- A deployment whose last write fails takes the other deployments of its call with it
  (`routes.py:630`, `674`): they stay in progress and are never started.
- Rows that were running when the server died stay so: nothing looks at them again.
- The watchdog commits for a node that connected after it looked
  (`background.py:59-77`), and a disabled status is overwritten (`node_ws.py:128, 248`,
  `background.py:61`), though a node "can be disabled in dashboard instantly"
  (`docs/SETUP.md:309`); `AbsentIsNotOnline` does not ask for that.
- A file transfer whose node reports an error without a text is recorded and answered
  as a success, with an empty file (`node_ws.py:212`).
- Deployments by tag run one after another (`routes.py:630`), in parallel according to
  604-605.
- A node that was ever audited cannot be deleted (`models.py:190`), though
  `docs/SETUP.md:203` describes it; every registration writes an audit row.
- A job with an expression that names no date rolls back every pass
  (`background.py:141`); the fires of a job that never ran are lost while a pass takes
  longer than a minute (138), and those a new expression has before the beginning of a
  pass that runs the old one (146-170).
- Any admin may demote or deactivate the last one (`routes.py:957`).
- An alert whose key no rule in force looks at is never resolved
  (`alert_service.py:181`).

One more is outside the models: nothing sends `restart_tunnel`, so the tunnel of
`docs/SETUP.md:49` and `README.md:30` is never started (`agent.py:457`).

### Bounds

- Sessions: two of a node, in `NodePresence`, `AgentLink` and `EventStream` used
  again as soon as nothing refers to them, so that reconnects never run out: there is
  always an old handler and its replacement, which may become the old one of the
  next. Everything is per node but a watchdog pass, which treats several nodes in one
  transaction; the model has that, the instances do not use it, and the theorems
  hold for any number of nodes. In `CommandExecution` and `FileTransfers` a session
  is used once, so two cover one reconnect; the models then end, which is why their
  runs do not check deadlock. `NodeRegistry` and `Accounts` end, too, when all
  requests are answered or nobody is left to act.
- `MaxSends` in `NodePresence`: sends in flight on a session. One per session suffices
  to have sends on an old and a new session at once; a second one on the same session
  would repeat what the first does.
- `MaxFaults`: restarts, failed passes and database errors, at any point of any
  behaviour, between the commit and the notifications of a check as well. One in each
  instance; in `JobScheduler` passes are rolled back by barren jobs, too, as often as
  one is enabled, so that a pass which repeats a fire can fail as well. The theorems
  have no bound on it. `AgentLink` and the restarts of `EventStream` need none, as their
  faults bring back earlier states.
- One `_update_last_seen` task per node is kept, since further ones write the same
  value. The watchdog needs no memory of earlier passes.
- `MaxRequests`: two at a time of the three requests of `CommandSafety`, so that every
  pair of endpoints meets on one session. The instance of `CommandContract` has a bulk
  call and a deployment by tag, of two requests each, and room for two requests in a
  behaviour: for the one call or the other, with a node of it skipped or not.
- `PoolSize` 1: two transfers suffice to empty the pool; SQLAlchemy's default, which
  the code keeps, is 15.
- `QueueSize` 3 instead of 256: room for one event of each node and a repetition; the
  theorem is for any size. One client, as clients share nothing but the broadcast,
  which treats each by itself.
- `MaxCopies`: numbers for the alerts of one key that are in use at once. A new alert
  is inserted when its check sees none of the key, so that one number per check is
  enough; `AlertsOverlap` has one more, lest the bound hide what it asks. `Evaluate`
  waits while no number is free.
- The metric values are 0, 1 and 2 with thresholds 1 and 2, so that every rule is met
  below, at and above its threshold.
- `Edited`: of the two jobs one gets new expressions, as often as it likes; the other is
  what it competes with. Edits of the one do not depend on edits of the other.
- Delays 1, 2, 3 with a factor of 2: the second doubling meets the maximum, which is
  not a multiple.
- `NodeRegistry`: three registrations for two names and two ports give a conflict of
  either kind, a full range and a competitor of a competitor. `Accounts`: a user who
  acts and one who is acted upon, with two requests under way; a third user would
  repeat the second.

### Fairness

asyncio resumes every coroutine whose await is over, so the steps of a coroutine
that is ready are weakly fair. In detail: a handler whose socket is lost leaves its
loop, because `receive_text` raises or runs into its timeout; a handshake is
bounded by its own timeout of 15 s; a send on a socket ends; a database statement
returns or raises; the watchdog and the scheduler sleep and start again whatever
happened to the last pass; the timers of `wait_for` (commands, transfers, the
agent's receives) and of the pool fire; a generator with an event to yield runs; an
agent sleeps no longer than its delay and misses no lost connection for ever, as its
pings go unanswered. Assumed of nobody: that a node answers, that an
operator acts, that a write succeeds; and of no agent outside `AgentLink` that it
connects.

Four liveness properties have premises about the world, and say nothing otherwise:
`Returns` that trouble (failures, timeouts, refusals, restarts) ends at some time,
`Heard` that nodes stop to come and go, `LeakIsFound` that they never do,
`RecoveredIsResolved` that metrics keep coming, and
it is checked while checks do not overlap. `FireIsServed` excludes jobs that were
disabled, deleted or given a new expression since the last pass began, and passes that
meet a barren job.

## 4. Proofs

The proof modules hold for arbitrary sets of nodes, sessions, requests, transfers,
clients, rules, jobs and users and for arbitrary bounds; the assumptions are those of
the modules (functions such as `NodeOf`, `NodeFor` and `KindOf` map into the right sets,
`None`, `Nobody` and `NoJob` are none of the sessions, users and jobs, bounds are natural
numbers). Each has its types as a theorem, `TypeCorrect` or, in `DatabaseProofs`, also
`AccountsTypeCorrect` and `JobsTypeCorrect`. Beyond that:

`SessionLifeProofs`. `OpenSocketsAreServed` (`Safety => []OpenIsServed`) and `EntriesAreTaken`
(`Safety => EntryIsTaken`), of any implementation of `SessionLife`. The modules that have
`SessionsLive` instantiate this one as `LifeFacts`, under their refinement mapping, and
conclude `EntriesAreTaken`, `Spec => []Life!OpenIsServed /\ Life!EntryIsTaken`, of their own
sessions: what `SendStaleDisconnect` shows is then one of exactly three ways in which
the entry of a working session can go.

`NodePresenceProofs`

- `RegistryIsSound`: `Spec => []EntryIsServedOrDead`. The invariant is inductive with
  `TypeOK`. The step that matters is `LeaveLoop`: the handler that returns is the
  one `Removes` compared with. That `GreetingFails` leaves an entry behind is why
  the invariant must allow a lost socket.
- `WatchdogFinds`: `Spec => []ShownWasSeen`, inductive with the types: the commit that shows
  a node online writes `last_seen`, and nothing takes that away.
- `ReplacedExit`: `Spec => ReplacedExitIsSilent`, from `RegistryIsSound` and the types.
- `SessionsLive`: `Spec => Life!Safety`, the safety half of `KeepsSessions`. A handler
  that registers must not find its own entry there, which `EntryIsServedOrDead` gives,
  nor a second open socket of its node among those in use, which takes the invariant
  `OneSocket`. The handshake, the writes and the watchdog map to stuttering.

`AgentLinkProofs`

- `BacksOff`: `Spec => BackoffHolds`, for which the arithmetic of `Longer` is a lemma
  (`LongerGrows`).
- `ServedIsReached`: `Spec => []ServedIsReachable`. It is not inductive: `LinkInv` adds that
  an agent holds only sockets of its own (`HoldsItsOwn`) and that a session which is past
  its registration and whole at both ends is registered or unseated (`SeatedOrUnseated`).
- `SessionsLive`: `Spec => Life!Safety`. An agent that lets go of its socket makes one
  session at most lose its own (`LetsGo`), and one on its way to its registration is not
  registered (`OnItsWay`).

`CommandExecutionProofs`. None of the properties is inductive by itself; `IInv` is
their conjunction with three facts about every request:

- `StageInv`: what has been set at which `pc`; a future exists exactly while
  `execute_command` runs, an answer exactly afterwards.
- `ReportInv`: an outcome held by a future or given as an answer is the one the
  agent reported, and went through the handler. Without it nothing connects an answer
  with its row.
- `RowInv`: until its request is answered, and for good if it is cut off, a row is as
  inserted or as `_update_command_result` left it; the late write of the single
  endpoint can then only touch the status. Which of the two it is depends on
  `forgotten`: with crashes, a result that was received need not be in the row.

From `Inductive` (`Spec => []IInv`) follow `CallersAreNotStuck`, `RowsAgree` and, with
one more case analysis, `OutputIsFinal`. `ImplementsContract` shows
`Spec => Contract!Safety`: accepting maps to `Admit`, `Refuse`, `Wake` and `TimesOut` to
`Learn`, the endpoint's writes to `Close`, the agent's report to `Run`, a restart or a
failed write to `Cut` of all it takes with it, everything else to stuttering.
`AnswersAreOwnAndFinal` follows from that and the contract alone (`ContractStep`): an
answer is an excuse or the outcome of that very command, and answer, outcome and the
end of a request are each decided once.
`SessionsLive` shows `Spec => Life!Safety`, and with it that the sessions supposed here
do no more than those of `NodePresence` are allowed to. `SessionInv` says that a registered
session has arrived, and that what is being sent is sent on a session of its own node.

`FileTransfersProofs` goes the same way: `IInv` is the types, `NoStuckTransfer`,
`Placed` (a session is registered for its own node only; without it a drop could fail
the transfers of another node), a `StageInv` that fixes row and answer by `pc`, and a
`ReportInv` that ties a completed future to its own report. `TransfersAreNotStuck`,
`RowsTell` and, from the invariant and one step, `ExitIsOwn`. `ImplementsContract` shows
`Spec => KeepsContract`: here the outcome is the report, or `misread` for an error
without a text that the handler reads as a success; the step that answers both learns
and closes, and so does one that ends with a 500; for that, `ReportInv` must say that a
report received is one the node can make. `SessionsLive` and `AnswersAreOwnAndFinal` are
the theorems of those names for transfers.

`EventStreamProofs`. `SubscribersAreCurrent`: `NewsIsTrue` is inductive with `TypeOK`.
Two lemmas carry it: after a broadcast that agrees with the new registry the news is
true of the node it names and unchanged of the others (`BroadcastIsNews`, which needs
that a full queue loses its subscriber and not the event), and taking an event moves
it from the queue to `told` (`TakeKeepsNews`).

`AlertServiceProofs`. Every theorem is of any number of checks that overlap as they like, with
database errors and restarts at any point.

- `FewDuplicates` is `Spec => []DuplicatesAreBounded` for any finite set of checks. Its
  invariant counts the uncommitted alerts in (`NoMoreThanChecks`) and knows that a check
  has written one alert of a key at most (`OwnInv`). Only `Evaluate` adds to them
  (`OnlyEvaluateAdds`), and only when its check sees no alert of the key: then all there
  are belong to different checks that have not committed (`EvaluateAddsOne`), and
  `OneInEachBox` bounds their number.
- `NothingWithoutReason`: an alert becomes active by the commit of a check whose message
  fires a rule of its key, and is resolved by one that looked at the key and for which no
  rule fired and some rule did not. Its invariant (`ReasonInv`) holds of each check by
  itself, since a step of one leaves the others alone (`OthersAreUntouched`).
- `CommitsSettle` (`Spec => CommitSettles`) and `OnlyRaces` (`Spec =>
  OnlyRacesDuplicate`). A check is only sure of the keys that no other has written since
  it began; `SettledSoFar` says what it has made of those: it sees one alert at most of
  each it has looked at, one of each that fired, and resolves what is there of each its
  second loop is done with. Its own steps keep that (`OwnStepSettles`), and those of
  another check can break it of a key only by a commit, which marks the key
  (`OtherStepSettles`). `CommitLeaves` draws the conclusion for the step of the commit.
- `ReceiversKnow` (`Spec => []ToldAsItIs`). Of a key nobody raced on, either a check has
  still to tell what it has committed, or `told` agrees with the table (`ToldInv`). A
  commit leaves a doubt about a key it writes or will tell of it (`CommitTells`); a restart
  makes every key in doubt that was committed and not told of.

`DatabaseProofs` is about three models of tables that share nothing.

- `NodeRegistry`: `Inv` is `Written` (what each stage has written) and `Apart` (no two nodes
  share a name or a port). `AnswersHold` is an action property and
  needs one fact more: whoever has the name or the port of a request that has not written
  its node has written his own since that request looked (`RivalsAreLate`).
  `ImplementsDirectory` maps `Insert` to `Add`, `Delete` to `Remove` and the rest to
  stuttering. `RangeBounds`: there are no more nodes than ports, and exactly as many when
  a registration is told that the range is full. The port of a node is an injection
  from the rows into the range, and a surjection once that is full (`PortsAreShared`).
- `Accounts`: `ReferencesResolve`: no reference is written for a user who is gone, and
  no user goes whom a row refers to that does not go with him. `PowerComesFromAdmins`:
  the power of a user is in his row or in a request under way (`PowerIs`), a step that
  begins no request and changes no user adds to neither (`NoGain`), a request that
  begins has the role of the row, and an admin's request is what remains.
  `DeletionIsFinal`: a deleted user stays deleted, no request begins in his name, and
  his power only shrinks.
- `JobScheduler`: `OneMoreStart` needs `LateInv`: a job still to be looked at has not
  been started since it was disabled. `NoRepeatWithoutRollback` needs `PassInv`: a job
  is waiting, running or handled, never two of these, and one started for fires that are
  still due is not waiting, nor is one that the pass is to run robbed of its fires but
  by a new expression, for which nothing was started yet. `NoFireIsForgotten` is the
  other side of it: of a job that has run before and keeps its expression, only the
  commit of a pass that handled it does away with a fire.

`AnswersAreOwnAndFinal`, `EntriesAreTaken`, `NothingWithoutReason`, `RangeBounds`,
`DeletionIsFinal` and `NoFireIsForgotten` state formulas that none of the runs lists: they
are consequences for whoever uses the models, and were evaluated by TLC on the same
instances before they were proved.

Only model-checked: liveness, which is out of the prover's reach: the leads-to of
`SessionLife`, `AbsentIsNotOnline`, `Returns`, `TransfersEnd`, `Heard`, `LeakIsFound`,
`RecoveredIsResolved`, `FireIsServed` and the leads-to of `CommandContract`. Every safety
property of a passing run is proved.

## 5. What is left out

- In `CommandExecution`: errors before the first commit of a request, which leave nothing
  behind, reuse of a session, several bulk calls at once, and the scheduler as a
  further caller. Python's
  `wait_for` decides a tie between result and timer differently in 3.11 and 3.12;
  `TimesOut` allows both.
- In `NodePresence`: files, services and tunnels, which use the registry through `send`
  like a command does; the watchdog's notifications, which start before its commit.
- In `AlertService`: row locks between the UPDATEs of two checks (they write the same
  value), rules on values that are not numbers, acknowledgements.
- In `JobScheduler`: whether a node is connected is an input, and what its command does
  is in `CommandExecution`.
- In `Accounts`: passwords, the expiry of tokens, unique user names, the verification of
  a node's signature, the rate limit of the login.
- In `AgentLink`: what the agent does while it serves: metrics, service states and
  commands keep no state that outlives a connection, and its tunnel is never started.
- Not modelled: the server's auto-update, the metrics store with its pruner and the service
  states (plain inserts, upserts and dated deletes); and the dashboard page, the
  installation scripts and the Home Assistant integration, which are browser code,
  shell scripts and a client of the API.

## 6. Plan

Done: registry and presence, the agent's link, commands with their contract, file
transfers, events, alerts, scheduler, registration, accounts.

1. The watchdog's notifications; the update flag.
2. Several bulk calls at once and the scheduler as a caller, in `CommandExecution`.
