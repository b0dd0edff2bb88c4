# quanquant: a TLA+ verification project

quanquant is a personal futures-trading system. A server keeps orders, quotas, positions and
quotes; each user's machine runs a *local agent* that owns the broker session (Shioaji) in a
child process and is driven over a WebSocket. This directory models the part where a mistake
costs money: how orders travel, how their answers come back, and what survives when something
in between breaks. Paths below are relative to the repository (`src/quanquant/...`).

- `tlc -config X.cfg M` checks a run; `tlapm M.tla` checks the proofs of a module.

## 1. Inventory

| part | state it keeps | operations | hard behaviour |
|---|---|---|---|
| command path, server side: `broker/shioaji_adapter.py`, `broker/agent_commands.py`, `broker/agent_channel.py`, `web/routers/agent_ws.py`, `broker/watchdog.py` | `Order`, `QuotaReservation`, `AgentCommand` rows; pending futures; the supervisor lock | place, cancel, update; acknowledgement applier; login replay; resolvers | a request waits for a lock or an answer while threads and other sessions settle its command |
| agent: `agent/runner.py`, `agent/buffer.py` | `command_ledger`, `outbox`, `health_meta` (SQLite); latch; child handle | receive loop, pump, execute, health, watchdogs | a session's end cancels tasks in the middle of a native call; resends |
| fail-stop: `agent/native_runner.py`, `agent/runner.py`, `agent/buffer.py` | child process and handle, child latch, sentinel file, health epoch | trip, notice, latch, ping, start-up probe, health reports | failing kills, writes and notices; threads that outlive a session; stale reports |
| risk and quota: `broker/risk.py`, `broker/repository.py` | kill switch, confirm tokens, cooldowns, reservations | check_place, check_update, claim, reserve, confirm, release | two checks at the limit; tokens used twice; shared reservations |
| raw inbox: `broker/inbox_worker.py` | `RawInbox` rows (processed, quarantined, attempts) | stage, process batch, quarantine, retry, drain | deals before acknowledgements, duplicates, crash before the mark |
| positions: `broker/position_tracker.py` | `BrokerPosition`, `Trade` | open, add, cover, auto | excess cover, compare-and-set conflicts |
| sessions: `broker/agent_channel.py`, `broker/connection_gate.py`, `web/routers/agent_ws.py` | slot, generation, account binding, gate, cooldown | attach, login guard, detach, shut out | two connections of one user; two users' logins for one account; account switch with work in flight |
| order events: `broker/order_events.py` | bounded queue per subscriber | subscribe, publish | slow subscriber, eviction |
| device authorisation: `auth/device_flow.py`, `auth/agent_tokens.py` | device codes, agent tokens | create, approve, deny, poll, claim, rotate | concurrent polls, expiry, rotation |
| agent GUI: `agent/gui/*`, `agent/startup.py` | the running agent, start-up decision, registry, keyring, instance locks | wizard, direct start, re-authorise, clear, delete, stop | two GUIs of one machine, partial start, a keyring that fails |
| quotes, candles, alerts, journal, statistics | stored ticks and trades | batch and page computations | none concurrent; arithmetic |

How they interact. The web router calls the adapter, one coroutine per request on the server's
one event loop. The adapter commits the order (`RiskGuard.check_place`), then the command row,
then enters `supervisor.run`, sends through the user's `AgentChannel` and awaits a future. The
agent's receive loop executes commands one at a time and records each answer with its
acknowledgement row in one transaction; the pump sends unacknowledged rows again and again. The
server's receive loop hands each acknowledgement to a thread that commits it
(`apply_command_ack`), then acknowledges the row and resolves the future. The inbox worker and the
watchdog are tasks that work in threads under the same supervisor lock. Every piece of state in
the database outlives the server process; futures, locks and channels do not.

What makes each part correct, and where it can go wrong, is the list of hazards in
`PROJECT.json`, one entry per place in the code.

## 2. Plan

In order of importance; each is one module of state and actions, with a proof module.

1. `OrderStatus`, `AgentCommands`, `CommandContract`: one command and its answer, both ends.
2. `AgentFailstop`: child process, latch, sentinel, epoch, health reports and lease.
3. `Positions`, `RawInbox`: staging, dedupe, association, quarantine, retry, drain, the browser page.
4. `RiskGuard`: the in-process channel with limits, confirm tokens, kill switch and cooldown.
5. `AgentAccess`: handshake, slot, login guard, bindings, gate and cooldown.
6. `DeviceFlow`, `AgentGui`: device codes and tokens, and the GUI processes that use them.

All of these are in the project. Left over, in the order in which they would be worth adding: the
liveness of a latch report (`AgentFailstop`); the report rows of the agent's outbox and their
pruning; the order in which the server's tasks are cancelled; the headless start of the agent; the
candle builder and the alert throttle.

## 3. Modules

| module | what it is |
|---|---|
| `OrderStatus` | the guard all writers of `Order.status` share (`_order_status_transition_allowed`), as operators |
| `OrderStatusTheorems` | its laws, for every pair of statuses |
| `CommandContract` | abstract specification of one mutating command: an effect at the agent, a verdict at the server |
| `AgentCommands` | the command path of one user's agent, both ends, with its properties |
| `MCAgentCommands` | the constants of the runs |
| `AgentCommands_proofs` | theorems about `AgentCommands` |
| `AgentFailstop` | one agent's child process, latch and health reports, and the server's view of them |
| `AgentFailstop_proofs` | theorems about `AgentFailstop` |
| `Positions` | what one fill does to the positions of a scope (`PositionTracker.apply_fill`), as operators |
| `RawInbox`, `MCRawInbox`, `RawInbox_proofs` | one user's inbox worker and everything that shares its tables |
| `RiskGuard`, `MCRiskGuard`, `RiskGuard_proofs` | checks, quota, confirmation and switches around the native call of the in-process channel |
| `AgentAccess`, `MCAgentAccess`, `AgentAccess_proofs` | connections, slots, bindings and the two ways to shut an agent out |
| `Sums`, `SumTheorems` | sums over finite sets (quota, deals, fills), and their laws |
| `DeviceFlow` | device codes and agent tokens at the server, and the polling client |
| `AgentGui`, `MCAgentGui`, `AgentGui_proofs` | the GUI processes of one machine, composed with `DeviceFlow` |

How they divide the work. `AgentCommands` and `RiskGuard` are the two order channels; both use
`OrderStatus` for every write of a status, and so does `RawInbox`. `RawInbox` calls `Positions` for
each fill; the command rows that an order report settles in the same transaction are
`AgentCommands`' `ApplyReport`. `AgentAccess` decides which connection may speak for which account;
what is then said is `AgentCommands` (commands) and `AgentFailstop` (health). `AgentGui` extends
`DeviceFlow`: each GUI has two of its clients, one for the wizard and one for re-authorisation.

### AgentCommands: state and actions

Orders, cancels and updates are commands. A place command is identified with its order; a cancel or
an update names its order through `OrderOf`. Prices, symbols and accounts do not change the control
flow and are left out; an update is its new quantity, which is also its content hash, because
equal content means equal reservation (`reservation_id_for_update`).

| TLA+ | code |
|---|---|
| `status`, `known`, `qty`, `filled` | `Order.status`, whether `ordno` is set, `Order.qty`, `Order.filled_qty` |
| `quota` | `QuotaReservation` rows by reservation id |
| `ledger`, `acked`, `outcome`, `via` | `AgentCommand` rows in order of creation, `transport_acked_at`, `outcome`, `resolved_via` (`"none"` is `resolved_at IS NULL`) |
| `pc`, `fut` | where the request's coroutine is; its future in `AgentChannel._pending` |
| `lock` | `BrokerSupervisor`'s lock |
| `loop` | the request between the two commits of place or update: the event loop is busy, threads are not |
| `chan` | no socket, socket before UpLogin, logged in, `admission_ready` |
| `applied` | the acknowledgement at the head of `up` is committed, the loop has not handled it yet |
| `down`, `up` | the WebSocket, FIFO each way |
| `agentLedger`, `outbox` | `command_ledger`, unsent `cmd_ack` rows |
| `exec` | a native call that has an answer which `record_execution` has not stored |
| `placed`, `bQty`, `bFilled`, `bEnd` | the broker, external |
| `attempts`, `taken`, `lost`, `misled`, `late` | history: native calls made, commands the broker took, commands whose answer was lost, updates the watchdog was answered for from a list out of date, commands sent by their request after they were closed as failed |

A database transaction is one step. Code between two awaits is one step of the server's loop
(`LoopFree` is the guard of every other loop step), but a thread started by the loop may commit
between two transactions of one loop step, and does in the model. `ApplyAck` is the thread of
`asyncio.to_thread(apply_command_ack)`; `AckHandled` is what the loop does with it afterwards,
and everything else may happen in between. `Login` is one step because the loop holds
`inbox_lock` and reads nothing from the socket from `mark_logged_in` to the last replayed row.

`Execute` includes what the broker did: an `ok` means that it took the command, a `trade_not_found`
that it did not, a timeout either, and so does an `exception`: `child_main` answers that for
whatever the SDK raises, before or after the order left (`MayBeTaken`).
`QueryAnswered` may show any size the order has had at the broker (`Sizes`), because
`query_order_qty` reads the SDK's list without refreshing it. `SessionEnds` cancels the task that
awaits the call, so that the answer is lost: the call itself cannot be cancelled.

Deliberately abstract: the health protocol (`HealthChanges` is free), the raw inbox (reports and
deals are applied in any order once the order is known), time (`Expire` and timeouts are free),
and the in-process branch without an agent, which is `RiskGuard`.

### AgentFailstop: state and actions

| TLA+ | code |
|---|---|
| `sentinel`, `meta` | epoch in `<buffer>.failstop`; `health_epoch` in the `meta` table |
| `gen`, `live` | `ChildHandle._generation`; the child processes the operating system still runs |
| `tripped`, `cb` | `ChildFailstopLatch`; how far the callback thread is in `_trigger_failstop_latch` |
| `op` | the mutating operation in `child_main`'s loop |
| `handle`, `poisoned`, `pipe` | `_process is not None`; `_poisoned`; unread failstop notices |
| `req`, `reqGen` | the thread of `asyncio.to_thread(child.request)`, and the generation `request` noted |
| `phase`, `acct` | where `run_forever` is; `_account` |
| `latched`, `epoch` | `_latched`, `_health_epoch` |
| `notice`, `writer`, `writing` | the notice `_failstop_watchdog` holds; who is inside `_latch`, and with which epoch |
| `stray` | a `write_sentinel` thread whose task was cancelled |
| `queue`, `sending` | `_health_queue`; the frame `_health_sender` has made and not sent |
| `wire`, `hand` | each WebSocket, agent to server; the handler `agent_ws` at its other end |
| `chan` | `AgentChannel`: attached generation, `logged_in`, `admission_ready`, `_health_max_epoch` |
| `orphan` | the child of a killed agent, still inside its last native call; its failed write |
| `faultGen`, `unseen` | history: the child that failed; a sentinel nobody has read |

Writing the sentinel, sending the notice, killing a process, connecting and sending can each fail.
A request holds the child's lock while it waits, so whatever needs the lock (`alive`, `start`,
`terminate`, the ping) has the guard `req # "waiting"`; what stands on the event loop between two
awaits is one step. A request thread is not stopped by the end of its session: `SendCommand` may
happen in a later one, and this is what the generation check is for. `LoginChecked` is separate
from `BeginLogin` because the check runs in a thread, and a new connection may attach meanwhile.

Abstractions: `queue` is a set of epochs (a second copy of an entry makes a second equal frame); an
unreadable sentinel has the effect of the child's -1 and is the same value; the parent's `_latch` and
the child may write at once, the later replacement stands; there is one command thread
and at most one stray write; `_health_max_epoch` has no meaning before the login and is cleared
with the connection. An idle child ends with its parent, because its `recv` fails; one that has a
command when the parent is killed stays as `orphan` until the call returns, and its callback thread may
write the sentinel at any time until then, also after the next start's probe has removed it. One
such orphan is followed at a time. A notice of an orphan reaches nobody.

### RawInbox and Positions: state and actions

| TLA+ | code |
|---|---|
| `rows` | `raw_inbox` by id: report, `processed`, `quarantine_reason` |
| `orders`, `deals`, `books` | `Order` (ids known, status, `filled_qty`), the `deals` ledger, `broker_positions` and `trades` per scope |
| `pc`, `batch`, `handled`, `landed` | where `RawInboxWorker.run` is; what is left of the scan in `_process_batch` and what it did |
| `round`, `roundLanded`, `guard`, `last` | the fast retry: `_maybe_assoc_pending`, `_last_retry_released_ids` |
| `pending`, `queue`, `page`, `stale` | `_pending_events`; the page's queue in `OrderEventHub`; what the page shows |
| `wake`, `posted`, `lock`, `stop` | `_wake`, a commit whose `call_soon_threadsafe` has not run, the supervisor lock, `stop_and_drain` |
| `tries`, `slow` | history: fast retries a row went through; rows nobody wakes the worker for |

`Stage` is `commit_raw_callback` with `_validate_report_scope`; `BookDeal`, `SkipDeal`,
`ApplyReport` and `Quarantine` are the outcomes of `_process_row`, each one transaction; `LeaveRow`
is an exception nobody expected. `Publish` empties `_pending_events` into the hub, where a full
queue evicts its subscriber. A position holds sums (price times lots), not averages, so that the
money of a round trip is exact; a fill that covers more than is open closes one position and opens
the other with the rest of its fee. The fee of a deal is the one that was booked.

Two facts the model makes visible. Rows that raise an unexpected exception stay at the head of the
id-ordered, limited scan: as many of them as `batch_limit` starve every later row. And a deal with
contradictory ids is booked by `ordno` as long as the order of the other id is not known
(`inbox_worker.py:605`); the contradiction is only seen when both are.

`_open_qty` answers an `IntegrityError` with a rollback that would take the staged deal along, and
a cover compares `version`; both need a second writer of one scope, and one worker per user is
all there is, so neither can happen in the model.

### RiskGuard: state and actions

| TLA+ | code |
|---|---|
| `orders`, `quota`, `tokens`, `cooling` | `Order`, `QuotaReservation`, `ConfirmToken`, `Cooldown` rows |
| `calls` | an HTTP request between `check_place`/`check_update` and its end: waiting for the supervisor lock, or in the native call |
| `kill` | `KillSwitchState`: per user and global |
| `taken`, `listed` | what the broker has of an order; the sizes it has had there; external |
| `sends`, `claims`, `disputed`, `misled`, `crashes` | history: native place calls, token claims, update reservations two parties decided about, increases returned on a list that did not show them yet |

The check is one transaction, with the token claimed inside it; a request in `native` holds the
lock. `Settle` and `GiveUp` are the watchdog, which takes the lock only for its query of the broker.
`Settle` acts on any size in `listed`: the query reads `list_trades` without the `update_status` a
cancel or an update makes first, so that it may show an older size, or an order that is gone. A list
that has been refreshed by another call in between is one of these cases.
The broker takes an operation before an exception reaches the code, not after;
the lock is taken in any order; there is one trading day. The native call has no
timeout, so no liveness is claimed here.

### AgentAccess: state and actions

| TLA+ | code |
|---|---|
| `bound`, `claim` | `AgentAccountBinding` rows; bindings inserted by a transaction that is not committed |
| `orders`, `risky`, `rows` | per account and user: is there an order, an unresolved place or update, an unprocessed row (and who staged it) |
| `cooldown`, `gate` | `Cooldown` (none, cancellable window, firm); `AgentConnectionGate` |
| `conn` | each `agent_ws` handler: away, authed, passed, open, queued, claiming, checked, replaying, in, reporting, gone |
| `slot`, `lock`, `recon` | per user: `AgentChannel` and the adapter's account; `inbox_lock`; the reconcile under way |
| `slipped`, `crashes` | history: connections past the gate's check when their user shut them out |

The login guard `_check_uplogin` is split at its INSERT, because that is what makes the transaction
of another user that wants the same account wait. `Place` stands for an admission that
`AgentCommands` models; a connection that is being closed may still handle what it has received; an
agent logs in once per connection, before anything else.

### DeviceFlow and AgentGui: state and actions

| TLA+ | code |
|---|---|
| `code`, `token` | `agent_device_codes`, `agent_tokens` |
| `polls`, `resends` | requests on their way; requests the network delivered twice |
| `flow` | `DeviceFlowClient` of each wizard and re-authorisation |
| `gui` | `app.state` of a GUI process: start-up decision, wizard result, credentials, runner, probe, lock |
| `registry`, `stored`, `broker`, `locks` | `profiles.json`, the keyring entries, `InstanceLock` files of the machine |

One step per handler: none of them awaits between reading and writing. `slow_down` is `pending` (the
client treats them alike); a failed flow is an idle one; re-authorisation without "remember" only
shows a hint. Whether the user ticked "remember" is decided when the token is stored. The probe of a
direct start may be refused whatever the token is worth, since the broker may refuse it. Old
rows are never cleaned up in the model; a code that is a day old can do nothing.

## 4. Runs

| run | instance | what it shows |
|---|---|---|
| `replay` | one place, 3 sessions, 1 restart of the agent, 1 crash of the server, 2 messages in flight, expiry, latch, kill switch, fills | `ReExecutedOnlyIfLost`, `QuotaHeld`, `ImplementsContract` |
| `updates` | one order of 1 lot, two updates to 2 and one to 1, 2 sessions, lists out of date, refusals | `OkIsRecorded`, `OpenKeepsOwnQuota`, `QueryRight` |
| `cancel` | a place and a cancel, 2 sessions, fills, endings by the exchange, 1 server crash, fairness | `TypeOK`, `FinalLeftOnlyByPlace`, `ResolvedStays`, `EveryRequestReturns`, `Answered` |
| `latch` | 2 children, 2 sessions, 1 report that cannot be stored, 1 restart of the agent that may leave its child in a call | `TypeOK`, `OneChild`, `SentinelHonoured`, `OkMeansUnlatched`, `LatchAnnounced`, `NoCallOnceLatched` |
| `books` | 3 orders of 2 users, 7 reports, 3 rows, 2 copies of each, 1 crash | `TypeOK`, `BooksMatchDeals`, `FilledMatchesFills`, `BookedExactlyOnce`, `NoForeignBooking`, `GuardGivesTwoTries` |
| `worker` | 2 rows, 1 unexpected exception, watchdog, page, shutdown, fairness | `NoLostWake`, `StaleImpliesPing`, `DrainedIsFinal`, `EventuallyDone` |
| `guard` | 2 users, 2 forms of 1 or 2 lots, 3 tokens, 2 requests, limit 3, a switch, a cooldown, 1 crash | `TypeOK`, `LimitHolds`, `ExposureCovered`, `SentAtMostOnce`, `TokenBuysOneDecision`, `ConfirmedIsSent`, `NothingSentWhileBlocked`, `SettledOnce` |
| `access` | 2 users, 2 accounts, 2 connections of one user and 1 of the other, 1 crash | `SessionIsOwn`, `ShutOutStays`, `LoginIsClean` |
| `device` | 2 users, 2 GUIs, 2 codes, 3 tokens, 1 repeated request | `TokensAccounted`, `OwnSession` |
| `v_at_most_once` | one place, 2 sessions | violation, see 5 |
| `v_local_failure` | one place, 2 sessions | violation, see 5 |
| `v_taken` | one order form, in process | violation, see 5 |

Bounds. Two sessions are the least that make a replay; the third one of `replay`, with the latch and
a restart that clears it, lets a request wait across a refusal of its replayed row and be sent
afterwards (the late dispatch in 5). The crash of the server drops every request and future while
the agent has or executes the command. `MaxWire` only bounds resends by the pump: a resend of an
unacknowledged row is idempotent at the receiver, and two messages are enough for a duplicate to
overtake a command. Three updates are the least in which two share a reservation and a third
disputes it; the two are interchangeable (`SYMMETRY`). `replay` has 1.1 million distinct states
(half a minute with two workers), `updates` 5.5 million (three minutes), `cancel` 0.3 million, but
with liveness (two minutes). The errors of native calls in `updates` are refusals; those that may
hide an execution are in `replay` and `cancel`, and in the theorems. A system that has used up its
sessions and requests stops, hence `CHECK_DEADLOCK FALSE`; that nobody is left waiting is what
`EveryRequestReturns` says.

In `latch` two children are what a fence between generations needs, two sessions what a late frame
and a late thread need. One fault latches the agent for the rest of the process; restarts are
explored after it, or when they leave an orphan, whose fault may be the one; else an agent starts
like the first time. One frame in flight leaves the others in the queue, where they are still
compared with the epoch. The run has 6.2 million distinct states and takes two to three minutes.
`LatchAnnounced` is the safety side of "a latch reaches the server": as long as the server would
admit an order, the news is in the writer, the queue, the sender or the wire. The liveness itself
takes TLC too long at these bounds and is not checked.

In `books` three rows are what a fill, its copy and an orphan need, and what a batch of two has to
split; the reports contain two fills of one order, a cover that reverses, a
cancellation, an order of another user reported from an account nobody is bound to, another user's
report for this user's account, and a fill whose two ids may disagree. `worker` drops the variety and
adds the loop: one exception is enough to leave a row behind at the wrong moment, one
connection of the page to lose a ping.

In `guard` (0.7 million distinct states) two requests are enough for every race of the checks,
because each is one transaction; three tokens confirm both and one retry. A limit of three lets one
new order and one increase fit in two ways. The constraint `CoolingAlone` does not follow a cooldown
together with a switch or a crash, which a cooldown does not interact with.

In `access` the third connection belongs to the user the other two compete with for an account. The
constraint `OneStory` follows a shut-out without reports and a crash without either: the gate reads
no row, and a crash ends every connection. In `device` a state strays at most once from one GUI with
one code and two tokens: a second GUI, a third token, an expired code, an old token, a repeated
request, a forgotten secret or an entry without a profile. The theorems of both modules are proved
without these constraints (see 6); the runs show that the cases happen.

Fairness (`AgentCommands`). Weak for the tasks and threads that always run: the second half of a
place or update, the timeout of `wait_for`, the resumption of an answered coroutine, a thread's end
under the lock, the two receive loops, the pump. Strong for a coroutine that waits for the supervisor
lock, since `asyncio.Lock` wakes its waiters in order, and worker and watchdog take the same lock
for ever. None for connections, health, broker and clock. `Answered` therefore only speaks of
behaviours in which the agent stays connected and admitted from some point on, and of places and
updates: a cancel refused while only the health was bad waits for the next login.

Fairness (`RawInbox`). Weak for the worker's loop, the acknowledgement of an order, the watchdog's
request for the lock and a drain that is granted it; strong for the watchdog's release of all rows
that wait for their order: every one gets old, and the watchdog looks every five minutes. None for
the wake-up of a committed row, the page, the broker and the shutdown. `EventuallyDone` speaks of a
server that is not stopped: rows whose order becomes known are booked.

## 5. Known disagreements between code and documentation

The runs with expectation `violation` check what a comment of the repository claims.

- `v_at_most_once`: `agent/buffer.py:293` says every attempted command is recorded. `run_once`
  cancels the receive loop while `_execute_mutating_command` awaits the native call; the
  answer is not recorded, and the next login makes the agent execute the command again.
- `v_local_failure`: `broker/agent_commands.py:151` says that a command closed as never dispatched
  will not reach the agent. The login replay sends the rows of requests that still wait for the
  lock; such a request can then be refused locally, its order failed and its quota released.
- `v_taken`: `broker/shioaji_adapter.py:118` says that an order which may have reached the broker keeps
  its quota until it is reconciled, since the daily limit breaks otherwise. The watchdog fails every
  unknown order without broker ids and releases its quota without asking (`watchdog.py:188`).

`broker/repository.py:64` says a final status is irreversible; `set_order_ack` overwrites it
(`:194`), in the write-back of a place that waited while its row was replayed and filled.
`FinalLeftOnlyByPlace` says that nothing else does.

Five more are in the model, which has no switch to turn them off. Where one breaks a property, the
property names it as an exception, and TLC finds the violation when that exception is taken out.

- `native_runner.py:401` answers `exception` for anything the SDK raises, also after the broker
  took the order, and `agent_commands.py:64` takes `exception` for "certainly not executed": the order
  is failed and its quota returned. `QuotaHeld` excepts a command the broker took and the
  agent recorded as an exception (`Raised`).
- `native.py:155`: `query_order_qty` reads `list_trades` without the `update_status` that refreshes it
  (compare `native.py:195`). An increase the broker took may be settled as not taken. `QueryRight`
  and `QuotaHeld` except an update whose query was answered with a size out of date (`misled`).
- A request that waits for the lock is dispatched after its row was replayed, refused by a
  latched agent and closed; a restart has cleared the latch, so the agent executes it. Its quota has
  gone back with the refusal. `QuotaHeld` excepts it (`late`), and `CommandContract` has a
  step for it (`SendAfterError`), which only the request itself can cause. It takes three sessions,
  the latch and a restart: `replay` has them.
- `OpenKeepsOwnQuota`: `check_update` accepts a reservation of an equal update, the acknowledgement
  thread releases it, then the second one's row is written. Only updates that share a
  reservation can do this (`Sharing` in `QuotaHeld`).
- A cancel refused before it was sent is replayed by the next login, although `shioaji_adapter.py:865`
  says it is not (`RefusedCancelNotSent`, with one cancel).

And in the fail-stop part, where no run is spent on them:

- `native_runner.py:213` says that a failed write latches. The child latches, but if it is killed
  for a command that timed out before it has written the sentinel and sent the notice, the
  parent never learns, and the next child serves as if nothing had happened.
- `buffer.py:17` says that the sentinel means latched. `run_once` reads it before `ensure_child`; a
  child that writes it in between and dies leaves a session that runs unlatched
  (the exception `unseen` of `SentinelHonoured`) until the next one reads it. So does the child of a
  killed agent (`runner.py:200`), which nobody waits for: the probe of the next start proves that the
  disk can be written and removes the sentinel, and the old child writes it again.
- `runner.py:422` says that callers which ignore `terminate`'s result are no less safe for it. `start`
  does so when the child refuses to connect; if the kill failed too, `ensure_child` finds the child
  alive and an account of an earlier one, and goes on with a child that never logged in.
- the child's -1 may replace the epoch the parent has just written; the next session then falls
  back to the epoch of the `meta` table. `OkMeansUnlatched` holds nevertheless, because a login
  declares the epoch anew.

In the in-process channel:

- a retry with the content of an update whose outcome is unknown shares its reservation
  (`risk.py:254`); when the retry is refused, the quota of an increase the broker has goes back.
  The watchdog does the same to a request that still waits for the lock. `ExposureCovered` excepts
  both (`disputed`) and the orders of `v_taken`.
- the watchdog settles a pending increase by a list that may be older than the increase
  (`watchdog.py:205`, `native.py:155`) and returns its quota for good. `ExposureCovered` says that nothing
  else is missing: the broker has at most the active reservations plus those increases (`misled`).
- a released reservation of an update makes every later update of the same content of that order
  fail (`repository.py:888`).
- the stored answer of an order that failed or is pending lets the page report that the order was
  sent, and make a new form.
- a cooldown refuses new orders, but not increases. A confirm token names user and content, not
  the order: two orders that merge to one content share it.
- a request the gate refuses because there is no session is marked unknown, though nothing was sent;
  orders that a crash left pending are never resolved.

In the worker's part: rows staged by a reconcile wake nobody and wait for the watchdog; a
page that reconnects its event stream does not load again and may miss what was published
between; a fill is compared with `Order.qty` before the acknowledgement of an increase has raised it
(`repository.py:209`), so that the order may be called filled too early.

In the sessions:

- the cooldown and the "disconnect" button close the attached connection; one whose handshake has
  passed the gate's check and not attached yet (`agent_ws.py:112` and `:135`) stays. `ShutOutStays`
  excepts exactly these (`slipped`).
- a reconcile stamps its rows with the account it reads after two awaits, outside `inbox_lock`
  (`shioaji_adapter.py:448`): after a switch of accounts they carry the new one. `LoginIsClean`
  therefore speaks of reports only.
- a new token does not end a connection that was made with the old one; a slow handshake with the old
  token may replace the newer connection. The last good heartbeat is kept over a new session.

In authorisation and GUI:

- selecting a profile replaces the decision while a runner is alive, so that re-authorisation, clearing
  and deletion may act on another profile than the runner's (`status_routes.py:114`); deleting it
  while a re-authorisation is open leaves a token in the keyring without a profile.
- a direct start refused after its probe keeps its instance lock: the same GUI cannot start again
  before a stop, and another profile makes it forget the first lock. A stop releases the lock
  also when the end of the child was not confirmed.
- when the keyring refuses the new token after the old entry was deleted, the only copy is lost;
  the message promises a retry that does not exist.
- a late poll of a code its client gave up claims it, and revokes a newer token; so does a lost
  answer to the poll that claimed the code.

`ReExecutedOnlyIfLost` excepts what the first run shows. `QuotaHeld` excepts an order (`Excused`) to one of
whose commands one of these happened: its answer was lost; it raised after it was taken; the list was
stale; it was sent late; it was closed locally although a replay had sent it; it shares a
reservation. They say what holds of everything else, and each is about the order in question: what happens
to one order excuses no other.

## 6. Proofs

`OrderStatusTheorems` proves that the guard writes the new status or keeps the old one
(`MarkEither`), keeps every final status (`MarkKeepsFinal`) and never goes down the ranks
(`MarkRises`). `AgentCommands_proofs` proves, for all sets of commands, bounds and switches (under
the named assumptions on the constants only):

| theorem | says |
|---|---|
| `TypeCorrect` | `Spec => []TypeOK` |
| `NoReExecution` | `Spec => []ReExecutedOnlyIfLost` |
| `SuccessIsRecorded` | `Spec => []OkIsRecorded` |
| `FirstVerdictStands` | `Spec => ResolvedStays` |
| `FinalStatusKept` | `Spec => FinalLeftOnlyByPlace` |
| `OpenCommandsKeepTheirQuota` | `Spec => []OpenKeepsOwnQuota` |
| `QuotaIsHeld` | `Spec => []QuotaHeld` |
| `QueriesAreRight` | `Spec => QueryRight` |
| `ContractIsKept` | `Spec => ImplementsContract` |

The inductive invariant of the first six is a conjunction of these parts:

- `WrittenFirst`: everything in flight (wire, native call, outbox, waiting request) concerns a
  command of the ledger. `TypeOK` is not inductive without it: messages are typed by it.
- `AckedFirst`: an order has broker ids, a future its answer and a status is final only after an
  acknowledgement or a verdict. `FinalLeftOnlyByPlace` needs it: `ApplyAck` of a place overwrites
  the status too, and only this shows that the status is not final then.
- `Traced`: a native call leaves a record, an answer in progress or a lost answer.
- `Believed`: every answer on the wire is the agent's record, or a refusal that was not recorded.
- `LoopHasNoRow`, `Freed`: the request between its two transactions has no row yet, and a released
  reservation was released by a command of its own that is settled.

The last three assume nothing either of errors, lists, latches, timeouts, lost sessions, restarts,
crashes, expiry and fills: what the code gets wrong is an exception in the property, and the proof
has to show that nothing else goes wrong. Their invariant `HInv` adds to the parts above:

- `Agreed`: what server and agent know of a verdict goes together (`Verdicts`); a refusal on its way
  that the agent did not record is of a command that is not running and will not be executed in this
  session (`Barred`: the deadline has passed, the agent is latched, or the session is over); a command
  closed as refused is not executed unless its request still sends it (`Dead`), which is what `late`
  records (`Linked`); and what the watchdog asks about has timed out (`Asked`).
- `Reserving`, `GivenBack`, `Kept`: a reservation belongs to a request that was made; it is given
  back only if the command failed or lost its race; a resolved command has settled it one way or the
  other. `taken` tells a refusal from a raise: what the broker took is recorded, in progress or lost
  (`TakenAnswered`).
- `Backed`, `KnownSize`, `AtBroker`: the sums. The size of a command is covered by the confirmed
  reservations of its order and its own; the size the server knows by the confirmed ones; the size the
  broker has either by the confirmed ones, or it is that of a command that has been executed and
  whose reservation is still there. `QuotaHeld` follows from the last two of these.
- `SingleFlight`, `SentHolds`, `Quiet`, `QueryFresh`: one unresolved update per order; whoever has
  sent holds the lock, so that while the watchdog asks only replays of what was open at the
  login are on the wire, and what is resolved meanwhile was executed before or never will
  be. So the answer is still the broker's when it is used, which is `QueryRight`.

`ContractIsKept` maps a command to its effect at the agent (none, executing, recorded) and its verdict at
the server; every action is a step of the contract or changes neither (`ContractStep`). It rests on
the parts above and on `Agreed`: that an answer is believed once, that it is the recorded one, and that
nothing runs again after it.

Sums are taken over functions (`SumOver`), and `SumTheorems` proves what they do when a term changes, is
added or removed, from the induction over the subsets of a finite set (`SubsetInduction`, which
speaks of a set of subsets where the library's theorem wants an operator).

`AgentFailstop_proofs`, for any number of children, sessions, faults and restarts:

| theorem | says |
|---|---|
| `OnlyOneChild` | `Spec => []OneChild` |
| `TypeCorrect` | `Spec => []TypeOK` |
| `SentinelStops` | `Spec => []SentinelHonoured` |
| `CallsEndAtTheLatch` | `Spec => NoCallOnceLatched` |
| `OkIsUnlatched` | `Spec => []OkMeansUnlatched` |
| `LatchIsAnnounced` | `Spec => []LatchAnnounced` |

`OneChild` is not inductive: nothing in it says that the process a new child would join is the one
the parent has a handle of. `Handled` adds this: what runs is the newest generation, and its handle is
kept until `terminate` has seen it dead. The other five rest on `Agent /\ Flags /\ Net /\ Safe /\ Truth`:

- `Causes` (in `Agent`): a notice, a fault or a half-done callback is of a child that has tripped, and who
  writes the sentinel has latched, with the epoch of now.
- `Net`: handlers speak of connections the agent has made, and a login that is being checked is
  still at the head of its wire.
- `Safe`: what a sentinel means in each phase of a session's start (`Honoured`), and that a command
  meant for this child is stopped by the child once anybody has latched (`Fenced`). This is why a
  request that was taken before the latch cannot start a call after it.
- `Truth`: every "ok" on the wire, in the sender or believed by the server is out of date or true
  (`Fresh`), none follows a "failstop" on the wire (`InOrder`), and the news of a latch is under way
  until no "ok" is left that the server could believe (`Announced`). `LatchAnnounced` alone is not
  inductive: without the order of the wire the server could read an "ok" after the news.

`RawInbox_proofs`, for every set of orders and reports, any bounds and any number of crashes:

| theorem | says |
|---|---|
| `LedgerIsExact` | `Spec => []BookedExactlyOnce`: one deal per fill, a finished row has its fill there, a deal's row is finished |
| `OwnFillsOnly` | `Spec => []NoForeignBooking` |
| `DrainIsFinal` | `Spec => DrainedIsFinal` |
| `TwoRoundsEach` | `Spec => []GuardGivesTwoTries` |
| `WakeIsNotLost` | `Spec => []NoLostWake` |

The ledger needs only `RowsOK` (a row that waits for its order is not done). `DrainedIsFinal` needs
`LockOK`: whoever is in the middle of a batch is first in the queue of the lock. `GuardOK` ties the
rounds a row went through to the size of the last release, and `WakeOK` says of each phase of the loop
which rows it may still pass over.

| theorem | says |
|---|---|
| `BooksAreDeals` | `Spec => []BooksMatchDeals`: lots, money and fees of each scope are those of its deals |
| `FilledIsFills` | `Spec => []FilledMatchesFills` |
| `PingSurvives` | `Spec => []StaleImpliesPing` |
| `RawInboxTypes` | `Spec => []TypeOK` |

`DataOK` is the invariant of the first two. A booking adds to each account of the scope what the deal adds
to it, through opening, covering and the split of a fee at a reversal; this needs that an open
position has lots left (`BookOK`).
`PageOK` follows the events of a batch into the hub's queue: the ping is the last event of a batch,
and a full queue drops its oldest. `RestOK` is what else the types need. The assumptions on orders and
reports (`OrdersAssumption`, `EventsAssumption`) are what the columns and the parsers guarantee.

`RiskGuard_proofs`, for every set of owners, forms, contents, tokens and requests: `TypeCorrect`,
`OneSendPerForm` (`SentAtMostOnce`), `OneDecisionPerToken`, `ConfirmedContent` (`ConfirmedIsSent`),
`GateHolds` (`NothingSentWhileBlocked`) and `SettlementIsFinal` (`SettledOnce`). `SendOnce` is the
strengthening behind the first: an order has at most one place request on its way, and none once it
was sent. `ClaimOnce` ties the count of claims to the state of the token, `AllPaid` says that a
request carries a spent token of its content. `LimitIsKept` (`LimitHolds`) and `ExposureKept`
(`ExposureCovered`) are about sums, over finitely many forms and contents (`FiniteAssumption`). The
limit needs that only a check adds to what a user has reserved. The exposure rests on `Ground /\
Requests /\ Covered`: each request between its check and its answer has its reservation
(`Requests`), and what the table or the broker has of an order is covered by the confirmed
reservations and those returned on a stale list (`Accounted`), or by these and one that nobody is
deciding about, unless the order failed or is disputed (`Covered`). Nothing is assumed of the list:
whatever size the watchdog sees, a reservation it returns was not needed or is in `misled`.

`AgentAccess_proofs`, for every set of users, accounts and connections: `TypeCorrect`,
`AccountHasOneOwner` (`OneOwner`: no account has orders of two users, so a restart is never refused),
`SessionsAreOwn`, `LoginsAreClean`, `ShutOutAgentsStayOut`. The invariant is
`Typed /\ Queued /\ Session /\ Owned /\ Shut`. `Queued` says that a handler waits in its user's lock
exactly once and that only the first holds it; `Session` relates slot and newest connection;
`Owned` keeps the binding of whoever logs in, and that what the guard found clean is clean until it
takes effect, because whoever could spoil it needs the lock; `Shut` follows a shut-out
connection to its end.

`AgentGui_proofs`, for every number of codes, tokens and GUIs: `TypeCorrect`, `TokensAreAccounted`
(`TokensAccounted`), `GuisKeepToTheirProfiles` (`OwnSession`). `Given` and `Placed` follow a token from
the poll that made it to wizard, runner and keyring; `Locked` says that a runner's GUI holds the
lock of the runner's profile.

Model-checked only: liveness (fairness is beyond the prover) and the disagreements of 5.

## 7. Not modelled

`PROJECT.json` lists each part with its reason. In short:

- quotes, candles, alerts, journal, statistics, indicators: one task or one request at a time, and
  nothing of them reaches an order; user sessions and passwords: single-row reads and writes; pages,
  templates, scripts: rendering.
- of the agent: report rows of the outbox and its pruning, the refusal to start with another
  account, the headless start (`startup.py`), the session cookie of the GUI and its one-time
  bootstrap; a second orphan beside a first one.
- of the GUI: the last half second of a stopped one, requests in the tenth of a second in which a refused
  probe is cleared away, requests served while a stop awaits the end of its child
  (`coordinator.py:175`; they are taken to come before or after it).
- of the server: migrations, which run alone; the order in which the tasks are cancelled; a worker
  cancelled in its thread after the drain timed out; `session_state`, which follows the channel and
  feeds pages.
- of the orders: listing, audit rows, price-only updates, payload hashes beyond equality.

The Shioaji SDK, the exchange and the network are external; what the code expects of them is stated in
`BrokerTakes`, `Reported` and the FIFO wires of `AgentCommands`, in `Events` of `RawInbox`, in
`taken` of `RiskGuard` and in `polls` and `resends` of `DeviceFlow`.
