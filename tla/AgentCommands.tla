--------------------------- MODULE AgentCommands ---------------------------
(***************************************************************************)
(* The command path between the server and one user's local agent: how a  *)
(* place, a cancel or an update travels from the HTTP request through the  *)
(* server's command ledger, the WebSocket, the agent's own ledger and the  *)
(* broker's child process, and how its acknowledgement travels back and    *)
(* settles the order, the quota reservation and the ledger row.            *)
(*                                                                         *)
(*   server   broker/shioaji_adapter.py (the request coroutines),          *)
(*            broker/agent_commands.py (the ledger), web/routers/          *)
(*            agent_ws.py, broker/agent_channel.py, broker/watchdog.py,    *)
(*            broker/inbox_worker.py (what it does to orders)              *)
(*   agent    agent/runner.py, agent/buffer.py                             *)
(*                                                                         *)
(* A database transaction is one step.  The server's event loop is one     *)
(* thread: code between two awaits is one step, except that the threads    *)
(* the loop starts (an acknowledgement being applied, the inbox worker,    *)
(* the watchdog) may commit between two transactions of the same loop      *)
(* step; `loop' names the request that is between two such transactions.   *)
(***************************************************************************)
EXTENDS OrderStatus, Sequences, FiniteSets, Sums

CONSTANTS
  Places,        \* client order ids; each is also its own place command
  Cancels,       \* cancel commands
  Updates,       \* update commands
  OrderOf,       \* [Cancels \cup Updates -> Places]
  InitQty,       \* [Places -> quantity], the size an order is placed with
  NewQty,        \* [Updates -> quantity], the size an update asks for
  DailyLimit,    \* RiskGuard's daily quota, in lots
  NativeErrors,  \* the error kinds a native call may answer with here
  MaxSessions,   \* bound: WebSocket sessions the agent opens
  MaxRestarts,   \* bound: restarts of the agent process
  MaxCrashes,    \* bound: restarts of the server process
  MaxWire,       \* bound: messages on the wire when an outbox row is (re)sent
  CanLatch,      \* may the agent's fail-stop latch trip?
  CanExpire,     \* may commands outlive expires_at?
  CanFill,       \* may the broker fill orders?
  CanEnd,        \* may the exchange cancel or reject orders by itself?
  CanBlock       \* may the kill switch be pressed while a request waits?

Cmds == Places \cup Cancels \cup Updates

Order(c) == IF c \in Places THEN c ELSE OrderOf[c]

(* Mutant: a timeout taken for a refusal.                                  *)
TimeoutIsReject ==
  {"trade_not_found", "exception", "mode_mismatch", "expired", "scope_mismatch", "failstop",
   "timeout"}

(* The error kinds the server treats as "not executed"; everything else    *)
(* that is not ok leaves the outcome unknown.                              *)
ExplicitReject ==
  {"trade_not_found", "exception", "mode_mismatch", "expired", "scope_mismatch", "failstop"}

Answers == {"ok", "timeout"} \cup ExplicitReject

(* Reservation keys: the client order id for a place; the order and the    *)
(* content hash for an update.  The content is its quantity here: two      *)
(* updates of one order to one quantity are the same request.              *)
PlaceRes(o) == <<o, 0>>
UpdateRes(u) == <<OrderOf[u], NewQty[u]>>
ResOf(c) == IF c \in Places THEN PlaceRes(c) ELSE UpdateRes(c)
Reservations == {ResOf(c) : c \in Places \cup Updates}
ResOfOrder(o) == {r \in Reservations : r[1] = o}

Quantities == {InitQty[o] : o \in Places} \cup {NewQty[u] : u \in Updates}

ASSUME IdsAssumption ==
  /\ Places \cap Cancels = {} /\ Places \cap Updates = {} /\ Cancels \cap Updates = {}
  /\ Cmds \cap {"none", "worker", "watchdog"} = {}
  /\ IsFiniteSet(Cmds)
ASSUME DataAssumption ==
  /\ OrderOf \in [Cancels \cup Updates -> Places]
  /\ InitQty \in [Places -> Nat \ {0}]
  /\ NewQty \in [Updates -> Nat \ {0}]
  /\ DailyLimit \in Nat
  /\ NativeErrors \subseteq ExplicitReject
ASSUME BoundsAssumption ==
  /\ MaxSessions \in Nat /\ MaxRestarts \in Nat /\ MaxCrashes \in Nat /\ MaxWire \in Nat
  /\ CanLatch \in BOOLEAN /\ CanExpire \in BOOLEAN /\ CanFill \in BOOLEAN
  /\ CanEnd \in BOOLEAN /\ CanBlock \in BOOLEAN

VARIABLES
  (* server database *)
  status,    \* [Places -> Statuses or "absent"]
  known,     \* [Places -> BOOLEAN]: has the order its broker ids (ordno, seqno)?
  qty,       \* [Places -> Nat], Order.qty
  filled,    \* [Places -> Nat], Order.filled_qty
  quota,     \* [Reservations -> [state, qty]]
  ledger,    \* the agent_commands rows, oldest first
  acked,     \* commands whose transport_acked_at is set
  outcome,   \* [Cmds -> outcome column]
  via,       \* [Cmds -> resolved_via column]; "none" means not resolved
  (* server memory *)
  pc,        \* [Cmds -> where the request's coroutine is]
  fut,       \* [Cmds -> its pending future on the channel]
  lock,      \* holder of the supervisor lock
  loop,      \* the request between two transactions of one loop step
  chan,      \* AgentChannel: down, open, in (logged in), ok (admission_ready)
  applied,   \* has the ack at the head of `up' been committed?
  query,     \* the watchdog's answered query_qty, if any
  (* the wire, in FIFO order each way *)
  down, up,
  (* agent *)
  sess,      \* is the agent's WebSocket session running?
  latched,   \* fail-stop latch
  exec,      \* a native call that has answered and is not yet recorded
  agentLedger, \* [Cmds -> recorded answer], command_ledger
  outbox,    \* commands with a cmd_ack row not yet marked sent (at most one each)
  (* broker, and history *)
  placed,    \* [Places -> Nat], broker orders created for this order
  bQty, bFilled,
  bEnd,      \* [Places -> open, cancelled, failed]
  attempts,  \* [Cmds -> Nat], native calls made
  taken,     \* commands the broker has taken
  expired,   \* commands past expires_at
  lost,      \* commands whose native answer was lost before being recorded
  misled,    \* updates whose query was answered with a size out of date
  late,      \* commands sent by their request after they were closed as failed
  sessions, restarts, crashes

dbVars    == <<status, known, qty, filled, quota, ledger, acked, outcome, via>>
reqVars   == <<pc, fut, lock, loop>>
chanVars  == <<chan, applied, query>>
wireVars  == <<down, up>>
agentVars == <<sess, latched, exec, agentLedger, outbox>>
brokerVars == <<placed, bQty, bFilled, bEnd, attempts, taken>>
envVars   == <<expired, lost, misled, late, sessions, restarts, crashes>>
vars == <<dbVars, reqVars, chanVars, wireVars, agentVars, brokerVars, envVars>>

InLedger == {ledger[i] : i \in 1..Len(ledger)}
Resolved(c) == via[c] # "none"
Unresolved(c) == c \in InLedger /\ ~Resolved(c)

(* Mutant: only earlier acknowledgements are looked at.                    *)
OnlyTransportSeen(c) == c \in acked

(* The applier's two early returns.                                        *)
AnsweredBefore(c) == c \in acked \/ Resolved(c)

Active(r) == quota[r].state \in {"reserved", "confirmed"}
Message(t, c) == [type |-> t, cmd |-> c]
NoCall == [cmd |-> "none", answer |-> "none"]
NoQuery == [cmd |-> "none", qty |-> 0]

Init ==
  /\ status = [o \in Places |-> "absent"]
  /\ known = [o \in Places |-> FALSE]
  /\ qty = InitQty
  /\ filled = [o \in Places |-> 0]
  /\ quota = [r \in Reservations |-> [state |-> "none", qty |-> 0]]
  /\ ledger = <<>> /\ acked = {}
  /\ outcome = [c \in Cmds |-> "none"] /\ via = [c \in Cmds |-> "none"]
  /\ pc = [c \in Cmds |-> "idle"] /\ fut = [c \in Cmds |-> "none"]
  /\ lock = "none" /\ loop = "none"
  /\ chan = "down" /\ applied = FALSE /\ query = NoQuery
  /\ down = <<>> /\ up = <<>>
  /\ sess = FALSE /\ latched = FALSE /\ exec = NoCall
  /\ agentLedger = [c \in Cmds |-> "none"] /\ outbox = {}
  /\ placed = [o \in Places |-> 0]
  /\ bQty = InitQty /\ bFilled = [o \in Places |-> 0]
  /\ bEnd = [o \in Places |-> "open"]
  /\ attempts = [c \in Cmds |-> 0] /\ taken = {}
  /\ expired = {} /\ lost = {} /\ misled = {} /\ late = {}
  /\ sessions = 0 /\ restarts = 0 /\ crashes = 0

-----------------------------------------------------------------------------
(* Conditional updates of the database, as the code's CAS statements.      *)

QuotaQty == [r \in Reservations |-> quota[r].qty]
Used == SumOver(QuotaQty, {r \in Reservations : Active(r)})

Confirm(r) == [quota EXCEPT ![r].state = IF @ = "reserved" THEN "confirmed" ELSE @]
Release(r) == [quota EXCEPT ![r].state = IF @ = "reserved" THEN "released" ELSE @]
Reserve(r, n) == [quota EXCEPT ![r] = [state |-> "reserved", qty |-> n]]

MarkOrder(o, s) == status' = [status EXCEPT ![o] = Mark(@, s)]

Resolve(c, out, how) ==
  /\ outcome' = [outcome EXCEPT ![c] = out]
  /\ via' = [via EXCEPT ![c] = how]

(* apply_place_ack: set_order_ack overwrites the status.                   *)
ApplyPlaceAck(o) ==
  /\ status' = [status EXCEPT ![o] = "submitted"]
  /\ known' = [known EXCEPT ![o] = TRUE]
  /\ quota' = Confirm(PlaceRes(o))
  /\ UNCHANGED qty

(* apply_update_ack *)
ApplyUpdateAck(u) ==
  /\ qty' = [qty EXCEPT ![OrderOf[u]] = NewQty[u]]
  /\ MarkOrder(OrderOf[u], "submitted")
  /\ quota' = Confirm(UpdateRes(u))
  /\ UNCHANGED known

ApplyCancelAck(c) ==
  /\ MarkOrder(OrderOf[c], "cancelled")
  /\ UNCHANGED <<known, qty, quota>>

ApplyOkEffect(c) ==
  \/ c \in Places /\ ApplyPlaceAck(c)
  \/ c \in Updates /\ ApplyUpdateAck(c)
  \/ c \in Cancels /\ ApplyCancelAck(c)

(* An explicit reject, or a local refusal: a place fails and gives its     *)
(* quota back, an update only gives its delta back.                        *)
ApplyRefusal(c) ==
  \/ /\ c \in Places
     /\ MarkOrder(c, "failed")
     /\ quota' = Release(PlaceRes(c))
     /\ UNCHANGED <<known, qty>>
  \/ /\ c \in Updates
     /\ quota' = Release(UpdateRes(c))
     /\ UNCHANGED <<status, known, qty>>
  \/ c \in Cancels /\ UNCHANGED <<status, known, qty, quota>>

-----------------------------------------------------------------------------
(* Requests: the place, cancel and update coroutines of the adapter.       *)

LoopFree == loop = "none"
LockFree == lock = "none" /\ \A c \in Cmds : pc[c] # "waiting"

Downlink(m) == down' = IF sess THEN Append(down, m) ELSE down

(* channel.request: the future is registered, the command goes out, and    *)
(* the coroutine awaits the answer holding the supervisor lock.            *)
Send(c) ==
  /\ pc' = [pc EXCEPT ![c] = "sent"]
  /\ fut' = [fut EXCEPT ![c] = "pending"]
  /\ lock' = c
  /\ Downlink(Message("cmd", c))

(* The committed command goes out at once when nobody holds or awaits the  *)
(* supervisor lock (no await in between), and queues for it otherwise.     *)
SendOrWait(c) ==
  /\ ledger' = Append(ledger, c)
  /\ \/ LockFree /\ Send(c)
     \/ ~LockFree /\ pc' = [pc EXCEPT ![c] = "waiting"] /\ UNCHANGED <<fut, lock, down>>

(* place, up to RiskGuard.check_place's own commit.                        *)
CheckPlace(o) ==
  /\ LoopFree /\ pc[o] = "idle" /\ chan = "ok"
  /\ Used + InitQty[o] <= DailyLimit
  /\ status' = [status EXCEPT ![o] = "pending"]
  /\ quota' = Reserve(PlaceRes(o), InitQty[o])
  /\ pc' = [pc EXCEPT ![o] = "checked"]
  /\ loop' = o
  /\ UNCHANGED <<known, qty, filled, ledger, acked, outcome, via, fut, lock>>
  /\ UNCHANGED <<chanVars, wireVars, agentVars, brokerVars, envVars>>

(* update, up to RiskGuard.check_update's commit: only an increase takes   *)
(* quota, an active reservation of the same content is taken as it is, a   *)
(* released one refuses.                                                   *)
CheckUpdate(u) ==
  /\ LoopFree /\ pc[u] = "idle" /\ chan = "ok"
  /\ known[OrderOf[u]]
  /\ LET r     == UpdateRes(u)
         delta == NewQty[u] - qty[OrderOf[u]]
     IN  \/ /\ delta > 0 /\ quota[r].state = "none" /\ Used + delta <= DailyLimit
            /\ quota' = Reserve(r, delta)
         \/ (delta <= 0 \/ Active(r)) /\ UNCHANGED quota
  /\ pc' = [pc EXCEPT ![u] = "checked"]
  /\ loop' = u
  /\ UNCHANGED <<status, known, qty, filled, ledger, acked, outcome, via, fut, lock>>
  /\ UNCHANGED <<chanVars, wireVars, agentVars, brokerVars, envVars>>

(* The second transaction of place: the command row.                       *)
InsertPlace(o) ==
  /\ loop = o /\ o \in Places
  /\ loop' = "none"
  /\ SendOrWait(o)
  /\ UNCHANGED <<status, known, qty, filled, quota, acked, outcome, via, up>>
  /\ UNCHANGED <<chanVars, agentVars, brokerVars, envVars>>

UnresolvedUpdates(o) == {u \in Updates : OrderOf[u] = o /\ Unresolved(u)}

(* Mutant: the loser gives the winner's reservation back.                  *)
GiveWinnersBack(u, w) == Release(UpdateRes(w))
GiveBack(u, w) == IF UpdateRes(w) = UpdateRes(u) THEN quota ELSE Release(UpdateRes(u))

(* The second transaction of update.  The partial unique index admits one  *)
(* unresolved update per order; the loser gives its reservation back       *)
(* unless it is the winner's too.                                          *)
InsertUpdate(u) ==
  /\ loop = u /\ u \in Updates
  /\ loop' = "none"
  /\ \/ /\ UnresolvedUpdates(OrderOf[u]) = {}
        /\ SendOrWait(u)
        /\ UNCHANGED quota
     \/ \E w \in UnresolvedUpdates(OrderOf[u]) :
           /\ quota' = GiveBack(u, w)
           /\ pc' = [pc EXCEPT ![u] = "done"]
           /\ UNCHANGED <<ledger, fut, lock, down>>
  /\ UNCHANGED <<status, known, qty, filled, acked, outcome, via, up>>
  /\ UNCHANGED <<chanVars, agentVars, brokerVars, envVars>>

(* cancel takes no quota and checks no kill switch.                        *)
SubmitCancel(c) ==
  /\ LoopFree /\ pc[c] = "idle" /\ chan = "ok"
  /\ known[OrderOf[c]]
  /\ SendOrWait(c)
  /\ UNCHANGED <<status, known, qty, filled, quota, acked, outcome, via, loop, up>>
  /\ UNCHANGED <<chanVars, agentVars, brokerVars, envVars>>

(* A waiter gets the supervisor lock and its send gate lets it through.    *)
(* The gate does not look at the row, which a replay may have had answered *)
(* and closed in the meantime.                                             *)
Dispatch(c) ==
  /\ LoopFree /\ lock = "none" /\ pc[c] = "waiting" /\ chan = "ok"
  /\ Send(c)
  /\ late' = late \cup {d \in {c} : outcome[d] = "error"}
  /\ UNCHANGED <<dbVars, loop, up, chanVars, agentVars, brokerVars>>
  /\ UNCHANGED <<expired, lost, misled, sessions, restarts, crashes>>

(* resolve_never_dispatched *)
CloseLocally(c) ==
  IF Resolved(c) THEN UNCHANGED <<outcome, via>> ELSE Resolve(c, "error", "local")

(* ... or refuses a place or an update (agent not admissible, or kill      *)
(* switch): it fails locally and its row is closed, whether or not a      *)
(* replay has sent it meanwhile.                                           *)
GateRefuses(c) ==
  /\ LoopFree /\ lock = "none" /\ pc[c] = "waiting" /\ c \notin Cancels
  /\ chan # "ok" \/ CanBlock
  /\ ApplyRefusal(c)
  /\ CloseLocally(c)
  /\ pc' = [pc EXCEPT ![c] = "done"]
  /\ UNCHANGED <<filled, ledger, acked, fut, lock, loop>>
  /\ UNCHANGED <<chanVars, wireVars, agentVars, brokerVars, envVars>>

(* A cancel that finds the agent gone raises and leaves its row open.      *)
CancelRefused(c) ==
  /\ LoopFree /\ lock = "none" /\ pc[c] = "waiting" /\ c \in Cancels
  /\ chan # "ok"
  /\ pc' = [pc EXCEPT ![c] = "done"]
  /\ UNCHANGED <<dbVars, fut, lock, loop, chanVars, wireVars, agentVars, brokerVars, envVars>>

(* wait_for runs out, or the send raised: AgentCommandTimeoutError.        *)
RequestTimeout(c) ==
  /\ LoopFree /\ fut[c] = "pending"
  /\ fut' = [fut EXCEPT ![c] = "timeout"]
  /\ UNCHANGED <<dbVars, pc, lock, loop, chanVars, wireVars, agentVars, brokerVars, envVars>>

(* mark_timeout_observed: a place that timed out becomes unknown, unless   *)
(* an acknowledgement has been committed; its quota stays reserved.        *)
ApplyTimeout(c) ==
  /\ IF c \in Places /\ c \notin acked THEN MarkOrder(c, "unknown") ELSE UNCHANGED status
  /\ UNCHANGED <<known, qty, quota>>

(* The coroutine resumes with its answer, releases the lock and writes     *)
(* back: the effects again after ok, the timeout, and nothing after an     *)
(* explicit reject, which the applier has written.                         *)
RequestReturns(c) ==
  /\ LoopFree /\ pc[c] = "sent" /\ fut[c] \notin {"none", "pending"}
  /\ pc' = [pc EXCEPT ![c] = "done"]
  /\ fut' = [fut EXCEPT ![c] = "none"]
  /\ lock' = "none"
  /\ \/ fut[c] = "ok" /\ ApplyOkEffect(c)
     \/ fut[c] = "timeout" /\ ApplyTimeout(c)
     \/ fut[c] \in ExplicitReject /\ UNCHANGED <<status, known, qty, quota>>
  /\ UNCHANGED <<filled, ledger, acked, outcome, via, loop>>
  /\ UNCHANGED <<chanVars, wireVars, agentVars, brokerVars, envVars>>

-----------------------------------------------------------------------------
(* The server's end of the WebSocket.                                      *)

(* Mutant: a detach answers with a kind no caller knows.                   *)
PendingDetached == [c \in Cmds |-> IF fut[c] = "pending" THEN "detached" ELSE fut[c]]
PendingTimedOut == [c \in Cmds |-> IF fut[c] = "pending" THEN "timeout" ELSE fut[c]]

(* Mutant: a login replays nothing.                                        *)
NoReplay == {<<>>}

(* prepare_replay: the rows neither acked nor resolved, oldest first.      *)
ReplayRows ==
  LET open == {c \in InLedger : c \notin acked /\ ~Resolved(c)}
      Older(c, d) == \E i, j \in 1..Len(ledger) : i < j /\ ledger[i] = c /\ ledger[j] = d
  IN  {rows \in [1..Cardinality(open) -> open] :
         \A i, j \in 1..Cardinality(open) : i < j => Older(rows[i], rows[j])}

(* UpLogin, under inbox_lock: mark_logged_in, then the replay.  The lock   *)
(* and the busy receive loop keep health and acknowledgements out of it.   *)
Login ==
  /\ LoopFree /\ chan = "open"
  /\ chan' = "in"
  /\ \E rows \in ReplayRows :
       down' = IF sess THEN down \o [i \in DOMAIN rows |-> Message("cmd", rows[i])] ELSE down
  /\ UNCHANGED <<dbVars, reqVars, applied, query, up, agentVars, brokerVars, envVars>>

(* UpHealth, and the health lease: admission comes and goes.  The health   *)
(* protocol itself is a component of its own.                              *)
HealthChanges ==
  /\ LoopFree /\ chan \in {"in", "ok"}
  /\ chan' = IF chan = "in" THEN "ok" ELSE "in"
  /\ UNCHANGED <<dbVars, reqVars, applied, query, wireVars, agentVars, brokerVars, envVars>>

(* The handler's finally: detach fails every pending future.               *)
Detach ==
  /\ LoopFree /\ chan # "down"
  /\ chan' = "down" /\ applied' = FALSE
  /\ fut' = PendingTimedOut
  /\ up' = <<>>
  /\ UNCHANGED <<dbVars, pc, lock, loop, query, down, agentVars, brokerVars, envVars>>

(* Mutant: whatever is not a refusal is taken for success.                 *)
NotRefused(a) == a \notin ExplicitReject
Succeeded(a) == a = "ok"

(* apply_command_ack, in a thread, one transaction: the first answer to a  *)
(* command is the only one applied, and only if nothing has resolved it.   *)
ApplyAck ==
  /\ chan \in {"in", "ok"} /\ up # <<>> /\ ~applied
  /\ applied' = TRUE
  /\ LET c == Head(up).cmd
         a == Head(up).answer
     IN  /\ acked' = acked \cup {c}
         /\ \/ /\ AnsweredBefore(c)
               /\ UNCHANGED <<status, known, qty, quota, outcome, via>>
            \/ /\ ~AnsweredBefore(c)
               /\ \/ Succeeded(a) /\ Resolve(c, "ok", "ack") /\ ApplyOkEffect(c)
                  \/ a \in ExplicitReject /\ Resolve(c, "error", "ack") /\ ApplyRefusal(c)
                  \/ /\ a \notin ExplicitReject /\ ~Succeeded(a)
                     /\ outcome' = [outcome EXCEPT ![c] = "unknown"]
                     /\ IF c \in Places THEN MarkOrder(c, "unknown") ELSE UNCHANGED status
                     /\ UNCHANGED <<via, known, qty, quota>>
  /\ UNCHANGED <<filled, ledger, reqVars, chan, query, wireVars, agentVars, brokerVars, envVars>>

(* Back in the loop: the row is acknowledged to the agent, and the future, *)
(* if the coroutine still waits for it, gets its answer.                   *)
AckHandled ==
  /\ LoopFree /\ applied
  /\ applied' = FALSE
  /\ up' = Tail(up)
  /\ LET m == Head(up)
     IN  /\ IF m.type = "row" THEN Downlink(Message("ack", m.cmd)) ELSE UNCHANGED down
         /\ fut' = [fut EXCEPT ![m.cmd] = IF @ = "pending" THEN m.answer ELSE @]
  /\ UNCHANGED <<dbVars, pc, lock, loop, chan, query, agentVars, brokerVars, envVars>>

-----------------------------------------------------------------------------
(* The agent.                                                              *)

(* run_once connects: the server detaches what it still holds, attaches    *)
(* the new socket, and UpLogin is the first message on it.                 *)
Connect ==
  /\ LoopFree /\ ~sess /\ sessions < MaxSessions
  /\ sess' = TRUE /\ sessions' = sessions + 1
  /\ chan' = "open" /\ applied' = FALSE
  /\ fut' = PendingTimedOut
  /\ down' = <<>> /\ up' = <<>>
  /\ UNCHANGED <<dbVars, pc, lock, loop, query, latched, exec, agentLedger, outbox>>
  /\ UNCHANGED <<brokerVars, expired, lost, misled, late, restarts, crashes>>

(* The session ends under the receive loop: run_once cancels its tasks.  A *)
(* native call in progress goes on in its thread, but the task that would  *)
(* have recorded its answer is gone.                                       *)
EndSession ==
  /\ sess' = FALSE
  /\ down' = <<>>
  /\ exec' = NoCall
  /\ lost' = lost \cup ({exec.cmd} \ {"none"})

SessionEnds ==
  /\ sess
  /\ EndSession
  /\ UNCHANGED <<dbVars, reqVars, chanVars, up, latched, agentLedger, outbox>>
  /\ UNCHANGED <<brokerVars, expired, misled, late, sessions, restarts, crashes>>

(* The agent process dies and comes back; the start-up probe clears the    *)
(* latch.  What the WebSocket has sent may still arrive.                   *)
AgentRestarts ==
  /\ restarts < MaxRestarts
  /\ restarts' = restarts + 1
  /\ EndSession
  /\ latched' = FALSE
  /\ UNCHANGED <<dbVars, reqVars, chanVars, up, agentLedger, outbox>>
  /\ UNCHANGED <<brokerVars, expired, misled, late, sessions, crashes>>

Latch ==
  /\ CanLatch /\ ~latched
  /\ latched' = TRUE
  /\ UNCHANGED <<dbVars, reqVars, chanVars, wireVars, sess, exec, agentLedger, outbox>>
  /\ UNCHANGED <<brokerVars, envVars>>

Uplink(t, c, a) ==
  up' = IF chan # "down" THEN Append(up, [type |-> t, cmd |-> c, answer |-> a]) ELSE up

(* Mutant: the agent's ledger is not consulted.                            *)
NeverRecorded(c) == FALSE
Recorded(c) == agentLedger[c] # "none"

Receiving(t) == sess /\ exec = NoCall /\ down # <<>> /\ Head(down).type = t

(* DownReportAck: mark_sent. *)
RowAcked ==
  /\ Receiving("ack")
  /\ down' = Tail(down)
  /\ outbox' = outbox \ {Head(down).cmd}
  /\ UNCHANGED <<dbVars, reqVars, chanVars, up, sess, latched, exec, agentLedger>>
  /\ UNCHANGED <<brokerVars, envVars>>

(* A command the ledger knows is not executed again: its row is re-queued. *)
AlreadyExecuted ==
  /\ Receiving("cmd")
  /\ LET c == Head(down).cmd
     IN  /\ Recorded(c)
         /\ outbox' = outbox \cup {c}
  /\ down' = Tail(down)
  /\ UNCHANGED <<dbVars, reqVars, chanVars, up, sess, latched, exec, agentLedger>>
  /\ UNCHANGED <<brokerVars, envVars>>

(* A latched agent, or an expired command: a direct answer, not recorded.  *)
RejectUnexecuted ==
  /\ Receiving("cmd")
  /\ LET c == Head(down).cmd
     IN  /\ ~Recorded(c)
         /\ \/ latched /\ Uplink("direct", c, "failstop")
            \/ ~latched /\ c \in expired /\ Uplink("direct", c, "expired")
  /\ down' = Tail(down)
  /\ UNCHANGED <<dbVars, reqVars, chanVars, agentVars, brokerVars, envVars>>

(* What the broker has done with the command when the native call answers. *)
Live(o) == placed[o] > 0 /\ bEnd[o] = "open" /\ bFilled[o] < bQty[o]

MayBeTaken == {"ok", "timeout", "exception"}

BrokerTakes(c) ==
  \/ c \in Places /\ placed' = [placed EXCEPT ![c] = @ + 1] /\ UNCHANGED <<bQty, bEnd>>
  \/ /\ c \in Updates /\ Live(OrderOf[c]) /\ NewQty[c] > bFilled[OrderOf[c]]
     /\ bQty' = [bQty EXCEPT ![OrderOf[c]] = NewQty[c]]
     /\ UNCHANGED <<placed, bEnd>>
  \/ /\ c \in Cancels /\ Live(OrderOf[c])
     /\ bEnd' = [bEnd EXCEPT ![OrderOf[c]] = "cancelled"]
     /\ UNCHANGED <<placed, bQty>>

(* child.request: the broker takes the command and the call returns ok;    *)
(* it does not, and the call answers with an error; or nobody can tell: a  *)
(* call that times out may have been taken, and so may one that raised,    *)
(* since every exception of the SDK is answered as "exception".            *)
Execute ==
  /\ Receiving("cmd")
  /\ LET c == Head(down).cmd
     IN  /\ ~Recorded(c) /\ ~latched /\ c \notin expired
         /\ attempts' = [attempts EXCEPT ![c] = @ + 1]
         /\ \E a \in {"ok", "timeout"} \cup NativeErrors :
               /\ exec' = [cmd |-> c, answer |-> a]
               /\ \/ a \in MayBeTaken /\ BrokerTakes(c) /\ taken' = taken \cup {c}
                  \/ a # "ok" /\ UNCHANGED <<placed, bQty, bEnd, taken>>
  /\ down' = Tail(down)
  /\ UNCHANGED <<dbVars, reqVars, chanVars, up, sess, latched, agentLedger, outbox>>
  /\ UNCHANGED <<bFilled, envVars>>

(* record_execution: ledger row and acknowledgement in one transaction.    *)
Record ==
  /\ sess /\ exec # NoCall
  /\ agentLedger' = [agentLedger EXCEPT ![exec.cmd] = exec.answer]
  /\ outbox' = outbox \cup {exec.cmd}
  /\ exec' = NoCall
  /\ UNCHANGED <<dbVars, reqVars, chanVars, wireVars, sess, latched, brokerVars, envVars>>

(* _pump: any row not yet acknowledged, again and again.                   *)
Pump(c) ==
  /\ sess /\ c \in outbox /\ Len(up) + Len(down) < MaxWire
  /\ Uplink("row", c, agentLedger[c])
  /\ UNCHANGED <<dbVars, reqVars, chanVars, down, agentVars, brokerVars, envVars>>

-----------------------------------------------------------------------------
(* The broker and the clock.                                               *)

BrokerFills(o) ==
  /\ CanFill /\ Live(o)
  /\ bFilled' = [bFilled EXCEPT ![o] = @ + 1]
  /\ UNCHANGED <<dbVars, reqVars, chanVars, wireVars, agentVars, placed, bQty, bEnd>>
  /\ UNCHANGED <<attempts, taken, envVars>>

BrokerEnds(o) ==
  /\ CanEnd /\ Live(o)
  /\ \E e \in {"cancelled", "failed"} : bEnd' = [bEnd EXCEPT ![o] = e]
  /\ UNCHANGED <<dbVars, reqVars, chanVars, wireVars, agentVars, placed, bQty, bFilled>>
  /\ UNCHANGED <<attempts, taken, envVars>>

Expire(c) ==
  /\ CanExpire /\ c \in InLedger \ expired
  /\ expired' = expired \cup {c}
  /\ UNCHANGED <<dbVars, reqVars, chanVars, wireVars, agentVars, brokerVars>>
  /\ UNCHANGED <<lost, misled, late, sessions, restarts, crashes>>

-----------------------------------------------------------------------------
(* The inbox worker and the watchdog, threads under the supervisor lock.   *)

TakeLock(w) ==
  /\ LoopFree /\ lock = "none" /\ w \in {"worker", "watchdog"}
  /\ lock' = w
  /\ UNCHANGED <<dbVars, pc, fut, loop, chanVars, wireVars, agentVars, brokerVars, envVars>>

ReleaseLock ==
  /\ LoopFree /\ lock \in {"worker", "watchdog"} /\ query = NoQuery
  /\ lock' = "none"
  /\ UNCHANGED <<dbVars, pc, fut, loop, chanVars, wireVars, agentVars, brokerVars, envVars>>

(* A deal is applied once its order can be found by its broker ids; before *)
(* that it waits in quarantine.  One lot at a time, in any order with      *)
(* respect to everything else.                                             *)
ApplyDeal(o) ==
  /\ lock = "worker" /\ known[o] /\ filled[o] < bFilled[o]
  /\ filled' = [filled EXCEPT ![o] = @ + 1]
  /\ status' = [status EXCEPT ![o] = FillStatus(@, filled[o] + 1, qty[o])]
  /\ UNCHANGED <<known, qty, quota, ledger, acked, outcome, via, reqVars, chanVars>>
  /\ UNCHANGED <<wireVars, agentVars, brokerVars, envVars>>

(* Every status the broker has reported of an order so far: a report may   *)
(* be late, repeated or overtaken.                                         *)
Reported(o) ==
  (IF placed[o] > 0 THEN {"sending", "submitted"} ELSE {})
    \cup (IF bFilled[o] > 0 THEN {"partfilled"} ELSE {})
    \cup (IF bFilled[o] >= bQty[o] THEN {"filled"} ELSE {})
    \cup ({bEnd[o]} \ {"open"})

(* The commands a final order closes: every open cancel, and the update    *)
(* whose outcome is unknown; its delta is confirmed, never released.       *)
ClosedBy(o) ==
  {c \in Cancels \cup Updates :
     OrderOf[c] = o /\ Unresolved(c) /\ (c \in Updates => outcome[c] = "unknown")}

CloseAll(C) ==
  /\ outcome' = [c \in Cmds |-> IF c \in C THEN "unknown" ELSE outcome[c]]
  /\ via' = [c \in Cmds |-> IF c \in C THEN "report" ELSE via[c]]
  /\ quota' = [r \in Reservations |->
                 IF \E u \in C \cap Updates : r = UpdateRes(u) THEN Confirm(r)[r] ELSE quota[r]]

ApplyReport(o) ==
  /\ lock = "worker" /\ known[o]
  /\ \E s \in Reported(o) :
       /\ MarkOrder(o, s)
       /\ CloseAll(IF Mark(status[o], s) \in FinalStatuses THEN ClosedBy(o) ELSE {})
  /\ UNCHANGED <<known, qty, filled, ledger, acked, reqVars, chanVars>>
  /\ UNCHANGED <<wireVars, agentVars, brokerVars, envVars>>

(* The watchdog closes the same commands from the order's status.          *)
WatchdogCloses(c) ==
  /\ lock = "watchdog" /\ query = NoQuery
  /\ c \in ClosedBy(Order(c)) /\ status[Order(c)] \in FinalStatuses
  /\ CloseAll({c})
  /\ UNCHANGED <<status, known, qty, filled, ledger, acked, reqVars, chanVars>>
  /\ UNCHANGED <<wireVars, agentVars, brokerVars, envVars>>

(* The sizes the order has had at the broker.                              *)
Sizes(o) == {InitQty[o]} \cup {NewQty[u] : u \in {v \in Updates \cap taken : OrderOf[v] = o}}

(* query_qty for an update of unknown outcome: the agent answers, after    *)
(* all the commands already sent to it, what list_trades says of the order *)
(* (nothing at all, 0 here, if the order is not listed).  list_trades is   *)
(* the SDK's own list, not refreshed for the query: the size may be one    *)
(* the order had before.                                                   *)
QueryAnswered(u) ==
  /\ lock = "watchdog" /\ query = NoQuery /\ chan \in {"in", "ok"}
  /\ u \in Updates /\ u \in ClosedBy(OrderOf[u])
  /\ status[OrderOf[u]] \notin FinalStatuses
  /\ sess /\ exec = NoCall /\ down = <<>>
  /\ \E n \in {0} \cup Sizes(OrderOf[u]) :
        /\ query' = [cmd |-> u, qty |-> n]
        /\ misled' = IF n \in {0, bQty[OrderOf[u]]} THEN misled ELSE misled \cup {u}
  /\ UNCHANGED <<dbVars, reqVars, chan, applied, wireVars, agentVars, brokerVars>>
  /\ UNCHANGED <<expired, lost, late, sessions, restarts, crashes>>

(* Mutant: any size but the target means not applied.                      *)
NotAtTarget(u, n) == n # NewQty[u]

(* The broker's size says that the update was not applied.                 *)
NotApplied(u, n) == n = qty[OrderOf[u]]

(* resolve_update_via_query_qty, with whatever has happened since.         *)
QueryResolves ==
  /\ lock = "watchdog" /\ query # NoQuery
  /\ query' = NoQuery
  /\ LET u == query.cmd
         o == OrderOf[u]
         determinable == NewQty[u] # qty[o]
     IN  \/ Resolved(u) /\ UNCHANGED <<status, known, qty, quota, outcome, via>>
         \/ /\ ~Resolved(u) /\ determinable /\ query.qty = NewQty[u]
            /\ Resolve(u, "ok", "query_qty") /\ ApplyUpdateAck(u)
         \/ /\ ~Resolved(u) /\ determinable /\ NotApplied(u, query.qty)
            /\ Resolve(u, "error", "query_qty")
            /\ quota' = Release(UpdateRes(u))
            /\ UNCHANGED <<status, known, qty>>
         \/ /\ ~Resolved(u)
            /\ ~(determinable /\ (query.qty = NewQty[u] \/ NotApplied(u, query.qty)))
            /\ CloseAll(IF status[o] \in FinalStatuses THEN {u} ELSE {})
            /\ UNCHANGED <<status, known, qty>>
  /\ UNCHANGED <<filled, ledger, acked, reqVars, chan, applied, wireVars>>
  /\ UNCHANGED <<agentVars, brokerVars, envVars>>

(* The server process dies: requests, channel and locks are gone, the      *)
(* database stays.                                                         *)
ServerCrashes ==
  /\ crashes < MaxCrashes
  /\ crashes' = crashes + 1
  /\ pc' = [c \in Cmds |-> IF pc[c] = "idle" THEN "idle" ELSE "done"]
  /\ fut' = [c \in Cmds |-> "none"]
  /\ lock' = "none" /\ loop' = "none"
  /\ chan' = "down" /\ applied' = FALSE /\ query' = NoQuery
  /\ up' = <<>>
  /\ UNCHANGED <<dbVars, down, agentVars, brokerVars>>
  /\ UNCHANGED <<expired, lost, misled, late, sessions, restarts>>

-----------------------------------------------------------------------------
RequestNext ==
  \/ \E o \in Places : CheckPlace(o) \/ InsertPlace(o)
  \/ \E u \in Updates : CheckUpdate(u) \/ InsertUpdate(u)
  \/ \E c \in Cancels : SubmitCancel(c) \/ CancelRefused(c)
  \/ \E c \in Cmds : Dispatch(c) \/ GateRefuses(c) \/ RequestTimeout(c) \/ RequestReturns(c)

ChannelNext == Login \/ HealthChanges \/ Detach \/ ApplyAck \/ AckHandled

AgentNext ==
  \/ Connect \/ SessionEnds \/ AgentRestarts \/ Latch
  \/ RowAcked \/ AlreadyExecuted \/ RejectUnexecuted \/ Execute \/ Record
  \/ \E c \in Cmds : Pump(c)

LockNext ==
  \/ TakeLock("worker") \/ TakeLock("watchdog") \/ ReleaseLock
  \/ \E o \in Places : ApplyDeal(o) \/ ApplyReport(o)
  \/ \E c \in Cancels \cup Updates : WatchdogCloses(c)
  \/ \E u \in Updates : QueryAnswered(u)
  \/ QueryResolves

EnvNext ==
  \/ \E o \in Places : BrokerFills(o) \/ BrokerEnds(o)
  \/ \E c \in Cmds : Expire(c)
  \/ ServerCrashes

Next == RequestNext \/ ChannelNext \/ AgentNext \/ LockNext \/ EnvNext

Spec == Init /\ [][Next]_vars

-----------------------------------------------------------------------------
OutcomeValues == {"none", "ok", "error", "unknown"}
ViaValues == {"none", "ack", "local", "report", "query_qty"}
DownOf(S) == [type : {"cmd", "ack"}, cmd : S]
UpOf(S) == [type : {"row", "direct"}, cmd : S, answer : Answers]

DbTypeOK ==
  /\ status \in [Places -> Statuses \cup {"absent"}]
  /\ known \in [Places -> BOOLEAN]
  /\ qty \in [Places -> Nat]
  /\ filled \in [Places -> Nat]
  /\ quota \in [Reservations -> [state : {"none", "reserved", "confirmed", "released"},
                                 qty : Nat]]
  /\ ledger \in Seq(Cmds)
  /\ acked \in SUBSET Cmds
  /\ outcome \in [Cmds -> OutcomeValues]
  /\ via \in [Cmds -> ViaValues]

RequestTypeOK ==
  /\ pc \in [Cmds -> {"idle", "checked", "waiting", "sent", "done"}]
  /\ fut \in [Cmds -> {"none", "pending"} \cup Answers]
  /\ lock \in Cmds \cup {"none", "worker", "watchdog"}
  /\ loop \in Cmds \cup {"none"}

LinkTypeOK ==
  /\ chan \in {"down", "open", "in", "ok"}
  /\ applied \in BOOLEAN
  /\ query \in [cmd : Updates, qty : Nat] \cup {NoQuery}
  /\ down \in Seq(DownOf(Cmds))
  /\ up \in Seq(UpOf(Cmds))
  /\ applied => up # <<>>

AgentTypeOK ==
  /\ sess \in BOOLEAN
  /\ latched \in BOOLEAN
  /\ exec \in [cmd : Cmds, answer : Answers] \cup {NoCall}
  /\ agentLedger \in [Cmds -> Answers \cup {"none"}]
  /\ outbox \in SUBSET {c \in Cmds : agentLedger[c] # "none"}

WorldTypeOK ==
  /\ placed \in [Places -> Nat]
  /\ bQty \in [Places -> Nat]
  /\ bFilled \in [Places -> Nat]
  /\ bEnd \in [Places -> {"open", "cancelled", "failed"}]
  /\ attempts \in [Cmds -> Nat]
  /\ taken \in SUBSET Cmds
  /\ expired \in SUBSET Cmds
  /\ lost \in SUBSET Cmds /\ misled \in SUBSET Updates /\ late \in SUBSET Cmds
  /\ sessions \in Nat /\ restarts \in Nat /\ crashes \in Nat

TypeOK == DbTypeOK /\ RequestTypeOK /\ LinkTypeOK /\ AgentTypeOK /\ WorldTypeOK

(* What is under way has been written to the ledger first; a request that  *)
(* is idle has left no trace; a cancel or an update is only accepted for   *)
(* an order the broker's ids are known of.                                 *)
WrittenFirst ==
  /\ down \in Seq(DownOf(InLedger)) /\ up \in Seq(UpOf(InLedger))
  /\ exec # NoCall => exec.cmd \in InLedger
  /\ outbox \subseteq InLedger
  /\ query # NoQuery => query.cmd \in InLedger
  /\ \A c \in Cmds : pc[c] = "idle" => c \notin InLedger
  /\ \A c \in Cmds : pc[c] \in {"waiting", "sent"} => c \in InLedger
  /\ loop # "none" => pc[loop] # "idle"
  /\ \A c \in Cancels \cup Updates : pc[c] # "idle" => known[OrderOf[c]]

(* An order is known, a request answered, a status final only after an     *)
(* acknowledgement has been committed or the command resolved.             *)
AckedFirst ==
  /\ applied => Head(up).cmd \in acked
  /\ \A c \in Cmds : fut[c] \in {"ok"} \cup ExplicitReject => c \in acked
  /\ \A o \in Places : pc[o] = "idle" => status[o] = "absent"
  /\ \A o \in Places : known[o] => o \in acked
  /\ acked \subseteq InLedger
  /\ \A o \in Places : status[o] \in FinalStatuses => o \in acked \/ Resolved(o)

(* A native call leaves a trace: a recorded answer, a call in progress, or *)
(* an answer that was lost.                                                *)
CallsTraced ==
  /\ \A c \in Cmds : attempts[c] > 0 => agentLedger[c] # "none" \/ exec.cmd = c \/ c \in lost
  /\ exec # NoCall => agentLedger[exec.cmd] = "none"

-----------------------------------------------------------------------------
(* The hazards of the command path.                                        *)

(* A command is executed a second time only if the answer of an earlier    *)
(* execution was lost between the native call and record_execution         *)
(* (agent/runner.py, _execute_mutating_command): no replay, no duplicate   *)
(* on the wire and no late request ever re-executes a recorded command.    *)
ReExecutedOnlyIfLost == \A c \in Cmds : attempts[c] > 1 => c \in lost

(* The server believes that a command succeeded only if the agent has      *)
(* recorded that it did, whatever was replayed, duplicated or answered     *)
(* twice on the way, and the record stays.                                 *)
OkIsRecorded == \A c \in Cmds : via[c] = "ack" /\ outcome[c] = "ok" => agentLedger[c] = "ok"

Held(o) == SumOver(QuotaQty, {r \in ResOfOrder(o) : Active(r)})

(* Two updates of the order to one content have been accepted: they share  *)
(* a reservation.                                                          *)
Sharing(o) ==
  \E u, v \in Updates :
    /\ u # v /\ OrderOf[u] = o /\ UpdateRes(u) = UpdateRes(v)
    /\ pc[u] # "idle" /\ pc[v] # "idle"

(* The broker took the command, and the agent answered that it failed.     *)
Raised(c) == c \in taken /\ agentLedger[c] = "exception"

(* Exposure is never underestimated: whatever size the broker holds or has *)
(* executed of an order is covered by reservations that are not released,  *)
(* whichever of timeout, replay, late answer, report and query settles it. *)
(* The code leaves six ways for it to fail, named here one by one: the     *)
(* answer of a call is lost in the agent; a call raises after the broker   *)
(* took the command, which is taken for a refusal; list_trades is behind   *)
(* the broker when the watchdog asks; a request waiting for the lock sends *)
(* a command that a replay has had refused; a command is closed locally    *)
(* although a replay has sent it; two updates share a reservation.         *)
Excused(o) ==
  \/ \E c \in Cmds : Order(c) = o /\ (c \in lost \cup misled \cup late \/ Raised(c)
                                         \/ via[c] = "local")
  \/ Sharing(o)

QuotaHeld ==
  \A o \in Places : placed[o] > 0 /\ bEnd[o] # "failed" /\ ~Excused(o) => Held(o) >= bQty[o]

(* Nothing more is decided about a command: its row is resolved, or it has *)
(* lost the race for the single-flight index and got no row.               *)
Settled(c) == Resolved(c) \/ (pc[c] = "done" /\ c \notin InLedger)

(* A command whose fate is still open keeps its quota: a reservation is    *)
(* given back only when a command that holds it is settled, and only       *)
(* updates of one order to one content hold a reservation together.        *)
OpenKeepsOwnQuota ==
  \A c \in Places \cup Updates :
    Unresolved(c) /\ quota[ResOf(c)].state = "released" =>
      \E d \in Updates \ {c} : ResOf(d) = ResOf(c) /\ Settled(d)

(* An order whose status is final is moved out of it by nothing but the    *)
(* write-back of its own place request (set_order_ack overwrites): not by  *)
(* a replayed acknowledgement, a late report, a fill, a cancel or a query. *)
FinalLeftOnlyByPlace ==
  [][\A o \in Places : status[o] \in FinalStatuses /\ status'[o] # status[o] =>
       pc[o] = "sent" /\ pc'[o] = "done"]_vars

(* The first verdict on a command stands: of the acknowledgement, the      *)
(* local failure, the report and the query, only one takes effect.         *)
ResolvedStays ==
  [][\A c \in Cmds : Resolved(c) => via'[c] = via[c] /\ outcome'[c] = outcome[c]]_vars

(* When query_qty settles an update it settles it as the broker has it     *)
(* then, although other threads, a login and its replay have run since the *)
(* agent answered: the answer does not go stale between the two.  What it  *)
(* cannot repair is a list that was stale when the agent looked it up      *)
(* (native.py lists the trades without update_status).                     *)
QueryRight ==
  [][\A u \in Updates \ misled : ~Resolved(u) /\ via'[u] = "query_qty" =>
       (outcome'[u] = "ok" <=> bQty[OrderOf[u]] = NewQty[u])]_vars

(* The contract of a single command (CommandContract) is implemented: the *)
(* effect is read off the agent's ledger and the call in progress, the     *)
(* verdict off the server's row; a command its request sends after the row *)
(* was closed as failed has no verdict to rely on any more.                *)
Effect(c) ==
  IF agentLedger[c] # "none"
  THEN IF agentLedger[c] = "ok" THEN "ok"
       ELSE IF agentLedger[c] = "timeout" THEN "doubt" ELSE "refused"
  ELSE IF exec.cmd = c THEN "running" ELSE IF c \in lost THEN "lost" ELSE "none"

Verdict(c) ==
  IF via[c] \in {"report", "query_qty", "local"} \/ c \in late THEN "settled"
  ELSE IF outcome[c] = "none" THEN "open" ELSE outcome[c]

Contract == INSTANCE CommandContract
  WITH effect <- [c \in Cmds |-> Effect(c)], verdict <- [c \in Cmds |-> Verdict(c)]

ImplementsContract == Contract!Spec

(* What docs and comments of the repository claim, and the code breaks.    *)

(* agent/buffer.py:293: an execution is always recorded, so that every     *)
(* mutating command converges exactly once.                                *)
ExecutedAtMostOnce == \A c \in Cmds : attempts[c] <= 1

(* broker/agent_commands.py:151: a command resolved as never dispatched    *)
(* has not reached the agent and never will.                               *)
NeverDispatchedNeverExecuted == \A o \in Places : via[o] = "local" => placed[o] = 0

(* docs/superpowers/specs/2026-08-06-local-broker-agent-inc1-design.md:157 *)
(* a reservation is not released while a command that refers to it is      *)
(* unresolved; the single-flight check and the reservation are to be one   *)
(* transaction (:125), and are two in shioaji_adapter.py.                  *)
OpenKeepsQuota ==
  \A c \in Places \cup Updates : Unresolved(c) => quota[ResOf(c)].state # "released"

(* broker/shioaji_adapter.py:865: a cancel refused before it was sent is   *)
(* not picked up and replayed by the reconnection.                         *)
RefusedCancelNotSent ==
  \A c \in Cancels : pc[c] = "done" /\ attempts[c] = 0 =>
    \A i \in 1..Len(down) : down[i] # Message("cmd", c)

-----------------------------------------------------------------------------
(* Liveness.  Weak fairness where the code has a running task or thread    *)
(* (the socket loops, the pump, the timeout of wait_for, a thread holding  *)
(* the lock); strong fairness for a coroutine waiting for the supervisor   *)
(* lock, because asyncio.Lock wakes its waiters in order.  Nothing is      *)
(* assumed of sessions, health, the broker or the clock.                   *)
RequestFairness ==
  /\ \A o \in Places : WF_vars(InsertPlace(o))
  /\ \A u \in Updates : WF_vars(InsertUpdate(u))
  /\ \A c \in Cmds : /\ WF_vars(RequestTimeout(c))
                     /\ WF_vars(RequestReturns(c))
                     /\ SF_vars(Dispatch(c) \/ GateRefuses(c) \/ CancelRefused(c))
  /\ WF_vars(ReleaseLock) /\ WF_vars(QueryResolves)

LinkFairness ==
  /\ WF_vars(Login) /\ WF_vars(ApplyAck) /\ WF_vars(AckHandled)
  /\ WF_vars(RowAcked \/ AlreadyExecuted \/ RejectUnexecuted \/ Execute)
  /\ WF_vars(Record)
  /\ \A c \in Cmds : WF_vars(Pump(c))

FairSpec == Spec /\ RequestFairness /\ LinkFairness

(* Every request comes back to its caller, whatever the agent, the link    *)
(* and the threads sharing the lock do.                                    *)
EveryRequestReturns ==
  \A c \in Cmds : pc[c] \in {"checked", "waiting", "sent"} ~> pc[c] = "done"

(* Once the agent stays connected and admitted, every place and update in  *)
(* the ledger gets an answer.  (A cancel refused while only the health     *)
(* was bad waits for the next login instead.)                              *)
Answered ==
  <>[](sess /\ chan = "ok") =>
    \A c \in Places \cup Updates : [](c \in InLedger => <>(c \in acked \/ Resolved(c)))
=============================================================================
