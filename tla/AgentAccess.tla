----------------------------- MODULE AgentAccess -----------------------------
(***************************************************************************)
(* The sessions of the users' agents at the server: the WebSocket handler  *)
(* agent_ws from the handshake to its finally, the slot of each user       *)
(* (AgentChannel and the adapter's account), the login guard               *)
(* (_check_uplogin) that binds broker accounts to users, and the two ways  *)
(* a user shuts the agent out: AgentConnectionGate and the cooldown.       *)
(* What travels over a session is AgentCommands and AgentFailstop.         *)
(*                                                                         *)
(* The handler awaits a thread for the token, for the gate, and for every  *)
(* database transaction; between two awaits it is alone on the event loop. *)
(* What it does from one await to the next is one step.  inbox_lock is an  *)
(* asyncio.Lock: those who wait for it get it in their order.  The login   *)
(* guard is one transaction in a thread: its INSERT of a binding makes the *)
(* transactions of other users that insert the same account wait.          *)
(*                                                                         *)
(* An agent logs in once per connection, before it sends anything else.    *)
(* Rows of one account and user are one element of a set: only whether     *)
(* there is one matters to the guard.                                      *)
(***************************************************************************)
EXTENDS Integers, Sequences, FiniteSets

CONSTANTS
  Users,       \* ORDER_OWNER_USER_IDS, one slot each
  Accounts,    \* broker accounts
  Conns,       \* WebSocket connections
  UserOf,      \* whose token a connection carries
  None,
  Histories,   \* the Order rows the server may start with: sets of <<account, user>>
  Coolers,     \* bound: the users who start a cooldown
  Blockers,    \* bound: the users who press "disconnect"
  Reporters,   \* bound: the users whose agents report and are reconciled
  MaxCrashes   \* bound: crashes of the server

ASSUME UserOfAssumption == UserOf \in [Conns -> Users]
ASSUME NoneAssumption == None \notin Users \cup Accounts \cup Conns
(* backfill_account_bindings stops the server over an account two users    *)
(* have orders on.                                                         *)
ASSUME HistoriesAssumption ==
  \A H \in Histories :
    H \subseteq Accounts \X Users /\ \A x, y \in H : x[1] = y[1] => x[2] = y[2]
ASSUME BoundsAssumption ==
  MaxCrashes \in Nat /\ Coolers \cup Blockers \cup Reporters \subseteq Users

VARIABLES
  (* the database *)
  bound,     \* AgentAccountBinding: the user of each account
  orders,    \* <<account, user>> with an Order row
  risky,     \* <<account, user>> with an unresolved place or update
  rows,      \* <<account, user, origin>> of unprocessed RawInbox rows
  cooldown,  \* per user: none, window (may still be cancelled), firm
  claim,     \* bindings inserted by a transaction that is not committed yet
  (* the server process *)
  gate,      \* AgentConnectionGate
  conn,      \* the handlers
  slot,      \* the channel of each user
  lock,      \* inbox_lock: its holder, then those who wait
  recon,     \* per user: the reconcile under way
  (* bounds and history, read by no guard of the code *)
  slipped,   \* connections past the gate's check when their user shut them out
  crashes

db == <<bound, orders, risky, rows, cooldown, claim>>
sessions == <<conn, slot, lock, recon>>
vars == <<db, sessions, gate, slipped, crashes>>

-----------------------------------------------------------------------------
(* Handlers and slots.                                                     *)

(* away, authed and passed: the handshake.  open: attached, not logged in. *)
(* queued, claiming, checked, replaying: a login, waiting for the lock,    *)
(* inside the guard's transaction, past its commit, sending the replay.    *)
(* reporting: a report, waiting for the lock or holding it.                *)
LoginPhases == {"queued", "claiming", "checked"}
Holding == LoginPhases \cup {"replaying", "reporting"}
Phases == {"away", "authed", "passed", "open", "in", "gone"} \cup Holding

(* account: of the login; report: the stamp of the report in hand.         *)
Away == [at |-> "away", account |-> None, report |-> None, closing |-> FALSE]

(* current: the connection of the latest generation.  account: that of the *)
(* channel and of the adapter, always set together.                        *)
Offline == [current |-> None, connected |-> FALSE, logged |-> FALSE, healthy |-> FALSE,
            account |-> None]

Current(c) == slot[UserOf[c]].current = c
HasLock(c) == lock[UserOf[c]] # <<>> /\ Head(lock[UserOf[c]]) = c
To(c, phase) == conn' = [conn EXCEPT ![c].at = phase]
Release(c) == lock' = [lock EXCEPT ![UserOf[c]] = Tail(@)]

(* Mutant: whatever connection ends.                                       *)
DetachedByAny(s, c) == [s EXCEPT !.connected = FALSE, !.logged = FALSE, !.healthy = FALSE]
(* AgentChannel.detach: the late clean-up of a replaced connection does    *)
(* nothing.                                                                *)
Detached(s, c) ==
  IF s.current # c THEN s
  ELSE [s EXCEPT !.connected = FALSE, !.logged = FALSE, !.healthy = FALSE]

(* AgentChannel.ready and admission_ready.                                 *)
Ready(u) == slot[u].connected /\ slot[u].logged
Admits(u) == Ready(u) /\ slot[u].healthy

(* A request of a detached channel fails (detach fails its futures).       *)
Unasked(u) == [recon EXCEPT ![u] = IF @ = "asked" THEN "idle" ELSE @]

(* The finally of agent_ws.                                                *)
Leave(c) == LET u == UserOf[c] IN
  /\ To(c, "gone")
  /\ slot' = [slot EXCEPT ![u] = Detached(@, c)]
  /\ recon' = IF Current(c) THEN Unasked(u) ELSE recon
  /\ slipped' = slipped \ {c}

(* Mutant: the cooldown is not looked at.                                  *)
ShutOutByGate(u) == u \in gate
ShutOut(u) == u \in gate \/ cooldown[u] # "none"

-----------------------------------------------------------------------------
(* The guard of a login.                                                   *)

Bindable(u, a) == bound[a] \in {None, u}

OrdersOfOthers(u, a) == \E v \in Users \ {u} : <<a, v>> \in orders
RowsElsewhere(u, a) == \E r \in rows : r[2] = u /\ r[1] # a
RiskyElsewhere(u, a) == \E r \in risky : r[2] = u /\ r[1] # a

(* stage_scoped_raw_inbox: a row of an account that is not the user's goes *)
(* to the dead letters, which count as processed.                          *)
Staged(u, a, origin) == IF bound[a] = u THEN rows \cup {<<a, u, origin>>} ELSE rows

(* backfill_account_bindings.                                              *)
Backfilled(b, H) ==
  [a \in Accounts |-> IF b[a] = None /\ \E u \in Users : <<a, u>> \in H
                      THEN CHOOSE u \in Users : <<a, u>> \in H ELSE b[a]]

Init ==
  /\ orders \in Histories
  /\ bound = Backfilled([a \in Accounts |-> None], orders)
  /\ risky = {} /\ rows = {}
  /\ cooldown = [u \in Users |-> "none"]
  /\ claim = [a \in Accounts |-> None]
  /\ gate = {}
  /\ conn = [c \in Conns |-> Away]
  /\ slot = [u \in Users |-> Offline]
  /\ lock = [u \in Users |-> <<>>]
  /\ recon = [u \in Users |-> "idle"]
  /\ slipped = {} /\ crashes = 0

-----------------------------------------------------------------------------
(* The handshake.                                                          *)

(* _authenticate found the token's user.                                   *)
Authenticate(c) ==
  /\ conn[c].at = "away"
  /\ To(c, "authed")
  /\ UNCHANGED <<db, slot, lock, recon, gate, slipped, crashes>>

(* _connection_blocked, in a thread.                                       *)
CheckGate(c) ==
  /\ conn[c].at = "authed"
  /\ To(c, IF ShutOut(UserOf[c]) THEN "gone" ELSE "passed")
  /\ UNCHANGED <<db, slot, lock, recon, gate, slipped, crashes>>

(* The newest connection replaces the one before.                          *)
Attach(c) == LET u == UserOf[c] IN
  /\ conn[c].at = "passed"
  /\ To(c, "open")
  /\ slot' = [slot EXCEPT ![u] =
                IF @.connected THEN [Offline EXCEPT !.current = c, !.connected = TRUE,
                                                    !.account = slot[u].account]
                ELSE [@ EXCEPT !.current = c, !.connected = TRUE]]
  /\ recon' = IF slot[u].connected THEN Unasked(u) ELSE recon
  /\ UNCHANGED <<db, lock, gate, slipped, crashes>>

-----------------------------------------------------------------------------
(* A login.                                                                *)

(* A message is looked at only while its connection is the newest.         *)
SendLogin(c, a) ==
  /\ conn[c].at = "open" /\ Current(c)
  /\ conn' = [conn EXCEPT ![c].at = "queued", ![c].account = a]
  /\ lock' = [lock EXCEPT ![UserOf[c]] = Append(@, c)]
  /\ UNCHANGED <<db, slot, recon, gate, slipped, crashes>>

(* bind_account: the binding is there, or is inserted, which waits for a   *)
(* transaction that has inserted the account.                              *)
LoginBind(c) == LET u == UserOf[c]  a == conn[c].account IN
  /\ conn[c].at = "queued" /\ HasLock(c)
  /\ Bindable(u, a)
  /\ bound[a] = u \/ claim[a] = None
  /\ claim' = IF bound[a] = u THEN claim ELSE [claim EXCEPT ![a] = u]
  /\ To(c, "claiming")
  /\ UNCHANGED <<bound, orders, risky, rows, cooldown, slot, lock, recon, gate, slipped, crashes>>

Unclaimed(c) == [a \in Accounts |-> IF a = conn[c].account /\ claim[a] = UserOf[c]
                                    THEN None ELSE claim[a]]

(* The other three checks and the commit.                                  *)
LoginCheck(c) == LET u == UserOf[c]  a == conn[c].account IN
  /\ conn[c].at = "claiming"
  /\ ~OrdersOfOthers(u, a) /\ ~RowsElsewhere(u, a) /\ ~RiskyElsewhere(u, a)
  /\ bound' = [bound EXCEPT ![a] = u]
  /\ claim' = Unclaimed(c)
  /\ To(c, "checked")
  /\ UNCHANGED <<orders, risky, rows, cooldown, slot, lock, recon, gate, slipped, crashes>>

(* Refused, or an exception: rolled back, out of the lock, the finally.    *)
Break(c) == LET u == UserOf[c] IN
  /\ conn[c].at \in Holding \ {"checked"} /\ HasLock(c)
  /\ claim' = IF conn[c].at = "claiming" THEN Unclaimed(c) ELSE claim
  /\ Release(c)
  /\ Leave(c)
  /\ UNCHANGED <<bound, orders, risky, rows, cooldown, gate, crashes>>

(* mark_logged_in and the adapter's account.  Nobody looks again whether   *)
(* the connection is the newest.                                           *)
LoginMark(c) ==
  /\ conn[c].at = "checked"
  /\ slot' = [slot EXCEPT ![UserOf[c]] =
                [@ EXCEPT !.logged = TRUE, !.healthy = FALSE, !.account = conn[c].account]]
  /\ To(c, "replaying")
  /\ UNCHANGED <<db, lock, recon, gate, slipped, crashes>>

(* The replay is sent: AgentCommands.                                      *)
LoginDone(c) ==
  /\ conn[c].at = "replaying" /\ HasLock(c)
  /\ To(c, "in") /\ Release(c)
  /\ UNCHANGED <<db, slot, recon, gate, slipped, crashes>>

-----------------------------------------------------------------------------
(* What a session does.                                                    *)

(* Mutant: a report does not wait for the lock.                            *)
ReportAtOnce(c, a) ==
  /\ UserOf[c] \in Reporters
  /\ conn[c].at = "in" /\ Current(c) /\ slot[UserOf[c]].logged
  /\ conn' = [conn EXCEPT ![c].at = "reporting", ![c].report = a]
  /\ UNCHANGED <<db, slot, lock, recon, gate, slipped, crashes>>
(* A report with the account the agent stamped it with, at any time.       *)
Report(c, a) ==
  /\ UserOf[c] \in Reporters
  /\ conn[c].at = "in" /\ Current(c) /\ slot[UserOf[c]].logged
  /\ conn' = [conn EXCEPT ![c].at = "reporting", ![c].report = a]
  /\ lock' = [lock EXCEPT ![UserOf[c]] = Append(@, c)]
  /\ UNCHANGED <<db, slot, recon, gate, slipped, crashes>>

ReportCommit(c) ==
  /\ conn[c].at = "reporting" /\ HasLock(c)
  /\ rows' = Staged(UserOf[c], conn[c].report, "report")
  /\ conn' = [conn EXCEPT ![c].at = "in", ![c].report = None]
  /\ Release(c)
  /\ UNCHANGED <<bound, orders, risky, cooldown, claim, slot, recon, gate, slipped, crashes>>

(* An accepted UpHealth; health_epoch is AgentFailstop's.                  *)
Health(c, ok) ==
  /\ conn[c].at = "in" /\ Current(c)
  /\ slot' = [slot EXCEPT ![UserOf[c]].healthy = ok]
  /\ UNCHANGED <<db, conn, lock, recon, gate, slipped, crashes>>

(* run_health_lease_watchdog.                                              *)
LeaseExpires(u) ==
  /\ slot[u].healthy
  /\ slot' = [slot EXCEPT ![u].healthy = FALSE]
  /\ UNCHANGED <<db, conn, lock, recon, gate, slipped, crashes>>

(* The connection is lost, was closed, or sees that it was replaced.       *)
End(c) ==
  /\ conn[c].at \in {"open", "in"}
  /\ Leave(c)
  /\ UNCHANGED <<db, lock, gate, crashes>>

(* A handshake is given up.                                                *)
HangUp(c) ==
  /\ conn[c].at \in {"authed", "passed"}
  /\ To(c, "gone")
  /\ slipped' = slipped \ {c}
  /\ UNCHANGED <<db, slot, lock, recon, gate, crashes>>

(* An admitted place or update: its rows carry the adapter's account.      *)
Place(u) ==
  /\ Admits(u)
  /\ orders' = orders \cup {<<slot[u].account, u>>}
  /\ risky' = risky \cup {<<slot[u].account, u>>}
  /\ UNCHANGED <<bound, rows, cooldown, claim, sessions, gate, slipped, crashes>>

(* The last unresolved command is resolved; the last row is processed.     *)
Resolve(x) ==
  /\ risky' = risky \ {x}
  /\ UNCHANGED <<bound, orders, rows, cooldown, claim, sessions, gate, slipped, crashes>>

Process(r) ==
  /\ rows' = rows \ {r}
  /\ UNCHANGED <<bound, orders, risky, cooldown, claim, sessions, gate, slipped, crashes>>

(* _reconcile_inner: the question, the agent's answer, and the rows, with  *)
(* the account the adapter has when they are staged, outside inbox_lock.   *)
ReconcileAsk(u) ==
  /\ u \in Reporters
  /\ recon[u] = "idle" /\ Ready(u)
  /\ recon' = [recon EXCEPT ![u] = "asked"]
  /\ UNCHANGED <<db, conn, slot, lock, gate, slipped, crashes>>

ReconcileAnswer(u) ==
  /\ recon[u] = "asked" /\ slot[u].connected
  /\ recon' = [recon EXCEPT ![u] = "got"]
  /\ UNCHANGED <<db, conn, slot, lock, gate, slipped, crashes>>

ReconcileStage(u) ==
  /\ recon[u] = "got"
  /\ rows' = Staged(u, slot[u].account, "reconcile")
  /\ recon' = [recon EXCEPT ![u] = "idle"]
  /\ UNCHANGED <<bound, orders, risky, cooldown, claim, conn, slot, lock, gate, slipped, crashes>>

-----------------------------------------------------------------------------
(* Shutting the agent out.                                                 *)

(* AgentChannel.force_close: the connection ends, once it has handled the  *)
(* messages it has already received.                                       *)
Closed(u) ==
  IF slot[u].connected THEN [conn EXCEPT ![slot[u].current].closing = TRUE] ELSE conn
Passing(u) == {c \in Conns : UserOf[c] = u /\ conn[c].at = "passed"}

(* create_cooldown looks again whether one is active; the commit and the   *)
(* close are one step of the loop.                                         *)
SetCooldown(u) ==
  /\ u \in Coolers /\ cooldown[u] = "none"
  /\ cooldown' = [cooldown EXCEPT ![u] = "window"]
  /\ conn' = Closed(u)
  /\ slipped' = slipped \cup Passing(u)
  /\ UNCHANGED <<bound, orders, risky, rows, claim, slot, lock, recon, gate, crashes>>

(* _COOLDOWN_REVOKE_WINDOW_MS have passed.                                 *)
WindowCloses(u) ==
  /\ cooldown[u] = "window"
  /\ cooldown' = [cooldown EXCEPT ![u] = "firm"]
  /\ UNCHANGED <<bound, orders, risky, rows, claim, sessions, gate, slipped, crashes>>

(* lift_cooldown_by_owner; until_ts has passed.                            *)
CancelCooldown(u) ==
  /\ cooldown[u] = "window"
  /\ cooldown' = [cooldown EXCEPT ![u] = "none"]
  /\ UNCHANGED <<bound, orders, risky, rows, claim, sessions, gate, slipped, crashes>>

CooldownEnds(u) ==
  /\ cooldown[u] # "none"
  /\ cooldown' = [cooldown EXCEPT ![u] = "none"]
  /\ UNCHANGED <<bound, orders, risky, rows, claim, sessions, gate, slipped, crashes>>

AgentDisconnect(u) ==
  /\ u \in Blockers
  /\ gate' = gate \cup {u}
  /\ conn' = Closed(u)
  /\ slipped' = slipped \cup Passing(u)
  /\ UNCHANGED <<db, slot, lock, recon, crashes>>

AgentReconnect(u) ==
  /\ u \in gate
  /\ gate' = gate \ {u}
  /\ UNCHANGED <<db, sessions, slipped, crashes>>

(* The process dies: the sessions, the gate and open transactions go.      *)
Restart ==
  /\ crashes < MaxCrashes
  /\ crashes' = crashes + 1
  /\ bound' = Backfilled(bound, orders)
  /\ claim' = [a \in Accounts |-> None]
  /\ conn' = [c \in Conns |-> IF conn[c].at = "away" THEN Away
                              ELSE [Away EXCEPT !.at = "gone"]]
  /\ slot' = [u \in Users |-> Offline]
  /\ lock' = [u \in Users |-> <<>>]
  /\ recon' = [u \in Users |-> "idle"]
  /\ gate' = {} /\ slipped' = {}
  /\ UNCHANGED <<orders, risky, rows, cooldown>>

Next ==
  \/ \E c \in Conns : \/ Authenticate(c) \/ CheckGate(c) \/ Attach(c) \/ HangUp(c)
                      \/ LoginBind(c) \/ LoginCheck(c) \/ Break(c) \/ LoginMark(c)
                      \/ LoginDone(c) \/ ReportCommit(c) \/ End(c)
                      \/ \E a \in Accounts : SendLogin(c, a) \/ Report(c, a)
                      \/ \E ok \in BOOLEAN : Health(c, ok)
  \/ \E u \in Users : \/ LeaseExpires(u) \/ Place(u)
                      \/ ReconcileAsk(u) \/ ReconcileAnswer(u) \/ ReconcileStage(u)
                      \/ SetCooldown(u) \/ WindowCloses(u) \/ CancelCooldown(u)
                      \/ CooldownEnds(u) \/ AgentDisconnect(u) \/ AgentReconnect(u)
  \/ \E x \in risky : Resolve(x)
  \/ \E r \in rows : Process(r)
  \/ Restart

Spec == Init /\ [][Next]_vars

-----------------------------------------------------------------------------
(* Properties.                                                             *)

(* Every row, handler, slot and lock keeps its shape.                      *)
TypeOK ==
  /\ bound \in [Accounts -> Users \cup {None}]
  /\ claim \in [Accounts -> Users \cup {None}]
  /\ orders \subseteq Accounts \X Users /\ risky \subseteq Accounts \X Users
  /\ rows \subseteq Accounts \X Users \X {"report", "reconcile"}
  /\ cooldown \in [Users -> {"none", "window", "firm"}]
  /\ gate \subseteq Users /\ slipped \subseteq Conns /\ crashes \in 0..MaxCrashes
  /\ conn \in [Conns -> [at : Phases, account : Accounts \cup {None},
                         report : Accounts \cup {None}, closing : BOOLEAN]]
  /\ slot \in [Users -> [current : Conns \cup {None}, connected : BOOLEAN, logged : BOOLEAN,
                         healthy : BOOLEAN, account : Accounts \cup {None}]]
  /\ lock \in [Users -> Seq(Conns)]
  /\ recon \in [Users -> {"idle", "asked", "got"}]

(* No order, ever, is recorded on an account of two users, and every       *)
(* account with orders is bound to their user: a restart never finds what  *)
(* backfill_account_bindings refuses to start over.                        *)
OneOwner == \A x \in orders : bound[x[1]] = x[2]

(* Orders are admitted only under the account the newest connection logged *)
(* in to, and that account is the user's; a login or a clean-up of a       *)
(* connection it replaced neither logs the newest one in nor out.          *)
SessionIsOwn ==
  \A u \in Users : LET s == slot[u]  c == conn[s.current] IN
    /\ Admits(u) => /\ s.current # None /\ c.at \in {"in", "reporting"} /\ s.account = c.account
                    /\ bound[s.account] = u
    /\ s.current # None /\ c.at \in {"in", "reporting"} => Ready(u) /\ s.account = c.account

(* What must be true of a login to account a when it takes effect.         *)
Clean(u, a) ==
  /\ bound[a] = u /\ \A v \in Users \ {u} : <<a, v>> \notin orders
  /\ \A b \in Accounts \ {a} : <<b, u>> \notin risky /\ <<b, u, "report">> \notin rows
Reporting(u) == {c \in Conns : UserOf[c] = u /\ conn[c].at = "reporting"}

(* When a login takes effect, not only when it was checked: the account is *)
(* the user's alone, the user has no unresolved place or update and no     *)
(* unprocessed report on another account, and no report of a connection    *)
(* this one replaced is still to be committed.                             *)
LoginIsClean ==
  [][\A c \in Conns : (conn[c].at = "checked" /\ conn'[c].at = "replaying") =>
       /\ Clean(UserOf[c], conn[c].account)
       /\ Reporting(UserOf[c]) = {}]_vars

(* While a user's agent is shut out, no connection is left open but one    *)
(* that was past the gate's check when the user shut it out.               *)
ShutOutStays ==
  \A u \in Users : (u \in gate \/ cooldown[u] # "none") /\ slot[u].connected =>
    conn[slot[u].current].closing \/ slot[u].current \in slipped
=============================================================================
