------------------------------ MODULE RiskGuard -----------------------------
(***************************************************************************)
(* Placing, changing and cancelling orders when the broker session lives   *)
(* in the server's own process (order_channel "inprocess"): RiskGuard's    *)
(* checks, the daily quota, the two-phase confirmation of real orders, the *)
(* kill switch and the cooldown, and ShioajiAdapter's place, update and    *)
(* cancel around one native call.  AgentCommands is the other channel,     *)
(* where the native call is a command to the user's agent.                 *)
(*                                                                         *)
(* The check is one database transaction on the event loop; then the call  *)
(* queues for the supervisor lock, looks at the kill switch once more      *)
(* (_send_gate), and runs the native call in a thread that holds the lock. *)
(* Everything else on the loop may happen in between: other checks, the    *)
(* switches, the watchdog when the lock is free.  What the code does from  *)
(* one await to the next is one step; the lock is taken in any order.      *)
(*                                                                         *)
(* A Content is what canonical_payload_hash covers; only its quantity and  *)
(* its octype matter here, one product is tradable.  A request to change   *)
(* an order is the content it merges to.  One trading day.                 *)
(***************************************************************************)
EXTENDS OrderStatus, FiniteSets, Sums

CONSTANTS
  Users,          \* ORDER_OWNER_USER_IDS
  Keys,           \* client_order_id: one per order form
  Contents,       \* records with qty and octype, see ContentsAssumption
  Tokens,         \* confirm tokens (jti)
  Calls,          \* HTTP requests under way
  None,
  Everyone,       \* the global switch
  Mode,           \* real or sim
  MaxQtyPerOrder, \* order_max_qty_per_order
  DailyLimit,     \* order_max_qty_per_day
  MaxOrders,      \* order_max_orders_per_day
  Switches,       \* bound: the kill switches somebody flips
  Coolers,        \* bound: the users who start a cooldown
  CanCancel,      \* bound: does anybody cancel
  CanUnready,     \* bound: may the session be missing at the gate
  MaxCrashes      \* bound: crashes of the server

ASSUME ContentsAssumption ==
  \A m \in Contents : m.qty \in Nat \ {0} /\ m.octype \in {"New", "Cover", "Auto"}
ASSUME FiniteAssumption == IsFiniteSet(Keys) /\ IsFiniteSet(Contents)
ASSUME NoneAssumption ==
  None \notin Users \cup Keys \cup Contents \cup Tokens /\ Everyone \notin Users
ASSUME LimitsAssumption ==
  /\ MaxQtyPerOrder \in Nat /\ DailyLimit \in Nat /\ MaxOrders \in Nat
  /\ MaxCrashes \in Nat /\ CanCancel \in BOOLEAN /\ CanUnready \in BOOLEAN
  /\ Mode \in {"real", "sim"}

VARIABLES
  (* the database *)
  orders,    \* Order rows, by client_order_id
  quota,     \* QuotaReservation rows, by reservation_id
  tokens,    \* ConfirmToken rows
  cooling,   \* users with an active Cooldown
  (* the server process *)
  calls,     \* requests: what they were granted and how far they are
  kill,      \* KillSwitchState: the switches that are on
  (* the broker *)
  taken,     \* quantity of each order at the broker, 0 when it has none
  listed,    \* the sizes an order has had: a list not refreshed shows one of them
  (* bounds and history, read by no guard of the code *)
  crashes,
  sends,     \* native place calls per client_order_id
  claims,    \* times a token was claimed
  disputed,  \* reservations two parties decided about, see ExposureCovered
  misled     \* increases returned although the broker had taken them, ditto

db == <<orders, quota, tokens, cooling>>
history == <<crashes, sends, claims, disputed, misled>>
vars == <<db, calls, kill, taken, listed, history>>

-----------------------------------------------------------------------------
(* Rows.                                                                   *)

Active == {"reserved", "confirmed"}

(* reservation_id: the client_order_id of a place, and together with the   *)
(* content for an update (reservation_id_for_update).                      *)
Reservations == Keys \X (Contents \cup {None})
PlaceRes(c) == <<c, None>>
UpdateRes(c, m) == <<c, m>>

NoOrder == [user |-> None, hash |-> None, qty |-> 0, status |-> "pending", ids |-> FALSE]
NewOrder(u, m) == [user |-> u, hash |-> m, qty |-> m.qty, status |-> "pending", ids |-> FALSE]
(* Mutant: a retry after an unknown outcome starts afresh.                 *)
ExistsUnlessUnknown(c) == orders[c].user # None /\ orders[c].status # "unknown"
Exists(c) == orders[c].user # None

NoCall == [kind |-> "none", user |-> None, key |-> None, what |-> None, token |-> None,
           phase |-> "idle"]
NewCall(kind, u, c, m, t) ==
  [kind |-> kind, user |-> u, key |-> c, what |-> m, token |-> t, phase |-> "waiting"]
ResOf(k) == IF calls[k].kind = "place" THEN PlaceRes(calls[k].key)
            ELSE UpdateRes(calls[k].key, calls[k].what)

LockFree == \A k \in Calls : calls[k].phase # "native"

-----------------------------------------------------------------------------
(* The quota.                                                              *)

ActiveOf(q, u) == {r \in Reservations : q[r].state \in Active /\ orders[r[1]].user = u}
QtyOf(q, R) == SumOver([r \in R |-> q[r].qty], R)

(* Mutant: only what was confirmed counts.                                 *)
ReservableByConfirmed(r, u, qty) ==
  IF quota[r].state = "none"
  THEN QtyOf(quota, {d \in ActiveOf(quota, u) : quota[d].state = "confirmed"}) + qty <= DailyLimit
  ELSE quota[r].state \in Active

(* reserve_quota: an existing reservation is not counted again, and is     *)
(* refused for good once it was released.                                  *)
Reservable(r, u, qty) ==
  IF quota[r].state = "none" THEN QtyOf(quota, ActiveOf(quota, u)) + qty <= DailyLimit
  ELSE quota[r].state \in Active

Reserve(q, r, qty) ==
  IF q[r].state = "none" THEN [q EXCEPT ![r] = [state |-> "reserved", qty |-> qty]] ELSE q

(* Mutant: returned without looking at the state.                          *)
ReleaseAny(q, r) == IF q[r].state # "none" THEN [q EXCEPT ![r].state = "released"] ELSE q

(* confirm_quota and release_quota: out of "reserved" only.                *)
Confirm(q, r) == IF q[r].state = "reserved" THEN [q EXCEPT ![r].state = "confirmed"] ELSE q
Release(q, r) == IF q[r].state = "reserved" THEN [q EXCEPT ![r].state = "released"] ELSE q

-----------------------------------------------------------------------------
(* The checks.                                                             *)

Blocked(u) == kill \cap {Everyone, u} # {}

(* Mutants: a token that was used already, and one for another content.    *)
ClaimableAgain(t, u, m) ==
  t \in Tokens /\ tokens[t].state # "unissued" /\ tokens[t].user = u /\ tokens[t].hash = m
ClaimableForAny(t, u, m) ==
  t \in Tokens /\ tokens[t].state = "live" /\ tokens[t].user = u

(* claim_confirm_token: not consumed, not expired, this actor, this hash.  *)
Claimable(t, u, m) ==
  t \in Tokens /\ tokens[t].state = "live" /\ tokens[t].user = u /\ tokens[t].hash = m

Confirmed(t, u, m) == IF Mode = "real" THEN Claimable(t, u, m) ELSE t = None

Claim(t) ==
  IF t = None THEN UNCHANGED <<tokens, claims>>
  ELSE /\ tokens' = [tokens EXCEPT ![t].state = "spent"]
       /\ claims' = [claims EXCEPT ![t] = @ + 1]

Unused(t) == t \in Tokens /\ tokens[t].state = "unissued"

(* issue_confirm_token.                                                    *)
Issue(t, u, m) ==
  tokens' = [tokens EXCEPT ![t] = [state |-> "live", user |-> u, hash |-> m]]

(* check_place up to the token.                                            *)
PlaceAllowed(u, c, m) ==
  /\ ~Blocked(u)
  /\ m.octype = "Cover" \/ u \notin cooling
  /\ m.qty <= MaxQtyPerOrder
  /\ Cardinality({d \in Keys : orders[d].user = u}) < MaxOrders
  /\ Reservable(PlaceRes(c), u, m.qty)

(* update and check_update up to the token: the order has a number, it is  *)
(* the caller's, and an increase finds quota.                              *)
UpdateAllowed(u, c, m) ==
  /\ orders[c].ids /\ orders[c].user = u
  /\ m.octype = orders[c].hash.octype
  /\ ~Blocked(u)
  /\ m.qty <= MaxQtyPerOrder
  /\ m.qty > orders[c].qty => Reservable(UpdateRes(c, m), u, m.qty - orders[c].qty)

-----------------------------------------------------------------------------
Init ==
  /\ orders = [c \in Keys |-> NoOrder]
  /\ quota = [r \in Reservations |-> [state |-> "none", qty |-> 0]]
  /\ tokens = [t \in Tokens |-> [state |-> "unissued", user |-> None, hash |-> None]]
  /\ cooling = {}
  /\ calls = [k \in Calls |-> NoCall]
  /\ kill = {}
  /\ taken = [c \in Keys |-> 0]
  /\ listed = [c \in Keys |-> {}]
  /\ crashes = 0
  /\ sends = [c \in Keys |-> 0]
  /\ claims = [t \in Tokens |-> 0]
  /\ disputed = {} /\ misled = {}

-----------------------------------------------------------------------------
(* Requests of the browser.                                                *)

(* POST /orders without a valid token: every check passes but the last,    *)
(* the transaction is rolled back, the dialog carries a fresh token.       *)
AskPlace(u, c, m, t) ==
  /\ Mode = "real" /\ Unused(t)
  /\ ~Exists(c) /\ PlaceAllowed(u, c, m)
  /\ Issue(t, u, m)
  /\ UNCHANGED <<orders, quota, cooling, calls, kill, taken, listed, history>>

(* POST /orders: the order, its reservation and the claim are committed    *)
(* together.  A client_order_id that exists is answered from its row (or   *)
(* refused, for another content or user) and changes nothing.              *)
Place(k, u, c, m, t) ==
  /\ calls[k].phase = "idle"
  /\ ~Exists(c) /\ PlaceAllowed(u, c, m) /\ Confirmed(t, u, m)
  /\ orders' = [orders EXCEPT ![c] = NewOrder(u, m)]
  /\ quota' = Reserve(quota, PlaceRes(c), m.qty)
  /\ Claim(t)
  /\ calls' = [calls EXCEPT ![k] = NewCall("place", u, c, m, t)]
  /\ UNCHANGED <<cooling, kill, taken, listed, crashes, sends, disputed, misled>>

AskUpdate(u, c, m, t) ==
  /\ Mode = "real" /\ Unused(t)
  /\ UpdateAllowed(u, c, m)
  /\ Issue(t, u, m)
  /\ UNCHANGED <<orders, quota, cooling, calls, kill, taken, listed, history>>

(* Mutant: a decrease reserves its negative difference.                    *)
UpdateBothWays(k, u, c, m, t) ==
  /\ calls[k].phase = "idle"
  /\ UpdateAllowed(u, c, m) /\ Confirmed(t, u, m)
  /\ quota' = Reserve(quota, UpdateRes(c, m), m.qty - orders[c].qty)
  /\ Claim(t)
  /\ calls' = [calls EXCEPT ![k] = NewCall("update", u, c, m, t)]
  /\ UNCHANGED <<orders, cooling, kill, taken, listed, crashes, sends, disputed, misled>>

(* PUT /orders/{id}: only an increase reserves.  The attempt goes by the   *)
(* reservation id of its content whether it reserved or not.               *)
Update(k, u, c, m, t) ==
  /\ calls[k].phase = "idle"
  /\ UpdateAllowed(u, c, m) /\ Confirmed(t, u, m)
  /\ quota' = IF m.qty > orders[c].qty
              THEN Reserve(quota, UpdateRes(c, m), m.qty - orders[c].qty) ELSE quota
  /\ Claim(t)
  /\ calls' = [calls EXCEPT ![k] = NewCall("update", u, c, m, t)]
  /\ disputed' = IF quota[UpdateRes(c, m)].state = "none" THEN disputed
                 ELSE disputed \cup {UpdateRes(c, m)}
  /\ UNCHANGED <<orders, cooling, kill, taken, listed, crashes, sends, misled>>

(* DELETE /orders/{id}: neither the switches nor the quota are consulted.  *)
Cancel(k, u, c) ==
  /\ CanCancel
  /\ calls[k].phase = "idle"
  /\ orders[c].ids /\ orders[c].user = u
  /\ calls' = [calls EXCEPT ![k] = NewCall("cancel", u, c, None, None)]
  /\ UNCHANGED <<db, kill, taken, listed, history>>

-----------------------------------------------------------------------------
(* Under the supervisor lock.                                              *)

Ends(k) == calls' = [calls EXCEPT ![k] = NoCall]

(* The order is not at the broker for sure: RiskError, a 4xx answer,       *)
(* SessionNotEstablished, TradeNotFoundError.  A failed update leaves the  *)
(* order as it is.                                                         *)
Fails(k) ==
  LET c == calls[k].key IN
  /\ orders' = IF calls[k].kind = "place"
               THEN [orders EXCEPT ![c].status = Mark(@, "failed")] ELSE orders
  /\ quota' = IF calls[k].kind = "cancel" THEN quota ELSE Release(quota, ResOf(k))
  /\ Ends(k)
  /\ UNCHANGED <<tokens, cooling, kill, crashes, sends, claims, disputed, misled>>

(* Mutant: what is not known to be taken is returned.                      *)
UnknownIsReturned(k) ==
  LET c == calls[k].key IN
  /\ orders' = IF calls[k].kind = "cancel" THEN orders
               ELSE [orders EXCEPT ![c].status = Mark(@, "unknown")]
  /\ quota' = IF calls[k].kind = "cancel" THEN quota ELSE Release(quota, ResOf(k))
  /\ Ends(k)
  /\ UNCHANGED <<tokens, cooling, kill, crashes, sends, claims, disputed, misled>>

(* Any other exception: the outcome is unknown and the quota stays.        *)
IsUnknown(k) ==
  LET c == calls[k].key IN
  /\ orders' = IF calls[k].kind = "cancel" THEN orders
               ELSE [orders EXCEPT ![c].status = Mark(@, "unknown")]
  /\ Ends(k)
  /\ UNCHANGED <<quota, tokens, cooling, kill, crashes, sends, claims, disputed, misled>>

AtGate(k) == calls[k].phase = "waiting" /\ LockFree

(* _send_gate refuses: the kill switch went on since the check.            *)
GateBlocks(k) ==
  /\ AtGate(k) /\ calls[k].kind # "cancel" /\ Blocked(calls[k].user)
  /\ Fails(k) /\ UNCHANGED <<taken, listed>>

(* The session is gone (_api is None): an OrderError that no pattern of    *)
(* _classify_place_failure recognises.                                     *)
GateUnready(k) ==
  /\ CanUnready /\ AtGate(k)
  /\ IsUnknown(k) /\ UNCHANGED <<taken, listed>>

(* Mutant: the switch was looked at in the check, that is enough.          *)
SendUnchecked(k) ==
  /\ AtGate(k)
  /\ calls' = [calls EXCEPT ![k].phase = "native"]
  /\ sends' = IF calls[k].kind = "place" THEN [sends EXCEPT ![calls[k].key] = @ + 1]
              ELSE sends
  /\ UNCHANGED <<db, kill, taken, listed, crashes, claims, disputed, misled>>

Send(k) ==
  /\ AtGate(k)
  /\ calls[k].kind # "cancel" => ~Blocked(calls[k].user)
  /\ calls' = [calls EXCEPT ![k].phase = "native"]
  /\ sends' = IF calls[k].kind = "place" THEN [sends EXCEPT ![calls[k].key] = @ + 1]
              ELSE sends
  /\ UNCHANGED <<db, kill, taken, listed, crashes, claims, disputed, misled>>

(* What the broker does when it takes the call.                            *)
Effect(k) ==
  LET c == calls[k].key IN
  IF calls[k].kind = "cancel" THEN taken' = [taken EXCEPT ![c] = 0] /\ UNCHANGED listed
  ELSE /\ taken' = [taken EXCEPT ![c] = calls[k].what.qty]
       /\ listed' = [listed EXCEPT ![c] = @ \cup {calls[k].what.qty}]

(* An update or a cancel is carried out on an order the broker still has.  *)
Feasible(k) == calls[k].kind = "place" \/ taken[calls[k].key] > 0

(* apply_place_ack, apply_update_ack, apply_cancel_ack on the order's row. *)
Acked(k, o) ==
  CASE calls[k].kind = "place"  -> [o EXCEPT !.status = "submitted", !.ids = TRUE]
    [] calls[k].kind = "update" ->
         [o EXCEPT !.qty = calls[k].what.qty, !.status = Mark(o.status, "submitted")]
    [] OTHER                    -> [o EXCEPT !.status = Mark(o.status, "cancelled")]

(* The native call returned; the lock is released and the result written   *)
(* without another await.                                                  *)
NativeOk(k) ==
  LET c == calls[k].key IN
  /\ calls[k].phase = "native" /\ Feasible(k)
  /\ Effect(k)
  /\ orders' = [orders EXCEPT ![c] = Acked(k, orders[c])]
  /\ quota' = IF calls[k].kind = "cancel" THEN quota ELSE Confirm(quota, ResOf(k))
  /\ Ends(k)
  /\ UNCHANGED <<tokens, cooling, kill, crashes, sends, claims, disputed, misled>>

NativeRefused(k) ==
  /\ calls[k].phase = "native"
  /\ Fails(k) /\ UNCHANGED <<taken, listed>>

(* The call raised; the broker may have taken it all the same.             *)
NativeRaised(k) ==
  /\ calls[k].phase = "native"
  /\ IsUnknown(k)
  /\ UNCHANGED <<taken, listed>> \/ (Feasible(k) /\ Effect(k))

-----------------------------------------------------------------------------
(* The rest of the server.                                                 *)

(* set_kill_switch, either way.                                            *)
Flip(s) ==
  /\ s \in Switches
  /\ kill' = IF s \in kill THEN kill \ {s} ELSE kill \cup {s}
  /\ UNCHANGED <<db, calls, taken, listed, history>>

(* create_cooldown refuses while one is active; it ends by its time or by  *)
(* its owner's second thoughts (AgentAccess has its clock).                *)
Cooldown(u) ==
  /\ u \in Coolers
  /\ cooling' = IF u \in cooling THEN cooling \ {u} ELSE cooling \cup {u}
  /\ UNCHANGED <<orders, quota, tokens, calls, kill, taken, listed, history>>

(* A token expires, or the hourly clean-up deletes its row.                *)
Lapse(t) ==
  /\ tokens[t].state = "live"
  /\ tokens' = [tokens EXCEPT ![t].state = "spent"]
  /\ UNCHANGED <<orders, quota, cooling, calls, kill, taken, listed, history>>

(* A report of the exchange reaches an order whose numbers are known; the  *)
(* inbox worker applies it under the lock (RawInbox).                      *)
Reported(c, s) ==
  /\ LockFree /\ orders[c].ids
  /\ IF taken[c] = 0 THEN s = "cancelled" ELSE s \in {"submitted", "filled"}
  /\ Mark(orders[c].status, s) # orders[c].status
  /\ orders' = [orders EXCEPT ![c].status = s]
  /\ UNCHANGED <<quota, tokens, cooling, calls, kill, taken, listed, history>>

(* The watchdog takes one order that has been unknown for five minutes.    *)
(* Without broker ids it is failed and its quota returned; otherwise each  *)
(* pending increase is settled by the quantity n that the broker lists.    *)
(* query_order_qty reads the list without the update_status that precedes  *)
(* a cancel or an update, so n may be a size of the past, and of an order  *)
(* that is gone.                                                           *)
PendingUpdates(c) ==
  {r \in Reservations : r[1] = c /\ r[2] # None /\ quota[r].state = "reserved"}

Took(c, n) == {r \in PendingUpdates(c) : n = orders[c].qty + quota[r].qty}
Missed(c, n) == {r \in PendingUpdates(c) : n = orders[c].qty}

UnderWay(r) == \E k \in Calls : calls[k].kind = "update" /\ ResOf(k) = r

GiveUp(c) ==
  /\ LockFree /\ orders[c].status = "unknown" /\ ~orders[c].ids
  /\ orders' = [orders EXCEPT ![c].status = "failed"]
  /\ quota' = Release(quota, PlaceRes(c))
  /\ UNCHANGED <<tokens, cooling, calls, kill, taken, listed, history>>

Settle(c) ==
  /\ LockFree /\ orders[c].status = "unknown" /\ orders[c].ids
  /\ \E n \in listed[c] :
       /\ Took(c, n) \cup Missed(c, n) # {}
       /\ quota' = [r \in Reservations |->
            IF r \in Took(c, n) THEN [quota[r] EXCEPT !.state = "confirmed"]
            ELSE IF r \in Missed(c, n) THEN [quota[r] EXCEPT !.state = "released"]
            ELSE quota[r]]
       /\ disputed' = disputed \cup {r \in Took(c, n) \cup Missed(c, n) : UnderWay(r)}
       /\ misled' = misled \cup {r \in Missed(c, n) : n < taken[c]}
  /\ UNCHANGED <<orders, tokens, cooling, calls, kill, taken, listed, crashes, sends, claims>>

(* The process dies: requests and switches are gone, a native call that    *)
(* was under way may have been taken.                                      *)
Crash ==
  /\ crashes < MaxCrashes
  /\ crashes' = crashes + 1
  /\ calls' = [k \in Calls |-> NoCall]
  /\ kill' = {}
  /\ \/ UNCHANGED <<taken, listed>>
     \/ \E k \in Calls : calls[k].phase = "native" /\ Feasible(k) /\ Effect(k)
  /\ UNCHANGED <<db, sends, claims, disputed, misled>>

-----------------------------------------------------------------------------
Next ==
  \/ \E u \in Users, c \in Keys, m \in Contents, t \in Tokens :
       AskPlace(u, c, m, t) \/ AskUpdate(u, c, m, t)
  \/ \E k \in Calls, u \in Users, c \in Keys, m \in Contents, t \in Tokens \cup {None} :
       Place(k, u, c, m, t) \/ Update(k, u, c, m, t)
  \/ \E k \in Calls, u \in Users, c \in Keys : Cancel(k, u, c)
  \/ \E k \in Calls :
       \/ GateBlocks(k) \/ GateUnready(k) \/ Send(k)
       \/ NativeOk(k) \/ NativeRefused(k) \/ NativeRaised(k)
  \/ \E s \in Users \cup {Everyone} : Flip(s)
  \/ \E u \in Users : Cooldown(u)
  \/ \E t \in Tokens : Lapse(t)
  \/ \E c \in Keys, s \in Statuses : Reported(c, s)
  \/ \E c \in Keys : GiveUp(c) \/ Settle(c)
  \/ Crash

Spec == Init /\ [][Next]_vars

-----------------------------------------------------------------------------
(* Properties.                                                             *)

(* Rows and requests have their types; a request under way has an order.   *)
TypeOK ==
  /\ orders \in [Keys -> [user : Users \cup {None}, hash : Contents \cup {None},
                         qty : Nat, status : Statuses, ids : BOOLEAN]]
  /\ quota \in [Reservations -> [state : Active \cup {"none", "released"}, qty : Nat]]
  /\ tokens \in [Tokens -> [state : {"unissued", "live", "spent"},
                           user : Users \cup {None}, hash : Contents \cup {None}]]
  /\ cooling \subseteq Users
  /\ calls \in [Calls -> [kind : {"none", "place", "update", "cancel"},
                         user : Users \cup {None}, key : Keys \cup {None},
                         what : Contents \cup {None}, token : Tokens \cup {None},
                         phase : {"idle", "waiting", "native"}]]
  /\ kill \subseteq Users \cup {Everyone}
  /\ taken \in [Keys -> Nat] /\ listed \in [Keys -> SUBSET Nat]
  /\ crashes \in 0..MaxCrashes
  /\ sends \in [Keys -> Nat]
  /\ claims \in [Tokens -> Nat]
  /\ disputed \subseteq Reservations /\ misled \subseteq Reservations

(* Whatever is confirmed, refused, unknown or settled by the watchdog, and *)
(* in whatever order: a user's reservations never exceed the daily limit   *)
(* (repository.py, reserve_quota).                                         *)
LimitHolds == \A u \in Users : QtyOf(quota, ActiveOf(quota, u)) <= DailyLimit

(* What the broker has of an order is reserved: the promise behind         *)
(* "unknown keeps its quota" (_classify_place_failure).  Not promised, and *)
(* not kept: for an order without broker ids that the watchdog gave up     *)
(* (GiveUp), for an increase whose reservation was also decided by another *)
(* attempt of the same content or by a watchdog that did not know the      *)
(* attempt was still waiting; and what is missing of an order is no more   *)
(* than the increases returned on a list that did not show them yet.       *)
CoverOf(c) ==
  QtyOf(quota, {r \in Reservations : r[1] = c /\ (quota[r].state \in Active \/ r \in misled)})
ExposureCovered ==
  \A c \in Keys :
    \/ taken[c] <= CoverOf(c)
    \/ orders[c].status = "failed"
    \/ \E r \in disputed : r[1] = c

(* One order form reaches the broker at most once, over double clicks,     *)
(* retries after an unknown outcome and restarts (place, the idempotency   *)
(* look-up).                                                               *)
SentAtMostOnce == \A c \in Keys : sends[c] <= 1

(* A confirmation buys one decision, over retries, rejected transactions   *)
(* and clean-ups (claim_confirm_token).                                    *)
TokenBuysOneDecision == \A t \in Tokens : claims[t] <= 1

(* What goes to the broker in real mode is what its user confirmed, also   *)
(* when the order changed under the dialog (_update_confirm_dialog).       *)
ConfirmedIsSent ==
  Mode = "real" =>
    \A k \in Calls : calls[k].kind \in {"place", "update"} =>
      LET t == calls[k].token IN
      /\ t \in Tokens
      /\ tokens[t] = [state |-> "spent", user |-> calls[k].user, hash |-> calls[k].what]

(* No order and no change leaves for the broker while its user's switch or *)
(* the global one is on, however long ago it was checked (_send_gate).     *)
NothingSentWhileBlocked ==
  [][\A k \in Calls :
       calls[k].phase = "waiting" /\ calls'[k].phase = "native"
         => calls[k].kind = "cancel" \/ ~Blocked(calls[k].user)]_vars

(* A reservation is settled once: late failures, retries and the watchdog  *)
(* do not return what is confirmed, nor take back what was returned        *)
(* (confirm_quota, release_quota).                                         *)
SettledOnce ==
  [][\A r \in Reservations :
       quota[r].state \in {"confirmed", "released"} => quota'[r] = quota[r]]_vars

(* shioaji_adapter.py:118-129 says that an order that may have reached the *)
(* broker keeps its quota until it is reconciled, for else the daily limit *)
(* is broken.                                                              *)
ReservedOf(c) == QtyOf(quota, {r \in Reservations : r[1] = c /\ quota[r].state \in Active})
TakenIsCovered == \A c \in Keys : taken[c] <= ReservedOf(c)
=============================================================================
