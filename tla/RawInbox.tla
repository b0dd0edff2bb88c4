------------------------------ MODULE RawInbox ------------------------------
(***************************************************************************)
(* From a broker report to the books.  A report is committed to the table  *)
(* raw_inbox before anything else happens to it (inbox_worker.py,          *)
(* commit_raw_callback), then the user's RawInboxWorker resolves its order,*)
(* removes duplicates, books the fill (Positions) and moves the order      *)
(* (OrderStatus), one transaction per row.  A row that cannot be resolved  *)
(* is quarantined; the worker tries those rows again as soon as something  *)
(* else lands, the watchdog every five minutes.  What landed is announced  *)
(* to the browser through OrderEventHub.                                   *)
(*                                                                         *)
(* One worker (Scope) and everything that shares its tables: callbacks     *)
(* that commit rows, also those of another user; the acknowledgement that  *)
(* gives an order its broker ids; the watchdog and the shutdown, which     *)
(* queue for the same supervisor lock; a browser page.  The batch runs in  *)
(* a thread: each row is one step.  What the event loop does between two   *)
(* awaits is one step.  The ledger entries an order report settles in the  *)
(* same transaction are AgentCommands' (ApplyReport).                      *)
(***************************************************************************)
EXTENDS Positions, OrderStatus, FiniteSets, SequencesExt, Sums

CONSTANTS
  Orders,      \* orders that exist, with
  Info,        \*   their user, account, product, action, octype and qty
  Events,      \* reports the broker sends: records, see EventsAssumption
  Binding,     \* agent_account_bindings: account -> user, or None
  Scope,       \* the worker's user_id; None in process, where it sees all
  Mode,        \* sim or real
  None,
  BatchLimit,  \* batch_limit
  QueueSize,   \* _QUEUE_MAXSIZE
  MaxCopies,   \* bound: times one report is delivered
  MaxRows,     \* bound: rows of raw_inbox
  MaxFaults,   \* bound: unexpected exceptions in the worker
  MaxCrashes,  \* bound: crashes of the server
  MaxPages,    \* bound: connections of the browser page
  Hooks,       \* bound: whether rows come with request_wake, without, or both
  Watchdog,    \* bound: does the watchdog run
  CanStop      \* bound: may the server shut down

ASSUME BoundsAssumption ==
  /\ BatchLimit \in Nat \ {0} /\ QueueSize \in Nat \ {0}
  /\ MaxCopies \in Nat /\ MaxRows \in Nat /\ MaxFaults \in Nat
  /\ MaxCrashes \in Nat /\ MaxPages \in Nat
  /\ Hooks \subseteq BOOLEAN /\ Watchdog \in BOOLEAN /\ CanStop \in BOOLEAN

ASSUME OrdersAssumption ==
  /\ None \notin Orders /\ NoFee \notin Nat /\ FlatFee \in Nat
  /\ \A o \in Orders : /\ Info[o].action \in {"Buy", "Sell"}
                       /\ Commission[Info[o].product] \in Nat \cup {NoFee}
                       /\ Multiplier[Info[o].product] \in Nat

ASSUME EventsAssumption ==
  \A ev \in Events :
    /\ ev.kind \in {"deal", "report"}
    /\ ev.ordno \in Orders \cup {None} /\ ev.bid \in Orders \cup {None}
    /\ ev.kind = "deal" => ev.qty \in Nat \ {0} /\ ev.price \in Nat /\ ev.fee \in Nat \cup {NoFee}

VARIABLES
  (* the database *)
  rows,      \* raw_inbox, by id
  orders,    \* orders: are the broker ids known, status, filled_qty
  deals,     \* deals: the ledger that removes duplicates
  books,     \* broker_positions and trades, by <<user, account, product>>
  (* the worker *)
  pc,        \* top, lock, batch, retry, rescan, rebatch, publish, wait, ended
  batch,     \* the row ids still to process, smallest first
  handled, landed,  \* did the batch finish a row, did it book one
  round,     \* row ids of the fast retry
  roundLanded,
  guard,     \* _maybe_assoc_pending
  last,      \* _last_retry_released_ids, or None
  pending,   \* _pending_events
  wake,      \* the event _wake
  posted,    \* a committed row whose request_wake has not run yet
  lock,      \* the supervisor lock: its holder, then who waits
  stop,      \* running, asked, drained, gaveup
  (* the browser page of the worker's user *)
  page,      \* closed, open (connected, not loaded since), loaded
  stale,     \* the page shows less than the database holds
  queue,     \* its queue in the hub
  (* bounds and history *)
  faults, crashes, pages,
  tries,     \* fast retries a row has been through, counted up to 2
  slow       \* rows nobody wakes the worker for

dbVars == <<rows, orders, deals, books>>
workVars == <<pc, batch, handled, landed, round, roundLanded, guard, last, pending>>
hubVars == <<page, stale, queue>>
restVars == <<faults, crashes, pages, tries, slow>>
vars == <<dbVars, workVars, wake, posted, lock, stop, hubVars, restVars>>

Reasons == {"none", "association_pending", "scope_violation",
            "payload_mismatch", "user_mismatch"}

DeadLetters == Reasons \ {"none", "association_pending"}

Row(ev, reason) ==
  [ev |-> ev, reason |-> reason,
   processed |-> reason \in DeadLetters]

Quarantined(r) == rows[r].reason # "none"

InScope(r) == Scope = None \/ rows[r].ev.user = Scope

(* list_unprocessed_raw_inbox, whole and cut to the batch size.            *)
Unprocessed == {r \in DOMAIN rows : /\ ~rows[r].processed
                                    /\ ~Quarantined(r)
                                    /\ InScope(r)}

Scan == {r \in Unprocessed : Cardinality({q \in Unprocessed : q < r}) < BatchLimit}

(* Rows unquarantine_stale_raw_inbox would release.                        *)
AssocPending == {r \in DOMAIN rows : /\ rows[r].reason = "association_pending"
                                     /\ InScope(r)}

-----------------------------------------------------------------------------
(* Resolving a report to an order, within the account the row names.       *)

Find(o, account) ==
  IF o # None /\ orders[o].known /\ Info[o].account = account THEN o ELSE None

ByOrdno(ev) == Find(ev.ordno, IF ev.kind = "deal" THEN ev.paper ELSE ev.account)

ByBrokerId(ev) == Find(ev.bid, IF ev.kind = "deal" THEN ev.paper ELSE ev.account)

Resolved(ev) == IF ByOrdno(ev) # None THEN ByOrdno(ev) ELSE ByBrokerId(ev)

Contradictory(ev) ==
  /\ ByOrdno(ev) # None /\ ByBrokerId(ev) # None
  /\ ByOrdno(ev) # ByBrokerId(ev)

ScopeOf(o) == <<Info[o].user, Info[o].account, Info[o].product>>

(* Mutants: a fill that comes again is booked again; the fill is identified*)
(* by its order, as it was before the exchange's sequence number joined.   *)
NeverBooked(ev) == FALSE

BookedByOrder(ev) == \E d \in deals : d.order = Resolved(ev)

(* stage_deal: the unique key uq_deal_fill, on one trading day.            *)
Booked(ev) == \E d \in deals : d.account = ev.paper /\ d.fill = ev.fill

(* The fill as the tracker sees it: octype and symbol are the order's, the *)
(* fee the report's, or an estimate when it brings none.                   *)
FillOf(ev) ==
  LET o == Resolved(ev)
  IN [action |-> Info[o].action, octype |-> Info[o].octype,
      qty |-> ev.qty, price |-> ev.price,
      fee |-> IF ev.fee # NoFee THEN ev.fee
              ELSE EstimatedFee(Info[o].product, ev.price, ev.qty)]

DealOf(ev, r) ==
  LET f == FillOf(ev)
  IN [account |-> ev.paper, fill |-> ev.fill, order |-> Resolved(ev),
      scope |-> ScopeOf(Resolved(ev)), raw |-> r,
      action |-> f.action, qty |-> f.qty, price |-> f.price, fee |-> f.fee]

(* Why a row goes into quarantine; "none" when it does not.  A mutant:     *)
(* whoever's order it is.                                                  *)
AnyUser(ev) == FALSE

UserMismatch(ev) == ev.user # None /\ Info[Resolved(ev)].user # ev.user

DealFault(ev) ==
  IF ev.account # None /\ ev.paper # ev.account THEN "payload_mismatch"
  ELSE IF Resolved(ev) = None THEN "association_pending"
  ELSE IF UserMismatch(ev) THEN "user_mismatch"
  ELSE IF /\ ~Booked(ev)
          /\ \/ Contradictory(ev)
             \/ Mode = "real" /\ ev.fee = NoFee
             \/ Mismatch(books[ScopeOf(Resolved(ev))], FillOf(ev))
       THEN "association_pending"
  ELSE "none"

ReportFault(ev) ==
  IF ev.status \notin Statuses \/ Contradictory(ev) \/ Resolved(ev) = None
  THEN "association_pending"
  ELSE IF UserMismatch(ev) THEN "user_mismatch"
  ELSE "none"

Fault(ev) == IF ev.kind = "deal" THEN DealFault(ev) ELSE ReportFault(ev)

-----------------------------------------------------------------------------
Init ==
  /\ rows = <<>> /\ deals = {}
  /\ orders = [o \in Orders |-> [known |-> FALSE, status |-> "sending", filled |-> 0]]
  /\ books = [s \in {ScopeOf(o) : o \in Orders} |-> EmptyBook]
  /\ pc = "top" /\ batch = {} /\ handled = FALSE /\ landed = FALSE
  /\ round = {} /\ roundLanded = FALSE
  /\ guard = TRUE /\ last = None /\ pending = <<>>
  /\ wake = FALSE /\ posted = FALSE /\ lock = <<>> /\ stop = "running"
  /\ page = "closed" /\ stale = FALSE /\ queue = <<>>
  /\ faults = 0 /\ crashes = 0 /\ pages = 0 /\ tries = <<>> /\ slow = {}

(* The acknowledgement of a place writes the broker's ids.                 *)
AckOrder(o) ==
  /\ ~orders[o].known
  /\ orders' = [orders EXCEPT ![o].known = TRUE, ![o].status = "submitted"]
  /\ UNCHANGED <<rows, deals, books, workVars, wake, posted, lock, stop, hubVars, restVars>>

(* stage_scoped_raw_inbox: a row for an account bound to somebody else is  *)
(* stored as a dead letter at once.                                        *)
ScopeViolation(ev) ==
  /\ ev.user # None /\ ev.account # None
  /\ Binding[ev.account] \notin {None, ev.user}

(* commit_raw_callback: the row is durable when the callback returns; the  *)
(* worker is woken afterwards, by request_wake.  Rows that come from a     *)
(* reconciliation (_stage_reconcile_results) wake nobody.                  *)
Stage(ev, hook) ==
  /\ Len(rows) < MaxRows
  /\ Cardinality({r \in DOMAIN rows : rows[r].ev = ev}) < MaxCopies
  /\ rows' = Append(rows, Row(ev, IF ScopeViolation(ev) THEN "scope_violation" ELSE "none"))
  /\ tries' = Append(tries, 0)
  /\ posted' = (posted \/ hook)
  /\ slow' = IF hook THEN slow ELSE slow \cup {Len(rows) + 1}
  /\ UNCHANGED <<orders, deals, books, workVars, wake, lock, stop, hubVars, faults, crashes, pages>>

(* request_wake, through call_soon_threadsafe; nothing once run() is over. *)
Notify ==
  /\ posted
  /\ posted' = FALSE
  /\ wake' = (wake \/ pc # "ended")
  /\ UNCHANGED <<dbVars, workVars, lock, stop, hubVars, restVars>>

-----------------------------------------------------------------------------
(* The worker                                                              *)

(* run: look at _stop, clear _wake, ask for the lock.                      *)
Begin ==
  /\ pc = "top" /\ stop = "running"
  /\ wake' = FALSE
  /\ lock' = Append(lock, "worker") /\ pc' = "lock"
  /\ UNCHANGED <<dbVars, batch, handled, landed, round, roundLanded, guard, last,
                 pending, posted, stop, hubVars, restVars>>

End ==
  /\ pc = "top" /\ stop # "running"
  /\ pc' = "ended"
  /\ UNCHANGED <<dbVars, batch, handled, landed, round, roundLanded, guard, last,
                 pending, wake, posted, lock, stop, hubVars, restVars>>

(* process_batch_once reads the ids it is going to process.                *)
ScanBatch ==
  /\ pc = "lock" /\ Head(lock) = "worker"
  /\ batch' = Scan /\ handled' = FALSE /\ landed' = FALSE /\ pc' = "batch"
  /\ UNCHANGED <<dbVars, round, roundLanded, guard, last, pending, wake, posted,
                 lock, stop, hubVars, restVars>>

(* The next row of the batch; _process_one looks again whether it needs it.*)
Takes(r) ==
  /\ pc \in {"batch", "rebatch"}
  /\ r \in batch /\ \A q \in batch : r <= q
  /\ ~rows[r].processed /\ ~Quarantined(r)

(* The row is done and something has landed: what the loop remembers.      *)
Landed(r, events) ==
  /\ batch' = batch \ {r}
  /\ handled' = TRUE
  /\ landed' = (landed \/ pc = "batch")
  /\ roundLanded' = (roundLanded \/ pc = "rebatch")
  /\ pending' = pending \o events
  /\ UNCHANGED <<pc, round, guard, last>>

(* _process_deal and PositionTracker.apply_fill, one transaction; the      *)
(* events are remembered once it has committed.                            *)
BookDeal(r) ==
  /\ Takes(r)
  /\ LET ev == rows[r].ev
         o == Resolved(ev)
     IN /\ ev.kind = "deal" /\ Fault(ev) = "none" /\ ~Booked(ev)
        /\ deals' = deals \cup {DealOf(ev, r)}
        /\ books' = [books EXCEPT ![ScopeOf(o)] = ApplyFill(@, FillOf(ev))]
        /\ orders' = [orders EXCEPT
             ![o].filled = @ + ev.qty,
             ![o].status = FillStatus(@, orders[o].filled + ev.qty, Info[o].qty)]
  /\ rows' = [rows EXCEPT ![r].processed = TRUE]
  /\ Landed(r, <<"deal", "order-report">>)
  /\ stale' = TRUE
  /\ UNCHANGED <<wake, posted, lock, stop, page, queue, restVars>>

(* The same fill once more: only the row is marked.                        *)
SkipDeal(r) ==
  /\ Takes(r)
  /\ rows[r].ev.kind = "deal" /\ Fault(rows[r].ev) = "none" /\ Booked(rows[r].ev)
  /\ rows' = [rows EXCEPT ![r].processed = TRUE]
  /\ Landed(r, <<>>)
  /\ UNCHANGED <<orders, deals, books, wake, posted, lock, stop, hubVars, restVars>>

(* _process_order_report.                                                  *)
ApplyReport(r) ==
  /\ Takes(r)
  /\ rows[r].ev.kind = "report" /\ Fault(rows[r].ev) = "none"
  /\ orders' = [orders EXCEPT ![Resolved(rows[r].ev)].status = Mark(@, rows[r].ev.status)]
  /\ rows' = [rows EXCEPT ![r].processed = TRUE]
  /\ Landed(r, <<"order-report">>)
  /\ stale' = TRUE
  /\ UNCHANGED <<deals, books, wake, posted, lock, stop, page, queue, restVars>>

(* Rolled back, then quarantined: for another try, or for good.            *)
Quarantine(r) ==
  /\ Takes(r)
  /\ LET why == Fault(rows[r].ev)
     IN /\ why # "none"
        /\ rows' = [rows EXCEPT ![r].reason = why,
                                ![r].processed = why \in DeadLetters]
        /\ guard' = (guard \/ why = "association_pending")
  /\ batch' = batch \ {r} /\ handled' = TRUE
  /\ UNCHANGED <<orders, deals, books, pc, landed, round, roundLanded, last, pending,
                 wake, posted, lock, stop, hubVars, restVars>>

(* Any other exception: the row is left as it is, and what waits behind it *)
(* when the batch is full of such rows waits as well.                      *)
LeaveRow(r) ==
  /\ Takes(r) /\ faults < MaxFaults
  /\ faults' = faults + 1 /\ slow' = slow \cup Unprocessed
  /\ batch' = batch \ {r}
  /\ UNCHANGED <<dbVars, pc, handled, landed, round, roundLanded, guard, last, pending,
                 wake, posted, lock, stop, hubVars, crashes, pages, tries>>

(* The batch is through; the fast retry follows when a row has landed.     *)
BatchDone ==
  /\ pc = "batch" /\ batch = {}
  /\ pc' = IF landed /\ guard THEN "retry" ELSE "publish"
  /\ UNCHANGED <<dbVars, batch, handled, landed, round, roundLanded, guard, last,
                 pending, wake, posted, lock, stop, hubVars, restVars>>

Released(S) ==
  [r \in DOMAIN rows |-> IF r \in S THEN [rows[r] EXCEPT !.reason = "none"] ELSE rows[r]]

(* _retry_association_pending_once, its first transaction.                 *)
RetryRelease ==
  /\ pc = "retry"
  /\ IF AssocPending = {}
     THEN /\ guard' = FALSE /\ last' = None /\ pc' = "publish"
          /\ UNCHANGED rows
     ELSE /\ rows' = Released(AssocPending) /\ pc' = "rescan"
          /\ UNCHANGED <<guard, last>>
  /\ UNCHANGED <<orders, deals, books, batch, handled, landed, round, roundLanded,
                 pending, wake, posted, lock, stop, hubVars, restVars>>

(* Its second: rows committed meanwhile are scanned with the others.       *)
RetryScan ==
  /\ pc = "rescan"
  /\ batch' = Scan /\ round' = Scan /\ roundLanded' = FALSE /\ pc' = "rebatch"
  /\ UNCHANGED <<dbVars, handled, landed, guard, last, pending, wake, posted, lock,
                 stop, hubVars, restVars>>

(* The retry raises: best effort, what was released stays in the queue.    *)
RetryFails ==
  /\ pc \in {"retry", "rescan"} /\ faults < MaxFaults
  /\ faults' = faults + 1 /\ pc' = "publish"
  /\ slow' = slow \cup Unprocessed
  /\ UNCHANGED <<dbVars, batch, handled, landed, round, roundLanded, guard, last,
                 pending, wake, posted, lock, stop, hubVars, crashes, pages, tries>>

(* Mutant: the first round counts as a repetition of itself.               *)
FruitlessAtOnce == ~roundLanded /\ last \in {None, round}

(* No progress: nothing landed, and the same rows as the last time.        *)
Fruitless == ~roundLanded /\ last # None /\ last = round

RetryDone ==
  /\ pc = "rebatch" /\ batch = {}
  /\ guard' = (guard /\ ~Fruitless)
  /\ last' = round
  /\ tries' = [r \in DOMAIN tries |-> IF r \in round /\ tries[r] < 2 THEN tries[r] + 1
                                     ELSE tries[r]]
  /\ pc' = "publish"
  /\ UNCHANGED <<dbVars, batch, handled, landed, round, roundLanded, pending, wake,
                 posted, lock, stop, hubVars, faults, crashes, pages, slow>>

(* _put_evicting_oldest, item after item: the oldest make room.            *)
Newest(q) == IF Len(q) <= QueueSize THEN q ELSE SubSeq(q, Len(q) - QueueSize + 1, Len(q))

Ping == IF handled THEN <<"ping">> ELSE <<>>

(* Mutant: the ping goes first.                                            *)
PingFirst == Ping \o pending

(* The scoped events, then the ping, so that they cannot push it out.      *)
Announcements == pending \o Ping

(* Mutant: _wake is cleared when the batch is over.                        *)
PublishClears ==
  /\ pc = "publish"
  /\ lock' = Tail(lock)
  /\ queue' = IF page = "closed" THEN <<>> ELSE Newest(queue \o Announcements)
  /\ pending' = <<>> /\ wake' = FALSE
  /\ pc' = IF handled THEN "top" ELSE "wait"
  /\ UNCHANGED <<dbVars, batch, handled, landed, round, roundLanded, guard, last,
                 posted, stop, page, stale, restVars>>

(* Back on the loop: the lock is free, the events go to the hub, and the   *)
(* worker sleeps if nothing was handled.                                   *)
Publish ==
  /\ pc = "publish"
  /\ lock' = Tail(lock)
  /\ queue' = IF page = "closed" THEN <<>> ELSE Newest(queue \o Announcements)
  /\ pending' = <<>>
  /\ pc' = IF handled THEN "top" ELSE "wait"
  /\ UNCHANGED <<dbVars, batch, handled, landed, round, roundLanded, guard, last,
                 wake, posted, stop, page, stale, restVars>>

(* _wait_for_stop_or_wake, woken or after idle_interval.                   *)
Wakes ==
  /\ pc = "wait"
  /\ pc' = "top"
  /\ UNCHANGED <<dbVars, batch, handled, landed, round, roundLanded, guard, last,
                 pending, wake, posted, lock, stop, hubVars, restVars>>

-----------------------------------------------------------------------------
(* Others who need the supervisor lock                                     *)

(* _retry_quarantined: asks for the lock.                                  *)
WatchdogAsks ==
  /\ Watchdog
  /\ "watchdog" \notin Range(lock) /\ AssocPending # {}
  /\ lock' = Append(lock, "watchdog")
  /\ UNCHANGED <<dbVars, workVars, wake, posted, stop, hubVars, restVars>>

(* Mutant: it releases nothing.                                            *)
WatchdogForgets(r) ==
  /\ lock # <<>> /\ Head(lock) = "watchdog"
  /\ lock' = Tail(lock)
  /\ UNCHANGED <<dbVars, workVars, wake, posted, stop, hubVars, restVars>>

(* Has it: rows old enough, which are those up to some id, are released.   *)
WatchdogReleases(r) ==
  /\ lock # <<>> /\ Head(lock) = "watchdog"
  /\ rows' = Released({q \in AssocPending : q <= r})
  /\ slow' = slow \cup {q \in AssocPending : q <= r}
  /\ lock' = Tail(lock)
  /\ UNCHANGED <<orders, deals, books, workVars, wake, posted, stop, hubVars, faults,
                 crashes, pages, tries>>

(* stop_and_drain: set _stop, then wait for the lock.                      *)
StopAsked ==
  /\ CanStop /\ stop = "running"
  /\ stop' = "asked" /\ lock' = Append(lock, "stopper")
  /\ UNCHANGED <<dbVars, workVars, wake, posted, hubVars, restVars>>

(* Mutant: it does not wait for the lock.                                  *)
DrainedAtOnce ==
  /\ stop = "asked"
  /\ \E i \in DOMAIN lock : lock[i] = "stopper" /\ lock' = RemoveAt(lock, i)
  /\ stop' = "drained"
  /\ UNCHANGED <<dbVars, workVars, wake, posted, hubVars, restVars>>

Drained ==
  /\ stop = "asked" /\ Head(lock) = "stopper"
  /\ stop' = "drained" /\ lock' = Tail(lock)
  /\ UNCHANGED <<dbVars, workVars, wake, posted, hubVars, restVars>>

(* The five seconds are over.                                              *)
DrainTimesOut ==
  /\ stop = "asked" /\ Head(lock) # "stopper"
  /\ \E i \in DOMAIN lock : lock[i] = "stopper" /\ lock' = RemoveAt(lock, i)
  /\ stop' = "gaveup"
  /\ UNCHANGED <<dbVars, workVars, wake, posted, hubVars, restVars>>

(* The server dies and starts again: only the tables are left.  The page   *)
(* loses its connection; EventSource opens another one.                    *)
Crash ==
  /\ crashes < MaxCrashes
  /\ crashes' = crashes + 1
  /\ pc' = "top" /\ batch' = {} /\ handled' = FALSE /\ landed' = FALSE
  /\ round' = {} /\ roundLanded' = FALSE /\ guard' = TRUE /\ last' = None
  /\ pending' = <<>> /\ wake' = FALSE /\ posted' = FALSE /\ lock' = <<>>
  /\ stop' = "running"
  /\ page' = "closed" /\ queue' = <<>>
  /\ UNCHANGED <<dbVars, stale, faults, pages, tries, slow>>

-----------------------------------------------------------------------------
(* The page: orders_stream subscribes, then the tables are loaded on       *)
(* "load" and on every orders-changed.                                     *)

Connect ==
  /\ page = "closed" /\ pages < MaxPages
  /\ pages' = pages + 1 /\ page' = "open" /\ queue' = <<>>
  /\ UNCHANGED <<dbVars, workVars, wake, posted, lock, stop, stale, faults, crashes, tries,
                 slow>>

Load ==
  /\ page \in {"closed", "open"}
  /\ stale' = FALSE
  /\ page' = IF page = "open" THEN "loaded" ELSE page
  /\ UNCHANGED <<dbVars, workVars, wake, posted, lock, stop, queue, restVars>>

ReadEvent ==
  /\ queue # <<>>
  /\ queue' = Tail(queue)
  /\ stale' = (stale /\ Head(queue) # "ping")
  /\ page' = IF Head(queue) = "ping" THEN "loaded" ELSE page
  /\ UNCHANGED <<dbVars, workVars, wake, posted, lock, stop, restVars>>

Disconnect ==
  /\ page # "closed"
  /\ page' = "closed" /\ queue' = <<>>
  /\ UNCHANGED <<dbVars, workVars, wake, posted, lock, stop, stale, restVars>>

-----------------------------------------------------------------------------
Process(r) == BookDeal(r) \/ SkipDeal(r) \/ ApplyReport(r) \/ Quarantine(r)

Worker ==
  \/ Begin \/ End \/ ScanBatch
  \/ \E r \in batch : Process(r)
  \/ BatchDone \/ RetryRelease \/ RetryScan \/ RetryDone \/ Publish \/ Wakes

Next ==
  \/ Worker \/ RetryFails \/ Notify
  \/ \E r \in batch : LeaveRow(r)
  \/ \E o \in Orders : AckOrder(o)
  \/ \E ev \in Events, hook \in Hooks : Stage(ev, hook)
  \/ WatchdogAsks \/ \E r \in DOMAIN rows : WatchdogReleases(r)
  \/ StopAsked \/ Drained \/ DrainTimesOut \/ Crash
  \/ Connect \/ Load \/ ReadEvent \/ Disconnect

Spec == Init /\ [][Next]_vars

(* The worker's loop and the watchdog's run as long as the server does;    *)
(* an unexpected exception is not repeated for ever; a row gets old.       *)
FairSpec ==
  /\ Spec
  /\ WF_vars(Worker)
  /\ WF_vars(WatchdogAsks)
  /\ SF_vars(WatchdogReleases(Len(rows)))
  /\ WF_vars(\E o \in Orders : AckOrder(o))
  /\ WF_vars(Drained)

-----------------------------------------------------------------------------
PCs == {"top", "lock", "batch", "retry", "rescan", "rebatch", "publish", "wait", "ended"}

(* Type correctness.                                                       *)
TypeOK ==
  /\ \A r \in DOMAIN rows : /\ rows[r].ev \in Events
                            /\ rows[r].reason \in Reasons
                            /\ rows[r].processed \in BOOLEAN
                            /\ rows[r].reason \in DeadLetters => rows[r].processed
  /\ orders \in [Orders -> [known: BOOLEAN, status: Statuses, filled: Nat]]
  /\ DOMAIN books = {ScopeOf(o) : o \in Orders}
  /\ \A s \in DOMAIN books : /\ books[s].open \in [Directions -> Position]
                             /\ books[s].trips \in Seq([dir : Directions, pos : Position])
                             /\ \A d \in Directions : IsOpen(books[s], d)
                                                   => Remaining(books[s].open[d]) > 0
  /\ pc \in PCs /\ handled \in BOOLEAN /\ landed \in BOOLEAN /\ guard \in BOOLEAN
  /\ batch \subseteq DOMAIN rows /\ round \subseteq DOMAIN rows
  /\ wake \in BOOLEAN /\ posted \in BOOLEAN
  /\ Range(lock) \subseteq {"worker", "watchdog", "stopper"} /\ IsInjective(lock)
  /\ stop \in {"running", "asked", "drained", "gaveup"}
  /\ page \in {"closed", "open", "loaded"} /\ stale \in BOOLEAN
  /\ Len(queue) <= QueueSize
  /\ DOMAIN tries = DOMAIN rows /\ slow \subseteq DOMAIN rows

(* What a position, and what a deal, adds to an account of its scope.      *)
Accounts == {"bought", "sold", "paid", "received", "fees"}

OfPosition(w, dir, p) ==
  CASE w = "bought"   -> IF dir = "long" THEN p.opened ELSE p.closed
    [] w = "sold"     -> IF dir = "long" THEN p.closed ELSE p.opened
    [] w = "paid"     -> IF dir = "long" THEN p.entry ELSE p.exit
    [] w = "received" -> IF dir = "long" THEN p.exit ELSE p.entry
    [] w = "fees"     -> p.openFee + p.closeFee

OfDeal(w, d) ==
  CASE w = "bought"   -> IF d.action = "Buy" THEN d.qty ELSE 0
    [] w = "sold"     -> IF d.action = "Sell" THEN d.qty ELSE 0
    [] w = "paid"     -> IF d.action = "Buy" THEN d.price * d.qty ELSE 0
    [] w = "received" -> IF d.action = "Sell" THEN d.price * d.qty ELSE 0
    [] w = "fees"     -> d.fee

InBook(w, book) ==
  OfPosition(w, "long", book.open["long"]) + OfPosition(w, "short", book.open["short"])
    + SumOver([i \in DOMAIN book.trips |-> OfPosition(w, book.trips[i].dir, book.trips[i].pos)],
              DOMAIN book.trips)

DealsOf(s) == {d \in deals : d.scope = s}
InDeals(w, s) == SumOver([d \in DealsOf(s) |-> OfDeal(w, d)], DealsOf(s))

(* Whatever is opened, covered in parts, reversed and closed: the lots, the*)
(* money and the fees of a scope's positions and round trips are those of  *)
(* its deals (PositionTracker._close and its split of a cover's fee).      *)
BooksMatchDeals ==
  \A s \in DOMAIN books, w \in Accounts : InBook(w, books[s]) = InDeals(w, s)

(* filled_qty is the sum over the distinct fills of the order, however     *)
(* often each was reported, and whatever was rolled back or replayed after *)
(* a crash (stage_deal before apply_order_fill, in one transaction).       *)
FillsOf(o) == {<<d.account, d.fill, d.qty>> : d \in {x \in deals : x.order = o}}

FilledMatchesFills ==
  \A o \in Orders : orders[o].filled = SumOver([k \in FillsOf(o) |-> k[3]], FillsOf(o))

Done(r) ==
  /\ rows[r].ev.kind = "deal" /\ rows[r].processed
  /\ rows[r].reason \notin DeadLetters

Books(d, ev) == d.account = ev.paper /\ d.fill = ev.fill

(* However often a fill is reported, retried or replayed after a crash, it *)
(* is in the ledger once; a row that is done without being a dead letter   *)
(* has its fill there, and the row a deal came from is done (stage_deal,   *)
(* apply_fill and mark_raw_inbox_processed are one transaction).           *)
BookedExactlyOnce ==
  /\ \A r \in DOMAIN rows : Done(r) => \E d \in deals : Books(d, rows[r].ev)
  /\ \A d \in deals : d.raw \in DOMAIN rows /\ Done(d.raw) /\ Books(d, rows[d.raw].ev)
  /\ \A d, e \in deals : d.account = e.account /\ d.fill = e.fill => d = e

(* A fill is booked to the user whose agent reported it (user_mismatch).   *)
NoForeignBooking ==
  \A d \in deals : rows[d.raw].ev.user \in {None, d.scope[1]}

(* A worker that sleeps with work in the queue has been told, or is about  *)
(* to be; only rows nobody announces wait for idle_interval (run clears    *)
(* _wake before it scans).                                                 *)
NoLostWake ==
  pc = "wait" /\ ~wake /\ ~posted => Unprocessed \subseteq slow

(* A page that has loaded since it subscribed and shows less than the      *)
(* database has a ping in its queue, or gets one when the batch is through:*)
(* no burst of scoped events evicts it (OrderEventHub, MEDIUM-4).          *)
StaleImpliesPing ==
  page = "loaded" /\ stale
    => \/ "ping" \in Range(queue)
       \/ handled /\ pc \in {"batch", "retry", "rescan", "rebatch", "publish"}

(* The fast retry is switched off only when each row that waits for its    *)
(* order has had two rounds (_retry_association_pending_once, N1).         *)
GuardGivesTwoTries ==
  ~guard => \A r \in AssocPending : tries[r] = 2

(* Once stop_and_drain has returned True the worker writes nothing: the    *)
(* lock is granted in the order it was asked for.                          *)
DrainedIsFinal ==
  [][stop = "drained" /\ stop' = "drained" => UNCHANGED <<deals, books>>]_vars

(* A row whose report can be booked for good is booked in the end, however *)
(* it got into quarantine: the fast retry gives up, the watchdog does not. *)
EventuallyDone ==
  \A r \in 1 .. MaxRows :
    <>[](stop = "running" /\ r \in DOMAIN rows /\ InScope(r) /\ Fault(rows[r].ev) = "none")
      => <>(r \in DOMAIN rows /\ rows[r].processed)
=============================================================================
