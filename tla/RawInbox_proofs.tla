--------------------------- MODULE RawInbox_proofs ---------------------------
(***************************************************************************)
(* What holds of RawInbox for every set of orders and reports, every bound *)
(* and every scope: the ledger is exact, nobody's fill is booked to another*)
(* user, the books and the orders hold what the ledger does, a drained     *)
(* worker writes nothing, no wake-up is lost, the fast retry gives every   *)
(* waiting row two rounds, and no ping is pushed out of a page's queue.    *)
(*                                                                         *)
(* Each part of the state has its invariant: Ledger (rows and deals),      *)
(* LockOK, GuardOK, WakeOK, DataOK (books and orders against the ledger),  *)
(* PageOK, and RestOK for what only TypeOK asks.                           *)
(***************************************************************************)
EXTENDS RawInbox, OrderStatusTheorems, SumTheorems, SequenceTheorems

RowType == [ev : Events, reason : Reasons, processed : BOOLEAN]

(* The rows, the batch and the round taken from them; a row that waits for *)
(* its order is not done.                                                  *)
RowsOK ==
  /\ rows \in Seq(RowType)
  /\ batch \subseteq DOMAIN rows /\ round \subseteq DOMAIN rows
  /\ \A r \in DOMAIN rows : rows[r].reason = "association_pending" => ~rows[r].processed

Ledger == RowsOK /\ BookedExactlyOnce /\ NoForeignBooking

-----------------------------------------------------------------------------
(* A deal that is booked is its user's.                                    *)
LEMMA BookableIsOwn ==
  ASSUME NEW ev, ev.kind = "deal", Fault(ev) = "none"
  PROVE  ev.user = None \/ Info[Resolved(ev)].user = ev.user
BY DEF Fault, DealFault, UserMismatch

(* Every fault is a reason of the table.                                   *)
LEMMA FaultIsReason ==
  ASSUME NEW ev PROVE Fault(ev) \in Reasons
BY DEF Fault, DealFault, ReportFault, Reasons

(* A deal is filed under the key of its report.                            *)
LEMMA DealOfKey ==
  ASSUME NEW ev, NEW r
  PROVE  LET d == DealOf(ev, r)
         IN /\ d.account = ev.paper /\ d.fill = ev.fill /\ d.raw = r
            /\ d.scope[1] = Info[Resolved(ev)].user
BY DEF DealOf, ScopeOf

(* The fields of a row.                                                    *)
LEMMA RowFields ==
  ASSUME NEW ev \in Events, NEW why \in Reasons, NEW flag \in BOOLEAN
  PROVE  LET row == [ev |-> ev, reason |-> why, processed |-> flag]
         IN row \in RowType /\ row.ev = ev /\ row.reason = why /\ row.processed = flag
BY DEF RowType

(* Steps that leave the rows and the ledger alone.                         *)
LEMMA LedgerStutter ==
  ASSUME Ledger, UNCHANGED <<rows, deals>>,
         batch' \subseteq DOMAIN rows, round' \subseteq DOMAIN rows
  PROVE  Ledger'
BY DEF Ledger, RowsOK, BookedExactlyOnce, NoForeignBooking, Done, Books

(* A new row has no deal yet.                                              *)
LEMMA StageKeepsLedger ==
  ASSUME Ledger, NEW ev \in Events, NEW hook, Stage(ev, hook)
  PROVE  Ledger'
<1> DEFINE why == IF ScopeViolation(ev) THEN "scope_violation" ELSE "none"
           row == Row(ev, why)
<1>1. /\ row.ev = ev /\ row \in RowType /\ row.reason # "association_pending"
      /\ row.processed = (row.reason \in DeadLetters)
  <2>1. why \in Reasons /\ why # "association_pending"
    BY DEF Reasons
  <2>2. (why \in DeadLetters) \in BOOLEAN
    OBVIOUS
  <2> HIDE DEF why
  <2>3. row = [ev |-> ev, reason |-> why, processed |-> why \in DeadLetters]
    BY DEF Row
  <2> HIDE DEF row
  <2> QED BY <2>1, <2>2, <2>3, RowFields
<1>2. /\ rows \in Seq(RowType) /\ rows' = Append(rows, row) /\ deals' = deals
      /\ batch' \subseteq DOMAIN rows /\ round' \subseteq DOMAIN rows
  BY DEF Ledger, RowsOK, Stage, workVars
<1> HIDE DEF row
<1>3. /\ rows' \in Seq(RowType) /\ DOMAIN rows \subseteq DOMAIN rows'
      /\ \A r \in DOMAIN rows : rows'[r] = rows[r]
      /\ \A r \in DOMAIN rows' \ DOMAIN rows : rows'[r] = row
  BY <1>1, <1>2
<1>4. \A r \in DOMAIN rows' \ DOMAIN rows : ~Done(r)'
  BY <1>1, <1>3 DEF Done
<1>5. \A r \in DOMAIN rows : Done(r)' <=> Done(r)
  BY <1>3 DEF Done
<1>6. RowsOK'
  BY <1>1, <1>2, <1>3 DEF Ledger, RowsOK, DeadLetters
<1>7. BookedExactlyOnce'
  BY <1>2, <1>3, <1>4, <1>5 DEF Ledger, BookedExactlyOnce, Books
<1>8. NoForeignBooking'
  BY <1>2, <1>3 DEF Ledger, BookedExactlyOnce, NoForeignBooking
<1> QED BY <1>6, <1>7, <1>8 DEF Ledger

(* A row of the table.                                                     *)
LEMMA RowTyped ==
  ASSUME Ledger, NEW r \in DOMAIN rows
  PROVE  rows[r] \in RowType /\ rows[r].ev \in Events
<1>1. rows \in Seq(RowType)
  BY DEF Ledger, RowsOK
<1>2. rows[r] \in RowType
  BY <1>1
<1> QED BY <1>2 DEF RowType

(* The row that is processed.                                              *)
LEMMA TakenRow ==
  ASSUME Ledger, NEW r \in batch, Takes(r)
  PROVE  /\ r \in DOMAIN rows /\ ~rows[r].processed /\ rows[r].reason = "none"
         /\ rows[r] \in RowType /\ rows[r].ev \in Events
BY RowTyped DEF Takes, Quarantined, Ledger, RowsOK

(* What marking one row changes.                                           *)
LEMMA MarkedRow ==
  ASSUME Ledger, NEW r \in DOMAIN rows, NEW why \in Reasons, NEW flag \in BOOLEAN,
         rows' = [rows EXCEPT ![r] = [@ EXCEPT !.reason = why, !.processed = flag]]
  PROVE  /\ rows' \in Seq(RowType) /\ DOMAIN rows' = DOMAIN rows
         /\ \A q \in DOMAIN rows : rows'[q].ev = rows[q].ev /\ (q # r => rows'[q] = rows[q])
         /\ rows'[r].reason = why /\ rows'[r].processed = flag
<1> DEFINE new == [rows[r] EXCEPT !.reason = why, !.processed = flag]
<1>1. rows \in Seq(RowType) /\ rows[r] \in RowType
  BY RowTyped DEF Ledger, RowsOK
<1>2. new \in RowType /\ new.ev = rows[r].ev /\ new.reason = why /\ new.processed = flag
  BY <1>1 DEF RowType
<1>3. rows' = [rows EXCEPT ![r] = new]
  OBVIOUS
<1> HIDE DEF new
<1>4. DOMAIN rows' = DOMAIN rows /\ \A q \in DOMAIN rows : rows'[q] = IF q = r THEN new ELSE rows[q]
  BY <1>1, <1>3
<1>5. rows' \in Seq(RowType)
  BY <1>1, <1>2, <1>3
<1> QED BY <1>2, <1>4, <1>5

(* A booked row is done, and its deal is new.                              *)
LEMMA BookKeepsLedger ==
  ASSUME Ledger, NEW r \in batch, BookDeal(r)
  PROVE  Ledger'
<1> DEFINE ev == rows[r].ev
           d == DealOf(ev, r)
<1>1. /\ r \in DOMAIN rows /\ ~rows[r].processed /\ rows[r].reason = "none"
      /\ rows[r] \in RowType /\ ev \in Events
  BY TakenRow DEF BookDeal
<1>2. /\ ev.kind = "deal" /\ Fault(ev) = "none" /\ ~Booked(ev)
      /\ deals' = deals \cup {d}
      /\ rows' = [rows EXCEPT ![r].processed = TRUE]
  BY DEF BookDeal
<1>3. d.account = ev.paper /\ d.fill = ev.fill /\ d.raw = r /\ d.scope[1] = Info[Resolved(ev)].user
  BY DealOfKey
<1>4. ev.user = None \/ Info[Resolved(ev)].user = ev.user
  BY <1>2, BookableIsOwn
<1> HIDE DEF d
<1>5. /\ rows' \in Seq(RowType) /\ DOMAIN rows' = DOMAIN rows
      /\ \A q \in DOMAIN rows : rows'[q].ev = rows[q].ev /\ (q # r => rows'[q] = rows[q])
      /\ rows'[r].reason = "none" /\ rows'[r].processed
  <2>1. rows' = [rows EXCEPT ![r] = [@ EXCEPT !.reason = "none", !.processed = TRUE]]
    BY <1>1, <1>2 DEF RowType, Ledger, RowsOK
  <2> QED BY <1>1, <2>1, MarkedRow DEF Reasons
<1>6. RowsOK'
  BY <1>1, <1>5 DEF Ledger, RowsOK, BookDeal, Landed
<1>7. \A q \in DOMAIN rows : Done(q)' <=> Done(q) \/ q = r
  BY <1>1, <1>2, <1>5 DEF Done, DeadLetters
<1>8. BookedExactlyOnce'
  <2>1. \A q \in DOMAIN rows : Done(q)' => \E x \in deals' : Books(x, rows'[q].ev)
    BY <1>2, <1>3, <1>5, <1>7 DEF Ledger, BookedExactlyOnce, Books
  <2>2. \A x \in deals' : x.raw \in DOMAIN rows /\ Done(x.raw)' /\ Books(x, rows'[x.raw].ev)
    BY <1>1, <1>2, <1>3, <1>5, <1>7 DEF Ledger, BookedExactlyOnce, Books
  <2>3. \A x, y \in deals' : x.account = y.account /\ x.fill = y.fill => x = y
    BY <1>2, <1>3 DEF Ledger, BookedExactlyOnce, Booked
  <2> QED BY <1>5, <2>1, <2>2, <2>3 DEF BookedExactlyOnce, Books
<1>9. NoForeignBooking'
  BY <1>1, <1>2, <1>3, <1>4, <1>5 DEF Ledger, NoForeignBooking, BookedExactlyOnce
<1> QED BY <1>6, <1>8, <1>9 DEF Ledger

(* Steps that only change the reason or the flag of rows, and no deal.     *)
LEMMA MarkKeepsLedger ==
  ASSUME Ledger, deals' = deals, rows' \in Seq(RowType), DOMAIN rows' = DOMAIN rows,
         batch' \subseteq batch, round' = round,
         \A r \in DOMAIN rows :
           /\ rows'[r].ev = rows[r].ev
           /\ rows'[r].reason = "association_pending" => ~rows'[r].processed
           /\ Done(r) => Done(r)'
           /\ Done(r)' => Done(r) \/ Booked(rows[r].ev)
  PROVE  Ledger'
<1>1. RowsOK'
  BY DEF Ledger, RowsOK
<1>2. BookedExactlyOnce'
  BY DEF Ledger, BookedExactlyOnce, Books, Booked
<1>3. NoForeignBooking'
  BY DEF Ledger, NoForeignBooking, BookedExactlyOnce
<1> QED BY <1>1, <1>2, <1>3 DEF Ledger

(* A repeated fill is done, and its deal is there.                         *)
LEMMA SkipKeepsLedger ==
  ASSUME Ledger, NEW r \in batch, SkipDeal(r)
  PROVE  Ledger'
<1>1. /\ r \in DOMAIN rows /\ ~rows[r].processed /\ rows[r].reason = "none" /\ rows[r] \in RowType
  BY TakenRow DEF SkipDeal
<1>2. /\ Booked(rows[r].ev) /\ deals' = deals /\ batch' \subseteq batch /\ round' = round
      /\ rows' = [rows EXCEPT ![r].processed = TRUE]
  BY DEF SkipDeal, Landed
<1>3. /\ rows' \in Seq(RowType) /\ DOMAIN rows' = DOMAIN rows
      /\ \A q \in DOMAIN rows : rows'[q].ev = rows[q].ev /\ (q # r => rows'[q] = rows[q])
      /\ rows'[r].reason = "none" /\ rows'[r].processed
  <2>1. rows' = [rows EXCEPT ![r] = [@ EXCEPT !.reason = "none", !.processed = TRUE]]
    BY <1>1, <1>2 DEF RowType, Ledger, RowsOK
  <2> QED BY <1>1, <2>1, MarkedRow DEF Reasons
<1>4. \A q \in DOMAIN rows : /\ rows'[q].reason = "association_pending" => ~rows'[q].processed
                             /\ Done(q) => Done(q)'
                             /\ Done(q)' => Done(q) \/ Booked(rows[q].ev)
  BY <1>1, <1>2, <1>3 DEF Done, Ledger, RowsOK
<1> QED BY <1>2, <1>3, <1>4, MarkKeepsLedger

(* An order report has no deal.                                            *)
LEMMA ReportKeepsLedger ==
  ASSUME Ledger, NEW r \in batch, ApplyReport(r)
  PROVE  Ledger'
<1>1. /\ r \in DOMAIN rows /\ ~rows[r].processed /\ rows[r].reason = "none" /\ rows[r] \in RowType
  BY TakenRow DEF ApplyReport
<1>2. /\ rows[r].ev.kind = "report" /\ deals' = deals /\ batch' \subseteq batch /\ round' = round
      /\ rows' = [rows EXCEPT ![r].processed = TRUE]
  BY DEF ApplyReport, Landed
<1>3. /\ rows' \in Seq(RowType) /\ DOMAIN rows' = DOMAIN rows
      /\ \A q \in DOMAIN rows : rows'[q].ev = rows[q].ev /\ (q # r => rows'[q] = rows[q])
      /\ rows'[r].reason = "none" /\ rows'[r].processed
  <2>1. rows' = [rows EXCEPT ![r] = [@ EXCEPT !.reason = "none", !.processed = TRUE]]
    BY <1>1, <1>2 DEF RowType, Ledger, RowsOK
  <2> QED BY <1>1, <2>1, MarkedRow DEF Reasons
<1>4. \A q \in DOMAIN rows : /\ rows'[q].reason = "association_pending" => ~rows'[q].processed
                             /\ Done(q)' <=> Done(q)
  BY <1>1, <1>2, <1>3 DEF Done, Ledger, RowsOK
<1> QED BY <1>2, <1>3, <1>4, MarkKeepsLedger

(* A row in quarantine is not done, or a dead letter.                      *)
LEMMA QuarantineKeepsLedger ==
  ASSUME Ledger, NEW r \in batch, Quarantine(r)
  PROVE  Ledger'
<1> DEFINE why == Fault(rows[r].ev)
<1>1. /\ r \in DOMAIN rows /\ ~rows[r].processed /\ rows[r].reason = "none" /\ rows[r] \in RowType
  BY TakenRow DEF Quarantine
<1>2. /\ why # "none" /\ why \in Reasons /\ deals' = deals /\ batch' \subseteq batch /\ round' = round
      /\ rows' = [rows EXCEPT ![r].reason = why, ![r].processed = why \in DeadLetters]
  BY FaultIsReason DEF Quarantine
<1> HIDE DEF why
<1>3. /\ rows' \in Seq(RowType) /\ DOMAIN rows' = DOMAIN rows
      /\ \A q \in DOMAIN rows : /\ rows'[q].ev = rows[q].ev
                                /\ q # r => rows'[q] = rows[q]
      /\ rows'[r].reason = why /\ rows'[r].processed = (why \in DeadLetters)
  <2> DEFINE flag == (why \in DeadLetters)
  <2>1. rows' = [rows EXCEPT ![r] = [@ EXCEPT !.reason = why, !.processed = flag]]
    BY <1>1, <1>2 DEF RowType, Ledger, RowsOK
  <2>2. flag \in BOOLEAN
    OBVIOUS
  <2> HIDE DEF flag
  <2>3. /\ rows' \in Seq(RowType) /\ DOMAIN rows' = DOMAIN rows
        /\ \A q \in DOMAIN rows : rows'[q].ev = rows[q].ev /\ (q # r => rows'[q] = rows[q])
        /\ rows'[r].reason = why /\ rows'[r].processed = flag
    <3>1. r \in DOMAIN rows /\ why \in Reasons
      BY <1>1, <1>2
    <3> QED BY <2>1, <2>2, <3>1, MarkedRow, Zenon
  <2> QED BY <2>3 DEF flag
<1>4. \A q \in DOMAIN rows : /\ rows'[q].reason = "association_pending" => ~rows'[q].processed
                             /\ Done(q)' <=> Done(q)
  BY <1>1, <1>2, <1>3 DEF Done, Ledger, RowsOK, DeadLetters
<1> QED BY <1>2, <1>3, <1>4, MarkKeepsLedger

(* Releasing rows from quarantine, by the worker or by the watchdog.       *)
LEMMA ReleaseKeepsLedger ==
  ASSUME Ledger, NEW S \in SUBSET AssocPending, rows' = Released(S), deals' = deals,
         UNCHANGED <<batch, round>>
  PROVE  Ledger'
<1>1. S \subseteq DOMAIN rows /\ \A r \in S : rows[r].reason = "association_pending" /\ ~rows[r].processed
  BY DEF AssocPending, Ledger, RowsOK
<1>2. rows \in Seq(RowType) /\ DOMAIN rows = 1 .. Len(rows)
  BY DEF Ledger, RowsOK
<1>3. /\ rows' \in Seq(RowType) /\ DOMAIN rows' = DOMAIN rows
      /\ \A q \in DOMAIN rows : /\ rows'[q].ev = rows[q].ev /\ rows'[q].processed = rows[q].processed
                                /\ q \notin S => rows'[q] = rows[q]
                                /\ q \in S => rows'[q].reason = "none"
  <2>1. \A q \in DOMAIN rows : rows[q] \in RowType
    BY <1>2
  <2>2. \A q \in DOMAIN rows : [rows[q] EXCEPT !.reason = "none"] \in RowType
    BY <2>1 DEF RowType, Reasons
  <2> QED BY <1>2, <2>1, <2>2 DEF Released, RowType
<1>4. \A q \in DOMAIN rows : /\ rows'[q].reason = "association_pending" => ~rows'[q].processed
                             /\ Done(q)' <=> Done(q)
  BY <1>1, <1>3 DEF Done, Ledger, RowsOK, DeadLetters
<1> QED BY <1>3, <1>4, MarkKeepsLedger

(* No rows, no deals.                                                      *)
LEMMA LedgerInit == Init => Ledger
BY DEF Init, Ledger, RowsOK, BookedExactlyOnce, NoForeignBooking

(* Steps of the worker that take rows from the queue or give them back.    *)
LEMMA ScanKeepsLedger ==
  ASSUME Ledger, ScanBatch \/ RetryScan \/ \E r \in batch : LeaveRow(r)
  PROVE  Ledger'
<1>1. Scan \subseteq DOMAIN rows
  BY DEF Scan, Unprocessed
<1>2. UNCHANGED <<rows, deals>> /\ batch' \subseteq DOMAIN rows /\ round' \subseteq DOMAIN rows
  BY <1>1 DEF ScanBatch, RetryScan, LeaveRow, dbVars, Ledger, RowsOK
<1> QED BY <1>2, LedgerStutter

(* Every step keeps the ledger exact.                                      *)
LEMMA LedgerStep == Ledger /\ [Next]_vars => Ledger'
<1> SUFFICES ASSUME Ledger, [Next]_vars PROVE Ledger'
  OBVIOUS
<1>1. ASSUME NEW ev \in Events, NEW hook \in Hooks, Stage(ev, hook) PROVE Ledger'
  BY <1>1, StageKeepsLedger
<1>2. ASSUME NEW r \in batch, Process(r) PROVE Ledger'
  BY <1>2, BookKeepsLedger, SkipKeepsLedger, ReportKeepsLedger, QuarantineKeepsLedger DEF Process
<1>3. CASE ScanBatch \/ RetryScan \/ \E r \in batch : LeaveRow(r)
  BY <1>3, ScanKeepsLedger
<1>4. CASE RetryRelease
  <2>1. CASE AssocPending = {}
    BY <1>4, <2>1, LedgerStutter DEF RetryRelease, Ledger, RowsOK
  <2>2. CASE AssocPending # {}
    BY <1>4, <2>2, ReleaseKeepsLedger DEF RetryRelease
  <2> QED BY <2>1, <2>2
<1>5. ASSUME NEW r \in DOMAIN rows, WatchdogReleases(r) PROVE Ledger'
  BY <1>5, ReleaseKeepsLedger DEF WatchdogReleases, workVars
<1>6. CASE UNCHANGED <<rows, deals>> /\ batch' \in {batch, {}} /\ round' \in {round, {}}
  BY <1>6, LedgerStutter DEF Ledger, RowsOK
<1>7. CASE Begin \/ End \/ BatchDone \/ RetryDone \/ Publish \/ Wakes
  BY <1>6, <1>7 DEF Begin, End, BatchDone, RetryDone, Publish, Wakes, dbVars
<1>8. CASE RetryFails \/ Notify \/ WatchdogAsks \/ StopAsked \/ Drained \/ DrainTimesOut
  BY <1>6, <1>8
     DEF RetryFails, Notify, WatchdogAsks, StopAsked, Drained, DrainTimesOut, dbVars, workVars
<1>9. CASE Crash \/ Connect \/ Load \/ ReadEvent \/ Disconnect
  BY <1>6, <1>9 DEF Crash, Connect, Load, ReadEvent, Disconnect, dbVars, workVars
<1>10. ASSUME NEW o \in Orders, AckOrder(o) PROVE Ledger'
  BY <1>6, <1>10 DEF AckOrder, workVars
<1>11. CASE UNCHANGED vars
  BY <1>6, <1>11 DEF vars, dbVars, workVars
<1> QED
  BY <1>1, <1>2, <1>3, <1>4, <1>5, <1>7, <1>8, <1>9, <1>10, <1>11 DEF Next, Worker

(* However often the broker, the agent or a restart repeats a report, its  *)
(* fill is booked once, and a row is done only with its fill in the ledger.*)
THEOREM LedgerIsExact == Spec => []BookedExactlyOnce
<1>1. Ledger => BookedExactlyOnce
  BY DEF Ledger
<1> QED BY LedgerInit, LedgerStep, <1>1, PTL DEF Spec

(* No fill is booked to another user than the one whose agent reported it. *)
THEOREM OwnFillsOnly == Spec => []NoForeignBooking
<1>1. Ledger => NoForeignBooking
  BY DEF Ledger
<1> QED BY LedgerInit, LedgerStep, <1>1, PTL DEF Spec

-----------------------------------------------------------------------------
(* The supervisor lock: who runs a batch holds it, and whoever stops the   *)
(* worker stands behind it in the queue.                                   *)

Busy == {"lock", "batch", "retry", "rescan", "rebatch", "publish"}

Holders == {"worker", "watchdog", "stopper"}

LockOK ==
  /\ pc \in PCs
  /\ lock \in Seq(Holders)
  /\ \A i, j \in DOMAIN lock : lock[i] = lock[j] => i = j
  /\ pc \in Busy <=> \E i \in DOMAIN lock : lock[i] = "worker"
  /\ pc \in Busy \ {"lock"} => Head(lock) = "worker"
  /\ stop = "asked" <=> \E i \in DOMAIN lock : lock[i] = "stopper"
  /\ \A i, j \in DOMAIN lock : lock[i] = "stopper" /\ lock[j] = "worker" => j < i
  /\ stop = "drained" => pc \notin Busy

(* Somebody joins the queue.                                               *)
LEMMA QueueUp ==
  ASSUME LockOK, NEW p \in Holders, \A i \in DOMAIN lock : lock[i] # p,
         lock' = Append(lock, p)
  PROVE  /\ lock' \in Seq(Holders)
         /\ \A i, j \in DOMAIN lock' : lock'[i] = lock'[j] => i = j
         /\ \A q : (\E i \in DOMAIN lock' : lock'[i] = q)
                  <=> q = p \/ \E i \in DOMAIN lock : lock[i] = q
         /\ lock # <<>> => Head(lock') = Head(lock)
         /\ p # "worker" =>
              \A i, j \in DOMAIN lock' : lock'[i] = "stopper" /\ lock'[j] = "worker" => j < i
BY DEF LockOK, Holders

(* The holder leaves.                                                      *)
LEMMA HandOver ==
  ASSUME LockOK, lock # <<>>, lock' = Tail(lock)
  PROVE  /\ lock' \in Seq(Holders)
         /\ \A i, j \in DOMAIN lock' : lock'[i] = lock'[j] => i = j
         /\ \A q : (\E i \in DOMAIN lock' : lock'[i] = q)
                  <=> q # Head(lock) /\ \E i \in DOMAIN lock : lock[i] = q
         /\ \A i, j \in DOMAIN lock' : lock'[i] = "stopper" /\ lock'[j] = "worker" => j < i
<1>1. /\ lock \in Seq(Holders) /\ Len(lock) \in Nat \ {0} /\ DOMAIN lock = 1 .. Len(lock)
      /\ \A i, j \in DOMAIN lock : lock[i] = lock[j] => i = j
      /\ \A i, j \in DOMAIN lock : lock[i] = "stopper" /\ lock[j] = "worker" => j < i
  BY DEF LockOK
<1>2. /\ lock' \in Seq(Holders) /\ DOMAIN lock' = 1 .. Len(lock) - 1
      /\ \A i \in DOMAIN lock' : lock'[i] = lock[i + 1] /\ i + 1 \in DOMAIN lock
      /\ Head(lock) = lock[1]
  BY <1>1
<1>3. \A i, j \in DOMAIN lock' : lock'[i] = lock'[j] => i = j
  BY <1>1, <1>2
<1>4. \A i, j \in DOMAIN lock' : lock'[i] = "stopper" /\ lock'[j] = "worker" => j < i
  BY <1>1, <1>2
<1>5. ASSUME NEW q
      PROVE  (\E i \in DOMAIN lock' : lock'[i] = q)
               <=> q # Head(lock) /\ \E i \in DOMAIN lock : lock[i] = q
  <2>1. ASSUME NEW i \in DOMAIN lock, lock[i] = q, q # Head(lock)
        PROVE  \E k \in DOMAIN lock' : lock'[k] = q
    <3>1. i - 1 \in DOMAIN lock' /\ lock'[i - 1] = q
      BY <1>1, <1>2, <2>1
    <3> QED BY <3>1
  <2>2. ASSUME NEW i \in DOMAIN lock', lock'[i] = q
        PROVE  q # Head(lock) /\ \E k \in DOMAIN lock : lock[k] = q
    BY <1>1, <1>2, <2>2
  <2> QED BY <2>1, <2>2
<1> QED BY <1>2, <1>3, <1>4, <1>5

(* Somebody who waits gives up.                                            *)
LEMMA GiveUp ==
  ASSUME LockOK, NEW k \in DOMAIN lock, lock' = RemoveAt(lock, k), Head(lock) # lock[k]
  PROVE  /\ lock' \in Seq(Holders)
         /\ \A i, j \in DOMAIN lock' : lock'[i] = lock'[j] => i = j
         /\ \A q : (\E i \in DOMAIN lock' : lock'[i] = q)
                  <=> q # lock[k] /\ \E i \in DOMAIN lock : lock[i] = q
         /\ Head(lock') = Head(lock)
<1>1. /\ lock \in Seq(Holders) /\ DOMAIN lock = 1 .. Len(lock)
      /\ \A i, j \in DOMAIN lock : lock[i] = lock[j] => i = j
      /\ k \in 2 .. Len(lock) /\ Len(lock) \in Nat
  BY DEF LockOK
<1> DEFINE front == SubSeq(lock, 1, k - 1)
           back == SubSeq(lock, k + 1, Len(lock))
<1>2. lock' = front \o back
  BY DEF RemoveAt
<1>2a. front \in Seq(Holders) /\ Len(front) = k - 1 /\ \A i \in 1 .. k - 1 : front[i] = lock[i]
  BY <1>1
<1>2b. /\ back \in Seq(Holders) /\ Len(back) = Len(lock) - k
      /\ \A i \in 1 .. Len(lock) - k : back[i] = lock[k + i]
  <2>1. /\ k + 1 \in Int /\ Len(lock) \in Int
        /\ \A i \in k + 1 .. Len(lock) : lock[i] \in Holders
    BY <1>1
  <2>2. /\ back \in Seq(Holders)
        /\ Len(back) = IF k + 1 <= Len(lock) THEN Len(lock) - (k + 1) + 1 ELSE 0
        /\ \A i \in 1 .. Len(lock) - (k + 1) + 1 : back[i] = lock[(k + 1) + i - 1]
    BY <2>1, SubSeqProperties
  <2> HIDE DEF back
  <2>3. Len(back) = Len(lock) - k
    BY <1>1, <2>2
  <2>4. ASSUME NEW i \in 1 .. Len(lock) - k PROVE back[i] = lock[k + i]
    <3>1. i \in 1 .. Len(lock) - (k + 1) + 1 /\ (k + 1) + i - 1 = k + i
      BY <1>1
    <3> QED BY <2>2, <3>1
  <2> QED BY <2>2, <2>3, <2>4
<1> HIDE DEF front, back
<1>3. /\ lock' \in Seq(Holders) /\ DOMAIN lock' = 1 .. Len(lock) - 1
      /\ \A i \in 1 .. Len(lock) - 1 : lock'[i] = IF i < k THEN lock[i] ELSE lock[i + 1]
  <2>0. /\ lock' \in Seq(Holders) /\ Len(lock') = Len(front) + Len(back)
        /\ \A i \in 1 .. Len(front) + Len(back) :
             lock'[i] = IF i <= Len(front) THEN front[i] ELSE back[i - Len(front)]
    BY <1>2, <1>2a, <1>2b, ConcatProperties
  <2>1. lock' \in Seq(Holders) /\ Len(lock') = Len(lock) - 1
    BY <1>1, <1>2a, <1>2b, <2>0
  <2>2. \A i \in 1 .. Len(lock) - 1 : lock'[i] = IF i < k THEN front[i] ELSE back[i - (k - 1)]
    BY <1>1, <1>2a, <1>2b, <2>0
  <2>3. \A i \in 1 .. Len(lock) - 1 : i >= k => back[i - (k - 1)] = lock[i + 1]
    <3>1. ASSUME NEW i \in 1 .. Len(lock) - 1, i >= k
          PROVE  i - (k - 1) \in 1 .. Len(lock) - k /\ k + (i - (k - 1)) = i + 1
      BY <1>1, <3>1
    <3> QED BY <1>2b, <3>1
  <2> QED BY <1>1, <1>2a, <2>1, <2>2, <2>3
<1>4. \A i, j \in DOMAIN lock' : lock'[i] = lock'[j] => i = j
  <2>1. ASSUME NEW i \in DOMAIN lock', NEW j \in DOMAIN lock', lock'[i] = lock'[j] PROVE i = j
    <3>1. /\ i \in 1 .. Len(lock) - 1 /\ j \in 1 .. Len(lock) - 1
          /\ {i, i + 1, j, j + 1} \subseteq DOMAIN lock
      BY <1>1, <1>3
    <3>2. CASE i < k /\ j < k
      BY <1>1, <1>3, <2>1, <3>1, <3>2
    <3>3. CASE i < k /\ j >= k
      BY <1>1, <1>3, <2>1, <3>1, <3>3
    <3>4. CASE i >= k /\ j < k
      BY <1>1, <1>3, <2>1, <3>1, <3>4
    <3>5. CASE i >= k /\ j >= k
      BY <1>1, <1>3, <2>1, <3>1, <3>5
    <3> QED BY <1>1, <3>1, <3>2, <3>3, <3>4, <3>5
  <2> QED BY <2>1
<1>5. ASSUME NEW q
      PROVE  (\E i \in DOMAIN lock' : lock'[i] = q)
               <=> q # lock[k] /\ \E i \in DOMAIN lock : lock[i] = q
  <2>1. ASSUME NEW i \in DOMAIN lock, lock[i] = q, q # lock[k]
        PROVE  \E n \in DOMAIN lock' : lock'[n] = q
    <3>1. CASE i < k
      BY <1>1, <1>3, <2>1, <3>1
    <3>2. CASE i > k
      <4>1. i - 1 \in DOMAIN lock' /\ lock'[i - 1] = q
        BY <1>1, <1>3, <2>1, <3>2
      <4> QED BY <4>1
    <3> QED BY <1>1, <2>1, <3>1, <3>2
  <2>2. ASSUME NEW i \in DOMAIN lock', lock'[i] = q
        PROVE  q # lock[k] /\ \E n \in DOMAIN lock : lock[n] = q
    <3>1. i + 1 \in DOMAIN lock /\ i \in DOMAIN lock
      BY <1>1, <1>3
    <3> QED BY <1>1, <1>3, <2>2, <3>1
  <2> QED BY <2>1, <2>2
<1> QED BY <1>1, <1>3, <1>4, <1>5

(* The lock is free.                                                       *)
LEMMA LockInit == Init => LockOK
BY DEF Init, LockOK, PCs, Busy, Holders

(* Every step keeps the queue for the lock.                                *)
LEMMA LockStep == LockOK /\ [Next]_vars => LockOK'
<1> SUFFICES ASSUME LockOK, [Next]_vars PROVE LockOK'
  OBVIOUS
<1> USE DEF PCs, Busy, Holders
<1>1. CASE Begin
  <2>1. lock' = Append(lock, "worker") /\ pc' = "lock" /\ stop' = stop /\ stop = "running" /\ pc = "top"
    BY <1>1 DEF Begin
  <2>2. \A i \in DOMAIN lock : lock[i] # "worker" /\ lock[i] # "stopper"
    BY <2>1 DEF LockOK
  <2> QED BY <2>1, <2>2, QueueUp DEF LockOK
<1>2. CASE StopAsked
  <2>1. /\ lock' = Append(lock, "stopper") /\ pc' = pc /\ stop' = "asked" /\ stop = "running"
    BY <1>2 DEF StopAsked, workVars
  <2>2. \A i \in DOMAIN lock : lock[i] # "stopper"
    BY <2>1 DEF LockOK
  <2>3. pc \in Busy \ {"lock"} => lock # <<>>
    BY DEF LockOK
  <2> QED BY <2>1, <2>2, <2>3, QueueUp DEF LockOK
<1>3. CASE WatchdogAsks
  <2>1. /\ lock' = Append(lock, "watchdog") /\ pc' = pc /\ stop' = stop
        /\ \A i \in DOMAIN lock : lock[i] # "watchdog"
    BY <1>3 DEF WatchdogAsks, workVars, Range
  <2>2. pc \in Busy \ {"lock"} => lock # <<>>
    BY DEF LockOK
  <2> QED BY <2>1, <2>2, QueueUp DEF LockOK
<1>4. CASE Publish
  <2>1. /\ lock' = Tail(lock) /\ stop' = stop /\ pc = "publish" /\ pc' \in {"top", "wait"}
        /\ lock # <<>> /\ Head(lock) = "worker"
    BY <1>4 DEF Publish, LockOK
  <2> QED BY <2>1, HandOver DEF LockOK
<1>5. ASSUME NEW r \in DOMAIN rows, WatchdogReleases(r) PROVE LockOK'
  <2>1. /\ lock' = Tail(lock) /\ stop' = stop /\ pc' = pc
        /\ lock # <<>> /\ Head(lock) = "watchdog"
    BY <1>5 DEF WatchdogReleases, workVars
  <2> QED BY <2>1, HandOver DEF LockOK
<1>6. CASE Drained
  <2>1. /\ lock' = Tail(lock) /\ stop = "asked" /\ stop' = "drained" /\ pc' = pc
        /\ lock # <<>> /\ Head(lock) = "stopper"
    BY <1>6 DEF Drained, workVars, LockOK
  <2>2. \A j \in DOMAIN lock : lock[j] # "worker"
    BY <2>1 DEF LockOK
  <2> QED BY <2>1, <2>2, HandOver DEF LockOK
<1>7. CASE DrainTimesOut
  <2>1. PICK k \in DOMAIN lock : lock[k] = "stopper" /\ lock' = RemoveAt(lock, k)
    BY <1>7 DEF DrainTimesOut
  <2>2. Head(lock) # "stopper" /\ stop' = "gaveup" /\ pc' = pc
    BY <1>7 DEF DrainTimesOut, workVars
  <2> QED BY <2>1, <2>2, GiveUp DEF LockOK
<1>8. CASE Crash
  BY <1>8 DEF Crash, LockOK
<1>9. CASE UNCHANGED <<lock, stop>> /\ pc' \in PCs
           /\ (pc' \in Busy <=> pc \in Busy)
           /\ (pc' \in Busy \ {"lock"} => pc \in Busy \ {"lock"} \/ Head(lock) = "worker")
  BY <1>9 DEF LockOK
<1>10. CASE End \/ ScanBatch \/ BatchDone \/ RetryRelease \/ RetryScan \/ RetryDone \/ Wakes \/ RetryFails
  BY <1>9, <1>10 DEF End, ScanBatch, BatchDone, RetryRelease, RetryScan, RetryDone, Wakes, RetryFails
<1>11. ASSUME NEW r \in batch, Process(r) \/ LeaveRow(r) PROVE LockOK'
  BY <1>9, <1>11
     DEF Process, BookDeal, SkipDeal, ApplyReport, Quarantine, LeaveRow, Landed, LockOK
<1>12. CASE UNCHANGED <<lock, stop, pc>>
  BY <1>9, <1>12 DEF LockOK
<1>13. CASE Notify \/ Connect \/ Load \/ ReadEvent \/ Disconnect \/ UNCHANGED vars
  BY <1>12, <1>13 DEF Notify, Connect, Load, ReadEvent, Disconnect, vars, workVars
<1>14. ASSUME NEW o \in Orders, AckOrder(o) PROVE LockOK'
  BY <1>12, <1>14 DEF AckOrder, workVars
<1>15. ASSUME NEW ev \in Events, NEW hook \in Hooks, Stage(ev, hook) PROVE LockOK'
  BY <1>12, <1>15 DEF Stage, workVars
<1> QED
  BY <1>1, <1>2, <1>3, <1>4, <1>5, <1>6, <1>7, <1>8, <1>10, <1>11, <1>13, <1>14, <1>15
     DEF Next, Worker

(* Only a busy worker writes the books.                                    *)
LEMMA BooksNeedBusy ==
  ASSUME [Next]_vars, pc \notin Busy
  PROVE  UNCHANGED <<deals, books>>
<1>1. ASSUME NEW r \in batch, Process(r) \/ LeaveRow(r) PROVE UNCHANGED <<deals, books>>
  BY <1>1 DEF Process, BookDeal, SkipDeal, ApplyReport, Quarantine, LeaveRow, Takes, Busy
<1>2. CASE Begin \/ End \/ ScanBatch \/ BatchDone \/ RetryRelease \/ RetryScan \/ RetryDone \/ Publish
           \/ Wakes \/ RetryFails
  BY <1>2 DEF Begin, End, ScanBatch, BatchDone, RetryRelease, RetryScan, RetryDone, Publish,
              Wakes, RetryFails, dbVars
<1>3. CASE Notify \/ WatchdogAsks \/ StopAsked \/ Drained \/ DrainTimesOut \/ Crash
           \/ Connect \/ Load \/ ReadEvent \/ Disconnect \/ UNCHANGED vars
  BY <1>3 DEF Notify, WatchdogAsks, StopAsked, Drained, DrainTimesOut, Crash, Connect, Load,
              ReadEvent, Disconnect, vars, dbVars
<1>4. ASSUME NEW r \in DOMAIN rows, WatchdogReleases(r) PROVE UNCHANGED <<deals, books>>
  BY <1>4 DEF WatchdogReleases
<1>5. ASSUME NEW o \in Orders, AckOrder(o) PROVE UNCHANGED <<deals, books>>
  BY <1>5 DEF AckOrder
<1>6. ASSUME NEW ev \in Events, NEW hook \in Hooks, Stage(ev, hook) PROVE UNCHANGED <<deals, books>>
  BY <1>6 DEF Stage
<1> QED BY <1>1, <1>2, <1>3, <1>4, <1>5, <1>6 DEF Next, Worker

(* What stop_and_drain promises when it returns True: no batch writes to   *)
(* the books behind its back.                                              *)
THEOREM DrainIsFinal == Spec => DrainedIsFinal
<1>1. LockOK /\ [Next]_vars
        => [stop = "drained" /\ stop' = "drained" => UNCHANGED <<deals, books>>]_vars
  BY BooksNeedBusy DEF LockOK
<1> QED BY LockInit, LockStep, <1>1, PTL DEF Spec, DrainedIsFinal

-----------------------------------------------------------------------------
(* The fast retry.  While a round is under way every row that waits for its*)
(* order belongs to it, and the last round was counted.                    *)

GuardOK ==
  /\ DOMAIN tries = DOMAIN rows /\ tries \in Seq({0, 1, 2})
  /\ last # None => /\ last \subseteq DOMAIN rows
                    /\ \A r \in last : tries[r] \in {1, 2}
  /\ pc = "rescan" => AssocPending = {}
  /\ pc = "rebatch" => AssocPending \subseteq round /\ batch \subseteq round
  /\ GuardGivesTwoTries

(* No row waits.                                                           *)
LEMMA GuardInit == Init => GuardOK
BY DEF Init, GuardOK, GuardGivesTwoTries, AssocPending

(* A row that is taken from a round and goes back into quarantine.         *)
LEMMA GuardQuarantine ==
  ASSUME Ledger, GuardOK, NEW r \in batch, Quarantine(r)
  PROVE  GuardOK'
<1> DEFINE why == Fault(rows[r].ev)
<1>1. r \in DOMAIN rows /\ rows[r] \in RowType /\ rows \in Seq(RowType)
  BY TakenRow DEF Quarantine, Ledger, RowsOK
<1>2. /\ rows' = [rows EXCEPT ![r].reason = why, ![r].processed = why \in DeadLetters]
      /\ guard' = (guard \/ why = "association_pending")
      /\ pc \in {"batch", "rebatch"} /\ batch' \subseteq batch
      /\ UNCHANGED <<tries, last, pc, round>>
  BY DEF Quarantine, Takes, restVars
<1> HIDE DEF why
<1>3. /\ DOMAIN rows' = DOMAIN rows
      /\ \A q \in DOMAIN rows : q # r => rows'[q] = rows[q]
      /\ rows'[r].reason = why /\ rows'[r].ev = rows[r].ev
  BY <1>1, <1>2 DEF RowType
<1>4. \A q \in DOMAIN rows : rows'[q].ev = rows[q].ev
  BY <1>3
<1>5. /\ AssocPending' \subseteq AssocPending \cup {r}
      /\ why # "association_pending" => AssocPending' \subseteq AssocPending
  BY <1>3, <1>4 DEF AssocPending, InScope
<1>6. GuardGivesTwoTries'
  BY <1>2, <1>5 DEF GuardOK, GuardGivesTwoTries
<1> QED BY <1>1, <1>2, <1>3, <1>5, <1>6 DEF GuardOK

(* A row that is done does not wait.                                       *)
LEMMA GuardMark ==
  ASSUME Ledger, GuardOK, NEW r \in batch, Takes(r),
         rows' = [rows EXCEPT ![r].processed = TRUE],
         batch' \subseteq batch, UNCHANGED <<tries, last, pc, round, guard>>
  PROVE  GuardOK'
<1>1. r \in DOMAIN rows /\ rows[r] \in RowType /\ rows \in Seq(RowType)
  BY TakenRow DEF Ledger, RowsOK
<1>2. /\ DOMAIN rows' = DOMAIN rows
      /\ \A q \in DOMAIN rows : rows'[q].reason = rows[q].reason /\ rows'[q].ev = rows[q].ev
  BY <1>1 DEF RowType
<1>3. AssocPending' = AssocPending
  BY <1>2 DEF AssocPending, InScope
<1> QED BY <1>2, <1>3 DEF GuardOK, GuardGivesTwoTries, Takes

(* What a release changes.                                                 *)
LEMMA ReleasedRows ==
  ASSUME Ledger, NEW S, rows' = Released(S)
  PROVE  /\ DOMAIN rows' = DOMAIN rows
         /\ AssocPending' = AssocPending \ S
<1>1. \A q \in DOMAIN rows : rows[q] \in RowType
  BY RowTyped
<1>2. /\ DOMAIN rows' = DOMAIN rows
      /\ \A q \in DOMAIN rows : /\ q \notin S => rows'[q] = rows[q]
                                /\ q \in S => rows'[q].reason = "none" /\ rows'[q].ev = rows[q].ev
  BY <1>1 DEF Released, RowType
<1>3. \A q \in DOMAIN rows : q \in AssocPending' <=> q \in AssocPending /\ q \notin S
  BY <1>2 DEF AssocPending, InScope
<1>4. AssocPending \subseteq DOMAIN rows /\ AssocPending' \subseteq DOMAIN rows
  BY <1>2 DEF AssocPending
<1> QED BY <1>2, <1>3, <1>4

(* The round begins: no row waits any more.                                *)
LEMMA GuardRelease ==
  ASSUME Ledger, GuardOK, RetryRelease
  PROVE  GuardOK'
<1>1. CASE AssocPending = {}
  BY <1>1 DEF RetryRelease, GuardOK, GuardGivesTwoTries, AssocPending, InScope, restVars
<1>2. CASE AssocPending # {}
  <2>1. /\ rows' = Released(AssocPending) /\ pc' = "rescan"
        /\ UNCHANGED <<guard, last, batch, round, tries>>
    BY <1>2 DEF RetryRelease, restVars
  <2>2. DOMAIN rows' = DOMAIN rows /\ AssocPending' = {}
    BY <2>1, ReleasedRows
  <2> QED BY <2>1, <2>2 DEF GuardOK, GuardGivesTwoTries
<1> QED BY <1>1, <1>2

(* The round is over: its rows have one try more.                          *)
LEMMA GuardRetryDone ==
  ASSUME Ledger, GuardOK, RetryDone
  PROVE  GuardOK'
<1>1. /\ pc = "rebatch" /\ pc' = "publish" /\ last' = round /\ rows' = rows
      /\ guard' = (guard /\ ~Fruitless)
      /\ tries' = [r \in DOMAIN tries |-> IF r \in round /\ tries[r] < 2 THEN tries[r] + 1
                                          ELSE tries[r]]
  BY DEF RetryDone, dbVars
<1>2. DOMAIN tries = DOMAIN rows /\ tries \in Seq({0, 1, 2}) /\ round \subseteq DOMAIN rows
  BY DEF GuardOK, Ledger, RowsOK
<1>3. /\ DOMAIN tries' = DOMAIN rows
      /\ \A r \in DOMAIN rows : tries[r] \in {0, 1, 2} /\ tries'[r] \in {0, 1, 2}
      /\ \A r \in round : tries'[r] \in {1, 2} /\ (tries[r] \in {1, 2} => tries'[r] = 2)
      /\ \A r \in DOMAIN rows : tries[r] = 2 => tries'[r] = 2
  BY <1>1, <1>2
<1>4. tries' \in Seq({0, 1, 2})
  <2>1. DOMAIN tries' = 1 .. Len(tries)
    BY <1>2, <1>3
  <2> QED BY <1>1, <1>2, <1>3, <2>1
<1>5. AssocPending' = AssocPending /\ AssocPending \subseteq DOMAIN rows
  BY <1>1 DEF AssocPending, InScope
<1>6. GuardGivesTwoTries'
  <2>1. CASE ~guard
    BY <1>3, <1>5, <2>1 DEF GuardOK, GuardGivesTwoTries
  <2>2. CASE guard /\ Fruitless
    BY <1>1, <1>3, <1>5, <2>2 DEF GuardOK, GuardGivesTwoTries, Fruitless
  <2> QED BY <1>1, <2>1, <2>2 DEF GuardGivesTwoTries
<1> QED BY <1>1, <1>2, <1>3, <1>4, <1>5, <1>6 DEF GuardOK

(* A new row does not wait for its order.                                  *)
LEMMA GuardStage ==
  ASSUME Ledger, GuardOK, NEW ev \in Events, NEW hook, Stage(ev, hook)
  PROVE  GuardOK'
<1> DEFINE row == Row(ev, IF ScopeViolation(ev) THEN "scope_violation" ELSE "none")
<1>1. /\ rows' = Append(rows, row) /\ tries' = Append(tries, 0)
      /\ UNCHANGED <<pc, batch, round, guard, last>>
      /\ rows \in Seq(RowType) /\ tries \in Seq({0, 1, 2}) /\ DOMAIN tries = DOMAIN rows
  BY DEF Stage, workVars, Ledger, RowsOK, GuardOK
<1>2. row.reason # "association_pending"
  BY DEF Row
<1> HIDE DEF row
<1>3. /\ DOMAIN rows \subseteq DOMAIN rows' /\ \A r \in DOMAIN rows : rows'[r] = rows[r]
      /\ \A r \in DOMAIN rows' \ DOMAIN rows : rows'[r] = row
  BY <1>1
<1>4. /\ DOMAIN tries' = DOMAIN rows' /\ tries' \in Seq({0, 1, 2})
      /\ \A r \in DOMAIN rows : tries'[r] = tries[r]
  BY <1>1
<1>5. AssocPending' = AssocPending /\ AssocPending \subseteq DOMAIN rows
  BY <1>2, <1>3 DEF AssocPending, InScope
<1> QED BY <1>1, <1>3, <1>4, <1>5 DEF GuardOK, GuardGivesTwoTries

(* Every step keeps the count of rounds.                                   *)
LEMMA GuardStep == Ledger /\ GuardOK /\ [Next]_vars => GuardOK'
<1> SUFFICES ASSUME Ledger, GuardOK, [Next]_vars PROVE GuardOK'
  OBVIOUS
<1>1. ASSUME NEW ev \in Events, NEW hook \in Hooks, Stage(ev, hook) PROVE GuardOK'
  BY <1>1, GuardStage
<1>2. ASSUME NEW r \in batch, Process(r) PROVE GuardOK'
  <2>1. CASE Quarantine(r)
    BY <2>1, GuardQuarantine
  <2>2. CASE BookDeal(r) \/ SkipDeal(r) \/ ApplyReport(r)
    BY <2>2, GuardMark DEF BookDeal, SkipDeal, ApplyReport, Landed, restVars
  <2> QED BY <1>2, <2>1, <2>2 DEF Process
<1>3. CASE RetryRelease
  BY <1>3, GuardRelease
<1>4. CASE RetryDone
  BY <1>4, GuardRetryDone
<1>5. CASE RetryScan
  <2>1. AssocPending' = AssocPending /\ AssocPending = {}
    BY <1>5 DEF RetryScan, dbVars, AssocPending, InScope, GuardOK
  <2> QED BY <1>5, <2>1 DEF RetryScan, dbVars, restVars, GuardOK, GuardGivesTwoTries
<1>6. ASSUME NEW r \in DOMAIN rows, WatchdogReleases(r) PROVE GuardOK'
  <2>1. /\ rows' = Released({q \in AssocPending : q <= r})
        /\ UNCHANGED <<tries, last, pc, round, batch, guard>>
    BY <1>6 DEF WatchdogReleases, workVars
  <2>2. DOMAIN rows' = DOMAIN rows /\ AssocPending' \subseteq AssocPending
    BY <2>1, ReleasedRows
  <2> QED BY <2>1, <2>2 DEF GuardOK, GuardGivesTwoTries
<1>7. CASE Crash
  BY <1>7 DEF Crash, dbVars, GuardOK, GuardGivesTwoTries
<1>8. CASE /\ UNCHANGED <<rows, tries, last, round, guard>> /\ batch' \subseteq batch
           /\ pc' \in {"rescan", "rebatch"} => pc' = pc
  <2>1. AssocPending' = AssocPending
    BY <1>8 DEF AssocPending, InScope
  <2> QED BY <1>8, <2>1 DEF GuardOK, GuardGivesTwoTries
<1>9. CASE Begin \/ End \/ BatchDone \/ Publish \/ Wakes \/ RetryFails
  BY <1>8, <1>9 DEF Begin, End, BatchDone, Publish, Wakes, RetryFails, dbVars, restVars
<1>10. CASE ScanBatch
  <2>1. AssocPending' = AssocPending
    BY <1>10 DEF ScanBatch, dbVars, AssocPending, InScope
  <2> QED BY <1>10, <2>1 DEF ScanBatch, dbVars, restVars, GuardOK, GuardGivesTwoTries
<1>11. ASSUME NEW r \in batch, LeaveRow(r) PROVE GuardOK'
  BY <1>8, <1>11 DEF LeaveRow, dbVars
<1>12. CASE Notify \/ WatchdogAsks \/ StopAsked \/ Drained \/ DrainTimesOut \/ Connect \/ Load
            \/ ReadEvent \/ Disconnect \/ UNCHANGED vars
  BY <1>8, <1>12
     DEF Notify, WatchdogAsks, StopAsked, Drained, DrainTimesOut, Connect, Load, ReadEvent,
         Disconnect, vars, dbVars, workVars, restVars
<1>13. ASSUME NEW o \in Orders, AckOrder(o) PROVE GuardOK'
  BY <1>8, <1>13 DEF AckOrder, workVars, restVars
<1> QED
  BY <1>1, <1>2, <1>3, <1>4, <1>5, <1>6, <1>7, <1>9, <1>10, <1>11, <1>12, <1>13
     DEF Next, Worker

(* No row is handed to the watchdog's five minutes before two rounds have  *)
(* tried it: an unrelated report in between does not use up its chance.    *)
THEOREM TwoRoundsEach == Spec => []GuardGivesTwoTries
<1>1. GuardOK => GuardGivesTwoTries
  BY DEF GuardOK
<1>2. Ledger /\ GuardOK /\ [Next]_vars => (Ledger /\ GuardOK)'
  BY LedgerStep, GuardStep
<1> QED BY LedgerInit, GuardInit, <1>1, <1>2, PTL DEF Spec

-----------------------------------------------------------------------------
(* The wake-up.  A worker on its way to sleep has been through every row   *)
(* of its scan without finishing one, so whatever it could still find is   *)
(* newer than the scan, and announced, or is known to be slow.             *)

WakeOK ==
  /\ pc \in PCs
  /\ pc \in {"retry", "rescan", "rebatch"} => handled
  /\ landed => handled
  /\ pc \in {"retry", "rescan", "publish", "wait"} => batch = {}
  /\ pc = "wait" => ~handled
  /\ (pc \in {"batch", "publish", "wait"} /\ ~handled /\ batch = {} /\ ~wake /\ ~posted)
       => Unprocessed \subseteq slow

(* A set of ids has a smallest one.                                        *)
LEMMA LeastRow ==
  ASSUME NEW T \in SUBSET Nat, T # {}
  PROVE  \E x \in T : \A y \in T : x <= y
<1> DEFINE R == OpToRel(<, Nat)
<1>1. IsWellFoundedOn(R, Nat)
  BY NatLessThanWellFounded
<1>2. \A x, y \in Nat : <<x, y>> \in R <=> x < y
  BY DEF OpToRel
<1> HIDE DEF R
<1>3. PICK x \in T : \A y \in T : <<y, x>> \notin R
  BY <1>1, WFMin
<1>4. ASSUME NEW y \in T PROVE x <= y
  <2>1. x \in Nat /\ y \in Nat
    BY <1>3
  <2>2. ~(y < x)
    BY <1>2, <1>3, <2>1
  <2> HIDE <1>2, <1>3
  <2> QED BY <2>1, <2>2
<1> QED BY <1>3, <1>4

(* A scan finds something when there is something to find.                 *)
LEMMA ScanEmpty ==
  ASSUME Ledger, Scan = {}
  PROVE  Unprocessed = {}
<1> SUFFICES ASSUME Unprocessed # {} PROVE FALSE
  OBVIOUS
<1>1. Unprocessed \in SUBSET Nat
  BY DEF Unprocessed, Ledger, RowsOK
<1>2. PICK r \in Unprocessed : \A q \in Unprocessed : r <= q
  BY <1>1, LeastRow
<1>3. {q \in Unprocessed : q < r} = {}
  <2>1. ASSUME NEW q \in Unprocessed PROVE ~(q < r)
    <3>1. q \in Nat /\ r \in Nat /\ r <= q
      BY <1>1, <1>2
    <3> QED BY <3>1
  <2> QED BY <2>1
<1>4. Cardinality({q \in Unprocessed : q < r}) = 0
  BY <1>3, FS_EmptySet
<1>5. 0 < BatchLimit
  BY BoundsAssumption
<1>6. r \in Scan
  BY <1>2, <1>4, <1>5 DEF Scan
<1> QED BY <1>6

(* The worker does not sleep yet.                                          *)
LEMMA WakeInit == Init => WakeOK
BY DEF Init, WakeOK, PCs

(* A new row is announced, or known to be slow.                            *)
LEMMA WakeStage ==
  ASSUME Ledger, WakeOK, NEW ev \in Events, NEW hook \in Hooks, Stage(ev, hook)
  PROVE  WakeOK'
<1> DEFINE row == Row(ev, IF ScopeViolation(ev) THEN "scope_violation" ELSE "none")
<1>1. /\ rows \in Seq(RowType) /\ rows' = Append(rows, row)
      /\ posted' = (posted \/ hook)
      /\ slow' = IF hook THEN slow ELSE slow \cup {Len(rows) + 1}
      /\ UNCHANGED <<pc, handled, landed, batch, wake>>
  BY DEF Stage, workVars, Ledger, RowsOK
<1> HIDE DEF row
<1>2. /\ DOMAIN rows' = DOMAIN rows \cup {Len(rows) + 1}
      /\ \A r \in DOMAIN rows : rows'[r] = rows[r]
  BY <1>1
<1>3. Unprocessed' \subseteq Unprocessed \cup {Len(rows) + 1}
  BY <1>2 DEF Unprocessed, Quarantined, InScope
<1>4. hook \in BOOLEAN
  BY BoundsAssumption
<1> QED BY <1>1, <1>3, <1>4 DEF WakeOK

(* Every step keeps the worker told.                                       *)
LEMMA WakeStep == Ledger /\ WakeOK /\ [Next]_vars => WakeOK'
<1> SUFFICES ASSUME Ledger, WakeOK, [Next]_vars PROVE WakeOK'
  OBVIOUS
<1> USE DEF PCs
<1>1. ASSUME NEW ev \in Events, NEW hook \in Hooks, Stage(ev, hook) PROVE WakeOK'
  BY <1>1, WakeStage
<1>2. ASSUME NEW r \in batch, Process(r) PROVE WakeOK'
  BY <1>2 DEF Process, BookDeal, SkipDeal, ApplyReport, Quarantine, Takes, Landed, WakeOK
<1>3. CASE ScanBatch
  <2>1. Unprocessed' = Unprocessed
    BY <1>3 DEF ScanBatch, dbVars, Unprocessed, Quarantined, InScope
  <2> QED BY <1>3, <2>1, ScanEmpty DEF ScanBatch, WakeOK
<1>4. CASE RetryRelease
  BY <1>4 DEF RetryRelease, WakeOK
<1>5. ASSUME NEW r \in DOMAIN rows, WatchdogReleases(r) PROVE WakeOK'
  <2> DEFINE S == {q \in AssocPending : q <= r}
  <2>1. /\ rows' = Released(S) /\ slow' = slow \cup S
        /\ UNCHANGED <<pc, handled, landed, batch, wake, posted>>
    BY <1>5 DEF WatchdogReleases, workVars
  <2> HIDE DEF S
  <2>2. /\ DOMAIN rows' = DOMAIN rows
        /\ \A q \in DOMAIN rows : q \notin S => rows'[q] = rows[q]
    BY <2>1 DEF Released
  <2>3. Unprocessed' \subseteq Unprocessed \cup S
    BY <2>2 DEF Unprocessed, Quarantined, InScope
  <2> QED BY <2>1, <2>3 DEF WakeOK
<1>6. ASSUME NEW r \in batch, LeaveRow(r) PROVE WakeOK'
  <2>1. Unprocessed' = Unprocessed
    BY <1>6 DEF LeaveRow, dbVars, Unprocessed, Quarantined, InScope
  <2> QED BY <1>6, <2>1 DEF LeaveRow, Takes, WakeOK
<1>7. CASE Notify
  <2>1. Unprocessed' = Unprocessed
    BY <1>7 DEF Notify, dbVars, Unprocessed, Quarantined, InScope
  <2> QED BY <1>7, <2>1 DEF Notify, workVars, WakeOK
<1>8. CASE Begin \/ End \/ RetryScan \/ RetryDone \/ Wakes \/ RetryFails \/ Crash
  BY <1>8 DEF Begin, End, RetryScan, RetryDone, Wakes, RetryFails, Crash, WakeOK
<1>9. CASE BatchDone \/ Publish
  <2>1. Unprocessed' = Unprocessed
    BY <1>9 DEF BatchDone, Publish, dbVars, Unprocessed, Quarantined, InScope
  <2> QED BY <1>9, <2>1 DEF BatchDone, Publish, restVars, WakeOK
<1>10. CASE UNCHANGED <<rows, pc, handled, landed, batch, wake, posted, slow>>
  <2>1. Unprocessed' = Unprocessed
    BY <1>10 DEF Unprocessed, Quarantined, InScope
  <2> QED BY <1>10, <2>1 DEF WakeOK
<1>11. CASE WatchdogAsks \/ StopAsked \/ Drained \/ DrainTimesOut \/ Connect \/ Load \/ ReadEvent
            \/ Disconnect \/ UNCHANGED vars
  BY <1>10, <1>11 DEF WatchdogAsks, StopAsked, Drained, DrainTimesOut, Connect, Load, ReadEvent,
                      Disconnect, vars, dbVars, workVars, restVars
<1>12. ASSUME NEW o \in Orders, AckOrder(o) PROVE WakeOK'
  BY <1>10, <1>12 DEF AckOrder, workVars, restVars
<1> QED
  BY <1>1, <1>2, <1>3, <1>4, <1>5, <1>6, <1>7, <1>8, <1>9, <1>11, <1>12 DEF Next, Worker

(* The order of clear, scan and sleep loses no wake-up.                    *)
THEOREM WakeIsNotLost == Spec => []NoLostWake
<1>1. WakeOK => NoLostWake
  BY DEF WakeOK, NoLostWake
<1>2. Ledger /\ WakeOK /\ [Next]_vars => (Ledger /\ WakeOK)'
  BY LedgerStep, WakeStep
<1> QED BY LedgerInit, WakeInit, <1>1, <1>2, PTL DEF Spec

-----------------------------------------------------------------------------
(* The books.  A scope's positions, open and closed, hold what its deals   *)
(* brought, account by account.                                            *)

Trip == [dir : Directions, pos : Position]
BookType == [open : [Directions -> Position], trips : Seq(Trip)]

(* An open row has something left; a direction without one has nothing.    *)
BookOK(b) ==
  /\ b \in BookType
  /\ \A d \in Directions : b.open[d] = NoPosition \/ b.open[d].closed < b.open[d].opened

(* What n lots for the amount v and a fee add to an account.               *)
Gain(w, action, n, v, fee) ==
  CASE w = "bought"   -> IF action = "Buy" THEN n ELSE 0
    [] w = "sold"     -> IF action = "Sell" THEN n ELSE 0
    [] w = "paid"     -> IF action = "Buy" THEN v ELSE 0
    [] w = "received" -> IF action = "Sell" THEN v ELSE 0
    [] w = "fees"     -> fee

TripAmounts(w, trips) ==
  [i \in DOMAIN trips |-> OfPosition(w, trips[i].dir, trips[i].pos)]
OfTrips(w, trips) == SumOver(TripAmounts(w, trips), DOMAIN trips)

(* Positions, trips and gains are counted in natural numbers.              *)
LEMMA PositionNat ==
  ASSUME NEW w \in Accounts, NEW dir \in Directions, NEW p \in Position
  PROVE  OfPosition(w, dir, p) \in Nat
BY DEF Accounts, Directions, Position, OfPosition

(* A position with nothing opened adds nothing.                            *)
LEMMA NothingYet ==
  ASSUME NEW w \in Accounts, NEW dir \in Directions
  PROVE  NoPosition \in Position /\ OfPosition(w, dir, NoPosition) = 0
BY DEF Accounts, Directions, Position, NoPosition, OfPosition

(* What lots, an amount and a fee add is a number,                         *)
LEMMA GainInt ==
  ASSUME NEW w \in Accounts, NEW action \in {"Buy", "Sell"}, NEW n \in Int, NEW v \in Int, NEW fee \in Int
  PROVE  Gain(w, action, n, v, fee) \in Int
BY DEF Accounts, Gain

(* and it adds up: two parts of a fill are worth the whole.                *)
LEMMA GainTwice ==
  ASSUME NEW w \in Accounts, NEW action \in {"Buy", "Sell"},
         NEW n \in Int, NEW v \in Int, NEW fee \in Int,
         NEW m \in Int, NEW u \in Int, NEW more \in Int
  PROVE  Gain(w, action, n, v, fee) + Gain(w, action, m, u, more)
           = Gain(w, action, n + m, v + u, fee + more)
BY DEF Accounts, Gain

(* A finite number of round trips, each worth a number.                    *)
LEMMA TripsFinite ==
  ASSUME NEW trips \in Seq(Trip)
  PROVE  /\ IsFiniteSet(DOMAIN trips)
         /\ \A w \in Accounts, i \in DOMAIN trips : TripAmounts(w, trips)[i] \in Nat
<1>1. Len(trips) \in Nat /\ DOMAIN trips = 1 .. Len(trips)
  OBVIOUS
<1>2. IsFiniteSet(1 .. Len(trips))
  BY <1>1, FS_Interval
<1>3. \A i \in DOMAIN trips : trips[i] \in Trip
  OBVIOUS
<1>4. ASSUME NEW w \in Accounts, NEW i \in DOMAIN trips PROVE TripAmounts(w, trips)[i] \in Nat
  <2>1. trips[i].dir \in Directions /\ trips[i].pos \in Position
    BY <1>3 DEF Trip
  <2> QED BY <2>1, PositionNat DEF TripAmounts
<1> QED BY <1>1, <1>2, <1>4

(* So is their sum.                                                        *)
LEMMA TripsNat ==
  ASSUME NEW trips \in Seq(Trip), NEW w \in Accounts
  PROVE  OfTrips(w, trips) \in Nat
BY TripsFinite, SumNat DEF OfTrips

(* One more round trip.                                                    *)
LEMMA TripAdded ==
  ASSUME NEW trips \in Seq(Trip), NEW t \in Trip, NEW w \in Accounts
  PROVE  /\ Append(trips, t) \in Seq(Trip)
         /\ OfTrips(w, Append(trips, t)) = OfTrips(w, trips) + OfPosition(w, t.dir, t.pos)
<1> DEFINE more == Append(trips, t)
           n == Len(trips) + 1
           D == DOMAIN trips
           f == TripAmounts(w, trips)
           g == TripAmounts(w, more)
<1>1. /\ more \in Seq(Trip) /\ D = 1 .. Len(trips) /\ DOMAIN more = D \cup {n} /\ n \notin D
      /\ more[n] = t /\ \A i \in D : more[i] = trips[i]
  OBVIOUS
<1>2. g[n] = OfPosition(w, t.dir, t.pos) /\ \A i \in D : g[i] = f[i]
  BY <1>1 DEF TripAmounts
<1>3. IsFiniteSet(D) /\ \A i \in D \cup {n} : g[i] \in Int
  <2>1. \A i \in DOMAIN more : g[i] \in Nat
    BY <1>1, TripsFinite
  <2> QED BY <1>1, <2>1, TripsFinite
<1>4. OfTrips(w, trips) = SumOver(f, D) /\ OfTrips(w, more) = SumOver(g, D \cup {n})
  BY <1>1 DEF OfTrips
<1> HIDE DEF more, n, D, f, g
<1>5. SumOver(g, D \cup {n}) = SumOver(g, D) + g[n]
  BY <1>1, <1>3, SumAdd
<1>6. SumOver(f, D) = SumOver(g, D)
  BY <1>2, <1>3, SumEqual
<1> QED BY <1>1, <1>2, <1>4, <1>5, <1>6 DEF more

(* An account of a book: the two rows and the round trips.                 *)
LEMMA InBookIs ==
  ASSUME NEW b, NEW w, NEW d \in Directions
  PROVE  InBook(w, b) = OfPosition(w, "long", b.open["long"])
                        + OfPosition(w, "short", b.open["short"]) + OfTrips(w, b.trips)
BY DEF InBook, OfTrips, TripAmounts

(* A row replaced by another, the round trips extended or not.             *)
LEMMA RowReplaced ==
  ASSUME NEW b \in BookType, NEW c \in BookType, NEW w \in Accounts, NEW d \in Directions,
         \A e \in Directions : e # d => c.open[e] = b.open[e]
  PROVE  InBook(w, c) - InBook(w, b)
           = (OfPosition(w, d, c.open[d]) - OfPosition(w, d, b.open[d]))
             + (OfTrips(w, c.trips) - OfTrips(w, b.trips))
<1>1. /\ b.open \in [Directions -> Position] /\ c.open \in [Directions -> Position]
      /\ b.trips \in Seq(Trip) /\ c.trips \in Seq(Trip)
  BY DEF BookType
<1>2. "long" \in Directions /\ "short" \in Directions /\ d \in {"long", "short"}
  BY DEF Directions
<1>3. /\ OfPosition(w, "long", b.open["long"]) \in Nat /\ OfPosition(w, "short", b.open["short"]) \in Nat
      /\ OfPosition(w, "long", c.open["long"]) \in Nat /\ OfPosition(w, "short", c.open["short"]) \in Nat
  BY <1>1, <1>2, PositionNat
<1>4. OfTrips(w, b.trips) \in Nat /\ OfTrips(w, c.trips) \in Nat
  BY <1>1, TripsNat
<1>5. CASE d = "long"
  <2>1. c.open["short"] = b.open["short"]
    BY <1>2, <1>5
  <2> QED BY <1>2, <1>3, <1>4, <1>5, <2>1, InBookIs
<1>6. CASE d = "short"
  <2>1. c.open["long"] = b.open["long"]
    BY <1>2, <1>6
  <2> QED BY <1>2, <1>3, <1>4, <1>6, <2>1, InBookIs
<1> QED BY <1>2, <1>5, <1>6

(* An account is a natural number.                                         *)
LEMMA InBookNat ==
  ASSUME NEW b \in BookType, NEW w \in Accounts
  PROVE  InBook(w, b) \in Nat
<1>1. /\ "long" \in Directions /\ "short" \in Directions
      /\ b.open \in [Directions -> Position] /\ b.trips \in Seq(Trip)
  BY DEF BookType, Directions
<1>2. /\ OfPosition(w, "long", b.open["long"]) \in Nat
      /\ OfPosition(w, "short", b.open["short"]) \in Nat /\ OfTrips(w, b.trips) \in Nat
  BY <1>1, PositionNat, TripsNat
<1> QED BY <1>1, <1>2, InBookIs

(* A row with n lots more, opened or covered.                              *)
Extended(p, n, v, fee) == [p EXCEPT !.opened = @ + n, !.entry = @ + v, !.openFee = @ + fee]

OpenedMore(p, q, n, v, fee) ==
  /\ q \in Position
  /\ q.opened = p.opened + n /\ q.entry = p.entry + v /\ q.openFee = p.openFee + fee
  /\ q.closed = p.closed /\ q.exit = p.exit /\ q.closeFee = p.closeFee

CoveredMore(p, q, n, v, fee) ==
  /\ q \in Position
  /\ q.closed = p.closed + n /\ q.exit = p.exit + v /\ q.closeFee = p.closeFee + fee
  /\ q.opened = p.opened /\ q.entry = p.entry /\ q.openFee = p.openFee

(* What _open_qty changes in a row,                                        *)
LEMMA RowOpened ==
  ASSUME NEW p \in Position, NEW n \in Nat, NEW v \in Nat, NEW fee \in Nat
  PROVE  OpenedMore(p, Extended(p, n, v, fee), n, v, fee)
<1> DEFINE q == Extended(p, n, v, fee)
           x == p.opened + n  y == p.entry + v  z == p.openFee + fee
<1>1. x \in Nat /\ y \in Nat /\ z \in Nat
  BY DEF Position
<1>2. q = [p EXCEPT !.opened = x, !.entry = y, !.openFee = z]
  BY DEF Extended
<1> HIDE DEF x, y, z, q
<1>3. q \in Position
  BY <1>1, <1>2 DEF Position
<1>4. q.opened = x
  BY <1>1, <1>2 DEF Position
<1>5. q.entry = y
  BY <1>1, <1>2 DEF Position
<1>6. q.openFee = z
  BY <1>1, <1>2 DEF Position
<1>7. q.closed = p.closed
  BY <1>1, <1>2 DEF Position
<1>8. q.exit = p.exit
  BY <1>1, <1>2 DEF Position
<1>9. q.closeFee = p.closeFee
  BY <1>1, <1>2 DEF Position
<1>10. OpenedMore(p, q, n, v, fee)
  BY <1>3, <1>4, <1>5, <1>6, <1>7, <1>8, <1>9 DEF x, y, z, OpenedMore
<1> QED BY <1>10 DEF q

(* and what covering changes.                                              *)
LEMMA RowCovered ==
  ASSUME NEW p \in Position, NEW n \in Nat, NEW price \in Nat, NEW fee \in Nat,
         price * n \in Nat
  PROVE  CoveredMore(p, Covered(p, n, price, fee), n, price * n, fee)
<1> DEFINE q == Covered(p, n, price, fee)
           x == p.closed + n  y == p.exit + price * n  z == p.closeFee + fee
<1>1. x \in Nat /\ y \in Nat /\ z \in Nat
  BY DEF Position
<1>2. q = [p EXCEPT !.closed = x, !.exit = y, !.closeFee = z]
  BY DEF Covered
<1> HIDE DEF x, y, z, q
<1>3. q \in Position
  BY <1>1, <1>2 DEF Position
<1>4. q.closed = x
  BY <1>1, <1>2 DEF Position
<1>5. q.exit = y
  BY <1>1, <1>2 DEF Position
<1>6. q.closeFee = z
  BY <1>1, <1>2 DEF Position
<1>7. q.opened = p.opened
  BY <1>1, <1>2 DEF Position
<1>8. q.entry = p.entry
  BY <1>1, <1>2 DEF Position
<1>9. q.openFee = p.openFee
  BY <1>1, <1>2 DEF Position
<1>10. CoveredMore(p, q, n, price * n, fee)
  BY <1>3, <1>4, <1>5, <1>6, <1>7, <1>8, <1>9 DEF x, y, z, CoveredMore
<1> QED BY <1>10 DEF q

(* A row that is opened further gains what was opened,                     *)
LEMMA OpenedAmounts ==
  ASSUME NEW p \in Position, NEW q \in Position, NEW n \in Nat, NEW v \in Nat, NEW fee \in Nat,
         OpenedMore(p, q, n, v, fee),
         NEW w \in Accounts, NEW action \in {"Buy", "Sell"}
  PROVE  OfPosition(w, Opens(action), q) = OfPosition(w, Opens(action), p) + Gain(w, action, n, v, fee)
<1>1. /\ p.opened \in Nat /\ p.closed \in Nat /\ p.entry \in Nat /\ p.exit \in Nat
      /\ p.openFee \in Nat /\ p.closeFee \in Nat
  BY DEF Position
<1>2. CASE w \in {"bought", "sold"}
  BY <1>1, <1>2 DEF OpenedMore, OfPosition, Gain, Opens
<1>3. CASE w \in {"paid", "received"}
  BY <1>1, <1>3 DEF OpenedMore, OfPosition, Gain, Opens
<1>4. CASE w = "fees"
  BY <1>1, <1>4 DEF OpenedMore, OfPosition, Gain
<1> QED BY <1>2, <1>3, <1>4 DEF Accounts

(* and one that is covered further gains what covered it.                  *)
LEMMA CoveredAmounts ==
  ASSUME NEW p \in Position, NEW q \in Position, NEW n \in Nat, NEW v \in Nat, NEW fee \in Nat,
         CoveredMore(p, q, n, v, fee),
         NEW w \in Accounts, NEW action \in {"Buy", "Sell"}
  PROVE  OfPosition(w, Covers(action), q) = OfPosition(w, Covers(action), p) + Gain(w, action, n, v, fee)
<1>1. /\ p.opened \in Nat /\ p.closed \in Nat /\ p.entry \in Nat /\ p.exit \in Nat
      /\ p.openFee \in Nat /\ p.closeFee \in Nat
  BY DEF Position
<1>2. CASE w \in {"bought", "sold"}
  BY <1>1, <1>2 DEF CoveredMore, OfPosition, Gain, Covers, Opens, Opposite
<1>3. CASE w \in {"paid", "received"}
  BY <1>1, <1>3 DEF CoveredMore, OfPosition, Gain, Covers, Opens, Opposite
<1>4. CASE w = "fees"
  BY <1>1, <1>4 DEF CoveredMore, OfPosition, Gain
<1> QED BY <1>2, <1>3, <1>4 DEF Accounts

(* _open_qty: a row gets the lots, the amount and the fee.                 *)
LEMMA OpenAdds ==
  ASSUME NEW b, BookOK(b), NEW action \in {"Buy", "Sell"},
         NEW n \in Nat, n # 0, NEW price \in Nat, NEW fee \in Nat
  PROVE  LET c == OpenQty(b, Opens(action), n, price, fee)
         IN /\ BookOK(c)
            /\ \A w \in Accounts : InBook(w, c) = InBook(w, b) + Gain(w, action, n, price * n, fee)
<1>1. PICK v \in Nat : v = price * n
  OBVIOUS
<1>2. PICK d \in Directions : d = Opens(action)
  BY DEF Directions, Opens
<1>3. /\ b \in BookType /\ b.open \in [Directions -> Position] /\ b.trips \in Seq(Trip)
      /\ b.open[d] = NoPosition \/ b.open[d].closed < b.open[d].opened
  BY DEF BookOK, BookType
<1>p. PICK p \in Position : p = b.open[d]
  BY <1>3
<1>q. PICK q : q = Extended(p, n, v, fee)
  OBVIOUS
<1>r. OpenedMore(p, q, n, v, fee)
  BY <1>q, RowOpened
<1>s. q \in Position /\ q.opened = p.opened + n /\ q.closed = p.closed
  BY <1>r DEF OpenedMore
<1>c. PICK c : c = OpenQty(b, Opens(action), n, price, fee)
  OBVIOUS
<1>d. c = [b EXCEPT !.open = [b.open EXCEPT ![d] = q]]
  <2>1. PICK x, y, z : x = p.opened + n /\ y = p.entry + v /\ z = p.openFee + fee
    OBVIOUS
  <2>2. c = [b EXCEPT !.open[d].opened = x, !.open[d].entry = y, !.open[d].openFee = z]
    BY <1>1, <1>2, <1>p, <1>c, <2>1 DEF OpenQty
  <2>3. q = [p EXCEPT !.opened = x, !.entry = y, !.openFee = z]
    BY <1>q, <2>1 DEF Extended
  <2> QED BY <1>3, <1>p, <2>2, <2>3 DEF BookType, Position
<1>4. q.closed < q.opened
  <2>1. p.opened \in Nat /\ p.closed \in Nat /\ p.closed <= p.opened
    BY <1>3, <1>p DEF Position, NoPosition
  <2> QED BY <2>1, <1>s
<1>5. \A w \in Accounts : OfPosition(w, d, q) = OfPosition(w, d, p) + Gain(w, action, n, v, fee)
  BY <1>2, <1>r, <1>s, OpenedAmounts
<1>6. /\ c \in BookType /\ c.open[d] = q /\ c.trips = b.trips
      /\ \A e \in Directions : e # d => c.open[e] = b.open[e]
  BY <1>3, <1>d, <1>s DEF BookType
<1>7. BookOK(c)
  BY <1>4, <1>6 DEF BookOK
<1>8. ASSUME NEW w \in Accounts
      PROVE  InBook(w, c) = InBook(w, b) + Gain(w, action, n, v, fee)
  <2>1. InBook(w, c) - InBook(w, b)
          = (OfPosition(w, d, q) - OfPosition(w, d, p)) + (OfTrips(w, b.trips) - OfTrips(w, b.trips))
    BY <1>3, <1>6, <1>p, RowReplaced
  <2>2. /\ InBook(w, c) \in Nat /\ InBook(w, b) \in Nat /\ Gain(w, action, n, v, fee) \in Int
        /\ OfPosition(w, d, p) \in Nat /\ OfPosition(w, d, q) \in Nat /\ OfTrips(w, b.trips) \in Nat
    BY <1>3, <1>s, <1>6, InBookNat, PositionNat, GainInt, TripsNat
  <2> QED BY <1>5, <2>1, <2>2
<1> QED BY <1>1, <1>7, <1>8, <1>c

(* _close and _finalize: a row covered in part or, as a round trip, whole.  *)
LEMMA CloseAdds ==
  ASSUME NEW b, BookOK(b), NEW action \in {"Buy", "Sell"}, IsOpen(b, Covers(action)),
         NEW n \in Nat, n # 0, n <= Remaining(b.open[Covers(action)]),
         NEW price \in Nat, NEW fee \in Nat
  PROVE  LET c == CloseQty(b, Covers(action), n, price, fee)
         IN /\ BookOK(c)
            /\ \A w \in Accounts : InBook(w, c) = InBook(w, b) + Gain(w, action, n, price * n, fee)
<1>1. PICK v \in Nat : v = price * n
  OBVIOUS
<1>2. PICK d \in Directions : d = Covers(action)
  BY DEF Directions, Opens, Covers, Opposite
<1>3. b \in BookType /\ b.open \in [Directions -> Position] /\ b.trips \in Seq(Trip)
  BY DEF BookOK, BookType
<1>p. PICK p \in Position : p = b.open[d]
  BY <1>3
<1>q. PICK q : q = Covered(p, n, price, fee)
  OBVIOUS
<1>r. CoveredMore(p, q, n, v, fee)
  BY <1>1, <1>q, RowCovered
<1>s. q \in Position
  BY <1>r DEF CoveredMore
<1>c. PICK c : c = CloseQty(b, Covers(action), n, price, fee)
  OBVIOUS
<1>t. PICK t : t = [dir |-> d, pos |-> q]
  OBVIOUS
<1>4. c = IF q.closed >= q.opened
          THEN [open |-> [b.open EXCEPT ![d] = NoPosition], trips |-> Append(b.trips, t)]
          ELSE [b EXCEPT !.open = [b.open EXCEPT ![d] = q]]
  BY <1>2, <1>3, <1>p, <1>q, <1>c, <1>t DEF CloseQty, BookType
<1>5. \A w \in Accounts : OfPosition(w, d, q) = OfPosition(w, d, p) + Gain(w, action, n, v, fee)
  BY <1>2, <1>r, <1>s, CoveredAmounts
<1>6. t \in Trip /\ t.dir = d /\ t.pos = q
  BY <1>s, <1>t DEF Trip
<1>7. ASSUME NEW w \in Accounts
      PROVE  /\ OfPosition(w, d, p) \in Nat /\ OfPosition(w, d, q) \in Nat
             /\ OfTrips(w, b.trips) \in Nat /\ InBook(w, b) \in Nat
             /\ Gain(w, action, n, v, fee) \in Int
  BY <1>3, <1>s, InBookNat, PositionNat, GainInt, TripsNat
<1>8. CASE q.closed >= q.opened
  <2>1. /\ c \in BookType /\ c.open[d] = NoPosition /\ c.trips = Append(b.trips, t)
        /\ \A e \in Directions : e # d => c.open[e] = b.open[e]
    <3>1. c = [open |-> [b.open EXCEPT ![d] = NoPosition], trips |-> Append(b.trips, t)]
      BY <1>4, <1>8
    <3>2. NoPosition \in Position
      BY DEF NoPosition, Position
    <3>3. Append(b.trips, t) \in Seq(Trip)
      BY <1>3, <1>6
    <3> QED BY <1>3, <3>1, <3>2, <3>3 DEF BookType
  <2>2. BookOK(c)
    BY <2>1 DEF BookOK
  <2>3. ASSUME NEW w \in Accounts
        PROVE  InBook(w, c) = InBook(w, b) + Gain(w, action, n, v, fee)
    <3>1. InBook(w, c) - InBook(w, b)
            = (OfPosition(w, d, NoPosition) - OfPosition(w, d, p))
              + (OfTrips(w, c.trips) - OfTrips(w, b.trips))
      BY <1>3, <2>1, <1>p, RowReplaced
    <3>2. OfTrips(w, c.trips) = OfTrips(w, b.trips) + OfPosition(w, d, q)
      BY <1>3, <1>6, <2>1, TripAdded
    <3>3. OfPosition(w, d, NoPosition) = 0 /\ InBook(w, c) \in Nat
      BY <1>3, <2>1, NothingYet, InBookNat
    <3> QED BY <1>5, <1>7, <3>1, <3>2, <3>3
  <2> QED BY <2>2, <2>3, <1>1, <1>c
<1>9. CASE ~(q.closed >= q.opened)
  <2>1. /\ c \in BookType /\ c.open[d] = q /\ c.trips = b.trips
        /\ \A e \in Directions : e # d => c.open[e] = b.open[e]
    BY <1>3, <1>s, <1>4, <1>9 DEF BookType
  <2>2. BookOK(c)
    <3>1. q.closed < q.opened
      BY <1>s, <1>9 DEF Position
    <3> QED BY <2>1, <3>1 DEF BookOK
  <2>3. ASSUME NEW w \in Accounts
        PROVE  InBook(w, c) = InBook(w, b) + Gain(w, action, n, v, fee)
    <3>1. InBook(w, c) - InBook(w, b)
            = (OfPosition(w, d, q) - OfPosition(w, d, p)) + (OfTrips(w, b.trips) - OfTrips(w, b.trips))
      BY <1>3, <2>1, <1>p, RowReplaced
    <3>2. InBook(w, c) \in Nat
      BY <2>1, InBookNat
    <3> QED BY <1>5, <1>7, <3>1, <3>2
  <2> QED BY <2>2, <2>3, <1>1, <1>c
<1> QED BY <1>8, <1>9

(* The part of a fee that falls to the excess is no more than the fee.     *)
LEMMA ShareOfFee ==
  ASSUME NEW fee \in Nat, NEW n \in Nat, n # 0, NEW m \in Nat, m <= n
  PROVE  (fee * m) \div n \in Nat /\ (fee * m) \div n <= fee
<1>1. fee * m \in Nat /\ fee * m <= fee * n
  OBVIOUS
<1>2. (fee * m) \div n \in Nat
  BY <1>1
<1> QED BY <1>1, <1>2

(* An estimated fee is a natural number.                                   *)
LEMMA EstimateNat ==
  ASSUME NEW o \in Orders, NEW price \in Nat, NEW n \in Nat
  PROVE  EstimatedFee(Info[o].product, price, n) \in Nat
<1> DEFINE c == Commission[Info[o].product]
           m == Multiplier[Info[o].product]
<1>1. c \in Nat \cup {NoFee} /\ m \in Nat /\ FlatFee \in Nat
  BY OrdersAssumption
<1> HIDE DEF c, m
<1>2. 2 * price * m \in Nat
  BY <1>1
<1>3. (2 * price * m + 50000) \div 100000 \in Nat
  BY <1>2
<1>4. CASE c = NoFee
  BY <1>1, <1>4 DEF EstimatedFee, c
<1>5. CASE c # NoFee
  <2>1. c + (2 * price * m + 50000) \div 100000 \in Nat
    BY <1>1, <1>3, <1>5
  <2>2. (c + (2 * price * m + 50000) \div 100000) * n \in Nat
    BY <2>1
  <2> QED BY <1>5, <2>2 DEF EstimatedFee, c, m
<1> QED BY <1>4, <1>5

(* _close: what is left of a fill once its part of the open row is covered *)
(* opens a row the other way; the fee is split, none of it lost.           *)
LEMMA CoverAdds ==
  ASSUME NEW b, BookOK(b), NEW action \in {"Buy", "Sell"}, IsOpen(b, Covers(action)),
         NEW n \in Nat, n # 0, NEW price \in Nat, NEW fee \in Nat
  PROVE  LET c == Cover(b, Covers(action), n, price, fee)
         IN /\ BookOK(c)
            /\ \A w \in Accounts : InBook(w, c) = InBook(w, b) + Gain(w, action, n, price * n, fee)
<1>1. PICK d \in Directions : d = Covers(action)
  BY DEF Directions, Opens, Covers, Opposite
<1>2. b.open[d] \in Position /\ b.open[d].closed < b.open[d].opened
  <2>1. b.open[d] \in Position /\ b.open[d] # NoPosition
    BY <1>1 DEF BookOK, BookType, IsOpen, NoPosition
  <2> QED BY <2>1 DEF BookOK
<1>3. PICK left \in Nat : left = Remaining(b.open[d]) /\ left # 0
  BY <1>2 DEF Remaining, Position
<1>4. PICK m \in Nat : m = (IF n <= left THEN n ELSE left) /\ m # 0 /\ m <= left /\ m <= n
  BY <1>3
<1>5. PICK k \in Nat : k = n - m /\ k <= n
  BY <1>4
<1>6. PICK over \in Nat : over = (fee * k) \div n /\ over <= fee
  BY <1>5, ShareOfFee
<1>7. PICK own \in Nat : own = fee - over
  BY <1>6
<1>8. PICK after : after = CloseQty(b, Covers(action), m, price, own)
  OBVIOUS
<1>9. /\ BookOK(after)
      /\ \A w \in Accounts : InBook(w, after) = InBook(w, b) + Gain(w, action, m, price * m, own)
  BY <1>1, <1>3, <1>4, <1>8, CloseAdds
<1>10. Cover(b, Covers(action), n, price, fee)
         = IF k > 0 THEN OpenQty(after, Opposite(d), k, price, over) ELSE after
  BY <1>1, <1>3, <1>4, <1>5, <1>6, <1>7, <1>8 DEF Cover
<1>11. CASE k = 0
  <2>1. m = n /\ over = 0
    BY <1>4, <1>5, <1>6, <1>11
  <2>2. own = fee
    BY <1>7, <2>1
  <2> QED BY <1>9, <1>10, <1>11, <2>1, <2>2
<1>12. CASE k # 0
  <2>1. Opposite(d) = Opens(action)
    BY <1>1 DEF Opens, Covers, Opposite
  <2>2. PICK c : c = OpenQty(after, Opens(action), k, price, over)
    OBVIOUS
  <2>3. /\ BookOK(c)
        /\ \A w \in Accounts : InBook(w, c) = InBook(w, after) + Gain(w, action, k, price * k, over)
    BY <1>9, <1>12, <2>2, OpenAdds
  <2>4. PICK u \in Nat, v \in Nat : u = price * m /\ v = price * k
    OBVIOUS
  <2>5. price * n = u + v
    BY <1>4, <1>5, <2>4
  <2>6. ASSUME NEW w \in Accounts
        PROVE  InBook(w, c) = InBook(w, b) + Gain(w, action, n, price * n, fee)
    <3>1. Gain(w, action, m, u, own) + Gain(w, action, k, v, over) = Gain(w, action, m + k, u + v, own + over)
      BY GainTwice
    <3>2. m + k = n /\ own + over = fee
      BY <1>4, <1>5, <1>6, <1>7
    <3>3. InBook(w, b) \in Nat /\ Gain(w, action, m, u, own) \in Int /\ Gain(w, action, k, v, over) \in Int
      BY InBookNat, GainInt DEF BookOK
    <3>4. InBook(w, after) = InBook(w, b) + Gain(w, action, m, u, own)
      BY <1>9, <2>4
    <3>5. InBook(w, c) = InBook(w, after) + Gain(w, action, k, v, over)
      BY <2>3, <2>4
    <3>6. Gain(w, action, m + k, u + v, own + over) = Gain(w, action, n, price * n, fee)
      BY <2>5, <3>2
    <3> QED BY <3>1, <3>3, <3>4, <3>5, <3>6
  <2>7. Cover(b, Covers(action), n, price, fee) = c
    BY <1>10, <1>12, <2>1, <2>2
  <2> QED BY <2>3, <2>6, <2>7
<1> QED BY <1>11, <1>12

(* apply_fill: whichever way it is booked, the fill is in the book.        *)
LEMMA FillAdds ==
  ASSUME NEW b, BookOK(b), NEW f, ~Mismatch(b, f), f.action \in {"Buy", "Sell"},
         f.qty \in Nat, f.qty # 0, f.price \in Nat, f.fee \in Nat
  PROVE  LET c == ApplyFill(b, f)
         IN /\ BookOK(c)
            /\ \A w \in Accounts :
                 InBook(w, c) = InBook(w, b) + Gain(w, f.action, f.qty, f.price * f.qty, f.fee)
<1>1. CASE f.octype = "Cover" \/ (f.octype = "Auto" /\ IsOpen(b, Covers(f.action)))
  <2>1. IsOpen(b, Covers(f.action))
    BY <1>1 DEF Mismatch
  <2>2. ApplyFill(b, f) = Cover(b, Covers(f.action), f.qty, f.price, f.fee)
    BY <1>1 DEF ApplyFill
  <2> QED BY <2>1, <2>2, CoverAdds
<1>2. CASE ~(f.octype = "Cover" \/ (f.octype = "Auto" /\ IsOpen(b, Covers(f.action))))
  <2>1. ApplyFill(b, f) = OpenQty(b, Opens(f.action), f.qty, f.price, f.fee)
    BY <1>2 DEF ApplyFill
  <2>2. PICK action \in {"Buy", "Sell"}, n \in Nat, price \in Nat, fee \in Nat :
          action = f.action /\ n = f.qty /\ price = f.price /\ fee = f.fee
    OBVIOUS
  <2>3. n # 0
    BY <2>2
  <2>4. PICK c : c = OpenQty(b, Opens(action), n, price, fee)
    OBVIOUS
  <2>5. /\ BookOK(c)
        /\ \A w \in Accounts : InBook(w, c) = InBook(w, b) + Gain(w, action, n, price * n, fee)
    BY <2>3, <2>4, OpenAdds
  <2> QED BY <2>1, <2>2, <2>4, <2>5
<1> QED BY <1>1, <1>2

(* A scope without deals.                                                  *)
LEMMA EmptyIsOK ==
  BookOK(EmptyBook) /\ \A w \in Accounts : InBook(w, EmptyBook) = 0
<1>1. NoPosition \in Position
  BY DEF NoPosition, Position
<1>2. EmptyBook \in BookType
  BY <1>1 DEF EmptyBook, BookType
<1>3. EmptyBook.open["long"] = NoPosition /\ EmptyBook.open["short"] = NoPosition /\ EmptyBook.trips = <<>>
  BY DEF EmptyBook, Directions
<1>4. \A w : OfTrips(w, <<>>) = 0
  BY SumEmpty DEF OfTrips
<1>5. \A w \in Accounts : InBook(w, EmptyBook) = 0
  BY <1>3, <1>4, NothingYet, InBookIs DEF Directions
<1>6. BookOK(EmptyBook)
  BY <1>2 DEF BookOK, EmptyBook
<1> QED BY <1>5, <1>6

-----------------------------------------------------------------------------
(* The ledger against the books and against the orders.                    *)

DealTyped(d) ==
  /\ d.action \in {"Buy", "Sell"} /\ d.qty \in Nat /\ d.price \in Nat /\ d.fee \in Nat

OrderType == [known : BOOLEAN, status : Statuses, filled : Nat]

DataOK ==
  /\ orders \in [Orders -> OrderType]
  /\ IsFiniteSet(deals) /\ \A d \in deals : DealTyped(d)
  /\ DOMAIN books = {ScopeOf(o) : o \in Orders}
  /\ \A s \in DOMAIN books : BookOK(books[s])
  /\ BooksMatchDeals
  /\ FilledMatchesFills

(* A deal adds to the accounts what its fill does.                         *)
LEMMA DealGain ==
  ASSUME NEW d, DealTyped(d), NEW w \in Accounts
  PROVE  /\ OfDeal(w, d) = Gain(w, d.action, d.qty, d.price * d.qty, d.fee)
         /\ OfDeal(w, d) \in Nat
<1>1. d.price * d.qty \in Nat
  BY DEF DealTyped
<1> QED BY <1>1 DEF DealTyped, Accounts, OfDeal, Gain

(* What a report resolves to is an order.                                  *)
LEMMA ResolvedOrder ==
  ASSUME NEW ev \in Events, Resolved(ev) # None
  PROVE  Resolved(ev) \in Orders
BY EventsAssumption DEF Resolved, ByOrdno, ByBrokerId, Find

(* The fill of a report that is going to be booked.                        *)
LEMMA BookableFill ==
  ASSUME NEW ev \in Events, ev.kind = "deal", Fault(ev) = "none", ~Booked(ev)
  PROVE  LET f == FillOf(ev)
         IN /\ Resolved(ev) \in Orders
            /\ ~Mismatch(books[ScopeOf(Resolved(ev))], f)
            /\ f.action \in {"Buy", "Sell"} /\ f.qty = ev.qty
            /\ f.qty \in Nat /\ f.qty # 0 /\ f.price \in Nat /\ f.fee \in Nat
<1>1. Resolved(ev) # None /\ ~Mismatch(books[ScopeOf(Resolved(ev))], FillOf(ev))
  BY DEF Fault, DealFault
<1>2. PICK o \in Orders : o = Resolved(ev)
  BY <1>1, ResolvedOrder
<1>3. ev.qty \in Nat /\ ev.qty # 0 /\ ev.price \in Nat /\ ev.fee \in Nat \cup {NoFee}
  BY EventsAssumption
<1>4. Info[o].action \in {"Buy", "Sell"}
  BY OrdersAssumption
<1>5. EstimatedFee(Info[o].product, ev.price, ev.qty) \in Nat
  BY <1>3, EstimateNat
<1>6. PICK fee \in Nat : fee = IF ev.fee # NoFee THEN ev.fee
                               ELSE EstimatedFee(Info[o].product, ev.price, ev.qty)
  BY <1>3, <1>5
<1>7. FillOf(ev) = [action |-> Info[o].action, octype |-> Info[o].octype,
                    qty |-> ev.qty, price |-> ev.price, fee |-> fee]
  BY <1>2, <1>6 DEF FillOf
<1> QED BY <1>1, <1>2, <1>3, <1>4, <1>7

(* The deal it becomes.                                                    *)
LEMMA DealFields ==
  ASSUME NEW ev, NEW r
  PROVE  LET d == DealOf(ev, r)
             f == FillOf(ev)
         IN /\ d.order = Resolved(ev) /\ d.scope = ScopeOf(Resolved(ev))
            /\ d.account = ev.paper /\ d.fill = ev.fill /\ d.raw = r
            /\ d.action = f.action /\ d.qty = f.qty /\ d.price = f.price /\ d.fee = f.fee
BY DEF DealOf

(* One more deal in a scope adds its amount, in the others nothing.        *)
LEMMA DealCounts ==
  ASSUME DataOK, NEW d, d \notin deals, DealTyped(d), deals' = deals \cup {d},
         NEW w \in Accounts, NEW s
  PROVE  InDeals(w, s)' = InDeals(w, s) + (IF d.scope = s THEN OfDeal(w, d) ELSE 0)
<1> DEFINE D == DealsOf(s)
           q == [x \in D |-> OfDeal(w, x)]
           E == DealsOf(s)'
           p == [x \in E |-> OfDeal(w, x)]
<1>1. IsFiniteSet(D) /\ D \subseteq deals
  BY FS_Subset DEF DataOK, DealsOf
<1>2. InDeals(w, s) = SumOver(q, D) /\ InDeals(w, s)' = SumOver(p, E)
  BY DEF InDeals
<1>3. \A x \in D : OfDeal(w, x) \in Nat
  BY <1>1, DealGain DEF DataOK
<1>4. OfDeal(w, d) \in Nat
  BY DealGain
<1>5. CASE d.scope = s
  <2>1. E = D \cup {d} /\ d \notin D
    BY <1>5 DEF DealsOf
  <2>2. /\ \A x \in D : p[x] = q[x]
        /\ \A x \in D \cup {d} : p[x] \in Int
        /\ p[d] = OfDeal(w, d)
    BY <1>3, <1>4, <2>1
  <2> HIDE DEF D, E, p, q
  <2>3. SumOver(p, D \cup {d}) = SumOver(p, D) + p[d]
    BY <1>1, <2>1, <2>2, SumAdd
  <2>4. SumOver(q, D) = SumOver(p, D)
    BY <1>1, <2>2, SumEqual
  <2> QED BY <1>2, <1>5, <2>1, <2>2, <2>3, <2>4
<1>6. CASE d.scope # s
  <2>1. E = D
    BY <1>6 DEF DealsOf
  <2>2. SumOver(q, D) \in Int
    <3>1. \A x \in D : q[x] \in Int
      BY <1>3
    <3> HIDE DEF D, q
    <3> QED BY <1>1, <3>1, SumType
  <2>3. SumOver(p, E) = SumOver(q, D)
    BY <2>1
  <2> QED BY <1>2, <1>6, <2>2, <2>3
<1> QED BY <1>5, <1>6

(* One more fill of an order.                                              *)
LEMMA FillCounts ==
  ASSUME DataOK, NEW d, DealTyped(d), deals' = deals \cup {d},
         \A x \in deals : ~(x.account = d.account /\ x.fill = d.fill), NEW o
  PROVE  LET sum == SumOver([k \in FillsOf(o) |-> k[3]], FillsOf(o))
         IN sum' = sum + (IF d.order = o THEN d.qty ELSE 0)
<1> DEFINE F == FillsOf(o)
           q == [k \in F |-> k[3]]
           G == FillsOf(o)'
           p == [k \in G |-> k[3]]
           n == <<d.account, d.fill, d.qty>>
           X == {x \in deals : x.order = o}
<1>1. IsFiniteSet(F)
  <2>1. IsFiniteSet(X)
    BY FS_Subset DEF DataOK
  <2>2. [x \in X |-> <<x.account, x.fill, x.qty>>] \in Surjection(X, F)
    BY DEF FillsOf, Surjection
  <2> HIDE DEF X, F
  <2> QED BY <2>1, <2>2, FS_Surjection
<1>2. \A k \in F : k[3] \in Nat
  BY DEF DataOK, DealTyped, FillsOf
<1>3. d.qty \in Nat /\ n[3] = d.qty
  BY DEF DealTyped
<1>4. CASE d.order = o
  <2>1. G = F \cup {n}
    BY <1>4 DEF FillsOf
  <2>2. n \notin F
    BY DEF FillsOf
  <2>3. /\ \A x \in F : p[x] = q[x]
        /\ \A x \in F \cup {n} : p[x] \in Int
        /\ p[n] = d.qty
    BY <1>2, <1>3, <2>1
  <2>9. SumOver([k \in FillsOf(o) |-> k[3]], FillsOf(o)) = SumOver(q, F)
    OBVIOUS
  <2>10. SumOver([k \in FillsOf(o) |-> k[3]], FillsOf(o))' = SumOver(p, G)
    OBVIOUS
  <2> HIDE DEF F, G, p, q, n
  <2>4. SumOver(p, F \cup {n}) = SumOver(p, F) + p[n]
    BY <1>1, <2>2, <2>3, SumAdd
  <2>5. SumOver(q, F) = SumOver(p, F)
    BY <1>1, <2>3, SumEqual
  <2> QED BY <1>4, <2>1, <2>3, <2>4, <2>5, <2>9, <2>10
<1>5. CASE d.order # o
  <2>1. G = F
    BY <1>5 DEF FillsOf
  <2>2. SumOver(q, F) \in Int
    <3>1. \A x \in F : q[x] \in Int
      BY <1>2
    <3> HIDE DEF F, q
    <3> QED BY <1>1, <3>1, SumType
  <2>3. SumOver(p, G) = SumOver(q, F)
    BY <2>1
  <2> QED BY <1>5, <2>2, <2>3
<1> QED BY <1>4, <1>5

(* Nothing is booked at first.                                             *)
LEMMA DataInit == Init => DataOK
<1> SUFFICES ASSUME Init PROVE DataOK
  OBVIOUS
<1>1. /\ orders = [o \in Orders |-> [known |-> FALSE, status |-> "sending", filled |-> 0]]
      /\ deals = {} /\ books = [s \in {ScopeOf(o) : o \in Orders} |-> EmptyBook]
  BY DEF Init
<1>2. orders \in [Orders -> OrderType]
  BY <1>1 DEF OrderType, Statuses, Ranked
<1>3. IsFiniteSet(deals)
  BY <1>1, FS_EmptySet
<1>4. DOMAIN books = {ScopeOf(o) : o \in Orders} /\ \A s \in DOMAIN books : books[s] = EmptyBook
  BY <1>1
<1>5. BooksMatchDeals
  <2>1. ASSUME NEW w, NEW s PROVE InDeals(w, s) = 0
    <3>1. DealsOf(s) = {}
      BY <1>1 DEF DealsOf
    <3> QED BY <3>1, SumEmpty DEF InDeals
  <2> QED BY <1>4, <2>1, EmptyIsOK DEF BooksMatchDeals
<1>6. FilledMatchesFills
  <2>1. \A o : FillsOf(o) = {}
    BY <1>1 DEF FillsOf
  <2> QED BY <1>1, <2>1, SumEmpty DEF FilledMatchesFills
<1> QED BY <1>1, <1>2, <1>3, <1>4, <1>5, <1>6, EmptyIsOK DEF DataOK

(* Steps that book nothing.                                                *)
LEMMA DataStutter ==
  ASSUME DataOK, UNCHANGED <<deals, books>>, orders' \in [Orders -> OrderType],
         \A o \in Orders : orders'[o].filled = orders[o].filled
  PROVE  DataOK'
<1>1. \A w, s : InDeals(w, s)' = InDeals(w, s)
  BY DEF InDeals, DealsOf
<1>2. \A o : FillsOf(o)' = FillsOf(o)
  BY DEF FillsOf
<1>3. BooksMatchDeals'
  BY <1>1 DEF DataOK, BooksMatchDeals
<1>4. FilledMatchesFills'
  BY <1>2 DEF DataOK, FilledMatchesFills
<1> QED BY <1>3, <1>4 DEF DataOK

(* The step that books a fill: ledger, books and order together.           *)
LEMMA DataBook ==
  ASSUME Ledger, DataOK, NEW r \in batch, BookDeal(r)
  PROVE  DataOK'
<1>1. PICK ev \in Events : ev = rows[r].ev
  BY TakenRow DEF BookDeal
<1>2. PICK o : o = Resolved(ev)
  OBVIOUS
<1>3. PICK d : d = DealOf(ev, r)
  OBVIOUS
<1>4. PICK f : f = FillOf(ev)
  OBVIOUS
<1>5. PICK s : s = ScopeOf(o)
  OBVIOUS
<1>6. /\ ev.kind = "deal" /\ Fault(ev) = "none" /\ ~Booked(ev)
      /\ deals' = deals \cup {d}
      /\ books' = [books EXCEPT ![s] = ApplyFill(books[s], f)]
      /\ orders' = [orders EXCEPT ![o].filled = @ + ev.qty,
                      ![o].status = FillStatus(@, orders[o].filled + ev.qty, Info[o].qty)]
  BY <1>1, <1>2, <1>3, <1>4, <1>5 DEF BookDeal
<1>7. /\ o \in Orders /\ ~Mismatch(books[s], f)
      /\ f.action \in {"Buy", "Sell"} /\ f.qty = ev.qty
      /\ f.qty \in Nat /\ f.qty # 0 /\ f.price \in Nat /\ f.fee \in Nat
  BY <1>2, <1>4, <1>5, <1>6, BookableFill
<1>8. /\ d.order = o /\ d.scope = s /\ d.account = ev.paper /\ d.fill = ev.fill
      /\ d.action = f.action /\ d.qty = f.qty /\ d.price = f.price /\ d.fee = f.fee
  BY <1>2, <1>3, <1>4, <1>5, DealFields
<1>9. /\ \A x \in deals : ~(x.account = d.account /\ x.fill = d.fill)
      /\ d \notin deals
  BY <1>6, <1>8 DEF Booked
<1>10. DealTyped(d)
  BY <1>7, <1>8 DEF DealTyped
<1>11. s \in DOMAIN books /\ DOMAIN books' = DOMAIN books /\ BookOK(books[s])
  BY <1>5, <1>6, <1>7 DEF DataOK
<1>12. PICK c : c = ApplyFill(books[s], f)
  OBVIOUS
<1>13. /\ BookOK(c)
       /\ \A w \in Accounts : InBook(w, c) = InBook(w, books[s]) + OfDeal(w, d)
  <2>1. /\ BookOK(c)
        /\ \A w \in Accounts :
             InBook(w, c) = InBook(w, books[s]) + Gain(w, f.action, f.qty, f.price * f.qty, f.fee)
    BY <1>7, <1>11, <1>12, FillAdds
  <2>2. \A w \in Accounts : OfDeal(w, d) = Gain(w, f.action, f.qty, f.price * f.qty, f.fee)
    BY <1>8, <1>10, DealGain
  <2> QED BY <2>1, <2>2
<1>14. \A x \in DOMAIN books : books'[x] = IF x = s THEN c ELSE books[x]
  BY <1>6, <1>11, <1>12
<1>15. \A x \in DOMAIN books' : BookOK(books'[x])
  BY <1>11, <1>13, <1>14 DEF DataOK
<1>16. BooksMatchDeals'
  <2>1. ASSUME NEW x \in DOMAIN books, NEW w \in Accounts
        PROVE  InBook(w, books'[x]) = InDeals(w, x)'
    <3>1. InDeals(w, x)' = InDeals(w, x) + (IF d.scope = x THEN OfDeal(w, d) ELSE 0)
      BY <1>6, <1>9, <1>10, DealCounts
    <3>2. InBook(w, books[x]) = InDeals(w, x) /\ InBook(w, books[x]) \in Nat
      BY InBookNat DEF DataOK, BooksMatchDeals, BookOK
    <3>3. InBook(w, books'[x]) = InBook(w, books[x]) + (IF d.scope = x THEN OfDeal(w, d) ELSE 0)
      BY <1>8, <1>13, <1>14, <3>2
    <3> QED BY <3>1, <3>2, <3>3
  <2> QED BY <1>11, <2>1 DEF BooksMatchDeals
<1>17. /\ orders' \in [Orders -> OrderType]
       /\ \A x \in Orders : orders'[x].filled = orders[x].filled + (IF d.order = x THEN d.qty ELSE 0)
  <2>1. orders[o] \in OrderType /\ orders \in [Orders -> OrderType]
    BY <1>7 DEF DataOK
  <2>2. PICK st \in Statuses : st = FillStatus(orders[o].status, orders[o].filled + ev.qty, Info[o].qty)
    BY <2>1, MarkEither DEF FillStatus, OrderType, Statuses, Ranked
  <2>3. PICK n \in Nat : n = orders[o].filled + ev.qty
    BY <1>7, <2>1 DEF OrderType
  <2>4. orders' = [orders EXCEPT ![o] = [@ EXCEPT !.filled = n, !.status = st]]
    BY <1>6, <2>1, <2>2, <2>3 DEF OrderType
  <2>5. PICK new : new = [orders[o] EXCEPT !.filled = n, !.status = st]
    OBVIOUS
  <2>6. new \in OrderType /\ new.filled = n
    BY <2>1, <2>5 DEF OrderType
  <2>7. orders' = [orders EXCEPT ![o] = new]
    BY <2>4, <2>5
  <2>8. \A x \in Orders : orders[x].filled \in Nat
    BY <2>1 DEF OrderType
  <2> QED BY <1>7, <1>8, <2>1, <2>3, <2>6, <2>7, <2>8
<1>18. FilledMatchesFills'
  <2>1. ASSUME NEW x \in Orders
        PROVE  orders'[x].filled = SumOver([k \in FillsOf(x) |-> k[3]], FillsOf(x))'
    <3>1. SumOver([k \in FillsOf(x) |-> k[3]], FillsOf(x))'
            = SumOver([k \in FillsOf(x) |-> k[3]], FillsOf(x)) + (IF d.order = x THEN d.qty ELSE 0)
      BY <1>6, <1>9, <1>10, FillCounts
    <3>2. orders[x].filled = SumOver([k \in FillsOf(x) |-> k[3]], FillsOf(x))
      BY DEF DataOK, FilledMatchesFills
    <3> QED BY <1>17, <3>1, <3>2
  <2> QED BY <2>1 DEF FilledMatchesFills
<1>19. IsFiniteSet(deals') /\ \A x \in deals' : DealTyped(x)
  BY <1>6, <1>10, FS_AddElement DEF DataOK
<1> QED BY <1>11, <1>15, <1>16, <1>17, <1>18, <1>19 DEF DataOK

(* A report moves the status of its order, and nothing else of it.         *)
LEMMA DataReport ==
  ASSUME Ledger, DataOK, NEW r \in batch, ApplyReport(r)
  PROVE  DataOK'
<1>1. PICK ev \in Events : ev = rows[r].ev
  BY TakenRow DEF ApplyReport
<1>2. PICK o : o = Resolved(ev)
  OBVIOUS
<1>3. /\ ev.kind = "report" /\ Fault(ev) = "none" /\ UNCHANGED <<deals, books>>
      /\ orders' = [orders EXCEPT ![o].status = Mark(@, ev.status)]
  BY <1>1, <1>2 DEF ApplyReport
<1>4. o \in Orders /\ ev.status \in Statuses
  BY <1>2, <1>3, ResolvedOrder DEF Fault, ReportFault
<1>5. orders[o] \in OrderType /\ orders \in [Orders -> OrderType]
  BY <1>4 DEF DataOK
<1>6. PICK st \in Statuses : st = Mark(orders[o].status, ev.status)
  BY <1>4, <1>5, MarkEither DEF OrderType
<1>7. PICK new : new = [orders[o] EXCEPT !.status = st]
  OBVIOUS
<1>8. new \in OrderType /\ new.filled = orders[o].filled
  BY <1>5, <1>7 DEF OrderType
<1>9. orders' = [orders EXCEPT ![o] = new]
  BY <1>3, <1>6, <1>7
<1>10. /\ orders' \in [Orders -> OrderType]
       /\ \A x \in Orders : orders'[x].filled = orders[x].filled
  BY <1>4, <1>5, <1>8, <1>9
<1> QED BY <1>3, <1>10, DataStutter

(* An acknowledgement leaves filled_qty alone.                             *)
LEMMA DataAck ==
  ASSUME DataOK, NEW o \in Orders, AckOrder(o)
  PROVE  DataOK'
<1>1. /\ orders' = [orders EXCEPT ![o].known = TRUE, ![o].status = "submitted"]
      /\ UNCHANGED <<deals, books>>
  BY DEF AckOrder
<1>2. orders[o] \in OrderType /\ orders \in [Orders -> OrderType]
  BY DEF DataOK
<1>3. PICK new : new = [orders[o] EXCEPT !.known = TRUE, !.status = "submitted"]
  OBVIOUS
<1>4. new \in OrderType /\ new.filled = orders[o].filled
  BY <1>2, <1>3 DEF OrderType, Statuses, Ranked
<1>5. orders' = [orders EXCEPT ![o] = new]
  BY <1>1, <1>2, <1>3 DEF OrderType
<1>6. /\ orders' \in [Orders -> OrderType]
      /\ \A x \in Orders : orders'[x].filled = orders[x].filled
  BY <1>2, <1>4, <1>5
<1> QED BY <1>1, <1>6, DataStutter

(* Every step keeps ledger, books and orders together.                     *)
LEMMA DataStep == Ledger /\ DataOK /\ [Next]_vars => DataOK'
<1> SUFFICES ASSUME Ledger, DataOK, [Next]_vars PROVE DataOK'
  OBVIOUS
<1>1. CASE UNCHANGED <<orders, deals, books>>
  BY <1>1, DataStutter DEF DataOK
<1>2. ASSUME NEW r \in batch, Process(r) PROVE DataOK'
  BY <1>1, <1>2, DataBook, DataReport DEF Process, SkipDeal, Quarantine
<1>3. ASSUME NEW r \in batch, LeaveRow(r) PROVE DataOK'
  BY <1>1, <1>3 DEF LeaveRow, dbVars
<1>4. ASSUME NEW o \in Orders, AckOrder(o) PROVE DataOK'
  BY <1>4, DataAck
<1>5. CASE Begin \/ End \/ ScanBatch \/ BatchDone \/ RetryRelease \/ RetryScan \/ RetryDone \/ Publish
           \/ Wakes \/ RetryFails
  BY <1>1, <1>5 DEF Begin, End, ScanBatch, BatchDone, RetryRelease, RetryScan, RetryDone, Publish,
                    Wakes, RetryFails, dbVars
<1>6. CASE Notify \/ WatchdogAsks \/ StopAsked \/ Drained \/ DrainTimesOut \/ Crash
           \/ Connect \/ Load \/ ReadEvent \/ Disconnect \/ UNCHANGED vars
  BY <1>1, <1>6 DEF Notify, WatchdogAsks, StopAsked, Drained, DrainTimesOut, Crash, Connect, Load,
                    ReadEvent, Disconnect, vars, dbVars
<1>7. ASSUME NEW r \in DOMAIN rows, WatchdogReleases(r) PROVE DataOK'
  BY <1>1, <1>7 DEF WatchdogReleases
<1>8. ASSUME NEW ev \in Events, NEW hook \in Hooks, Stage(ev, hook) PROVE DataOK'
  BY <1>1, <1>8 DEF Stage
<1> QED BY <1>2, <1>3, <1>4, <1>5, <1>6, <1>7, <1>8 DEF Next, Worker

(* Whatever is opened, covered, reversed and closed, in whatever order the *)
(* fills come: each scope's positions and round trips hold the lots, the   *)
(* money and the fees of its deals, no more and no less.                   *)
THEOREM BooksAreDeals == Spec => []BooksMatchDeals
<1>1. DataOK => BooksMatchDeals
  BY DEF DataOK
<1>2. Ledger /\ DataOK /\ [Next]_vars => (Ledger /\ DataOK)'
  BY LedgerStep, DataStep
<1> QED BY LedgerInit, DataInit, <1>1, <1>2, PTL DEF Spec

(* filled_qty counts each distinct fill of the order once.                 *)
THEOREM FilledIsFills == Spec => []FilledMatchesFills
<1>1. DataOK => FilledMatchesFills
  BY DEF DataOK
<1>2. Ledger /\ DataOK /\ [Next]_vars => (Ledger /\ DataOK)'
  BY LedgerStep, DataStep
<1> QED BY LedgerInit, DataInit, <1>1, <1>2, PTL DEF Spec

-----------------------------------------------------------------------------
(* The page.  Events wait only while a batch that handled a row is under   *)
(* way, and the ping that follows them is the last to enter the queue.     *)

Kinds == {"deal", "order-report", "ping"}

Batching == {"batch", "retry", "rescan", "rebatch", "publish"}

PageOK ==
  /\ page \in {"closed", "open", "loaded"} /\ stale \in BOOLEAN /\ handled \in BOOLEAN
  /\ queue \in Seq(Kinds) /\ Len(queue) <= QueueSize
  /\ pending \in Seq(Kinds)
  /\ pending # <<>> => handled /\ pc \in Batching
  /\ StaleImpliesPing

(* Short sequences.                                                        *)
LEMMA OneAndTwo ==
  ASSUME NEW T, NEW a \in T, NEW b \in T
  PROVE  <<a>> \in Seq(T) /\ <<a, b>> \in Seq(T)
OBVIOUS

(* What is put behind everything else is the last.                         *)
LEMMA LastOne ==
  ASSUME NEW T, NEW p \in Seq(T), NEW q \in Seq(T), NEW a \in T
  PROVE  LET s == p \o (q \o <<a>>)
         IN s \in Seq(T) /\ s # <<>> /\ s[Len(s)] = a
<1>0. p \o q \in Seq(T)
  BY ConcatProperties
<1>1. PICK t \in Seq(T) : t = p \o q
  BY <1>0
<1>2. p \o (q \o <<a>>) = Append(t, a)
  BY <1>1
<1> QED BY <1>2

(* The newest of a queue fit, and the very last is among them.             *)
LEMMA NewestKeeps ==
  ASSUME NEW q \in Seq(Kinds)
  PROVE  /\ Newest(q) \in Seq(Kinds) /\ Len(Newest(q)) <= QueueSize
         /\ Len(q) <= QueueSize => Newest(q) = q
         /\ q # <<>> /\ "ping" = q[Len(q)] => "ping" \in Range(Newest(q))
<1>1. QueueSize \in Nat /\ QueueSize # 0 /\ Len(q) \in Nat
  BY BoundsAssumption
<1>2. CASE Len(q) <= QueueSize
  <2>1. Newest(q) = q
    BY <1>2 DEF Newest
  <2>2. q # <<>> => Len(q) \in DOMAIN q
    OBVIOUS
  <2> QED BY <1>1, <1>2, <2>1, <2>2 DEF Range
<1>3. CASE Len(q) > QueueSize
  <2>1. PICK m \in Nat : m = Len(q) - QueueSize + 1 /\ m >= 1 /\ m <= Len(q)
    BY <1>1, <1>3
  <2>2. PICK s : s = SubSeq(q, m, Len(q))
    OBVIOUS
  <2>3. /\ s \in Seq(Kinds) /\ Len(s) = Len(q) - m + 1
        /\ \A i \in 1 .. Len(q) - m + 1 : s[i] = q[m + i - 1]
    <3>1. \A i \in m .. Len(q) : q[i] \in Kinds
      BY <2>1
    <3> QED BY <1>1, <2>1, <2>2, <3>1, SubSeqProperties
  <2>4. Len(s) = QueueSize /\ QueueSize \in DOMAIN s
    BY <1>1, <2>1, <2>3
  <2>5. s[QueueSize] = q[Len(q)]
    <3>1. m + QueueSize - 1 = Len(q) /\ QueueSize \in 1 .. Len(q) - m + 1
      BY <1>1, <2>1
    <3> QED BY <2>3, <3>1
  <2>6. Newest(q) = s
    BY <1>1, <1>3, <2>1, <2>2 DEF Newest
  <2>7. "ping" = q[Len(q)] => "ping" \in Range(s)
    BY <2>4, <2>5 DEF Range
  <2> QED BY <1>1, <1>3, <2>3, <2>4, <2>6, <2>7
<1> QED BY <1>1, <1>2, <1>3

(* An empty queue fits.                                                    *)
LEMMA NothingFits == <<>> \in Seq(Kinds) /\ Len(<<>>) <= QueueSize
<1>1. Len(<<>>) = 0 /\ QueueSize \in Nat
  BY BoundsAssumption
<1> QED BY <1>1

(* No page at first.                                                       *)
LEMMA PageInit == Init => PageOK
BY NothingFits DEF Init, PageOK, StaleImpliesPing

(* A batch that handled a row leaves a ping; one that did not, the queue.  *)
LEMMA PagePublish ==
  ASSUME PageOK, Publish
  PROVE  PageOK'
<1>1. /\ queue \in Seq(Kinds) /\ Len(queue) <= QueueSize /\ pending \in Seq(Kinds)
      /\ handled \in BOOLEAN /\ pc = "publish"
      /\ queue' = IF page = "closed" THEN <<>> ELSE Newest(queue \o Announcements)
      /\ pending' = <<>> /\ pc' \in {"top", "wait"}
      /\ UNCHANGED <<handled, page, stale>>
  BY DEF PageOK, Publish
<1>2. PICK q : q = queue \o Announcements
  OBVIOUS
<1>3. CASE page = "closed"
  <2>1. queue' = <<>>
    BY <1>1, <1>3
  <2> QED BY <1>1, <1>3, <2>1, NothingFits DEF PageOK, StaleImpliesPing
<1>4. CASE page # "closed" /\ handled
  <2>1. Announcements = pending \o <<"ping">>
    BY <1>4 DEF Announcements, Ping
  <2>2. q \in Seq(Kinds) /\ q # <<>> /\ q[Len(q)] = "ping"
    <3>1. "ping" \in Kinds
      BY DEF Kinds
    <3> QED BY <1>1, <1>2, <2>1, <3>1, LastOne
  <2>3. queue' \in Seq(Kinds) /\ Len(queue') <= QueueSize /\ "ping" \in Range(queue')
    BY <1>1, <1>2, <1>4, <2>2, NewestKeeps
  <2> QED BY <1>1, <2>3 DEF PageOK, StaleImpliesPing
<1>5. CASE page # "closed" /\ ~handled
  <2>1. Announcements = <<>>
    BY <1>1, <1>5 DEF Announcements, Ping, PageOK
  <2>2. q = queue
    BY <1>1, <1>2, <2>1
  <2>3. queue' = queue
    BY <1>1, <1>2, <1>5, <2>2, NewestKeeps
  <2> QED BY <1>1, <1>5, <2>3 DEF PageOK, StaleImpliesPing
<1> QED BY <1>1, <1>3, <1>4, <1>5

(* An event that is read is the ping, or leaves it in the queue.           *)
LEMMA PageRead ==
  ASSUME PageOK, ReadEvent
  PROVE  PageOK'
<1>1. /\ queue \in Seq(Kinds) /\ Len(queue) \in Nat /\ queue # <<>> /\ queue' = Tail(queue)
      /\ stale' = (stale /\ Head(queue) # "ping")
      /\ page' = IF Head(queue) = "ping" THEN "loaded" ELSE page
      /\ UNCHANGED <<pending, handled, pc>>
  BY DEF PageOK, ReadEvent, workVars
<1>2. queue' \in Seq(Kinds) /\ Len(queue') <= Len(queue)
  BY <1>1
<1>3. ASSUME Head(queue) # "ping", "ping" \in Range(queue) PROVE "ping" \in Range(queue')
  <2>1. PICK i \in 1 .. Len(queue) : queue[i] = "ping"
    BY <1>1, <1>3 DEF Range
  <2>2. i # 1
    BY <1>1, <1>3, <2>1
  <2>3. i - 1 \in DOMAIN queue' /\ queue'[i - 1] = "ping"
    BY <1>1, <2>1, <2>2
  <2> QED BY <2>3 DEF Range
<1>4. StaleImpliesPing'
  BY <1>1, <1>3 DEF PageOK, StaleImpliesPing
<1>5. Len(queue') <= QueueSize
  BY <1>1, <1>2, BoundsAssumption DEF PageOK
<1> QED BY <1>1, <1>2, <1>4, <1>5 DEF PageOK

(* A row that lands makes the page stale, and the batch owes a ping.       *)
LEMMA PageLanded ==
  ASSUME PageOK, NEW events \in Seq(Kinds), pending' = pending \o events, handled' = TRUE,
         pc \in {"batch", "rebatch"}, UNCHANGED <<pc, page, queue>>, stale' \in BOOLEAN
  PROVE  PageOK'
<1>1. pending' \in Seq(Kinds)
  BY DEF PageOK
<1> QED BY <1>1 DEF PageOK, Batching, StaleImpliesPing

(* Every step keeps a stale page its ping.                                 *)
LEMMA PageStep == PageOK /\ [Next]_vars => PageOK'
<1> SUFFICES ASSUME PageOK, [Next]_vars PROVE PageOK'
  OBVIOUS
<1>1. CASE Publish
  BY <1>1, PagePublish
<1>2. CASE ReadEvent
  BY <1>2, PageRead
<1>3. ASSUME NEW r \in batch, Process(r) PROVE PageOK'
  <2>1. CASE BookDeal(r)
    <3>1. <<"deal", "order-report">> \in Seq(Kinds)
      <4>1. "deal" \in Kinds /\ "order-report" \in Kinds
        BY DEF Kinds
      <4> QED BY <4>1, OneAndTwo
    <3> QED BY <2>1, <3>1, PageLanded DEF BookDeal, Takes, Landed
  <2>2. CASE SkipDeal(r)
    <3>1. stale' \in BOOLEAN /\ UNCHANGED <<page, queue>>
      BY <2>2 DEF SkipDeal, hubVars, PageOK
    <3> QED BY <2>2, <3>1, NothingFits, PageLanded DEF SkipDeal, Takes, Landed
  <2>3. CASE ApplyReport(r)
    <3>1. <<"order-report">> \in Seq(Kinds)
      <4>1. "order-report" \in Kinds
        BY DEF Kinds
      <4> QED BY <4>1, OneAndTwo
    <3> QED BY <2>3, <3>1, PageLanded DEF ApplyReport, Takes, Landed
  <2>4. CASE Quarantine(r)
    BY <2>4 DEF Quarantine, Takes, hubVars, PageOK, StaleImpliesPing, Batching
  <2> QED BY <1>3, <2>1, <2>2, <2>3, <2>4 DEF Process
<1>4. CASE ScanBatch
  BY <1>4 DEF ScanBatch, hubVars, PageOK, StaleImpliesPing, Batching
<1>5. CASE UNCHANGED <<page, stale, queue, pending, handled>>
           /\ (pc \in Batching => pc' \in Batching)
  BY <1>5 DEF PageOK, StaleImpliesPing, Batching
<1>6. CASE Begin \/ End \/ BatchDone \/ RetryRelease \/ RetryScan \/ RetryDone \/ Wakes \/ RetryFails
  BY <1>5, <1>6 DEF Begin, End, BatchDone, RetryRelease, RetryScan, RetryDone, Wakes, RetryFails,
                    hubVars, Batching
<1>7. ASSUME NEW r \in batch, LeaveRow(r) PROVE PageOK'
  BY <1>5, <1>7 DEF LeaveRow, hubVars
<1>8. CASE Crash \/ Connect \/ Disconnect
  BY <1>8, NothingFits DEF Crash, Connect, Disconnect, workVars, PageOK, StaleImpliesPing
<1>9. CASE Load
  BY <1>9 DEF Load, workVars, PageOK, StaleImpliesPing
<1>10. CASE Notify \/ WatchdogAsks \/ StopAsked \/ Drained \/ DrainTimesOut \/ UNCHANGED vars
  BY <1>5, <1>10 DEF Notify, WatchdogAsks, StopAsked, Drained, DrainTimesOut, vars, workVars, hubVars
<1>11. ASSUME NEW o \in Orders, AckOrder(o) PROVE PageOK'
  BY <1>5, <1>11 DEF AckOrder, workVars, hubVars
<1>12. ASSUME NEW ev \in Events, NEW hook \in Hooks, Stage(ev, hook) PROVE PageOK'
  BY <1>5, <1>12 DEF Stage, workVars, hubVars
<1>13. ASSUME NEW r \in DOMAIN rows, WatchdogReleases(r) PROVE PageOK'
  BY <1>5, <1>13 DEF WatchdogReleases, workVars, hubVars
<1> QED
  BY <1>1, <1>2, <1>3, <1>4, <1>6, <1>7, <1>8, <1>9, <1>10, <1>11, <1>12, <1>13 DEF Next, Worker

(* Whatever the burst and however small the queue, the ping that makes a   *)
(* loaded page read the tables again is never the event that is dropped.   *)
THEOREM PingSurvives == Spec => []StaleImpliesPing
<1>1. PageOK => StaleImpliesPing
  BY DEF PageOK
<1> QED BY PageInit, PageStep, <1>1, PTL DEF Spec

-----------------------------------------------------------------------------
(* Type correctness: what the other invariants do not say.                 *)

RestOK ==
  /\ landed \in BOOLEAN /\ guard \in BOOLEAN /\ wake \in BOOLEAN /\ posted \in BOOLEAN
  /\ stop \in {"running", "asked", "drained", "gaveup"}
  /\ slow \subseteq DOMAIN rows
  /\ \A r \in DOMAIN rows : rows[r].reason \in DeadLetters => rows[r].processed

(* The start is typed.                                                     *)
LEMMA RestInit == Init => RestOK
<1>1. Init => DOMAIN rows = {}
  BY DEF Init
<1> QED BY <1>1 DEF Init, RestOK

(* Steps that keep the rows' table as it is, or only release rows of it.   *)
LEMMA RestRows ==
  ASSUME RestOK, DOMAIN rows' = DOMAIN rows,
         \A r \in DOMAIN rows : rows'[r].reason \in DeadLetters => rows'[r].processed,
         slow' \subseteq DOMAIN rows,
         landed' \in BOOLEAN, guard' \in BOOLEAN, wake' \in BOOLEAN, posted' \in BOOLEAN,
         stop' \in {"running", "asked", "drained", "gaveup"}
  PROVE  RestOK'
BY DEF RestOK

(* A row is marked done, or quarantined, for good when a dead letter.      *)
LEMMA RestProcess ==
  ASSUME Ledger, RestOK, NEW r \in batch, Process(r)
  PROVE  RestOK'
<1>1. /\ r \in DOMAIN rows /\ rows[r] \in RowType /\ rows \in Seq(RowType)
      /\ rows[r].reason = "none"
  BY TakenRow DEF Process, BookDeal, SkipDeal, ApplyReport, Quarantine, Ledger, RowsOK
<1>2. /\ landed' \in BOOLEAN /\ guard' \in BOOLEAN
      /\ UNCHANGED <<slow, wake, posted, stop>>
  BY DEF Process, BookDeal, SkipDeal, ApplyReport, Quarantine, Landed, restVars, RestOK
<1>3. CASE BookDeal(r) \/ SkipDeal(r) \/ ApplyReport(r)
  <2>1. rows' = [rows EXCEPT ![r].processed = TRUE]
    BY <1>3 DEF BookDeal, SkipDeal, ApplyReport
  <2>2. DOMAIN rows' = DOMAIN rows
        /\ \A q \in DOMAIN rows : rows'[q].reason = rows[q].reason
                                  /\ (rows[q].processed => rows'[q].processed)
    BY <1>1, <2>1 DEF RowType
  <2> QED BY <1>2, <2>2, RestRows DEF RestOK
<1>4. CASE Quarantine(r)
  <2>1. PICK why : why = Fault(rows[r].ev)
    OBVIOUS
  <2>2. rows' = [rows EXCEPT ![r].reason = why, ![r].processed = why \in DeadLetters]
    BY <1>4, <2>1 DEF Quarantine
  <2>3. /\ DOMAIN rows' = DOMAIN rows /\ \A q \in DOMAIN rows : q # r => rows'[q] = rows[q]
        /\ rows'[r].reason = why /\ rows'[r].processed = (why \in DeadLetters)
    BY <1>1, <2>2 DEF RowType
  <2> QED BY <1>2, <2>3, RestRows DEF RestOK
<1> QED BY <1>3, <1>4 DEF Process

(* No dead letter is released.                                             *)
LEMMA RestReleased ==
  ASSUME Ledger, RestOK, NEW S, rows' = Released(S)
  PROVE  /\ DOMAIN rows' = DOMAIN rows
         /\ \A r \in DOMAIN rows : rows'[r].reason \in DeadLetters => rows'[r].processed
<1>1. \A q \in DOMAIN rows : rows[q] \in RowType
  BY RowTyped
<1>2. /\ DOMAIN rows' = DOMAIN rows
      /\ \A q \in DOMAIN rows : /\ q \notin S => rows'[q] = rows[q]
                                /\ q \in S => rows'[q].reason = "none"
  BY <1>1 DEF Released, RowType
<1> QED BY <1>2 DEF RestOK, DeadLetters

(* A new row is a dead letter that is done, or none.                       *)
LEMMA RestStage ==
  ASSUME Ledger, RestOK, NEW ev \in Events, NEW hook \in Hooks, Stage(ev, hook)
  PROVE  RestOK'
<1> DEFINE why == IF ScopeViolation(ev) THEN "scope_violation" ELSE "none"
           row == Row(ev, why)
<1>1. /\ rows \in Seq(RowType) /\ rows' = Append(rows, row)
      /\ posted' = (posted \/ hook)
      /\ slow' = IF hook THEN slow ELSE slow \cup {Len(rows) + 1}
      /\ UNCHANGED <<landed, guard, wake, stop>>
  BY DEF Stage, workVars, Ledger, RowsOK
<1>2. row.reason \in DeadLetters => row.processed
  BY DEF Row
<1> HIDE DEF row
<1>3. /\ DOMAIN rows' = DOMAIN rows \cup {Len(rows) + 1}
      /\ \A r \in DOMAIN rows' : rows'[r] = row \/ (r \in DOMAIN rows /\ rows'[r] = rows[r])
  BY <1>1
<1> QED BY <1>1, <1>2, <1>3 DEF RestOK

(* Every step is typed.                                                    *)
LEMMA RestStep == Ledger /\ RestOK /\ [Next]_vars => RestOK'
<1> SUFFICES ASSUME Ledger, RestOK, [Next]_vars PROVE RestOK'
  OBVIOUS
<1>1. ASSUME NEW r \in batch, Process(r) PROVE RestOK'
  BY <1>1, RestProcess
<1>2. CASE RetryRelease
  <2>1. CASE AssocPending = {}
    BY <1>2, <2>1 DEF RetryRelease, restVars, RestOK
  <2>2. CASE AssocPending # {}
    BY <1>2, <2>2, RestReleased DEF RetryRelease, restVars, RestOK
  <2> QED BY <2>1, <2>2
<1>3. ASSUME NEW r \in DOMAIN rows, WatchdogReleases(r) PROVE RestOK'
  <2> DEFINE S == {q \in AssocPending : q <= r}
  <2>1. /\ rows' = Released(S) /\ slow' = slow \cup S /\ S \subseteq DOMAIN rows
        /\ UNCHANGED <<landed, guard, wake, posted, stop>>
    BY <1>3 DEF WatchdogReleases, workVars, AssocPending
  <2> HIDE DEF S
  <2> QED BY <2>1, RestReleased DEF RestOK
<1>4. CASE RetryFails \/ \E r \in batch : LeaveRow(r)
  <2>1. Unprocessed \subseteq DOMAIN rows
    BY DEF Unprocessed
  <2> QED BY <1>4, <2>1 DEF RetryFails, LeaveRow, dbVars, RestOK
<1>5. ASSUME NEW ev \in Events, NEW hook \in Hooks, Stage(ev, hook) PROVE RestOK'
  BY <1>5, RestStage
<1>6. CASE Begin \/ End \/ ScanBatch \/ BatchDone \/ RetryScan \/ RetryDone \/ Publish \/ Wakes
  BY <1>6 DEF Begin, End, ScanBatch, BatchDone, RetryScan, RetryDone, Publish, Wakes, dbVars,
              restVars, RestOK
<1>7. CASE Notify \/ WatchdogAsks \/ StopAsked \/ Drained \/ DrainTimesOut \/ Crash
  BY <1>7 DEF Notify, WatchdogAsks, StopAsked, Drained, DrainTimesOut, Crash, dbVars, workVars,
              restVars, RestOK
<1>8. CASE Connect \/ Load \/ ReadEvent \/ Disconnect \/ UNCHANGED vars
  BY <1>8 DEF Connect, Load, ReadEvent, Disconnect, vars, dbVars, workVars, restVars, RestOK
<1>9. ASSUME NEW o \in Orders, AckOrder(o) PROVE RestOK'
  BY <1>9 DEF AckOrder, workVars, restVars, RestOK
<1> QED BY <1>1, <1>2, <1>3, <1>4, <1>5, <1>6, <1>7, <1>8, <1>9 DEF Next, Worker

(* The invariants together say what TypeOK does.                           *)
LEMMA TypesTogether ==
  ASSUME Ledger, LockOK, GuardOK, DataOK, PageOK, RestOK
  PROVE  TypeOK
<1>1. \A r \in DOMAIN rows : /\ rows[r].ev \in Events
                             /\ rows[r].reason \in Reasons
                             /\ rows[r].processed \in BOOLEAN
                             /\ rows[r].reason \in DeadLetters => rows[r].processed
  <2>1. \A r \in DOMAIN rows : rows[r] \in RowType
    BY RowTyped
  <2> QED BY <2>1 DEF RowType, RestOK
<1>2. \A s \in DOMAIN books : /\ books[s].open \in [Directions -> Position]
                              /\ books[s].trips \in Seq([dir : Directions, pos : Position])
                              /\ \A d \in Directions : IsOpen(books[s], d)
                                                    => Remaining(books[s].open[d]) > 0
  <2>1. ASSUME NEW b, BookOK(b), NEW d \in Directions, IsOpen(b, d)
        PROVE  Remaining(b.open[d]) > 0
    <3>1. b.open[d] \in Position /\ b.open[d] # NoPosition
      BY <2>1 DEF BookOK, BookType, IsOpen, NoPosition
    <3> QED BY <2>1, <3>1 DEF BookOK, Remaining, Position
  <2>2. ASSUME NEW b, BookOK(b)
        PROVE  b.open \in [Directions -> Position] /\ b.trips \in Seq([dir : Directions, pos : Position])
    BY <2>2 DEF BookOK, BookType, Trip
  <2> QED BY <2>1, <2>2 DEF DataOK
<1>3. orders \in [Orders -> [known: BOOLEAN, status: Statuses, filled: Nat]]
  BY DEF DataOK, OrderType
<1>4. Range(lock) \subseteq {"worker", "watchdog", "stopper"} /\ IsInjective(lock)
  <2>1. \A i \in DOMAIN lock : lock[i] \in Holders
    BY DEF LockOK
  <2> QED BY <2>1 DEF LockOK, Holders, Range, IsInjective
<1>5. batch \subseteq DOMAIN rows /\ round \subseteq DOMAIN rows
  BY DEF Ledger, RowsOK
<1> QED BY <1>1, <1>2, <1>3, <1>4, <1>5 DEF TypeOK, LockOK, GuardOK, DataOK, PageOK, RestOK

(* Type correctness; among its parts: an open row always has lots left, a  *)
(* dead letter is done, the hub's queue never outgrows its size.           *)
THEOREM RawInboxTypes == Spec => []TypeOK
<1> DEFINE All == Ledger /\ LockOK /\ GuardOK /\ DataOK /\ PageOK /\ RestOK
<1>1. Init => All
  BY LedgerInit, LockInit, GuardInit, DataInit, PageInit, RestInit
<1>2. All /\ [Next]_vars => All'
  BY LedgerStep, LockStep, GuardStep, DataStep, PageStep, RestStep
<1>3. All => TypeOK
  BY TypesTogether
<1> QED BY <1>1, <1>2, <1>3, PTL DEF Spec
=============================================================================
