----------------------- MODULE AgentCommands_proofs -----------------------
(***************************************************************************)
(* Proofs about AgentCommands, for every set of commands and every bound.  *)
(***************************************************************************)
EXTENDS AgentCommands, OrderStatusTheorems, SumTheorems, SequenceTheorems

-----------------------------------------------------------------------------
(* Type correctness.                                                       *)

LEMMA DbFrame == ASSUME DbTypeOK, UNCHANGED dbVars PROVE DbTypeOK'
BY DEF DbTypeOK, dbVars

LEMMA RequestFrame == ASSUME RequestTypeOK, UNCHANGED reqVars PROVE RequestTypeOK'
BY DEF RequestTypeOK, reqVars

LEMMA LinkFrame == ASSUME LinkTypeOK, UNCHANGED <<chanVars, wireVars>> PROVE LinkTypeOK'
BY DEF LinkTypeOK, chanVars, wireVars

LEMMA AgentFrame == ASSUME AgentTypeOK, UNCHANGED agentVars PROVE AgentTypeOK'
BY DEF AgentTypeOK, agentVars

LEMMA WorldFrame == ASSUME WorldTypeOK, UNCHANGED <<brokerVars, envVars>> PROVE WorldTypeOK'
BY DEF WorldTypeOK, brokerVars, envVars

(* Sequences.                                                              *)
LEMMA HeadAndTail ==
  ASSUME NEW S, NEW s \in Seq(S), s # <<>>
  PROVE  Head(s) = s[1] /\ Head(s) \in S /\ Tail(s) \in Seq(S)
OBVIOUS

(* Every command has its order, and every place and update a reservation.  *)
LEMMA OrderPlace == ASSUME NEW c \in Cmds PROVE Order(c) \in Places
BY DataAssumption DEF Order, Cmds

LEMMA ResReservation == ASSUME NEW c \in Places \cup Updates PROVE ResOf(c) \in Reservations
BY DEF Reservations

QuotaRow == [state : {"none", "reserved", "confirmed", "released"}, qty : Nat]

LEMMA QuotaMoves ==
  ASSUME DbTypeOK, NEW r \in Reservations
  PROVE  /\ Confirm(r) \in [Reservations -> QuotaRow]
         /\ Release(r) \in [Reservations -> QuotaRow]
         /\ \A n \in Nat : Reserve(r, n) \in [Reservations -> QuotaRow]
BY DEF DbTypeOK, Confirm, Release, Reserve, QuotaRow

LEMMA StatusMoves ==
  ASSUME DbTypeOK, NEW o \in Places, NEW s \in Statuses, MarkOrder(o, s)
  PROVE  status' \in [Places -> Statuses \cup {"absent"}]
<1>1. Mark(status[o], s) \in {status[o], s}
  BY MarkEither
<1>2. Mark(status[o], s) \in Statuses \cup {"absent"}
  BY <1>1 DEF DbTypeOK
<1> QED BY <1>2 DEF DbTypeOK, MarkOrder

EffectsTypeOK ==
  /\ status' \in [Places -> Statuses \cup {"absent"}]
  /\ known' \in [Places -> BOOLEAN]
  /\ qty' \in [Places -> Nat]
  /\ quota' \in [Reservations -> QuotaRow]

LEMMA OkEffectType ==
  ASSUME DbTypeOK, NEW c \in Cmds, ApplyOkEffect(c)
  PROVE  EffectsTypeOK
<1>1. CASE c \in Places /\ ApplyPlaceAck(c)
  BY <1>1, QuotaMoves, ResReservation
  DEF DbTypeOK, ApplyPlaceAck, EffectsTypeOK, ResOf, QuotaRow, Statuses, Ranked
<1>2. CASE c \in Updates /\ ApplyUpdateAck(c)
  BY <1>2, QuotaMoves, ResReservation, StatusMoves, DataAssumption, IdsAssumption
  DEF DbTypeOK, ApplyUpdateAck, EffectsTypeOK, ResOf, QuotaRow, Statuses, Ranked
<1>3. CASE c \in Cancels /\ ApplyCancelAck(c)
  BY <1>3, StatusMoves, DataAssumption
  DEF DbTypeOK, ApplyCancelAck, EffectsTypeOK, QuotaRow, Statuses, TerminalStatuses
<1> QED BY <1>1, <1>2, <1>3 DEF ApplyOkEffect

LEMMA RefusalType ==
  ASSUME DbTypeOK, NEW c \in Cmds, ApplyRefusal(c)
  PROVE  EffectsTypeOK
<1>1. CASE c \in Places
  <2>1. /\ MarkOrder(c, "failed") /\ quota' = Release(PlaceRes(c))
        /\ known' = known /\ qty' = qty
    BY <1>1, IdsAssumption DEF ApplyRefusal
  <2>2. status' \in [Places -> Statuses \cup {"absent"}]
    BY <1>1, <2>1, StatusMoves DEF Statuses, TerminalStatuses
  <2>3. PlaceRes(c) \in Reservations
    BY <1>1, ResReservation DEF ResOf
  <2> QED BY <2>1, <2>2, <2>3, QuotaMoves DEF DbTypeOK, EffectsTypeOK, QuotaRow
<1>2. CASE c \in Updates
  <2>1. quota' = Release(UpdateRes(c)) /\ status' = status /\ known' = known /\ qty' = qty
    BY <1>2, IdsAssumption DEF ApplyRefusal
  <2>2. UpdateRes(c) \in Reservations
    BY <1>2, ResReservation, IdsAssumption DEF ResOf
  <2> QED BY <2>1, <2>2, QuotaMoves DEF DbTypeOK, EffectsTypeOK, QuotaRow
<1>3. CASE c \in Cancels
  BY <1>3, IdsAssumption DEF DbTypeOK, ApplyRefusal, EffectsTypeOK, QuotaRow
<1> QED BY <1>1, <1>2, <1>3 DEF Cmds

LEMMA TimeoutType ==
  ASSUME DbTypeOK, NEW c \in Cmds, ApplyTimeout(c)
  PROVE  EffectsTypeOK
BY StatusMoves DEF DbTypeOK, ApplyTimeout, EffectsTypeOK, QuotaRow, Statuses

LEMMA CloseAllType ==
  ASSUME DbTypeOK, NEW C \in SUBSET Cmds, CloseAll(C)
  PROVE  /\ outcome' \in [Cmds -> OutcomeValues]
         /\ via' \in [Cmds -> ViaValues]
         /\ quota' \in [Reservations -> QuotaRow]
<1>1. \A r \in Reservations : Confirm(r)[r] \in QuotaRow
  BY QuotaMoves
<1>2. quota \in [Reservations -> QuotaRow]
  BY DEF DbTypeOK, QuotaRow
<1> QED BY <1>1, <1>2 DEF CloseAll, DbTypeOK, OutcomeValues, ViaValues

(* The database part, one step per action that writes to it.               *)
LEMMA DbTypeStep == ASSUME TypeOK, [Next]_vars PROVE DbTypeOK'
<1> USE DEF TypeOK
<1>1. ASSUME NEW o \in Places, CheckPlace(o) PROVE DbTypeOK'
  <2>1. quota' \in [Reservations -> QuotaRow]
    BY <1>1, QuotaMoves, ResReservation, DataAssumption DEF CheckPlace, ResOf
  <2> QED BY <1>1, <2>1 DEF CheckPlace, DbTypeOK, QuotaRow, Statuses, Ranked
<1>2. ASSUME NEW u \in Updates, CheckUpdate(u) PROVE DbTypeOK'
  <2>1. UpdateRes(u) \in Reservations
    BY ResReservation, IdsAssumption DEF ResOf
  <2>2. quota' \in [Reservations -> QuotaRow]
    <3>1. CASE UNCHANGED quota
      BY <3>1 DEF DbTypeOK, QuotaRow
    <3>2. CASE NewQty[u] - qty[OrderOf[u]] > 0
               /\ quota' = Reserve(UpdateRes(u), NewQty[u] - qty[OrderOf[u]])
      <4>1. NewQty[u] - qty[OrderOf[u]] \in Nat
        BY <3>2, DataAssumption DEF DbTypeOK
      <4> QED BY <3>2, <4>1, <2>1, QuotaMoves
    <3> QED BY <1>2, <3>1, <3>2 DEF CheckUpdate
  <2> QED BY <1>2, <2>2 DEF CheckUpdate, DbTypeOK, QuotaRow
<1>3. ASSUME NEW c \in Cmds, SendOrWait(c),
             UNCHANGED <<status, known, qty, filled, quota, acked, outcome, via>>
      PROVE  DbTypeOK'
  BY <1>3 DEF SendOrWait, DbTypeOK
<1>4. ASSUME NEW o \in Places, InsertPlace(o) PROVE DbTypeOK'
  BY <1>3, <1>4 DEF InsertPlace, Cmds
<1>5. ASSUME NEW u \in Updates, InsertUpdate(u) PROVE DbTypeOK'
  <2>1. CASE SendOrWait(u) /\ UNCHANGED quota
    BY <1>3, <1>5, <2>1 DEF InsertUpdate, Cmds
  <2>2. CASE UNCHANGED ledger /\ quota' \in {quota, Release(UpdateRes(u))}
    <3>1. UpdateRes(u) \in Reservations
      BY ResReservation, IdsAssumption DEF ResOf
    <3>2. quota' \in [Reservations -> QuotaRow]
      BY <2>2, <3>1, QuotaMoves DEF DbTypeOK, QuotaRow
    <3> QED BY <1>5, <2>2, <3>2 DEF InsertUpdate, DbTypeOK, QuotaRow
  <2> QED BY <1>5, <2>1, <2>2 DEF InsertUpdate, GiveBack
<1>6. ASSUME NEW c \in Cancels, SubmitCancel(c) PROVE DbTypeOK'
  BY <1>3, <1>6 DEF SubmitCancel, Cmds
<1>7. ASSUME NEW c \in Cmds, GateRefuses(c) PROVE DbTypeOK'
  <2>1. EffectsTypeOK
    BY <1>7, RefusalType DEF GateRefuses
  <2>2. outcome' \in [Cmds -> OutcomeValues] /\ via' \in [Cmds -> ViaValues]
    BY <1>7 DEF GateRefuses, CloseLocally, Resolve, DbTypeOK, OutcomeValues, ViaValues
  <2> QED BY <1>7, <2>1, <2>2 DEF GateRefuses, EffectsTypeOK, DbTypeOK, QuotaRow
<1>8. ASSUME NEW c \in Cmds, RequestReturns(c) PROVE DbTypeOK'
  <2>1. EffectsTypeOK
    <3>1. CASE ApplyOkEffect(c)
      BY <3>1, OkEffectType
    <3>2. CASE ApplyTimeout(c)
      BY <3>2, TimeoutType
    <3>3. CASE UNCHANGED <<status, known, qty, quota>>
      BY <3>3 DEF DbTypeOK, EffectsTypeOK, QuotaRow
    <3> QED BY <1>8, <3>1, <3>2, <3>3 DEF RequestReturns
  <2> QED BY <1>8, <2>1 DEF RequestReturns, EffectsTypeOK, DbTypeOK, QuotaRow
<1>9. CASE ApplyAck
  <2> DEFINE c == Head(up).cmd
  <2>1. c \in Cmds
    <3>1. up # <<>> /\ up \in Seq(UpOf(Cmds))
      BY <1>9 DEF ApplyAck, LinkTypeOK
    <3>2. Head(up) \in UpOf(Cmds)
      BY <3>1, HeadAndTail
    <3> QED BY <3>2 DEF UpOf
  <2>2. acked' \in SUBSET Cmds
    BY <1>9, <2>1 DEF ApplyAck, DbTypeOK
  <2>3. EffectsTypeOK /\ outcome' \in [Cmds -> OutcomeValues] /\ via' \in [Cmds -> ViaValues]
    <3>1. CASE UNCHANGED <<status, known, qty, quota, outcome, via>>
      BY <3>1 DEF DbTypeOK, EffectsTypeOK, QuotaRow
    <3>2. CASE Resolve(c, "ok", "ack") /\ ApplyOkEffect(c)
      BY <2>1, <3>2, OkEffectType DEF Resolve, DbTypeOK, OutcomeValues, ViaValues
    <3>3. CASE Resolve(c, "error", "ack") /\ ApplyRefusal(c)
      BY <2>1, <3>3, RefusalType DEF Resolve, DbTypeOK, OutcomeValues, ViaValues
    <3>4. CASE /\ outcome' = [outcome EXCEPT ![c] = "unknown"]
               /\ IF c \in Places THEN MarkOrder(c, "unknown") ELSE UNCHANGED status
               /\ UNCHANGED <<via, known, qty, quota>>
      <4>1. status' \in [Places -> Statuses \cup {"absent"}]
        BY <3>4, StatusMoves DEF DbTypeOK, Statuses
      <4> QED BY <3>4, <4>1 DEF EffectsTypeOK, DbTypeOK, OutcomeValues, QuotaRow
    <3> QED BY <1>9, <2>1, <3>1, <3>2, <3>3, <3>4 DEF ApplyAck
  <2> QED BY <1>9, <2>2, <2>3 DEF ApplyAck, EffectsTypeOK, DbTypeOK, QuotaRow
<1>10. ASSUME NEW o \in Places, ApplyDeal(o) PROVE DbTypeOK'
  <2>1. FillStatus(status[o], filled[o] + 1, qty[o]) \in Statuses \cup {"absent"}
    BY MarkEither DEF FillStatus, DbTypeOK, Statuses, Ranked
  <2> QED BY <1>10, <2>1 DEF ApplyDeal, DbTypeOK
<1>11. ASSUME NEW o \in Places, ApplyReport(o) PROVE DbTypeOK'
  <2>1. PICK s \in Reported(o) :
          /\ MarkOrder(o, s)
          /\ CloseAll(IF Mark(status[o], s) \in FinalStatuses THEN ClosedBy(o) ELSE {})
    BY <1>11 DEF ApplyReport
  <2>2. s \in Statuses
    BY DEF Reported, WorldTypeOK, Statuses, Ranked, TerminalStatuses
  <2>3. status' \in [Places -> Statuses \cup {"absent"}]
    BY <2>1, <2>2, StatusMoves
  <2>4. /\ outcome' \in [Cmds -> OutcomeValues]
        /\ via' \in [Cmds -> ViaValues]
        /\ quota' \in [Reservations -> QuotaRow]
    BY <2>1, CloseAllType DEF ClosedBy, Cmds
  <2> QED BY <1>11, <2>3, <2>4 DEF ApplyReport, DbTypeOK, QuotaRow
<1>12. ASSUME NEW c \in Cancels \cup Updates, WatchdogCloses(c) PROVE DbTypeOK'
  <2>1. /\ outcome' \in [Cmds -> OutcomeValues]
        /\ via' \in [Cmds -> ViaValues]
        /\ quota' \in [Reservations -> QuotaRow]
    BY <1>12, CloseAllType DEF WatchdogCloses, Cmds
  <2> QED BY <1>12, <2>1 DEF WatchdogCloses, DbTypeOK, QuotaRow
<1>13. CASE QueryResolves
  <2> DEFINE u == query.cmd
             o == OrderOf[u]
  <2>1. u \in Updates /\ u \in Cmds /\ o \in Places /\ UpdateRes(u) \in Reservations
    BY <1>13, DataAssumption, ResReservation, IdsAssumption
    DEF QueryResolves, LinkTypeOK, ResOf, Cmds
  <2>2. EffectsTypeOK /\ outcome' \in [Cmds -> OutcomeValues] /\ via' \in [Cmds -> ViaValues]
    <3>1. CASE UNCHANGED <<status, known, qty, quota, outcome, via>>
      BY <3>1 DEF DbTypeOK, EffectsTypeOK, QuotaRow
    <3>2. CASE Resolve(u, "ok", "query_qty") /\ ApplyUpdateAck(u)
      <4>1. ApplyOkEffect(u)
        BY <2>1, <3>2 DEF ApplyOkEffect
      <4> QED BY <2>1, <3>2, <4>1, OkEffectType DEF Resolve, DbTypeOK, OutcomeValues, ViaValues
    <3>3. CASE /\ Resolve(u, "error", "query_qty")
               /\ quota' = Release(UpdateRes(u))
               /\ UNCHANGED <<status, known, qty>>
      BY <2>1, <3>3, QuotaMoves
      DEF Resolve, DbTypeOK, EffectsTypeOK, OutcomeValues, ViaValues, QuotaRow
    <3>4. CASE /\ CloseAll(IF status[o] \in FinalStatuses THEN {u} ELSE {})
               /\ UNCHANGED <<status, known, qty>>
      BY <2>1, <3>4, CloseAllType DEF DbTypeOK, EffectsTypeOK, QuotaRow
    <3> QED BY <1>13, <3>1, <3>2, <3>3, <3>4 DEF QueryResolves
  <2> QED BY <1>13, <2>2 DEF QueryResolves, EffectsTypeOK, DbTypeOK, QuotaRow
<1>14. CASE UNCHANGED dbVars
  BY <1>14, DbFrame
<1> QED
  BY <1>1, <1>2, <1>4, <1>5, <1>6, <1>7, <1>8, <1>9, <1>10, <1>11, <1>12, <1>13, <1>14
  DEF Next, RequestNext, ChannelNext, AgentNext, LockNext, EnvNext, vars,
      Dispatch, CancelRefused, RequestTimeout, Login, HealthChanges, Detach, AckHandled,
      Connect, SessionEnds, AgentRestarts, Latch, RowAcked, AlreadyExecuted,
      RejectUnexecuted, Execute, Record, Pump, TakeLock, ReleaseLock, QueryAnswered,
      BrokerFills, BrokerEnds, Expire, ServerCrashes

(* The requests' part.                                                     *)
LEMMA RequestTypeStep == ASSUME TypeOK, [Next]_vars PROVE RequestTypeOK'
<1> USE DEF TypeOK
<1>1. ASSUME NEW o \in Places, CheckPlace(o) PROVE RequestTypeOK'
  BY <1>1 DEF CheckPlace, RequestTypeOK, Cmds
<1>2. ASSUME NEW u \in Updates, CheckUpdate(u) PROVE RequestTypeOK'
  BY <1>2 DEF CheckUpdate, RequestTypeOK, Cmds
<1>3. ASSUME NEW c \in Cmds, SendOrWait(c), loop' \in {loop, "none"} PROVE RequestTypeOK'
  BY <1>3 DEF SendOrWait, Send, RequestTypeOK
<1>4. ASSUME NEW o \in Places, InsertPlace(o) PROVE RequestTypeOK'
  BY <1>3, <1>4 DEF InsertPlace, Cmds
<1>5. ASSUME NEW u \in Updates, InsertUpdate(u) PROVE RequestTypeOK'
  <2>1. CASE SendOrWait(u)
    BY <1>3, <1>5, <2>1 DEF InsertUpdate, Cmds
  <2>2. CASE pc' = [pc EXCEPT ![u] = "done"] /\ UNCHANGED <<ledger, fut, lock, down>>
    BY <1>5, <2>2 DEF InsertUpdate, RequestTypeOK
  <2> QED BY <1>5, <2>1, <2>2 DEF InsertUpdate
<1>6. ASSUME NEW c \in Cancels, SubmitCancel(c) PROVE RequestTypeOK'
  BY <1>3, <1>6 DEF SubmitCancel, Cmds
<1>7. ASSUME NEW c \in Cmds, Dispatch(c) PROVE RequestTypeOK'
  BY <1>7 DEF Dispatch, Send, RequestTypeOK
<1>8. ASSUME NEW c \in Cmds, GateRefuses(c) PROVE RequestTypeOK'
  BY <1>8 DEF GateRefuses, RequestTypeOK
<1>9. ASSUME NEW c \in Cancels, CancelRefused(c) PROVE RequestTypeOK'
  BY <1>9 DEF CancelRefused, RequestTypeOK
<1>10. ASSUME NEW c \in Cmds, RequestTimeout(c) PROVE RequestTypeOK'
  BY <1>10 DEF RequestTimeout, RequestTypeOK, Answers
<1>11. ASSUME NEW c \in Cmds, RequestReturns(c) PROVE RequestTypeOK'
  BY <1>11 DEF RequestReturns, RequestTypeOK
<1>12. ASSUME fut' = PendingTimedOut, UNCHANGED <<pc, lock, loop>> PROVE RequestTypeOK'
  BY <1>12 DEF PendingTimedOut, RequestTypeOK, Answers
<1>13. CASE AckHandled
  <2>1. up # <<>> /\ up \in Seq(UpOf(Cmds))
    BY <1>13 DEF AckHandled, LinkTypeOK
  <2>2. Head(up) \in UpOf(Cmds)
    BY <2>1, HeadAndTail
  <2>3. Head(up).answer \in Answers
    BY <2>2 DEF UpOf
  <2> QED BY <1>13, <2>3 DEF AckHandled, RequestTypeOK
<1>14. ASSUME NEW w \in {"worker", "watchdog"}, TakeLock(w) PROVE RequestTypeOK'
  BY <1>14 DEF TakeLock, RequestTypeOK
<1>15. CASE ReleaseLock
  BY <1>15 DEF ReleaseLock, RequestTypeOK
<1>16. CASE ServerCrashes
  BY <1>16 DEF ServerCrashes, RequestTypeOK
<1>17. CASE UNCHANGED reqVars
  BY <1>17, RequestFrame
<1> QED
  BY <1>1, <1>2, <1>4, <1>5, <1>6, <1>7, <1>8, <1>9, <1>10, <1>11, <1>12, <1>13, <1>14,
     <1>15, <1>16, <1>17
  DEF Next, RequestNext, ChannelNext, AgentNext, LockNext, EnvNext, vars,
      Login, HealthChanges, Detach, ApplyAck, Connect, SessionEnds, AgentRestarts, Latch,
      RowAcked, AlreadyExecuted, RejectUnexecuted, Execute, Record, Pump, ApplyDeal,
      ApplyReport, WatchdogCloses, QueryAnswered, QueryResolves, BrokerFills, BrokerEnds,
      Expire

(* The link's part: messages are only ever sent of known commands.         *)
LEMMA DownlinkType ==
  ASSUME NEW S, down \in Seq(DownOf(S)), NEW c \in S, NEW t \in {"cmd", "ack"},
         Downlink(Message(t, c))
  PROVE  down' \in Seq(DownOf(S))
<1>1. Message(t, c) \in DownOf(S)
  BY DEF Message, DownOf
<1> QED BY <1>1 DEF Downlink

LEMMA UplinkType ==
  ASSUME NEW S, up \in Seq(UpOf(S)), NEW c \in S, NEW t \in {"row", "direct"},
         NEW a \in Answers, Uplink(t, c, a)
  PROVE  up' \in Seq(UpOf(S))
<1>1. [type |-> t, cmd |-> c, answer |-> a] \in UpOf(S)
  BY DEF UpOf
<1> QED BY <1>1 DEF Uplink

LEMMA ReplayType ==
  ASSUME InLedger \subseteq Cmds, NEW rows \in ReplayRows
  PROVE  [i \in DOMAIN rows |-> Message("cmd", rows[i])] \in Seq(DownOf(InLedger))
<1> DEFINE open == {c \in InLedger : c \notin acked /\ ~Resolved(c)}
           n == Cardinality(open)
           sent == [i \in DOMAIN rows |-> Message("cmd", rows[i])]
<1>1. n \in Nat
  BY IdsAssumption, FS_Subset, FS_CardinalityType
<1>2. rows \in [1..n -> open]
  BY DEF ReplayRows
<1>3. sent \in [1..n -> DownOf(InLedger)]
  BY <1>2 DEF Message, DownOf
<1> QED BY <1>1, <1>3, SeqDef

LEMMA LedgerType == ASSUME DbTypeOK PROVE InLedger \subseteq Cmds
BY DEF DbTypeOK, InLedger

LEMMA LedgerAppend ==
  ASSUME DbTypeOK, NEW c \in Cmds, ledger' = Append(ledger, c)
  PROVE  InLedger' = InLedger \cup {c}
<1>1. /\ Len(ledger') = Len(ledger) + 1 /\ Len(ledger) \in Nat
      /\ \A i \in 1..Len(ledger) : ledger'[i] = ledger[i]
      /\ ledger'[Len(ledger) + 1] = c
  BY DEF DbTypeOK
<1> QED BY <1>1 DEF InLedger

LEMMA LedgerSame == ASSUME UNCHANGED ledger PROVE InLedger' = InLedger
BY DEF InLedger

(* Rows are only ever added to the ledger.                                 *)
LEMMA LedgerGrows == ASSUME TypeOK, [Next]_vars PROVE InLedger \subseteq InLedger'
<1>1. ASSUME NEW c \in Cmds, SendOrWait(c) PROVE InLedger \subseteq InLedger'
  BY <1>1, LedgerAppend DEF SendOrWait, TypeOK
<1>2. ASSUME NEW o \in Places, InsertPlace(o) PROVE InLedger \subseteq InLedger'
  BY <1>1, <1>2 DEF InsertPlace, Cmds
<1>3. ASSUME NEW u \in Updates, InsertUpdate(u) PROVE InLedger \subseteq InLedger'
  BY <1>1, <1>3, LedgerSame DEF InsertUpdate, Cmds
<1>4. ASSUME NEW c \in Cancels, SubmitCancel(c) PROVE InLedger \subseteq InLedger'
  BY <1>1, <1>4 DEF SubmitCancel, Cmds
<1>5. CASE UNCHANGED ledger
  BY <1>5, LedgerSame
<1> QED
  BY <1>2, <1>3, <1>4, <1>5
  DEF Next, RequestNext, ChannelNext, AgentNext, LockNext, EnvNext, vars, dbVars,
      CheckPlace, CheckUpdate, Dispatch, GateRefuses, CancelRefused, RequestTimeout,
      RequestReturns, Login, HealthChanges, Detach, ApplyAck, AckHandled, Connect,
      SessionEnds, AgentRestarts, Latch, RowAcked, AlreadyExecuted, RejectUnexecuted,
      Execute, Record, Pump, TakeLock, ReleaseLock, ApplyDeal, ApplyReport,
      WatchdogCloses, QueryAnswered, QueryResolves, BrokerFills, BrokerEnds, Expire,
      ServerCrashes

LEMMA MessagesMonotonic ==
  ASSUME NEW S, NEW T, S \subseteq T
  PROVE  /\ \A d \in Seq(DownOf(S)) : d \in Seq(DownOf(T))
         /\ \A d \in Seq(UpOf(S)) : d \in Seq(UpOf(T))
<1>1. DownOf(S) \subseteq DownOf(T) /\ UpOf(S) \subseteq UpOf(T)
  BY DEF DownOf, UpOf
<1> QED BY <1>1, SeqMonotonic

LEMMA HeadDown ==
  ASSUME WrittenFirst, down # <<>>
  PROVE  Head(down) \in DownOf(InLedger) /\ Tail(down) \in Seq(DownOf(InLedger))
BY HeadAndTail DEF WrittenFirst

LEMMA HeadUp ==
  ASSUME WrittenFirst, up # <<>>
  PROVE  Head(up) \in UpOf(InLedger) /\ Tail(up) \in Seq(UpOf(InLedger))
BY HeadAndTail DEF WrittenFirst

Written ==
  /\ down \in Seq(DownOf(InLedger))
  /\ up \in Seq(UpOf(InLedger))

LEMMA WrittenFrame ==
  ASSUME TypeOK, WrittenFirst, [Next]_vars,
         down' \in Seq(DownOf(InLedger)), up' \in Seq(UpOf(InLedger))
  PROVE  Written'
BY LedgerGrows, MessagesMonotonic DEF Written

LEMMA WrittenStep == ASSUME TypeOK, WrittenFirst, [Next]_vars PROVE Written'
<1> DEFINE DownStays == down' \in Seq(DownOf(InLedger))
           UpStays == up' \in Seq(UpOf(InLedger))
<1>a. down \in Seq(DownOf(InLedger)) /\ up \in Seq(UpOf(InLedger))
  BY DEF WrittenFirst
<1>1. ASSUME NEW c \in Cmds, SendOrWait(c), UNCHANGED up PROVE Written'
  <2>1. InLedger' = InLedger \cup {c}
    BY <1>1, LedgerAppend DEF SendOrWait, TypeOK
  <2>2. down \in Seq(DownOf(InLedger')) /\ up' \in Seq(UpOf(InLedger'))
    BY <1>a, <1>1, <2>1, MessagesMonotonic
  <2>3. down' \in Seq(DownOf(InLedger'))
    BY <1>1, <2>1, <2>2, DownlinkType DEF SendOrWait, Send
  <2> QED BY <2>2, <2>3 DEF Written
<1>2. ASSUME NEW o \in Places, InsertPlace(o) PROVE Written'
  BY <1>1, <1>2 DEF InsertPlace, Cmds
<1>3. ASSUME NEW u \in Updates, InsertUpdate(u) PROVE Written'
  <2>1. CASE SendOrWait(u)
    BY <1>1, <1>3, <2>1 DEF InsertUpdate, Cmds
  <2>2. CASE UNCHANGED <<ledger, fut, lock, down>>
    BY <1>a, <1>3, <2>2, WrittenFrame DEF InsertUpdate
  <2> QED BY <1>3, <2>1, <2>2 DEF InsertUpdate
<1>4. ASSUME NEW c \in Cancels, SubmitCancel(c) PROVE Written'
  BY <1>1, <1>4 DEF SubmitCancel, Cmds
<1>5. ASSUME NEW c \in Cmds, Dispatch(c) PROVE DownStays /\ UpStays
  <2>1. c \in InLedger
    BY <1>5 DEF Dispatch, WrittenFirst
  <2> QED BY <1>a, <1>5, <2>1, DownlinkType DEF Dispatch, Send
<1>6. ASSUME Login PROVE DownStays /\ UpStays
  <2>1. PICK rows \in ReplayRows :
          down' = IF sess THEN down \o [i \in DOMAIN rows |-> Message("cmd", rows[i])] ELSE down
    BY <1>6 DEF Login
  <2>2. [i \in DOMAIN rows |-> Message("cmd", rows[i])] \in Seq(DownOf(InLedger))
    BY ReplayType, LedgerType DEF TypeOK
  <2> QED BY <1>a, <1>6, <2>1, <2>2, ConcatProperties DEF Login
<1>7. ASSUME AckHandled PROVE DownStays /\ UpStays
  <2>1. up # <<>>
    BY <1>7 DEF AckHandled, TypeOK, LinkTypeOK
  <2>2. Head(up).cmd \in InLedger /\ UpStays
    BY <1>7, <2>1, HeadUp DEF AckHandled, UpOf
  <2> QED BY <1>a, <1>7, <2>2, DownlinkType DEF AckHandled
<1>8. ASSUME NEW t, Receiving(t), down' = Tail(down) PROVE DownStays
  BY <1>8, HeadDown DEF Receiving
<1>9. ASSUME RowAcked \/ AlreadyExecuted \/ Execute PROVE DownStays /\ UpStays
  BY <1>a, <1>8, <1>9 DEF RowAcked, AlreadyExecuted, Execute
<1>10. ASSUME RejectUnexecuted PROVE DownStays /\ UpStays
  <2>1. Head(down).cmd \in InLedger
    BY <1>10, HeadDown DEF RejectUnexecuted, Receiving, DownOf
  <2>2. UpStays
    BY <1>a, <1>10, <2>1, UplinkType DEF RejectUnexecuted, Answers, ExplicitReject
  <2> QED BY <1>8, <1>10, <2>2 DEF RejectUnexecuted
<1>11. ASSUME NEW c \in Cmds, Pump(c) PROVE DownStays /\ UpStays
  <2>1. c \in InLedger /\ agentLedger[c] \in Answers
    BY <1>11 DEF Pump, WrittenFirst, TypeOK, AgentTypeOK
  <2> QED BY <1>a, <1>11, <2>1, UplinkType DEF Pump
<1>12. ASSUME down' \in {down, <<>>}, up' \in {up, <<>>} PROVE DownStays /\ UpStays
  BY <1>a, <1>12, EmptySeq
<1> QED
  BY <1>2, <1>3, <1>4, <1>5, <1>6, <1>7, <1>9, <1>10, <1>11, <1>12, WrittenFrame
  DEF Next, RequestNext, ChannelNext, AgentNext, LockNext, EnvNext, vars, wireVars,
      CheckPlace, CheckUpdate, GateRefuses, CancelRefused, RequestTimeout,
      RequestReturns, HealthChanges, Detach, ApplyAck, Connect, SessionEnds, EndSession,
      AgentRestarts, Latch, Record, TakeLock, ReleaseLock, ApplyDeal, ApplyReport,
      WatchdogCloses, QueryAnswered, QueryResolves, BrokerFills, BrokerEnds, Expire,
      ServerCrashes

LEMMA LinkTypeStep == ASSUME TypeOK, WrittenFirst, [Next]_vars PROVE LinkTypeOK'
<1> USE DEF TypeOK
<1>1. down' \in Seq(DownOf(Cmds)) /\ up' \in Seq(UpOf(Cmds))
  <2>1. InLedger' \subseteq Cmds
    BY DbTypeStep DEF DbTypeOK, InLedger
  <2> QED BY <2>1, WrittenStep, MessagesMonotonic DEF Written
<1> DEFINE Rest == /\ chan' \in {"down", "open", "in", "ok"}
                   /\ applied' \in BOOLEAN
                   /\ query' \in [cmd : Updates, qty : Nat] \cup {NoQuery}
                   /\ applied' => up' # <<>>
<1>2. ASSUME UNCHANGED chanVars, up' = up \/ \E m : up' = Append(up, m) PROVE Rest
  BY <1>2 DEF LinkTypeOK, chanVars
<1>3. ASSUME UNCHANGED query, applied' = FALSE, chan' \in {"down", "open", "in", "ok"}
      PROVE  Rest
  BY <1>3 DEF LinkTypeOK
<1>4. ASSUME Login \/ HealthChanges PROVE Rest
  BY <1>4 DEF Login, HealthChanges, LinkTypeOK, wireVars
<1>5. ASSUME ApplyAck PROVE Rest
  BY <1>5 DEF ApplyAck, LinkTypeOK, wireVars
<1>6. ASSUME AckHandled PROVE Rest
  BY <1>6 DEF AckHandled, LinkTypeOK
<1>7. ASSUME NEW u \in Updates, QueryAnswered(u) PROVE Rest
  <2>1. PICK n \in {0} \cup Sizes(OrderOf[u]) : query' = [cmd |-> u, qty |-> n]
    BY <1>7 DEF QueryAnswered
  <2>2. n \in Nat
    BY <2>1, DataAssumption DEF Sizes, WorldTypeOK
  <2> QED BY <1>7, <2>1, <2>2 DEF QueryAnswered, LinkTypeOK, wireVars
<1>8. ASSUME QueryResolves PROVE Rest
  BY <1>8 DEF QueryResolves, LinkTypeOK, wireVars
<1>9. ASSUME ServerCrashes PROVE Rest
  BY <1>9 DEF ServerCrashes, LinkTypeOK
<1>10. Rest
  <2>1. CASE AgentNext
    BY <1>2, <1>3, <2>1
    DEF AgentNext, Connect, SessionEnds, EndSession, AgentRestarts, Latch, RowAcked,
        AlreadyExecuted, RejectUnexecuted, Uplink, Execute, Record, Pump, chanVars, wireVars,
        LinkTypeOK
  <2>2. CASE RequestNext
    BY <1>2, <2>2
    DEF RequestNext, CheckPlace, CheckUpdate, InsertPlace, InsertUpdate, SubmitCancel,
        Dispatch, GateRefuses, CancelRefused, RequestTimeout, RequestReturns, wireVars
  <2>3. CASE ChannelNext
    BY <1>3, <1>4, <1>5, <1>6, <2>3 DEF ChannelNext, Detach
  <2>4. CASE LockNext
    BY <1>2, <1>7, <1>8, <2>4
    DEF LockNext, TakeLock, ReleaseLock, ApplyDeal, ApplyReport, WatchdogCloses, wireVars
  <2>5. CASE EnvNext
    BY <1>2, <1>9, <2>5 DEF EnvNext, BrokerFills, BrokerEnds, Expire, wireVars
  <2>6. CASE UNCHANGED vars
    BY <1>2, <2>6 DEF vars, wireVars
  <2> QED BY <2>1, <2>2, <2>3, <2>4, <2>5, <2>6 DEF Next
<1> QED BY <1>1, <1>10 DEF LinkTypeOK

(* The agent's part.                                                       *)
LEMMA AgentTypeStep == ASSUME TypeOK, [Next]_vars PROVE AgentTypeOK'
<1> USE DEF TypeOK
<1>1. CASE SessionEnds \/ AgentRestarts
  BY <1>1 DEF SessionEnds, AgentRestarts, EndSession, AgentTypeOK
<1>2. CASE Connect \/ Latch
  BY <1>2 DEF Connect, Latch, AgentTypeOK
<1>3. ASSUME NEW t, Receiving(t) PROVE Head(down).cmd \in Cmds
  <2>1. down # <<>> /\ down \in Seq(DownOf(Cmds))
    BY <1>3 DEF Receiving, LinkTypeOK
  <2>2. Head(down) \in DownOf(Cmds)
    BY <2>1, HeadAndTail
  <2> QED BY <2>2 DEF DownOf
<1>4. CASE RowAcked
  BY <1>4 DEF RowAcked, AgentTypeOK
<1>5. CASE AlreadyExecuted
  BY <1>3, <1>5 DEF AlreadyExecuted, Recorded, AgentTypeOK
<1>6. CASE Execute
  <2>1. exec' \in [cmd : Cmds, answer : Answers]
    BY <1>3, <1>6, DataAssumption DEF Execute, Answers
  <2> QED BY <1>6, <2>1 DEF Execute, AgentTypeOK
<1>7. CASE Record
  <2>1. exec.cmd \in Cmds /\ exec.answer \in Answers
    BY <1>7 DEF Record, AgentTypeOK
  <2>2. exec.answer # "none"
    BY <2>1 DEF Answers, ExplicitReject
  <2> QED BY <1>7, <2>1, <2>2 DEF Record, AgentTypeOK
<1>8. CASE UNCHANGED agentVars
  BY <1>8, AgentFrame
<1> QED
  BY <1>1, <1>2, <1>4, <1>5, <1>6, <1>7, <1>8
  DEF Next, RequestNext, ChannelNext, AgentNext, LockNext, EnvNext, vars,
      CheckPlace, CheckUpdate, InsertPlace, InsertUpdate, SubmitCancel, Dispatch,
      GateRefuses, CancelRefused, RequestTimeout, RequestReturns, Login, HealthChanges,
      Detach, ApplyAck, AckHandled, RejectUnexecuted, Pump, TakeLock, ReleaseLock,
      ApplyDeal, ApplyReport, WatchdogCloses, QueryAnswered, QueryResolves, BrokerFills,
      BrokerEnds, Expire, ServerCrashes

(* The broker's part, and the history.                                     *)
LEMMA WorldTypeStep == ASSUME TypeOK, [Next]_vars PROVE WorldTypeOK'
<1> USE DEF TypeOK
<1>1. CASE SessionEnds \/ AgentRestarts
  BY <1>1 DEF SessionEnds, AgentRestarts, EndSession, WorldTypeOK, AgentTypeOK, NoCall, brokerVars
<1>2. CASE Connect
  BY <1>2 DEF Connect, WorldTypeOK, brokerVars
<1>3. CASE Execute
  <2> DEFINE c == Head(down).cmd
  <2>1. down # <<>> /\ down \in Seq(DownOf(Cmds))
    BY <1>3 DEF Execute, Receiving, LinkTypeOK
  <2>2. c \in Cmds
    <3>1. Head(down) \in DownOf(Cmds)
      BY <2>1, HeadAndTail
    <3> QED BY <3>1 DEF DownOf
  <2>3. attempts' \in [Cmds -> Nat]
    BY <1>3, <2>2 DEF Execute, WorldTypeOK
  <2>4. /\ placed' \in [Places -> Nat]
        /\ bQty' \in [Places -> Nat]
        /\ bEnd' \in [Places -> {"open", "cancelled", "failed"}]
        /\ taken' \in SUBSET Cmds
    <3>1. CASE UNCHANGED <<placed, bQty, bEnd, taken>>
      BY <3>1 DEF WorldTypeOK
    <3>2. CASE BrokerTakes(c) /\ taken' = taken \cup {c}
      BY <2>2, <3>2, DataAssumption DEF BrokerTakes, WorldTypeOK
    <3> QED BY <1>3, <3>1, <3>2 DEF Execute
  <2> QED BY <1>3, <2>3, <2>4 DEF Execute, WorldTypeOK, envVars
<1>4. ASSUME NEW o \in Places, BrokerFills(o) \/ BrokerEnds(o) PROVE WorldTypeOK'
  BY <1>4 DEF BrokerFills, BrokerEnds, WorldTypeOK, envVars
<1>5. ASSUME NEW c \in Cmds, Expire(c) PROVE WorldTypeOK'
  BY <1>5 DEF Expire, WorldTypeOK, brokerVars
<1>6. CASE ServerCrashes
  BY <1>6 DEF ServerCrashes, WorldTypeOK, brokerVars
<1>7. CASE UNCHANGED <<brokerVars, envVars>>
  BY <1>7, WorldFrame
<1>8. ASSUME NEW c \in Cmds, Dispatch(c) PROVE WorldTypeOK'
  BY <1>8 DEF Dispatch, WorldTypeOK, brokerVars
<1>9. ASSUME NEW u \in Updates, QueryAnswered(u) PROVE WorldTypeOK'
  BY <1>9 DEF QueryAnswered, WorldTypeOK, brokerVars
<1> QED
  BY <1>1, <1>2, <1>3, <1>4, <1>5, <1>6, <1>7, <1>8, <1>9
  DEF Next, RequestNext, ChannelNext, AgentNext, LockNext, EnvNext, vars,
      CheckPlace, CheckUpdate, InsertPlace, InsertUpdate, SubmitCancel,
      GateRefuses, CancelRefused, RequestTimeout, RequestReturns, Login, HealthChanges,
      Detach, ApplyAck, AckHandled, Latch, RowAcked, AlreadyExecuted, RejectUnexecuted,
      Record, Pump, TakeLock, ReleaseLock, ApplyDeal, ApplyReport, WatchdogCloses,
      QueryResolves

LEMMA TypeStep == ASSUME TypeOK, WrittenFirst, [Next]_vars PROVE TypeOK'
BY DbTypeStep, RequestTypeStep, LinkTypeStep, AgentTypeStep, WorldTypeStep DEF TypeOK

LEMMA TypeInit == ASSUME Init PROVE TypeOK
<1>1. DbTypeOK
  <2>1. quota \in [Reservations -> QuotaRow]
    BY DEF Init, QuotaRow
  <2> QED BY <2>1, DataAssumption, EmptySeq
      DEF Init, DbTypeOK, QuotaRow, OutcomeValues, ViaValues
<1>2. RequestTypeOK
  BY DEF Init, RequestTypeOK
<1>3. LinkTypeOK
  BY EmptySeq DEF Init, LinkTypeOK
<1>4. AgentTypeOK
  BY DEF Init, AgentTypeOK
<1>5. WorldTypeOK
  BY DataAssumption DEF Init, WorldTypeOK
<1> QED BY <1>1, <1>2, <1>3, <1>4, <1>5 DEF TypeOK

-----------------------------------------------------------------------------
(* The first verdict stands.                                               *)

StandsStill == \A c \in Cmds : Resolved(c) => via'[c] = via[c] /\ outcome'[c] = outcome[c]

LEMMA ResolveOpen ==
  ASSUME DbTypeOK, NEW c \in Cmds, ~Resolved(c), NEW out, NEW how, Resolve(c, out, how)
  PROVE  StandsStill
BY DEF Resolve, StandsStill, DbTypeOK

LEMMA CloseOpen ==
  ASSUME DbTypeOK, NEW C \in SUBSET Cmds, \A c \in C : ~Resolved(c), CloseAll(C)
  PROVE  StandsStill
BY DEF CloseAll, StandsStill

LEMMA ResolvedStep == ASSUME TypeOK, [Next]_vars PROVE StandsStill
<1> USE DEF TypeOK
<1>1. ASSUME NEW c \in Cmds, GateRefuses(c) PROVE StandsStill
  <2>1. CASE Resolved(c)
    BY <1>1, <2>1 DEF GateRefuses, CloseLocally, StandsStill
  <2>2. CASE ~Resolved(c)
    BY <1>1, <2>2, ResolveOpen DEF GateRefuses, CloseLocally
  <2> QED BY <2>1, <2>2
<1>2. CASE ApplyAck
  <2> DEFINE c == Head(up).cmd
  <2>1. up # <<>> /\ up \in Seq(UpOf(Cmds))
    BY <1>2 DEF ApplyAck, LinkTypeOK
  <2>2. Head(up) \in UpOf(Cmds)
    BY <2>1, HeadAndTail
  <2>3. c \in Cmds
    BY <2>2 DEF UpOf
  <2>4. CASE UNCHANGED <<outcome, via>>
    BY <2>4 DEF StandsStill
  <2>5. CASE ~Resolved(c) /\ Resolve(c, "ok", "ack")
    BY <2>3, <2>5, ResolveOpen
  <2>6. CASE ~Resolved(c) /\ Resolve(c, "error", "ack")
    BY <2>3, <2>6, ResolveOpen
  <2>7. CASE ~Resolved(c) /\ outcome' = [outcome EXCEPT ![c] = "unknown"] /\ UNCHANGED via
    BY <2>3, <2>7 DEF StandsStill, DbTypeOK
  <2> QED BY <1>2, <2>4, <2>5, <2>6, <2>7 DEF ApplyAck, AnsweredBefore
<1>3. ASSUME NEW o \in Places, ApplyReport(o) PROVE StandsStill
  <2>1. \A c \in ClosedBy(o) : c \in Cmds /\ ~Resolved(c)
    BY DEF ClosedBy, Unresolved, Cmds
  <2>2. PICK C \in {ClosedBy(o), {}} : CloseAll(C)
    BY <1>3 DEF ApplyReport
  <2> QED BY <2>1, <2>2, CloseOpen
<1>4. ASSUME NEW c \in Cancels \cup Updates, WatchdogCloses(c) PROVE StandsStill
  <2>1. ~Resolved(c)
    BY <1>4 DEF WatchdogCloses, ClosedBy, Unresolved
  <2> QED BY <1>4, <2>1, CloseOpen DEF WatchdogCloses, Cmds
<1>5. CASE QueryResolves
  <2> DEFINE u == query.cmd
  <2>1. u \in Cmds
    BY <1>5 DEF QueryResolves, LinkTypeOK, Cmds
  <2>2. CASE UNCHANGED <<outcome, via>>
    BY <2>2 DEF StandsStill
  <2>3. CASE ~Resolved(u) /\ (Resolve(u, "ok", "query_qty") \/ Resolve(u, "error", "query_qty"))
    BY <2>1, <2>3, ResolveOpen
  <2>4. CASE ~Resolved(u) /\ \E C \in {{u}, {}} : CloseAll(C)
    BY <2>1, <2>4, CloseOpen
  <2> QED BY <1>5, <2>2, <2>3, <2>4 DEF QueryResolves
<1>6. CASE UNCHANGED <<outcome, via>>
  BY <1>6 DEF StandsStill
<1> QED
  BY <1>1, <1>2, <1>3, <1>4, <1>5, <1>6
  DEF Next, RequestNext, ChannelNext, AgentNext, LockNext, EnvNext, vars, dbVars,
      CheckPlace, CheckUpdate, InsertPlace, InsertUpdate, SubmitCancel, Dispatch,
      CancelRefused, RequestTimeout, RequestReturns, Login, HealthChanges, Detach,
      AckHandled, Connect, SessionEnds, AgentRestarts, Latch, RowAcked, AlreadyExecuted,
      RejectUnexecuted, Execute, Record, Pump, TakeLock, ReleaseLock, ApplyDeal,
      QueryAnswered, BrokerFills, BrokerEnds, Expire, ServerCrashes

-----------------------------------------------------------------------------
(* Nothing is under way before it is in the ledger.                        *)

(* An order's broker ids, once known, stay known.                          *)
LEMMA KnownGrows ==
  ASSUME TypeOK, [Next]_vars, NEW o \in Places, known[o]
  PROVE  known'[o]
<1> USE DEF TypeOK
<1>1. ASSUME NEW c \in Cmds, ApplyOkEffect(c) PROVE known'[o]
  BY <1>1 DEF ApplyOkEffect, ApplyPlaceAck, ApplyUpdateAck, ApplyCancelAck, DbTypeOK
<1>2. ASSUME NEW c \in Cmds, RequestReturns(c) PROVE known'[o]
  BY <1>1, <1>2 DEF RequestReturns, ApplyTimeout
<1>3. CASE ApplyAck
  <2>1. up # <<>> /\ up \in Seq(UpOf(Cmds))
    BY <1>3 DEF ApplyAck, LinkTypeOK
  <2>2. Head(up) \in UpOf(Cmds)
    BY <2>1, HeadAndTail
  <2>3. Head(up).cmd \in Cmds
    BY <2>2 DEF UpOf
  <2> QED BY <1>1, <1>3, <2>3 DEF ApplyAck, ApplyRefusal
<1>4. CASE UNCHANGED known
  BY <1>4
<1> QED
  BY <1>2, <1>3, <1>4
  DEF Next, RequestNext, ChannelNext, AgentNext, LockNext, EnvNext, vars, dbVars,
      ApplyRefusal, ApplyUpdateAck, CheckPlace, CheckUpdate, InsertPlace, InsertUpdate,
      SubmitCancel, Dispatch, GateRefuses, CancelRefused, RequestTimeout, Login,
      HealthChanges, Detach, AckHandled, Connect, SessionEnds, AgentRestarts, Latch,
      RowAcked, AlreadyExecuted, RejectUnexecuted, Execute, Record, Pump, TakeLock,
      ReleaseLock, ApplyDeal, ApplyReport, WatchdogCloses, QueryAnswered, QueryResolves,
      BrokerFills, BrokerEnds, Expire, ServerCrashes

Requests ==
  /\ \A c \in Cmds : pc[c] = "idle" => c \notin InLedger
  /\ \A c \in Cmds : pc[c] \in {"waiting", "sent"} => c \in InLedger
  /\ loop # "none" => pc[loop] # "idle"
  /\ \A c \in Cancels \cup Updates : pc[c] # "idle" => known[OrderOf[c]]

LEMMA RequestsStep == ASSUME TypeOK, WrittenFirst, [Next]_vars PROVE Requests'
<1> USE DEF TypeOK
<1>a. \A o \in Places : known[o] => known'[o]
  BY KnownGrows
<1>b. \A c \in Cancels \cup Updates : c \in Cmds /\ OrderOf[c] \in Places /\ Cmds = Cmds'
  BY DataAssumption DEF Cmds
<1>c. loop \in Cmds \cup {"none"} /\ "none" \notin Cmds
  BY IdsAssumption DEF RequestTypeOK
<1> DEFINE SamePc == UNCHANGED <<pc, loop, ledger>>
           Moves(c) == \E s \in {"waiting", "sent", "done"} : pc' = [pc EXCEPT ![c] = s]
<1>1. ASSUME UNCHANGED <<pc, loop, ledger>> PROVE Requests'
  BY <1>a, <1>b, <1>1, LedgerSame DEF WrittenFirst, Requests
<1>2. ASSUME NEW o \in Places, CheckPlace(o) PROVE Requests'
  <2>1. InLedger' = InLedger
    BY <1>2, LedgerSame DEF CheckPlace
  <2>2. o \in Cmds /\ o \notin Cancels \cup Updates
    BY IdsAssumption DEF Cmds
  <2> QED BY <1>a, <1>b, <1>2, <2>1, <2>2 DEF CheckPlace, WrittenFirst, Requests, RequestTypeOK
<1>3. ASSUME NEW u \in Updates, CheckUpdate(u) PROVE Requests'
  <2>1. InLedger' = InLedger
    BY <1>3, LedgerSame DEF CheckUpdate
  <2> QED BY <1>a, <1>b, <1>3, <2>1 DEF CheckUpdate, WrittenFirst, Requests, RequestTypeOK
<1>4. ASSUME NEW c \in Cmds, SendOrWait(c), loop' = "none",
             c \in Cancels \cup Updates => known[OrderOf[c]]
      PROVE  Requests'
  <2>1. InLedger' = InLedger \cup {c}
    BY <1>4, LedgerAppend DEF SendOrWait
  <2>2. \E s \in {"waiting", "sent"} : pc' = [pc EXCEPT ![c] = s]
    BY <1>4 DEF SendOrWait, Send
  <2> QED BY <1>a, <1>b, <1>4, <2>1, <2>2 DEF WrittenFirst, Requests, RequestTypeOK
<1>5. ASSUME NEW o \in Places, InsertPlace(o) PROVE Requests'
  BY <1>4, <1>5, IdsAssumption DEF InsertPlace, Cmds
<1>6. ASSUME NEW u \in Updates, InsertUpdate(u) PROVE Requests'
  <2>1. known[OrderOf[u]]
    BY <1>c, <1>b, <1>6 DEF InsertUpdate, WrittenFirst
  <2>2. CASE SendOrWait(u)
    BY <1>4, <1>6, <2>1, <2>2 DEF InsertUpdate, Cmds
  <2>3. CASE pc' = [pc EXCEPT ![u] = "done"] /\ UNCHANGED <<ledger, fut, lock, down>>
    <3>1. InLedger' = InLedger
      BY <2>3, LedgerSame
    <3>2. loop' = "none"
      BY <1>6 DEF InsertUpdate
    <3> QED BY <1>a, <1>b, <2>1, <2>3, <3>1, <3>2 DEF WrittenFirst, Requests, RequestTypeOK
  <2> QED BY <1>6, <2>2, <2>3 DEF InsertUpdate
<1>7. ASSUME NEW c \in Cancels, SubmitCancel(c) PROVE Requests'
  <2>1. loop' = "none"
    BY <1>7 DEF SubmitCancel, LoopFree
  <2> QED BY <1>4, <1>7, <2>1 DEF SubmitCancel, Cmds
<1>8. ASSUME NEW c \in Cmds, pc[c] \in {"waiting", "sent"}, NEW s \in {"sent", "done"},
             pc' = [pc EXCEPT ![c] = s], UNCHANGED <<ledger, loop>>
      PROVE  Requests'
  <2>1. InLedger' = InLedger
    BY <1>8, LedgerSame
  <2> QED BY <1>a, <1>b, <1>c, <1>8, <2>1 DEF WrittenFirst, Requests, RequestTypeOK
<1>9. ASSUME NEW c \in Cmds, Dispatch(c) \/ GateRefuses(c) \/ CancelRefused(c) \/ RequestReturns(c)
      PROVE  Requests'
  BY <1>8, <1>9 DEF Dispatch, Send, GateRefuses, CancelRefused, RequestReturns, dbVars
<1>10. CASE ServerCrashes
  <2>1. InLedger' = InLedger
    BY <1>10, LedgerSame DEF ServerCrashes, dbVars
  <2> QED BY <1>a, <1>b, <1>10, <2>1 DEF ServerCrashes, WrittenFirst, Requests, RequestTypeOK
<1> QED
  BY <1>1, <1>2, <1>3, <1>5, <1>6, <1>7, <1>9, <1>10, <1>b
  DEF Next, RequestNext, ChannelNext, AgentNext, LockNext, EnvNext, vars, dbVars, reqVars,
      RequestTimeout, Login, HealthChanges, Detach, ApplyAck, AckHandled, Connect,
      SessionEnds, AgentRestarts, Latch, RowAcked, AlreadyExecuted, RejectUnexecuted,
      Execute, Record, Pump, TakeLock, ReleaseLock, ApplyDeal, ApplyReport,
      WatchdogCloses, QueryAnswered, QueryResolves, BrokerFills, BrokerEnds, Expire

Executing ==
  /\ exec # NoCall => exec.cmd \in InLedger
  /\ outbox \subseteq InLedger
  /\ query # NoQuery => query.cmd \in InLedger

LEMMA ExecutingStep == ASSUME TypeOK, WrittenFirst, [Next]_vars PROVE Executing'
<1> USE DEF TypeOK
<1>a. InLedger \subseteq InLedger'
  BY LedgerGrows
<1> DEFINE SameAgent == exec' \in {exec, NoCall} /\ outbox' \subseteq outbox
           SameQuery == query' \in {query, NoQuery}
<1>1. ASSUME SameAgent, SameQuery PROVE Executing'
  BY <1>a, <1>1 DEF Executing, WrittenFirst
<1>2. CASE AlreadyExecuted \/ Execute
  <2>1. Head(down).cmd \in InLedger
    BY <1>2, HeadDown DEF AlreadyExecuted, Execute, Receiving, DownOf
  <2> QED BY <1>a, <1>2, <2>1
      DEF AlreadyExecuted, Execute, Executing, WrittenFirst, chanVars
<1>3. CASE Record
  BY <1>a, <1>3 DEF Record, Executing, WrittenFirst, chanVars
<1>4. ASSUME NEW u \in Updates, QueryAnswered(u) PROVE Executing'
  <2>1. u \in InLedger
    BY <1>4 DEF QueryAnswered, ClosedBy, Unresolved
  <2> QED BY <1>a, <1>4, <2>1 DEF QueryAnswered, Executing, WrittenFirst, agentVars
<1> QED
  BY <1>1, <1>2, <1>3, <1>4
  DEF Next, RequestNext, ChannelNext, AgentNext, LockNext, EnvNext, vars, EndSession,
      chanVars, agentVars, CheckPlace, CheckUpdate, InsertPlace, InsertUpdate,
      SubmitCancel, Dispatch, GateRefuses, CancelRefused, RequestTimeout, RequestReturns,
      Login, HealthChanges, Detach, ApplyAck, AckHandled, Connect, SessionEnds,
      AgentRestarts, Latch, RowAcked, RejectUnexecuted, Pump, TakeLock, ReleaseLock,
      ApplyDeal, ApplyReport, WatchdogCloses, QueryResolves, BrokerFills, BrokerEnds,
      Expire, ServerCrashes

LEMMA WrittenFirstStep == ASSUME TypeOK, WrittenFirst, [Next]_vars PROVE WrittenFirst'
BY WrittenStep, RequestsStep, ExecutingStep DEF WrittenFirst, Written, Requests, Executing

LEMMA WrittenFirstInit == ASSUME Init PROVE WrittenFirst
<1>1. InLedger = {}
  BY DEF Init, InLedger
<1>2. Written
  BY EmptySeq DEF Init, Written
<1>3. Requests
  BY <1>1 DEF Init, Requests, Cmds
<1>4. Executing
  BY DEF Init, Executing
<1> QED BY <1>2, <1>3, <1>4 DEF WrittenFirst, Written, Requests, Executing

-----------------------------------------------------------------------------
(* Nothing is known, answered or final before it is acknowledged or        *)
(* resolved; and a final status is left by the place request alone.        *)

IInv == TypeOK /\ WrittenFirst /\ AckedFirst

(* What an order's status may become in a step.                            *)
GoodStatus(o) ==
  /\ status'[o] # status[o] => pc'[o] # "idle"
  /\ status'[o] # status[o] /\ status'[o] \in FinalStatuses => o \in acked' \/ via'[o] # "none"
  /\ status'[o] # status[o] /\ status[o] \in FinalStatuses => pc[o] = "sent" /\ pc'[o] = "done"

(* The order of a cancel or an update in the ledger has been acknowledged. *)
LEMMA KnownOrder ==
  ASSUME IInv, NEW o \in Places, known[o]
  PROVE  o \in acked /\ pc[o] # "idle" /\ o \in Cmds
BY DEF IInv, AckedFirst, WrittenFirst, Cmds

LEMMA LedgerOrder ==
  ASSUME IInv, NEW c \in (Cancels \cup Updates) \cap InLedger
  PROVE  OrderOf[c] \in Places /\ known[OrderOf[c]]
BY DataAssumption DEF IInv, WrittenFirst, Cmds

LEMMA MarkGood ==
  ASSUME IInv, NEW o \in Places, NEW s \in Statuses, MarkOrder(o, s), NEW p \in Places
  PROVE  /\ status'[p] # status[p] => p = o /\ status'[p] = s /\ status[p] \notin FinalStatuses
BY MarkEither, MarkKeepsFinal DEF MarkOrder, IInv, TypeOK, DbTypeOK

LEMMA StatusStep ==
  ASSUME IInv, [Next]_vars, NEW p \in Places
  PROVE  GoodStatus(p)
<1> USE DEF IInv, TypeOK
<1>a. \A o \in Places : o \in Cmds
  BY DEF Cmds
<1>b. {"submitted", "unknown", "cancelled", "failed", "filled", "partfilled"} \subseteq Statuses
  BY DEF Statuses, Ranked, TerminalStatuses
<1>c. \A o \in Places : acked \subseteq acked' /\ known[o] /\ pc' = pc => o \in acked' /\ pc'[o] # "idle"
  BY KnownOrder
<1>1. ASSUME UNCHANGED status PROVE GoodStatus(p)
  BY <1>1 DEF GoodStatus
<1>2. ASSUME NEW o \in Places, CheckPlace(o) PROVE GoodStatus(p)
  <2>1. status[o] = "absent" /\ status'[o] = "pending" /\ pc'[o] = "checked"
    BY <1>a, <1>2 DEF CheckPlace, AckedFirst, DbTypeOK, RequestTypeOK
  <2>2. p # o => status'[p] = status[p]
    BY <1>2 DEF CheckPlace, DbTypeOK
  <2> QED BY <2>1, <2>2 DEF GoodStatus, FinalStatuses
<1>3. ASSUME NEW c \in Cmds, GateRefuses(c) PROVE GoodStatus(p)
  <2>1. CASE c \in Places
    <3>1. MarkOrder(c, "failed")
      BY <1>3, <2>1, IdsAssumption DEF GateRefuses, ApplyRefusal
    <3>2. pc'[c] = "done" /\ via'[c] # "none"
      BY <1>3 DEF GateRefuses, CloseLocally, Resolve, Resolved, DbTypeOK, RequestTypeOK
    <3> QED BY <1>b, <2>1, <3>1, <3>2, MarkGood DEF GoodStatus
  <2>2. CASE c \notin Places
    BY <1>1, <1>3, <2>2 DEF GateRefuses, ApplyRefusal
  <2> QED BY <2>1, <2>2
<1>4. ASSUME NEW o \in Places, NEW s \in Statuses, known[o], MarkOrder(o, s),
             acked \subseteq acked', \A q \in Places : pc[q] # "idle" => pc'[q] # "idle"
      PROVE  GoodStatus(p)
  BY <1>4, KnownOrder, MarkGood DEF GoodStatus
<1>5. ASSUME NEW c \in (Cancels \cup Updates) \cap InLedger, ApplyOkEffect(c),
             acked \subseteq acked', \A q \in Places : pc[q] # "idle" => pc'[q] # "idle"
      PROVE  GoodStatus(p)
  <2>1. \E s \in {"submitted", "cancelled"} : MarkOrder(OrderOf[c], s)
    BY <1>5, IdsAssumption DEF ApplyOkEffect, ApplyUpdateAck, ApplyCancelAck
  <2> QED BY <1>4, <1>5, <1>b, <2>1, LedgerOrder
<1>6. ASSUME NEW c \in Cmds, RequestReturns(c) PROVE GoodStatus(p)
  <2>1. /\ c \in InLedger /\ pc[c] = "sent" /\ pc'[c] = "done" /\ acked' = acked
        /\ \A q \in Places : pc[q] # "idle" => pc'[q] # "idle"
    BY <1>a, <1>6 DEF RequestReturns, WrittenFirst, RequestTypeOK
  <2>2. CASE c \in Places /\ ApplyPlaceAck(c) /\ fut[c] = "ok"
    <3>1. c \in acked
      BY <2>2 DEF AckedFirst
    <3>2. p # c => status'[p] = status[p]
      BY <2>2 DEF ApplyPlaceAck, DbTypeOK
    <3> QED BY <2>1, <3>1, <3>2 DEF GoodStatus
  <2>3. CASE c \notin Places /\ ApplyOkEffect(c)
    BY <1>5, <2>1, <2>3 DEF Cmds
  <2>4. CASE ApplyTimeout(c)
    <3>1. CASE c \in Places /\ MarkOrder(c, "unknown")
      BY <1>b, <2>1, <3>1, MarkGood DEF GoodStatus, FinalStatuses
    <3> QED BY <1>1, <2>4, <3>1 DEF ApplyTimeout
  <2>5. CASE UNCHANGED status
    BY <1>1, <2>5
  <2> QED BY <1>6, <2>2, <2>3, <2>4, <2>5, IdsAssumption
      DEF RequestReturns, ApplyOkEffect
<1>7. CASE ApplyAck
  <2> DEFINE c == Head(up).cmd
  <2>1. c \in InLedger /\ c \in Cmds
    <3>1. up # <<>>
      BY <1>7 DEF ApplyAck
    <3>2. Head(up) \in UpOf(InLedger)
      BY <3>1, HeadUp
    <3> QED BY <3>2, LedgerType DEF UpOf
  <2>2. c \in acked' /\ acked \subseteq acked' /\ pc' = pc /\ pc[c] # "idle"
    BY <1>7, <2>1 DEF ApplyAck, reqVars, WrittenFirst
  <2>3. CASE UNCHANGED status
    BY <1>1, <2>3
  <2>4. CASE ~AnsweredBefore(c) /\ c \in Places /\ ApplyPlaceAck(c)
    <3>1. status[c] \notin FinalStatuses
      BY <2>4 DEF AnsweredBefore, AckedFirst
    <3>2. p # c => status'[p] = status[p]
      BY <2>4 DEF ApplyPlaceAck, DbTypeOK
    <3> QED BY <2>2, <3>1, <3>2 DEF GoodStatus
  <2>5. CASE c \notin Places /\ ApplyOkEffect(c)
    BY <1>5, <2>1, <2>2, <2>5 DEF Cmds
  <2>6. CASE c \in Places /\ \E s \in {"failed", "unknown"} : MarkOrder(c, s)
    BY <1>b, <2>2, <2>6, MarkGood DEF GoodStatus
  <2> QED BY <1>7, <2>3, <2>4, <2>5, <2>6, IdsAssumption
      DEF ApplyAck, ApplyOkEffect, ApplyRefusal
<1>8. ASSUME NEW o \in Places, ApplyDeal(o) PROVE GoodStatus(p)
  <2>1. PICK s \in {"filled", "partfilled"} :
          FillStatus(status[o], filled[o] + 1, qty[o]) = Mark(status[o], s)
    BY DEF FillStatus
  <2>2. MarkOrder(o, s)
    BY <1>8, <2>1 DEF ApplyDeal, MarkOrder
  <2> QED BY <1>4, <1>8, <1>b, <2>1, <2>2 DEF ApplyDeal, reqVars
<1>9. ASSUME NEW o \in Places, ApplyReport(o) PROVE GoodStatus(p)
  <2>1. PICK s \in Reported(o) : MarkOrder(o, s)
    BY <1>9 DEF ApplyReport
  <2>2. s \in Statuses
    BY DEF Reported, WorldTypeOK, Statuses, Ranked, TerminalStatuses
  <2> QED BY <1>4, <1>9, <2>1, <2>2 DEF ApplyReport, reqVars
<1>10. CASE QueryResolves
  <2>1. query.cmd \in (Cancels \cup Updates) \cap InLedger
    BY <1>10 DEF QueryResolves, WrittenFirst, LinkTypeOK
  <2>2. CASE ApplyUpdateAck(query.cmd)
    <3>1. MarkOrder(OrderOf[query.cmd], "submitted")
      BY <2>2 DEF ApplyUpdateAck
    <3> QED BY <1>4, <1>10, <1>b, <2>1, <3>1, LedgerOrder DEF QueryResolves, reqVars
  <2> QED BY <1>1, <1>10, <2>2 DEF QueryResolves
<1> QED
  BY <1>1, <1>2, <1>3, <1>6, <1>7, <1>8, <1>9, <1>10
  DEF Next, RequestNext, ChannelNext, AgentNext, LockNext, EnvNext, vars, dbVars,
      CheckUpdate, InsertPlace, InsertUpdate, SubmitCancel, Dispatch, CancelRefused,
      RequestTimeout, Login, HealthChanges, Detach, AckHandled, Connect, SessionEnds,
      AgentRestarts, Latch, RowAcked, AlreadyExecuted, RejectUnexecuted, Execute, Record,
      Pump, TakeLock, ReleaseLock, WatchdogCloses, QueryAnswered, BrokerFills, BrokerEnds,
      Expire, ServerCrashes

LEMMA AckedGrows == ASSUME IInv, [Next]_vars PROVE acked \subseteq acked' /\ acked' \subseteq InLedger'
<1>a. InLedger \subseteq InLedger' /\ acked \subseteq InLedger
  BY LedgerGrows DEF IInv, AckedFirst
<1>1. CASE ApplyAck
  <2>1. up # <<>>
    BY <1>1 DEF ApplyAck
  <2>2. Head(up).cmd \in InLedger
    BY <2>1, HeadUp DEF IInv, UpOf
  <2> QED BY <1>a, <1>1, <2>2 DEF ApplyAck
<1>2. CASE UNCHANGED acked
  BY <1>a, <1>2
<1> QED
  BY <1>1, <1>2
  DEF Next, RequestNext, ChannelNext, AgentNext, LockNext, EnvNext, vars, dbVars,
      CheckPlace, CheckUpdate, InsertPlace, InsertUpdate, SubmitCancel, Dispatch,
      GateRefuses, CancelRefused, RequestTimeout, RequestReturns, Login, HealthChanges,
      Detach, AckHandled, Connect, SessionEnds, AgentRestarts, Latch, RowAcked,
      AlreadyExecuted, RejectUnexecuted, Execute, Record, Pump, TakeLock, ReleaseLock,
      ApplyDeal, ApplyReport, WatchdogCloses, QueryAnswered, QueryResolves, BrokerFills,
      BrokerEnds, Expire, ServerCrashes

(* The acknowledgement being handled stays at the head of the uplink.      *)
LEMMA HandledStep ==
  ASSUME IInv, [Next]_vars
  PROVE  applied' => Head(up').cmd \in acked'
<1>a. acked \subseteq acked' /\ (applied => up # <<>> /\ Head(up).cmd \in acked)
  BY AckedGrows DEF IInv, TypeOK, LinkTypeOK, AckedFirst
<1>1. CASE applied' = FALSE
  BY <1>1
<1>2. CASE UNCHANGED <<applied, up>>
  BY <1>a, <1>2
<1>3. CASE ApplyAck
  BY <1>3 DEF ApplyAck, wireVars
<1>4. ASSUME NEW t \in {"row", "direct"}, NEW c \in Cmds, NEW a \in Answers,
             Uplink(t, c, a), UNCHANGED applied
      PROVE  applied' => Head(up').cmd \in acked'
  <2>1. up \in Seq(UpOf(Cmds))
    BY DEF IInv, TypeOK, LinkTypeOK
  <2>2. [type |-> t, cmd |-> c, answer |-> a] \in UpOf(Cmds)
    BY DEF UpOf
  <2>3. up # <<>> => Head(Append(up, [type |-> t, cmd |-> c, answer |-> a])) = Head(up)
    BY <2>1, <2>2
  <2>4. up # <<>> => Head(up') = Head(up)
    BY <1>4, <2>3 DEF Uplink
  <2> QED BY <1>a, <1>4, <2>4
<1>5. CASE RejectUnexecuted
  <2>1. down # <<>>
    BY <1>5 DEF RejectUnexecuted, Receiving
  <2>2. Head(down).cmd \in Cmds
    BY <2>1, HeadDown, LedgerType DEF IInv, TypeOK, DownOf
  <2>3. {"failstop", "expired"} \subseteq Answers
    BY DEF Answers, ExplicitReject
  <2> QED BY <1>4, <1>5, <2>2, <2>3 DEF RejectUnexecuted, chanVars
<1>6. ASSUME NEW c \in Cmds, Pump(c) PROVE applied' => Head(up').cmd \in acked'
  <2>1. agentLedger[c] \in Answers
    BY <1>6 DEF Pump, IInv, TypeOK, AgentTypeOK
  <2> QED BY <1>4, <1>6, <2>1 DEF Pump, chanVars
<1> QED
  BY <1>1, <1>2, <1>3, <1>5, <1>6
  DEF Next, RequestNext, ChannelNext, AgentNext, LockNext, EnvNext, vars, chanVars, wireVars,
      CheckPlace, CheckUpdate, InsertPlace, InsertUpdate, SubmitCancel, Dispatch,
      GateRefuses, CancelRefused, RequestTimeout, RequestReturns, Login, HealthChanges,
      Detach, AckHandled, Connect, SessionEnds, EndSession, AgentRestarts, Latch, RowAcked,
      AlreadyExecuted, Execute, Record, TakeLock, ReleaseLock, ApplyDeal, ApplyReport,
      WatchdogCloses, QueryAnswered, QueryResolves, BrokerFills, BrokerEnds, Expire,
      ServerCrashes

(* A request is answered with what has been committed.                     *)
LEMMA AnswersStep ==
  ASSUME IInv, [Next]_vars, NEW c \in Cmds, fut'[c] \in {"ok"} \cup ExplicitReject
  PROVE  c \in acked'
<1> DEFINE Given == {"ok"} \cup ExplicitReject
<1>a. acked \subseteq acked' /\ (fut[c] \in Given => c \in acked)
  BY AckedGrows DEF IInv, AckedFirst
<1>b. {"none", "pending", "timeout"} \cap Given = {}
  BY DEF ExplicitReject
<1>1. CASE fut'[c] \in {fut[c], "none", "pending", "timeout"}
  BY <1>a, <1>b, <1>1
<1>2. CASE AckHandled
  <2>1. c # Head(up).cmd => fut'[c] = fut[c]
    BY <1>2 DEF AckHandled, IInv, TypeOK, RequestTypeOK
  <2>2. Head(up).cmd \in acked
    BY <1>2 DEF AckHandled, IInv, AckedFirst
  <2> QED BY <1>a, <2>1, <2>2
<1>3. CASE fut' = PendingTimedOut
  BY <1>1, <1>3 DEF PendingTimedOut
<1>4. ASSUME NEW d \in Cmds, Send(d) PROVE fut'[c] \in {fut[c], "pending"}
  BY <1>4 DEF Send, IInv, TypeOK, RequestTypeOK
<1>5. ASSUME NEW d \in Cmds, SendOrWait(d) PROVE fut'[c] \in {fut[c], "pending"}
  BY <1>4, <1>5 DEF SendOrWait
<1>6. ASSUME NEW u \in Updates, InsertUpdate(u) PROVE fut'[c] \in {fut[c], "pending"}
  BY <1>5, <1>6 DEF InsertUpdate, Cmds
<1>7. ASSUME NEW d \in Cmds, RequestTimeout(d) \/ RequestReturns(d)
      PROVE  fut'[c] \in {fut[c], "none", "timeout"}
  BY <1>7 DEF RequestTimeout, RequestReturns, IInv, TypeOK, RequestTypeOK
<1>8. CASE ServerCrashes
  BY <1>1, <1>8 DEF ServerCrashes
<1> QED
  BY <1>1, <1>2, <1>3, <1>4, <1>5, <1>6, <1>7, <1>8
  DEF Next, RequestNext, ChannelNext, AgentNext, LockNext, EnvNext, vars, reqVars, Cmds,
      CheckPlace, CheckUpdate, InsertPlace, SubmitCancel, Dispatch, GateRefuses,
      CancelRefused, Login, HealthChanges, Detach, ApplyAck, Connect, SessionEnds,
      AgentRestarts, Latch, RowAcked, AlreadyExecuted, RejectUnexecuted, Execute, Record,
      Pump, TakeLock, ReleaseLock, ApplyDeal, ApplyReport, WatchdogCloses, QueryAnswered,
      QueryResolves, BrokerFills, BrokerEnds, Expire

(* Nothing goes back to idle.                                              *)
LEMMA NotIdleAgain ==
  ASSUME IInv, [Next]_vars, NEW c \in Cmds, pc'[c] = "idle"
  PROVE  pc[c] = "idle"
<1> USE DEF IInv, TypeOK, RequestTypeOK
<1>1. CASE pc'[c] = pc[c]
  BY <1>1
<1>2. ASSUME NEW d \in Cmds, NEW s \in {"checked", "waiting", "sent", "done"},
             pc' = [pc EXCEPT ![d] = s]
      PROVE  pc[c] = "idle"
  BY <1>2
<1>3. ASSUME NEW d \in Cmds, SendOrWait(d) PROVE pc[c] = "idle"
  BY <1>2, <1>3 DEF SendOrWait, Send
<1>4. ASSUME NEW u \in Updates, InsertUpdate(u) PROVE pc[c] = "idle"
  BY <1>2, <1>3, <1>4 DEF InsertUpdate, Cmds
<1>5. CASE ServerCrashes
  BY <1>5 DEF ServerCrashes
<1> QED
  BY <1>1, <1>2, <1>3, <1>4, <1>5
  DEF Next, RequestNext, ChannelNext, AgentNext, LockNext, EnvNext, vars, reqVars, Cmds, Send,
      CheckPlace, CheckUpdate, InsertPlace, SubmitCancel, Dispatch, GateRefuses,
      CancelRefused, RequestTimeout, RequestReturns, Login, HealthChanges, Detach, ApplyAck,
      AckHandled, Connect, SessionEnds, AgentRestarts, Latch, RowAcked, AlreadyExecuted,
      RejectUnexecuted, Execute, Record, Pump, TakeLock, ReleaseLock, ApplyDeal,
      ApplyReport, WatchdogCloses, QueryAnswered, QueryResolves, BrokerFills, BrokerEnds,
      Expire

(* The broker's ids come with the acknowledgement of the place.            *)
LEMMA KnownAcked ==
  ASSUME IInv, [Next]_vars, NEW o \in Places, known'[o]
  PROVE  o \in acked'
<1> USE DEF IInv, TypeOK, DbTypeOK
<1>a. acked \subseteq acked' /\ (known[o] => o \in acked)
  BY AckedGrows DEF AckedFirst
<1>1. CASE known'[o] = known[o]
  BY <1>a, <1>1
<1>2. ASSUME NEW c \in Cmds, ApplyOkEffect(c), c \in acked' PROVE o \in acked'
  BY <1>1, <1>2 DEF ApplyOkEffect, ApplyPlaceAck, ApplyUpdateAck, ApplyCancelAck
<1>3. ASSUME NEW c \in Cmds, RequestReturns(c) PROVE o \in acked'
  <2>1. CASE fut[c] = "ok" /\ ApplyOkEffect(c)
    BY <1>2, <1>a, <2>1 DEF AckedFirst
  <2> QED BY <1>1, <1>3, <2>1 DEF RequestReturns, ApplyTimeout
<1>4. CASE ApplyAck
  <2>1. Head(up).cmd \in Cmds
    BY <1>4, HeadUp, LedgerType DEF ApplyAck, UpOf
  <2> QED BY <1>1, <1>2, <1>4, <2>1 DEF ApplyAck, ApplyRefusal
<1>5. ASSUME NEW c \in Cmds, GateRefuses(c) PROVE o \in acked'
  BY <1>1, <1>5 DEF GateRefuses, ApplyRefusal
<1> QED
  BY <1>1, <1>3, <1>4, <1>5
  DEF Next, RequestNext, ChannelNext, AgentNext, LockNext, EnvNext, vars, dbVars,
      CheckPlace, CheckUpdate, InsertPlace, InsertUpdate, SubmitCancel, Dispatch,
      CancelRefused, RequestTimeout, Login, HealthChanges, Detach, AckHandled, Connect,
      SessionEnds, AgentRestarts, Latch, RowAcked, AlreadyExecuted, RejectUnexecuted,
      Execute, Record, Pump, TakeLock, ReleaseLock, ApplyDeal, ApplyReport,
      WatchdogCloses, QueryAnswered, QueryResolves, ApplyUpdateAck, BrokerFills,
      BrokerEnds, Expire, ServerCrashes

LEMMA AckedFirstStep == ASSUME IInv, [Next]_vars PROVE AckedFirst'
<1>1. \A o \in Places : pc'[o] = "idle" => status'[o] = "absent"
  BY StatusStep, NotIdleAgain DEF GoodStatus, IInv, AckedFirst, Cmds
<1>2. ASSUME NEW o \in Places, status'[o] \in FinalStatuses
      PROVE  o \in acked' \/ via'[o] # "none"
  <2>1. CASE status'[o] # status[o]
    BY <1>2, <2>1, StatusStep DEF GoodStatus
  <2>2. CASE status'[o] = status[o] /\ o \in acked
    BY <2>2, AckedGrows
  <2>3. CASE Resolved(o)
    BY <2>3, ResolvedStep DEF IInv, Resolved, Cmds, StandsStill
  <2> QED BY <1>2, <2>1, <2>2, <2>3 DEF IInv, AckedFirst
<1> QED
  BY <1>1, <1>2, HandledStep, AnswersStep, KnownAcked, AckedGrows DEF AckedFirst, Resolved

LEMMA AckedFirstInit == ASSUME Init PROVE AckedFirst
BY DEF Init, AckedFirst, ExplicitReject, FinalStatuses, Cmds

-----------------------------------------------------------------------------
(* A native call leaves a trace, and what the broker has taken is answered *)
(* in a way that admits it.                                                *)

TakenAnswered ==
  \A c \in taken : \/ c \in lost
                   \/ agentLedger[c] \in MayBeTaken
                   \/ exec.cmd = c /\ exec.answer \in MayBeTaken

Traced == CallsTraced /\ ReExecutedOnlyIfLost /\ TakenAnswered

LEMMA TracedInit == ASSUME Init PROVE Traced
BY DEF Init, Traced, CallsTraced, ReExecutedOnlyIfLost, TakenAnswered, NoCall

LEMMA TracedStep == ASSUME TypeOK, WrittenFirst, Traced, [Next]_vars PROVE Traced'
<1> USE DEF TypeOK
<1>1. CASE Execute
  <2> DEFINE c == Head(down).cmd
  <2>1. c \in Cmds
    BY <1>1, HeadDown, LedgerType DEF Execute, Receiving, DownOf
  <2>2. exec.cmd = "none" /\ agentLedger[c] = "none" /\ agentLedger' = agentLedger
        /\ lost' = lost /\ exec'.cmd = c
        /\ attempts' = [attempts EXCEPT ![c] = @ + 1]
    BY <1>1 DEF Execute, Receiving, Recorded, NoCall, envVars
  <2>3. \A d \in Cmds : d # c => attempts'[d] = attempts[d]
    BY <2>2 DEF WorldTypeOK
  <2>4. attempts[c] \in Nat /\ attempts'[c] = attempts[c] + 1
    BY <2>1, <2>2 DEF WorldTypeOK
  <2>5. attempts[c] > 0 => c \in lost
    BY <2>1, <2>2, IdsAssumption DEF Traced, CallsTraced
  <2>6. CallsTraced'
    BY <2>1, <2>2, <2>3, IdsAssumption DEF Traced, CallsTraced
  <2>7. ReExecutedOnlyIfLost'
    BY <2>1, <2>2, <2>3, <2>4, <2>5 DEF Traced, ReExecutedOnlyIfLost
  <2>8. TakenAnswered'
    <3>1. taken' \in {taken, taken \cup {c}} /\ (taken' # taken => exec'.answer \in MayBeTaken)
      BY <1>1 DEF Execute
    <3>2. \A d \in taken : d \in Cmds /\ (d \in lost \/ agentLedger[d] \in MayBeTaken)
      BY <2>2, IdsAssumption DEF Traced, TakenAnswered, WorldTypeOK
    <3>3. c \in taken => c \in lost
      BY <2>2, <3>2 DEF MayBeTaken
    <3> QED BY <2>2, <3>1, <3>2, <3>3 DEF TakenAnswered
  <2> QED BY <2>6, <2>7, <2>8 DEF Traced
<1>2. CASE Record
  <2>1. exec.cmd \in Cmds /\ exec.answer \in Answers /\ "none" \notin Answers
    BY <1>2 DEF Record, AgentTypeOK, Answers, ExplicitReject
  <2>2. agentLedger'[exec.cmd] = exec.answer
        /\ \A c \in Cmds : c # exec.cmd => agentLedger'[c] = agentLedger[c]
    BY <1>2, <2>1 DEF Record, AgentTypeOK
  <2>3. exec' = NoCall /\ exec # NoCall /\ UNCHANGED <<attempts, taken, lost>>
    BY <1>2 DEF Record, brokerVars, envVars
  <2>4. TakenAnswered'
    <3>1. \A c \in taken : c \in Cmds /\ (c = exec.cmd => c \in lost \/ exec.answer \in MayBeTaken)
      BY <2>3 DEF Traced, TakenAnswered, CallsTraced, MayBeTaken, TypeOK, WorldTypeOK
    <3> QED BY <2>2, <2>3, <3>1 DEF Traced, TakenAnswered
  <2> QED BY <2>1, <2>2, <2>3, <2>4, IdsAssumption
          DEF Traced, CallsTraced, ReExecutedOnlyIfLost, NoCall
<1>3. ASSUME EndSession, UNCHANGED <<attempts, taken, agentLedger>> PROVE Traced'
  <2>1. exec' = NoCall /\ lost \subseteq lost' /\ (exec.cmd = "none" \/ exec.cmd \in lost')
    BY <1>3 DEF EndSession
  <2>2. TakenAnswered'
    BY <1>3, <2>1, IdsAssumption DEF Traced, TakenAnswered, WorldTypeOK
  <2> QED BY <1>3, <2>1, <2>2, IdsAssumption
          DEF Traced, CallsTraced, ReExecutedOnlyIfLost, NoCall
<1>4. CASE UNCHANGED <<attempts, taken, agentLedger, exec, lost>>
  BY <1>4 DEF Traced, CallsTraced, ReExecutedOnlyIfLost, TakenAnswered
<1> QED
  BY <1>1, <1>2, <1>3, <1>4
  DEF Next, RequestNext, ChannelNext, AgentNext, LockNext, EnvNext, vars, agentVars,
      brokerVars, envVars,
      CheckPlace, CheckUpdate, InsertPlace, InsertUpdate, SubmitCancel, Dispatch,
      GateRefuses, CancelRefused, RequestTimeout, RequestReturns, Login, HealthChanges,
      Detach, ApplyAck, AckHandled, Connect, SessionEnds, AgentRestarts, Latch, RowAcked,
      AlreadyExecuted, RejectUnexecuted, Pump, TakeLock, ReleaseLock, ApplyDeal,
      ApplyReport, WatchdogCloses, QueryAnswered, QueryResolves, BrokerFills, BrokerEnds,
      Expire, ServerCrashes

-----------------------------------------------------------------------------
(* Answers on the wire are the agent's, and a recorded answer stays.       *)

Genuine(m) ==
  /\ m.type = "row" => agentLedger[m.cmd] = m.answer
  /\ m.type = "direct" => m.answer \in {"failstop", "expired"}

GenuineUp == {m \in UpOf(Cmds) : Genuine(m)}

Believed == up \in Seq(GenuineUp) /\ OkIsRecorded

LEMMA BelievedInit == ASSUME Init PROVE Believed
BY EmptySeq DEF Init, Believed, OkIsRecorded

LEMMA RecordKept ==
  ASSUME TypeOK, Traced, [Next]_vars, NEW c \in Cmds, agentLedger[c] # "none"
  PROVE  agentLedger'[c] = agentLedger[c]
<1>1. CASE Record
  BY <1>1 DEF Record, TypeOK, AgentTypeOK, Traced, CallsTraced
<1>2. CASE UNCHANGED agentLedger
  BY <1>2
<1> QED
  BY <1>1, <1>2
  DEF Next, RequestNext, ChannelNext, AgentNext, LockNext, EnvNext, vars, agentVars, EndSession,
      CheckPlace, CheckUpdate, InsertPlace, InsertUpdate, SubmitCancel, Dispatch,
      GateRefuses, CancelRefused, RequestTimeout, RequestReturns, Login, HealthChanges,
      Detach, ApplyAck, AckHandled, Connect, SessionEnds, AgentRestarts, Latch, RowAcked,
      AlreadyExecuted, RejectUnexecuted, Execute, Pump, TakeLock, ReleaseLock, ApplyDeal,
      ApplyReport, WatchdogCloses, QueryAnswered, QueryResolves, BrokerFills, BrokerEnds,
      Expire, ServerCrashes

LEMMA GenuineKept ==
  ASSUME TypeOK, Traced, [Next]_vars PROVE GenuineUp \subseteq GenuineUp'
<1> SUFFICES ASSUME NEW m \in GenuineUp PROVE Genuine(m)'
  BY DEF GenuineUp, UpOf
<1>1. m.cmd \in Cmds /\ m.answer \in Answers /\ "none" \notin Answers
  BY DEF GenuineUp, UpOf, Answers, ExplicitReject
<1> QED BY <1>1, RecordKept DEF GenuineUp, Genuine

LEMMA GenuineStep ==
  ASSUME TypeOK, WrittenFirst, Traced, Believed, [Next]_vars
  PROVE  up' \in Seq(GenuineUp')
<1>a. up \in Seq(GenuineUp) /\ \A s \in Seq(GenuineUp) : s \in Seq(GenuineUp')
  BY GenuineKept, SeqMonotonic DEF Believed
<1>1. CASE up' \in {up, <<>>}
  BY <1>a, <1>1, EmptySeq
<1>2. CASE AckHandled
  <2>1. up # <<>> /\ up' = Tail(up)
    BY <1>2 DEF AckHandled, TypeOK, LinkTypeOK
  <2>2. Tail(up) \in Seq(GenuineUp)
    BY <1>a, <2>1, HeadAndTail
  <2> QED BY <1>a, <2>1, <2>2
<1>3. ASSUME NEW m \in GenuineUp, up' \in {up, Append(up, m)} PROVE up' \in Seq(GenuineUp')
  BY <1>a, <1>3
<1>4. CASE RejectUnexecuted
  <2>1. Head(down).cmd \in Cmds
    BY <1>4, HeadDown, LedgerType DEF RejectUnexecuted, Receiving, TypeOK, DownOf
  <2>2. \A a \in {"failstop", "expired"} :
          [type |-> "direct", cmd |-> Head(down).cmd, answer |-> a] \in GenuineUp
    BY <2>1 DEF GenuineUp, Genuine, UpOf, Answers, ExplicitReject
  <2> QED BY <1>3, <1>4, <2>2 DEF RejectUnexecuted, Uplink
<1>5. ASSUME NEW c \in Cmds, Pump(c) PROVE up' \in Seq(GenuineUp')
  <2>1. agentLedger[c] \in Answers
    BY <1>5 DEF Pump, TypeOK, AgentTypeOK
  <2>2. [type |-> "row", cmd |-> c, answer |-> agentLedger[c]] \in GenuineUp
    BY <2>1 DEF GenuineUp, Genuine, UpOf
  <2> QED BY <1>3, <1>5, <2>2 DEF Pump, Uplink
<1> QED
  BY <1>1, <1>2, <1>4, <1>5
  DEF Next, RequestNext, ChannelNext, AgentNext, LockNext, EnvNext, vars, wireVars,
      CheckPlace, CheckUpdate, InsertPlace, InsertUpdate, SubmitCancel, Dispatch,
      GateRefuses, CancelRefused, RequestTimeout, RequestReturns, Login, HealthChanges,
      Detach, ApplyAck, Connect, SessionEnds, AgentRestarts, Latch, RowAcked,
      AlreadyExecuted, Execute, Record, TakeLock, ReleaseLock, ApplyDeal, ApplyReport,
      WatchdogCloses, QueryAnswered, QueryResolves, BrokerFills, BrokerEnds, Expire,
      ServerCrashes

(* Only an acknowledgement makes a verdict "ok" by acknowledgement.        *)
LEMMA VerdictStep ==
  ASSUME TypeOK, Believed, [Next]_vars,
         NEW c \in Cmds, ~Resolved(c), via'[c] = "ack", outcome'[c] = "ok"
  PROVE  agentLedger[c] = "ok"
<1> USE DEF TypeOK, DbTypeOK
<1>1. CASE ApplyAck
  <2>1. up # <<>> /\ up \in Seq(GenuineUp)
    BY <1>1 DEF ApplyAck, Believed
  <2>2. Head(up) \in GenuineUp
    BY <2>1, HeadAndTail
  <2>3. c = Head(up).cmd /\ Head(up).answer = "ok"
    BY <1>1 DEF ApplyAck, Resolve, Resolved, Succeeded
  <2> QED BY <2>2, <2>3 DEF GenuineUp, Genuine, UpOf
<1>2. CASE via'[c] \in {via[c], "local", "report", "query_qty"}
  BY <1>2 DEF Resolved
<1>3. ASSUME NEW C \in SUBSET Cmds, CloseAll(C) PROVE via'[c] \in {via[c], "report"}
  BY <1>3 DEF CloseAll
<1>4. ASSUME NEW d \in Cmds, GateRefuses(d) PROVE via'[c] \in {via[c], "local"}
  BY <1>4 DEF GateRefuses, CloseLocally, Resolve
<1>5. CASE QueryResolves
  <2>1. query.cmd \in Cmds
    BY <1>5 DEF QueryResolves, LinkTypeOK, Cmds
  <2> QED BY <1>2, <1>3, <1>5, <2>1 DEF QueryResolves, Resolve
<1>6. ASSUME NEW o \in Places, ApplyReport(o) PROVE via'[c] \in {via[c], "report"}
  BY <1>3, <1>6 DEF ApplyReport, ClosedBy, Cmds
<1>7. ASSUME NEW d \in Cancels \cup Updates, WatchdogCloses(d) PROVE via'[c] \in {via[c], "report"}
  BY <1>3, <1>7 DEF WatchdogCloses, Cmds
<1> QED
  BY <1>1, <1>2, <1>4, <1>5, <1>6, <1>7
  DEF Next, RequestNext, ChannelNext, AgentNext, LockNext, EnvNext, vars, dbVars,
      CheckPlace, CheckUpdate, InsertPlace, InsertUpdate, SubmitCancel, Dispatch,
      CancelRefused, RequestTimeout, RequestReturns, Login, HealthChanges, Detach,
      AckHandled, Connect, SessionEnds, AgentRestarts, Latch, RowAcked, AlreadyExecuted,
      RejectUnexecuted, Execute, Record, Pump, TakeLock, ReleaseLock, ApplyDeal,
      QueryAnswered, BrokerFills, BrokerEnds, Expire, ServerCrashes

LEMMA BelievedStep ==
  ASSUME TypeOK, WrittenFirst, Traced, Believed, [Next]_vars
  PROVE  Believed'
<1>1. ASSUME NEW c \in Cmds, via'[c] = "ack", outcome'[c] = "ok" PROVE agentLedger'[c] = "ok"
  <2>1. CASE Resolved(c)
    BY <1>1, <2>1, ResolvedStep, RecordKept DEF StandsStill, Believed, OkIsRecorded
  <2>2. CASE ~Resolved(c)
    BY <1>1, <2>2, VerdictStep, RecordKept
  <2> QED BY <2>1, <2>2
<1> QED BY <1>1, GenuineStep DEF Believed, OkIsRecorded

-----------------------------------------------------------------------------
(* Reservations are given back by commands that are settled.               *)

(* The request between two transactions has no row yet.                    *)
LoopHasNoRow == loop # "none" => pc[loop] = "checked" /\ loop \notin InLedger

Freed ==
  \A r \in Reservations : quota[r].state = "released" =>
    \E d \in Places \cup Updates : ResOf(d) = r /\ Settled(d)

LEMMA LoopStep == ASSUME IInv, LoopHasNoRow, [Next]_vars PROVE LoopHasNoRow'
<1> USE DEF IInv, TypeOK, RequestTypeOK, LoopHasNoRow
<1>1. CASE UNCHANGED <<pc, loop, ledger>>
  BY <1>1, LedgerSame
<1>2. CASE loop' = "none"
  BY <1>2
<1>3. ASSUME NEW c \in Cmds, pc[c] = "idle", loop' = c, pc' = [pc EXCEPT ![c] = "checked"],
             UNCHANGED ledger
      PROVE  LoopHasNoRow'
  BY <1>3, LedgerSame DEF WrittenFirst
<1> QED
  BY <1>1, <1>2, <1>3
  DEF Next, RequestNext, ChannelNext, AgentNext, LockNext, EnvNext, vars, dbVars, reqVars, Cmds,
      LoopFree, CheckPlace, CheckUpdate, InsertPlace, InsertUpdate, SubmitCancel, Dispatch,
      GateRefuses, CancelRefused, RequestTimeout, RequestReturns, Login, HealthChanges, Detach,
      ApplyAck, AckHandled, Connect, SessionEnds, AgentRestarts, Latch, RowAcked,
      AlreadyExecuted, RejectUnexecuted, Execute, Record, Pump, TakeLock, ReleaseLock,
      ApplyDeal, ApplyReport, WatchdogCloses, QueryAnswered, QueryResolves, BrokerFills,
      BrokerEnds, Expire, ServerCrashes

(* What is settled stays settled.                                          *)
LEMMA SettledStays ==
  ASSUME IInv, LoopHasNoRow, [Next]_vars, NEW c \in Cmds, Settled(c)
  PROVE  Settled(c)'
<1> USE DEF IInv, TypeOK, RequestTypeOK
<1>1. CASE Resolved(c)
  BY <1>1, ResolvedStep DEF StandsStill, Resolved, Settled
<1>2. CASE pc[c] = "done" /\ c \notin InLedger
  <2>1. CASE UNCHANGED <<pc, ledger>>
    BY <1>2, <2>1, LedgerSame DEF Settled
  <2>2. ASSUME NEW d \in Cmds, pc[d] # "done", NEW s, pc' = [pc EXCEPT ![d] = s], UNCHANGED ledger
        PROVE  Settled(c)'
    BY <1>2, <2>2, LedgerSame DEF Settled
  <2>3. ASSUME NEW d \in Cmds, pc[d] # "done", SendOrWait(d) PROVE Settled(c)'
    <3>1. InLedger' = InLedger \cup {d}
      BY <2>3, LedgerAppend DEF SendOrWait
    <3> QED BY <1>2, <2>3, <3>1 DEF SendOrWait, Send, Settled
  <2>4. ASSUME NEW o \in Places, InsertPlace(o) PROVE Settled(c)'
    BY <2>3, <2>4, IdsAssumption DEF InsertPlace, LoopHasNoRow, Cmds
  <2>5. ASSUME NEW u \in Updates, InsertUpdate(u) PROVE Settled(c)'
    <3>1. u \in Cmds /\ pc[u] # "done"
      BY <2>5, IdsAssumption DEF InsertUpdate, LoopHasNoRow, Cmds
    <3> QED BY <2>2, <2>3, <2>5, <3>1 DEF InsertUpdate
  <2>6. ASSUME NEW d \in Cancels, SubmitCancel(d) PROVE Settled(c)'
    BY <2>3, <2>6 DEF SubmitCancel, Cmds
  <2>7. CASE ServerCrashes
    BY <1>2, <2>7, LedgerSame DEF ServerCrashes, dbVars, Settled
  <2>8. ASSUME NEW d \in Cmds, RequestReturns(d) \/ Dispatch(d) \/ GateRefuses(d)
        PROVE  Settled(c)'
    BY <2>2, <2>8 DEF RequestReturns, Dispatch, GateRefuses, Send, dbVars
  <2>9. ASSUME NEW d \in Cancels, CancelRefused(d) PROVE Settled(c)'
    BY <2>2, <2>9 DEF CancelRefused, dbVars, Cmds
  <2>10. ASSUME NEW d \in Places \cup Updates, CheckPlace(d) \/ CheckUpdate(d) PROVE Settled(c)'
    BY <2>2, <2>10 DEF CheckPlace, CheckUpdate, Cmds
  <2> QED
    BY <2>1, <2>4, <2>5, <2>6, <2>7, <2>8, <2>9, <2>10
    DEF Next, RequestNext, ChannelNext, AgentNext, LockNext, EnvNext, vars, dbVars, reqVars,
        RequestTimeout, Login, HealthChanges, Detach,
        ApplyAck, AckHandled, Connect, SessionEnds, AgentRestarts, Latch, RowAcked,
        AlreadyExecuted, RejectUnexecuted, Execute, Record, Pump, TakeLock, ReleaseLock,
        ApplyDeal, ApplyReport, WatchdogCloses, QueryAnswered, QueryResolves, BrokerFills,
        BrokerEnds, Expire
<1> QED BY <1>1, <1>2 DEF Settled

(* The quota either releases nothing new, or the reservation of a command  *)
(* that is settled with the step.                                          *)
Releases(c) == \A r \in Reservations : quota'[r].state = "released" =>
                 quota[r].state = "released" \/ r = ResOf(c)
ReleasesNone == \A r \in Reservations : quota'[r].state = "released" => quota[r].state = "released"

LEMMA ConfirmReleasesNone ==
  ASSUME DbTypeOK, NEW r, quota' = Confirm(r)
  PROVE  ReleasesNone
BY DEF DbTypeOK, Confirm, ReleasesNone

LEMMA OkEffectReleasesNone ==
  ASSUME DbTypeOK, NEW c, ApplyOkEffect(c)
  PROVE  ReleasesNone
BY ConfirmReleasesNone
   DEF ApplyOkEffect, ApplyPlaceAck, ApplyUpdateAck, ApplyCancelAck, ReleasesNone

LEMMA CloseReleasesNone ==
  ASSUME DbTypeOK, NEW C, CloseAll(C)
  PROVE  ReleasesNone
BY DEF DbTypeOK, CloseAll, Confirm, ReleasesNone

LEMMA RefusalReleases ==
  ASSUME DbTypeOK, NEW c \in Cmds, ApplyRefusal(c)
  PROVE  (c \in Places \cup Updates /\ Releases(c)) \/ ReleasesNone
BY IdsAssumption DEF DbTypeOK, ApplyRefusal, Release, Releases, ReleasesNone, ResOf

(* A row that is resolved is settled.                                      *)
LEMMA ResolveSettles ==
  ASSUME DbTypeOK, NEW c \in Cmds, NEW out, Resolve(c, out, "ack") \/ Resolve(c, out, "query_qty")
  PROVE  Settled(c)'
BY DEF DbTypeOK, Resolve, Settled, Resolved

LEMMA FreedStep == ASSUME IInv, LoopHasNoRow, Freed, [Next]_vars PROVE Freed'
<1> USE DEF IInv, TypeOK
<1>a. \A d \in Places \cup Updates : Settled(d) => Settled(d)'
  BY SettledStays DEF Cmds
<1>1. CASE ReleasesNone
  BY <1>a, <1>1 DEF Freed, ReleasesNone
<1>2. ASSUME NEW c \in Places \cup Updates, Releases(c), Settled(c)' PROVE Freed'
  BY <1>a, <1>2 DEF Freed, Releases
<1>3. ASSUME NEW c \in Cmds, ApplyRefusal(c), Settled(c)' PROVE Freed'
  BY <1>1, <1>2, <1>3, RefusalReleases
<1>4. ASSUME NEW o \in Places, CheckPlace(o) PROVE ReleasesNone
  BY <1>4 DEF CheckPlace, Reserve, DbTypeOK, ReleasesNone
<1>5. ASSUME NEW u \in Updates, CheckUpdate(u) PROVE ReleasesNone
  <2>1. CASE UNCHANGED quota
    BY <2>1 DEF ReleasesNone
  <2>2. ASSUME NEW n, quota' = Reserve(UpdateRes(u), n) PROVE ReleasesNone
    BY <2>2 DEF Reserve, DbTypeOK, ReleasesNone
  <2> QED BY <1>5, <2>1, <2>2 DEF CheckUpdate
<1>6. ASSUME NEW u \in Updates, InsertUpdate(u) PROVE Freed'
  <2>1. CASE UNCHANGED quota
    BY <1>1, <2>1 DEF ReleasesNone
  <2>2. CASE quota' = Release(UpdateRes(u)) /\ pc' = [pc EXCEPT ![u] = "done"] /\ UNCHANGED ledger
    <3>1. Releases(u)
      BY <2>2, IdsAssumption DEF Release, Releases, ResOf, DbTypeOK
    <3>2. Settled(u)'
      BY <1>6, <2>2, LedgerSame, IdsAssumption
      DEF InsertUpdate, LoopHasNoRow, Settled, RequestTypeOK, Cmds
    <3> QED BY <1>2, <3>1, <3>2
  <2> QED BY <1>6, <2>1, <2>2 DEF InsertUpdate, GiveBack
<1>7. ASSUME NEW c \in Cmds, GateRefuses(c) PROVE Freed'
  <2>1. Settled(c)'
    BY <1>7 DEF GateRefuses, CloseLocally, Resolve, Settled, Resolved, DbTypeOK
  <2> QED BY <1>3, <1>7, <2>1 DEF GateRefuses
<1>8. ASSUME NEW c \in Cmds, RequestReturns(c) PROVE ReleasesNone
  BY <1>8, OkEffectReleasesNone DEF RequestReturns, ApplyTimeout, ReleasesNone
<1>9. CASE ApplyAck
  <2>1. PICK c \in Cmds : c = Head(up).cmd
    BY <1>9, HeadUp, LedgerType DEF ApplyAck, UpOf
  <2>2. CASE UNCHANGED quota
    BY <1>1, <2>2 DEF ReleasesNone
  <2>3. CASE ApplyOkEffect(c)
    BY <1>1, <2>3, OkEffectReleasesNone
  <2>4. CASE Resolve(c, "error", "ack") /\ ApplyRefusal(c)
    BY <1>3, <2>4, ResolveSettles
  <2> QED BY <1>9, <2>1, <2>2, <2>3, <2>4 DEF ApplyAck
<1>10. CASE QueryResolves
  <2>1. PICK u \in Updates : u = query.cmd
    BY <1>10 DEF QueryResolves, LinkTypeOK
  <2>2. CASE UNCHANGED quota
    BY <1>1, <2>2 DEF ReleasesNone
  <2>3. CASE ApplyUpdateAck(u)
    BY <1>1, <2>3, ConfirmReleasesNone DEF ApplyUpdateAck
  <2>4. CASE Resolve(u, "error", "query_qty") /\ quota' = Release(UpdateRes(u))
    <3>1. Releases(u)
      BY <2>1, <2>4, IdsAssumption DEF Release, Releases, ResOf, DbTypeOK
    <3>2. Settled(u)'
      BY <2>4, ResolveSettles DEF Cmds
    <3> QED BY <1>2, <3>1, <3>2
  <2>5. CASE \E C \in {{u}, {}} : CloseAll(C)
    BY <1>1, <2>5, CloseReleasesNone
  <2> QED BY <1>10, <2>1, <2>2, <2>3, <2>4, <2>5 DEF QueryResolves
<1>11. ASSUME NEW C, CloseAll(C) PROVE ReleasesNone
  BY <1>11, CloseReleasesNone
<1>12. CASE UNCHANGED quota
  BY <1>1, <1>12 DEF ReleasesNone
<1> QED
  BY <1>1, <1>4, <1>5, <1>6, <1>7, <1>8, <1>9, <1>10, <1>11, <1>12
  DEF Next, RequestNext, ChannelNext, AgentNext, LockNext, EnvNext, vars, dbVars,
      InsertPlace, SubmitCancel, Dispatch, CancelRefused, RequestTimeout, Login,
      HealthChanges, Detach, AckHandled, Connect, SessionEnds, AgentRestarts, Latch,
      RowAcked, AlreadyExecuted, RejectUnexecuted, Execute, Record, Pump, TakeLock,
      ReleaseLock, ApplyDeal, ApplyReport, WatchdogCloses, QueryAnswered, BrokerFills,
      BrokerEnds, Expire, ServerCrashes

LEMMA FreedInit == ASSUME Init PROVE LoopHasNoRow /\ Freed
BY DEF Init, LoopHasNoRow, Freed

-----------------------------------------------------------------------------
(* The quota covers what the broker holds of an order that is not excused. *)
Holders == Places \cup Updates
Size(c) == IF c \in Places THEN InitQty[c] ELSE NewQty[c]
State(c) == quota[ResOf(c)].state

(* The agent has not executed the command, and in this session will not.   *)
NotRunning(c) == agentLedger[c] = "none" /\ exec.cmd # c
Barred(c) == NotRunning(c) /\ (c \in expired \/ latched \/ ~sess)

BarredUp == {m \in UpOf(Cmds) : m.type = "direct" => Barred(m.cmd)}

(* Nor will it in any other, unless its request sends it again.            *)
Without(c) == {m \in DownOf(Cmds) : m # Message("cmd", c)}
Unsent(c) == down \in Seq(Without(c))
Dead(c) == NotRunning(c) /\ (c \in expired \/ latched \/ Unsent(c))

(* What the server and the agent know of a verdict agrees.                 *)
Verdicts ==
  /\ \A c \in Cmds : agentLedger[c] # "none" \/ Resolved(c) => c \in InLedger
  /\ \A c \in Cmds : via[c] = "ack" =>
       \/ outcome[c] = "ok" /\ agentLedger[c] = "ok"
       \/ outcome[c] = "error" /\ (agentLedger[c] \in ExplicitReject \/ Dead(c) \/ c \in late)
  /\ \A c \in Cmds : via[c] = "report" => outcome[c] = "unknown"
  /\ \A c \in Cmds : via[c] = "none" => outcome[c] \in {"none", "unknown"}
  /\ \A c \in Cmds : via[c] = "none" /\ outcome[c] = "unknown" =>
       c \in acked /\ agentLedger[c] = "timeout"
  /\ \A c \in Holders : via[c] = "query_qty" \/ outcome[c] = "unknown" => agentLedger[c] = "timeout"

Asked == query # NoQuery /\ ~Resolved(query.cmd) => outcome[query.cmd] = "unknown"

(* Nothing reaches an agent without a session; only what is in the ledger  *)
(* is taken; and only what an acknowledgement has closed is sent late.     *)
Linked ==
  /\ ~sess => down = <<>>
  /\ taken \subseteq InLedger
  /\ \A c \in late : c \in Cmds /\ outcome[c] = "error" /\ Resolved(c)

Agreed ==
  /\ Linked
  /\ up \in Seq(BarredUp)
  /\ \A c \in Cmds : fut[c] = "ok" => agentLedger[c] = "ok"
  /\ Verdicts
  /\ Asked

Base == IInv /\ Traced /\ Believed /\ LoopHasNoRow

(* Steps of the ledger and the quota.                                      *)
Takes(c) ==
  /\ pc[c] = "idle" /\ UNCHANGED <<qty, known, outcome, via, lost>>
  /\ pc' = [pc EXCEPT ![c] = "checked"]
  /\ IF c \in Places THEN quota' = Reserve(PlaceRes(c), InitQty[c])
     ELSE /\ known[OrderOf[c]]
          /\ \/ /\ NewQty[c] > qty[OrderOf[c]] /\ State(c) = "none"
                /\ quota' = Reserve(UpdateRes(c), NewQty[c] - qty[OrderOf[c]])
             \/ (NewQty[c] <= qty[OrderOf[c]] \/ Active(UpdateRes(c))) /\ UNCHANGED quota

Accepted(c) ==
  \/ agentLedger[c] = "ok" /\ UNCHANGED <<outcome, via>>
  \/ ~Resolved(c) /\ \E how \in {"ack", "query_qty"} : Resolve(c, "ok", how)

Succeeds(c) ==
  /\ c \in InLedger
  /\ quota' = Confirm(ResOf(c))
  /\ IF c \in Places THEN known' = [known EXCEPT ![c] = TRUE] /\ UNCHANGED qty
     ELSE qty' = [qty EXCEPT ![OrderOf[c]] = NewQty[c]] /\ UNCHANGED known
  /\ Accepted(c)

Refused(c) ==
  /\ UNCHANGED <<qty, known>>
  /\ quota' = Release(ResOf(c))
  /\ pc[c] # "idle"
  /\ \/ /\ Unresolved(c)
        /\ \E how \in {"ack", "local", "query_qty"} :
             /\ Resolve(c, "error", how)
             /\ how = "query_qty" => query # NoQuery /\ query.cmd = c /\ query.qty = qty[OrderOf[c]]
     \/ Resolved(c) /\ UNCHANGED <<outcome, via>>
     \/ c \notin InLedger' /\ pc'[c] = "done" /\ UNCHANGED <<outcome, via>>

Closes(C) ==
  /\ \A c \in C : Unresolved(c) /\ (c \in Updates => outcome[c] = "unknown")
  /\ UNCHANGED <<qty, known>>
  /\ CloseAll(C)

Doubts(c) ==
  /\ Unresolved(c) /\ UNCHANGED <<quota, qty, known, via>>
  /\ outcome' = [outcome EXCEPT ![c] = "unknown"]

Judged(c) ==
  /\ Unresolved(c) /\ UNCHANGED <<quota, qty, known>>
  /\ Resolve(c, "ok", "ack") \/ Resolve(c, "error", "ack")

Moves ==
  \/ UNCHANGED <<quota, qty, known, outcome, via>>
  \/ \E c \in Holders : Takes(c) \/ Succeeds(c) \/ Refused(c)
  \/ \E C \in SUBSET (Cancels \cup Updates) : Closes(C)
  \/ \E c \in Cmds : Doubts(c)
  \/ \E c \in Cancels : Judged(c)

LEMMA OkEffectMoves ==
  ASSUME NEW c \in Holders, c \in InLedger, ApplyOkEffect(c), Accepted(c)
  PROVE  Succeeds(c)
BY IdsAssumption
   DEF Holders, ApplyOkEffect, ApplyPlaceAck, ApplyUpdateAck, ResOf, Succeeds

LEMMA MovesStep == ASSUME Base, Agreed, [Next]_vars PROVE Moves
<1> USE DEF Base, IInv, TypeOK
<1>1. ASSUME NEW o \in Places, CheckPlace(o) PROVE Moves
  BY <1>1 DEF CheckPlace, Moves, Takes, Holders, envVars
<1>2. ASSUME NEW u \in Updates, CheckUpdate(u) PROVE Moves
  <2>1. u \notin Places /\ ResOf(u) = UpdateRes(u)
    BY IdsAssumption DEF ResOf
  <2>2. NewQty[u] \in Nat /\ qty[OrderOf[u]] \in Nat
    BY DataAssumption DEF DbTypeOK
  <2>3. Takes(u)
    BY <1>2, <2>1, <2>2 DEF CheckUpdate, Takes, State, envVars
  <2> QED BY <2>3 DEF Moves, Holders
<1>3. ASSUME NEW u \in Updates, InsertUpdate(u) PROVE Moves
  <2>1. CASE UNCHANGED quota
    BY <1>3, <2>1 DEF InsertUpdate, Moves
  <2>2. CASE quota' = Release(UpdateRes(u)) /\ pc' = [pc EXCEPT ![u] = "done"] /\ UNCHANGED ledger
    <3>1. u \in Cmds /\ loop = u /\ u # "none"
      BY <1>3, IdsAssumption DEF InsertUpdate, Cmds
    <3>2. u \notin InLedger' /\ pc'[u] = "done" /\ pc[u] # "idle"
      BY <2>2, <3>1, LedgerSame DEF LoopHasNoRow, RequestTypeOK
    <3>3. Refused(u)
      BY <1>3, <2>2, <3>2, IdsAssumption DEF InsertUpdate, Refused, ResOf
    <3> QED BY <3>3 DEF Moves, Holders
  <2> QED BY <1>3, <2>1, <2>2 DEF InsertUpdate, GiveBack
<1>4. ASSUME NEW c \in Cmds, GateRefuses(c) PROVE Moves
  <2>1. c \in Holders /\ pc[c] = "waiting" /\ c \in InLedger
    BY <1>4 DEF GateRefuses, Cmds, Holders, WrittenFirst
  <2>2. quota' = Release(ResOf(c)) /\ UNCHANGED <<qty, known>>
    BY <1>4, <2>1, IdsAssumption DEF GateRefuses, ApplyRefusal, ResOf, Holders
  <2>3. Refused(c)
    BY <1>4, <2>1, <2>2 DEF GateRefuses, CloseLocally, Refused, Unresolved
  <2> QED BY <2>1, <2>3 DEF Moves
<1>5. ASSUME NEW c \in Cmds, RequestReturns(c) PROVE Moves
  <2>1. CASE UNCHANGED <<quota, qty, known>>
    BY <1>5, <2>1 DEF RequestReturns, Moves
  <2>2. CASE fut[c] = "ok" /\ ApplyOkEffect(c)
    <3>1. CASE c \in Cancels
      BY <2>1, <2>2, <3>1, IdsAssumption DEF ApplyOkEffect, ApplyCancelAck
    <3>2. CASE c \in Holders
      <4>1. c \in InLedger /\ Accepted(c)
        BY <1>5, <2>2 DEF RequestReturns, WrittenFirst, Agreed, Accepted
      <4>2. Succeeds(c)
        BY <2>2, <3>2, <4>1, OkEffectMoves
      <4> QED BY <3>2, <4>2 DEF Moves
    <3> QED BY <3>1, <3>2 DEF Cmds, Holders
  <2> QED BY <1>5, <2>1, <2>2 DEF RequestReturns, ApplyTimeout
<1>6. CASE ApplyAck
  <2>1. PICK c \in InLedger : c = Head(up).cmd
    BY <1>6, HeadUp DEF ApplyAck, UpOf
  <2>2. c \in Cmds /\ pc[c] # "idle"
    BY LedgerType DEF WrittenFirst
  <2>3. CASE UNCHANGED <<quota, qty, known, outcome, via>>
    BY <2>3 DEF Moves
  <2>4. CASE ~Resolved(c) /\ outcome' = [outcome EXCEPT ![c] = "unknown"]
             /\ UNCHANGED <<via, known, qty, quota>>
    BY <2>2, <2>4 DEF Moves, Doubts, Unresolved
  <2>5. ASSUME c \in Cancels, ~Resolved(c), ApplyOkEffect(c) \/ ApplyRefusal(c),
               Resolve(c, "ok", "ack") \/ Resolve(c, "error", "ack")
        PROVE  Moves
    <3>1. UNCHANGED <<quota, qty, known>>
      BY <2>5, IdsAssumption DEF ApplyOkEffect, ApplyRefusal, ApplyCancelAck
    <3> QED BY <2>5, <3>1 DEF Moves, Judged, Unresolved
  <2>6. CASE c \in Holders /\ ~Resolved(c) /\ Resolve(c, "ok", "ack") /\ ApplyOkEffect(c)
    <3>1. Succeeds(c)
      BY <2>6, OkEffectMoves DEF Accepted
    <3> QED BY <2>6, <3>1 DEF Moves
  <2>7. CASE c \in Holders /\ ~Resolved(c) /\ Resolve(c, "error", "ack") /\ ApplyRefusal(c)
    <3>1. quota' = Release(ResOf(c)) /\ UNCHANGED <<qty, known>>
      BY <2>7, IdsAssumption DEF ApplyRefusal, ResOf, Holders
    <3> QED BY <2>2, <2>7, <3>1 DEF Moves, Refused, Unresolved
  <2>8. c \in Cancels \/ c \in Holders
    BY <2>2 DEF Cmds, Holders
  <2>9. CASE AnsweredBefore(c)
    BY <1>6, <2>1, <2>3, <2>9 DEF ApplyAck
  <2>10. CASE ~AnsweredBefore(c)
    <3>1. \/ Resolve(c, "ok", "ack") /\ ApplyOkEffect(c)
          \/ Resolve(c, "error", "ack") /\ ApplyRefusal(c)
          \/ outcome' = [outcome EXCEPT ![c] = "unknown"] /\ UNCHANGED <<via, known, qty, quota>>
      BY <1>6, <2>1, <2>10 DEF ApplyAck
    <3>2. CASE Resolve(c, "ok", "ack") /\ ApplyOkEffect(c)
      <4>1. ~Resolved(c)
        BY <2>10 DEF AnsweredBefore
      <4>2. CASE c \in Cancels
        BY <2>5, <3>2, <4>1, <4>2
      <4>3. CASE c \in Holders
        BY <2>6, <3>2, <4>1, <4>3
      <4> QED BY <2>8, <4>2, <4>3
    <3>3. CASE Resolve(c, "error", "ack") /\ ApplyRefusal(c)
      <4>1. ~Resolved(c)
        BY <2>10 DEF AnsweredBefore
      <4>2. CASE c \in Cancels
        BY <2>5, <3>3, <4>1, <4>2
      <4>3. CASE c \in Holders
        BY <2>7, <3>3, <4>1, <4>3
      <4> QED BY <2>8, <4>2, <4>3
    <3>4. CASE outcome' = [outcome EXCEPT ![c] = "unknown"] /\ UNCHANGED <<via, known, qty, quota>>
      BY <2>4, <2>10, <3>4 DEF AnsweredBefore
    <3> QED BY <3>1, <3>2, <3>3, <3>4
  <2> QED BY <2>9, <2>10
<1>7. ASSUME NEW o \in Places, ApplyReport(o) PROVE Moves
  <2>1. PICK C \in {ClosedBy(o), {}} : CloseAll(C)
    BY <1>7 DEF ApplyReport
  <2>2. C \in SUBSET (Cancels \cup Updates)
        /\ \A c \in C : Unresolved(c) /\ (c \in Updates => outcome[c] = "unknown")
    BY <2>1 DEF ClosedBy
  <2>3. Closes(C)
    BY <1>7, <2>1, <2>2 DEF ApplyReport, Closes
  <2> QED BY <2>2, <2>3 DEF Moves
<1>8. ASSUME NEW c \in Cancels \cup Updates, WatchdogCloses(c) PROVE Moves
  <2>1. Unresolved(c) /\ (c \in Updates => outcome[c] = "unknown")
    BY <1>8 DEF WatchdogCloses, ClosedBy
  <2>2. Closes({c})
    BY <1>8, <2>1 DEF WatchdogCloses, Closes
  <2> QED BY <2>2 DEF Moves
<1>9. CASE QueryResolves
  <2>1. PICK u \in Updates : u = query.cmd /\ query # NoQuery
    BY <1>9 DEF QueryResolves, LinkTypeOK
  <2>2. u \in InLedger /\ u \in Cmds /\ u \notin Places /\ pc[u] # "idle"
    BY <2>1, IdsAssumption DEF WrittenFirst, Cmds
  <2>3. CASE UNCHANGED <<quota, qty, known, outcome, via>>
    BY <2>3 DEF Moves
  <2>4. CASE ~Resolved(u) /\ Resolve(u, "ok", "query_qty") /\ ApplyUpdateAck(u)
    <3>1. ApplyOkEffect(u)
      BY <2>4 DEF ApplyOkEffect
    <3>2. Succeeds(u)
      BY <2>2, <2>4, <3>1, OkEffectMoves DEF Holders, Accepted
    <3> QED BY <3>2 DEF Moves, Holders
  <2>5. CASE ~Resolved(u) /\ NotApplied(u, query.qty) /\ Resolve(u, "error", "query_qty")
             /\ quota' = Release(UpdateRes(u)) /\ UNCHANGED <<known, qty>>
    <3>1. Refused(u)
      BY <2>1, <2>2, <2>5 DEF Refused, NotApplied, ResOf, Unresolved
    <3> QED BY <3>1 DEF Moves, Holders
  <2>6. ASSUME NEW C \in {{u}, {}}, ~Resolved(u), CloseAll(C), UNCHANGED <<known, qty>>
        PROVE  Moves
    <3>1. outcome[u] = "unknown" /\ Unresolved(u)
      BY <2>1, <2>2, <2>6 DEF Agreed, Asked, Unresolved
    <3>2. C \in SUBSET (Cancels \cup Updates) /\ Closes(C)
      BY <2>6, <3>1 DEF Closes
    <3> QED BY <3>2 DEF Moves
  <2> QED BY <1>9, <2>1, <2>3, <2>4, <2>5, <2>6 DEF QueryResolves
<1>10. CASE UNCHANGED <<quota, qty, known, outcome, via>>
  BY <1>10 DEF Moves
<1> QED
  BY <1>1, <1>2, <1>3, <1>4, <1>5, <1>6, <1>7, <1>8, <1>9, <1>10
  DEF Next, RequestNext, ChannelNext, AgentNext, LockNext, EnvNext, vars, dbVars,
      InsertPlace, SubmitCancel, Dispatch, CancelRefused, RequestTimeout, Login,
      HealthChanges, Detach, AckHandled, Connect, SessionEnds, AgentRestarts, Latch,
      RowAcked, AlreadyExecuted, RejectUnexecuted, Execute, Record, Pump, TakeLock,
      ReleaseLock, ApplyDeal, QueryAnswered, BrokerFills, BrokerEnds, Expire, ServerCrashes

-----------------------------------------------------------------------------
(* The agent's side.                                                       *)

(* What does not run is started by nothing but Execute.                    *)
LEMMA NotRunningStays ==
  ASSUME Base, [Next]_vars, NEW c \in Cmds, NotRunning(c)
  PROVE  NotRunning(c)' \/ (Execute /\ Head(down).cmd = c)
<1> USE DEF Base, IInv, TypeOK
<1>a. c # "none"
  BY IdsAssumption
<1>1. CASE Execute
  BY <1>1 DEF Execute, NotRunning
<1>2. CASE Record
  <2>1. agentLedger'[c] = agentLedger[c] /\ exec' = NoCall
    BY <1>2 DEF Record, NotRunning, AgentTypeOK
  <2> QED BY <1>a, <2>1 DEF NotRunning, NoCall
<1>3. CASE UNCHANGED agentLedger /\ exec' \in {exec, NoCall}
  BY <1>a, <1>3 DEF NotRunning, NoCall
<1> QED
  BY <1>1, <1>2, <1>3
  DEF Next, RequestNext, ChannelNext, AgentNext, LockNext, EnvNext, vars, agentVars,
      EndSession,
      CheckPlace, CheckUpdate, InsertPlace, InsertUpdate, SubmitCancel, Dispatch,
      GateRefuses, CancelRefused, RequestTimeout, RequestReturns, Login, HealthChanges,
      Detach, ApplyAck, AckHandled, Connect, SessionEnds, AgentRestarts, Latch, RowAcked,
      AlreadyExecuted, RejectUnexecuted, Pump, TakeLock, ReleaseLock, ApplyDeal,
      ApplyReport, WatchdogCloses, QueryAnswered, QueryResolves, BrokerFills, BrokerEnds,
      Expire, ServerCrashes

(* The latch is released, and a session begun, only by these.              *)
LEMMA LatchAndSession ==
  ASSUME [Next]_vars
  PROVE  /\ expired \subseteq expired'
         /\ latched => latched' \/ AgentRestarts
         /\ ~sess => ~sess' \/ Connect
<1>1. UNCHANGED expired \/ \E c \in Cmds : Expire(c)
  BY DEF Next, RequestNext, ChannelNext, AgentNext, LockNext, EnvNext, vars, envVars,
      CheckPlace, CheckUpdate, InsertPlace, InsertUpdate, SubmitCancel, Dispatch,
      GateRefuses, CancelRefused, RequestTimeout, RequestReturns, Login, HealthChanges,
      Detach, ApplyAck, AckHandled, Connect, SessionEnds, AgentRestarts, Latch, RowAcked,
      AlreadyExecuted, RejectUnexecuted, Execute, Record, Pump, TakeLock, ReleaseLock, ApplyDeal,
      ApplyReport, WatchdogCloses, QueryAnswered, QueryResolves, BrokerFills, BrokerEnds,
      ServerCrashes
<1>2. UNCHANGED latched \/ AgentRestarts \/ latched'
  BY DEF Next, RequestNext, ChannelNext, AgentNext, LockNext, EnvNext, vars, agentVars,
      CheckPlace, CheckUpdate, InsertPlace, InsertUpdate, SubmitCancel, Dispatch,
      GateRefuses, CancelRefused, RequestTimeout, RequestReturns, Login, HealthChanges,
      Detach, ApplyAck, AckHandled, Connect, SessionEnds, Latch, RowAcked,
      AlreadyExecuted, RejectUnexecuted, Execute, Record, Pump, TakeLock, ReleaseLock, ApplyDeal,
      ApplyReport, WatchdogCloses, QueryAnswered, QueryResolves, BrokerFills, BrokerEnds,
      Expire, ServerCrashes
<1>3. UNCHANGED sess \/ ~sess' \/ Connect
  BY DEF Next, RequestNext, ChannelNext, AgentNext, LockNext, EnvNext, vars, agentVars, EndSession,
      CheckPlace, CheckUpdate, InsertPlace, InsertUpdate, SubmitCancel, Dispatch,
      GateRefuses, CancelRefused, RequestTimeout, RequestReturns, Login, HealthChanges,
      Detach, ApplyAck, AckHandled, SessionEnds, AgentRestarts, Latch, RowAcked,
      AlreadyExecuted, RejectUnexecuted, Execute, Record, Pump, TakeLock, ReleaseLock, ApplyDeal,
      ApplyReport, WatchdogCloses, QueryAnswered, QueryResolves, BrokerFills, BrokerEnds,
      Expire, ServerCrashes
<1> QED BY <1>1, <1>2, <1>3 DEF Expire

(* A command that is barred stays barred, until a connection empties the   *)
(* uplink.                                                                 *)
LEMMA BarredStays ==
  ASSUME Base, [Next]_vars, NEW c \in Cmds, Barred(c)
  PROVE  Barred(c)' \/ up' = <<>>
<1>1. ~(Execute /\ Head(down).cmd = c)
  BY DEF Execute, Receiving, Barred
<1>2. NotRunning(c)'
  BY <1>1, NotRunningStays DEF Barred
<1>3. CASE AgentRestarts
  BY <1>2, <1>3 DEF AgentRestarts, EndSession, Barred
<1>4. CASE Connect
  BY <1>4 DEF Connect
<1> QED BY <1>2, <1>3, <1>4, LatchAndSession DEF Barred

(* A message to the agent is an acknowledgement, or the replay of an open  *)
(* row, or the first or the late sending of a command.                     *)
LEMMA DownMoves ==
  ASSUME Base, [Next]_vars
  PROVE  \/ down' \in {down, <<>>}
         \/ down # <<>> /\ down' = Tail(down)
         \/ \E c \in Cmds : down' = Append(down, Message("ack", c))
         \/ \E c \in Cmds : /\ down' = Append(down, Message("cmd", c))
                            /\ c \notin InLedger \/ Dispatch(c)
         \/ \E rows \in ReplayRows :
               down' = down \o [i \in DOMAIN rows |-> Message("cmd", rows[i])]
<1> USE DEF Base, IInv, TypeOK
<1>1. CASE AckHandled
  <2>1. PICK c \in Cmds : c = Head(up).cmd
    BY <1>1, HeadUp, LedgerType DEF AckHandled, LinkTypeOK, UpOf
  <2> QED BY <1>1, <2>1 DEF AckHandled, Downlink
<1>2. CASE Login
  BY <1>2 DEF Login
<1>3. ASSUME NEW c \in Cmds, c \notin InLedger, SendOrWait(c)
      PROVE  down' = down \/ down' = Append(down, Message("cmd", c))
  BY <1>3 DEF SendOrWait, Send, Downlink
<1>4. ASSUME NEW o \in Places, InsertPlace(o)
      PROVE  down' = down \/ (o \in Cmds \ InLedger /\ down' = Append(down, Message("cmd", o)))
  <2>1. o \in Cmds /\ o \notin InLedger
    BY <1>4, IdsAssumption DEF InsertPlace, LoopHasNoRow, Cmds
  <2> QED BY <1>3, <1>4, <2>1 DEF InsertPlace
<1>5. ASSUME NEW u \in Updates, InsertUpdate(u)
      PROVE  down' = down \/ (u \in Cmds \ InLedger /\ down' = Append(down, Message("cmd", u)))
  <2>1. u \in Cmds /\ u \notin InLedger
    BY <1>5, IdsAssumption DEF InsertUpdate, LoopHasNoRow, Cmds
  <2> QED BY <1>3, <1>5, <2>1 DEF InsertUpdate
<1>6. ASSUME NEW k \in Cancels, SubmitCancel(k)
      PROVE  down' = down \/ (k \in Cmds \ InLedger /\ down' = Append(down, Message("cmd", k)))
  <2>1. k \in Cmds /\ k \notin InLedger
    BY <1>6 DEF SubmitCancel, WrittenFirst, Cmds
  <2> QED BY <1>3, <1>6, <2>1 DEF SubmitCancel
<1>7. ASSUME NEW c \in Cmds, Dispatch(c)
      PROVE  down' = down \/ down' = Append(down, Message("cmd", c))
  BY <1>7 DEF Dispatch, Send, Downlink
<1>8. CASE down' \in {down, <<>>} \/ (down # <<>> /\ down' = Tail(down))
  BY <1>8
<1> QED
  BY <1>1, <1>2, <1>4, <1>5, <1>6, <1>7, <1>8
  DEF Next, RequestNext, ChannelNext, AgentNext, LockNext, EnvNext, vars, wireVars,
      EndSession, Receiving,
      CheckPlace, CheckUpdate, GateRefuses, CancelRefused, RequestTimeout, RequestReturns,
      HealthChanges, Detach, ApplyAck, Connect, SessionEnds, AgentRestarts, Latch, RowAcked,
      AlreadyExecuted, RejectUnexecuted, Execute, Record, Pump, TakeLock, ReleaseLock, ApplyDeal,
      ApplyReport, WatchdogCloses, QueryAnswered, QueryResolves, BrokerFills, BrokerEnds,
      Expire, ServerCrashes

LEMMA MessageRow ==
  ASSUME NEW m \in DownOf(Cmds), m.type = "cmd"
  PROVE  m = Message("cmd", m.cmd)
BY DEF DownOf, Message

(* What a set of messages has to contain so that the downlink stays in it. *)
LEMMA DownStays ==
  ASSUME Base, [Next]_vars, NEW S, down \in Seq(S),
         \A c \in Cmds : Message("ack", c) \in S,
         \A c \in Cmds : Dispatch(c) \/ c \notin InLedger \/ ~Resolved(c) => Message("cmd", c) \in S
  PROVE  down' \in Seq(S)
<1> USE DEF Base, IInv, TypeOK
<1>1. CASE down' \in {down, <<>>}
  BY <1>1, EmptySeq
<1>2. CASE down # <<>> /\ down' = Tail(down)
  BY <1>2, HeadAndTail
<1>3. ASSUME NEW m \in S, down' = Append(down, m) PROVE down' \in Seq(S)
  BY <1>3
<1>4. ASSUME NEW rows \in ReplayRows,
             down' = down \o [i \in DOMAIN rows |-> Message("cmd", rows[i])]
      PROVE  down' \in Seq(S)
  <2> DEFINE open == {c \in InLedger : c \notin acked /\ ~Resolved(c)}
             n == Cardinality(open)
             sent == [i \in DOMAIN rows |-> Message("cmd", rows[i])]
  <2>1. open \subseteq Cmds /\ n \in Nat
    <3>1. open \subseteq Cmds
      BY LedgerType
    <3> QED BY <3>1, IdsAssumption, FS_Subset, FS_CardinalityType
  <2>2. rows \in [1..n -> open]
    BY DEF ReplayRows
  <2>3. \A c \in open : Message("cmd", c) \in S
    BY <2>1
  <2>4. sent \in [1..n -> S]
    BY <2>2, <2>3
  <2> HIDE DEF sent, n
  <2>5. sent \in Seq(S)
    BY <2>1, <2>4, SeqDef
  <2>6. down \o sent \in Seq(S)
    BY <2>5, ConcatProperties
  <2> QED BY <1>4, <2>6 DEF sent
<1>5. ASSUME NEW c \in Cmds, down' = Append(down, Message("ack", c)) PROVE down' \in Seq(S)
  BY <1>3, <1>5
<1>6. ASSUME NEW c \in Cmds, down' = Append(down, Message("cmd", c)), c \notin InLedger \/ Dispatch(c)
      PROVE  down' \in Seq(S)
  BY <1>3, <1>6
<1> QED BY <1>1, <1>2, <1>4, <1>5, <1>6, DownMoves

LEMMA DeadNotRun ==
  ASSUME Base, Execute, NEW c \in Cmds, Dead(c)
  PROVE  Head(down).cmd # c
<1> SUFFICES ASSUME Head(down).cmd = c PROVE FALSE
  OBVIOUS
<1>1. down # <<>> /\ Head(down).type = "cmd" /\ down \in Seq(Without(c))
  BY DEF Execute, Receiving, Dead, Unsent
<1>2. Head(down) \in Without(c)
  BY <1>1, HeadAndTail
<1> QED BY <1>1, <1>2, MessageRow DEF Without

(* A closed command that is dead stays dead, unless its request, which     *)
(* still waits for the lock, sends it.                                     *)
LEMMA DeadStays ==
  ASSUME Base, Linked, [Next]_vars, NEW c \in InLedger, Resolved(c), Dead(c)
  PROVE  Dead(c)' \/ Dispatch(c)
<1> USE DEF Base, IInv, TypeOK
<1> SUFFICES ASSUME ~Dispatch(c) PROVE Dead(c)'
  OBVIOUS
<1>a. c \in Cmds
  BY LedgerType
<1>1. ~(Execute /\ Head(down).cmd = c)
  BY <1>a, DeadNotRun
<1>2. NotRunning(c)'
  BY <1>a, <1>1, NotRunningStays DEF Dead
<1>3. CASE AgentRestarts
  <2>1. down' = <<>>
    BY <1>3 DEF AgentRestarts, EndSession
  <2> QED BY <1>2, <2>1, EmptySeq DEF Dead, Unsent
<1>4. CASE Unsent(c)
  <2>1. \A d \in Cmds : Message("ack", d) \in Without(c)
    BY DEF Message, Without, DownOf
  <2>2. \A d \in Cmds : d # c => Message("cmd", d) \in Without(c)
    BY DEF Message, Without, DownOf
  <2>3. down' \in Seq(Without(c))
    BY <1>4, <2>1, <2>2, DownStays DEF Unsent
  <2> QED BY <1>2, <2>3 DEF Dead, Unsent, Without
<1> QED BY <1>2, <1>3, <1>4, LatchAndSession DEF Dead

(* The broker takes a command that is executed, which is in the ledger.    *)
LEMMA TakenGrows ==
  ASSUME Base, [Next]_vars
  PROVE  /\ taken \subseteq taken'
         /\ taken' \subseteq taken \cup InLedger
<1>1. CASE Execute
  <2>1. Head(down).cmd \in InLedger
    BY <1>1, HeadDown DEF Execute, Receiving, DownOf, Base, IInv
  <2> QED BY <1>1, <2>1 DEF Execute
<1>2. CASE UNCHANGED taken
  BY <1>2
<1> QED
  BY <1>1, <1>2
  DEF Next, RequestNext, ChannelNext, AgentNext, LockNext, EnvNext, vars, brokerVars, envVars,
      CheckPlace, CheckUpdate, InsertPlace, InsertUpdate, SubmitCancel, Dispatch,
      GateRefuses, CancelRefused, RequestTimeout, RequestReturns, Login, HealthChanges,
      Detach, ApplyAck, AckHandled, Connect, SessionEnds, AgentRestarts, Latch, RowAcked,
      AlreadyExecuted, RejectUnexecuted, Record, Pump, TakeLock, ReleaseLock,
      ApplyDeal, ApplyReport, WatchdogCloses, QueryAnswered, QueryResolves, BrokerFills,
      BrokerEnds, Expire, ServerCrashes

LEMMA BarredUpStep ==
  ASSUME Base, Agreed, [Next]_vars
  PROVE  up' \in Seq(BarredUp')
<1> USE DEF Base, IInv, TypeOK
<1> SUFFICES ASSUME up' # <<>> PROVE up' \in Seq(BarredUp')
  BY EmptySeq
<1>a. up \in Seq(BarredUp) /\ \A s \in Seq(BarredUp) : s \in Seq(BarredUp')
  <2>1. BarredUp \subseteq BarredUp'
    BY BarredStays DEF BarredUp, UpOf
  <2> QED BY <2>1, SeqMonotonic DEF Agreed
<1>1. CASE up' \in {up, <<>>}
  BY <1>a, <1>1, EmptySeq
<1>2. CASE AckHandled
  <2>1. up # <<>> /\ up' = Tail(up)
    BY <1>2 DEF AckHandled, LinkTypeOK
  <2>2. Tail(up) \in Seq(BarredUp)
    BY <1>a, <2>1, HeadAndTail
  <2> QED BY <1>a, <2>1, <2>2
<1>3. ASSUME NEW m \in BarredUp, up' \in {up, Append(up, m)} PROVE up' \in Seq(BarredUp')
  BY <1>a, <1>3
<1>4. CASE RejectUnexecuted
  <2>1. PICK c \in Cmds : c = Head(down).cmd
    BY <1>4, HeadDown, LedgerType DEF RejectUnexecuted, Receiving, DownOf
  <2>2. PICK a \in {"failstop", "expired"} :
          /\ up' \in {up, Append(up, [type |-> "direct", cmd |-> c, answer |-> a])}
          /\ latched \/ c \in expired
    BY <1>4, <2>1 DEF RejectUnexecuted, Uplink
  <2>3. Barred(c)
    BY <1>4, <2>1, <2>2, IdsAssumption
    DEF RejectUnexecuted, Recorded, Receiving, Barred, NotRunning, NoCall
  <2>4. [type |-> "direct", cmd |-> c, answer |-> a] \in BarredUp
    BY <2>3 DEF BarredUp, UpOf, Answers, ExplicitReject
  <2> QED BY <1>3, <2>2, <2>4
<1>5. ASSUME NEW c \in Cmds, Pump(c) PROVE up' \in Seq(BarredUp')
  <2>1. agentLedger[c] \in Answers
    BY <1>5 DEF Pump, AgentTypeOK
  <2>2. [type |-> "row", cmd |-> c, answer |-> agentLedger[c]] \in BarredUp
    BY <2>1 DEF BarredUp, UpOf
  <2> QED BY <1>3, <1>5, <2>2 DEF Pump, Uplink
<1> QED
  BY <1>1, <1>2, <1>4, <1>5
  DEF Next, RequestNext, ChannelNext, AgentNext, LockNext, EnvNext, vars, wireVars,
      CheckPlace, CheckUpdate, InsertPlace, InsertUpdate, SubmitCancel, Dispatch,
      GateRefuses, CancelRefused, RequestTimeout, RequestReturns, Login, HealthChanges,
      Detach, ApplyAck, Connect, SessionEnds, AgentRestarts, Latch, RowAcked,
      AlreadyExecuted, Execute, Record, TakeLock, ReleaseLock, ApplyDeal, ApplyReport,
      WatchdogCloses, QueryAnswered, QueryResolves, BrokerFills, BrokerEnds, Expire,
      ServerCrashes

(* An "ok" that reaches a request is the agent's recorded answer.          *)
LEMMA FutureStep ==
  ASSUME Base, Agreed, [Next]_vars, NEW c \in Cmds, fut'[c] = "ok"
  PROVE  agentLedger'[c] = "ok"
<1> USE DEF Base, IInv, TypeOK
<1>1. CASE fut[c] = "ok"
  BY <1>1, RecordKept DEF Agreed
<1>2. CASE AckHandled /\ fut[c] # "ok"
  <2>1. up # <<>> /\ up \in Seq(GenuineUp) /\ UNCHANGED agentLedger
    BY <1>2 DEF AckHandled, LinkTypeOK, Believed, agentVars
  <2>2. Head(up) \in GenuineUp
    BY <2>1, HeadAndTail
  <2>3. c = Head(up).cmd /\ Head(up).answer = "ok"
    BY <1>2 DEF AckHandled, RequestTypeOK
  <2> QED BY <2>1, <2>2, <2>3 DEF GenuineUp, Genuine, UpOf
<1>3. CASE fut' \in {fut, PendingTimedOut, [d \in Cmds |-> "none"]}
  BY <1>1, <1>3 DEF PendingTimedOut, RequestTypeOK
<1>4. ASSUME NEW d \in Cmds, NEW a \in {"pending", "timeout", "none"}, fut' = [fut EXCEPT ![d] = a]
      PROVE  agentLedger'[c] = "ok"
  BY <1>1, <1>4 DEF RequestTypeOK
<1>5. ASSUME NEW d \in Cmds, SendOrWait(d) \/ Dispatch(d) PROVE agentLedger'[c] = "ok"
  BY <1>3, <1>4, <1>5 DEF SendOrWait, Dispatch, Send
<1>6. ASSUME NEW u \in Updates, InsertUpdate(u) PROVE agentLedger'[c] = "ok"
  BY <1>3, <1>5, <1>6 DEF InsertUpdate, Cmds
<1> QED
  BY <1>1, <1>2, <1>3, <1>4, <1>5, <1>6
  DEF Next, RequestNext, ChannelNext, AgentNext, LockNext, EnvNext, vars, reqVars, Cmds,
      CheckPlace, CheckUpdate, InsertPlace, SubmitCancel,
      GateRefuses, CancelRefused, RequestTimeout, RequestReturns, Login, HealthChanges,
      Detach, ApplyAck, Connect, SessionEnds, AgentRestarts, Latch, RowAcked,
      AlreadyExecuted, RejectUnexecuted, Execute, Record, Pump, TakeLock, ReleaseLock, ApplyDeal,
      ApplyReport, WatchdogCloses, QueryAnswered, QueryResolves, BrokerFills, BrokerEnds,
      Expire, ServerCrashes

(* An acknowledgement that is applied tells what the agent has recorded,   *)
(* or that it will not execute the command.                                *)
LEMMA AckTells ==
  ASSUME Base, Agreed, ApplyAck
  PROVE  \E c \in InLedger, a \in Answers :
           /\ c = Head(up).cmd /\ a = Head(up).answer
           /\ agentLedger[c] = a \/ (a \in ExplicitReject /\ Barred(c))
<1> USE DEF Base, IInv, TypeOK
<1>1. up # <<>> /\ up \in Seq(GenuineUp) /\ up \in Seq(BarredUp)
  BY DEF ApplyAck, Believed, Agreed
<1>2. Head(up) \in GenuineUp /\ Head(up) \in BarredUp
  BY <1>1, HeadAndTail
<1>3. Head(up).cmd \in InLedger /\ Head(up) \in UpOf(Cmds)
  BY <1>2, HeadUp DEF ApplyAck, UpOf, GenuineUp
<1> QED
  BY <1>2, <1>3 DEF GenuineUp, Genuine, BarredUp, UpOf, ExplicitReject

(* The ways a verdict is written.                                          *)
ByAck(c) ==
  /\ ApplyAck /\ c = Head(up).cmd
  /\ \/ via'[c] = "ack" /\ outcome'[c] = "ok" /\ Head(up).answer = "ok"
     \/ via'[c] = "ack" /\ outcome'[c] = "error" /\ Head(up).answer \in ExplicitReject
     \/ via'[c] = "none" /\ outcome'[c] = "unknown" /\ Head(up).answer \notin ExplicitReject \cup {"ok"}

ByReport(c) ==
  /\ via'[c] = "report" /\ outcome'[c] = "unknown"
  /\ c \notin Places /\ (c \in Updates => outcome[c] = "unknown")

ByQuery(c) ==
  /\ query # NoQuery /\ c = query.cmd
  /\ via'[c] = "query_qty" /\ outcome[c] = "unknown"
  /\ \/ outcome'[c] = "ok" /\ query.qty = NewQty[c]
     \/ outcome'[c] = "error" /\ query.qty = qty[OrderOf[c]] /\ NewQty[c] # qty[OrderOf[c]]

Locally(c) == lock = "none" /\ via'[c] = "local" /\ outcome'[c] = "error"

SameVerdict(c) == via'[c] = via[c] /\ outcome'[c] = outcome[c]

LEMMA CloseVerdict ==
  ASSUME DbTypeOK, NEW c \in Cmds, NEW C \in SUBSET (Cancels \cup Updates), CloseAll(C),
         \A d \in C : Unresolved(d) /\ (d \in Updates => outcome[d] = "unknown")
  PROVE  SameVerdict(c) \/ (Unresolved(c) /\ ByReport(c))
BY IdsAssumption DEF CloseAll, SameVerdict, ByReport

LEMMA ResolveVerdict ==
  ASSUME DbTypeOK, NEW c \in Cmds, NEW d \in Cmds, NEW out, NEW how, Resolve(d, out, how)
  PROVE  SameVerdict(c) \/ (c = d /\ via'[c] = how /\ outcome'[c] = out)
BY DEF DbTypeOK, Resolve, SameVerdict

LEMMA VerdictMoves ==
  ASSUME Base, Agreed, [Next]_vars, NEW c \in Cmds
  PROVE  \/ SameVerdict(c)
         \/ Unresolved(c) /\ (ByAck(c) \/ ByReport(c) \/ ByQuery(c) \/ Locally(c))
<1> USE DEF Base, IInv, TypeOK
<1> DEFINE Goal == \/ SameVerdict(c)
                   \/ Unresolved(c) /\ (ByAck(c) \/ ByReport(c) \/ ByQuery(c) \/ Locally(c))
<1>1. ASSUME NEW d \in Cmds, GateRefuses(d) PROVE Goal
  <2>1. d \in InLedger
    BY <1>1 DEF GateRefuses, WrittenFirst
  <2>2. CASE Resolved(d)
    BY <1>1, <2>2 DEF GateRefuses, CloseLocally, SameVerdict
  <2>3. CASE ~Resolved(d) /\ Resolve(d, "error", "local")
    BY <1>1, <2>1, <2>3, ResolveVerdict DEF GateRefuses, Locally, Unresolved
  <2> QED BY <1>1, <2>2, <2>3 DEF GateRefuses, CloseLocally
<1>2. CASE ApplyAck
  <2>1. PICK d \in InLedger, a \in Answers : d = Head(up).cmd /\ a = Head(up).answer
    BY <1>2, AckTells
  <2>2. d \in Cmds
    BY LedgerType
  <2>3. CASE UNCHANGED <<outcome, via>>
    BY <2>3 DEF SameVerdict
  <2>4. CASE ~Resolved(d) /\ a = "ok" /\ Resolve(d, "ok", "ack")
    BY <1>2, <2>1, <2>2, <2>4, ResolveVerdict DEF ByAck, Unresolved
  <2>5. CASE ~Resolved(d) /\ a \in ExplicitReject /\ Resolve(d, "error", "ack")
    BY <1>2, <2>1, <2>2, <2>5, ResolveVerdict DEF ByAck, Unresolved
  <2>6. CASE ~Resolved(d) /\ a \notin ExplicitReject \cup {"ok"}
             /\ outcome' = [outcome EXCEPT ![d] = "unknown"] /\ UNCHANGED via
    BY <1>2, <2>1, <2>2, <2>6 DEF ByAck, Unresolved, SameVerdict, DbTypeOK, Resolved
  <2>7. CASE AnsweredBefore(d)
    BY <1>2, <2>1, <2>3, <2>7 DEF ApplyAck
  <2>8. CASE ~AnsweredBefore(d)
    <3>1. \/ a = "ok" /\ Resolve(d, "ok", "ack")
          \/ a \in ExplicitReject /\ Resolve(d, "error", "ack")
          \/ a \notin ExplicitReject \cup {"ok"}
             /\ outcome' = [outcome EXCEPT ![d] = "unknown"] /\ UNCHANGED via
      BY <1>2, <2>1, <2>8 DEF ApplyAck, Succeeded
    <3> QED BY <2>4, <2>5, <2>6, <2>8, <3>1 DEF AnsweredBefore
  <2> QED BY <2>7, <2>8
<1>3. ASSUME NEW o \in Places, ApplyReport(o) PROVE Goal
  <2>1. PICK C \in {ClosedBy(o), {}} : CloseAll(C)
    BY <1>3 DEF ApplyReport
  <2>2. C \in SUBSET (Cancels \cup Updates)
        /\ \A d \in C : Unresolved(d) /\ (d \in Updates => outcome[d] = "unknown")
    BY <2>1 DEF ClosedBy
  <2> QED BY <2>1, <2>2, CloseVerdict
<1>4. ASSUME NEW d \in Cancels \cup Updates, WatchdogCloses(d) PROVE Goal
  <2>1. Unresolved(d) /\ (d \in Updates => outcome[d] = "unknown") /\ CloseAll({d})
    BY <1>4 DEF WatchdogCloses, ClosedBy
  <2> QED BY <2>1, CloseVerdict
<1>5. CASE QueryResolves
  <2>1. PICK u \in Updates : u = query.cmd /\ query # NoQuery
    BY <1>5 DEF QueryResolves, LinkTypeOK
  <2>2. u \in InLedger /\ u \in Cmds
    BY <2>1 DEF WrittenFirst, Cmds
  <2>3. CASE UNCHANGED <<outcome, via>>
    BY <2>3 DEF SameVerdict
  <2>4. ASSUME NEW out, ~Resolved(u), Resolve(u, out, "query_qty"),
               \/ out = "ok" /\ query.qty = NewQty[u]
               \/ out = "error" /\ query.qty = qty[OrderOf[u]] /\ NewQty[u] # qty[OrderOf[u]]
        PROVE  Goal
    <3>1. outcome[u] = "unknown" /\ Unresolved(u)
      BY <2>1, <2>2, <2>4 DEF Agreed, Asked, Unresolved
    <3> QED BY <2>1, <2>2, <2>4, <3>1, ResolveVerdict DEF ByQuery
  <2>5. ASSUME NEW C \in {{u}, {}}, ~Resolved(u), CloseAll(C) PROVE Goal
    <3>1. outcome[u] = "unknown" /\ Unresolved(u)
      BY <2>1, <2>2, <2>5 DEF Agreed, Asked, Unresolved
    <3> QED BY <2>5, <3>1, CloseVerdict
  <2> QED BY <1>5, <2>1, <2>3, <2>4, <2>5 DEF QueryResolves, NotApplied
<1>6. CASE UNCHANGED <<outcome, via>>
  BY <1>6 DEF SameVerdict
<1> QED
  BY <1>1, <1>2, <1>3, <1>4, <1>5, <1>6
  DEF Next, RequestNext, ChannelNext, AgentNext, LockNext, EnvNext, vars, dbVars,
      CheckPlace, CheckUpdate, InsertPlace, InsertUpdate, SubmitCancel, Dispatch,
      CancelRefused, RequestTimeout, RequestReturns, Login, HealthChanges, Detach,
      AckHandled, Connect, SessionEnds, AgentRestarts, Latch, RowAcked, AlreadyExecuted,
      RejectUnexecuted, Execute, Record, Pump, TakeLock, ReleaseLock, ApplyDeal,
      QueryAnswered, BrokerFills, BrokerEnds, Expire, ServerCrashes

(* What is sent late has been closed as failed, and stays so.              *)
LEMMA LateGrows ==
  ASSUME [Next]_vars
  PROVE  /\ late \subseteq late'
         /\ \A c \in Cmds : Dispatch(c) /\ outcome[c] = "error" => c \in late'
         /\ \A c \in late' \ late : c \in Cmds /\ Dispatch(c) /\ outcome[c] = "error"
BY DEF Next, RequestNext, ChannelNext, AgentNext, LockNext, EnvNext, vars, envVars, EndSession,
      CheckPlace, CheckUpdate, InsertPlace, InsertUpdate, SubmitCancel, Dispatch,
      GateRefuses, CancelRefused, RequestTimeout, RequestReturns, Login, HealthChanges,
      Detach, ApplyAck, AckHandled, Connect, SessionEnds, AgentRestarts, Latch, RowAcked,
      AlreadyExecuted, RejectUnexecuted, Execute, Record, Pump, TakeLock, ReleaseLock,
      ApplyDeal, ApplyReport, WatchdogCloses, QueryAnswered, QueryResolves, BrokerFills,
      BrokerEnds, Expire, ServerCrashes

LEMMA VerdictsStep == ASSUME Base, Agreed, [Next]_vars PROVE Verdicts'
<1> USE DEF Base, IInv, TypeOK
<1> SUFFICES ASSUME NEW c \in Cmds
             PROVE  /\ agentLedger'[c] # "none" \/ via'[c] # "none" => c \in InLedger'
                    /\ via'[c] = "ack" =>
                         \/ outcome'[c] = "ok" /\ agentLedger'[c] = "ok"
                         \/ /\ outcome'[c] = "error"
                            /\ agentLedger'[c] \in ExplicitReject \/ Dead(c)' \/ c \in late'
                    /\ via'[c] = "report" => outcome'[c] = "unknown"
                    /\ via'[c] = "none" => outcome'[c] \in {"none", "unknown"}
                    /\ via'[c] = "none" /\ outcome'[c] = "unknown" =>
                         c \in acked' /\ agentLedger'[c] = "timeout"
                    /\ c \in Holders => (via'[c] = "query_qty" \/ outcome'[c] = "unknown"
                                           => agentLedger'[c] = "timeout")
  BY DEF Verdicts, Resolved, Holders, Cmds
<1>a. agentLedger[c] # "none" => agentLedger'[c] = agentLedger[c]
  BY RecordKept
<1>b. c \in InLedger /\ Resolved(c) /\ outcome[c] = "error" /\ (Dead(c) \/ c \in late)
        => Dead(c)' \/ c \in late'
  <2>1. late \subseteq late' /\ (Dispatch(c) /\ outcome[c] = "error" => c \in late')
    BY LateGrows
  <2> QED BY <2>1, DeadStays DEF Agreed
<1>d. acked \subseteq acked'
  BY AckedGrows DEF Base
<1>c. agentLedger'[c] # "none" => c \in InLedger'
  <2>1. CASE agentLedger'[c] = agentLedger[c]
    BY <2>1, LedgerGrows DEF Agreed, Verdicts
  <2>2. CASE Record
    BY <2>1, <2>2, LedgerGrows DEF Record, WrittenFirst, AgentTypeOK
  <2> QED
    BY <2>1, <2>2
    DEF Next, RequestNext, ChannelNext, AgentNext, LockNext, EnvNext, vars, agentVars, EndSession,
        CheckPlace, CheckUpdate, InsertPlace, InsertUpdate, SubmitCancel, Dispatch,
        GateRefuses, CancelRefused, RequestTimeout, RequestReturns, Login, HealthChanges,
        Detach, ApplyAck, AckHandled, Connect, SessionEnds, AgentRestarts, Latch, RowAcked,
        AlreadyExecuted, RejectUnexecuted, Execute, Pump, TakeLock, ReleaseLock, ApplyDeal,
        ApplyReport, WatchdogCloses, QueryAnswered, QueryResolves, BrokerFills, BrokerEnds,
        Expire, ServerCrashes
<1>1. CASE SameVerdict(c)
  <2>1. via'[c] = "ack" => \/ outcome'[c] = "ok" /\ agentLedger'[c] = "ok"
                           \/ /\ outcome'[c] = "error"
                              /\ agentLedger'[c] \in ExplicitReject \/ Dead(c)' \/ c \in late'
    BY <1>1, <1>a, <1>b DEF SameVerdict, Agreed, Verdicts, Resolved, ExplicitReject
  <2> QED
    BY <1>1, <2>1, <1>a, <1>c, <1>d, LedgerGrows
    DEF SameVerdict, Agreed, Verdicts, Resolved, Holders, Cmds
<1>2. CASE Unresolved(c) /\ ByAck(c)
  <2>1. \/ agentLedger[c] = Head(up).answer /\ Head(up).answer \in Answers
        \/ Head(up).answer \in ExplicitReject /\ Barred(c)
    BY <1>2, AckTells DEF ByAck
  <2>2. Barred(c) => Dead(c)'
    BY <1>2, EmptySeq DEF ByAck, ApplyAck, Barred, Dead, Unsent, NotRunning, Agreed, Linked,
       agentVars, wireVars, envVars
  <2>3. c \in acked'
    BY <1>2 DEF ByAck, ApplyAck
  <2> QED BY <1>2, <2>1, <2>2, <2>3, <1>a, <1>c, LedgerGrows
          DEF ByAck, Unresolved, Answers, ExplicitReject
<1>3. CASE Unresolved(c) /\ ByReport(c)
  BY <1>3, <1>a, <1>c, LedgerGrows
  DEF ByReport, Unresolved, Agreed, Verdicts, Holders, Cmds
<1>4. CASE Unresolved(c) /\ ByQuery(c)
  BY <1>4, <1>a, <1>c, LedgerGrows
  DEF ByQuery, Unresolved, Agreed, Verdicts, Holders, Cmds
<1>5. CASE Unresolved(c) /\ Locally(c)
  BY <1>5, <1>a, <1>c, LedgerGrows DEF Locally, Unresolved
<1> QED BY <1>1, <1>2, <1>3, <1>4, <1>5, VerdictMoves

LEMMA AskedStep == ASSUME Base, Agreed, [Next]_vars PROVE Asked'
<1> USE DEF Base, IInv, TypeOK
<1>1. ASSUME NEW u \in Updates, QueryAnswered(u) PROVE Asked'
  BY <1>1 DEF QueryAnswered, ClosedBy, Asked, dbVars
<1>2. CASE query' = query
  <2> SUFFICES ASSUME query # NoQuery, ~Resolved(query.cmd)' PROVE outcome'[query.cmd] = "unknown"
    BY <1>2 DEF Asked, Resolved
  <2>1. PICK c \in Cmds : c = query.cmd
    BY DEF LinkTypeOK, Cmds
  <2>2. via'[c] = "none"
    BY <1>2, <2>1 DEF Resolved
  <2>3. ~Resolved(c)
    BY <2>2, ResolvedStep DEF StandsStill, Resolved
  <2> QED
    BY <2>1, <2>2, <2>3, VerdictMoves
    DEF SameVerdict, ByAck, ByReport, ByQuery, Locally, Agreed, Asked
<1>3. CASE query' = NoQuery
  BY <1>3 DEF Asked
<1> QED
  BY <1>1, <1>2, <1>3
  DEF Next, RequestNext, ChannelNext, AgentNext, LockNext, EnvNext, vars, chanVars,
      CheckPlace, CheckUpdate, InsertPlace, InsertUpdate, SubmitCancel, Dispatch,
      GateRefuses, CancelRefused, RequestTimeout, RequestReturns, Login, HealthChanges,
      Detach, ApplyAck, AckHandled, Connect, SessionEnds, AgentRestarts, Latch, RowAcked,
      AlreadyExecuted, RejectUnexecuted, Execute, Record, Pump, TakeLock, ReleaseLock, ApplyDeal,
      ApplyReport, WatchdogCloses, QueryResolves, BrokerFills, BrokerEnds,
      Expire, ServerCrashes

LEMMA LinkedStep == ASSUME Base, Agreed, [Next]_vars PROVE Linked'
<1> USE DEF Base, IInv, TypeOK
<1>1. ~sess' => down' = <<>>
  <2>1. CASE ~sess
    BY <2>1
    DEF Agreed, Linked, Next, RequestNext, ChannelNext, AgentNext, LockNext, EnvNext, vars, wireVars,
        agentVars, EndSession, Receiving, Downlink, SendOrWait, Send,
        CheckPlace, CheckUpdate, InsertPlace, InsertUpdate, SubmitCancel, Dispatch,
        GateRefuses, CancelRefused, RequestTimeout, RequestReturns, Login, HealthChanges,
        Detach, ApplyAck, AckHandled, Connect, SessionEnds, AgentRestarts, Latch, RowAcked,
        AlreadyExecuted, RejectUnexecuted, Execute, Record, Pump, TakeLock, ReleaseLock,
        ApplyDeal, ApplyReport, WatchdogCloses, QueryAnswered, QueryResolves, BrokerFills,
        BrokerEnds, Expire, ServerCrashes
  <2>2. CASE sess /\ ~sess'
    BY <2>2
    DEF Next, RequestNext, ChannelNext, AgentNext, LockNext, EnvNext, vars,
        agentVars, EndSession,
        CheckPlace, CheckUpdate, InsertPlace, InsertUpdate, SubmitCancel, Dispatch,
        GateRefuses, CancelRefused, RequestTimeout, RequestReturns, Login, HealthChanges,
        Detach, ApplyAck, AckHandled, Connect, SessionEnds, AgentRestarts, Latch, RowAcked,
        AlreadyExecuted, RejectUnexecuted, Execute, Record, Pump, TakeLock, ReleaseLock,
        ApplyDeal, ApplyReport, WatchdogCloses, QueryAnswered, QueryResolves, BrokerFills,
        BrokerEnds, Expire, ServerCrashes
  <2> QED BY <2>1, <2>2
<1>2. taken' \subseteq InLedger'
  <2>1. taken' \subseteq InLedger
    BY TakenGrows DEF Agreed, Linked
  <2> QED BY <2>1, LedgerGrows
<1>3. ASSUME NEW c \in late' PROVE c \in Cmds /\ outcome'[c] = "error" /\ Resolved(c)'
  <2>1. c \in Cmds /\ outcome[c] = "error"
    BY <1>3, LateGrows DEF Agreed, Linked
  <2>2. Resolved(c)
    BY <2>1 DEF Agreed, Verdicts, Resolved
  <2> QED BY <2>1, <2>2, ResolvedStep DEF StandsStill, Resolved
<1> QED BY <1>1, <1>2, <1>3 DEF Linked

LEMMA AgreedStep == ASSUME Base, Agreed, [Next]_vars PROVE Agreed'
BY LinkedStep, BarredUpStep, FutureStep, VerdictsStep, AskedStep DEF Agreed

LEMMA AgreedInit == ASSUME Init PROVE Agreed
BY EmptySeq DEF Init, Agreed, Linked, Verdicts, Asked, Resolved, Holders, Cmds

-----------------------------------------------------------------------------
(* The contract of a single command: what a step does to its effect, and   *)
(* to its verdict.                                                         *)
Effects == [c \in Cmds |-> Effect(c)]
AllVerdicts == [c \in Cmds |-> Verdict(c)]

Starts(c) ==
  /\ Effect(c) \in {"none", "lost"} /\ Verdict(c) \in {"open", "settled"}
  /\ Effects' = [Effects EXCEPT ![c] = "running"]

Finishes(c) ==
  /\ Effect(c) = "running"
  /\ \E e \in {"ok", "refused", "doubt", "lost"} : Effects' = [Effects EXCEPT ![c] = e]

Judges(c) ==
  /\ Verdict(c) = "open"
  /\ \E v \in {"ok", "error", "unknown"} :
       Contract!Agrees(v, Effect(c)) /\ AllVerdicts' = [AllVerdicts EXCEPT ![c] = v]

Recalled(c) ==
  /\ Verdict(c) = "error"
  /\ AllVerdicts' = [AllVerdicts EXCEPT ![c] = "settled"]

LEMMA EffectSame ==
  ASSUME UNCHANGED <<agentLedger, exec, lost>>
  PROVE  Effects' = Effects
BY DEF Effects, Effect

LEMMA VerdictSame ==
  ASSUME UNCHANGED <<outcome, via, late>>
  PROVE  AllVerdicts' = AllVerdicts
BY DEF AllVerdicts, Verdict

(* A native call starts, for a command that is open or settled.            *)
LEMMA ExecuteStarts ==
  ASSUME Base, Agreed, Execute
  PROVE  \E c \in Cmds : Starts(c) /\ AllVerdicts' = AllVerdicts
<1> USE DEF Base, IInv, TypeOK
<1>1. PICK c \in Cmds : c = Head(down).cmd
  BY HeadDown DEF Execute, Receiving, DownOf, WrittenFirst, LinkTypeOK
<1>2. agentLedger[c] = "none" /\ exec = NoCall /\ ~Dead(c) /\ c # "none"
  BY <1>1, DeadNotRun, IdsAssumption DEF Execute, Recorded, Receiving
<1>3. exec'.cmd = c /\ UNCHANGED <<agentLedger, lost, outcome, via, late>>
  BY <1>1 DEF Execute, dbVars, envVars
<1>4. Effect(c) \in {"none", "lost"}
  BY <1>2 DEF Effect, NoCall
<1>5. Verdict(c) \in {"open", "settled"}
  <2>1. via[c] \in ViaValues
    BY DEF DbTypeOK
  <2>2. via[c] = "none" => outcome[c] = "none"
    BY <1>2 DEF Agreed, Verdicts
  <2>3. via[c] = "ack" => c \in late
    BY <1>2 DEF Agreed, Verdicts, ExplicitReject
  <2> QED BY <2>1, <2>2, <2>3 DEF Verdict, ViaValues
<1>6. Effects' = [Effects EXCEPT ![c] = "running"]
  <2>1. \A d \in Cmds : Effect(d)' = IF d = c THEN "running" ELSE Effect(d)
    BY <1>2, <1>3, IdsAssumption DEF Effect, NoCall
  <2> QED BY <2>1 DEF Effects
<1> QED BY <1>3, <1>4, <1>5, <1>6, VerdictSame DEF Starts

(* It ends with its answer recorded, or with its answer lost.              *)
LEMMA CallFinishes ==
  ASSUME Base, Record \/ EndSession, UNCHANGED <<outcome, via, late>>,
         Record \/ UNCHANGED agentLedger
  PROVE  \/ Effects' = Effects /\ AllVerdicts' = AllVerdicts
         \/ \E c \in Cmds : Finishes(c) /\ AllVerdicts' = AllVerdicts
<1> USE DEF Base, IInv, TypeOK
<1>1. CASE exec = NoCall
  <2>1. EndSession /\ UNCHANGED <<agentLedger, exec, lost>>
    BY <1>1 DEF Record, EndSession, NoCall
  <2> QED BY <2>1, EffectSame, VerdictSame
<1>2. CASE exec # NoCall
  <2>1. PICK c \in Cmds : c = exec.cmd
    BY <1>2 DEF AgentTypeOK
  <2>2. exec.answer \in Answers /\ agentLedger[c] = "none" /\ c # "none" /\ exec' = NoCall
    BY <1>2, <2>1, IdsAssumption DEF AgentTypeOK, Traced, CallsTraced, Record, EndSession
  <2>3. Effect(c) = "running"
    BY <2>1, <2>2 DEF Effect
  <2>4. CASE Record
    <3>1. UNCHANGED lost /\ agentLedger' = [agentLedger EXCEPT ![c] = exec.answer]
      BY <2>1, <2>4 DEF Record, envVars
    <3>2. PICK e \in {"ok", "refused", "doubt"} :
            e = IF exec.answer = "ok" THEN "ok"
                ELSE IF exec.answer = "timeout" THEN "doubt" ELSE "refused"
      OBVIOUS
    <3>3. \A d \in Cmds : Effect(d)' = IF d = c THEN e ELSE Effect(d)
      BY <2>1, <2>2, <3>1, <3>2, IdsAssumption
      DEF Effect, NoCall, AgentTypeOK, Answers, ExplicitReject
    <3>4. Effects' = [Effects EXCEPT ![c] = e]
      BY <3>3 DEF Effects
    <3> QED BY <2>3, <3>4, VerdictSame DEF Finishes
  <2>5. CASE ~Record
    <3>1. UNCHANGED agentLedger /\ lost' = lost \cup {c}
      BY <2>1, <2>2, <2>5 DEF EndSession
    <3>2. \A d \in Cmds : Effect(d)' = IF d = c THEN "lost" ELSE Effect(d)
      BY <2>1, <2>2, <3>1, IdsAssumption DEF Effect, NoCall
    <3>3. Effects' = [Effects EXCEPT ![c] = "lost"]
      BY <3>2 DEF Effects
    <3> QED BY <2>3, <3>3, VerdictSame DEF Finishes
  <2> QED BY <2>4, <2>5
<1> QED BY <1>1, <1>2

(* The first answer to a command is its verdict, and agrees with what the  *)
(* agent has done.                                                         *)
LEMMA AckAnswers ==
  ASSUME Base, Agreed, ApplyAck
  PROVE  /\ Effects' = Effects
         /\ AllVerdicts' = AllVerdicts \/ \E c \in Cmds : Judges(c)
<1> USE DEF Base, IInv, TypeOK
<1>1. PICK c \in InLedger, a \in Answers :
        /\ c = Head(up).cmd /\ a = Head(up).answer
        /\ agentLedger[c] = a \/ (a \in ExplicitReject /\ Barred(c))
  BY AckTells
<1>2. c \in Cmds
  BY LedgerType
<1>3. UNCHANGED <<agentLedger, exec, lost, late>>
  BY DEF ApplyAck, agentVars, envVars
<1>4. CASE AnsweredBefore(c)
  BY <1>1, <1>3, <1>4, EffectSame, VerdictSame DEF ApplyAck
<1>5. CASE ~AnsweredBefore(c)
  <2>1. via[c] = "none" /\ outcome[c] = "none" /\ c \notin late
    BY <1>2, <1>5 DEF AnsweredBefore, Resolved, Agreed, Verdicts, Linked
  <2>2. PICK v \in {"ok", "error", "unknown"} :
          /\ v = IF a = "ok" THEN "ok" ELSE IF a \in ExplicitReject THEN "error" ELSE "unknown"
          /\ outcome' = [outcome EXCEPT ![c] = v]
          /\ via' = [via EXCEPT ![c] = "ack"] \/ (v = "unknown" /\ UNCHANGED via)
    BY <1>1, <1>5 DEF ApplyAck, Resolve, Succeeded, ExplicitReject
  <2>3. \A d \in Cmds : Verdict(d)' = IF d = c THEN v ELSE Verdict(d)
    BY <1>2, <1>3, <2>1, <2>2 DEF Verdict, DbTypeOK
  <2>4. AllVerdicts' = [AllVerdicts EXCEPT ![c] = v]
    BY <2>3 DEF AllVerdicts
  <2>5. Contract!Agrees(v, Effect(c))
    BY <1>1, <2>2 DEF Contract!Agrees, Effect, Barred, NotRunning, Answers, ExplicitReject
  <2>6. Verdict(c) = "open"
    BY <2>1 DEF Verdict
  <2> QED BY <1>2, <1>3, <2>4, <2>5, <2>6, EffectSame DEF Judges
<1> QED BY <1>4, <1>5

(* A request that got the lock sends a command that was closed as failed.  *)
LEMMA DispatchRecalls ==
  ASSUME Base, NEW c \in Cmds, Dispatch(c)
  PROVE  /\ Effects' = Effects
         /\ AllVerdicts' = AllVerdicts \/ Recalled(c)
<1>1. UNCHANGED <<agentLedger, exec, lost, outcome, via>>
  BY DEF Dispatch, agentVars, dbVars
<1>2. late' = late \cup {d \in {c} : outcome[d] = "error"}
  BY DEF Dispatch
<1>3. CASE outcome[c] # "error" \/ Verdict(c) = "settled"
  <2>1. \A d \in Cmds : Verdict(d)' = Verdict(d)
    BY <1>1, <1>2, <1>3 DEF Verdict
  <2> QED BY <1>1, <2>1, EffectSame DEF AllVerdicts
<1>4. CASE outcome[c] = "error" /\ Verdict(c) # "settled"
  <2>1. Verdict(c) = "error"
    BY <1>4 DEF Verdict
  <2>2. \A d \in Cmds : Verdict(d)' = IF d = c THEN "settled" ELSE Verdict(d)
    BY <1>1, <1>2, <1>4 DEF Verdict
  <2>3. AllVerdicts' = [AllVerdicts EXCEPT ![c] = "settled"]
    BY <2>2 DEF AllVerdicts
  <2> QED BY <1>1, <2>1, <2>3, EffectSame DEF Recalled
<1> QED BY <1>3, <1>4

(* Every other step leaves the effects alone and at most settles commands  *)
(* whose outcome is not known.                                             *)
LEMMA OthersSettle ==
  ASSUME Base, Agreed, [Next]_vars, ~Execute, ~Record, ~SessionEnds, ~AgentRestarts, ~ApplyAck,
         \A c \in Cmds : ~Dispatch(c)
  PROVE  /\ Effects' = Effects
         /\ \E C \in SUBSET Cmds :
              /\ \A c \in C : Verdict(c) \in {"open", "unknown"}
              /\ AllVerdicts' = [c \in Cmds |-> IF c \in C THEN "settled" ELSE Verdict(c)]
<1> USE DEF Base, IInv, TypeOK
<1>1. UNCHANGED <<agentLedger, exec, lost>>
  BY DEF Next, RequestNext, ChannelNext, AgentNext, LockNext, EnvNext, vars, agentVars, envVars,
      CheckPlace, CheckUpdate, InsertPlace, InsertUpdate, SubmitCancel, GateRefuses,
      CancelRefused, RequestTimeout, RequestReturns, Login, HealthChanges, Detach,
      AckHandled, Connect, Latch, RowAcked, AlreadyExecuted, RejectUnexecuted, Pump,
      TakeLock, ReleaseLock, ApplyDeal, ApplyReport, WatchdogCloses, QueryAnswered,
      QueryResolves, BrokerFills, BrokerEnds, Expire, ServerCrashes
<1>2. late' = late
  BY LateGrows
<1>3. ASSUME NEW c \in Cmds
      PROVE  \/ Verdict(c)' = Verdict(c)
             \/ Verdict(c) \in {"open", "unknown"} /\ Verdict(c)' = "settled"
  <2>1. CASE SameVerdict(c)
    BY <1>2, <2>1 DEF SameVerdict, Verdict
  <2>2. CASE Unresolved(c) /\ (ByReport(c) \/ ByQuery(c) \/ Locally(c))
    <3>1. via[c] = "none" /\ outcome[c] \in {"none", "unknown"} /\ c \notin late
      BY <2>2 DEF Unresolved, Resolved, Agreed, Verdicts, Linked
    <3> QED BY <2>2, <3>1 DEF ByReport, ByQuery, Locally, Verdict
  <2> QED BY <2>1, <2>2, VerdictMoves DEF ByAck
<1>4. PICK C \in SUBSET Cmds : C = {c \in Cmds : Verdict(c)' # Verdict(c)}
  OBVIOUS
<1>5. AllVerdicts' = [c \in Cmds |-> IF c \in C THEN "settled" ELSE Verdict(c)]
  BY <1>3, <1>4 DEF AllVerdicts
<1>6. \A c \in C : Verdict(c) \in {"open", "unknown"}
  BY <1>3, <1>4
<1> QED BY <1>1, <1>5, <1>6, EffectSame

LEMMA ContractStep ==
  ASSUME Base, Agreed, [Next]_vars
  PROVE  [Contract!Next]_(Contract!vars)
<1> USE DEF Effects, AllVerdicts
<1>1. CASE UNCHANGED <<Effects, AllVerdicts>>
  BY <1>1 DEF Contract!vars
<1>2. ASSUME NEW c \in Cmds, Starts(c), AllVerdicts' = AllVerdicts PROVE Contract!Next
  BY <1>2 DEF Starts, Contract!Next, Contract!Execute
<1>3. ASSUME NEW c \in Cmds, Finishes(c), AllVerdicts' = AllVerdicts PROVE Contract!Next
  BY <1>3 DEF Finishes, Contract!Next, Contract!Finish
<1>4. ASSUME NEW c \in Cmds, Judges(c), Effects' = Effects PROVE Contract!Next
  BY <1>4 DEF Judges, Contract!Next, Contract!Answer
<1>5. ASSUME NEW c \in Cmds, Recalled(c), Effects' = Effects PROVE Contract!Next
  BY <1>5 DEF Recalled, Contract!Next, Contract!SendAfterError
<1>6. ASSUME NEW C \in SUBSET Cmds, \A c \in C : Verdict(c) \in {"open", "unknown"},
             AllVerdicts' = [c \in Cmds |-> IF c \in C THEN "settled" ELSE Verdict(c)],
             Effects' = Effects
      PROVE  Contract!Next
  BY <1>6 DEF Contract!Next, Contract!SettleSome
<1>7. CASE Execute
  BY <1>2, <1>7, ExecuteStarts
<1>8. CASE Record \/ SessionEnds \/ AgentRestarts
  <2>1. (Record \/ EndSession) /\ UNCHANGED <<outcome, via, late>> /\ (Record \/ UNCHANGED agentLedger)
    BY <1>8 DEF Record, SessionEnds, AgentRestarts, dbVars, envVars
  <2> QED BY <1>1, <1>3, <2>1, CallFinishes
<1>9. CASE ApplyAck
  BY <1>1, <1>4, <1>9, AckAnswers
<1>10. CASE \E c \in Cmds : Dispatch(c)
  BY <1>1, <1>5, <1>10, DispatchRecalls
<1> QED BY <1>6, <1>7, <1>8, <1>9, <1>10, OthersSettle

-----------------------------------------------------------------------------
(* What the reservations of an order cover.                                *)
ConfRes(o) == {r \in ResOfOrder(o) : quota[r].state = "confirmed"}
Confirmed(o) == SumOver(QuotaQty, ConfRes(o))
Open(r) == IF quota[r].state = "reserved" THEN quota[r].qty ELSE 0
Cover(o, r) == Confirmed(o) + Open(r)

(* A reservation is made once, and settled once with the quantity it was   *)
(* made for.                                                               *)
RowMoves(r) ==
  \/ quota'[r] = quota[r]
  \/ quota[r].state = "none" /\ quota'[r].state = "reserved"
  \/ /\ quota[r].state = "reserved" /\ quota'[r].state \in {"confirmed", "released"}
     /\ quota'[r].qty = quota[r].qty

LEMMA ReservationsFinite == IsFiniteSet(Reservations)
<1>1. IsFiniteSet(Holders)
  <2>1. Holders \in SUBSET Cmds
    BY DEF Holders, Cmds
  <2> QED BY <2>1, IdsAssumption, FS_Subset
<1> DEFINE f == [c \in Holders |-> ResOf(c)]
<1>2. f \in Surjection(Holders, Reservations)
  BY DEF Surjection, Holders, Reservations
<1> HIDE DEF f
<1> QED BY <1>1, <1>2, FS_Surjection

LEMMA ResOfOrderFinite ==
  ASSUME NEW o, NEW S \in SUBSET ResOfOrder(o)
  PROVE  S \in SUBSET Reservations /\ IsFiniteSet(S)
<1>1. S \in SUBSET Reservations
  BY DEF ResOfOrder
<1> QED BY <1>1, ReservationsFinite, FS_Subset

LEMMA CoverType ==
  ASSUME DbTypeOK, NEW o, NEW r \in Reservations
  PROVE  Confirmed(o) \in Nat /\ Open(r) \in Nat
<1>1. ConfRes(o) \in SUBSET ResOfOrder(o)
  BY DEF ConfRes
<1>2. ConfRes(o) \in SUBSET Reservations /\ IsFiniteSet(ConfRes(o))
  BY <1>1, ResOfOrderFinite
<1>3. \A x \in ConfRes(o) : QuotaQty[x] \in Nat
  BY <1>2 DEF QuotaQty, DbTypeOK
<1>4. Confirmed(o) \in Nat
  BY <1>2, <1>3, SumNat DEF Confirmed
<1>5. Open(r) \in Nat
  BY DEF Open, DbTypeOK
<1> QED BY <1>4, <1>5

LEMMA CoverTypeNext ==
  ASSUME DbTypeOK', NEW o, NEW r \in Reservations
  PROVE  Confirmed(o)' \in Nat /\ Open(r)' \in Nat
<1>1. ConfRes(o)' \in SUBSET ResOfOrder(o)
  BY DEF ConfRes
<1>2. ConfRes(o)' \in SUBSET Reservations /\ IsFiniteSet(ConfRes(o)')
  BY <1>1, ResOfOrderFinite
<1>3. \A x \in ConfRes(o)' : QuotaQty'[x] \in Nat
  BY <1>2 DEF QuotaQty, DbTypeOK
<1>4. Confirmed(o)' \in Nat
  BY <1>2, <1>3, SumNat DEF Confirmed
<1>5. Open(r)' \in Nat
  BY DEF Open, DbTypeOK
<1> QED BY <1>4, <1>5

(* Sums of a larger set of the reservations.                               *)
LEMMA SumWithin ==
  ASSUME DbTypeOK, NEW o, NEW S \in SUBSET ResOfOrder(o), NEW T \in SUBSET S
  PROVE  SumOver(QuotaQty, T) <= SumOver(QuotaQty, S)
<1>1. S \in SUBSET Reservations /\ IsFiniteSet(S)
  BY ResOfOrderFinite
<1>2. \A x \in S : QuotaQty[x] \in Nat
  BY <1>1 DEF QuotaQty, DbTypeOK
<1> QED BY <1>1, <1>2, SumSubset

LEMMA SumAndOne ==
  ASSUME DbTypeOK, NEW o, NEW S \in SUBSET ResOfOrder(o), NEW T \in SUBSET S,
         NEW r \in S \ T
  PROVE  SumOver(QuotaQty, T) + quota[r].qty <= SumOver(QuotaQty, S)
<1>1. T \cup {r} \in SUBSET S /\ T \in SUBSET ResOfOrder(o)
  OBVIOUS
<1>2. T \in SUBSET Reservations /\ IsFiniteSet(T) /\ r \in Reservations
  BY <1>1, ResOfOrderFinite DEF ResOfOrder
<1>3. \A y \in T \cup {r} : QuotaQty[y] \in Int
  BY <1>2 DEF QuotaQty, DbTypeOK
<1>4. SumOver(QuotaQty, T \cup {r}) = SumOver(QuotaQty, T) + QuotaQty[r]
  BY <1>2, <1>3, SumAdd
<1>5. QuotaQty[r] = quota[r].qty
  BY <1>2 DEF QuotaQty
<1>6. SumOver(QuotaQty, T \cup {r}) <= SumOver(QuotaQty, S)
  BY <1>1, SumWithin
<1> QED BY <1>4, <1>5, <1>6

(* What is confirmed stays, and an open reservation that is not given back *)
(* covers on.                                                              *)
LEMMA ConfirmedStays ==
  ASSUME DbTypeOK, DbTypeOK', \A r \in Reservations : RowMoves(r), NEW o
  PROVE  /\ ConfRes(o) \in SUBSET ConfRes(o)'
         /\ SumOver(QuotaQty', ConfRes(o)) = Confirmed(o)
<1>1. ConfRes(o) \in SUBSET ResOfOrder(o)
  BY DEF ConfRes
<1>2. ConfRes(o) \in SUBSET Reservations /\ IsFiniteSet(ConfRes(o))
  BY <1>1, ResOfOrderFinite
<1>3. \A r \in ConfRes(o) : quota'[r] = quota[r]
  BY <1>2 DEF RowMoves, ConfRes
<1>4. ConfRes(o) \in SUBSET ConfRes(o)'
  BY <1>3 DEF ConfRes
<1>5. \A r \in ConfRes(o) : QuotaQty[r] = QuotaQty'[r]
  BY <1>2, <1>3 DEF QuotaQty
<1> QED BY <1>2, <1>4, <1>5, SumEqual DEF Confirmed

LEMMA ConfirmedGrows ==
  ASSUME DbTypeOK, DbTypeOK', \A r \in Reservations : RowMoves(r), NEW o
  PROVE  Confirmed(o) <= Confirmed(o)'
<1>1. ConfRes(o) \in SUBSET ConfRes(o)' /\ SumOver(QuotaQty', ConfRes(o)) = Confirmed(o)
  BY ConfirmedStays
<1>2. ConfRes(o)' \in SUBSET Reservations /\ IsFiniteSet(ConfRes(o)')
      /\ \A r \in ConfRes(o)' : QuotaQty'[r] \in Nat
  <2>1. ConfRes(o)' \in SUBSET ResOfOrder(o)
    BY DEF ConfRes
  <2>2. ConfRes(o)' \in SUBSET Reservations /\ IsFiniteSet(ConfRes(o)')
    BY <2>1, ResOfOrderFinite
  <2> QED BY <2>2 DEF QuotaQty, DbTypeOK
<1>3. SumOver(QuotaQty', ConfRes(o)) <= SumOver(QuotaQty', ConfRes(o)')
  BY <1>1, <1>2, SumSubset
<1>4. Confirmed(o)' = SumOver(QuotaQty', ConfRes(o)')
  BY DEF Confirmed
<1> QED BY <1>1, <1>3, <1>4

LEMMA CoverStays ==
  ASSUME DbTypeOK, DbTypeOK', \A r \in Reservations : RowMoves(r), NEW o,
         NEW r \in ResOfOrder(o), quota'[r].state # "released"
  PROVE  Cover(o, r) <= Cover(o, r)'
<1>1. r \in Reservations /\ RowMoves(r)
  BY DEF ResOfOrder
<1>2. Confirmed(o) \in Nat /\ Open(r) \in Nat /\ Confirmed(o)' \in Nat /\ Open(r)' \in Nat
  BY <1>1, CoverType, CoverTypeNext
<1>3. Confirmed(o) <= Confirmed(o)'
  BY ConfirmedGrows
<1>4. CASE Open(r) <= Open(r)'
  BY <1>2, <1>3, <1>4 DEF Cover
<1>5. CASE quota[r].state = "reserved" /\ quota'[r].state = "confirmed" /\ quota'[r].qty = quota[r].qty
  <2> DEFINE S == ConfRes(o)'
             T == ConfRes(o)
  <2>1. T \in SUBSET S /\ SumOver(QuotaQty', T) = Confirmed(o)
    BY ConfirmedStays
  <2>2. r \in S \ T
    BY <1>5 DEF ConfRes
  <2>3. S \in SUBSET ResOfOrder(o)
    BY DEF ConfRes
  <2>4. S \in SUBSET Reservations /\ IsFiniteSet(S) /\ \A x \in S : QuotaQty'[x] \in Nat
    <3>1. S \in SUBSET Reservations /\ IsFiniteSet(S)
      BY <2>3, ResOfOrderFinite
    <3> QED BY <3>1 DEF QuotaQty, DbTypeOK
  <2>5. Confirmed(o)' = SumOver(QuotaQty', S)
    BY DEF Confirmed
  <2>6. QuotaQty'[r] = quota[r].qty
    BY <1>1, <1>5 DEF QuotaQty
  <2> HIDE DEF S, T
  <2>7. IsFiniteSet(T) /\ T \cup {r} \in SUBSET S
    BY <2>1, <2>2, <2>4, FS_Subset
  <2>8. \A y \in T \cup {r} : QuotaQty'[y] \in Int
    BY <2>4, <2>7
  <2>9. SumOver(QuotaQty', T \cup {r}) = SumOver(QuotaQty', T) + QuotaQty'[r]
    BY <2>2, <2>7, <2>8, SumAdd
  <2>10. SumOver(QuotaQty', T \cup {r}) <= SumOver(QuotaQty', S)
    BY <2>4, <2>7, SumSubset
  <2>11. Open(r) = quota[r].qty /\ Open(r)' = 0
    BY <1>5 DEF Open
  <2> QED BY <1>2, <2>1, <2>5, <2>6, <2>9, <2>10, <2>11 DEF Cover
<1> QED BY <1>1, <1>2, <1>4, <1>5 DEF RowMoves, Open

-----------------------------------------------------------------------------
(* The invariant: how reservations, verdicts, sizes and the broker go      *)
(* together, as long as the order is not excused.                          *)
Reserving ==
  \A r \in Reservations : quota[r].state # "none" =>
    \E d \in Holders : ResOf(d) = r /\ pc[d] # "idle"

GivenBack ==
  \A c \in Holders : pc[c] # "idle" /\ State(c) = "released" /\ ~Excused(Order(c)) =>
     outcome[c] = "error" \/ (c \notin InLedger /\ pc[c] = "done")

Kept ==
  \A c \in Holders : Resolved(c) /\ ~Excused(Order(c)) => State(c) # "reserved"

Backed ==
  \A c \in Holders : pc[c] # "idle" /\ State(c) # "released" /\ ~Excused(Order(c)) =>
    Size(c) <= Cover(Order(c), ResOf(c))

KnownSize ==
  \A o \in Places :
    /\ qty[o] > 0
    /\ ~known[o] => qty[o] = InitQty[o]
    /\ known[o] /\ ~Excused(o) => qty[o] <= Confirmed(o)

SingleFlight ==
  \A u, v \in Updates : Unresolved(u) /\ Unresolved(v) /\ OrderOf[u] = OrderOf[v] => u = v

(* A request that is sent holds the lock, so that nothing is sent while    *)
(* the watchdog asks: only a replay is, of what was open then, and what is *)
(* resolved since has been executed or never will be.                      *)
SentHolds == \A c \in Cmds : pc[c] = "sent" => lock = c

QuietDown ==
  {m \in DownOf(Cmds) : m.type = "cmd" /\ m.cmd \in Updates /\ Resolved(m.cmd) =>
     agentLedger[m.cmd] # "none" \/ Dead(m.cmd)}

Quiet == query # NoQuery => lock = "watchdog" /\ down \in Seq(QuietDown)

QueryFresh ==
  query # NoQuery /\ ~Resolved(query.cmd) /\ query.cmd \notin misled =>
    query.qty \in {0, bQty[OrderOf[query.cmd]]}

AtBroker ==
  \A o \in Places :
    /\ placed[o] = 0 => bQty[o] = InitQty[o]
    /\ placed[o] > 0 /\ ~Excused(o) =>
        \/ bQty[o] <= Confirmed(o)
        \/ \E c \in Holders :
             Order(c) = o /\ Size(c) = bQty[o] /\ c \in taken /\ State(c) # "released"

Covered ==
  /\ Reserving /\ GivenBack /\ Kept /\ Backed /\ KnownSize
  /\ SingleFlight /\ SentHolds /\ Quiet /\ QueryFresh /\ AtBroker

HInv == Base /\ Agreed /\ Covered

-----------------------------------------------------------------------------
(* Holders, their reservations and the invariant at the start.             *)

LEMMA HolderCmd ==
  ASSUME NEW c \in Holders
  PROVE  c \in Cmds /\ ResOf(c) \in Reservations /\ Order(c) \in Places
         /\ ResOf(c) \in ResOfOrder(Order(c))
<1>1. c \in Cmds /\ ResOf(c) \in Reservations
  BY ResReservation DEF Holders, Cmds
<1>2. Order(c) \in Places
  BY <1>1, OrderPlace
<1>3. ResOf(c)[1] = Order(c)
  BY DEF ResOf, PlaceRes, UpdateRes, Order
<1> QED BY <1>1, <1>2, <1>3 DEF ResOfOrder

LEMMA SharedRes ==
  ASSUME NEW c \in Holders, NEW d \in Holders, c # d, ResOf(c) = ResOf(d)
  PROVE  c \in Updates /\ d \in Updates /\ UpdateRes(c) = UpdateRes(d) /\ Order(c) = OrderOf[d]
         /\ Order(c) = OrderOf[c]
BY IdsAssumption, DataAssumption DEF Holders, ResOf, PlaceRes, UpdateRes, Order

LEMMA SharingExcuses ==
  ASSUME NEW c \in Holders, NEW d \in Holders, c # d, ResOf(c) = ResOf(d),
         pc[c] # "idle", pc[d] # "idle"
  PROVE  Excused(Order(c))
BY SharedRes DEF Excused, Sharing

LEMMA LostGrows == ASSUME [Next]_vars PROVE lost \subseteq lost' /\ misled \subseteq misled'
BY DEF Next, RequestNext, ChannelNext, AgentNext, LockNext, EnvNext, vars, envVars, EndSession,
      CheckPlace, CheckUpdate, InsertPlace, InsertUpdate, SubmitCancel, Dispatch,
      GateRefuses, CancelRefused, RequestTimeout, RequestReturns, Login, HealthChanges,
      Detach, ApplyAck, AckHandled, Connect, SessionEnds, AgentRestarts, Latch, RowAcked,
      AlreadyExecuted, RejectUnexecuted, Execute, Record, Pump, TakeLock, ReleaseLock,
      ApplyDeal, ApplyReport, WatchdogCloses, QueryAnswered, QueryResolves, BrokerFills,
      BrokerEnds, Expire, ServerCrashes

LEMMA ExcusedGrows ==
  ASSUME Base, [Next]_vars, NEW o, Excused(o)
  PROVE  Excused(o)'
<1> USE DEF Base, IInv
<1>1. ASSUME NEW c \in Cmds, Order(c) = o,
             c \in lost \cup misled \cup late \/ Raised(c) \/ via[c] = "local"
      PROVE  Excused(o)'
  <2>1. Raised(c) => Raised(c)'
    BY TakenGrows, RecordKept DEF Raised
  <2>2. c \in lost' \cup misled' \cup late' \/ Raised(c)' \/ via'[c] = "local"
    BY <1>1, <2>1, LostGrows, LateGrows, ResolvedStep DEF StandsStill, Resolved
  <2> QED BY <1>1, <2>2 DEF Excused, Order
<1>2. CASE Sharing(o)
  <2>1. \A u \in Updates : pc[u] # "idle" => pc'[u] # "idle"
    BY NotIdleAgain DEF Cmds
  <2>2. Sharing(o)'
    BY <1>2, <2>1 DEF Sharing, UpdateRes
  <2> QED BY <2>2 DEF Excused
<1> QED BY <1>1, <1>2 DEF Excused

LEMMA TakesStep ==
  ASSUME Base, NEW c \in Holders, (CheckPlace(c) /\ c \in Places) \/ (CheckUpdate(c) /\ c \in Updates)
  PROVE  Takes(c)
<1>1. CASE c \in Places /\ CheckPlace(c)
  BY <1>1 DEF CheckPlace, Takes, envVars
<1>2. CASE c \in Updates /\ CheckUpdate(c)
  <2>1. c \notin Places /\ ResOf(c) = UpdateRes(c)
    BY <1>2, IdsAssumption DEF ResOf
  <2>2. NewQty[c] \in Nat /\ qty[OrderOf[c]] \in Nat
    BY <1>2, DataAssumption DEF Base, IInv, TypeOK, DbTypeOK
  <2> QED BY <1>2, <2>1, <2>2 DEF CheckUpdate, Takes, State, envVars
<1> QED BY <1>1, <1>2

(* A request for a place or an update starts with the risk check.          *)
LEMMA StartsWithCheck ==
  ASSUME Base, [Next]_vars, NEW c \in Holders, pc[c] = "idle", pc'[c] # "idle"
  PROVE  Takes(c)
<1> USE DEF Base, IInv, TypeOK, RequestTypeOK
<1>1. c \in Cmds /\ c \notin Cancels
  BY IdsAssumption DEF Holders, Cmds
<1>2. ~UNCHANGED pc
  OBVIOUS
<1>3. ASSUME NEW d \in Cmds, NEW s, pc' = [pc EXCEPT ![d] = s], d # c PROVE FALSE
  BY <1>1, <1>3
<1>4. ASSUME NEW d \in Cmds, SendOrWait(d), d # c PROVE FALSE
  BY <1>3, <1>4 DEF SendOrWait, Send
<1>5. ASSUME NEW o \in Places, InsertPlace(o) PROVE FALSE
  <2>1. o \in Cmds /\ o # c
    BY <1>5, IdsAssumption DEF InsertPlace, LoopHasNoRow, Cmds
  <2> QED BY <1>4, <1>5, <2>1 DEF InsertPlace
<1>6. ASSUME NEW u \in Updates, InsertUpdate(u) PROVE FALSE
  <2>1. u \in Cmds /\ u # c
    BY <1>6, IdsAssumption DEF InsertUpdate, LoopHasNoRow, Cmds
  <2> QED BY <1>3, <1>4, <1>6, <2>1 DEF InsertUpdate
<1>7. ASSUME NEW d \in Cancels, SubmitCancel(d) PROVE FALSE
  BY <1>1, <1>4, <1>7 DEF SubmitCancel, Cmds
<1>8. ASSUME NEW d \in Cmds, Dispatch(d) \/ GateRefuses(d) \/ RequestReturns(d) PROVE FALSE
  BY <1>1, <1>3, <1>8 DEF Dispatch, GateRefuses, RequestReturns, Send
<1>9. ASSUME NEW d \in Cancels, CancelRefused(d) PROVE FALSE
  BY <1>1, <1>3, <1>9 DEF CancelRefused, Cmds
<1>10. ~ServerCrashes
  BY <1>1 DEF ServerCrashes
<1>11. ASSUME NEW o \in Places, CheckPlace(o) PROVE Takes(c)
  <2>1. o = c
    BY <1>1, <1>3, <1>11 DEF CheckPlace, Cmds
  <2>2. Takes(o)
    BY <1>11, TakesStep DEF Holders
  <2> QED BY <2>1, <2>2
<1>12. ASSUME NEW u \in Updates, CheckUpdate(u) PROVE Takes(c)
  <2>1. u = c
    BY <1>1, <1>3, <1>12 DEF CheckUpdate, Cmds
  <2>2. Takes(u)
    BY <1>12, TakesStep DEF Holders
  <2> QED BY <2>1, <2>2
<1> QED
  BY <1>2, <1>5, <1>6, <1>7, <1>8, <1>9, <1>10, <1>11, <1>12
  DEF Next, RequestNext, ChannelNext, AgentNext, LockNext, EnvNext, vars, reqVars,
      RequestTimeout, Login, HealthChanges, Detach, ApplyAck,
      AckHandled, Connect, SessionEnds, AgentRestarts, Latch, RowAcked, AlreadyExecuted,
      RejectUnexecuted, Execute, Record, Pump, TakeLock, ReleaseLock, ApplyDeal,
      ApplyReport, WatchdogCloses, QueryAnswered, QueryResolves, BrokerFills, BrokerEnds,
      Expire

-----------------------------------------------------------------------------
(* How rows, verdicts and reservations move in a step.                     *)

LEMMA RowsStep ==
  ASSUME HInv, [Next]_vars
  PROVE  \A r \in Reservations : RowMoves(r)
<1> USE DEF HInv, Base, IInv, TypeOK, DbTypeOK
<1>1. CASE UNCHANGED quota
  BY <1>1 DEF RowMoves
<1>2. ASSUME NEW c \in Holders, quota' = Confirm(ResOf(c)) \/ quota' = Release(ResOf(c))
      PROVE  \A r \in Reservations : RowMoves(r)
  <2> SUFFICES ASSUME NEW r \in Reservations PROVE RowMoves(r)
    OBVIOUS
  <2>1. CASE quota' = Confirm(ResOf(c))
    BY <2>1, HolderCmd DEF RowMoves, Confirm
  <2>2. CASE quota' = Release(ResOf(c))
    BY <2>2, HolderCmd DEF RowMoves, Release
  <2> QED BY <1>2, <2>1, <2>2
<1>3. ASSUME NEW c \in Holders, NEW n, State(c) = "none", quota' = Reserve(ResOf(c), n)
      PROVE  \A r \in Reservations : RowMoves(r)
  BY <1>3, HolderCmd DEF RowMoves, Reserve, State
<1>4. ASSUME NEW c \in Holders, Takes(c) PROVE \A r \in Reservations : RowMoves(r)
  <2>1. CASE c \in Places
    <3>1. pc[c] = "idle" /\ ResOf(c) = PlaceRes(c) /\ quota' = Reserve(PlaceRes(c), InitQty[c])
      BY <1>4, <2>1 DEF Takes, ResOf
    <3>2. State(c) = "none"
      <4>1. \A d \in Holders : ResOf(d) = ResOf(c) => d = c
        BY <2>1, IdsAssumption, SharedRes
      <4> QED BY <3>1, <4>1, HolderCmd DEF Covered, Reserving, State
    <3> QED BY <1>3, <3>1, <3>2
  <2>2. CASE c \notin Places
    <3>1. ResOf(c) = UpdateRes(c)
      BY <2>2 DEF ResOf
    <3>2. \/ State(c) = "none" /\ \E n \in {NewQty[c] - qty[OrderOf[c]]} : quota' = Reserve(ResOf(c), n)
          \/ UNCHANGED quota
      BY <1>4, <2>2, <3>1 DEF Takes
    <3> QED BY <1>1, <1>3, <3>2
  <2> QED BY <2>1, <2>2
<1>5. ASSUME NEW C \in SUBSET (Cancels \cup Updates), Closes(C)
      PROVE  \A r \in Reservations : RowMoves(r)
  BY <1>5 DEF Closes, CloseAll, Confirm, RowMoves
<1>6. Moves
  BY MovesStep
<1> QED
  BY <1>1, <1>2, <1>4, <1>5, <1>6 DEF Moves, Succeeds, Refused, Doubts, Judged

(* A step that gives back the reservation of an accepted command is a      *)
(* refusal of that command.                                                *)
LEMMA ReleasedBy ==
  ASSUME HInv, [Next]_vars, NEW c \in Holders, pc[c] # "idle",
         State(c) # "released", State(c)' = "released", ~Excused(Order(c))
  PROVE  Refused(c) /\ State(c) = "reserved"
<1> USE DEF HInv, Base, IInv, TypeOK, DbTypeOK
<1>1. ResOf(c) \in Reservations /\ RowMoves(ResOf(c))
  BY HolderCmd, RowsStep
<1>2. State(c) = "reserved"
  BY <1>1 DEF State, RowMoves
<1>3. ~UNCHANGED quota
  BY DEF State
<1>4. ASSUME NEW d \in Holders, Takes(d) PROVE FALSE
  <2>1. \E n, r : quota' = Reserve(r, n)
    BY <1>3, <1>4 DEF Takes
  <2> QED BY <1>1, <1>2, <2>1 DEF Reserve, State
<1>5. ASSUME NEW d \in Holders, Succeeds(d) PROVE FALSE
  BY <1>1, <1>2, <1>5 DEF Succeeds, Confirm, State
<1>6. ASSUME NEW C \in SUBSET (Cancels \cup Updates), Closes(C) PROVE FALSE
  BY <1>1, <1>2, <1>6 DEF Closes, CloseAll, Confirm, State
<1>7. ASSUME NEW d \in Holders, Refused(d) PROVE d = c
  <2>1. quota' = Release(ResOf(d)) /\ pc[d] # "idle"
    BY <1>7 DEF Refused
  <2>2. ResOf(d) = ResOf(c)
    BY <1>1, <1>2, <2>1 DEF Release, State
  <2> QED BY <2>1, <2>2, SharingExcuses
<1>8. Moves
  BY MovesStep
<1>9. \E d \in Holders : Refused(d)
  BY <1>3, <1>4, <1>5, <1>6, <1>8 DEF Moves, Doubts, Judged
<1> QED BY <1>2, <1>7, <1>9

(* Nothing succeeds whose reservation has been given back.                 *)
LEMMA ErrorIsFinal ==
  ASSUME Agreed, NEW c \in Cmds, outcome[c] = "error"
  PROVE  Resolved(c)
BY DEF Agreed, Verdicts, Resolved

LEMMA SucceedsOpen ==
  ASSUME HInv, NEW c \in Holders, Succeeds(c), ~Excused(Order(c))
  PROVE  State(c) # "released" /\ pc[c] # "idle"
<1> USE DEF HInv, Base, IInv
<1>1. c \in Cmds /\ c \in InLedger /\ pc[c] # "idle"
  BY HolderCmd DEF Succeeds, WrittenFirst
<1> SUFFICES ASSUME State(c) = "released" PROVE FALSE
  BY <1>1
<1>2. outcome[c] = "error"
  BY <1>1 DEF Covered, GivenBack
<1>3. Resolved(c)
  BY <1>1, <1>2, ErrorIsFinal
<1>4. agentLedger[c] = "ok"
  BY <1>3 DEF Succeeds, Accepted
<1>5. via[c] # "local" /\ c \notin late
  BY <1>1 DEF Excused
<1>6. via[c] \in ViaValues
  BY <1>1 DEF TypeOK, DbTypeOK
<1> QED
  BY <1>1, <1>2, <1>3, <1>4, <1>5, <1>6
  DEF Agreed, Verdicts, Resolved, ViaValues, Dead, NotRunning, ExplicitReject

(* The agent executes only what is still open.                             *)
LEMMA ExecutesOpen ==
  ASSUME HInv, Execute, NEW c \in Holders, c = Head(down).cmd, ~Excused(Order(c))
  PROVE  Unresolved(c) /\ pc[c] # "idle" /\ State(c) # "released" /\ agentLedger[c] = "none"
<1> USE DEF HInv, Base, IInv, TypeOK
<1>1. c \in InLedger /\ c \in Cmds
  BY HeadDown, HolderCmd DEF Execute, Receiving, WrittenFirst, DownOf
<1>2. agentLedger[c] = "none" /\ ~Dead(c) /\ pc[c] # "idle"
  BY <1>1, DeadNotRun DEF Execute, Recorded, WrittenFirst
<1>3. via[c] # "local" /\ via[c] \in ViaValues /\ c \notin late
  BY <1>1 DEF Excused, DbTypeOK
<1>4. ~Resolved(c)
  BY <1>1, <1>2, <1>3 DEF Agreed, Verdicts, Resolved, ViaValues, ExplicitReject
<1>5. State(c) # "released"
  BY <1>1, <1>2, <1>4, ErrorIsFinal DEF Covered, GivenBack
<1> QED BY <1>1, <1>2, <1>4, <1>5 DEF Unresolved

-----------------------------------------------------------------------------
(* The parts proved above, and single flight, in a step.                   *)

LEMMA HInvNext ==
  ASSUME HInv, [Next]_vars
  PROVE  IInv' /\ Agreed' /\ Traced' /\ LoopHasNoRow'
<1>1. TypeOK' /\ WrittenFirst'
  BY TypeStep, WrittenFirstStep DEF HInv, Base, IInv
<1>2. AckedFirst' /\ Traced' /\ LoopHasNoRow'
  BY AckedFirstStep, TracedStep, LoopStep DEF HInv, Base, IInv
<1>3. Agreed'
  BY AgreedStep DEF HInv
<1> QED BY <1>1, <1>2, <1>3 DEF IInv

LEMMA CloseRows ==
  ASSUME DbTypeOK, NEW C, CloseAll(C), NEW r \in Reservations, quota[r].state = "none"
  PROVE  quota'[r].state = "none"
<1>1. Confirm(r)[r] = [quota[r] EXCEPT !.state = quota[r].state]
  BY DEF Confirm, DbTypeOK
<1>2. Confirm(r)[r].state = "none"
  BY <1>1 DEF DbTypeOK
<1> QED BY <1>2 DEF CloseAll

LEMMA ReservingStep ==
  ASSUME HInv, [Next]_vars
  PROVE  Reserving'
<1> USE DEF HInv, Base, IInv, TypeOK
<1> SUFFICES ASSUME NEW r \in Reservations, quota'[r].state # "none"
             PROVE  \E d \in Holders : ResOf(d) = r /\ pc'[d] # "idle"
  BY DEF Reserving, ResOf, PlaceRes, UpdateRes
<1>1. CASE quota[r].state # "none"
  <2>1. PICK d \in Holders : ResOf(d) = r /\ pc[d] # "idle"
    BY <1>1 DEF Covered, Reserving
  <2> QED BY <2>1, NotIdleAgain, HolderCmd
<1>2. CASE quota[r].state = "none"
  <2>1. ~UNCHANGED quota
    BY <1>2
  <2>2. \A d \in Holders : quota' # Confirm(ResOf(d)) /\ quota' # Release(ResOf(d))
    BY <1>2, HolderCmd DEF Confirm, Release, DbTypeOK
  <2>3. \A C \in SUBSET (Cancels \cup Updates) : ~Closes(C)
    BY <1>2, CloseRows DEF Closes
  <2>4. PICK d \in Holders : Takes(d)
    BY <2>1, <2>2, <2>3, MovesStep DEF Moves, Succeeds, Refused, Doubts, Judged
  <2>5. pc'[d] # "idle"
    BY <2>4, HolderCmd DEF Takes, RequestTypeOK
  <2>6. \E n : quota' = Reserve(ResOf(d), n)
    BY <2>1, <2>4 DEF Takes, ResOf
  <2>7. ResOf(d) = r
    BY <1>2, <2>6 DEF Reserve, DbTypeOK
  <2> QED BY <2>5, <2>7
<1> QED BY <1>1, <1>2

LEMMA TakenState ==
  ASSUME HInv, [Next]_vars, NEW c \in Holders, Takes(c), pc'[c] # "idle", ~Excused(Order(c))'
  PROVE  \/ State(c)' = "reserved"
         \/ State(c) = "none" /\ UNCHANGED quota
<1> USE DEF HInv, Base, IInv, TypeOK
<1>1. ResOf(c) \in Reservations
  BY HolderCmd
<1>2. CASE \E n : quota' = Reserve(ResOf(c), n)
  BY <1>1, <1>2 DEF Reserve, State, DbTypeOK
<1>3. CASE UNCHANGED quota /\ State(c) # "none"
  <2>1. PICK d \in Holders : ResOf(d) = ResOf(c) /\ pc[d] # "idle"
    BY <1>1, <1>3 DEF Covered, Reserving, State
  <2>2. d # c /\ pc'[d] # "idle"
    BY <2>1, NotIdleAgain, HolderCmd DEF Takes
  <2>3. Excused(Order(c))'
    <3>1. c \in Updates /\ d \in Updates /\ UpdateRes(c) = UpdateRes(d)
          /\ Order(c) = OrderOf[d] /\ Order(c) = OrderOf[c]
      BY <2>1, <2>2, SharedRes
    <3> QED BY <2>2, <3>1 DEF Excused, Sharing, UpdateRes, Order
  <2> QED BY <2>3
<1> QED BY <1>2, <1>3 DEF Takes, ResOf

LEMMA GivenBackStep ==
  ASSUME HInv, [Next]_vars
  PROVE  GivenBack'
<1> USE DEF HInv, Base, IInv, TypeOK
<1> SUFFICES ASSUME NEW c \in Holders, pc'[c] # "idle", State(c)' = "released",
                    ~Excused(Order(c))'
             PROVE  outcome'[c] = "error" \/ (c \notin InLedger' /\ pc'[c] = "done")
  BY DEF GivenBack, Order
<1>1. c \in Cmds /\ ResOf(c) \in Reservations /\ ~Excused(Order(c))
  BY HolderCmd, ExcusedGrows
<1>2. CASE pc[c] = "idle"
  <2>1. Takes(c)
    BY <1>2, StartsWithCheck
  <2> QED BY <2>1, TakenState DEF State
<1>3. CASE pc[c] # "idle" /\ State(c) = "released"
  <2>1. CASE outcome[c] = "error"
    BY <1>1, <2>1, ErrorIsFinal, ResolvedStep DEF StandsStill
  <2>2. CASE c \notin InLedger /\ pc[c] = "done"
    <3>1. via[c] = "none"
      BY <1>1, <2>2 DEF Agreed, Verdicts, Resolved
    <3>2. Settled(c)'
      BY <1>1, <2>2, SettledStays DEF Settled
    <3>3. Resolved(c)' => c \in InLedger'
      <4>1. SameVerdict(c)
        BY <1>1, <2>2, VerdictMoves DEF Unresolved
      <4> QED BY <3>1, <4>1 DEF SameVerdict, Resolved
    <3>4. ~Resolved(c)'
      <4>1. SameVerdict(c)
        BY <1>1, <2>2, VerdictMoves DEF Unresolved
      <4> QED BY <3>1, <4>1 DEF SameVerdict, Resolved
    <3> QED BY <3>2, <3>4 DEF Settled
  <2> QED BY <1>1, <1>3, <2>1, <2>2 DEF Covered, GivenBack
<1>4. CASE pc[c] # "idle" /\ State(c) # "released"
  <2>1. Refused(c) /\ State(c) = "reserved"
    BY <1>1, <1>4, ReleasedBy
  <2>2. ~Resolved(c)
    BY <1>1, <2>1 DEF Covered, Kept
  <2>3. CASE \E how : Resolve(c, "error", how)
    BY <1>1, <2>3 DEF Resolve, DbTypeOK
  <2> QED BY <2>1, <2>2, <2>3 DEF Refused
<1> QED BY <1>2, <1>3, <1>4

LEMMA KeptStep ==
  ASSUME HInv, [Next]_vars
  PROVE  Kept'
<1> USE DEF HInv, Base, IInv, TypeOK
<1> SUFFICES ASSUME NEW c \in Holders, via'[c] # "none", State(c)' = "reserved",
                    ~Excused(Order(c))'
             PROVE  FALSE
  BY DEF Kept, Order, Resolved
<1>1. c \in Cmds /\ ResOf(c) \in Reservations /\ ~Excused(Order(c)) /\ RowMoves(ResOf(c))
  BY HolderCmd, ExcusedGrows, RowsStep
<1>2. CASE Resolved(c)
  <2>1. State(c) # "reserved"
    BY <1>1, <1>2 DEF Covered, Kept
  <2>2. State(c) = "none"
    BY <1>1, <2>1 DEF RowMoves, State
  <2>3. \A d \in Holders : quota' # Confirm(ResOf(d)) /\ quota' # Release(ResOf(d))
    BY <1>1, <2>2, HolderCmd DEF Confirm, Release, DbTypeOK, State
  <2>4. \A C \in SUBSET (Cancels \cup Updates) : ~Closes(C)
    BY <1>1, <2>2, CloseRows DEF Closes, State
  <2>5. PICK d \in Holders : Takes(d)
    BY <2>1, <2>3, <2>4, MovesStep DEF Moves, Succeeds, Refused, Doubts, Judged, State
  <2>6. \E n : quota' = Reserve(ResOf(d), n)
    BY <2>1, <2>5 DEF Takes, ResOf, State
  <2>7. ResOf(d) = ResOf(c)
    BY <1>1, <2>1, <2>6 DEF Reserve, DbTypeOK, State
  <2>8. pc[c] # "idle" /\ pc[d] = "idle"
    BY <1>1, <1>2, <2>5 DEF Agreed, Verdicts, WrittenFirst, Takes
  <2>9. pc'[c] # "idle" /\ pc'[d] # "idle"
    BY <1>1, <2>5, <2>8, NotIdleAgain, HolderCmd DEF Takes, RequestTypeOK
  <2>10. c \in Updates /\ d \in Updates /\ UpdateRes(c) = UpdateRes(d)
         /\ Order(c) = OrderOf[d] /\ Order(c) = OrderOf[c]
    BY <2>7, <2>8, SharedRes
  <2> QED BY <2>8, <2>9, <2>10 DEF Excused, Sharing, UpdateRes, Order
<1>3. CASE ~Resolved(c)
  <2>1. via'[c] # via[c]
    BY <1>3 DEF Resolved
  <2>2. ASSUME NEW d \in Holders, Takes(d) PROVE FALSE
    BY <2>1, <2>2 DEF Takes
  <2>3. ASSUME NEW d \in Holders, Succeeds(d) PROVE FALSE
    <3>1. d = c
      BY <1>1, <2>1, <2>3 DEF Succeeds, Accepted, Resolve, DbTypeOK
    <3> QED BY <1>1, <2>3, <3>1 DEF Succeeds, Confirm, State, DbTypeOK
  <2>4. ASSUME NEW d \in Holders, Refused(d) PROVE FALSE
    <3>1. d = c
      BY <1>1, <2>1, <2>4 DEF Refused, Resolve, DbTypeOK
    <3> QED BY <1>1, <2>4, <3>1 DEF Refused, Release, State, DbTypeOK
  <2>5. ASSUME NEW C \in SUBSET (Cancels \cup Updates), Closes(C) PROVE FALSE
    <3>1. c \in C
      BY <1>1, <2>1, <2>5 DEF Closes, CloseAll, DbTypeOK
    <3>2. c \in Updates /\ ResOf(c) = UpdateRes(c)
      BY <3>1, IdsAssumption DEF Holders, ResOf
    <3> QED BY <1>1, <2>5, <3>1, <3>2 DEF Closes, CloseAll, Confirm, State, DbTypeOK
  <2>6. ASSUME NEW d \in Cancels, Judged(d) PROVE FALSE
    BY <1>1, <2>1, <2>6, IdsAssumption DEF Judged, Resolve, DbTypeOK, Holders
  <2> QED BY <2>1, <2>2, <2>3, <2>4, <2>5, <2>6, MovesStep DEF Moves, Doubts
<1> QED BY <1>2, <1>3

-----------------------------------------------------------------------------
(* A confirmed reservation stays backed by what the server knows.          *)

LEMMA BackedStep ==
  ASSUME HInv, [Next]_vars
  PROVE  Backed'
<1> USE DEF HInv, Base, IInv, TypeOK
<1> SUFFICES ASSUME NEW c \in Holders, pc'[c] # "idle", State(c)' # "released",
                    ~Excused(Order(c))'
             PROVE  Size(c) <= Cover(Order(c), ResOf(c))'
  BY DEF Backed, Order, Size, ResOf, PlaceRes, UpdateRes
<1>1. /\ c \in Cmds /\ Order(c) \in Places /\ ~Excused(Order(c)) /\ DbTypeOK'
      /\ ResOf(c) \in Reservations /\ ResOf(c) \in ResOfOrder(Order(c))
  BY HolderCmd, ExcusedGrows, HInvNext
<1>2. \A x \in Reservations : RowMoves(x)
  BY RowsStep
<1>3. Confirmed(Order(c)) <= Confirmed(Order(c))'
  BY <1>1, <1>2, ConfirmedGrows
<1>4. Confirmed(Order(c)) \in Nat /\ Confirmed(Order(c))' \in Nat /\ Open(ResOf(c))' \in Nat
  BY <1>1, CoverType, CoverTypeNext
<1>5. Size(c) \in Nat
  BY DataAssumption DEF Size, Holders
<1>6. CASE pc[c] = "idle"
  <2>1. Takes(c)
    BY <1>6, StartsWithCheck
  <2>2. CASE c \in Places
    <3>1. quota' = Reserve(ResOf(c), InitQty[c]) /\ Size(c) = InitQty[c]
      BY <2>1, <2>2 DEF Takes, ResOf, Size
    <3>2. Open(ResOf(c))' = InitQty[c]
      BY <1>1, <3>1 DEF Reserve, Open, DbTypeOK
    <3> QED BY <1>4, <1>5, <3>1, <3>2 DEF Cover
  <2>3. CASE c \notin Places
    <3>1. c \in Updates /\ ResOf(c) = UpdateRes(c) /\ Size(c) = NewQty[c] /\ Order(c) = OrderOf[c]
      BY <2>3 DEF Holders, ResOf, Size, Order
    <3>2. known[Order(c)] /\ qty[Order(c)] \in Nat /\ qty[Order(c)] <= Confirmed(Order(c))
      BY <1>1, <2>1, <2>3, <3>1 DEF Takes, Covered, KnownSize, DbTypeOK
    <3>3. CASE quota' = Reserve(ResOf(c), NewQty[c] - qty[Order(c)])
      <4>1. Open(ResOf(c))' = NewQty[c] - qty[Order(c)]
        BY <1>1, <3>3 DEF Reserve, Open, DbTypeOK
      <4> QED BY <1>3, <1>4, <1>5, <3>1, <3>2, <4>1 DEF Cover
    <3>4. CASE NewQty[c] <= qty[Order(c)]
      BY <1>3, <1>4, <1>5, <3>1, <3>2, <3>4 DEF Cover
    <3>5. CASE UNCHANGED quota /\ Active(ResOf(c))
      <4>1. State(c) # "none"
        BY <3>5 DEF Active, State
      <4>2. PICK d \in Holders : ResOf(d) = ResOf(c) /\ pc[d] # "idle"
        BY <1>1, <4>1 DEF Covered, Reserving, State
      <4>3. d # c /\ pc'[d] # "idle"
        BY <1>6, <4>2, NotIdleAgain, HolderCmd
      <4>4. c \in Updates /\ d \in Updates /\ UpdateRes(c) = UpdateRes(d)
            /\ Order(c) = OrderOf[d] /\ Order(c) = OrderOf[c]
        BY <4>2, <4>3, SharedRes
      <4> QED BY <4>3, <4>4 DEF Excused, Sharing, UpdateRes, Order
    <3> QED BY <2>1, <2>3, <3>1, <3>3, <3>4, <3>5 DEF Takes
  <2> QED BY <2>2, <2>3
<1>7. CASE pc[c] # "idle"
  <2>1. State(c) # "released"
    BY <1>1, <1>2 DEF State, RowMoves
  <2>2. Size(c) <= Cover(Order(c), ResOf(c))
    BY <1>1, <1>7, <2>1 DEF Covered, Backed
  <2>3. Cover(Order(c), ResOf(c)) <= Cover(Order(c), ResOf(c))'
    BY <1>1, <1>2, CoverStays DEF State
  <2>4. Cover(Order(c), ResOf(c)) \in Nat /\ Cover(Order(c), ResOf(c))' \in Nat
    <3>1. Open(ResOf(c)) \in Nat
      BY <1>1, CoverType
    <3> QED BY <1>4, <3>1 DEF Cover
  <2> QED BY <1>5, <2>2, <2>3, <2>4
<1> QED BY <1>6, <1>7

(* A command that has succeeded is covered by what is confirmed.           *)
LEMMA SucceededCover ==
  ASSUME HInv, [Next]_vars, NEW c \in Holders, Succeeds(c), ~Excused(Order(c))'
  PROVE  Size(c) <= Confirmed(Order(c))'
<1> USE DEF HInv, Base, IInv, TypeOK
<1>1. c \in Cmds /\ ResOf(c) \in Reservations /\ ResOf(c) \in ResOfOrder(Order(c))
      /\ ~Excused(Order(c))
  BY HolderCmd, ExcusedGrows
<1>2. State(c) # "released" /\ pc[c] # "idle"
  BY <1>1, SucceedsOpen
<1>3. State(c)' \notin {"released", "reserved"}
  BY <1>1, <1>2 DEF Succeeds, Confirm, State, DbTypeOK
<1>4. pc'[c] # "idle"
  BY <1>1, <1>2, NotIdleAgain
<1>5. Size(c) <= Cover(Order(c), ResOf(c))'
  BY <1>3, <1>4, BackedStep DEF Backed, Order, Size, ResOf, PlaceRes, UpdateRes
<1>6. Open(ResOf(c))' = 0
  BY <1>3 DEF Open, State
<1>7. Confirmed(Order(c))' \in Nat
  BY <1>1, HInvNext, CoverTypeNext
<1> QED BY <1>5, <1>6, <1>7 DEF Cover

-----------------------------------------------------------------------------
(* The size the server knows stays covered.                                *)

LEMMA KnownSizeStep ==
  ASSUME HInv, [Next]_vars
  PROVE  KnownSize'
<1> USE DEF HInv, Base, IInv, TypeOK
<1> SUFFICES ASSUME NEW o \in Places
             PROVE  /\ qty'[o] > 0
                    /\ ~known'[o] => qty'[o] = InitQty[o]
                    /\ known'[o] /\ ~Excused(o)' => qty'[o] <= Confirmed(o)'
  BY DEF KnownSize
<1>1. /\ qty[o] > 0 /\ qty[o] \in Nat
      /\ ~known[o] => qty[o] = InitQty[o]
      /\ known[o] /\ ~Excused(o) => qty[o] <= Confirmed(o)
  BY DEF Covered, KnownSize, DbTypeOK
<1>2. known[o] => known'[o]
  BY KnownGrows
<1>3. Excused(o) => Excused(o)'
  BY ExcusedGrows
<1>4. Confirmed(o) <= Confirmed(o)' /\ Confirmed(o) \in Nat /\ Confirmed(o)' \in Nat
  <2>1. PlaceRes(o) \in Reservations
    BY ResReservation DEF ResOf
  <2> QED BY <2>1, HInvNext, RowsStep, ConfirmedGrows, CoverType, CoverTypeNext
<1>5. CASE qty'[o] = qty[o] /\ known'[o] = known[o]
  BY <1>1, <1>2, <1>3, <1>4, <1>5
<1>6. ASSUME NEW c \in Holders, Succeeds(c)
      PROVE  /\ qty'[o] > 0
             /\ ~known'[o] => qty'[o] = InitQty[o]
             /\ known'[o] /\ ~Excused(o)' => qty'[o] <= Confirmed(o)'
  <2>1. CASE Order(c) # o
    BY <1>5, <1>6, <2>1 DEF Succeeds, Order, Holders, DbTypeOK
  <2>2. CASE Order(c) = o /\ c \in Places
    <3>1. c = o /\ UNCHANGED qty /\ known'[o]
      BY <1>6, <2>2 DEF Succeeds, Order, DbTypeOK
    <3>2. CASE known[o]
      BY <1>5, <3>1, <3>2
    <3>3. CASE ~known[o]
      <4>1. qty'[o] = InitQty[o] /\ Size(c) = InitQty[o]
        BY <1>1, <3>1, <3>3 DEF Size
      <4>2. ~Excused(o)' => Size(c) <= Confirmed(o)'
        BY <1>6, <2>2, SucceededCover
      <4> QED BY <1>1, <3>1, <4>1, <4>2
    <3> QED BY <3>2, <3>3
  <2>3. CASE Order(c) = o /\ c \notin Places
    <3>1. c \in Updates /\ o = OrderOf[c] /\ UNCHANGED known /\ qty'[o] = NewQty[c]
          /\ Size(c) = NewQty[c]
      BY <1>6, <2>3 DEF Succeeds, Order, DbTypeOK, Holders, Size
    <3>2. known[o]
      BY <1>6, <3>1, HolderCmd DEF Succeeds, WrittenFirst
    <3>3. NewQty[c] > 0
      BY <3>1, DataAssumption
    <3>4. ~Excused(o)' => Size(c) <= Confirmed(o)'
      BY <1>6, <2>3, SucceededCover
    <3> QED BY <3>1, <3>2, <3>3, <3>4
  <2> QED BY <2>1, <2>2, <2>3
<1>7. CASE UNCHANGED <<qty, known>>
  BY <1>5, <1>7
<1> QED BY <1>6, <1>7, MovesStep DEF Moves, Takes, Refused, Closes, Doubts, Judged

(* The partial unique index: one unresolved update per order.              *)
LEMMA LedgerMoves ==
  ASSUME Base, [Next]_vars
  PROVE  \/ InLedger' = InLedger
         \/ \E c \in Cmds :
              InLedger' = InLedger \cup {c} /\ (c \in Updates => UnresolvedUpdates(OrderOf[c]) = {})
<1> USE DEF Base, IInv, TypeOK
<1>1. CASE UNCHANGED ledger
  BY <1>1, LedgerSame
<1>2. ASSUME NEW d \in Cmds, SendOrWait(d) PROVE InLedger' = InLedger \cup {d}
  BY <1>2, LedgerAppend DEF SendOrWait
<1>3. ASSUME NEW o \in Places, InsertPlace(o)
      PROVE  \E c \in Cmds : InLedger' = InLedger \cup {c} /\ c \notin Updates
  BY <1>2, <1>3, IdsAssumption DEF InsertPlace, Cmds
<1>4. ASSUME NEW d \in Cancels, SubmitCancel(d)
      PROVE  \E c \in Cmds : InLedger' = InLedger \cup {c} /\ c \notin Updates
  BY <1>2, <1>4, IdsAssumption DEF SubmitCancel, Cmds
<1>5. ASSUME NEW u \in Updates, InsertUpdate(u)
      PROVE  \/ InLedger' = InLedger
             \/ InLedger' = InLedger \cup {u} /\ UnresolvedUpdates(OrderOf[u]) = {}
  <2>1. CASE UnresolvedUpdates(OrderOf[u]) = {} /\ SendOrWait(u)
    <3>1. u \in Cmds
      BY DEF Cmds
    <3> QED BY <1>2, <2>1, <3>1
  <2>2. CASE UNCHANGED ledger
    BY <2>2, LedgerSame
  <2> QED BY <1>5, <2>1, <2>2 DEF InsertUpdate
<1> QED
  BY <1>1, <1>3, <1>4, <1>5
  DEF Next, RequestNext, ChannelNext, AgentNext, LockNext, EnvNext, vars, dbVars, Cmds,
      CheckPlace, CheckUpdate, Dispatch, GateRefuses, CancelRefused, RequestTimeout,
      RequestReturns, Login, HealthChanges, Detach, ApplyAck, AckHandled, Connect,
      SessionEnds, AgentRestarts, Latch, RowAcked, AlreadyExecuted, RejectUnexecuted,
      Execute, Record, Pump, TakeLock, ReleaseLock, ApplyDeal, ApplyReport, WatchdogCloses,
      QueryAnswered, QueryResolves, BrokerFills, BrokerEnds, Expire, ServerCrashes

LEMMA SingleFlightStep ==
  ASSUME HInv, [Next]_vars
  PROVE  SingleFlight'
<1> USE DEF HInv, Base, IInv, TypeOK
<1> SUFFICES ASSUME NEW u \in Updates, NEW v \in Updates, Unresolved(u)', Unresolved(v)',
                    OrderOf[u] = OrderOf[v]
             PROVE  u = v
  BY DEF SingleFlight
<1>1. ~Resolved(u) /\ ~Resolved(v)
  BY ResolvedStep DEF StandsStill, Resolved, Unresolved, Cmds
<1>2. CASE u \in InLedger /\ v \in InLedger
  BY <1>1, <1>2 DEF Covered, SingleFlight, Unresolved
<1>3. ASSUME NEW c \in Updates, InLedger' = InLedger \cup {c}, UnresolvedUpdates(OrderOf[c]) = {}
      PROVE  u = v
  BY <1>1, <1>2, <1>3 DEF Unresolved, UnresolvedUpdates
<1>4. CASE u \in InLedger' /\ v \in InLedger'
  BY <1>2, <1>3, <1>4, LedgerMoves
<1> QED BY <1>4 DEF Unresolved

-----------------------------------------------------------------------------
(* Only a command that is executed moves what the broker holds.            *)
LEMMA BrokerMoves ==
  ASSUME HInv, [Next]_vars, NEW o \in Places
  PROVE  \/ placed'[o] = placed[o] /\ bQty'[o] = bQty[o]
         \/ \E c \in Holders :
              /\ Execute /\ c = Head(down).cmd /\ Order(c) = o
              /\ c \in taken'
              /\ placed[o] > 0 \/ c \in Places
              /\ bQty'[o] = IF c \in Places THEN bQty[o] ELSE NewQty[c]
<1> USE DEF HInv, Base, IInv, TypeOK
<1>1. CASE Execute
  <2>1. PICK c \in Cmds : c = Head(down).cmd
    BY <1>1, HeadDown DEF Execute, Receiving, DownOf, WrittenFirst, LinkTypeOK
  <2>2. (BrokerTakes(c) /\ c \in taken') \/ UNCHANGED <<placed, bQty>>
    BY <1>1, <2>1 DEF Execute
  <2>3. CASE UNCHANGED <<placed, bQty>>
    BY <2>3
  <2>4. CASE BrokerTakes(c) /\ c \in taken'
    <3>1. CASE c \in Places
      <4>1. UNCHANGED bQty /\ (c = o \/ placed'[o] = placed[o])
        BY <2>4, <3>1, IdsAssumption DEF BrokerTakes, WorldTypeOK
      <4> QED BY <1>1, <2>1, <2>4, <3>1, <4>1 DEF Holders, Order
    <3>2. CASE c \in Updates
      <4>1. UNCHANGED placed /\ placed[OrderOf[c]] > 0 /\ OrderOf[c] \in Places
            /\ bQty' = [bQty EXCEPT ![OrderOf[c]] = NewQty[c]]
        BY <2>4, <3>2, IdsAssumption, DataAssumption DEF BrokerTakes, Live
      <4>2. c \notin Places /\ Order(c) = OrderOf[c] /\ c \in Holders
        BY <3>2, IdsAssumption DEF Order, Holders
      <4>3. CASE o = OrderOf[c]
        <5>1. bQty'[o] = NewQty[c] /\ placed[o] > 0
          BY <4>1, <4>3 DEF WorldTypeOK
        <5> QED BY <1>1, <2>1, <2>4, <4>2, <4>3, <5>1
      <4>4. CASE o # OrderOf[c]
        BY <4>1, <4>4 DEF WorldTypeOK
      <4> QED BY <4>3, <4>4
    <3>3. CASE c \in Cancels
      BY <2>4, <3>3, IdsAssumption DEF BrokerTakes
    <3> QED BY <3>1, <3>2, <3>3 DEF Cmds
  <2> QED BY <2>2, <2>3, <2>4
<1>2. CASE UNCHANGED <<placed, bQty>>
  BY <1>2
<1> QED
  BY <1>1, <1>2
  DEF Next, RequestNext, ChannelNext, AgentNext, LockNext, EnvNext, vars, brokerVars,
      CheckPlace, CheckUpdate, InsertPlace, InsertUpdate, SubmitCancel, Dispatch, GateRefuses,
      CancelRefused, RequestTimeout, RequestReturns, Login, HealthChanges, Detach, ApplyAck,
      AckHandled, Connect, SessionEnds, AgentRestarts, Latch, RowAcked, AlreadyExecuted,
      RejectUnexecuted, Record, Pump, TakeLock, ReleaseLock, ApplyDeal, ApplyReport,
      WatchdogCloses, QueryAnswered, QueryResolves, BrokerFills, BrokerEnds, Expire,
      ServerCrashes

LEMMA SentHoldsStep ==
  ASSUME HInv, [Next]_vars
  PROVE  SentHolds'
<1> USE DEF HInv, Base, IInv, TypeOK, RequestTypeOK
<1> SUFFICES ASSUME NEW c \in Cmds, pc'[c] = "sent" PROVE lock' = c
  BY DEF SentHolds
<1>a. c \notin {"none", "worker", "watchdog"}
  BY IdsAssumption
<1>b. pc[c] = "sent" => lock = c
  BY DEF Covered, SentHolds
<1>2. CASE lock = "none" /\ pc' = pc
  BY <1>a, <1>b, <1>2
<1>3. ASSUME NEW d \in Cmds, NEW s, s # "sent", pc' = [pc EXCEPT ![d] = s], lock' = lock
      PROVE  lock' = c
  BY <1>b, <1>3
<1>4. ASSUME NEW d \in Cmds, lock = "none", Send(d) PROVE lock' = c
  BY <1>a, <1>b, <1>4 DEF Send
<1>5. ASSUME NEW d \in Cmds, SendOrWait(d) PROVE lock' = c
  BY <1>3, <1>4, <1>5 DEF SendOrWait, LockFree
<1>6. ASSUME NEW u \in Updates, InsertUpdate(u) PROVE lock' = c
  BY <1>3, <1>5, <1>6 DEF InsertUpdate, Cmds
<1>7. ASSUME NEW d \in Cmds, RequestReturns(d) PROVE lock' = c
  <2>1. pc[d] = "sent" /\ lock = d
    BY <1>7 DEF RequestReturns, Covered, SentHolds
  <2> QED BY <1>b, <1>7, <2>1 DEF RequestReturns
<1>8. CASE ReleaseLock
  BY <1>a, <1>b, <1>8 DEF ReleaseLock
<1>9. CASE ServerCrashes
  BY <1>9 DEF ServerCrashes
<1>10. CASE UNCHANGED <<pc, lock>>
  BY <1>b, <1>10
<1>11. ASSUME NEW o \in Places, CheckPlace(o) \/ InsertPlace(o) PROVE lock' = c
  <2>1. CASE CheckPlace(o)
    BY <1>3, <2>1 DEF CheckPlace, Cmds
  <2>2. CASE InsertPlace(o)
    BY <1>5, <2>2 DEF InsertPlace, Cmds
  <2> QED BY <1>11, <2>1, <2>2
<1>12. ASSUME NEW u \in Updates, CheckUpdate(u) PROVE lock' = c
  BY <1>3, <1>12 DEF CheckUpdate, Cmds
<1>13. ASSUME NEW d \in Cancels, SubmitCancel(d) \/ CancelRefused(d) PROVE lock' = c
  <2>1. CASE SubmitCancel(d)
    BY <1>5, <2>1 DEF SubmitCancel, Cmds
  <2>2. CASE CancelRefused(d)
    BY <1>3, <2>2 DEF CancelRefused, Cmds
  <2> QED BY <1>13, <2>1, <2>2
<1>14. ASSUME NEW d \in Cmds, Dispatch(d) \/ GateRefuses(d) \/ RequestTimeout(d) PROVE lock' = c
  <2>1. CASE Dispatch(d)
    BY <1>4, <2>1 DEF Dispatch
  <2>2. CASE GateRefuses(d)
    BY <1>3, <2>2 DEF GateRefuses
  <2>3. CASE RequestTimeout(d)
    BY <1>10, <2>3 DEF RequestTimeout
  <2> QED BY <1>14, <2>1, <2>2, <2>3
<1>15. CASE RequestNext
  BY <1>6, <1>7, <1>11, <1>12, <1>13, <1>14, <1>15 DEF RequestNext
<1>16. ASSUME NEW w, TakeLock(w) PROVE lock' = c
  BY <1>2, <1>16 DEF TakeLock
<1>17. CASE ChannelNext \/ AgentNext
  BY <1>10, <1>17
  DEF ChannelNext, AgentNext, reqVars, Login, HealthChanges, Detach, ApplyAck, AckHandled,
      Connect, SessionEnds, AgentRestarts, Latch, RowAcked, AlreadyExecuted, RejectUnexecuted,
      Execute, Record, Pump
<1>18. CASE LockNext
  BY <1>8, <1>10, <1>16, <1>18
  DEF LockNext, reqVars, ApplyDeal, ApplyReport, WatchdogCloses, QueryAnswered, QueryResolves
<1>19. CASE EnvNext
  BY <1>9, <1>10, <1>19 DEF EnvNext, reqVars, BrokerFills, BrokerEnds, Expire
<1>20. CASE UNCHANGED vars
  BY <1>10, <1>20 DEF vars, reqVars
<1> QED
  BY <1>15, <1>17, <1>18, <1>19, <1>20 DEF Next

(* While the watchdog asks, an update is resolved by an acknowledgement    *)
(* or a report only: it has been recorded, or will not be executed.        *)
LEMMA QuietDownGrows ==
  ASSUME HInv, [Next]_vars, Agreed', lock = "watchdog"
  PROVE  QuietDown \subseteq QuietDown'
<1> USE DEF HInv, Base, IInv, TypeOK
<1> SUFFICES ASSUME NEW m \in DownOf(Cmds), m.type = "cmd", m.cmd \in Updates, Resolved(m.cmd)',
                    Resolved(m.cmd) => agentLedger[m.cmd] # "none" \/ Dead(m.cmd)
             PROVE  agentLedger'[m.cmd] # "none" \/ Dead(m.cmd)'
  BY DEF QuietDown, Dead, NotRunning, Unsent, Without, Resolved
<1>1. PICK c \in Cmds : c = m.cmd
  BY DEF DownOf
<1>2. via'[c] # "none" /\ c \in Holders /\ ~Dispatch(c)
  BY <1>1 DEF Resolved, Holders, Dispatch
<1>3. agentLedger'[c] # "none" \/ Dead(c)'
  <2>1. CASE Resolved(c)
    <3>1. c \in InLedger /\ Linked
      BY <2>1 DEF Agreed, Verdicts
    <3> QED BY <1>1, <1>2, <2>1, <3>1, RecordKept, DeadStays
  <2>2. CASE ~Resolved(c)
    <3>1. ByAck(c) \/ ByReport(c) \/ ByQuery(c)
      BY <1>2, <2>2, VerdictMoves DEF SameVerdict, Locally, Resolved
    <3>2. c \notin late'
      BY <1>2, <2>2, LateGrows DEF Agreed, Linked
    <3> QED
      BY <1>2, <3>1, <3>2 DEF ByAck, ByReport, ByQuery, Agreed, Verdicts, ExplicitReject
  <2> QED BY <2>1, <2>2
<1> QED BY <1>1, <1>3 DEF Dead, NotRunning, Unsent, Without

LEMMA QuietReplay ==
  ASSUME DbTypeOK, NEW rows \in ReplayRows
  PROVE  [i \in DOMAIN rows |-> Message("cmd", rows[i])] \in Seq(QuietDown)
<1> DEFINE open == {c \in InLedger : c \notin acked /\ ~Resolved(c)}
           n == Cardinality(open)
           sent == [i \in DOMAIN rows |-> Message("cmd", rows[i])]
<1>1. open \subseteq Cmds /\ n \in Nat
  <2>1. open \subseteq Cmds
    BY LedgerType
  <2> QED BY <2>1, IdsAssumption, FS_Subset, FS_CardinalityType
<1>2. rows \in [1..n -> open]
  BY DEF ReplayRows
<1>3. \A c \in open : Message("cmd", c) \in QuietDown
  BY <1>1 DEF Message, DownOf, QuietDown
<1>4. sent \in [1..n -> QuietDown]
  BY <1>2, <1>3
<1> QED BY <1>1, <1>4, SeqDef

LEMMA QuietStep ==
  ASSUME HInv, [Next]_vars
  PROVE  Quiet'
<1> USE DEF HInv, Base, IInv, TypeOK
<1>a. CASE query' = NoQuery
  BY <1>a DEF Quiet
<1>b. ASSUME NEW u \in Updates, QueryAnswered(u) PROVE Quiet'
  <2>1. lock' = "watchdog" /\ down' = <<>>
    BY <1>b DEF QueryAnswered, reqVars, wireVars
  <2> QED BY <2>1, EmptySeq DEF Quiet
<1>c. ASSUME query' = query, query # NoQuery PROVE lock' = "watchdog" /\ down' \in Seq(QuietDown')
  <2>1. lock = "watchdog" /\ down \in Seq(QuietDown)
    BY <1>c DEF Covered, Quiet
  <2>2. \A s \in Seq(QuietDown) : s \in Seq(QuietDown')
    BY <2>1, QuietDownGrows, HInvNext, SeqMonotonic
  <2>3. lock' = "watchdog"
    <3>1. ASSUME NEW d \in Cmds, SendOrWait(d) PROVE lock' = lock
      BY <2>1, <3>1 DEF SendOrWait, LockFree
    <3>2. ASSUME NEW d \in Cmds, RequestReturns(d) PROVE FALSE
      BY <2>1, <3>2, IdsAssumption DEF RequestReturns, Covered, SentHolds
    <3>3. ASSUME NEW u \in Updates, InsertUpdate(u) PROVE lock' = lock
      BY <3>1, <3>3 DEF InsertUpdate, Cmds
    <3>4. ~ServerCrashes
      BY <1>c DEF ServerCrashes
    <3> QED
      BY <1>c, <2>1, <3>1, <3>2, <3>3, <3>4
      DEF Next, RequestNext, ChannelNext, AgentNext, LockNext, EnvNext, vars, reqVars, Cmds,
          CheckPlace, CheckUpdate, InsertPlace, SubmitCancel, Dispatch, GateRefuses,
          CancelRefused, RequestTimeout, Login, HealthChanges, Detach, ApplyAck, AckHandled,
          Connect, SessionEnds, AgentRestarts, Latch, RowAcked, AlreadyExecuted,
          RejectUnexecuted, Execute, Record, Pump, TakeLock, ReleaseLock, ApplyDeal,
          ApplyReport, WatchdogCloses, QueryAnswered, QueryResolves, BrokerFills, BrokerEnds,
          Expire
  <2>4. down' \in Seq(QuietDown')
    <3>1. CASE down' \in {down, <<>>}
      BY <2>1, <2>2, <3>1, EmptySeq
    <3>2. CASE down # <<>> /\ down' = Tail(down)
      <4>1. Tail(down) \in Seq(QuietDown)
        BY <2>1, <3>2, HeadAndTail
      <4> QED BY <2>2, <3>2, <4>1
    <3>3. CASE AckHandled
      <4>1. PICK c \in Cmds : c = Head(up).cmd
        BY <3>3, HeadUp, LedgerType DEF AckHandled, LinkTypeOK, UpOf
      <4>2. Message("ack", c) \in QuietDown
        BY DEF Message, QuietDown, DownOf
      <4>3. down' \in {down, Append(down, Message("ack", c))}
        BY <3>3, <4>1 DEF AckHandled, Downlink
      <4> QED BY <2>1, <2>2, <4>2, <4>3
    <3>4. CASE Login
      <4>1. PICK rows \in ReplayRows :
              down' = IF sess THEN down \o [i \in DOMAIN rows |-> Message("cmd", rows[i])] ELSE down
        BY <3>4 DEF Login
      <4> DEFINE sent == [i \in DOMAIN rows |-> Message("cmd", rows[i])]
      <4>2. sent \in Seq(QuietDown)
        BY QuietReplay
      <4> HIDE DEF sent
      <4>3. down \o sent \in Seq(QuietDown)
        BY <2>1, <4>2, ConcatProperties
      <4> QED BY <2>1, <2>2, <4>1, <4>3 DEF sent
    <3>5. ASSUME NEW d \in Cmds, SendOrWait(d) PROVE down' = down
      BY <2>1, <3>5 DEF SendOrWait, LockFree
    <3>6. ASSUME NEW u \in Updates, InsertUpdate(u) PROVE down' = down
      BY <3>5, <3>6 DEF InsertUpdate, Cmds
    <3> QED
      BY <2>1, <3>1, <3>2, <3>3, <3>4, <3>5, <3>6
      DEF Next, RequestNext, ChannelNext, AgentNext, LockNext, EnvNext, vars, wireVars, Cmds,
          EndSession, Receiving,
          CheckPlace, CheckUpdate, InsertPlace, SubmitCancel, Dispatch, GateRefuses,
          CancelRefused, RequestTimeout, RequestReturns, HealthChanges, Detach, ApplyAck,
          Connect, SessionEnds, AgentRestarts, Latch, RowAcked, AlreadyExecuted,
          RejectUnexecuted, Execute, Record, Pump, TakeLock, ReleaseLock, ApplyDeal,
          ApplyReport, WatchdogCloses, QueryAnswered, QueryResolves, BrokerFills, BrokerEnds,
          Expire, ServerCrashes
  <2> QED BY <2>3, <2>4
<1>d. CASE query' = query
  BY <1>a, <1>c, <1>d DEF Quiet
<1> QED
  BY <1>a, <1>b, <1>d
  DEF Next, RequestNext, ChannelNext, AgentNext, LockNext, EnvNext, vars, chanVars,
      CheckPlace, CheckUpdate, InsertPlace, InsertUpdate, SubmitCancel, Dispatch,
      GateRefuses, CancelRefused, RequestTimeout, RequestReturns, Login, HealthChanges,
      Detach, ApplyAck, AckHandled, Connect, SessionEnds, AgentRestarts, Latch, RowAcked,
      AlreadyExecuted, RejectUnexecuted, Execute, Record, Pump, TakeLock, ReleaseLock, ApplyDeal,
      ApplyReport, WatchdogCloses, QueryResolves, BrokerFills, BrokerEnds,
      Expire, ServerCrashes

LEMMA QueryFreshStep ==
  ASSUME HInv, [Next]_vars
  PROVE  QueryFresh'
<1> USE DEF HInv, Base, IInv, TypeOK
<1>1. ASSUME NEW u \in Updates, QueryAnswered(u) PROVE QueryFresh'
  BY <1>1 DEF QueryAnswered, QueryFresh, brokerVars
<1>2. CASE query' = NoQuery
  BY <1>2 DEF QueryFresh
<1>3. CASE query' = query
  <2> SUFFICES ASSUME query # NoQuery, ~Resolved(query.cmd)', query.cmd \notin misled'
               PROVE  query.qty \in {0, bQty'[OrderOf[query.cmd]]}
    BY <1>3 DEF QueryFresh, Resolved
  <2>1. PICK u \in Updates : u = query.cmd
    BY DEF LinkTypeOK
  <2>2. u \in Cmds /\ u \in Holders /\ u \in InLedger /\ OrderOf[u] \in Places
    BY <2>1, DataAssumption DEF WrittenFirst, Cmds, Holders
  <2>3. via'[u] = "none"
    BY <1>3, <2>1 DEF Resolved
  <2>4. ~Resolved(u)
    BY <2>2, <2>3, ResolvedStep DEF StandsStill, Resolved
  <2>5. query.qty \in {0, bQty[OrderOf[u]]}
    BY <2>1, <2>4, LostGrows DEF Covered, QueryFresh
  <2>6. bQty'[OrderOf[u]] = bQty[OrderOf[u]]
    <3> SUFFICES ASSUME bQty'[OrderOf[u]] # bQty[OrderOf[u]] PROVE FALSE
      OBVIOUS
    <3>1. PICK c \in Holders : Execute /\ c = Head(down).cmd /\ Order(c) = OrderOf[u] /\ c \notin Places
      BY <2>2, BrokerMoves
    <3>2. c \in Updates /\ OrderOf[c] = OrderOf[u]
      BY <3>1 DEF Holders, Order
    <3>3. down # <<>> /\ Head(down).type = "cmd" /\ agentLedger[c] = "none" /\ ~Dead(c)
      BY <3>1, HolderCmd, DeadNotRun DEF Execute, Receiving, Recorded
    <3>4. Head(down) \in QuietDown /\ c \in InLedger
      <4>1. down \in Seq(QuietDown) /\ down \in Seq(DownOf(InLedger))
        BY DEF Covered, Quiet, WrittenFirst
      <4>2. Head(down) \in QuietDown
        BY <3>3, <4>1, HeadAndTail
      <4>3. Head(down) \in DownOf(InLedger)
        BY <3>3, <4>1, HeadAndTail
      <4> QED BY <3>1, <4>2, <4>3 DEF DownOf
    <3>5. ~Resolved(c)
      BY <3>1, <3>2, <3>3, <3>4 DEF QuietDown
    <3>6. c = u
      BY <2>2, <2>4, <3>2, <3>4, <3>5 DEF Covered, SingleFlight, Unresolved
    <3>7. agentLedger[u] = "timeout"
      BY <2>1, <2>2, <2>4 DEF Agreed, Asked, Verdicts
    <3> QED BY <3>3, <3>6, <3>7
  <2> QED BY <2>1, <2>5, <2>6
<1> QED
  BY <1>1, <1>2, <1>3
  DEF Next, RequestNext, ChannelNext, AgentNext, LockNext, EnvNext, vars, chanVars,
      CheckPlace, CheckUpdate, InsertPlace, InsertUpdate, SubmitCancel, Dispatch,
      GateRefuses, CancelRefused, RequestTimeout, RequestReturns, Login, HealthChanges,
      Detach, ApplyAck, AckHandled, Connect, SessionEnds, AgentRestarts, Latch, RowAcked,
      AlreadyExecuted, RejectUnexecuted, Execute, Record, Pump, TakeLock, ReleaseLock, ApplyDeal,
      ApplyReport, WatchdogCloses, QueryResolves, BrokerFills, BrokerEnds,
      Expire, ServerCrashes

(* A reservation that is given back while its command may have had its     *)
(* effect was not needed: the broker's size is one the server knows.       *)
LEMMA WhyReleased ==
  ASSUME HInv, [Next]_vars, NEW c \in Holders, Refused(c), State(c) = "reserved",
         c \in taken, ~Excused(Order(c))'
  PROVE  bQty[Order(c)] <= Confirmed(Order(c))
<1> USE DEF HInv, Base, IInv, TypeOK
<1>1. c \in Cmds /\ Order(c) \in Places /\ ~Excused(Order(c))
  BY HolderCmd, ExcusedGrows
<1>2. c \in InLedger
  BY DEF Agreed, Linked
<1>3. ~Resolved(c) /\ c \in InLedger'
  BY <1>1, <1>2, LedgerGrows DEF Covered, Kept
<1>4. PICK how \in {"ack", "local", "query_qty"} :
        /\ Resolve(c, "error", how)
        /\ how = "query_qty" => query # NoQuery /\ query.cmd = c /\ query.qty = qty[OrderOf[c]]
  BY <1>3 DEF Refused
<1>5. via'[c] = how /\ outcome'[c] = "error"
  BY <1>1, <1>4 DEF Resolve, DbTypeOK
<1>6. how # "local" /\ c \notin lost' \cup misled' \cup late' /\ ~Raised(c)'
  BY <1>1, <1>5 DEF Excused, Order
<1>7. how # "ack"
  <2>1. c \in taken'
    BY TakenGrows
  <2>2. CallsTraced' /\ TakenAnswered' /\ Verdicts'
    BY HInvNext DEF Agreed, Traced
  <2>3. how = "ack" => agentLedger'[c] \in ExplicitReject \/ Dead(c)'
    BY <1>1, <1>5, <1>6, <2>2 DEF Verdicts
  <2>4. agentLedger'[c] \in MayBeTaken \/ exec'.cmd = c
    BY <1>6, <2>1, <2>2 DEF TakenAnswered
  <2>5. agentLedger'[c] \notin ExplicitReject
    BY <1>1, <1>6, <2>1, <2>2, <2>4, IdsAssumption
    DEF Raised, CallsTraced, MayBeTaken, ExplicitReject, NoCall
  <2>6. ~Dead(c)'
    BY <2>4 DEF Dead, NotRunning, MayBeTaken
  <2> QED BY <2>3, <2>5, <2>6
<1>8. query # NoQuery /\ query.cmd = c /\ query.qty = qty[OrderOf[c]] /\ c \in Updates
  BY <1>4, <1>6, <1>7 DEF LinkTypeOK
<1>9. Order(c) = OrderOf[c] /\ known[OrderOf[c]]
  BY <1>1, <1>2, <1>8, IdsAssumption DEF Order, WrittenFirst
<1>10. qty[OrderOf[c]] > 0 /\ qty[OrderOf[c]] <= Confirmed(OrderOf[c])
  BY <1>1, <1>9 DEF Covered, KnownSize
<1>11. query.qty \in {0, bQty[OrderOf[c]]}
  BY <1>1, <1>3, <1>6, <1>8, <1>9, LostGrows DEF Covered, QueryFresh
<1> QED BY <1>8, <1>9, <1>10, <1>11

-----------------------------------------------------------------------------
(* The size the broker has stays covered.                                  *)

LEMMA AtBrokerStep ==
  ASSUME HInv, [Next]_vars
  PROVE  AtBroker'
<1> USE DEF HInv, Base, IInv, TypeOK
<1> SUFFICES ASSUME NEW o \in Places
             PROVE  /\ placed'[o] = 0 => bQty'[o] = InitQty[o]
                    /\ placed'[o] > 0 /\ ~Excused(o)' =>
                        \/ bQty'[o] <= Confirmed(o)'
                        \/ \E c \in Holders :
                             Order(c) = o /\ Size(c) = bQty'[o] /\ c \in taken'
                               /\ State(c)' # "released"
  BY DEF AtBroker, Order, Size
<1>1. placed[o] = 0 => bQty[o] = InitQty[o]
  BY DEF Covered, AtBroker
<1>2. Excused(o) => Excused(o)'
  BY ExcusedGrows
<1>3. placed[o] \in Nat /\ bQty[o] \in Nat
  BY DEF WorldTypeOK
<1>4. Confirmed(o) <= Confirmed(o)' /\ Confirmed(o) \in Nat /\ Confirmed(o)' \in Nat
  <2>1. PlaceRes(o) \in Reservations
    BY ResReservation DEF ResOf
  <2> QED BY <2>1, HInvNext, RowsStep, ConfirmedGrows, CoverType, CoverTypeNext
<1>5. ASSUME placed[o] > 0, ~Excused(o)', bQty'[o] = bQty[o]
      PROVE  \/ bQty'[o] <= Confirmed(o)'
             \/ \E c \in Holders :
                  Order(c) = o /\ Size(c) = bQty'[o] /\ c \in taken' /\ State(c)' # "released"
  <2>1. CASE bQty[o] <= Confirmed(o)
    BY <1>3, <1>4, <1>5, <2>1
  <2>2. ASSUME NEW c \in Holders, Order(c) = o, Size(c) = bQty[o], c \in taken,
               State(c) # "released"
        PROVE  bQty[o] <= Confirmed(o) \/ (c \in taken' /\ State(c)' # "released")
    <3>1. c \in Cmds
      BY HolderCmd
    <3>3. c \in taken'
      BY <2>2, TakenGrows
    <3>4. pc[c] # "idle"
      BY <2>2, <3>1 DEF Agreed, Linked, WrittenFirst
    <3>5. CASE State(c)' = "released"
      <4>1. Refused(c) /\ State(c) = "reserved"
        BY <1>2, <1>5, <2>2, <3>4, <3>5, ReleasedBy
      <4>2. bQty[Order(c)] <= Confirmed(Order(c))
        BY <1>5, <2>2, <4>1, WhyReleased
      <4> QED BY <2>2, <4>2
    <3> QED BY <3>3, <3>5
  <2> QED BY <1>2, <1>5, <2>1, <2>2 DEF Covered, AtBroker
<1>6. CASE placed'[o] = placed[o] /\ bQty'[o] = bQty[o]
  BY <1>1, <1>5, <1>6
<1>7. ASSUME NEW c \in Holders, Execute, c = Head(down).cmd, Order(c) = o,
             c \in taken', placed[o] > 0 \/ c \in Places,
             bQty'[o] = IF c \in Places THEN bQty[o] ELSE NewQty[c]
      PROVE  /\ placed'[o] = 0 => bQty'[o] = InitQty[o]
             /\ placed'[o] > 0 /\ ~Excused(o)' =>
                 \/ bQty'[o] <= Confirmed(o)'
                 \/ \E d \in Holders :
                      Order(d) = o /\ Size(d) = bQty'[o] /\ d \in taken' /\ State(d)' # "released"
  <2>1. c \in taken'
    BY <1>7
  <2>2. ~Excused(o)' => State(c)' # "released"
    <3>1. ~Excused(o)' => State(c) # "released"
      BY <1>2, <1>7, ExecutesOpen
    <3>2. UNCHANGED quota
      BY <1>7 DEF Execute, dbVars
    <3> QED BY <3>1, <3>2 DEF State
  <2>3. placed'[o] = 0 => placed[o] = 0 /\ c \in Places
    BY <1>3, <1>7 DEF Execute, BrokerTakes, WorldTypeOK
  <2>4. CASE c \notin Places
    BY <1>7, <2>1, <2>2, <2>3, <2>4 DEF Size
  <2>5. CASE c \in Places
    <3>1. bQty'[o] = bQty[o]
      BY <1>7, <2>5
    <3>2. CASE placed[o] > 0
      BY <1>3, <1>5, <2>3, <3>1, <3>2
    <3>3. CASE placed[o] = 0
      <4>1. bQty'[o] = InitQty[o] /\ Size(c) = InitQty[o]
        BY <1>1, <1>7, <2>5, <3>1, <3>3 DEF Size, Order
      <4> QED BY <1>7, <2>1, <2>2, <4>1
    <3> QED BY <1>3, <3>2, <3>3
  <2> QED BY <2>4, <2>5
<1> QED BY <1>6, <1>7, BrokerMoves

LEMMA CoveredStep == ASSUME HInv, [Next]_vars PROVE Covered'
BY ReservingStep, GivenBackStep, KeptStep, BackedStep, KnownSizeStep, SingleFlightStep,
   SentHoldsStep, QuietStep, QueryFreshStep, AtBrokerStep DEF Covered

LEMMA CoveredInit == ASSUME Init PROVE Covered
<1> USE DEF Init
<1>1. \A r \in Reservations : quota[r].state = "none"
  OBVIOUS
<1>2. Reserving
  BY <1>1 DEF Reserving
<1>3. \A c \in Holders : pc[c] = "idle" /\ ~Resolved(c)
  BY HolderCmd DEF Resolved
<1>4. GivenBack /\ Kept /\ Backed
  BY <1>3 DEF GivenBack, Kept, Backed
<1>5. KnownSize
  BY DataAssumption DEF KnownSize
<1>6. SingleFlight
  <2>1. InLedger = {}
    BY DEF InLedger
  <2> QED BY <2>1 DEF SingleFlight, Unresolved
<1>7. SentHolds /\ Quiet /\ QueryFresh /\ AtBroker
  BY DEF SentHolds, Quiet, QueryFresh, AtBroker
<1> QED BY <1>2, <1>4, <1>5, <1>6, <1>7 DEF Covered

(* Whatever size the broker holds of an order is covered by what is        *)
(* confirmed, and what is reserved besides.                                *)
LEMMA CoveredHeld == ASSUME HInv PROVE QuotaHeld
<1> USE DEF HInv, Base, IInv, TypeOK
<1> SUFFICES ASSUME NEW o \in Places, placed[o] > 0, ~Excused(o) PROVE Held(o) >= bQty[o]
  BY DEF QuotaHeld
<1> DEFINE S == {r \in ResOfOrder(o) : Active(r)}
<1>1. S \in SUBSET ResOfOrder(o) /\ ConfRes(o) \in SUBSET S /\ Held(o) = SumOver(QuotaQty, S)
  BY DEF ConfRes, Active, Held
<1>2. PlaceRes(o) \in Reservations
  BY ResReservation DEF ResOf
<1>3. Confirmed(o) \in Nat /\ bQty[o] \in Nat
  BY <1>2, CoverType DEF WorldTypeOK
<1>4. Held(o) \in Nat
  <2>1. S \in SUBSET Reservations /\ IsFiniteSet(S)
    BY <1>1, ResOfOrderFinite
  <2>2. \A r \in S : QuotaQty[r] \in Nat
    BY <2>1 DEF QuotaQty, DbTypeOK
  <2> QED BY <1>1, <2>1, <2>2, SumNat
<1>5. Confirmed(o) <= Held(o)
  BY <1>1, SumWithin DEF Confirmed
<1>6. CASE bQty[o] <= Confirmed(o)
  BY <1>3, <1>4, <1>5, <1>6
<1>7. ASSUME NEW c \in Holders, Order(c) = o, Size(c) = bQty[o], c \in taken, State(c) # "released"
      PROVE  Held(o) >= bQty[o]
  <2>1. pc[c] # "idle"
    BY <1>7, HolderCmd DEF Agreed, Linked, WrittenFirst
  <2>2. bQty[o] <= Cover(o, ResOf(c))
    BY <1>7, <2>1 DEF Covered, Backed
  <2>3. CASE State(c) = "reserved"
    <3>1. ResOf(c) \in S \ ConfRes(o)
      BY <1>7, <2>3, HolderCmd DEF State, ConfRes, Active
    <3>2. SumOver(QuotaQty, ConfRes(o)) + quota[ResOf(c)].qty <= SumOver(QuotaQty, S)
      BY <1>1, <3>1, SumAndOne
    <3>3. Open(ResOf(c)) = quota[ResOf(c)].qty /\ quota[ResOf(c)].qty \in Nat
      BY <2>3, HolderCmd DEF Open, State, DbTypeOK
    <3> QED BY <1>1, <1>3, <1>4, <2>2, <3>2, <3>3 DEF Cover, Confirmed
  <2>4. CASE State(c) # "reserved"
    <3>1. Open(ResOf(c)) = 0
      BY <2>4 DEF Open, State
    <3> QED BY <1>3, <1>4, <1>5, <2>2, <3>1 DEF Cover
  <2> QED BY <2>3, <2>4
<1> QED BY <1>6, <1>7 DEF Covered, AtBroker

-----------------------------------------------------------------------------
(* The theorems.                                                           *)

LEMMA Inductive == Spec => [](IInv /\ Traced /\ Believed /\ LoopHasNoRow /\ Freed)
<1>1. Init => IInv /\ Traced /\ Believed /\ LoopHasNoRow /\ Freed
  BY TypeInit, WrittenFirstInit, AckedFirstInit, TracedInit, BelievedInit, FreedInit DEF IInv
<1>2. IInv /\ Traced /\ Believed /\ LoopHasNoRow /\ Freed /\ [Next]_vars
        => (IInv /\ Traced /\ Believed /\ LoopHasNoRow /\ Freed)'
  <2> SUFFICES ASSUME IInv, Traced, Believed, LoopHasNoRow, Freed, [Next]_vars
               PROVE  (IInv /\ Traced /\ Believed /\ LoopHasNoRow /\ Freed)'
    OBVIOUS
  <2>1. TypeOK' /\ WrittenFirst'
    BY TypeStep, WrittenFirstStep DEF IInv
  <2>2. AckedFirst' /\ Traced' /\ Believed'
    BY AckedFirstStep, TracedStep, BelievedStep DEF IInv
  <2>3. LoopHasNoRow' /\ Freed'
    BY LoopStep, FreedStep
  <2> QED BY <2>1, <2>2, <2>3 DEF IInv
<1> QED BY <1>1, <1>2, PTL DEF Spec

(* Type correctness: every row, request, message and recorded answer of    *)
(* the command path keeps its shape in every interleaving; in particular a *)
(* request is only ever answered with a kind its caller knows.             *)
THEOREM TypeCorrect == Spec => []TypeOK
<1>1. IInv => TypeOK
  BY DEF IInv
<1> QED BY <1>1, Inductive, PTL

(* No replay, no duplicate on the wire and no late request re-executes a   *)
(* command whose answer the agent has recorded (_execute_mutating_command  *)
(* looks the command up before it calls the broker).                       *)
THEOREM NoReExecution == Spec => []ReExecutedOnlyIfLost
<1>1. Traced => ReExecutedOnlyIfLost
  BY DEF Traced
<1> QED BY <1>1, Inductive, PTL

(* What the server believes to have succeeded the agent has recorded as    *)
(* succeeded (apply_command_ack takes "ok" from record_execution's row).   *)
THEOREM SuccessIsRecorded == Spec => []OkIsRecorded
<1>1. Believed => OkIsRecorded
  BY DEF Believed
<1> QED BY <1>1, Inductive, PTL

(* A command whose fate is open keeps its quota, unless an update of the   *)
(* same order to the same content, which shares the reservation, was       *)
(* settled before it (check_update accepts an active reservation; the      *)
(* refusal of either releases it).  A place shares with nobody.            *)
THEOREM OpenCommandsKeepTheirQuota == Spec => []OpenKeepsOwnQuota
<1>1. IInv /\ Freed => OpenKeepsOwnQuota
  <2> SUFFICES ASSUME IInv, Freed, NEW c \in Places \cup Updates, Unresolved(c),
                      quota[ResOf(c)].state = "released"
               PROVE  \E d \in Updates \ {c} : ResOf(d) = ResOf(c) /\ Settled(d)
    BY DEF OpenKeepsOwnQuota
  <2>1. PICK d \in Places \cup Updates : ResOf(d) = ResOf(c) /\ Settled(d)
    BY ResReservation DEF Freed
  <2>2. d # c
    BY <2>1 DEF Settled, Unresolved
  <2>3. d \in Places \/ c \in Places => d = c
    BY <2>1, IdsAssumption, DataAssumption DEF ResOf, PlaceRes, UpdateRes
  <2> QED BY <2>1, <2>2, <2>3
<1> QED BY <1>1, Inductive, PTL

LEMMA QuotaInductive == Spec => []HInv
<1>1. Init => HInv
  BY TypeInit, WrittenFirstInit, AckedFirstInit, TracedInit, BelievedInit, FreedInit,
     AgreedInit, CoveredInit DEF IInv, Base, HInv
<1>2. HInv /\ [Next]_vars => HInv'
  <2> SUFFICES ASSUME HInv, [Next]_vars PROVE HInv'
    OBVIOUS
  <2>2. IInv' /\ Agreed' /\ Traced' /\ LoopHasNoRow'
    BY HInvNext
  <2>3. Believed'
    BY BelievedStep DEF HInv, Base, IInv
  <2>4. Covered'
    BY CoveredStep
  <2> QED BY <2>2, <2>3, <2>4 DEF HInv, Base
<1> QED BY <1>1, <1>2, PTL DEF Spec

(* Exposure is never underestimated: what the broker holds or has executed *)
(* of an order is covered by reservations that are not released, whichever *)
(* of timeout, replay, late answer, report and query settles it            *)
(* (apply_command_ack, apply_order_report, resolve_update_via_query_qty,   *)
(* RiskGuard.check_place and check_update).  The six exceptions are the    *)
(* ones QuotaHeld names, each the fate of a command of that very order;    *)
(* nothing is assumed of the broker, its list, the latch or the clock.     *)
THEOREM QuotaIsHeld == Spec => []QuotaHeld
<1>1. HInv => QuotaHeld
  BY CoveredHeld
<1> QED BY <1>1, QuotaInductive, PTL

(* When query_qty settles an update, it settles it as the broker has it    *)
(* (resolve_update_via_query_qty), although the answer is used after other *)
(* threads, a login and its replay have run: an answer that was right when *)
(* the agent gave it is right when it is applied.                          *)
THEOREM QueriesAreRight == Spec => QueryRight
<1>1. HInv /\ [Next]_vars =>
        [\A u \in Updates \ misled : ~Resolved(u) /\ via'[u] = "query_qty" =>
           (outcome'[u] = "ok" <=> bQty[OrderOf[u]] = NewQty[u])]_vars
  <2> SUFFICES ASSUME HInv, [Next]_vars, NEW u \in Updates \ misled, ~Resolved(u),
                      via'[u] = "query_qty"
               PROVE  outcome'[u] = "ok" <=> bQty[OrderOf[u]] = NewQty[u]
    OBVIOUS
  <2>1. ByQuery(u)
    BY VerdictMoves DEF HInv, SameVerdict, ByAck, ByReport, Locally, Resolved, Cmds
  <2>2. query.qty \in {0, bQty[OrderOf[u]]}
    BY <2>1 DEF ByQuery, HInv, Covered, QueryFresh
  <2>3. qty[OrderOf[u]] > 0 /\ NewQty[u] > 0
    BY DataAssumption DEF HInv, Covered, KnownSize
  <2> QED BY <2>1, <2>2, <2>3 DEF ByQuery
<1> QED BY <1>1, QuotaInductive, PTL DEF Spec, QueryRight

(* The whole command path, with its sessions, replays, duplicates, crashes *)
(* and threads, keeps the contract of a single command: it is not executed *)
(* once its answer is recorded or it has been answered, its verdict agrees *)
(* with what the agent recorded, and no verdict of ok or error is revised  *)
(* (_execute_mutating_command, apply_command_ack); a refusal that the      *)
(* request itself overrules by sending late is the contract's own step.    *)
THEOREM ContractIsKept == Spec => ImplementsContract
<1>1. Init => Contract!Init
  BY IdsAssumption DEF Init, Contract!Init, Effect, Verdict, NoCall
<1>2. HInv /\ [Next]_vars => [Contract!Next]_(Contract!vars)
  BY ContractStep DEF HInv
<1> QED BY <1>1, <1>2, QuotaInductive, PTL DEF Spec, ImplementsContract, Contract!Spec

(* Of the acknowledgement, the local failure, the report and the query,    *)
(* only the first verdict takes effect: resolved_via is written once       *)
(* (agent_commands._cas_resolve and the applier's early returns).          *)
THEOREM FirstVerdictStands == Spec => ResolvedStays
<1>1. IInv /\ [Next]_vars =>
        [\A c \in Cmds : Resolved(c) => via'[c] = via[c] /\ outcome'[c] = outcome[c]]_vars
  BY ResolvedStep DEF IInv, StandsStill
<1> QED BY <1>1, Inductive, PTL DEF Spec, ResolvedStays

(* Late reports, replayed acknowledgements, fills, cancels and queries     *)
(* never move an order out of cancelled, failed or filled: only the write- *)
(* back of its own place request (set_order_ack) can.                      *)
THEOREM FinalStatusKept == Spec => FinalLeftOnlyByPlace
<1>1. IInv /\ [Next]_vars =>
        [\A o \in Places : status[o] \in FinalStatuses /\ status'[o] # status[o] =>
           pc[o] = "sent" /\ pc'[o] = "done"]_vars
  BY StatusStep DEF GoodStatus
<1> QED BY <1>1, Inductive, PTL DEF Spec, FinalLeftOnlyByPlace
=============================================================================
