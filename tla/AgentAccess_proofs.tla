------------------------- MODULE AgentAccess_proofs --------------------------
(***************************************************************************)
(* What holds of AgentAccess for every set of users, accounts and          *)
(* connections and any number of restarts: types, one owner per account,   *)
(* that the newest connection's session is its own, that a login is clean  *)
(* when it takes effect, and that a shut-out agent stays out.              *)
(***************************************************************************)
EXTENDS AgentAccess, TLAPS

ConnType == [at : Phases, account : Accounts \cup {None},
             report : Accounts \cup {None}, closing : BOOLEAN]
SlotType == [current : Conns \cup {None}, connected : BOOLEAN, logged : BOOLEAN,
             healthy : BOOLEAN, account : Accounts \cup {None}]

-----------------------------------------------------------------------------
(* The lock is a queue.                                                    *)
LEMMA Appended ==
  ASSUME NEW s \in Seq(Conns), NEW c \in Conns
  PROVE  /\ Append(s, c) \in Seq(Conns) /\ Len(Append(s, c)) = Len(s) + 1
         /\ \A i \in 1..Len(s) : Append(s, c)[i] = s[i]
         /\ Append(s, c)[Len(s) + 1] = c
OBVIOUS

LEMMA Dropped ==
  ASSUME NEW s \in Seq(Conns), s # <<>>
  PROVE  /\ Tail(s) \in Seq(Conns) /\ Len(Tail(s)) = Len(s) - 1 /\ Len(s) >= 1
         /\ \A i \in 1..Len(s) - 1 : Tail(s)[i] = s[i + 1]
         /\ Head(s) = s[1] /\ s[1] \in Conns
OBVIOUS

LEMMA NoneWaits == <<>> \in Seq(Conns) /\ Len(<<>>) = 0
OBVIOUS

LEMMA EmptyIfShort == ASSUME NEW s \in Seq(Conns) PROVE s = <<>> <=> Len(s) = 0
OBVIOUS

-----------------------------------------------------------------------------
(* Types, and that whatever stamps an account has one.                     *)

Stamps(d) == /\ d.at \in Holding \cup {"in"} => d.account \in Accounts
             /\ d.at = "reporting" => d.report \in Accounts

ConnTyped == conn \in [Conns -> ConnType] /\ \A c \in Conns : Stamps(conn[c])
SlotTyped ==
  /\ slot \in [Users -> SlotType] /\ recon \in [Users -> {"idle", "asked", "got"}]
  /\ \A u \in Users : slot[u].logged \/ recon[u] # "idle" => slot[u].account \in Accounts
LockTyped == lock \in [Users -> Seq(Conns)]
DataTyped ==
  /\ bound \in [Accounts -> Users \cup {None}] /\ claim \in [Accounts -> Users \cup {None}]
  /\ orders \subseteq Accounts \X Users /\ risky \subseteq Accounts \X Users
  /\ rows \subseteq Accounts \X Users \X {"report", "reconcile"}
  /\ cooldown \in [Users -> {"none", "window", "firm"}]
  /\ gate \subseteq Users /\ slipped \subseteq Conns /\ crashes \in 0..MaxCrashes

Typed == ConnTyped /\ SlotTyped /\ LockTyped /\ DataTyped

(* A connected slot has a connection, and that is the user's.              *)
Known == \A u \in Users : /\ slot[u].connected => slot[u].current # None
                          /\ slot[u].current # None => UserOf[slot[u].current] = u

LEMMA TypedTypes == Typed => TypeOK
BY DEF Typed, ConnTyped, SlotTyped, LockTyped, DataTyped, TypeOK, ConnType, SlotType

LEMMA PhasesAre ==
  /\ Phases = {"away", "authed", "passed", "open", "in", "gone", "queued", "claiming", "checked",
               "replaying", "reporting"}
  /\ Holding = {"queued", "claiming", "checked", "replaying", "reporting"}
BY DEF Phases, Holding, LoginPhases

LEMMA TypedInit == Init => Typed
<1> SUFFICES ASSUME Init PROVE Typed
  OBVIOUS
<1>1. bound \in [Accounts -> Users \cup {None}]
  BY DEF Init, Backfilled
<1>2. ConnTyped
  BY PhasesAre DEF Init, ConnTyped, ConnType, Away, Stamps
<1>3. SlotTyped
  BY DEF Init, SlotTyped, SlotType, Offline
<1>4. LockTyped
  BY NoneWaits DEF Init, LockTyped
<1>5. DataTyped
  BY <1>1, HistoriesAssumption, BoundsAssumption DEF Init, DataTyped
<1> QED BY <1>2, <1>3, <1>4, <1>5 DEF Typed

(* Steps of a handler, in the form the rest needs.                         *)
LEMMA ToStep ==
  ASSUME ConnTyped, NEW c \in Conns, NEW p \in Phases, To(c, p),
         Stamps([conn[c] EXCEPT !.at = p])
  PROVE  ConnTyped'
<1>1. [conn[c] EXCEPT !.at = p] \in ConnType
  BY DEF ConnTyped, ConnType
<1>2. conn' = [conn EXCEPT ![c] = [conn[c] EXCEPT !.at = p]]
  BY DEF To
<1> QED BY <1>1, <1>2 DEF ConnTyped

LEMMA Elsewhere ==
  ASSUME ConnTyped, NEW c \in Conns, NEW p
  PROVE  /\ [conn[c] EXCEPT !.at = p].at = p
         /\ [conn[c] EXCEPT !.at = p].account = conn[c].account
         /\ [conn[c] EXCEPT !.at = p].report = conn[c].report
BY DEF ConnTyped, ConnType

LEMMA ClosedStep ==
  ASSUME ConnTyped, NEW u \in Users, conn' = Closed(u), slot[u].connected => slot[u].current \in Conns
  PROVE  ConnTyped'
<1>1. CASE slot[u].connected
  <2> DEFINE d == slot[u].current
             e == [conn[d] EXCEPT !.closing = TRUE]
  <2>1. e \in ConnType /\ Stamps(e)
    BY <1>1 DEF ConnTyped, ConnType, Stamps
  <2>2. conn' = [conn EXCEPT ![d] = e]
    BY <1>1 DEF Closed
  <2> QED BY <2>1, <2>2 DEF ConnTyped
<1>2. CASE ~slot[u].connected
  BY <1>2 DEF Closed, ConnTyped
<1> QED BY <1>1, <1>2

LEMMA ConnTypedNext ==
  ASSUME Typed, Known, [Next]_vars PROVE ConnTyped'
<1>1. ASSUME NEW c \in Conns, Authenticate(c) PROVE ConnTyped'
  BY <1>1, ToStep, Elsewhere, PhasesAre DEF Authenticate, Typed, Stamps, ConnTyped
<1>2. ASSUME NEW c \in Conns, CheckGate(c) PROVE ConnTyped'
  <2>1. \E p \in {"gone", "passed"} : To(c, p)
    BY <1>2 DEF CheckGate
  <2> QED BY <2>1, ToStep, Elsewhere, PhasesAre DEF Typed, Stamps
<1>3. ASSUME NEW c \in Conns, Attach(c) PROVE ConnTyped'
  BY <1>3, ToStep, Elsewhere, PhasesAre DEF Attach, Typed, Stamps, ConnTyped
<1>4. ASSUME NEW c \in Conns, HangUp(c) PROVE ConnTyped'
  BY <1>4, ToStep, Elsewhere, PhasesAre DEF HangUp, Typed, Stamps, ConnTyped
<1>5. ASSUME NEW c \in Conns, LoginBind(c) PROVE ConnTyped'
  BY <1>5, ToStep, Elsewhere, PhasesAre DEF LoginBind, Typed, Stamps, ConnTyped
<1>6. ASSUME NEW c \in Conns, LoginCheck(c) PROVE ConnTyped'
  BY <1>6, ToStep, Elsewhere, PhasesAre DEF LoginCheck, Typed, Stamps, ConnTyped
<1>7. ASSUME NEW c \in Conns, Break(c) PROVE ConnTyped'
  BY <1>7, ToStep, Elsewhere, PhasesAre DEF Break, Typed, Stamps, ConnTyped, Leave
<1>8. ASSUME NEW c \in Conns, LoginMark(c) PROVE ConnTyped'
  BY <1>8, ToStep, Elsewhere, PhasesAre DEF LoginMark, Typed, Stamps, ConnTyped
<1>9. ASSUME NEW c \in Conns, LoginDone(c) PROVE ConnTyped'
  BY <1>9, ToStep, Elsewhere, PhasesAre DEF LoginDone, Typed, Stamps, ConnTyped
<1>10. ASSUME NEW c \in Conns, ReportCommit(c) PROVE ConnTyped'
  <2> DEFINE e == [conn[c] EXCEPT !.at = "in", !.report = None]
  <2>1. e \in ConnType /\ Stamps(e)
    BY <1>10, PhasesAre DEF Typed, ConnTyped, ConnType, Stamps, ReportCommit
  <2>2. conn' = [conn EXCEPT ![c] = e]
    BY <1>10 DEF ReportCommit
  <2> QED BY <2>1, <2>2 DEF Typed, ConnTyped
<1>11. ASSUME NEW c \in Conns, End(c) PROVE ConnTyped'
  BY <1>11, ToStep, Elsewhere, PhasesAre DEF End, Typed, Stamps, ConnTyped, Leave
<1>12. ASSUME NEW c \in Conns, NEW a \in Accounts, SendLogin(c, a) PROVE ConnTyped'
  <2> DEFINE e == [conn[c] EXCEPT !.at = "queued", !.account = a]
  <2>1. e \in ConnType /\ Stamps(e)
    BY PhasesAre DEF Typed, ConnTyped, ConnType, Stamps
  <2>2. conn' = [conn EXCEPT ![c] = e]
    BY <1>12 DEF SendLogin
  <2> QED BY <2>1, <2>2 DEF Typed, ConnTyped
<1>13. ASSUME NEW c \in Conns, NEW a \in Accounts, Report(c, a) PROVE ConnTyped'
  <2> DEFINE e == [conn[c] EXCEPT !.at = "reporting", !.report = a]
  <2>1. e \in ConnType /\ Stamps(e)
    BY <1>13, PhasesAre DEF Typed, ConnTyped, ConnType, Stamps, Report
  <2>2. conn' = [conn EXCEPT ![c] = e]
    BY <1>13 DEF Report
  <2> QED BY <2>1, <2>2 DEF Typed, ConnTyped
<1>14. ASSUME NEW u \in Users, SetCooldown(u) PROVE ConnTyped'
  <2>1. slot[u].connected => slot[u].current \in Conns
    BY DEF Typed, SlotTyped, SlotType, Known
  <2> QED BY <1>14, <2>1, ClosedStep DEF SetCooldown, Typed
<1>15. ASSUME NEW u \in Users, AgentDisconnect(u) PROVE ConnTyped'
  <2>1. slot[u].connected => slot[u].current \in Conns
    BY DEF Typed, SlotTyped, SlotType, Known
  <2> QED BY <1>15, <2>1, ClosedStep DEF AgentDisconnect, Typed
<1>16. ASSUME Restart PROVE ConnTyped'
  BY <1>16, PhasesAre DEF Restart, Typed, ConnTyped, ConnType, Away, Stamps
<1>17. ASSUME NEW c \in Conns, NEW ok \in BOOLEAN,
          \/ Health(c, ok)
       PROVE ConnTyped'
  BY <1>17 DEF Health, Typed, ConnTyped, sessions
<1>18. ASSUME NEW u \in Users,
          \/ LeaseExpires(u) \/ Place(u) \/ ReconcileAsk(u) \/ ReconcileAnswer(u)
          \/ ReconcileStage(u) \/ WindowCloses(u) \/ CancelCooldown(u)
          \/ CooldownEnds(u) \/ AgentReconnect(u)
       PROVE ConnTyped'
  BY <1>18 DEF LeaseExpires, Place, ReconcileAsk, ReconcileAnswer, ReconcileStage, WindowCloses,
         CancelCooldown, CooldownEnds, AgentReconnect, Typed, ConnTyped, sessions
<1>19. ASSUME NEW x \in risky,
          \/ Resolve(x)
       PROVE ConnTyped'
  BY <1>19 DEF Resolve, Typed, ConnTyped, sessions
<1>20. ASSUME NEW r \in rows,
          \/ Process(r)
       PROVE ConnTyped'
  BY <1>20 DEF Process, Typed, ConnTyped, sessions
<1>21. CASE UNCHANGED vars
  BY <1>21 DEF vars, db, sessions, Typed, ConnTyped, sessions
<1> QED BY <1>1, <1>2, <1>3, <1>4, <1>5, <1>6, <1>7, <1>8, <1>9, <1>10, <1>11, <1>12, <1>13,
         <1>14, <1>15, <1>16, <1>17, <1>18, <1>19, <1>20, <1>21 DEF Next

LEMMA DetachedSlot ==
  ASSUME NEW s \in SlotType, NEW c
  PROVE  /\ Detached(s, c) \in SlotType
         /\ Detached(s, c).current = s.current /\ Detached(s, c).account = s.account
         /\ Detached(s, c).logged => s.logged
         /\ s.current = c => /\ ~Detached(s, c).connected /\ ~Detached(s, c).logged
                            /\ ~Detached(s, c).healthy
         /\ s.current # c => Detached(s, c) = s
BY DEF Detached, SlotType

(* One slot changes, and its stamp stays or is an account.                 *)
LEMMA SlotStep ==
  ASSUME SlotTyped, NEW u \in Users, NEW s \in SlotType, slot' = [slot EXCEPT ![u] = s],
         recon' = recon \/ recon' = Unasked(u),
         s.account = slot[u].account \/ s.account \in Accounts,
         s.logged => slot[u].logged \/ s.account \in Accounts
  PROVE  SlotTyped'
<1>1. /\ recon' \in [Users -> {"idle", "asked", "got"}]
      /\ \A v \in Users : recon'[v] # "idle" => recon[v] # "idle"
  BY DEF Unasked, SlotTyped
<1> QED BY <1>1 DEF SlotTyped

LEMMA SlotTypedNext ==
  ASSUME Typed, [Next]_vars PROVE SlotTyped'
<1>1. ASSUME NEW c \in Conns, Attach(c) PROVE SlotTyped'
  <2> DEFINE u == UserOf[c]
             s == slot'[u]
  <2>3. u \in Users /\ slot[u] \in SlotType /\ slot \in [Users -> SlotType]
    BY UserOfAssumption DEF Typed, SlotTyped
  <2>4. s = IF slot[u].connected THEN [Offline EXCEPT !.current = c, !.connected = TRUE,
                                                     !.account = slot[u].account]
            ELSE [slot[u] EXCEPT !.current = c, !.connected = TRUE]
    BY <1>1, <2>3 DEF Attach
  <2>1. s \in SlotType /\ s.account = slot[u].account /\ (s.logged => slot[u].logged)
    <3> HIDE DEF s
    <3> QED BY <2>3, <2>4 DEF SlotType, Offline
  <2>2. slot' = [slot EXCEPT ![u] = s] /\ (recon' = recon \/ recon' = Unasked(u))
    BY <1>1, <2>3 DEF Attach
  <2> QED BY <2>1, <2>2, SlotStep, UserOfAssumption DEF Typed
<1>2. ASSUME NEW c \in Conns, Break(c) PROVE SlotTyped'
  <2> DEFINE s == Detached(slot[UserOf[c]], c)
  <2>1. slot[UserOf[c]] \in SlotType
    BY UserOfAssumption DEF Typed, SlotTyped
  <2>2. s \in SlotType /\ s.account = slot[UserOf[c]].account /\ (s.logged => slot[UserOf[c]].logged)
    BY <2>1, DetachedSlot
  <2>3. slot' = [slot EXCEPT ![UserOf[c]] = s] /\ (recon' = recon \/ recon' = Unasked(UserOf[c]))
    BY <1>2 DEF Break, Leave
  <2> QED BY <2>2, <2>3, SlotStep, UserOfAssumption DEF Typed
<1>3. ASSUME NEW c \in Conns, LoginMark(c) PROVE SlotTyped'
  <2> DEFINE u == UserOf[c]
             s == [slot[u] EXCEPT !.logged = TRUE, !.healthy = FALSE, !.account = conn[c].account]
  <2>1. conn[c].account \in Accounts
    BY <1>3, PhasesAre DEF LoginMark, Typed, ConnTyped, Stamps
  <2>4. slot[u] \in SlotType
    BY UserOfAssumption DEF Typed, SlotTyped
  <2>2. s \in SlotType /\ s.account \in Accounts
    BY <2>1, <2>4 DEF SlotType
  <2>3. slot' = [slot EXCEPT ![u] = s] /\ recon' = recon
    BY <1>3 DEF LoginMark
  <2> QED BY <2>2, <2>3, SlotStep, UserOfAssumption DEF Typed
<1>4. ASSUME NEW c \in Conns, End(c) PROVE SlotTyped'
  <2> DEFINE s == Detached(slot[UserOf[c]], c)
  <2>1. slot[UserOf[c]] \in SlotType
    BY UserOfAssumption DEF Typed, SlotTyped
  <2>2. s \in SlotType /\ s.account = slot[UserOf[c]].account /\ (s.logged => slot[UserOf[c]].logged)
    BY <2>1, DetachedSlot
  <2>3. slot' = [slot EXCEPT ![UserOf[c]] = s] /\ (recon' = recon \/ recon' = Unasked(UserOf[c]))
    BY <1>4 DEF End, Leave
  <2> QED BY <2>2, <2>3, SlotStep, UserOfAssumption DEF Typed
<1>5. ASSUME NEW c \in Conns, NEW ok \in BOOLEAN, Health(c, ok) PROVE SlotTyped'
  <2> DEFINE u == UserOf[c]
             s == [slot[u] EXCEPT !.healthy = ok]
  <2>1. s \in SlotType /\ s.account = slot[u].account /\ s.logged = slot[u].logged
    BY UserOfAssumption DEF Typed, SlotTyped, SlotType
  <2>2. slot' = [slot EXCEPT ![u] = s] /\ recon' = recon
    BY <1>5 DEF Health
  <2> QED BY <2>1, <2>2, SlotStep, UserOfAssumption DEF Typed
<1>6. ASSUME NEW u \in Users, LeaseExpires(u) PROVE SlotTyped'
  <2> DEFINE s == [slot[u] EXCEPT !.healthy = FALSE]
  <2>1. s \in SlotType /\ s.account = slot[u].account /\ s.logged = slot[u].logged
    BY DEF Typed, SlotTyped, SlotType
  <2>2. slot' = [slot EXCEPT ![u] = s] /\ recon' = recon
    BY <1>6 DEF LeaseExpires
  <2> QED BY <2>1, <2>2, SlotStep DEF Typed
<1>7. ASSUME NEW u \in Users, ReconcileAsk(u) PROVE SlotTyped'
  BY <1>7 DEF ReconcileAsk, Ready, Typed, SlotTyped
<1>8. ASSUME NEW u \in Users, ReconcileAnswer(u) PROVE SlotTyped'
  BY <1>8 DEF ReconcileAnswer, Typed, SlotTyped
<1>9. ASSUME NEW u \in Users, ReconcileStage(u) PROVE SlotTyped'
  BY <1>9 DEF ReconcileStage, Typed, SlotTyped
<1>10. ASSUME Restart PROVE SlotTyped'
  BY <1>10 DEF Restart, SlotTyped, SlotType, Offline
<1>11. ASSUME NEW c \in Conns,
          \/ Authenticate(c) \/ CheckGate(c) \/ HangUp(c) \/ LoginBind(c)
          \/ LoginCheck(c) \/ LoginDone(c) \/ ReportCommit(c)
       PROVE SlotTyped'
  BY <1>11 DEF Authenticate, CheckGate, HangUp, LoginBind, LoginCheck, LoginDone, ReportCommit,
         Typed, SlotTyped, sessions
<1>12. ASSUME NEW c \in Conns, NEW a \in Accounts,
          \/ SendLogin(c, a) \/ Report(c, a)
       PROVE SlotTyped'
  BY <1>12 DEF SendLogin, Report, Typed, SlotTyped, sessions
<1>13. ASSUME NEW u \in Users,
          \/ Place(u) \/ SetCooldown(u) \/ WindowCloses(u) \/ CancelCooldown(u)
          \/ CooldownEnds(u) \/ AgentDisconnect(u) \/ AgentReconnect(u)
       PROVE SlotTyped'
  BY <1>13 DEF Place, SetCooldown, WindowCloses, CancelCooldown, CooldownEnds, AgentDisconnect,
         AgentReconnect, Typed, SlotTyped, sessions
<1>14. ASSUME NEW x \in risky,
          \/ Resolve(x)
       PROVE SlotTyped'
  BY <1>14 DEF Resolve, Typed, SlotTyped, sessions
<1>15. ASSUME NEW r \in rows,
          \/ Process(r)
       PROVE SlotTyped'
  BY <1>15 DEF Process, Typed, SlotTyped, sessions
<1>16. CASE UNCHANGED vars
  BY <1>16 DEF vars, db, sessions, Typed, SlotTyped, sessions
<1> QED BY <1>1, <1>2, <1>3, <1>4, <1>5, <1>6, <1>7, <1>8, <1>9, <1>10, <1>11, <1>12, <1>13,
         <1>14, <1>15, <1>16 DEF Next

LEMMA LockTypedNext ==
  ASSUME Typed, [Next]_vars PROVE LockTyped'
<1>1. ASSUME NEW c \in Conns, Break(c) PROVE LockTyped'
  BY <1>1, Dropped, UserOfAssumption DEF Break, Release, HasLock, Typed, LockTyped
<1>2. ASSUME NEW c \in Conns, LoginDone(c) PROVE LockTyped'
  BY <1>2, Dropped, UserOfAssumption DEF LoginDone, Release, HasLock, Typed, LockTyped
<1>3. ASSUME NEW c \in Conns, ReportCommit(c) PROVE LockTyped'
  BY <1>3, Dropped, UserOfAssumption DEF ReportCommit, Release, HasLock, Typed, LockTyped
<1>4. ASSUME NEW c \in Conns, NEW a \in Accounts, SendLogin(c, a) PROVE LockTyped'
  BY <1>4, Appended, UserOfAssumption DEF SendLogin, Typed, LockTyped
<1>5. ASSUME NEW c \in Conns, NEW a \in Accounts, Report(c, a) PROVE LockTyped'
  BY <1>5, Appended, UserOfAssumption DEF Report, Typed, LockTyped
<1>6. ASSUME Restart PROVE LockTyped'
  BY <1>6, NoneWaits DEF Restart, LockTyped
<1>7. ASSUME NEW c \in Conns,
          \/ Authenticate(c) \/ CheckGate(c) \/ Attach(c) \/ HangUp(c)
          \/ LoginBind(c) \/ LoginCheck(c) \/ LoginMark(c) \/ End(c)
       PROVE LockTyped'
  BY <1>7 DEF Authenticate, CheckGate, Attach, HangUp, LoginBind, LoginCheck, LoginMark, End,
         Typed, LockTyped, sessions, Leave
<1>8. ASSUME NEW c \in Conns, NEW ok \in BOOLEAN,
          \/ Health(c, ok)
       PROVE LockTyped'
  BY <1>8 DEF Health, Typed, LockTyped, sessions, Leave
<1>9. ASSUME NEW u \in Users,
          \/ LeaseExpires(u) \/ Place(u) \/ ReconcileAsk(u) \/ ReconcileAnswer(u)
          \/ ReconcileStage(u) \/ SetCooldown(u) \/ WindowCloses(u)
          \/ CancelCooldown(u) \/ CooldownEnds(u) \/ AgentDisconnect(u)
          \/ AgentReconnect(u)
       PROVE LockTyped'
  BY <1>9 DEF LeaseExpires, Place, ReconcileAsk, ReconcileAnswer, ReconcileStage, SetCooldown,
         WindowCloses, CancelCooldown, CooldownEnds, AgentDisconnect, AgentReconnect,
         Typed, LockTyped, sessions, Leave
<1>10. ASSUME NEW x \in risky,
          \/ Resolve(x)
       PROVE LockTyped'
  BY <1>10 DEF Resolve, Typed, LockTyped, sessions, Leave
<1>11. ASSUME NEW r \in rows,
          \/ Process(r)
       PROVE LockTyped'
  BY <1>11 DEF Process, Typed, LockTyped, sessions, Leave
<1>12. CASE UNCHANGED vars
  BY <1>12 DEF vars, db, sessions, Typed, LockTyped, sessions, Leave
<1> QED BY <1>1, <1>2, <1>3, <1>4, <1>5, <1>6, <1>7, <1>8, <1>9, <1>10, <1>11, <1>12 DEF Next

LEMMA DataTypedNext ==
  ASSUME Typed, [Next]_vars PROVE DataTyped'
<1>1. ASSUME NEW c \in Conns, HangUp(c) PROVE DataTyped'
  BY <1>1 DEF HangUp, db, Typed, DataTyped
<1>2. ASSUME NEW c \in Conns, LoginBind(c) PROVE DataTyped'
  BY <1>2, UserOfAssumption DEF LoginBind, Typed, DataTyped
<1>3. ASSUME NEW c \in Conns, LoginCheck(c) PROVE DataTyped'
  BY <1>3, UserOfAssumption DEF LoginCheck, Unclaimed, Typed, DataTyped
<1>4. ASSUME NEW c \in Conns, Break(c) PROVE DataTyped'
  BY <1>4, UserOfAssumption DEF Break, Leave, Unclaimed, Typed, DataTyped
<1>5. ASSUME NEW c \in Conns, ReportCommit(c) PROVE DataTyped'
  <2>1. conn[c].report \in Accounts
    BY <1>5 DEF ReportCommit, Typed, ConnTyped, Stamps
  <2> QED BY <1>5, <2>1, UserOfAssumption DEF ReportCommit, Staged, Typed, DataTyped
<1>6. ASSUME NEW c \in Conns, End(c) PROVE DataTyped'
  BY <1>6 DEF End, Leave, db, Typed, DataTyped
<1>7. ASSUME NEW u \in Users, Place(u) PROVE DataTyped'
  <2>1. slot[u].account \in Accounts
    BY <1>7 DEF Place, Admits, Ready, Typed, SlotTyped
  <2> QED BY <1>7, <2>1 DEF Place, Typed, DataTyped
<1>8. ASSUME NEW u \in Users, ReconcileStage(u) PROVE DataTyped'
  <2>1. slot[u].account \in Accounts
    BY <1>8 DEF ReconcileStage, Typed, SlotTyped
  <2> QED BY <1>8, <2>1 DEF ReconcileStage, Staged, Typed, DataTyped
<1>9. ASSUME NEW u \in Users, SetCooldown(u) PROVE DataTyped'
  BY <1>9 DEF SetCooldown, Passing, Typed, DataTyped
<1>10. ASSUME NEW u \in Users, WindowCloses(u) PROVE DataTyped'
  BY <1>10 DEF WindowCloses, Passing, Typed, DataTyped
<1>11. ASSUME NEW u \in Users, CancelCooldown(u) PROVE DataTyped'
  BY <1>11 DEF CancelCooldown, Passing, Typed, DataTyped
<1>12. ASSUME NEW u \in Users, CooldownEnds(u) PROVE DataTyped'
  BY <1>12 DEF CooldownEnds, Passing, Typed, DataTyped
<1>13. ASSUME NEW u \in Users, AgentDisconnect(u) PROVE DataTyped'
  BY <1>13, BoundsAssumption DEF AgentDisconnect, Passing, db, Typed, DataTyped
<1>14. ASSUME NEW u \in Users, AgentReconnect(u) PROVE DataTyped'
  BY <1>14 DEF AgentReconnect, db, Typed, DataTyped
<1>15. ASSUME NEW x \in risky, Resolve(x) PROVE DataTyped'
  BY <1>15 DEF Resolve, Typed, DataTyped
<1>16. ASSUME NEW r \in rows, Process(r) PROVE DataTyped'
  BY <1>16 DEF Process, Typed, DataTyped
<1>17. ASSUME Restart PROVE DataTyped'
  <2>1. bound' \in [Accounts -> Users \cup {None}]
    BY <1>17 DEF Restart, Backfilled, Typed, DataTyped
  <2> QED BY <1>17, <2>1, BoundsAssumption DEF Restart, Typed, DataTyped
<1>18. ASSUME NEW c \in Conns,
          \/ Authenticate(c) \/ CheckGate(c) \/ Attach(c) \/ LoginMark(c)
          \/ LoginDone(c)
       PROVE DataTyped'
  BY <1>18 DEF Authenticate, CheckGate, Attach, LoginMark, LoginDone, Typed, DataTyped, db
<1>19. ASSUME NEW c \in Conns, NEW a \in Accounts,
          \/ SendLogin(c, a) \/ Report(c, a)
       PROVE DataTyped'
  BY <1>19 DEF SendLogin, Report, Typed, DataTyped, db
<1>20. ASSUME NEW c \in Conns, NEW ok \in BOOLEAN,
          \/ Health(c, ok)
       PROVE DataTyped'
  BY <1>20 DEF Health, Typed, DataTyped, db
<1>21. ASSUME NEW u \in Users,
          \/ LeaseExpires(u) \/ ReconcileAsk(u) \/ ReconcileAnswer(u)
       PROVE DataTyped'
  BY <1>21 DEF LeaseExpires, ReconcileAsk, ReconcileAnswer, Typed, DataTyped, db
<1>22. CASE UNCHANGED vars
  BY <1>22 DEF vars, db, sessions, Typed, DataTyped, db
<1> QED BY <1>1, <1>2, <1>3, <1>4, <1>5, <1>6, <1>7, <1>8, <1>9, <1>10, <1>11, <1>12, <1>13,
         <1>14, <1>15, <1>16, <1>17, <1>18, <1>19, <1>20, <1>21, <1>22 DEF Next

-----------------------------------------------------------------------------
(* The lock.  Only the newest connection enters the queue, so it is the    *)
(* last one in it; and only logins ever wait.                              *)

Queue(u) ==
  /\ \A i \in 1..Len(lock[u]) :
       UserOf[lock[u][i]] = u /\ conn[lock[u][i]].at \in Holding
  /\ \A i \in 2..Len(lock[u]) : conn[lock[u][i]].at = "queued"
  /\ \A i \in 1..Len(lock[u]) - 1 : lock[u][i] # slot[u].current
  /\ \A i, j \in 1..Len(lock[u]) : lock[u][i] = lock[u][j] => i = j

First(c) == Len(lock[UserOf[c]]) >= 1 /\ lock[UserOf[c]][1] = c
QueueOK == \A u \in Users : Queue(u)
HolderOK ==
  \A c \in Conns : conn[c].at \in {"claiming", "checked", "replaying", "reporting"} => First(c)
(* A newest connection that has logged in has nobody before it.            *)
InOK ==
  \A u \in Users : slot[u].current # None /\ conn[slot[u].current].at = "in" => Len(lock[u]) = 0

Queued == QueueOK /\ HolderOK /\ InOK

SameCurrent == \A u \in Users : slot'[u].current = slot[u].current
(* The connection may become the newest.                                   *)
Newest(c) ==
  \A u \in Users : slot'[u].current # slot[u].current => u = UserOf[c] /\ slot'[u].current = c
(* What a step does to the phases.                                         *)
Moves(c, p) == \A d \in Conns : conn'[d].at = IF d = c THEN p ELSE conn[d].at
Stays == \A d \in Conns : conn'[d].at = conn[d].at

LEMMA FirstIsHolder ==
  ASSUME LockTyped, NEW c \in Conns PROVE HasLock(c) <=> First(c)
BY Dropped, NoneWaits, UserOfAssumption DEF HasLock, First, LockTyped

LEMMA Member ==
  ASSUME LockTyped, NEW u \in Users, NEW i \in 1..Len(lock[u])
  PROVE  lock[u][i] \in Conns
BY DEF LockTyped

LEMMA CurrentTyped ==
  ASSUME SlotTyped, NEW u \in Users PROVE slot[u].current \in Conns \cup {None}
BY DEF SlotTyped, SlotType

LEMMA QuietStep ==
  ASSUME Typed, Queued, Stays, lock' = lock, SameCurrent
  PROVE  Queued'
<1>1. QueueOK'
  BY Member DEF Queued, QueueOK, Queue, Stays, SameCurrent, Typed
<1>2. HolderOK'
  BY DEF Queued, HolderOK, First, Stays
<1>3. InOK'
  BY CurrentTyped DEF Queued, InOK, Stays, SameCurrent, Typed
<1> QED BY <1>1, <1>2, <1>3 DEF Queued

(* A connection outside the queue moves, and may become the newest.        *)
LEMMA OutsideStep ==
  ASSUME Typed, Queued, NEW c \in Conns, NEW p, conn[c].at \notin Holding,
         p \notin Holding \cup {"in"}, Moves(c, p), lock' = lock,
         Newest(c)
  PROVE  Queued'
<1>1. \A u \in Users : \A i \in 1..Len(lock[u]) : lock[u][i] # c
  BY DEF Queued, QueueOK, Queue
<1>2. QueueOK'
  BY <1>1, Member DEF Queued, QueueOK, Queue, Moves, Newest, Typed
<1>3. HolderOK'
  BY PhasesAre DEF Queued, HolderOK, First, Moves
<1>4. InOK'
  BY CurrentTyped DEF Queued, InOK, Moves, Newest, Typed
<1> QED BY <1>2, <1>3, <1>4 DEF Queued

LEMMA OutsideStays ==
  ASSUME Typed, Queued, NEW c \in Conns, NEW p, conn[c].at \notin Holding,
         p \notin Holding \cup {"in"}, Moves(c, p), lock' = lock, SameCurrent
  PROVE  Queued'
BY OutsideStep DEF SameCurrent, Newest

(* The holder goes on.                                                     *)
LEMMA InsideStep ==
  ASSUME Typed, Queued, NEW c \in Conns, NEW p \in Holding, First(c),
         Moves(c, p), lock' = lock, SameCurrent
  PROVE  Queued'
<1>1. \A u \in Users : \A i \in 2..Len(lock[u]) : lock[u][i] # c
  BY UserOfAssumption DEF Queued, QueueOK, Queue, First
<1>2. QueueOK'
  BY <1>1, Member DEF Queued, QueueOK, Queue, Moves, SameCurrent, Typed
<1>3. HolderOK'
  BY DEF Queued, HolderOK, First, Moves
<1>4. InOK'
  BY CurrentTyped, PhasesAre DEF Queued, InOK, Moves, SameCurrent, Typed
<1> QED BY <1>2, <1>3, <1>4 DEF Queued

(* A queue that nobody enters or leaves, and whose members keep their phase.*)
LEMMA OtherQueue ==
  ASSUME LockTyped, NEW v \in Users, Queue(v), NEW c, NEW p, Moves(c, p),
         lock'[v] = lock[v], slot'[v].current = slot[v].current,
         \A i \in 1..Len(lock[v]) : lock[v][i] # c
  PROVE  Queue(v)'
<1>1. \A i \in 1..Len(lock[v]) : conn'[lock[v][i]].at = conn[lock[v][i]].at
  BY Member DEF Moves
<1>2. Len(lock[v]) \in Nat
  BY DEF LockTyped
<1>3. \A i \in 2..Len(lock[v]) : i \in 1..Len(lock[v])
  BY <1>2
<1> QED BY <1>1, <1>3 DEF Queue

(* The newest connection waits for the lock.                               *)
LEMMA EnterStep ==
  ASSUME Typed, Queued, NEW c \in Conns, NEW p \in {"queued", "reporting"}, Current(c),
         conn[c].at \notin Holding, p = "reporting" => conn[c].at = "in",
         Moves(c, p), lock' = [lock EXCEPT ![UserOf[c]] = Append(@, c)], SameCurrent
  PROVE  Queued'
<1> DEFINE u == UserOf[c]
<1>1. /\ u \in Users /\ Len(lock'[u]) = Len(lock[u]) + 1 /\ Len(lock[u]) \in Nat
      /\ \A i \in 1..Len(lock[u]) : lock'[u][i] = lock[u][i]
      /\ lock'[u][Len(lock[u]) + 1] = c
      /\ \A v \in Users \ {u} : lock'[v] = lock[v]
  BY Appended, UserOfAssumption DEF Typed, LockTyped
<1>2. \A v \in Users : \A i \in 1..Len(lock[v]) : lock[v][i] # c
  BY DEF Queued, QueueOK, Queue
<1>3. p = "reporting" => Len(lock[u]) = 0
  BY <1>1, NoneAssumption DEF Queued, InOK, Current
<1>4. \A v \in Users \ {u} : Queue(v)'
  BY <1>1, <1>2, OtherQueue DEF Queued, QueueOK, SameCurrent, Typed
<1>5. Queue(u)'
  <2>1. \A i \in 1..Len(lock'[u]) : UserOf[lock'[u][i]] = u /\ conn'[lock'[u][i]].at \in Holding
    BY <1>1, <1>2, Member, PhasesAre DEF Queued, QueueOK, Queue, Moves, Typed
  <2>2. \A i \in 2..Len(lock'[u]) : conn'[lock'[u][i]].at = "queued"
    BY <1>1, <1>2, <1>3, Member DEF Queued, QueueOK, Queue, Moves, Typed
  <2>3. \A i \in 1..Len(lock'[u]) - 1 : lock'[u][i] # slot'[u].current
    BY <1>1, <1>2 DEF SameCurrent, Current
  <2>4. \A i, j \in 1..Len(lock'[u]) : lock'[u][i] = lock'[u][j] => i = j
    BY <1>1, <1>2 DEF Queued, QueueOK, Queue
  <2> QED BY <2>1, <2>2, <2>3, <2>4 DEF Queue
<1>6. HolderOK'
  <2> SUFFICES ASSUME NEW d \in Conns,
                      conn'[d].at \in {"claiming", "checked", "replaying", "reporting"}
               PROVE  First(d)'
    BY DEF HolderOK
  <2>1. CASE d = c
    BY <1>1, <1>3, <2>1 DEF Moves, First
  <2>2. CASE d # c
    BY <1>1, <2>2, UserOfAssumption DEF Moves, First, Queued, HolderOK
  <2> QED BY <2>1, <2>2
<1>7. InOK'
  BY <1>1, CurrentTyped DEF Queued, InOK, Moves, SameCurrent, Current, Typed
<1> QED BY <1>4, <1>5, <1>6, <1>7 DEF Queued, QueueOK

LEMMA OneLeft == ASSUME NEW n \in Nat, n >= 1, 1 \notin 1..n - 1 PROVE n = 1
OBVIOUS

(* The holder leaves the queue.                                            *)
LEMMA ExitStep ==
  ASSUME Typed, Queued, Known, NEW c \in Conns, NEW p \in {"in", "gone"}, First(c), Release(c),
         Moves(c, p), SameCurrent
  PROVE  Queued'
<1> DEFINE u == UserOf[c]
<1>1. /\ u \in Users /\ Len(lock'[u]) = Len(lock[u]) - 1 /\ Len(lock[u]) \in Nat
      /\ \A i \in 1..Len(lock[u]) - 1 : lock'[u][i] = lock[u][i + 1]
      /\ \A v \in Users \ {u} : lock'[v] = lock[v]
  BY Dropped, NoneWaits, UserOfAssumption DEF Typed, LockTyped, Release, First
<1>2. \A i \in 2..Len(lock[u]) : lock[u][i] # c
  BY <1>1 DEF Queued, QueueOK, Queue, First
<1>3. \A v \in Users \ {u} : Queue(v)'
  <2>1. \A v \in Users \ {u} : \A i \in 1..Len(lock[v]) : lock[v][i] # c
    BY DEF Queued, QueueOK, Queue
  <2> QED BY <1>1, <2>1, OtherQueue DEF Queued, QueueOK, SameCurrent, Typed
<1>4. Queue(u)'
  <2>1. /\ \A k \in 2..Len(lock[u]) : /\ UserOf[lock[u][k]] = u /\ lock[u][k] \in Conns
                                      /\ conn[lock[u][k]].at = "queued" /\ lock[u][k] # c
        /\ \A k \in 2..Len(lock[u]) - 1 : lock[u][k] # slot[u].current
        /\ \A k, l \in 2..Len(lock[u]) : lock[u][k] = lock[u][l] => k = l
    <3>1. Queue(u) /\ Len(lock[u]) \in Nat
      BY <1>1 DEF Queued, QueueOK
    <3>2. \A k \in 2..Len(lock[u]) : k \in 1..Len(lock[u])
      BY <3>1
    <3>3. \A k \in 2..Len(lock[u]) - 1 : k \in 1..Len(lock[u]) - 1
      BY <3>1
    <3>4. \A k \in 1..Len(lock[u]) : lock[u][k] \in Conns
      BY <1>1, Member DEF Typed
    <3> QED BY <1>2, <3>1, <3>2, <3>3, <3>4 DEF Queue
  <2>2. \A i \in 1..Len(lock[u]) - 1 : i + 1 \in 2..Len(lock[u])
    BY <1>1
  <2>3. ASSUME NEW i \in 1..Len(lock'[u])
        PROVE  UserOf[lock'[u][i]] = u /\ conn'[lock'[u][i]].at = "queued"
    <3>1. i \in 1..Len(lock[u]) - 1
      BY <1>1, <2>3
    <3>2. lock'[u][i] = lock[u][i + 1] /\ i + 1 \in 2..Len(lock[u])
      BY <1>1, <2>2, <3>1
    <3> QED BY <2>1, <3>2 DEF Moves
  <2>4. ASSUME NEW i \in 1..Len(lock'[u]) - 1 PROVE lock'[u][i] # slot'[u].current
    <3>1. i + 1 \in 2..Len(lock[u]) - 1 /\ i \in 1..Len(lock[u]) - 1
      BY <1>1, <2>4
    <3> QED BY <1>1, <2>1, <3>1 DEF SameCurrent
  <2>5. ASSUME NEW i \in 1..Len(lock'[u]), NEW j \in 1..Len(lock'[u]), lock'[u][i] = lock'[u][j]
        PROVE  i = j
    <3>1. i + 1 = j + 1
      BY <1>1, <2>1, <2>2, <2>5
    <3> QED BY <1>1, <3>1
  <2>6. \A i \in 2..Len(lock'[u]) : i \in 1..Len(lock'[u])
    BY <1>1
  <2> QED BY <2>3, <2>4, <2>5, <2>6, PhasesAre DEF Queue
<1>5. HolderOK'
  <2> SUFFICES ASSUME NEW d \in Conns,
                      conn'[d].at \in {"claiming", "checked", "replaying", "reporting"}
               PROVE  First(d)'
    BY DEF HolderOK
  <2>1. d # c /\ First(d)
    BY DEF Moves, Queued, HolderOK
  <2>2. UserOf[d] # u
    BY <2>1 DEF First
  <2> QED BY <1>1, <2>1, <2>2, UserOfAssumption DEF First
<1>6. InOK'
  <2> SUFFICES ASSUME NEW v \in Users, slot'[v].current # None,
                      conn'[slot'[v].current].at = "in"
               PROVE  Len(lock'[v]) = 0
    BY DEF InOK
  <2>1. CASE slot[v].current = c /\ v = u
    <3>1. \A i \in 1..Len(lock[u]) - 1 : lock[u][i] # c
      BY <1>1, <2>1 DEF Queued, QueueOK, Queue
    <3>2. Len(lock[u]) >= 1 /\ lock[u][1] = c
      BY DEF First
    <3>4. 1 \notin 1..Len(lock[u]) - 1
      BY <3>1, <3>2
    <3>5. Len(lock[u]) \in Nat
      BY <1>1
    <3>3. Len(lock[u]) = 1
      BY <3>2, <3>4, <3>5, OneLeft
    <3> QED BY <1>1, <2>1, <3>3
  <2>2. CASE slot[v].current # c
    BY <1>1, <2>2, CurrentTyped DEF Queued, InOK, Moves, SameCurrent, Typed, First
  <2>3. CASE slot[v].current = c /\ v # u
    BY <2>3 DEF Known, SameCurrent
  <2> QED BY <2>1, <2>2, <2>3
<1> QED BY <1>3, <1>4, <1>5, <1>6 DEF Queued, QueueOK

(* The accounts of logins stay.                                            *)
Keeps == \A d \in Conns : conn'[d].account = conn[d].account /\ (conn[d].closing => conn'[d].closing)

LEMMA ToMoves ==
  ASSUME ConnTyped, NEW c \in Conns, NEW p, To(c, p)
  PROVE  Moves(c, p) /\ Keeps
BY DEF ConnTyped, ConnType, To, Moves, Keeps

LEMMA ClosedMoves ==
  ASSUME Typed, Known, NEW u \in Users, conn' = Closed(u)
  PROVE  Stays /\ Keeps /\ (slot[u].connected => conn'[slot[u].current].closing)
<1>1. slot[u].connected => slot[u].current \in Conns
  BY DEF Typed, SlotTyped, SlotType, Known
<1>2. conn \in [Conns -> ConnType]
  BY DEF Typed, ConnTyped
<1> QED BY <1>1, <1>2 DEF Closed, ConnType, Stays, Keeps

LEMMA MessageMoves ==
  ASSUME ConnTyped, NEW c \in Conns, NEW a
  PROVE  /\ SendLogin(c, a) => /\ Moves(c, "queued") /\ conn'[c].account = a
                               /\ \A d \in Conns \ {c} : conn'[d] = conn[d]
                               /\ conn'[c].closing = conn[c].closing
         /\ Report(c, a) => Moves(c, "reporting") /\ Keeps
         /\ ReportCommit(c) => Moves(c, "in") /\ Keeps
BY DEF ConnTyped, ConnType, SendLogin, Report, ReportCommit, Moves, Keeps

(* The finally leaves the other slots alone.                               *)
LEMMA LeaveSlot ==
  ASSUME Typed, NEW c \in Conns, Leave(c)
  PROVE  /\ Moves(c, "gone") /\ Keeps /\ SameCurrent
         /\ \A u \in Users : slot'[u] # slot[u] => u = UserOf[c] /\ Current(c)
         /\ Current(c) => /\ ~slot'[UserOf[c]].connected /\ ~slot'[UserOf[c]].logged
                         /\ ~slot'[UserOf[c]].healthy
<1>1. Moves(c, "gone") /\ Keeps
  BY ToMoves DEF Leave, Typed
<1>2. slot[UserOf[c]] \in SlotType /\ slot'[UserOf[c]] = Detached(slot[UserOf[c]], c)
      /\ \A u \in Users \ {UserOf[c]} : slot'[u] = slot[u]
  BY UserOfAssumption DEF Leave, Typed, SlotTyped
<1> QED BY <1>1, <1>2, DetachedSlot, UserOfAssumption DEF SameCurrent, Current

LEMMA QueuedNext ==
  ASSUME Typed, Known, Queued, [Next]_vars PROVE Queued'
<1>1. ASSUME NEW c \in Conns, Authenticate(c) PROVE Queued'
  <2>1. Moves(c, "authed")
    BY <1>1, ToMoves DEF Authenticate, Typed
  <2>2. conn[c].at \notin Holding /\ lock' = lock /\ SameCurrent
    BY <1>1, PhasesAre DEF Authenticate, SameCurrent
  <2> QED BY <2>1, <2>2, OutsideStays, PhasesAre
<1>2. ASSUME NEW c \in Conns, CheckGate(c) PROVE Queued'
  <2>1. \E p \in {"gone", "passed"} : Moves(c, p)
    BY <1>2, ToMoves DEF CheckGate, Typed
  <2>2. conn[c].at \notin Holding /\ lock' = lock /\ SameCurrent
    BY <1>2, PhasesAre DEF CheckGate, SameCurrent
  <2> QED BY <2>1, <2>2, OutsideStays, PhasesAre
<1>3. ASSUME NEW c \in Conns, Attach(c) PROVE Queued'
  <2>1. Moves(c, "open")
    BY <1>3, ToMoves DEF Attach, Typed
  <2>2. Newest(c)
    <3>1. /\ UserOf[c] \in Users /\ slot[UserOf[c]] \in SlotType /\ slot'[UserOf[c]].current = c
          /\ \A u \in Users \ {UserOf[c]} : slot'[u] = slot[u]
      BY <1>3, UserOfAssumption DEF Attach, Typed, SlotTyped, SlotType, Offline
    <3> QED BY <3>1 DEF Newest
  <2>3. conn[c].at \notin Holding /\ lock' = lock
    BY <1>3, PhasesAre DEF Attach
  <2> QED BY <2>1, <2>2, <2>3, OutsideStep, PhasesAre
<1>4. ASSUME NEW c \in Conns, HangUp(c) PROVE Queued'
  <2>1. Moves(c, "gone")
    BY <1>4, ToMoves DEF HangUp, Typed
  <2>2. conn[c].at \notin Holding /\ lock' = lock /\ SameCurrent
    BY <1>4, PhasesAre DEF HangUp, SameCurrent
  <2> QED BY <2>1, <2>2, OutsideStays, PhasesAre
<1>5. ASSUME NEW c \in Conns, LoginBind(c) PROVE Queued'
  <2>1. Moves(c, "claiming") /\ SameCurrent
    BY <1>5, ToMoves DEF LoginBind, Typed, SameCurrent
  <2> QED BY <1>5, <2>1, InsideStep, FirstIsHolder, PhasesAre DEF LoginBind, Typed
<1>6. ASSUME NEW c \in Conns, LoginCheck(c) PROVE Queued'
  <2>1. Moves(c, "checked") /\ SameCurrent /\ First(c)
    BY <1>6, ToMoves DEF LoginCheck, Typed, SameCurrent, Queued, HolderOK
  <2> QED BY <1>6, <2>1, InsideStep, PhasesAre DEF LoginCheck
<1>7. ASSUME NEW c \in Conns, Break(c) PROVE Queued'
  BY <1>7, LeaveSlot, ExitStep, FirstIsHolder DEF Break, Typed
<1>8. ASSUME NEW c \in Conns, LoginMark(c) PROVE Queued'
  <2>1. Moves(c, "replaying") /\ First(c)
    BY <1>8, ToMoves DEF LoginMark, Typed, Queued, HolderOK
  <2>2. SameCurrent
    BY <1>8, UserOfAssumption DEF LoginMark, SameCurrent, Typed, SlotTyped, SlotType
  <2> QED BY <1>8, <2>1, <2>2, InsideStep, PhasesAre DEF LoginMark
<1>9. ASSUME NEW c \in Conns, LoginDone(c) PROVE Queued'
  <2>1. Moves(c, "in") /\ SameCurrent
    BY <1>9, ToMoves DEF LoginDone, Typed, SameCurrent
  <2> QED BY <1>9, <2>1, ExitStep, FirstIsHolder DEF LoginDone, Typed
<1>10. ASSUME NEW c \in Conns, ReportCommit(c) PROVE Queued'
  <2>1. Moves(c, "in") /\ SameCurrent
    BY <1>10, MessageMoves DEF ReportCommit, Typed, SameCurrent
  <2> QED BY <1>10, <2>1, ExitStep, FirstIsHolder DEF ReportCommit, Typed
<1>11. ASSUME NEW c \in Conns, End(c) PROVE Queued'
  BY <1>11, LeaveSlot, OutsideStays, PhasesAre DEF End
<1>12. ASSUME NEW c \in Conns, NEW a \in Accounts, SendLogin(c, a) PROVE Queued'
  BY <1>12, MessageMoves, EnterStep, PhasesAre DEF SendLogin, Typed, SameCurrent
<1>13. ASSUME NEW c \in Conns, NEW a \in Accounts, Report(c, a) PROVE Queued'
  BY <1>13, MessageMoves, EnterStep, PhasesAre DEF Report, Typed, SameCurrent
<1>14. ASSUME NEW c \in Conns, NEW ok \in BOOLEAN, Health(c, ok) PROVE Queued'
  <2>1. SameCurrent
    BY <1>14, UserOfAssumption DEF Health, SameCurrent, Typed, SlotTyped, SlotType
  <2> QED BY <1>14, <2>1, QuietStep DEF Health, Stays
<1>15. ASSUME NEW u \in Users, LeaseExpires(u) PROVE Queued'
  <2>1. SameCurrent
    BY <1>15 DEF LeaseExpires, SameCurrent, Typed, SlotTyped, SlotType
  <2> QED BY <1>15, <2>1, QuietStep DEF LeaseExpires, Stays
<1>16. ASSUME NEW u \in Users, Place(u) PROVE Queued'
  BY <1>16, QuietStep DEF Place, sessions, Stays, SameCurrent
<1>17. ASSUME NEW u \in Users, ReconcileAsk(u) PROVE Queued'
  BY <1>17, QuietStep DEF ReconcileAsk, sessions, Stays, SameCurrent
<1>18. ASSUME NEW u \in Users, ReconcileAnswer(u) PROVE Queued'
  BY <1>18, QuietStep DEF ReconcileAnswer, sessions, Stays, SameCurrent
<1>19. ASSUME NEW u \in Users, ReconcileStage(u) PROVE Queued'
  BY <1>19, QuietStep DEF ReconcileStage, sessions, Stays, SameCurrent
<1>20. ASSUME NEW u \in Users, SetCooldown(u) PROVE Queued'
  BY <1>20, ClosedMoves, QuietStep DEF SetCooldown, SameCurrent
<1>21. ASSUME NEW u \in Users, WindowCloses(u) PROVE Queued'
  BY <1>21, QuietStep DEF WindowCloses, sessions, Stays, SameCurrent
<1>22. ASSUME NEW u \in Users, CancelCooldown(u) PROVE Queued'
  BY <1>22, QuietStep DEF CancelCooldown, sessions, Stays, SameCurrent
<1>23. ASSUME NEW u \in Users, CooldownEnds(u) PROVE Queued'
  BY <1>23, QuietStep DEF CooldownEnds, sessions, Stays, SameCurrent
<1>24. ASSUME NEW u \in Users, AgentDisconnect(u) PROVE Queued'
  BY <1>24, ClosedMoves, QuietStep DEF AgentDisconnect, SameCurrent
<1>25. ASSUME NEW u \in Users, AgentReconnect(u) PROVE Queued'
  BY <1>25, QuietStep DEF AgentReconnect, sessions, Stays, SameCurrent
<1>26. ASSUME NEW x \in risky, Resolve(x) PROVE Queued'
  BY <1>26, QuietStep DEF Resolve, sessions, Stays, SameCurrent
<1>27. ASSUME NEW r \in rows, Process(r) PROVE Queued'
  BY <1>27, QuietStep DEF Process, sessions, Stays, SameCurrent
<1>28. ASSUME Restart PROVE Queued'
  <2>1. \A u \in Users : lock'[u] = <<>> /\ slot'[u].current = None
    BY <1>28 DEF Restart, Offline
  <2>2. \A d \in Conns : conn'[d].at \in {"away", "gone"}
    BY <1>28 DEF Restart, Away
  <2> QED BY <2>1, <2>2, NoneWaits DEF Queued, QueueOK, Queue, HolderOK, First, InOK
<1>29. CASE UNCHANGED vars
  BY <1>29, QuietStep DEF vars, sessions, Stays, SameCurrent
<1> QED BY <1>1, <1>2, <1>3, <1>4, <1>5, <1>6, <1>7, <1>8, <1>9, <1>10, <1>11, <1>12, <1>13,
         <1>14, <1>15, <1>16, <1>17, <1>18, <1>19, <1>20, <1>21, <1>22, <1>23, <1>24,
         <1>25, <1>26, <1>27, <1>28, <1>29 DEF Next

-----------------------------------------------------------------------------
(* The newest connection and its slot.                                     *)

LiveOK ==
  \A u \in Users : slot[u].current # None =>
    LET c == conn[slot[u].current] IN
      /\ c.at \notin {"away", "authed", "passed"}
      /\ c.at # "gone" => slot[u].connected
      /\ c.at \in {"in", "replaying", "reporting"} =>
           slot[u].logged /\ slot[u].account = c.account
HealthOK ==
  \A u \in Users : slot[u].healthy =>
    /\ slot[u].connected /\ slot[u].current # None
    /\ conn[slot[u].current].at \in {"in", "reporting"}

Session == Known /\ LiveOK /\ HealthOK

LEMMA SessionQuiet ==
  ASSUME Typed, Session, slot' = slot, Stays, Keeps PROVE Session'
BY CurrentTyped DEF Session, Known, LiveOK, HealthOK, Stays, Keeps, Typed

(* A handler moves and the slots stay.                                     *)
LEMMA SessionMoves ==
  ASSUME Typed, Session, slot' = slot, NEW c \in Conns, NEW p, Moves(c, p),
         \A d \in Conns \ {c} : conn'[d].account = conn[d].account,
         conn[c].at # "gone",
         conn[c].at \in {"away", "authed", "passed"} \/
           (/\ p \notin {"away", "authed", "passed", "gone"}
            /\ p \in {"in", "replaying", "reporting"} =>
                 /\ conn[c].at \in {"in", "replaying", "reporting"}
                 /\ conn'[c].account = conn[c].account
            /\ conn[c].at \in {"in", "reporting"} => p \in {"in", "reporting"})
  PROVE  Session'
<1> SUFFICES ASSUME NEW u \in Users
    PROVE  /\ slot[u].connected => slot[u].current # None
           /\ slot[u].current # None =>
                /\ UserOf[slot[u].current] = u
                /\ conn'[slot[u].current].at \notin {"away", "authed", "passed"}
                /\ conn'[slot[u].current].at # "gone" => slot[u].connected
                /\ conn'[slot[u].current].at \in {"in", "replaying", "reporting"} =>
                     slot[u].logged /\ slot[u].account = conn'[slot[u].current].account
           /\ slot[u].healthy => /\ slot[u].connected /\ slot[u].current # None
                                /\ conn'[slot[u].current].at \in {"in", "reporting"}
  BY DEF Session, Known, LiveOK, HealthOK
<1>1. CASE slot[u].current = c
  <2>1. /\ c # None /\ UserOf[c] = u /\ conn'[c].at = p
        /\ conn[c].at \notin {"away", "authed", "passed"}
    BY <1>1, NoneAssumption DEF Session, Known, LiveOK, Moves
  <2>2. /\ p \notin {"away", "authed", "passed", "gone"}
        /\ p \in {"in", "replaying", "reporting"} =>
             /\ conn[c].at \in {"in", "replaying", "reporting"}
             /\ conn'[c].account = conn[c].account
        /\ conn[c].at \in {"in", "reporting"} => p \in {"in", "reporting"}
    BY <2>1
  <2>3. conn[c].at # "gone" => slot[u].connected
    BY <1>1, <2>1 DEF Session, LiveOK
  <2> QED BY <1>1, <2>1, <2>2, <2>3 DEF Session, Known, LiveOK, HealthOK
<1>2. CASE slot[u].current # c
  BY <1>2, CurrentTyped DEF Session, Known, LiveOK, HealthOK, Moves, Typed
<1> QED BY <1>1, <1>2

(* One slot changes.                                                       *)
LEMMA SessionAt ==
  ASSUME Session, NEW u \in Users,
         \A v \in Users \ {u} : /\ slot'[v] = slot[v]
                                /\ slot[v].current # None =>
                                     /\ conn'[slot[v].current].at = conn[slot[v].current].at
                                     /\ conn'[slot[v].current].account =
                                          conn[slot[v].current].account,
         slot'[u].connected => slot'[u].current # None,
         slot'[u].current # None =>
           /\ UserOf[slot'[u].current] = u
           /\ conn'[slot'[u].current].at \notin {"away", "authed", "passed"}
           /\ conn'[slot'[u].current].at # "gone" => slot'[u].connected
           /\ conn'[slot'[u].current].at \in {"in", "replaying", "reporting"} =>
                slot'[u].logged /\ slot'[u].account = conn'[slot'[u].current].account,
         slot'[u].healthy => /\ slot'[u].connected /\ slot'[u].current # None
                             /\ conn'[slot'[u].current].at \in {"in", "reporting"}
  PROVE  Session'
BY DEF Session, Known, LiveOK, HealthOK

(* Handlers of other users are not the newest of this one.                 *)
LEMMA OthersStay ==
  ASSUME Typed, Session, NEW c \in Conns, NEW p, Moves(c, p), Keeps
  PROVE  \A v \in Users \ {UserOf[c]} : slot[v].current # None =>
           /\ conn'[slot[v].current].at = conn[slot[v].current].at
           /\ conn'[slot[v].current].account = conn[slot[v].current].account
BY CurrentTyped DEF Session, Known, Moves, Keeps, Typed

LEMMA SessionLeave ==
  ASSUME Typed, Session, NEW c \in Conns, Leave(c)
  PROVE  Session'
<1> DEFINE u == UserOf[c]
<1>1. /\ u \in Users /\ Moves(c, "gone") /\ Keeps
      /\ \A v \in Users : slot'[v].current = slot[v].current
      /\ \A v \in Users \ {u} : slot'[v] = slot[v]
  BY LeaveSlot, UserOfAssumption DEF SameCurrent
<1>2. CASE slot[u].current = c
  <2>1. /\ ~slot'[u].connected /\ ~slot'[u].healthy /\ conn'[c].at = "gone"
        /\ slot'[u].current = c
    BY <1>1, <1>2, LeaveSlot DEF Current, Moves
  <2> QED BY <1>1, <2>1, OthersStay, SessionAt
<1>3. CASE slot[u].current # c
  <2>1. slot'[u] = slot[u]
    BY <1>1, <1>3, LeaveSlot DEF Current
  <2>2. slot[u].current # None =>
          /\ conn'[slot[u].current].at = conn[slot[u].current].at
          /\ conn'[slot[u].current].account = conn[slot[u].current].account
    BY <1>1, <1>3, CurrentTyped DEF Moves, Keeps, Typed
  <2>3. /\ slot[u].connected => slot[u].current # None
        /\ slot[u].current # None =>
             /\ UserOf[slot[u].current] = u
             /\ conn[slot[u].current].at \notin {"away", "authed", "passed"}
             /\ conn[slot[u].current].at # "gone" => slot[u].connected
             /\ conn[slot[u].current].at \in {"in", "replaying", "reporting"} =>
                  slot[u].logged /\ slot[u].account = conn[slot[u].current].account
        /\ slot[u].healthy => /\ slot[u].connected /\ slot[u].current # None
                             /\ conn[slot[u].current].at \in {"in", "reporting"}
    BY <1>1 DEF Session, Known, LiveOK, HealthOK
  <2> QED BY <1>1, <2>1, <2>2, <2>3, OthersStay, SessionAt
<1> QED BY <1>2, <1>3

LEMMA SessionNext ==
  ASSUME Typed, Queued, Session, [Next]_vars PROVE Session'
<1>1. ASSUME NEW c \in Conns, Authenticate(c) PROVE Session'
  <2>1. Moves(c, "authed") /\ Keeps
    BY <1>1, ToMoves DEF Authenticate, Typed
  <2> QED BY <1>1, <2>1, SessionMoves DEF Authenticate, Keeps
<1>2. ASSUME NEW c \in Conns, CheckGate(c) PROVE Session'
  <2>1. (\E p \in {"gone", "passed"} : Moves(c, p)) /\ Keeps
    BY <1>2, ToMoves DEF CheckGate, Typed
  <2> QED BY <1>2, <2>1, SessionMoves DEF CheckGate, Keeps
<1>3. ASSUME NEW c \in Conns, Attach(c) PROVE Session'
  <2> DEFINE u == UserOf[c]
  <2>1. /\ u \in Users /\ Moves(c, "open") /\ Keeps
        /\ \A v \in Users \ {u} : slot'[v] = slot[v]
    BY <1>3, ToMoves, UserOfAssumption DEF Attach, Typed, SlotTyped
  <2>2. slot[u] \in SlotType /\ c # None
    BY <2>1, NoneAssumption DEF Typed, SlotTyped
  <2>3. slot'[u].current = c /\ slot'[u].connected /\ (slot'[u].healthy => slot[u].healthy /\ ~slot[u].connected)
    BY <1>3, <2>1, <2>2 DEF Attach, SlotType, Offline, Typed, SlotTyped
  <2>4. ~slot'[u].healthy /\ conn'[c].at = "open"
    BY <2>1, <2>3 DEF Session, HealthOK, Moves
  <2> QED BY <2>1, <2>2, <2>3, <2>4, OthersStay, SessionAt
<1>4. ASSUME NEW c \in Conns, HangUp(c) PROVE Session'
  <2>1. Moves(c, "gone") /\ Keeps
    BY <1>4, ToMoves DEF HangUp, Typed
  <2> QED BY <1>4, <2>1, SessionMoves DEF HangUp, Keeps
<1>5. ASSUME NEW c \in Conns, LoginBind(c) PROVE Session'
  <2>1. Moves(c, "claiming") /\ Keeps
    BY <1>5, ToMoves DEF LoginBind, Typed
  <2> QED BY <1>5, <2>1, SessionMoves DEF LoginBind, Keeps
<1>6. ASSUME NEW c \in Conns, LoginCheck(c) PROVE Session'
  <2>1. Moves(c, "checked") /\ Keeps
    BY <1>6, ToMoves DEF LoginCheck, Typed
  <2> QED BY <1>6, <2>1, SessionMoves DEF LoginCheck, Keeps
<1>7. ASSUME NEW c \in Conns, Break(c) PROVE Session'
  BY <1>7, SessionLeave DEF Break
<1>8. ASSUME NEW c \in Conns, LoginMark(c) PROVE Session'
  <2> DEFINE u == UserOf[c]
             d == slot[u].current
  <2>1. /\ u \in Users /\ Moves(c, "replaying") /\ Keeps /\ First(c)
        /\ \A v \in Users \ {u} : slot'[v] = slot[v]
    BY <1>8, ToMoves, UserOfAssumption DEF LoginMark, Typed, SlotTyped, Queued, HolderOK
  <2>2. slot[u] \in SlotType
    BY <2>1 DEF Typed, SlotTyped
  <2>3. /\ slot'[u].current = d /\ slot'[u].connected = slot[u].connected /\ ~slot'[u].healthy
        /\ slot'[u].logged /\ slot'[u].account = conn[c].account
    BY <1>8, <2>1, <2>2 DEF LoginMark, SlotType, Typed, SlotTyped
  <2>4. CASE d = c
    <3>1. /\ c # None /\ slot[u].connected /\ conn'[c].at = "replaying"
          /\ conn'[c].account = conn[c].account
      BY <1>8, <2>1, <2>4, NoneAssumption DEF Session, LiveOK, LoginMark, Moves, Keeps
    <3> QED BY <2>1, <2>3, <2>4, <3>1, OthersStay, SessionAt
  <2>5. CASE d # c
    <3>1. d # None => d \in Conns /\ conn'[d].at = conn[d].at /\ UserOf[d] = u
      BY <2>1, <2>5, CurrentTyped DEF Moves, Typed, Session, Known
    <3>2. d # None => conn[d].at \notin {"in", "replaying", "reporting"}
      BY <2>1, <2>5, <3>1 DEF Queued, InOK, HolderOK, First
    <3>3. /\ slot[u].connected => d # None
          /\ d # None => conn[d].at \notin {"away", "authed", "passed"}
                        /\ (conn[d].at # "gone" => slot[u].connected)
      BY <2>1 DEF Session, Known, LiveOK
    <3> QED BY <2>1, <2>3, <3>1, <3>2, <3>3, OthersStay, SessionAt
  <2> QED BY <2>4, <2>5
<1>9. ASSUME NEW c \in Conns, LoginDone(c) PROVE Session'
  <2>1. Moves(c, "in") /\ Keeps
    BY <1>9, ToMoves DEF LoginDone, Typed
  <2> QED BY <1>9, <2>1, SessionMoves DEF LoginDone, Keeps
<1>10. ASSUME NEW c \in Conns, ReportCommit(c) PROVE Session'
  BY <1>10, MessageMoves, SessionMoves DEF ReportCommit, Typed, Keeps
<1>11. ASSUME NEW c \in Conns, End(c) PROVE Session'
  BY <1>11, SessionLeave DEF End
<1>12. ASSUME NEW c \in Conns, NEW a \in Accounts, SendLogin(c, a) PROVE Session'
  <2>1. Moves(c, "queued") /\ \A d \in Conns \ {c} : conn'[d].account = conn[d].account
    BY <1>12, MessageMoves DEF Typed
  <2> QED BY <1>12, <2>1, SessionMoves DEF SendLogin
<1>13. ASSUME NEW c \in Conns, NEW a \in Accounts, Report(c, a) PROVE Session'
  BY <1>13, MessageMoves, SessionMoves DEF Report, Typed, Keeps
<1>14. ASSUME NEW c \in Conns, NEW ok \in BOOLEAN, Health(c, ok) PROVE Session'
  <2> DEFINE u == UserOf[c]
  <2>1. /\ u \in Users /\ slot[u] \in SlotType /\ slot[u].current = c /\ c # None
        /\ conn' = conn /\ conn[c].at = "in"
        /\ \A v \in Users \ {u} : slot'[v] = slot[v]
    BY <1>14, UserOfAssumption, NoneAssumption DEF Health, Typed, SlotTyped, Current
  <2>2. /\ slot'[u].current = c /\ slot'[u].connected = slot[u].connected
        /\ slot'[u].logged = slot[u].logged /\ slot'[u].account = slot[u].account
    BY <1>14, <2>1 DEF Health, SlotType, Typed, SlotTyped
  <2>3. slot[u].connected /\ slot[u].logged /\ slot[u].account = conn[c].account /\ UserOf[c] = u
    BY <2>1 DEF Session, LiveOK
  <2> QED BY <2>1, <2>2, <2>3, SessionAt
<1>15. ASSUME NEW u \in Users, LeaseExpires(u) PROVE Session'
  <2>1. /\ slot[u] \in SlotType /\ conn' = conn
        /\ \A v \in Users \ {u} : slot'[v] = slot[v]
    BY <1>15 DEF LeaseExpires, Typed, SlotTyped
  <2>2. /\ slot'[u].current = slot[u].current /\ slot'[u].connected = slot[u].connected
        /\ slot'[u].logged = slot[u].logged /\ slot'[u].account = slot[u].account
        /\ ~slot'[u].healthy
    BY <1>15, <2>1 DEF LeaseExpires, SlotType, Typed, SlotTyped
  <2> QED BY <2>1, <2>2 DEF Session, Known, LiveOK, HealthOK
<1>16. ASSUME NEW u \in Users, Place(u) PROVE Session'
  BY <1>16, SessionQuiet DEF Place, sessions, Stays, Keeps
<1>17. ASSUME NEW u \in Users, ReconcileAsk(u) PROVE Session'
  BY <1>17, SessionQuiet DEF ReconcileAsk, sessions, Stays, Keeps
<1>18. ASSUME NEW u \in Users, ReconcileAnswer(u) PROVE Session'
  BY <1>18, SessionQuiet DEF ReconcileAnswer, sessions, Stays, Keeps
<1>19. ASSUME NEW u \in Users, ReconcileStage(u) PROVE Session'
  BY <1>19, SessionQuiet DEF ReconcileStage, sessions, Stays, Keeps
<1>20. ASSUME NEW u \in Users, SetCooldown(u) PROVE Session'
  BY <1>20, ClosedMoves, SessionQuiet DEF SetCooldown, Session
<1>21. ASSUME NEW u \in Users, WindowCloses(u) PROVE Session'
  BY <1>21, SessionQuiet DEF WindowCloses, sessions, Stays, Keeps
<1>22. ASSUME NEW u \in Users, CancelCooldown(u) PROVE Session'
  BY <1>22, SessionQuiet DEF CancelCooldown, sessions, Stays, Keeps
<1>23. ASSUME NEW u \in Users, CooldownEnds(u) PROVE Session'
  BY <1>23, SessionQuiet DEF CooldownEnds, sessions, Stays, Keeps
<1>24. ASSUME NEW u \in Users, AgentDisconnect(u) PROVE Session'
  BY <1>24, ClosedMoves, SessionQuiet DEF AgentDisconnect, Session
<1>25. ASSUME NEW u \in Users, AgentReconnect(u) PROVE Session'
  BY <1>25, SessionQuiet DEF AgentReconnect, sessions, Stays, Keeps
<1>26. ASSUME NEW x \in risky, Resolve(x) PROVE Session'
  BY <1>26, SessionQuiet DEF Resolve, sessions, Stays, Keeps
<1>27. ASSUME NEW r \in rows, Process(r) PROVE Session'
  BY <1>27, SessionQuiet DEF Process, sessions, Stays, Keeps
<1>28. ASSUME Restart PROVE Session'
  <2>1. \A u \in Users : slot'[u] = Offline
    BY <1>28 DEF Restart
  <2> QED BY <2>1 DEF Session, Known, LiveOK, HealthOK, Offline
<1>29. CASE UNCHANGED vars
  BY <1>29, SessionQuiet DEF vars, sessions, Stays, Keeps
<1> QED BY <1>1, <1>2, <1>3, <1>4, <1>5, <1>6, <1>7, <1>8, <1>9, <1>10, <1>11, <1>12, <1>13,
         <1>14, <1>15, <1>16, <1>17, <1>18, <1>19, <1>20, <1>21, <1>22, <1>23, <1>24,
         <1>25, <1>26, <1>27, <1>28, <1>29 DEF Next

-----------------------------------------------------------------------------
(* Accounts: who owns them, and what a login has checked stays so until it *)
(* takes effect.                                                           *)

LoggedIn == {"replaying", "in", "reporting"}

OwnedOK ==
  \A c \in Conns : conn[c].at \in LoggedIn \cup {"checked"} => bound[conn[c].account] = UserOf[c]
(* The binding is there, or is this transaction's own insert.              *)
ClaimedOK ==
  \A c \in Conns : conn[c].at = "claiming" =>
    \/ bound[conn[c].account] = UserOf[c]
    \/ bound[conn[c].account] = None /\ claim[conn[c].account] = UserOf[c]
CleanOK == \A c \in Conns : conn[c].at = "checked" => Clean(UserOf[c], conn[c].account)

Owned == OneOwner /\ OwnedOK /\ ClaimedOK /\ CleanOK

(* No handler gets further with its login but from checked.                *)
Advances ==
  \A d \in Conns :
    /\ conn'[d].at \in {"claiming", "checked"} =>
         conn'[d].at = conn[d].at /\ conn'[d].account = conn[d].account
    /\ conn'[d].at \in LoggedIn =>
         conn[d].at \in LoggedIn \cup {"checked"} /\ conn'[d].account = conn[d].account

LEMMA StaysAdvances == ASSUME Stays, Keeps PROVE Advances
BY DEF Stays, Keeps, Advances

LEMMA MovesAdvances ==
  ASSUME NEW c \in Conns, NEW p, p \notin {"claiming", "checked"}, Moves(c, p),
         \A d \in Conns \ {c} : conn'[d].account = conn[d].account,
         p \in LoggedIn =>
           conn[c].at \in LoggedIn \cup {"checked"} /\ conn'[c].account = conn[c].account
  PROVE  Advances
BY DEF Moves, Advances, LoggedIn

LEMMA AccountTyped ==
  ASSUME Typed, NEW c \in Conns, conn[c].at \in Holding \cup {"in"}
  PROVE  conn[c].account \in Accounts
BY DEF Typed, ConnTyped, Stamps

(* The database changes at most by a row of a reconcile, by what is        *)
(* resolved and processed, and by claims given up.                         *)
LEMMA OwnedQuiet ==
  ASSUME Typed, Owned, Advances, bound' = bound, orders' = orders, risky' \subseteq risky,
         \A d \in Conns : \A b \in Accounts : conn[d].at = "checked" =>
           (<<b, UserOf[d], "report">> \in rows' => <<b, UserOf[d], "report">> \in rows),
         \A d \in Conns : conn'[d].at = "claiming" /\ claim[conn[d].account] = UserOf[d] =>
           claim'[conn[d].account] = UserOf[d]
  PROVE  Owned'
<1>1. OneOwner'
  BY DEF Owned, OneOwner
<1>2. OwnedOK'
  BY DEF Owned, OwnedOK, Advances
<1>3. ClaimedOK'
  BY DEF Owned, ClaimedOK, Advances
<1>4. CleanOK'
  <2> SUFFICES ASSUME NEW c \in Conns, conn'[c].at = "checked"
               PROVE  Clean(UserOf[c], conn[c].account)'
    BY DEF CleanOK
  <2>1. conn[c].at = "checked" /\ conn'[c].account = conn[c].account
        /\ Clean(UserOf[c], conn[c].account)
    BY DEF Advances, Owned, CleanOK
  <2> QED BY <2>1 DEF Clean
<1> QED BY <1>1, <1>2, <1>3, <1>4 DEF Owned

(* The holder of the lock is alone.                                        *)
LEMMA Alone ==
  ASSUME Queued, NEW c \in Conns, NEW d \in Conns, UserOf[c] = UserOf[d],
         conn[c].at \in {"claiming", "checked", "replaying", "reporting"},
         conn[d].at \in {"claiming", "checked", "replaying", "reporting"}
  PROVE  c = d
BY DEF Queued, HolderOK, First

(* Nobody is admitted while a login of the user is checked.                *)
LEMMA NotAdmitted ==
  ASSUME Typed, Queued, Session, NEW c \in Conns, conn[c].at = "checked"
  PROVE  ~Admits(UserOf[c])
<1> SUFFICES ASSUME Admits(UserOf[c]) PROVE FALSE
  OBVIOUS
<1> DEFINE u == UserOf[c]
           d == slot[u].current
<1>1. u \in Users
  BY UserOfAssumption
<1>2. d \in Conns /\ d # None /\ conn[d].at \in {"in", "reporting"} /\ UserOf[d] = u
  BY <1>1, CurrentTyped DEF Admits, Session, HealthOK, Known, Typed
<1>3. First(c)
  BY DEF Queued, HolderOK
<1>4. conn[d].at # "in"
  BY <1>1, <1>2, <1>3 DEF Queued, InOK, First, Typed, LockTyped
<1> QED BY <1>2, <1>4, Alone

(* An admitted order is on the account of the user.                        *)
LEMMA AdmittedOwned ==
  ASSUME Typed, Session, Owned, NEW u \in Users, Admits(u)
  PROVE  /\ slot[u].current \in Conns /\ slot[u].current # None
         /\ conn[slot[u].current].at \in {"in", "reporting"}
         /\ slot[u].account = conn[slot[u].current].account
         /\ slot[u].account \in Accounts /\ bound[slot[u].account] = u
<1>1. /\ slot[u].current \in Conns /\ slot[u].current # None
      /\ conn[slot[u].current].at \in {"in", "reporting"} /\ UserOf[slot[u].current] = u
      /\ slot[u].account = conn[slot[u].current].account
  BY CurrentTyped DEF Admits, Session, HealthOK, LiveOK, Known, Typed
<1> QED BY <1>1, AccountTyped, PhasesAre DEF Owned, OwnedOK, LoggedIn

LEMMA OwnedPlace ==
  ASSUME Typed, Queued, Session, Owned, NEW u \in Users, Place(u) PROVE Owned'
<1> DEFINE a == slot[u].account
<1>1. /\ a \in Accounts /\ bound[a] = u /\ Admits(u)
  BY AdmittedOwned DEF Place
<1>2. /\ conn' = conn /\ bound' = bound /\ claim' = claim /\ rows' = rows
      /\ orders' = orders \cup {<<a, u>>} /\ risky' = risky \cup {<<a, u>>}
  BY DEF Place, sessions
<1>3. OneOwner'
  BY <1>1, <1>2 DEF Owned, OneOwner
<1>4. OwnedOK' /\ ClaimedOK'
  BY <1>2 DEF Owned, OwnedOK, ClaimedOK
<1>5. CleanOK'
  <2> SUFFICES ASSUME NEW c \in Conns, conn[c].at = "checked"
               PROVE  Clean(UserOf[c], conn[c].account)'
    BY <1>2 DEF CleanOK
  <2>1. UserOf[c] # u
    BY <1>1, NotAdmitted
  <2>2. Clean(UserOf[c], conn[c].account)
    BY DEF Owned, CleanOK
  <2>3. a # conn[c].account
    BY <1>1, <2>1, <2>2 DEF Clean
  <2> QED BY <1>2, <2>1, <2>2, <2>3 DEF Clean
<1> QED BY <1>3, <1>4, <1>5 DEF Owned

LEMMA OwnedBind ==
  ASSUME Typed, Queued, Owned, NEW c \in Conns, LoginBind(c) PROVE Owned'
<1> DEFINE u == UserOf[c]
           a == conn[c].account
<1>1. a \in Accounts /\ u \in Users /\ u # None
  BY AccountTyped, PhasesAre, UserOfAssumption, NoneAssumption DEF LoginBind
<1>2. /\ bound' = bound /\ orders' = orders /\ risky' = risky /\ rows' = rows
      /\ Moves(c, "claiming") /\ Keeps
      /\ bound[a] = u \/ (bound[a] = None /\ claim[a] = None)
      /\ claim' = IF bound[a] = u THEN claim ELSE [claim EXCEPT ![a] = u]
  BY ToMoves DEF LoginBind, Bindable, Typed
<1>3. claim \in [Accounts -> Users \cup {None}]
  BY DEF Typed, DataTyped
<1>4. OneOwner' /\ OwnedOK'
  BY <1>2 DEF Owned, OneOwner, OwnedOK, Moves, Keeps, LoggedIn
<1>5. ClaimedOK'
  <2> SUFFICES ASSUME NEW d \in Conns, conn'[d].at = "claiming"
               PROVE  \/ bound[conn[d].account] = UserOf[d]
                      \/ bound[conn[d].account] = None /\ claim'[conn[d].account] = UserOf[d]
    BY <1>2 DEF ClaimedOK, Keeps
  <2>1. CASE d = c
    BY <1>1, <1>2, <1>3, <2>1
  <2>2. CASE d # c
    <3>1. conn[d].at = "claiming" /\ UserOf[d] # None
      BY <1>2, <2>2, UserOfAssumption, NoneAssumption DEF Moves
    <3>2. claim[conn[d].account] = UserOf[d] => conn[d].account # a \/ bound[a] = u
      BY <1>2, <3>1
    <3> QED BY <1>1, <1>2, <1>3, <3>1, <3>2 DEF Owned, ClaimedOK
  <2> QED BY <2>1, <2>2
<1>6. CleanOK'
  BY <1>2 DEF Owned, CleanOK, Clean, Moves, Keeps
<1> QED BY <1>4, <1>5, <1>6 DEF Owned

LEMMA OwnedCheck ==
  ASSUME Typed, Queued, Owned, NEW c \in Conns, LoginCheck(c) PROVE Owned'
<1> DEFINE u == UserOf[c]
           a == conn[c].account
<1>1. a \in Accounts /\ u \in Users /\ u # None
  BY AccountTyped, PhasesAre, UserOfAssumption, NoneAssumption DEF LoginCheck
<1>2. /\ orders' = orders /\ risky' = risky /\ rows' = rows
      /\ Moves(c, "checked") /\ Keeps /\ conn[c].at = "claiming"
      /\ bound' = [bound EXCEPT ![a] = u] /\ claim' = Unclaimed(c)
  BY ToMoves DEF LoginCheck, Typed
<1>3. bound \in [Accounts -> Users \cup {None}] /\ claim \in [Accounts -> Users \cup {None}]
  BY DEF Typed, DataTyped
<1>4. /\ bound[a] \in {u, None} /\ bound'[a] = u
      /\ \A b \in Accounts : bound[b] # None => bound'[b] = bound[b]
      /\ \A b \in Accounts \ {a} : bound'[b] = bound[b]
  BY <1>1, <1>2, <1>3 DEF Owned, ClaimedOK
<1>5. \A d \in Conns \ {c} : conn'[d].at = conn[d].at /\ conn'[d].account = conn[d].account
  BY <1>2 DEF Moves, Keeps
<1>6. conn'[c].at = "checked" /\ conn'[c].account = a
  BY <1>2 DEF Moves, Keeps
<1>7. OneOwner'
  <2>1. \A x \in orders : x[1] \in Accounts /\ bound[x[1]] # None
    BY NoneAssumption DEF Typed, DataTyped, Owned, OneOwner
  <2> QED BY <1>2, <1>4, <2>1 DEF Owned, OneOwner
<1>8. \A d \in Conns : UserOf[d] # None
  BY UserOfAssumption, NoneAssumption
<1>9. OwnedOK'
  <2> SUFFICES ASSUME NEW d \in Conns, d # c, conn[d].at \in LoggedIn \cup {"checked"}
               PROVE  bound'[conn[d].account] = UserOf[d]
    BY <1>4, <1>5, <1>6 DEF OwnedOK
  <2>1. conn[d].account \in Accounts /\ bound[conn[d].account] = UserOf[d]
    BY AccountTyped, PhasesAre DEF Owned, OwnedOK, LoggedIn
  <2> QED BY <1>4, <1>8, <2>1
<1>10. ClaimedOK'
  <2> SUFFICES ASSUME NEW d \in Conns, d # c, conn[d].at = "claiming"
               PROVE  \/ bound'[conn[d].account] = UserOf[d]
                      \/ /\ bound'[conn[d].account] = None
                         /\ claim'[conn[d].account] = UserOf[d]
    BY <1>5, <1>6 DEF ClaimedOK
  <2>1. conn[d].account \in Accounts /\ UserOf[d] # u
    BY <1>2, AccountTyped, PhasesAre, Alone
  <2>2. CASE bound[conn[d].account] = UserOf[d]
    BY <1>4, <1>8, <2>1, <2>2
  <2>3. CASE bound[conn[d].account] = None /\ claim[conn[d].account] = UserOf[d]
    <3>1. bound[a] = u \/ claim[a] = u
      BY <1>2 DEF Owned, ClaimedOK
    <3>2. conn[d].account # a
      BY <1>1, <2>1, <2>3, <3>1
    <3> QED BY <1>2, <1>4, <2>1, <2>3, <3>2 DEF Unclaimed
  <2> QED BY <2>2, <2>3 DEF Owned, ClaimedOK
<1>11. CleanOK'
  <2> SUFFICES ASSUME NEW d \in Conns, conn'[d].at = "checked"
               PROVE  Clean(UserOf[d], conn[d].account)'
    BY DEF CleanOK
  <2>1. CASE d = c
    <3>1. /\ \A v \in Users \ {u} : <<a, v>> \notin orders
          /\ \A b \in Accounts \ {a} : <<b, u>> \notin risky /\ <<b, u, "report">> \notin rows
      BY DEF LoginCheck, OrdersOfOthers, RowsElsewhere, RiskyElsewhere
    <3> QED BY <1>2, <1>4, <1>6, <2>1, <3>1 DEF Clean
  <2>2. CASE d # c
    <3>1. /\ conn[d].at = "checked" /\ conn'[d].account = conn[d].account
          /\ conn[d].account \in Accounts /\ Clean(UserOf[d], conn[d].account)
      BY <1>5, <2>2, AccountTyped, PhasesAre DEF Owned, CleanOK
    <3>2. bound'[conn[d].account] = UserOf[d]
      BY <1>4, <1>8, <3>1 DEF Clean
    <3> QED BY <1>2, <3>1, <3>2 DEF Clean
  <2> QED BY <2>1, <2>2
<1> QED BY <1>7, <1>9, <1>10, <1>11 DEF Owned

LEMMA OwnedBreak ==
  ASSUME Typed, Queued, Owned, NEW c \in Conns, Break(c) PROVE Owned'
<1>1. /\ Moves(c, "gone") /\ Keeps /\ bound' = bound /\ orders' = orders /\ risky' = risky
      /\ rows' = rows
      /\ claim' = IF conn[c].at = "claiming" THEN Unclaimed(c) ELSE claim
  BY LeaveSlot DEF Break
<1>2. Advances
  BY <1>1, MovesAdvances DEF Keeps, LoggedIn
<1>3. ASSUME NEW d \in Conns, conn'[d].at = "claiming", claim[conn[d].account] = UserOf[d]
      PROVE  claim'[conn[d].account] = UserOf[d]
  <2>1. d # c /\ conn[d].at = "claiming" /\ conn[d].account \in Accounts
    BY <1>1, <1>3, AccountTyped, PhasesAre DEF Moves
  <2>2. conn[c].at = "claiming" => UserOf[c] # UserOf[d]
    BY <2>1, Alone
  <2> QED BY <1>1, <1>3, <2>1, <2>2 DEF Unclaimed
<1> QED BY <1>1, <1>2, <1>3, OwnedQuiet

LEMMA OwnedRestart ==
  ASSUME Typed, Owned, Restart PROVE Owned'
<1>1. /\ bound' = Backfilled(bound, orders) /\ orders' = orders
      /\ \A c \in Conns : conn'[c].at \in {"away", "gone"}
  BY DEF Restart, Away
<1>2. bound \in [Accounts -> Users \cup {None}] /\ orders \subseteq Accounts \X Users
  BY DEF Typed, DataTyped
<1>3. \A a \in Accounts : bound[a] # None => bound'[a] = bound[a]
  BY <1>1, <1>2 DEF Backfilled
<1>4. OneOwner'
  <2>1. \A x \in orders : x[1] \in Accounts /\ bound[x[1]] # None
    BY <1>2, NoneAssumption DEF Owned, OneOwner
  <2> QED BY <1>1, <1>3, <2>1 DEF Owned, OneOwner
<1> QED BY <1>1, <1>4 DEF Owned, OwnedOK, ClaimedOK, CleanOK, LoggedIn

LEMMA OwnedInit == Init => Owned
<1> SUFFICES ASSUME Init PROVE Owned
  OBVIOUS
<1>1. OneOwner
  <2> SUFFICES ASSUME NEW x \in orders PROVE bound[x[1]] = x[2]
    BY DEF OneOwner
  <2>1. x[1] \in Accounts /\ x[2] \in Users /\ <<x[1], x[2]>> \in orders
        /\ \A u \in Users : <<x[1], u>> \in orders => u = x[2]
    BY HistoriesAssumption DEF Init
  <2> QED BY <2>1 DEF Init, Backfilled
<1>2. \A c \in Conns : conn[c].at = "away"
  BY DEF Init, Away
<1> QED BY <1>1, <1>2 DEF Owned, OwnedOK, ClaimedOK, CleanOK, LoggedIn

LEMMA OwnedNext ==
  ASSUME Typed, Queued, Session, Owned, [Next]_vars PROVE Owned'
<1>1. ASSUME NEW c \in Conns, Authenticate(c) PROVE Owned'
  <2>1. Moves(c, "authed") /\ Keeps
    BY <1>1, ToMoves DEF Authenticate, Typed
  <2>2. Advances
    BY <1>1, <2>1, MovesAdvances DEF Authenticate, Keeps, LoggedIn
  <2> QED BY <1>1, <2>2, OwnedQuiet DEF Authenticate, db
<1>2. ASSUME NEW c \in Conns, CheckGate(c) PROVE Owned'
  <2>1. (\E p \in {"gone", "passed"} : Moves(c, p)) /\ Keeps
    BY <1>2, ToMoves DEF CheckGate, Typed
  <2>2. Advances
    BY <2>1, MovesAdvances DEF Keeps, LoggedIn
  <2> QED BY <1>2, <2>2, OwnedQuiet DEF CheckGate, db
<1>3. ASSUME NEW c \in Conns, Attach(c) PROVE Owned'
  <2>1. Moves(c, "open") /\ Keeps
    BY <1>3, ToMoves DEF Attach, Typed
  <2>2. Advances
    BY <1>3, <2>1, MovesAdvances DEF Attach, Keeps, LoggedIn
  <2> QED BY <1>3, <2>2, OwnedQuiet DEF Attach, db
<1>4. ASSUME NEW c \in Conns, HangUp(c) PROVE Owned'
  <2>1. Moves(c, "gone") /\ Keeps
    BY <1>4, ToMoves DEF HangUp, Typed
  <2>2. Advances
    BY <1>4, <2>1, MovesAdvances DEF HangUp, Keeps, LoggedIn
  <2> QED BY <1>4, <2>2, OwnedQuiet DEF HangUp, db
<1>5. ASSUME NEW c \in Conns, LoginBind(c) PROVE Owned'
  BY <1>5, OwnedBind
<1>6. ASSUME NEW c \in Conns, LoginCheck(c) PROVE Owned'
  BY <1>6, OwnedCheck
<1>7. ASSUME NEW c \in Conns, Break(c) PROVE Owned'
  BY <1>7, OwnedBreak
<1>8. ASSUME NEW c \in Conns, LoginMark(c) PROVE Owned'
  <2>1. Moves(c, "replaying") /\ Keeps
    BY <1>8, ToMoves DEF LoginMark, Typed
  <2>2. Advances
    BY <1>8, <2>1, MovesAdvances DEF LoginMark, Keeps, LoggedIn
  <2> QED BY <1>8, <2>2, OwnedQuiet DEF LoginMark, db
<1>9. ASSUME NEW c \in Conns, LoginDone(c) PROVE Owned'
  <2>1. Moves(c, "in") /\ Keeps
    BY <1>9, ToMoves DEF LoginDone, Typed
  <2>2. Advances
    BY <1>9, <2>1, MovesAdvances DEF LoginDone, Keeps, LoggedIn
  <2> QED BY <1>9, <2>2, OwnedQuiet DEF LoginDone, db
<1>10. ASSUME NEW c \in Conns, ReportCommit(c) PROVE Owned'
  <2>1. Moves(c, "in") /\ Keeps /\ conn[c].at = "reporting"
    BY <1>10, MessageMoves DEF Typed, ReportCommit
  <2>2. Advances
    BY <2>1, MovesAdvances DEF Keeps, LoggedIn
  <2>3. ASSUME NEW d \in Conns, NEW b \in Accounts, conn[d].at = "checked",
               <<b, UserOf[d], "report">> \in rows'
        PROVE  <<b, UserOf[d], "report">> \in rows
    <3>1. UserOf[d] # UserOf[c]
      BY <2>1, <2>3, Alone
    <3> QED BY <1>10, <2>3, <3>1 DEF ReportCommit, Staged
  <2> QED BY <1>10, <2>1, <2>2, <2>3, OwnedQuiet DEF ReportCommit
<1>11. ASSUME NEW c \in Conns, End(c) PROVE Owned'
  <2>1. Moves(c, "gone") /\ Keeps
    BY <1>11, LeaveSlot DEF End
  <2>2. Advances
    BY <2>1, MovesAdvances DEF Keeps, LoggedIn
  <2> QED BY <1>11, <2>2, OwnedQuiet DEF End, db
<1>12. ASSUME NEW c \in Conns, NEW a \in Accounts, SendLogin(c, a) PROVE Owned'
  <2>1. /\ Moves(c, "queued")
        /\ \A d \in Conns \ {c} : conn'[d].account = conn[d].account
        /\ "queued" \in LoggedIn => conn'[c].account = conn[c].account
    BY <1>12, MessageMoves DEF Typed, Keeps, LoggedIn
  <2>2. Advances
    BY <1>12, <2>1, MovesAdvances DEF SendLogin, LoggedIn
  <2> QED BY <1>12, <2>2, OwnedQuiet DEF SendLogin, db
<1>13. ASSUME NEW c \in Conns, NEW a \in Accounts, Report(c, a) PROVE Owned'
  <2>1. /\ Moves(c, "reporting")
        /\ \A d \in Conns \ {c} : conn'[d].account = conn[d].account
        /\ "reporting" \in LoggedIn => conn'[c].account = conn[c].account
    BY <1>13, MessageMoves DEF Typed, Keeps, LoggedIn
  <2>2. Advances
    BY <1>13, <2>1, MovesAdvances DEF Report, LoggedIn
  <2> QED BY <1>13, <2>2, OwnedQuiet DEF Report, db
<1>14. ASSUME NEW c \in Conns, NEW ok \in BOOLEAN, Health(c, ok) PROVE Owned'
  <2>1. Advances
    BY <1>14, StaysAdvances DEF Health, Stays, Keeps
  <2> QED BY <1>14, <2>1, OwnedQuiet DEF Health, db
<1>15. ASSUME NEW u \in Users, LeaseExpires(u) PROVE Owned'
  <2>1. Advances
    BY <1>15, StaysAdvances DEF LeaseExpires, Stays, Keeps
  <2> QED BY <1>15, <2>1, OwnedQuiet DEF LeaseExpires, db
<1>16. ASSUME NEW u \in Users, Place(u) PROVE Owned'
  BY <1>16, OwnedPlace
<1>17. ASSUME NEW u \in Users, ReconcileAsk(u) PROVE Owned'
  <2>1. Advances
    BY <1>17, StaysAdvances DEF ReconcileAsk, Stays, Keeps
  <2> QED BY <1>17, <2>1, OwnedQuiet DEF ReconcileAsk, db
<1>18. ASSUME NEW u \in Users, ReconcileAnswer(u) PROVE Owned'
  <2>1. Advances
    BY <1>18, StaysAdvances DEF ReconcileAnswer, Stays, Keeps
  <2> QED BY <1>18, <2>1, OwnedQuiet DEF ReconcileAnswer, db
<1>19. ASSUME NEW u \in Users, ReconcileStage(u) PROVE Owned'
  <2>1. Advances
    BY <1>19, StaysAdvances DEF ReconcileStage, Stays, Keeps
  <2>2. \A r \in rows' \ rows : r[3] = "reconcile"
    BY <1>19 DEF ReconcileStage, Staged
  <2> QED BY <1>19, <2>1, <2>2, OwnedQuiet DEF ReconcileStage
<1>20. ASSUME NEW u \in Users, SetCooldown(u) PROVE Owned'
  <2>1. Advances
    BY <1>20, ClosedMoves, StaysAdvances DEF SetCooldown, Session
  <2> QED BY <1>20, <2>1, OwnedQuiet DEF SetCooldown, db
<1>21. ASSUME NEW u \in Users, AgentDisconnect(u) PROVE Owned'
  <2>1. Advances
    BY <1>21, ClosedMoves, StaysAdvances DEF AgentDisconnect, Session
  <2> QED BY <1>21, <2>1, OwnedQuiet DEF AgentDisconnect, db
<1>22. ASSUME NEW u \in Users, WindowCloses(u) PROVE Owned'
  <2>1. Advances
    BY <1>22, StaysAdvances DEF WindowCloses, Stays, Keeps, sessions
  <2> QED BY <1>22, <2>1, OwnedQuiet DEF WindowCloses, db
<1>23. ASSUME NEW u \in Users, CancelCooldown(u) PROVE Owned'
  <2>1. Advances
    BY <1>23, StaysAdvances DEF CancelCooldown, Stays, Keeps, sessions
  <2> QED BY <1>23, <2>1, OwnedQuiet DEF CancelCooldown, db
<1>24. ASSUME NEW u \in Users, CooldownEnds(u) PROVE Owned'
  <2>1. Advances
    BY <1>24, StaysAdvances DEF CooldownEnds, Stays, Keeps, sessions
  <2> QED BY <1>24, <2>1, OwnedQuiet DEF CooldownEnds, db
<1>25. ASSUME NEW u \in Users, AgentReconnect(u) PROVE Owned'
  <2>1. Advances
    BY <1>25, StaysAdvances DEF AgentReconnect, Stays, Keeps, sessions
  <2> QED BY <1>25, <2>1, OwnedQuiet DEF AgentReconnect, db
<1>26. ASSUME NEW x \in risky, Resolve(x) PROVE Owned'
  <2>1. Advances
    BY <1>26, StaysAdvances DEF Resolve, Stays, Keeps, sessions
  <2> QED BY <1>26, <2>1, OwnedQuiet DEF Resolve, db
<1>27. ASSUME NEW r \in rows, Process(r) PROVE Owned'
  <2>1. Advances
    BY <1>27, StaysAdvances DEF Process, Stays, Keeps, sessions
  <2> QED BY <1>27, <2>1, OwnedQuiet DEF Process, db
<1>28. ASSUME Restart PROVE Owned'
  BY <1>28, OwnedRestart
<1>29. CASE UNCHANGED vars
  <2>1. Advances
    BY <1>29, StaysAdvances DEF vars, sessions, Stays, Keeps
  <2> QED BY <1>29, <2>1, OwnedQuiet DEF vars, db
<1> QED BY <1>1, <1>2, <1>3, <1>4, <1>5, <1>6, <1>7, <1>8, <1>9, <1>10, <1>11, <1>12,
         <1>13, <1>14, <1>15, <1>16, <1>17, <1>18, <1>19, <1>20, <1>21, <1>22, <1>23,
         <1>24, <1>25, <1>26, <1>27, <1>28, <1>29 DEF Next

-----------------------------------------------------------------------------
(* Shutting the agent out.                                                 *)

NewestShut ==
  \A u \in Users : ShutOut(u) /\ slot[u].connected =>
    conn[slot[u].current].closing \/ slot[u].current \in slipped
(* Past the gate's check while shut out: it was past when that happened.   *)
PassedShut ==
  \A c \in Conns : conn[c].at = "passed" /\ ShutOut(UserOf[c]) => c \in slipped
Shut == NewestShut /\ PassedShut

LEMMA ShutKept ==
  ASSUME Typed, Session, Shut, NEW c,
         \A u \in Users : ShutOut(u)' => ShutOut(u),
         \A u \in Users : slot'[u].connected =>
           slot[u].connected /\ slot'[u].current = slot[u].current /\ slot[u].current # c,
         \A d \in Conns : conn[d].closing => conn'[d].closing,
         \A d \in Conns : conn'[d].at = "passed" => conn[d].at = "passed" /\ d # c,
         slipped \ {c} \subseteq slipped'
  PROVE  Shut'
<1>1. \A u \in Users : slot[u].connected => slot[u].current \in Conns
  BY CurrentTyped DEF Session, Known, Typed
<1>2. NewestShut'
  BY <1>1 DEF Shut, NewestShut
<1>3. PassedShut'
  BY UserOfAssumption DEF Shut, PassedShut
<1> QED BY <1>2, <1>3 DEF Shut

LEMMA ShutQuiet ==
  ASSUME Typed, Session, Shut,
         \A u \in Users : ShutOut(u)' => ShutOut(u),
         \A u \in Users : slot'[u].connected =>
           slot[u].connected /\ slot'[u].current = slot[u].current,
         \A d \in Conns : conn[d].closing => conn'[d].closing,
         \A d \in Conns : conn'[d].at = "passed" => conn[d].at = "passed",
         slipped' = slipped
  PROVE  Shut'
<1>1. \A u \in Users : slot[u].connected => slot[u].current \in Conns
  BY CurrentTyped DEF Session, Known, Typed
<1>2. NewestShut'
  BY <1>1 DEF Shut, NewestShut
<1>3. PassedShut'
  BY UserOfAssumption DEF Shut, PassedShut
<1> QED BY <1>2, <1>3 DEF Shut

LEMMA ShutSame ==
  ASSUME gate' = gate, cooldown' = cooldown PROVE \A u \in Users : ShutOut(u)' => ShutOut(u)
BY DEF ShutOut

LEMMA ShutLeave ==
  ASSUME Typed, Session, Shut, NEW c \in Conns, Leave(c), gate' = gate, cooldown' = cooldown
  PROVE  Shut'
<1>1. /\ Moves(c, "gone") /\ Keeps
      /\ \A u \in Users : slot'[u].connected =>
           slot[u].connected /\ slot'[u].current = slot[u].current
      /\ \A u \in Users : slot'[u].connected => slot[u].current # c
  <2>1. /\ Moves(c, "gone") /\ Keeps /\ SameCurrent
        /\ \A u \in Users : slot'[u] # slot[u] => u = UserOf[c] /\ Current(c)
        /\ Current(c) => ~slot'[UserOf[c]].connected
    BY LeaveSlot
  <2>2. \A u \in Users : slot[u].current = c => u = UserOf[c]
    BY NoneAssumption DEF Session, Known
  <2>3. SameCurrent
    BY <2>1
  <2>4. \A u \in Users : slot'[u].connected => slot'[u] = slot[u]
    BY <2>1
  <2>5. \A u \in Users : slot'[u].connected => slot[u].current # c
    BY <2>1, <2>2, <2>4 DEF Current
  <2> QED BY <2>1, <2>3, <2>4, <2>5 DEF SameCurrent
<1> QED BY <1>1, ShutSame, ShutKept DEF Leave, Moves, Keeps

(* The user shuts the agent out.                                           *)
LEMMA ShutBegins ==
  ASSUME Typed, Session, Shut, NEW u \in Users, conn' = Closed(u),
         slipped' = slipped \cup Passing(u), slot' = slot,
         \A v \in Users \ {u} : ShutOut(v)' => ShutOut(v)
  PROVE  Shut'
<1>1. /\ Stays /\ Keeps /\ (slot[u].connected => conn'[slot[u].current].closing)
  BY ClosedMoves DEF Session
<1>2. \A v \in Users : slot[v].connected => slot[v].current \in Conns
  BY CurrentTyped DEF Session, Known, Typed
<1>3. NewestShut'
  BY <1>1, <1>2 DEF Shut, NewestShut, Keeps
<1>4. PassedShut'
  BY <1>1, UserOfAssumption DEF Shut, PassedShut, Passing, Stays
<1> QED BY <1>3, <1>4 DEF Shut

LEMMA ShutNext ==
  ASSUME Typed, Session, Shut, [Next]_vars PROVE Shut'
<1>1. ASSUME NEW c \in Conns, Authenticate(c) PROVE Shut'
  <2>1. Moves(c, "authed") /\ Keeps
    BY <1>1, ToMoves DEF Authenticate, Typed
  <2> QED BY <1>1, <2>1, ShutSame, ShutQuiet DEF Authenticate, Moves, Keeps, db
<1>2. ASSUME NEW c \in Conns, CheckGate(c) PROVE Shut'
  <2>1. (\E p \in {"gone", "passed"} : Moves(c, p)) /\ Keeps
        /\ (conn'[c].at = "passed" => ~ShutOut(UserOf[c]))
    BY <1>2, ToMoves DEF CheckGate, Typed, Moves
  <2>2. /\ slot' = slot /\ slipped' = slipped
        /\ \A u \in Users : ShutOut(u)' <=> ShutOut(u)
    BY <1>2 DEF CheckGate, db, ShutOut
  <2>3. NewestShut'
    BY <2>1, <2>2, CurrentTyped DEF Shut, NewestShut, Keeps, Session, Known, Typed
  <2>4. PassedShut'
    BY <2>1, <2>2, UserOfAssumption DEF Shut, PassedShut, Moves
  <2> QED BY <2>3, <2>4 DEF Shut
<1>3. ASSUME NEW c \in Conns, Attach(c) PROVE Shut'
  <2> DEFINE u == UserOf[c]
  <2>1. /\ u \in Users /\ Moves(c, "open") /\ Keeps /\ conn[c].at = "passed"
        /\ \A v \in Users \ {u} : slot'[v] = slot[v]
    BY <1>3, ToMoves, UserOfAssumption DEF Attach, Typed, SlotTyped
  <2>2. slot'[u].current = c
    BY <1>3, <2>1 DEF Attach, SlotType, Offline, Typed, SlotTyped
  <2>3. /\ slipped' = slipped
        /\ \A v \in Users : ShutOut(v)' <=> ShutOut(v)
    BY <1>3 DEF Attach, db, ShutOut
  <2>4. ShutOut(u) => c \in slipped
    BY <2>1 DEF Shut, PassedShut
  <2>5. NewestShut'
    BY <2>1, <2>2, <2>3, <2>4, CurrentTyped DEF Shut, NewestShut, Keeps, Session, Known, Typed
  <2>6. PassedShut'
    BY <2>1, <2>3, UserOfAssumption DEF Shut, PassedShut, Moves
  <2> QED BY <2>5, <2>6 DEF Shut
<1>4. ASSUME NEW c \in Conns, HangUp(c) PROVE Shut'
  <2>1. Moves(c, "gone") /\ Keeps /\ conn[c].at \in {"authed", "passed"}
    BY <1>4, ToMoves DEF HangUp, Typed
  <2>2. \A u \in Users : slot[u].connected => slot[u].current # c
    BY <2>1 DEF Session, Known, LiveOK
  <2> QED BY <1>4, <2>1, <2>2, ShutSame, ShutKept DEF HangUp, Moves, Keeps, db
<1>5. ASSUME NEW c \in Conns, LoginBind(c) PROVE Shut'
  <2>1. Moves(c, "claiming") /\ Keeps
    BY <1>5, ToMoves DEF LoginBind, Typed
  <2> QED BY <1>5, <2>1, ShutSame, ShutQuiet DEF LoginBind, Moves, Keeps, db
<1>6. ASSUME NEW c \in Conns, LoginCheck(c) PROVE Shut'
  <2>1. Moves(c, "checked") /\ Keeps
    BY <1>6, ToMoves DEF LoginCheck, Typed
  <2> QED BY <1>6, <2>1, ShutSame, ShutQuiet DEF LoginCheck, Moves, Keeps, db
<1>7. ASSUME NEW c \in Conns, Break(c) PROVE Shut'
  BY <1>7, ShutLeave DEF Break
<1>8. ASSUME NEW c \in Conns, LoginMark(c) PROVE Shut'
  <2>1. Moves(c, "replaying") /\ Keeps
    BY <1>8, ToMoves DEF LoginMark, Typed
  <2>2. \A u \in Users : slot'[u].connected =>
          slot[u].connected /\ slot'[u].current = slot[u].current
    BY <1>8 DEF LoginMark, SlotType, Typed, SlotTyped
  <2> QED BY <1>8, <2>1, <2>2, ShutSame, ShutQuiet DEF LoginMark, Moves, Keeps, db
<1>9. ASSUME NEW c \in Conns, LoginDone(c) PROVE Shut'
  <2>1. Moves(c, "in") /\ Keeps
    BY <1>9, ToMoves DEF LoginDone, Typed
  <2> QED BY <1>9, <2>1, ShutSame, ShutQuiet DEF LoginDone, Moves, Keeps, db
<1>10. ASSUME NEW c \in Conns, ReportCommit(c) PROVE Shut'
  <2>1. Moves(c, "in") /\ Keeps
    BY <1>10, MessageMoves DEF Typed
  <2>2. gate' = gate /\ cooldown' = cooldown /\ slot' = slot /\ slipped' = slipped
    BY <1>10 DEF ReportCommit
  <2>3. \A d \in Conns : /\ conn[d].closing => conn'[d].closing
                         /\ conn'[d].at = "passed" => conn[d].at = "passed"
    BY <2>1 DEF Moves, Keeps
  <2> QED BY <2>2, <2>3, ShutSame, ShutQuiet
<1>11. ASSUME NEW c \in Conns, End(c) PROVE Shut'
  BY <1>11, ShutLeave DEF End, db
<1>12. ASSUME NEW c \in Conns, NEW a \in Accounts, SendLogin(c, a) PROVE Shut'
  <2>1. ConnTyped
    BY DEF Typed
  <2>2. /\ Moves(c, "queued") /\ conn'[c].closing = conn[c].closing
        /\ \A d \in Conns \ {c} : conn'[d] = conn[d]
    BY <1>12, <2>1, MessageMoves
  <2>3. \A d \in Conns : conn'[d].closing = conn[d].closing
    BY <2>2
  <2>4. gate' = gate /\ cooldown' = cooldown /\ slot' = slot /\ slipped' = slipped
    BY <1>12 DEF SendLogin, db
  <2>5. \A d \in Conns : conn'[d].at = "passed" => conn[d].at = "passed"
    BY <2>2 DEF Moves
  <2> QED BY <2>3, <2>4, <2>5, ShutSame, ShutQuiet
<1>13. ASSUME NEW c \in Conns, NEW a \in Accounts, Report(c, a) PROVE Shut'
  <2>1. Moves(c, "reporting") /\ Keeps
    BY <1>13, MessageMoves DEF Typed
  <2>2. gate' = gate /\ cooldown' = cooldown /\ slot' = slot /\ slipped' = slipped
    BY <1>13 DEF Report, db
  <2>3. \A d \in Conns : /\ conn[d].closing => conn'[d].closing
                         /\ conn'[d].at = "passed" => conn[d].at = "passed"
    BY <2>1 DEF Moves, Keeps
  <2> QED BY <2>2, <2>3, ShutSame, ShutQuiet
<1>14. ASSUME NEW c \in Conns, NEW ok \in BOOLEAN, Health(c, ok) PROVE Shut'
  <2>1. \A v \in Users : slot'[v].connected =>
          slot[v].connected /\ slot'[v].current = slot[v].current
    BY <1>14 DEF Health, SlotType, Typed, SlotTyped
  <2> QED BY <1>14, <2>1, ShutSame, ShutQuiet DEF Health, db
<1>15. ASSUME NEW u \in Users, LeaseExpires(u) PROVE Shut'
  <2>1. \A v \in Users : slot'[v].connected =>
          slot[v].connected /\ slot'[v].current = slot[v].current
    BY <1>15 DEF LeaseExpires, SlotType, Typed, SlotTyped
  <2> QED BY <1>15, <2>1, ShutSame, ShutQuiet DEF LeaseExpires, db
<1>16. ASSUME NEW u \in Users, Place(u) PROVE Shut'
  BY <1>16, ShutSame, ShutQuiet DEF Place, sessions
<1>17. ASSUME NEW u \in Users, ReconcileAsk(u) PROVE Shut'
  BY <1>17, ShutSame, ShutQuiet DEF ReconcileAsk, db
<1>18. ASSUME NEW u \in Users, ReconcileAnswer(u) PROVE Shut'
  BY <1>18, ShutSame, ShutQuiet DEF ReconcileAnswer, db
<1>19. ASSUME NEW u \in Users, ReconcileStage(u) PROVE Shut'
  BY <1>19, ShutSame, ShutQuiet DEF ReconcileStage, db
<1>20. ASSUME NEW u \in Users, SetCooldown(u) PROVE Shut'
  <2>1. \A v \in Users \ {u} : ShutOut(v)' => ShutOut(v)
    BY <1>20 DEF SetCooldown, ShutOut, Typed, DataTyped, db
  <2> QED BY <1>20, <2>1, ShutBegins DEF SetCooldown
<1>21. ASSUME NEW u \in Users, AgentDisconnect(u) PROVE Shut'
  <2>1. \A v \in Users \ {u} : ShutOut(v)' => ShutOut(v)
    BY <1>21 DEF AgentDisconnect, ShutOut, Typed, DataTyped, db
  <2> QED BY <1>21, <2>1, ShutBegins DEF AgentDisconnect
<1>22. ASSUME NEW u \in Users, WindowCloses(u) PROVE Shut'
  <2>1. \A v \in Users : ShutOut(v)' => ShutOut(v)
    BY <1>22 DEF WindowCloses, ShutOut, Typed, DataTyped, db
  <2> QED BY <1>22, <2>1, ShutQuiet DEF WindowCloses, sessions
<1>23. ASSUME NEW u \in Users, CancelCooldown(u) PROVE Shut'
  <2>1. \A v \in Users : ShutOut(v)' => ShutOut(v)
    BY <1>23 DEF CancelCooldown, ShutOut, Typed, DataTyped, db
  <2> QED BY <1>23, <2>1, ShutQuiet DEF CancelCooldown, sessions
<1>24. ASSUME NEW u \in Users, CooldownEnds(u) PROVE Shut'
  <2>1. \A v \in Users : ShutOut(v)' => ShutOut(v)
    BY <1>24 DEF CooldownEnds, ShutOut, Typed, DataTyped, db
  <2> QED BY <1>24, <2>1, ShutQuiet DEF CooldownEnds, sessions
<1>25. ASSUME NEW u \in Users, AgentReconnect(u) PROVE Shut'
  <2>1. \A v \in Users : ShutOut(v)' => ShutOut(v)
    BY <1>25 DEF AgentReconnect, ShutOut, Typed, DataTyped, db
  <2> QED BY <1>25, <2>1, ShutQuiet DEF AgentReconnect, sessions
<1>26. ASSUME NEW x \in risky, Resolve(x) PROVE Shut'
  BY <1>26, ShutSame, ShutQuiet DEF Resolve, sessions
<1>27. ASSUME NEW r \in rows, Process(r) PROVE Shut'
  BY <1>27, ShutSame, ShutQuiet DEF Process, sessions
<1>28. ASSUME Restart PROVE Shut'
  <2>1. /\ \A u \in Users : ~slot'[u].connected
        /\ \A c \in Conns : conn'[c].at # "passed"
    BY <1>28 DEF Restart, Offline, Away
  <2> QED BY <2>1 DEF Shut, NewestShut, PassedShut
<1>29. CASE UNCHANGED vars
  BY <1>29, ShutSame, ShutQuiet DEF vars, db, sessions
<1> QED BY <1>1, <1>2, <1>3, <1>4, <1>5, <1>6, <1>7, <1>8, <1>9, <1>10, <1>11, <1>12,
         <1>13, <1>14, <1>15, <1>16, <1>17, <1>18, <1>19, <1>20, <1>21, <1>22, <1>23,
         <1>24, <1>25, <1>26, <1>27, <1>28, <1>29 DEF Next

-----------------------------------------------------------------------------
LEMMA Started ==
  ASSUME Init PROVE Known /\ Queued /\ Session /\ Shut
<1>1. /\ \A u \in Users : slot[u].current = None /\ ~slot[u].connected /\ ~slot[u].healthy
      /\ \A u \in Users : lock[u] = <<>>
      /\ \A c \in Conns : conn[c].at = "away"
  BY DEF Init, Offline, Away
<1>2. Session
  BY <1>1 DEF Session, Known, LiveOK, HealthOK
<1>3. Queued
  <2>1. QueueOK
    BY <1>1, NoneWaits DEF QueueOK, Queue
  <2> QED BY <1>1, <2>1 DEF Queued, HolderOK, InOK
<1>4. Shut
  BY <1>1 DEF Shut, NewestShut, PassedShut
<1> QED BY <1>2, <1>3, <1>4 DEF Session

(* The inductive invariant.                                                *)
IInv == Typed /\ Queued /\ Session /\ Owned /\ Shut

LEMMA IInvInit == Init => IInv
BY TypedInit, Started, OwnedInit DEF IInv

LEMMA IInvNext == IInv /\ [Next]_vars => IInv'
<1> SUFFICES ASSUME IInv, [Next]_vars PROVE IInv'
  OBVIOUS
<1>1. Typed /\ Queued /\ Session /\ Owned /\ Shut /\ Known
  BY DEF IInv, Session
<1>2. Typed'
  BY <1>1, ConnTypedNext, SlotTypedNext, LockTypedNext, DataTypedNext DEF Typed
<1>3. Queued'
  BY <1>1, QueuedNext
<1>4. Session'
  BY <1>1, SessionNext
<1>5. Owned'
  BY <1>1, OwnedNext
<1>6. Shut'
  BY <1>1, ShutNext
<1> QED BY <1>2, <1>3, <1>4, <1>5, <1>6 DEF IInv

LEMMA Invariant == Spec => []IInv
BY IInvInit, IInvNext, PTL DEF Spec

(* Every binding, row, handler, slot and lock keeps its shape, through     *)
(* every handshake, login, report, reconcile, shut-out and restart.        *)
THEOREM TypeCorrect == Spec => []TypeOK
<1>1. IInv => TypeOK
  BY TypedTypes DEF IInv
<1> QED BY <1>1, Invariant, PTL

(* The orders on an account are one user's, to whom it is bound, so        *)
(* backfill_account_bindings never refuses to start the server.            *)
THEOREM AccountHasOneOwner == Spec => []OneOwner
<1>1. IInv => OneOwner
  BY DEF IInv, Owned
<1> QED BY <1>1, Invariant, PTL

(* Orders are admitted only under the account the newest connection logged *)
(* in to, which is the user's, and nothing a replaced connection still     *)
(* does logs the newest one in or out: detach, mark_logged_in.             *)
THEOREM SessionsAreOwn == Spec => []SessionIsOwn
<1>1. IInv => SessionIsOwn
  <2> SUFFICES ASSUME IInv, NEW u \in Users
      PROVE  LET s == slot[u]  c == conn[s.current] IN
        /\ Admits(u) => /\ s.current # None /\ c.at \in {"in", "reporting"}
                        /\ s.account = c.account /\ bound[s.account] = u
        /\ s.current # None /\ c.at \in {"in", "reporting"} => Ready(u) /\ s.account = c.account
    BY DEF SessionIsOwn
  <2>1. Typed /\ Session /\ Owned
    BY DEF IInv
  <2>2. slot[u].current # None /\ conn[slot[u].current].at \in {"in", "reporting"} =>
          Ready(u) /\ slot[u].account = conn[slot[u].current].account
    BY <2>1 DEF Session, LiveOK, Ready
  <2> QED BY <2>1, <2>2, AdmittedOwned
<1> QED BY <1>1, Invariant, PTL

(* A login takes effect only on an account that is the user's alone, with  *)
(* nothing unresolved and no report left on another account: what          *)
(* _check_uplogin saw is still so after its transaction, because reports   *)
(* wait for inbox_lock and orders need a healthy session.                  *)
THEOREM LoginsAreClean == Spec => LoginIsClean
<1>1. IInv /\ [Next]_vars =>
        [\A c \in Conns : (conn[c].at = "checked" /\ conn'[c].at = "replaying") =>
           /\ Clean(UserOf[c], conn[c].account)
           /\ Reporting(UserOf[c]) = {}]_vars
  <2> SUFFICES ASSUME IInv, NEW c \in Conns, conn[c].at = "checked"
               PROVE  Clean(UserOf[c], conn[c].account) /\ Reporting(UserOf[c]) = {}
    OBVIOUS
  <2>1. Clean(UserOf[c], conn[c].account)
    BY DEF IInv, Owned, CleanOK
  <2>2. \A d \in Conns : UserOf[d] = UserOf[c] => conn[d].at # "reporting"
    BY Alone DEF IInv
  <2> QED BY <2>1, <2>2 DEF Reporting
<1> QED BY <1>1, Invariant, PTL DEF Spec, LoginIsClean

(* While a user's agent is shut out by the gate or a cooldown, the only    *)
(* connection left open is one that is closing, or that was past           *)
(* _connection_blocked when it was shut out.                               *)
THEOREM ShutOutAgentsStayOut == Spec => []ShutOutStays
<1>1. IInv => ShutOutStays
  BY DEF IInv, Shut, NewestShut, ShutOut, ShutOutStays
<1> QED BY <1>1, Invariant, PTL
=============================================================================
