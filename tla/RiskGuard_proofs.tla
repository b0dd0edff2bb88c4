-------------------------- MODULE RiskGuard_proofs --------------------------
(***************************************************************************)
(* What holds of RiskGuard for every set of owners, orders, contents,      *)
(* tokens and requests, every limit and any number of crashes: types, one  *)
(* native call per order form, one decision per confirmation, and that it  *)
(* is the confirmed content that is sent; nothing leaves past a switch,    *)
(* and no reservation is settled twice; a user's reservations stay within  *)
(* the daily limit, and cover what the broker has.                         *)
(***************************************************************************)
EXTENDS RiskGuard, OrderStatusTheorems, SumTheorems

(* A request under way has an order and, if it sends a content, has that.  *)
CallsOK ==
  \A k \in Calls :
    /\ calls[k].phase # "idle" => calls[k].kind # "none"
    /\ calls[k].kind # "none" => calls[k].key \in Keys
    /\ calls[k].kind \in {"place", "update"} => calls[k].what \in Contents

Typed == TypeOK /\ CallsOK

CallType == [kind : {"none", "place", "update", "cancel"}, user : Users \cup {None},
             key : Keys \cup {None}, what : Contents \cup {None},
             token : Tokens \cup {None}, phase : {"idle", "waiting", "native"}]

-----------------------------------------------------------------------------
LEMMA MarkTyped ==
  ASSUME NEW cur \in Statuses, NEW new \in Statuses PROVE Mark(cur, new) \in Statuses
BY MarkEither

LEMMA StatusNames ==
  /\ {"pending", "submitted", "filled", "cancelled", "failed", "unknown"} \subseteq Statuses
BY DEF Statuses, Ranked, TerminalStatuses

LEMMA PlaceResTyped == ASSUME NEW c \in Keys PROVE PlaceRes(c) \in Reservations
BY DEF PlaceRes, Reservations

LEMMA UpdateResTyped ==
  ASSUME NEW c \in Keys, NEW m \in Contents PROVE UpdateRes(c, m) \in Reservations
BY DEF UpdateRes, Reservations

LEMMA NewCallTyped ==
  ASSUME NEW kind \in {"place", "update", "cancel"}, NEW u \in Users, NEW c \in Keys,
         NEW m \in Contents \cup {None}, NEW t \in Tokens \cup {None}
  PROVE  NewCall(kind, u, c, m, t) \in CallType
BY DEF NewCall, CallType

QuotaType == [state : Active \cup {"none", "released"}, qty : Nat]

(* The operators on one reservation keep the table's type.                 *)
LEMMA QuotaTyped ==
  ASSUME NEW q \in [Reservations -> QuotaType], NEW r
  PROVE  /\ \A n \in Nat : Reserve(q, r, n) \in [Reservations -> QuotaType]
         /\ Confirm(q, r) \in [Reservations -> QuotaType]
         /\ Release(q, r) \in [Reservations -> QuotaType]
BY DEF Reserve, Confirm, Release, QuotaType, Active

LEMMA TypedInit == Init => Typed
<1> SUFFICES ASSUME Init PROVE Typed
  OBVIOUS
<1>1. TypeOK
  BY LimitsAssumption, StatusNames DEF Init, TypeOK, NoOrder, NoCall, Active
<1>2. CallsOK
  BY DEF Init, CallsOK, NoCall
<1> QED BY <1>1, <1>2 DEF Typed

(* Issuing and claiming tokens.                                            *)
TokenType == [state : {"unissued", "live", "spent"},
              user : Users \cup {None}, hash : Contents \cup {None}]

LEMMA ClaimTyped ==
  ASSUME tokens \in [Tokens -> TokenType], claims \in [Tokens -> Nat], NEW t, Claim(t)
  PROVE  tokens' \in [Tokens -> TokenType] /\ claims' \in [Tokens -> Nat]
BY DEF Claim, TokenType

(* Beginning a request.                                                    *)
LEMMA BeginsCall ==
  ASSUME Typed, NEW k \in Calls, NEW kind \in {"place", "update", "cancel"}, NEW u \in Users,
         NEW c \in Keys, NEW m \in Contents \cup {None}, NEW t \in Tokens \cup {None},
         kind \in {"place", "update"} => m \in Contents,
         calls' = [calls EXCEPT ![k] = NewCall(kind, u, c, m, t)]
  PROVE  calls' \in [Calls -> CallType] /\ CallsOK'
<1>1. calls \in [Calls -> CallType] /\ CallsOK
  BY DEF Typed, TypeOK, CallType
<1>2. NewCall(kind, u, c, m, t) \in CallType
  BY NewCallTyped
<1>3. CallsOK'
  BY <1>1 DEF CallsOK, NewCall
<1> QED BY <1>1, <1>2, <1>3

(* Ending one.                                                             *)
LEMMA EndsCall ==
  ASSUME Typed, NEW k \in Calls, Ends(k)
  PROVE  calls' \in [Calls -> CallType] /\ CallsOK'
BY DEF Typed, TypeOK, CallType, CallsOK, Ends, NoCall

LEMMA EffectTyped ==
  ASSUME Typed, NEW k \in Calls, calls[k].kind # "none",
         UNCHANGED <<taken, listed>> \/ Effect(k)
  PROVE  taken' \in [Keys -> Nat] /\ listed' \in [Keys -> SUBSET Nat]
<1>1. /\ taken \in [Keys -> Nat] /\ listed \in [Keys -> SUBSET Nat]
      /\ calls[k] \in CallType
  BY DEF Typed, TypeOK, CallType
<1>2. calls[k].kind # "cancel" => calls[k].what \in Contents
  BY <1>1 DEF Typed, CallsOK, CallType
<1> QED BY <1>1, <1>2, ContentsAssumption DEF Effect

OrderType == [user : Users \cup {None}, hash : Contents \cup {None},
              qty : Nat, status : Statuses, ids : BOOLEAN]

LEMMA CountUp ==
  ASSUME NEW S, NEW f \in [S -> Nat], NEW x PROVE [f EXCEPT ![x] = @ + 1] \in [S -> Nat]
<1>1. CASE x \in S
  <2>1. f[x] + 1 \in Nat
    BY <1>1
  <2> QED BY <2>1
<1>2. CASE x \notin S
  <2>1. [f EXCEPT ![x] = @ + 1] = f
    BY <1>2
  <2> QED BY <2>1
<1> QED BY <1>1, <1>2

LEMMA StatusWritten ==
  ASSUME NEW f \in [Keys -> OrderType], NEW c \in Keys, NEW s \in Statuses
  PROVE  [f EXCEPT ![c].status = s] \in [Keys -> OrderType]
BY DEF OrderType

LEMMA AckedTyped ==
  ASSUME Typed, NEW k \in Calls, NEW o \in OrderType
  PROVE  Acked(k, o) \in OrderType
<1>1. Mark(o.status, "submitted") \in Statuses /\ Mark(o.status, "cancelled") \in Statuses
  BY MarkTyped, StatusNames DEF OrderType
<1>2. calls[k].kind = "update" => calls[k].what.qty \in Nat
  BY ContentsAssumption DEF Typed, CallsOK
<1> QED BY <1>1, <1>2, StatusNames DEF Acked, OrderType

LEMMA TypedStep == Typed /\ [Next]_vars => Typed'
<1> SUFFICES ASSUME Typed, [Next]_vars PROVE Typed'
  OBVIOUS
<1>0. /\ orders \in [Keys -> OrderType] /\ quota \in [Reservations -> QuotaType]
      /\ tokens \in [Tokens -> TokenType] /\ cooling \subseteq Users
      /\ calls \in [Calls -> CallType] /\ kill \subseteq Users \cup {Everyone}
      /\ taken \in [Keys -> Nat] /\ listed \in [Keys -> SUBSET Nat]
      /\ crashes \in 0..MaxCrashes /\ sends \in [Keys -> Nat]
      /\ claims \in [Tokens -> Nat] /\ disputed \subseteq Reservations
      /\ misled \subseteq Reservations /\ CallsOK
  BY DEF Typed, TypeOK, OrderType, QuotaType, TokenType, CallType
<1> DEFINE AllTyped ==
      /\ orders \in [Keys -> OrderType] /\ quota \in [Reservations -> QuotaType]
      /\ tokens \in [Tokens -> TokenType] /\ cooling \subseteq Users
      /\ calls \in [Calls -> CallType] /\ kill \subseteq Users \cup {Everyone}
      /\ taken \in [Keys -> Nat] /\ listed \in [Keys -> SUBSET Nat]
      /\ crashes \in 0..MaxCrashes /\ sends \in [Keys -> Nat]
      /\ claims \in [Tokens -> Nat] /\ disputed \subseteq Reservations
      /\ misled \subseteq Reservations /\ CallsOK
<1>q. AllTyped' => Typed'
  BY DEF Typed, TypeOK, OrderType, QuotaType, TokenType, CallType
<1>c. ASSUME UNCHANGED calls PROVE CallsOK'
  BY <1>0, <1>c DEF CallsOK
<1> USE <1>0 DEF db, history
<1>1. ASSUME NEW u \in Users, NEW c \in Keys, NEW m \in Contents, NEW t \in Tokens,
             AskPlace(u, c, m, t) \/ AskUpdate(u, c, m, t)
      PROVE  AllTyped'
  BY <1>1, <1>c DEF AskPlace, AskUpdate, Issue, TokenType
<1>2. ASSUME NEW k \in Calls, NEW u \in Users, NEW c \in Keys, NEW m \in Contents,
             NEW t \in Tokens \cup {None}, Place(k, u, c, m, t)
      PROVE  AllTyped'
  <2>1. calls' \in [Calls -> CallType] /\ CallsOK'
    BY <1>2, BeginsCall DEF Place
  <2>2. tokens' \in [Tokens -> TokenType] /\ claims' \in [Tokens -> Nat]
    BY <1>2, ClaimTyped DEF Place
  <2>3. quota' \in [Reservations -> QuotaType]
    BY <1>2, QuotaTyped, ContentsAssumption DEF Place
  <2>4. orders' \in [Keys -> OrderType]
    BY <1>2, StatusNames, ContentsAssumption DEF Place, NewOrder, OrderType
  <2> QED BY <1>2, <2>1, <2>2, <2>3, <2>4 DEF Place
<1>3. ASSUME NEW k \in Calls, NEW u \in Users, NEW c \in Keys, NEW m \in Contents,
             NEW t \in Tokens \cup {None}, Update(k, u, c, m, t)
      PROVE  AllTyped'
  <2>1. calls' \in [Calls -> CallType] /\ CallsOK'
    BY <1>3, BeginsCall DEF Update
  <2>2. tokens' \in [Tokens -> TokenType] /\ claims' \in [Tokens -> Nat]
    BY <1>3, ClaimTyped DEF Update
  <2>3. quota' \in [Reservations -> QuotaType]
    <3>1. CASE m.qty > orders[c].qty
      <4>1. m.qty - orders[c].qty \in Nat
        <5>1. m.qty \in Nat /\ orders[c].qty \in Nat
          BY ContentsAssumption DEF OrderType
        <5> QED BY <3>1, <5>1
      <4> QED BY <1>3, <3>1, <4>1, QuotaTyped DEF Update
    <3>2. CASE ~(m.qty > orders[c].qty)
      BY <1>3, <3>2 DEF Update
    <3> QED BY <3>1, <3>2
  <2>4. disputed' \subseteq Reservations
    BY <1>3, UpdateResTyped DEF Update
  <2> QED BY <1>3, <2>1, <2>2, <2>3, <2>4 DEF Update
<1>4. ASSUME NEW k \in Calls, NEW u \in Users, NEW c \in Keys, Cancel(k, u, c) PROVE AllTyped'
  <2>1. calls' \in [Calls -> CallType] /\ CallsOK'
    BY <1>4, BeginsCall DEF Cancel
  <2> QED BY <1>4, <2>1 DEF Cancel
<1>5. ASSUME NEW k \in Calls, Fails(k) \/ IsUnknown(k),
             UNCHANGED <<taken, listed>> \/ Effect(k), calls[k].kind # "none"
      PROVE  AllTyped'
  <2>1. calls' \in [Calls -> CallType] /\ CallsOK'
    BY <1>5, EndsCall DEF Fails, IsUnknown
  <2>2. orders' \in [Keys -> OrderType]
    <3>1. calls[k].key \in Keys
      BY <1>5 DEF CallsOK
    <3>2. \A s \in {"failed", "unknown"} : Mark(orders[calls[k].key].status, s) \in Statuses
      <4>1. orders[calls[k].key].status \in Statuses
        BY <3>1 DEF OrderType
      <4> QED BY <4>1, MarkTyped, StatusNames
    <3>3. \/ orders' = orders
          \/ \E s \in Statuses : orders' = [orders EXCEPT ![calls[k].key].status = s]
      BY <1>5, <3>2 DEF Fails, IsUnknown
    <3>4. CASE orders' = orders
      BY <3>4
    <3>5. ASSUME NEW s \in Statuses, orders' = [orders EXCEPT ![calls[k].key].status = s]
          PROVE  orders' \in [Keys -> OrderType]
      <4>1. [orders EXCEPT ![calls[k].key].status = s] \in [Keys -> OrderType]
        BY <3>1, StatusWritten
      <4> QED BY <3>5, <4>1
    <3> QED BY <3>3, <3>4, <3>5
  <2>3. quota' \in [Reservations -> QuotaType]
    <3>1. quota' = quota \/ quota' = Release(quota, ResOf(k))
      BY <1>5 DEF Fails, IsUnknown
    <3>2. Release(quota, ResOf(k)) \in [Reservations -> QuotaType]
      BY QuotaTyped
    <3> QED BY <3>1, <3>2
  <2>4. taken' \in [Keys -> Nat] /\ listed' \in [Keys -> SUBSET Nat]
    BY <1>5, EffectTyped
  <2> QED BY <1>5, <2>1, <2>2, <2>3, <2>4 DEF Fails, IsUnknown
<1>6. ASSUME NEW k \in Calls, GateBlocks(k) \/ GateUnready(k) \/ NativeRefused(k) \/ NativeRaised(k)
      PROVE  AllTyped'
  BY <1>5, <1>6 DEF GateBlocks, GateUnready, NativeRefused, NativeRaised, AtGate, CallsOK
<1>7. ASSUME NEW k \in Calls, Send(k) PROVE AllTyped'
  <2>1. calls' \in [Calls -> CallType] /\ CallsOK'
    BY <1>7 DEF Send, AtGate, CallType, CallsOK
  <2>2. sends' \in [Keys -> Nat]
    <3>1. sends \in [Keys -> Nat]
      OBVIOUS
    <3>2. [sends EXCEPT ![calls[k].key] = @ + 1] \in [Keys -> Nat]
      BY <3>1, CountUp
    <3>3. sends' = [sends EXCEPT ![calls[k].key] = @ + 1] \/ sends' = sends
      BY <1>7 DEF Send
    <3> QED BY <3>1, <3>2, <3>3
  <2> QED BY <1>7, <2>1, <2>2 DEF Send
<1>8. ASSUME NEW k \in Calls, NativeOk(k) PROVE AllTyped'
  <2>1. calls' \in [Calls -> CallType] /\ CallsOK'
    BY <1>8, EndsCall DEF NativeOk
  <2>2. calls[k].key \in Keys /\ calls[k].kind # "none"
    BY <1>8 DEF NativeOk, CallsOK
  <2>3. orders' \in [Keys -> OrderType]
    <3>1. Acked(k, orders[calls[k].key]) \in OrderType
      BY <2>2, AckedTyped
    <3> QED BY <1>8, <3>1 DEF NativeOk
  <2>4. quota' \in [Reservations -> QuotaType]
    BY <1>8, QuotaTyped DEF NativeOk
  <2>5. taken' \in [Keys -> Nat] /\ listed' \in [Keys -> SUBSET Nat]
    BY <1>8, <2>2, EffectTyped DEF NativeOk
  <2> QED BY <1>8, <2>1, <2>3, <2>4, <2>5 DEF NativeOk
<1>9. ASSUME NEW s \in Users \cup {Everyone}, Flip(s) PROVE AllTyped'
  BY <1>9, <1>c DEF Flip
<1>10. ASSUME NEW u \in Users, Cooldown(u) PROVE AllTyped'
  BY <1>10, <1>c DEF Cooldown
<1>11. ASSUME NEW t \in Tokens, Lapse(t) PROVE AllTyped'
  BY <1>11, <1>c DEF Lapse, TokenType
<1>12. ASSUME NEW c \in Keys, NEW s \in Statuses, Reported(c, s) PROVE AllTyped'
  BY <1>12, <1>c, StatusWritten DEF Reported
<1>13. ASSUME NEW c \in Keys, GiveUp(c) PROVE AllTyped'
  BY <1>13, <1>c, QuotaTyped, StatusNames, StatusWritten DEF GiveUp
<1>14. ASSUME NEW c \in Keys, Settle(c) PROVE AllTyped'
  <2>1. \A n : Took(c, n) \cup Missed(c, n) \subseteq Reservations
    BY DEF Took, Missed, PendingUpdates
  <2>2. quota' \in [Reservations -> QuotaType]
    BY <1>14 DEF Settle, QuotaType, Active
  <2> QED BY <1>14, <1>c, <2>1, <2>2 DEF Settle
<1>15. ASSUME Crash PROVE AllTyped'
  <2>1. calls' \in [Calls -> CallType] /\ CallsOK'
    BY <1>15 DEF Crash, NoCall, CallType, CallsOK
  <2>2. taken' \in [Keys -> Nat] /\ listed' \in [Keys -> SUBSET Nat]
    BY <1>15, EffectTyped DEF Crash, CallsOK
  <2>3. crashes' \in 0..MaxCrashes
    BY <1>15, LimitsAssumption DEF Crash
  <2> QED BY <1>15, <2>1, <2>2, <2>3 DEF Crash
<1>16. ASSUME UNCHANGED vars PROVE AllTyped'
  BY <1>16, <1>c DEF vars
<1>17. AllTyped'
  <2> HIDE DEF AllTyped
  <2> QED
    BY <1>1, <1>2, <1>3, <1>4, <1>6, <1>7, <1>8, <1>9, <1>10, <1>11, <1>12, <1>13, <1>14, <1>15,
       <1>16 DEF Next
<1> QED BY <1>q, <1>17

(* Rows and requests keep their types, whatever fails in between.          *)
THEOREM TypeCorrect == Spec => []TypeOK
<1>1. Typed => TypeOK
  BY DEF Typed
<1> QED BY TypedInit, TypedStep, <1>1, PTL DEF Spec

-----------------------------------------------------------------------------
(* An order that exists stays: no row is deleted.                          *)
LEMMA OrdersStay ==
  ASSUME Typed, [Next]_vars
  PROVE  \A c \in Keys : Exists(c) => Exists(c)'
<1>1. orders \in [Keys -> OrderType]
  BY DEF Typed, TypeOK, OrderType
<1>2. ASSUME NEW k \in Calls, NEW u \in Users, NEW c \in Keys, NEW m \in Contents,
             NEW t \in Tokens \cup {None}, Place(k, u, c, m, t)
      PROVE  \A d \in Keys : Exists(d) => Exists(d)'
  BY <1>1, <1>2, NoneAssumption DEF Place, NewOrder, Exists
<1>3. ASSUME NEW k \in Calls, Fails(k) \/ IsUnknown(k)
      PROVE  \A d \in Keys : Exists(d) => Exists(d)'
  BY <1>1, <1>3 DEF Fails, IsUnknown, Exists, OrderType
<1>4. ASSUME NEW k \in Calls, NativeOk(k)
      PROVE  \A d \in Keys : Exists(d) => Exists(d)'
  <2>1. \A o \in OrderType : Acked(k, o).user = o.user
    BY DEF Acked, OrderType
  <2> QED BY <1>1, <1>4, <2>1 DEF NativeOk, Exists
<1>5. ASSUME NEW c \in Keys, GiveUp(c) PROVE \A d \in Keys : Exists(d) => Exists(d)'
  BY <1>1, <1>5 DEF GiveUp, Exists, OrderType
<1>6. ASSUME NEW c \in Keys, NEW s \in Statuses, Reported(c, s)
      PROVE  \A d \in Keys : Exists(d) => Exists(d)'
  BY <1>1, <1>6 DEF Reported, Exists, OrderType
<1>7. CASE UNCHANGED orders
  BY <1>7 DEF Exists
<1>8. ASSUME NEW k \in Calls, GateBlocks(k) \/ GateUnready(k) \/ NativeRefused(k) \/ NativeRaised(k)
      PROVE  \A d \in Keys : Exists(d) => Exists(d)'
  BY <1>3, <1>8 DEF GateBlocks, GateUnready, NativeRefused, NativeRaised
<1> QED
  BY <1>2, <1>4, <1>5, <1>6, <1>7, <1>8
     DEF Next, AskPlace, AskUpdate, Update, Cancel, Send, Flip, Cooldown, Lapse, Settle, Crash, db, vars

(* A form has one place request, before its one native call, and only then *)
(* is there an order.                                                      *)
SendOnce ==
  /\ \A c \in Keys : sends[c] <= 1 /\ (sends[c] # 0 => Exists(c))
  /\ \A k \in Calls : calls[k].kind = "place" =>
       /\ Exists(calls[k].key)
       /\ calls[k].phase = "waiting" => sends[calls[k].key] = 0
       /\ \A j \in Calls : calls[j].kind = "place" /\ calls[j].key = calls[k].key => j = k

LEMMA SendOnceInit == Init => SendOnce
BY DEF Init, SendOnce, NoCall

LEMMA SendOnceStep == Typed /\ SendOnce /\ [Next]_vars => SendOnce'
<1> SUFFICES ASSUME Typed, SendOnce, [Next]_vars PROVE SendOnce'
  OBVIOUS
<1>1. /\ calls \in [Calls -> CallType] /\ sends \in [Keys -> Nat] /\ CallsOK
      /\ orders \in [Keys -> OrderType]
  BY DEF Typed, TypeOK, CallType, OrderType
<1>2. \A c \in Keys : Exists(c) => Exists(c)'
  BY OrdersStay
<1>3. ASSUME NEW k \in Calls, NEW u \in Users, NEW c \in Keys, NEW m \in Contents,
             NEW t \in Tokens \cup {None}, Place(k, u, c, m, t)
      PROVE  SendOnce'
  <2>1. ~Exists(c) /\ sends[c] = 0 /\ sends' = sends
    BY <1>3 DEF Place, SendOnce
  <2>2. Exists(c)'
    BY <1>1, <1>3, NoneAssumption DEF Place, NewOrder, Exists
  <2>3. /\ calls'[k].kind = "place" /\ calls'[k].key = c
        /\ \A j \in Calls : j # k => calls'[j] = calls[j]
    BY <1>1, <1>3 DEF Place, NewCall
  <2>4. \A j \in Calls : calls[j].kind = "place" => calls[j].key # c /\ calls[j].key \in Keys
    BY <1>1, <2>1 DEF SendOnce, CallsOK
  <2> QED BY <1>2, <2>1, <2>2, <2>3, <2>4 DEF SendOnce
<1>4. ASSUME sends' = sends,
             \A j \in Calls : calls'[j] = calls[j] \/ calls'[j].kind # "place"
      PROVE  SendOnce'
  BY <1>1, <1>2, <1>4 DEF SendOnce, CallsOK
<1>5. ASSUME NEW k \in Calls, Send(k) PROVE SendOnce'
  <2>1. \A j \in Calls : calls'[j].kind = calls[j].kind /\ calls'[j].key = calls[j].key
                        /\ (calls'[j].phase = "waiting" => calls[j].phase = "waiting" /\ j # k)
    BY <1>1, <1>5 DEF Send, CallType
  <2>2. CASE calls[k].kind = "place"
    <3>1. calls[k].key \in Keys /\ sends[calls[k].key] = 0 /\ Exists(calls[k].key)
      BY <1>1, <1>5, <2>2 DEF Send, AtGate, SendOnce, CallsOK
    <3>2. \A d \in Keys : sends'[d] = IF d = calls[k].key THEN 1 ELSE sends[d]
      BY <1>1, <1>5, <2>2, <3>1 DEF Send
    <3> QED BY <1>1, <1>2, <2>1, <2>2, <3>1, <3>2 DEF SendOnce, CallsOK
  <2>3. CASE calls[k].kind # "place"
    BY <1>1, <1>2, <1>5, <2>1, <2>3 DEF Send, SendOnce, CallsOK
  <2> QED BY <2>2, <2>3
<1>6. ASSUME NEW k \in Calls, Ends(k), sends' = sends PROVE SendOnce'
  BY <1>1, <1>4, <1>6 DEF Ends, NoCall
<1>7. ASSUME NEW k \in Calls, GateBlocks(k) \/ GateUnready(k) \/ NativeRefused(k)
             \/ NativeRaised(k) \/ NativeOk(k)
      PROVE  SendOnce'
  BY <1>6, <1>7 DEF GateBlocks, GateUnready, NativeRefused, NativeRaised, NativeOk, Fails, IsUnknown
<1>8. ASSUME NEW k \in Calls, NEW u \in Users, NEW c \in Keys, NEW m \in Contents,
             NEW t \in Tokens \cup {None}, Update(k, u, c, m, t)
      PROVE  SendOnce'
  BY <1>1, <1>4, <1>8 DEF Update, NewCall, history
<1>9. CASE UNCHANGED <<calls, sends>>
  BY <1>1, <1>2, <1>9 DEF SendOnce, CallsOK
<1>10. CASE Crash
  BY <1>1, <1>2, <1>10 DEF Crash, NoCall, SendOnce
<1>11. ASSUME NEW k \in Calls, NEW u \in Users, NEW c \in Keys, Cancel(k, u, c) PROVE SendOnce'
  BY <1>1, <1>4, <1>11 DEF Cancel, NewCall, history
<1> QED
  BY <1>3, <1>5, <1>7, <1>8, <1>9, <1>10, <1>11
     DEF Next, AskPlace, AskUpdate, Flip, Cooldown, Lapse, Reported, GiveUp, Settle, history, vars

(* Double clicks, retries after an unknown outcome and restarts: one form, *)
(* at most one native call.                                                *)
THEOREM OneSendPerForm == Spec => []SentAtMostOnce
<1>1. SendOnce => SentAtMostOnce
  BY DEF SendOnce, SentAtMostOnce
<1> QED BY TypedInit, TypedStep, SendOnceInit, SendOnceStep, <1>1, PTL DEF Spec

-----------------------------------------------------------------------------
(* A token that was not claimed is the only one that can be.               *)
ClaimOnce == \A t \in Tokens : claims[t] <= 1 /\ (tokens[t].state # "spent" => claims[t] = 0)

LEMMA ClaimOnceInit == Init => ClaimOnce
BY DEF Init, ClaimOnce

LEMMA ClaimOnceStep == Typed /\ ClaimOnce /\ [Next]_vars => ClaimOnce'
<1> SUFFICES ASSUME Typed, ClaimOnce, [Next]_vars PROVE ClaimOnce'
  OBVIOUS
<1>1. tokens \in [Tokens -> TokenType] /\ claims \in [Tokens -> Nat]
  BY DEF Typed, TypeOK, TokenType
<1>2. ASSUME NEW t \in Tokens \cup {None}, NEW u, NEW m, Confirmed(t, u, m), Claim(t)
      PROVE  ClaimOnce'
  <2>1. CASE t = None
    BY <1>2, <2>1 DEF Claim, ClaimOnce
  <2>2. CASE t # None
    <3>1. t \in Tokens /\ tokens[t].state = "live" /\ claims[t] = 0
      BY <1>2, <2>2 DEF Confirmed, Claimable, ClaimOnce
    <3>2. \A x \in Tokens : claims'[x] = IF x = t THEN 1 ELSE claims[x]
      BY <1>1, <1>2, <2>2, <3>1 DEF Claim
    <3>3. \A x \in Tokens : tokens'[x].state = IF x = t THEN "spent" ELSE tokens[x].state
      BY <1>1, <1>2, <2>2, <3>1 DEF Claim, TokenType
    <3> QED BY <3>2, <3>3 DEF ClaimOnce
  <2> QED BY <2>1, <2>2
<1>3. ASSUME NEW k \in Calls, NEW u \in Users, NEW c \in Keys, NEW m \in Contents,
             NEW t \in Tokens \cup {None}, Place(k, u, c, m, t) \/ Update(k, u, c, m, t)
      PROVE  ClaimOnce'
  BY <1>2, <1>3 DEF Place, Update
<1>4. ASSUME NEW u \in Users, NEW c \in Keys, NEW m \in Contents, NEW t \in Tokens,
             AskPlace(u, c, m, t) \/ AskUpdate(u, c, m, t)
      PROVE  ClaimOnce'
  BY <1>1, <1>4 DEF AskPlace, AskUpdate, Unused, Issue, ClaimOnce, history
<1>5. ASSUME NEW t \in Tokens, Lapse(t) PROVE ClaimOnce'
  BY <1>1, <1>5 DEF Lapse, ClaimOnce, TokenType, history
<1>6. CASE UNCHANGED <<tokens, claims>>
  BY <1>6 DEF ClaimOnce
<1>7. ASSUME NEW k \in Calls, GateBlocks(k) \/ GateUnready(k) \/ NativeRefused(k) \/ NativeRaised(k)
             \/ NativeOk(k) \/ Send(k)
      PROVE  UNCHANGED <<tokens, claims>>
  BY <1>7 DEF GateBlocks, GateUnready, NativeRefused, NativeRaised, NativeOk, Send, Fails, IsUnknown, db
<1> QED
  BY <1>3, <1>4, <1>5, <1>6, <1>7
     DEF Next, Cancel, Flip, Cooldown, Reported, GiveUp, Settle, Crash, db, history, vars

(* A confirmation is spent by the transaction that decides, or not at all. *)
THEOREM OneDecisionPerToken == Spec => []TokenBuysOneDecision
<1>1. ClaimOnce => TokenBuysOneDecision
  BY DEF ClaimOnce, TokenBuysOneDecision
<1> QED BY TypedInit, TypedStep, ClaimOnceInit, ClaimOnceStep, <1>1, PTL DEF Spec

-----------------------------------------------------------------------------
(* A spent token's row is never written again.                             *)
LEMMA SpentStays ==
  ASSUME Typed, [Next]_vars, NEW t \in Tokens, tokens[t].state = "spent"
  PROVE  tokens'[t] = tokens[t]
<1>1. tokens \in [Tokens -> TokenType]
  BY DEF Typed, TypeOK, TokenType
<1>2. ASSUME NEW k \in Calls, NEW u \in Users, NEW c \in Keys, NEW m \in Contents,
             NEW x \in Tokens \cup {None}, Place(k, u, c, m, x) \/ Update(k, u, c, m, x)
      PROVE  tokens'[t] = tokens[t]
  BY <1>1, <1>2 DEF Place, Update, Claim, Confirmed, Claimable
<1>3. ASSUME NEW u \in Users, NEW c \in Keys, NEW m \in Contents, NEW x \in Tokens,
             AskPlace(u, c, m, x) \/ AskUpdate(u, c, m, x)
      PROVE  tokens'[t] = tokens[t]
  BY <1>1, <1>3 DEF AskPlace, AskUpdate, Unused, Issue
<1>4. ASSUME NEW x \in Tokens, Lapse(x) PROVE tokens'[t] = tokens[t]
  BY <1>1, <1>4 DEF Lapse
<1>5. CASE UNCHANGED tokens
  BY <1>5
<1>6. ASSUME NEW k \in Calls, GateBlocks(k) \/ GateUnready(k) \/ NativeRefused(k) \/ NativeRaised(k)
             \/ NativeOk(k) \/ Send(k)
      PROVE  UNCHANGED tokens
  BY <1>6 DEF GateBlocks, GateUnready, NativeRefused, NativeRaised, NativeOk, Send, Fails, IsUnknown, db
<1> QED
  BY <1>2, <1>3, <1>4, <1>5, <1>6
     DEF Next, Cancel, Flip, Cooldown, Reported, GiveUp, Settle, Crash, db, vars

Paid(call) ==
  call.kind \in {"place", "update"} =>
    /\ call.token \in Tokens
    /\ tokens[call.token] = [state |-> "spent", user |-> call.user, hash |-> call.what]

LEMMA ClaimPays ==
  ASSUME Typed, Mode = "real", NEW kind, NEW u, NEW c, NEW m, NEW t \in Tokens \cup {None},
         Confirmed(t, u, m), Claim(t)
  PROVE  Paid(NewCall(kind, u, c, m, t))'
<1>1. t \in Tokens /\ tokens[t] \in TokenType /\ tokens[t].user = u /\ tokens[t].hash = m
  BY DEF Typed, TypeOK, TokenType, Confirmed, Claimable
<1>2. t # None
  BY <1>1, NoneAssumption
<1>3. tokens'[t] = [tokens[t] EXCEPT !.state = "spent"]
  BY <1>1, <1>2 DEF Claim, Typed, TypeOK
<1>4. tokens'[t] = [state |-> "spent", user |-> u, hash |-> m]
  BY <1>1, <1>3 DEF TokenType
<1> QED BY <1>1, <1>4 DEF Paid, NewCall

LEMMA PaidStays ==
  ASSUME Typed, [Next]_vars, NEW k \in Calls, Paid(calls[k]),
         calls'[k].kind \in {"place", "update"} =>
           /\ calls[k].kind \in {"place", "update"} /\ calls'[k].token = calls[k].token
           /\ calls'[k].user = calls[k].user /\ calls'[k].what = calls[k].what
  PROVE  Paid(calls[k])'
BY SpentStays DEF Paid

AllPaid == Mode = "real" => \A k \in Calls : Paid(calls[k])

LEMMA AllPaidInit == Init => AllPaid
BY DEF Init, AllPaid, Paid, NoCall

LEMMA AllPaidStep == Typed /\ AllPaid /\ [Next]_vars => AllPaid'
<1> SUFFICES ASSUME Typed, AllPaid, [Next]_vars, Mode = "real" PROVE AllPaid'
  BY DEF AllPaid
<1> DEFINE Keeps(j) == calls'[j].kind \in {"place", "update"} =>
             /\ calls[j].kind \in {"place", "update"} /\ calls'[j].token = calls[j].token
             /\ calls'[j].user = calls[j].user /\ calls'[j].what = calls[j].what
<1>1. calls \in [Calls -> CallType] /\ \A j \in Calls : Paid(calls[j])
  BY DEF Typed, TypeOK, CallType, AllPaid
<1>2. ASSUME NEW k \in Calls, \A j \in Calls : j # k => calls'[j] = calls[j],
             Paid(calls[k])' \/ Keeps(k)
      PROVE  AllPaid'
  <2>1. ASSUME NEW j \in Calls PROVE Paid(calls[j])'
    BY <1>1, <1>2, PaidStays
  <2> QED BY <2>1 DEF AllPaid
<1>3. ASSUME NEW k \in Calls, NEW u \in Users, NEW c \in Keys, NEW m \in Contents,
             NEW t \in Tokens \cup {None}, Place(k, u, c, m, t) \/ Update(k, u, c, m, t)
      PROVE  AllPaid'
  <2>1. PICK kind \in {"place", "update"} :
          calls' = [calls EXCEPT ![k] = NewCall(kind, u, c, m, t)]
    BY <1>3 DEF Place, Update
  <2>2. Paid(NewCall(kind, u, c, m, t))'
    BY <1>3, ClaimPays DEF Place, Update
  <2>3. calls'[k] = NewCall(kind, u, c, m, t) /\ \A j \in Calls : j # k => calls'[j] = calls[j]
    BY <1>1, <2>1
  <2>4. Paid(calls[k])'
    BY <2>2, <2>3 DEF Paid, NewCall
  <2> QED BY <1>2, <2>3, <2>4
<1>4. ASSUME NEW k \in Calls, NEW u \in Users, NEW c \in Keys, Cancel(k, u, c) PROVE AllPaid'
  BY <1>1, <1>2, <1>4 DEF Cancel, NewCall
<1>5. ASSUME NEW k \in Calls, Ends(k) PROVE AllPaid'
  BY <1>1, <1>2, <1>5 DEF Ends, NoCall
<1>6. ASSUME NEW k \in Calls, GateBlocks(k) \/ GateUnready(k) \/ NativeRefused(k)
             \/ NativeRaised(k) \/ NativeOk(k)
      PROVE  AllPaid'
  BY <1>5, <1>6 DEF GateBlocks, GateUnready, NativeRefused, NativeRaised, NativeOk, Fails, IsUnknown
<1>7. ASSUME NEW k \in Calls, Send(k) PROVE AllPaid'
  <2>1. Keeps(k) /\ \A j \in Calls : j # k => calls'[j] = calls[j]
    BY <1>1, <1>7 DEF Send, CallType
  <2> QED BY <1>2, <2>1
<1>8. CASE UNCHANGED calls
  <2>1. ASSUME NEW j \in Calls PROVE Paid(calls[j])'
    BY <1>1, <1>8, PaidStays
  <2> QED BY <2>1 DEF AllPaid
<1>9. CASE Crash
  BY <1>9 DEF Crash, NoCall, AllPaid, Paid
<1> QED
  BY <1>3, <1>4, <1>6, <1>7, <1>8, <1>9
     DEF Next, AskPlace, AskUpdate, Flip, Cooldown, Lapse, Reported, GiveUp, Settle, vars

(* What a real request sends is what its user confirmed, from the check to *)
(* the answer of the broker.                                               *)
THEOREM ConfirmedContent == Spec => []ConfirmedIsSent
<1>1. AllPaid => ConfirmedIsSent
  BY DEF AllPaid, Paid, ConfirmedIsSent
<1> QED BY TypedInit, TypedStep, AllPaidInit, AllPaidStep, <1>1, PTL DEF Spec

-----------------------------------------------------------------------------
LEMMA GateStep ==
  ASSUME Typed, [Next]_vars, NEW k \in Calls,
         calls[k].phase = "waiting", calls'[k].phase = "native"
  PROVE  calls[k].kind = "cancel" \/ ~Blocked(calls[k].user)
<1>1. calls \in [Calls -> CallType]
  BY DEF Typed, TypeOK, CallType
<1>2. ASSUME NEW j \in Calls, Send(j) PROVE calls[k].kind = "cancel" \/ ~Blocked(calls[k].user)
  BY <1>1, <1>2 DEF Send
<1>3. ASSUME NEW j \in Calls, NEW u \in Users, NEW c \in Keys, NEW m \in Contents,
             NEW t \in Tokens \cup {None}, Place(j, u, c, m, t) \/ Update(j, u, c, m, t)
      PROVE  FALSE
  BY <1>1, <1>3 DEF Place, Update, NewCall
<1>4. ASSUME NEW j \in Calls, NEW u \in Users, NEW c \in Keys, Cancel(j, u, c) PROVE FALSE
  BY <1>1, <1>4 DEF Cancel, NewCall
<1>5. ASSUME NEW j \in Calls, Ends(j) PROVE FALSE
  BY <1>1, <1>5 DEF Ends, NoCall
<1>6. ASSUME NEW j \in Calls, GateBlocks(j) \/ GateUnready(j) \/ NativeRefused(j)
             \/ NativeRaised(j) \/ NativeOk(j)
      PROVE  FALSE
  BY <1>5, <1>6 DEF GateBlocks, GateUnready, NativeRefused, NativeRaised, NativeOk, Fails, IsUnknown
<1>7. ~Crash /\ calls' # calls
  BY <1>1 DEF Crash, NoCall
<1> QED
  BY <1>2, <1>3, <1>4, <1>6, <1>7
     DEF Next, AskPlace, AskUpdate, Flip, Cooldown, Lapse, Reported, GiveUp, Settle, vars

(* A switch that goes on between the check and the lock stops the request. *)
THEOREM GateHolds == Spec => NothingSentWhileBlocked
<1>1. Typed /\ [Next]_vars =>
        [\A k \in Calls : calls[k].phase = "waiting" /\ calls'[k].phase = "native"
           => calls[k].kind = "cancel" \/ ~Blocked(calls[k].user)]_vars
  BY GateStep
<1> QED BY TypedInit, TypedStep, <1>1, PTL DEF Spec, NothingSentWhileBlocked

-----------------------------------------------------------------------------
(* The operators on a reservation leave what is settled alone.             *)
LEMMA SettledStays ==
  ASSUME NEW q \in [Reservations -> QuotaType], NEW r \in Reservations, NEW x,
         q[r].state \in {"confirmed", "released"}
  PROVE  /\ \A n : Reserve(q, x, n)[r] = q[r]
         /\ Confirm(q, x)[r] = q[r] /\ Release(q, x)[r] = q[r]
BY DEF Reserve, Confirm, Release

LEMMA SettledStep ==
  ASSUME Typed, [Next]_vars, NEW r \in Reservations,
         quota[r].state \in {"confirmed", "released"}
  PROVE  quota'[r] = quota[r]
<1>1. quota \in [Reservations -> QuotaType]
  BY DEF Typed, TypeOK, QuotaType
<1>2. ASSUME NEW k \in Calls, NEW u \in Users, NEW c \in Keys, NEW m \in Contents,
             NEW t \in Tokens \cup {None}, Place(k, u, c, m, t)
      PROVE  quota'[r] = quota[r]
  <2>1. quota' = Reserve(quota, PlaceRes(c), m.qty)
    BY <1>2 DEF Place
  <2> QED BY <1>1, <2>1, SettledStays
<1>3. ASSUME NEW k \in Calls, NEW u \in Users, NEW c \in Keys, NEW m \in Contents,
             NEW t \in Tokens \cup {None}, Update(k, u, c, m, t)
      PROVE  quota'[r] = quota[r]
  BY <1>1, <1>3, SettledStays DEF Update
<1>4. ASSUME NEW k \in Calls, GateBlocks(k) \/ NativeRefused(k)
      PROVE  quota'[r] = quota[r]
  BY <1>1, <1>4, SettledStays DEF GateBlocks, NativeRefused, Fails
<1>5. ASSUME NEW k \in Calls, NativeOk(k) PROVE quota'[r] = quota[r]
  BY <1>1, <1>5, SettledStays DEF NativeOk
<1>6. ASSUME NEW c \in Keys, GiveUp(c) PROVE quota'[r] = quota[r]
  BY <1>1, <1>6, SettledStays DEF GiveUp
<1>7. ASSUME NEW c \in Keys, Settle(c) PROVE quota'[r] = quota[r]
  <2>1. \A n : r \notin Took(c, n) \cup Missed(c, n)
    BY DEF Took, Missed, PendingUpdates
  <2> QED BY <1>7, <2>1 DEF Settle
<1>8. CASE UNCHANGED quota
  BY <1>8
<1>9. ASSUME NEW k \in Calls, GateUnready(k) \/ NativeRaised(k) \/ Send(k) PROVE UNCHANGED quota
  BY <1>9 DEF GateUnready, NativeRaised, Send, IsUnknown, db
<1> QED
  BY <1>2, <1>3, <1>4, <1>5, <1>6, <1>7, <1>8, <1>9
     DEF Next, AskPlace, AskUpdate, Cancel, Flip, Cooldown, Lapse, Reported, Crash, db, vars

(* Late failures, retries and the watchdog settle a reservation once.      *)
THEOREM SettlementIsFinal == Spec => SettledOnce
<1>1. Typed /\ [Next]_vars =>
        [\A r \in Reservations :
           quota[r].state \in {"confirmed", "released"} => quota'[r] = quota[r]]_vars
  BY SettledStep
<1> QED BY TypedInit, TypedStep, <1>1, PTL DEF Spec, SettledOnce

-----------------------------------------------------------------------------
(* Sums of reserved quantities.                                            *)

LEMMA ReservationsFinite == IsFiniteSet(Reservations)
<1>1. IsFiniteSet(Contents \cup {None})
  BY FiniteAssumption, FS_AddElement
<1> QED BY <1>1, FiniteAssumption, FS_Product DEF Reservations

LEMMA QtyNat ==
  ASSUME NEW q \in [Reservations -> QuotaType], NEW R \in SUBSET Reservations
  PROVE  QtyOf(q, R) \in Nat
<1> DEFINE f == [r \in R |-> q[r].qty]
<1>1. IsFiniteSet(R) /\ \A r \in R : f[r] \in Nat
  BY ReservationsFinite, FS_Subset DEF QuotaType
<1> HIDE DEF f
<1>2. SumOver(f, R) \in Nat
  BY <1>1, SumNat
<1> QED BY <1>2 DEF QtyOf, f

(* Fewer reservations, each with the quantity it had.                      *)
LEMMA QtyUpTo ==
  ASSUME NEW p \in [Reservations -> QuotaType], NEW q \in [Reservations -> QuotaType],
         NEW R \in SUBSET Reservations, NEW T \in SUBSET R,
         \A r \in T : p[r].qty = q[r].qty
  PROVE  QtyOf(p, T) <= QtyOf(q, R)
<1> DEFINE f == [r \in T |-> p[r].qty]
           g == [r \in R |-> q[r].qty]
<1>1. IsFiniteSet(R) /\ IsFiniteSet(T) /\ \A r \in R : g[r] \in Nat
  BY ReservationsFinite, FS_Subset DEF QuotaType
<1>2. \A r \in T : f[r] = g[r]
  OBVIOUS
<1> HIDE DEF f, g
<1>3. SumOver(f, T) = SumOver(g, T)
  BY <1>1, <1>2, SumEqual
<1>4. SumOver(g, T) <= SumOver(g, R)
  BY <1>1, SumSubset
<1> QED BY <1>3, <1>4 DEF QtyOf, f, g

(* One more reservation.                                                   *)
LEMMA QtyPlus ==
  ASSUME NEW q \in [Reservations -> QuotaType], NEW R \in SUBSET Reservations,
         NEW r \in Reservations, r \notin R
  PROVE  QtyOf(q, R \cup {r}) = QtyOf(q, R) + q[r].qty
<1> DEFINE f == [x \in R |-> q[x].qty]
           g == [x \in R \cup {r} |-> q[x].qty]
<1>1. IsFiniteSet(R) /\ \A x \in R \cup {r} : g[x] \in Nat
  BY ReservationsFinite, FS_Subset DEF QuotaType
<1>2. (\A x \in R : f[x] = g[x]) /\ g[r] = q[r].qty
  OBVIOUS
<1> HIDE DEF f, g
<1>3. SumOver(f, R) = SumOver(g, R)
  BY <1>1, <1>2, SumEqual
<1>4. SumOver(g, R \cup {r}) = SumOver(g, R) + g[r]
  <2>1. \A x \in R \cup {r} : g[x] \in Int
    BY <1>1
  <2> QED BY <1>1, <2>1, SumAdd
<1> QED BY <1>2, <1>3, <1>4 DEF QtyOf, f, g

-----------------------------------------------------------------------------
(* What a step may do to a reservation: make it, or settle it.             *)
LEMMA QuotaStep ==
  ASSUME Typed, [Next]_vars, NEW r \in Reservations
  PROVE  \/ quota'[r] = quota[r]
         \/ /\ quota[r].state = "reserved" /\ quota'[r].state \in {"confirmed", "released"}
            /\ quota'[r].qty = quota[r].qty
         \/ /\ quota[r].state = "none"
            /\ \E k \in Calls, u \in Users, c \in Keys, m \in Contents, t \in Tokens \cup {None} :
                 Place(k, u, c, m, t) \/ Update(k, u, c, m, t)
<1> DEFINE Settles == /\ quota[r].state = "reserved" /\ quota'[r].state \in {"confirmed", "released"}
                      /\ quota'[r].qty = quota[r].qty
<1>1. quota \in [Reservations -> QuotaType]
  BY DEF Typed, TypeOK, QuotaType
<1>3. ASSUME NEW x, quota' = Confirm(quota, x) \/ quota' = Release(quota, x)
      PROVE  quota'[r] = quota[r] \/ Settles
  <2>1. CASE r = x
    BY <1>1, <1>3, <2>1 DEF Confirm, Release, QuotaType
  <2>2. CASE r # x
    BY <1>1, <1>3, <2>2 DEF Confirm, Release
  <2> QED BY <2>1, <2>2
<1>4. ASSUME NEW k \in Calls, GateBlocks(k) \/ NativeRefused(k) \/ NativeOk(k)
      PROVE  quota'[r] = quota[r] \/ Settles
  BY <1>3, <1>4 DEF GateBlocks, NativeRefused, NativeOk, Fails
<1>5. ASSUME NEW c \in Keys, GiveUp(c) PROVE quota'[r] = quota[r] \/ Settles
  BY <1>3, <1>5 DEF GiveUp
<1>6. ASSUME NEW c \in Keys, Settle(c) PROVE quota'[r] = quota[r] \/ Settles
  <2>1. \A n : r \in Took(c, n) \cup Missed(c, n) => quota[r].state = "reserved"
    BY DEF Took, Missed, PendingUpdates
  <2> QED BY <1>1, <1>6, <2>1 DEF Settle, QuotaType
<1>7. ASSUME NEW k \in Calls, NEW u \in Users, NEW c \in Keys, NEW m \in Contents,
             NEW t \in Tokens \cup {None}, Place(k, u, c, m, t) \/ Update(k, u, c, m, t)
      PROVE  quota'[r] = quota[r] \/ quota[r].state = "none"
  BY <1>1, <1>7 DEF Place, Update, Reserve
<1>8. CASE UNCHANGED quota
  BY <1>8
<1>9. ASSUME NEW k \in Calls, GateUnready(k) \/ NativeRaised(k) \/ Send(k) PROVE UNCHANGED quota
  BY <1>9 DEF GateUnready, NativeRaised, Send, IsUnknown, db
<1> QED
  BY <1>4, <1>5, <1>6, <1>7, <1>8, <1>9
     DEF Next, AskPlace, AskUpdate, Cancel, Flip, Cooldown, Lapse, Reported, Crash, db, vars

(* An order keeps its owner and its numbers.                               *)
LEMMA OrderKeeps ==
  ASSUME Typed, [Next]_vars, NEW d \in Keys, Exists(d)
  PROVE  orders'[d].user = orders[d].user /\ (orders[d].ids => orders'[d].ids)
<1> DEFINE Kept == orders'[d].user = orders[d].user /\ (orders[d].ids => orders'[d].ids)
<1>1. orders \in [Keys -> OrderType]
  BY DEF Typed, TypeOK, OrderType
<1>2. ASSUME NEW k \in Calls, NEW u \in Users, NEW c \in Keys, NEW m \in Contents,
             NEW t \in Tokens \cup {None}, Place(k, u, c, m, t)
      PROVE  Kept
  BY <1>1, <1>2 DEF Place, Exists
<1>3. ASSUME NEW k \in Calls, Fails(k) \/ IsUnknown(k) PROVE Kept
  BY <1>1, <1>3 DEF Fails, IsUnknown, OrderType
<1>4. ASSUME NEW k \in Calls, NativeOk(k) PROVE Kept
  <2>1. \A o \in OrderType : Acked(k, o).user = o.user /\ (o.ids => Acked(k, o).ids)
    BY DEF Acked, OrderType
  <2> QED BY <1>1, <1>4, <2>1 DEF NativeOk
<1>5. ASSUME NEW c \in Keys, GiveUp(c) PROVE Kept
  BY <1>1, <1>5 DEF GiveUp, OrderType
<1>6. ASSUME NEW c \in Keys, NEW s \in Statuses, Reported(c, s) PROVE Kept
  BY <1>1, <1>6 DEF Reported, OrderType
<1>7. CASE UNCHANGED orders
  BY <1>7
<1>8. ASSUME NEW k \in Calls, GateBlocks(k) \/ GateUnready(k) \/ NativeRefused(k) \/ NativeRaised(k)
      PROVE  Kept
  BY <1>3, <1>8 DEF GateBlocks, GateUnready, NativeRefused, NativeRaised
<1> QED
  BY <1>2, <1>4, <1>5, <1>6, <1>7, <1>8
     DEF Next, AskPlace, AskUpdate, Update, Cancel, Send, Flip, Cooldown, Lapse, Settle, Crash, db, vars

(* The broker's numbers come with the answer to a place.                   *)
LEMMA NumbersCome ==
  ASSUME Typed, [Next]_vars, NEW d \in Keys, ~orders[d].ids, orders'[d].ids
  PROVE  \E k \in Calls : NativeOk(k) /\ calls[k].kind = "place" /\ calls[k].key = d
<1>1. orders \in [Keys -> OrderType]
  BY DEF Typed, TypeOK, OrderType
<1>2. ASSUME NEW k \in Calls, NEW u \in Users, NEW c \in Keys, NEW m \in Contents,
             NEW t \in Tokens \cup {None}, Place(k, u, c, m, t)
      PROVE  FALSE
  BY <1>1, <1>2 DEF Place, NewOrder
<1>3. ASSUME NEW k \in Calls, Fails(k) \/ IsUnknown(k) PROVE FALSE
  BY <1>1, <1>3 DEF Fails, IsUnknown, OrderType
<1>4. ASSUME NEW k \in Calls, NativeOk(k)
      PROVE  calls[k].kind = "place" /\ calls[k].key = d
  <2>1. calls[k].key = d
    BY <1>1, <1>4 DEF NativeOk
  <2>2. orders'[d] = Acked(k, orders[d]) /\ orders[d] \in OrderType
    BY <1>1, <1>4, <2>1 DEF NativeOk
  <2>3. calls[k].kind # "place" => Acked(k, orders[d]).ids = orders[d].ids
    BY <2>2 DEF Acked, OrderType
  <2> QED BY <2>1, <2>2, <2>3
<1>5. ASSUME NEW c \in Keys, GiveUp(c) PROVE FALSE
  BY <1>1, <1>5 DEF GiveUp, OrderType
<1>6. ASSUME NEW c \in Keys, NEW s \in Statuses, Reported(c, s) PROVE FALSE
  BY <1>1, <1>6 DEF Reported, OrderType
<1>7. ~UNCHANGED orders
  OBVIOUS
<1>8. ASSUME NEW k \in Calls, GateBlocks(k) \/ GateUnready(k) \/ NativeRefused(k) \/ NativeRaised(k)
      PROVE  FALSE
  BY <1>3, <1>8 DEF GateBlocks, GateUnready, NativeRefused, NativeRaised
<1> QED
  BY <1>2, <1>4, <1>5, <1>6, <1>7, <1>8
     DEF Next, AskPlace, AskUpdate, Update, Cancel, Send, Flip, Cooldown, Lapse, Settle, Crash, db, vars

(* A reservation, like a broker id, belongs to an order.                   *)
RowsHaveOrders ==
  /\ \A r \in Reservations : quota[r].state # "none" => Exists(r[1])
  /\ \A c \in Keys : orders[c].ids => Exists(c)

LEMMA RowsInit == Init => RowsHaveOrders
BY DEF Init, RowsHaveOrders, Reservations, NoOrder

LEMMA RowsStep == Typed /\ SendOnce /\ RowsHaveOrders /\ [Next]_vars => RowsHaveOrders'
<1> SUFFICES ASSUME Typed, SendOnce, RowsHaveOrders, [Next]_vars PROVE RowsHaveOrders'
  OBVIOUS
<1>1. /\ orders \in [Keys -> OrderType] /\ quota \in [Reservations -> QuotaType]
      /\ calls \in [Calls -> CallType] /\ CallsOK
  BY DEF Typed, TypeOK, OrderType, QuotaType, CallType
<1>2. \A c \in Keys : Exists(c) => Exists(c)'
  BY OrdersStay
<1>3. \A r \in Reservations : r[1] \in Keys
  BY DEF Reservations
<1>4. ASSUME NEW r \in Reservations, quota'[r].state # "none" PROVE Exists(r[1])'
  <2>1. CASE quota[r].state # "none"
    BY <1>2, <1>3, <2>1 DEF RowsHaveOrders
  <2>2. CASE quota[r].state = "none"
    <3>1. PICK k \in Calls, u \in Users, c \in Keys, m \in Contents, t \in Tokens \cup {None} :
            Place(k, u, c, m, t) \/ Update(k, u, c, m, t)
      BY <1>4, <2>2, QuotaStep
    <3>2. CASE Place(k, u, c, m, t)
      <4>1. r[1] = c
        BY <1>1, <1>4, <2>2, <3>2 DEF Place, Reserve, PlaceRes
      <4>2. Exists(c)'
        BY <1>1, <3>2, NoneAssumption DEF Place, NewOrder, Exists
      <4> QED BY <4>1, <4>2
    <3>3. CASE Update(k, u, c, m, t)
      <4>1. r[1] = c
        BY <1>1, <1>4, <2>2, <3>3 DEF Update, Reserve, UpdateRes
      <4>2. Exists(c)
        BY <3>3, NoneAssumption DEF Update, UpdateAllowed, Exists
      <4> QED BY <1>2, <4>1, <4>2
    <3> QED BY <3>1, <3>2, <3>3
  <2> QED BY <2>1, <2>2
<1>5. ASSUME NEW c \in Keys, orders'[c].ids PROVE Exists(c)'
  <2>1. CASE orders[c].ids
    BY <1>2, <2>1 DEF RowsHaveOrders
  <2>2. CASE ~orders[c].ids
    BY <1>2, <1>5, <2>2, NumbersCome DEF SendOnce
  <2> QED BY <2>1, <2>2
<1> QED BY <1>4, <1>5 DEF RowsHaveOrders

-----------------------------------------------------------------------------
(* No step but a new reservation adds to what a user has reserved.         *)
LEMMA LimitKept ==
  ASSUME Typed, RowsHaveOrders, LimitHolds, [Next]_vars, NEW u \in Users,
         \A r \in Reservations :
           quota'[r].state \in Active /\ orders'[r[1]].user = u => quota[r].state \in Active
  PROVE  (QtyOf(quota, ActiveOf(quota, u)) <= DailyLimit)'
<1>1. quota \in [Reservations -> QuotaType] /\ quota' \in [Reservations -> QuotaType]
  BY TypedStep DEF Typed, TypeOK, QuotaType
<1>2. ActiveOf(quota, u) \in SUBSET Reservations
  BY DEF ActiveOf
<1>3. ASSUME NEW r \in Reservations, quota'[r].state \in Active, orders'[r[1]].user = u
      PROVE  quota[r].state \in Active /\ orders[r[1]].user = u /\ quota'[r].qty = quota[r].qty
  <2>1. quota[r].state \in Active
    BY <1>3
  <2>2. r[1] \in Keys /\ Exists(r[1])
    BY <2>1 DEF Reservations, RowsHaveOrders, Active
  <2>3. orders'[r[1]].user = orders[r[1]].user
    BY <2>2, OrderKeeps
  <2>4. quota'[r].qty = quota[r].qty
    BY <2>1, QuotaStep DEF Active
  <2> QED BY <1>3, <2>1, <2>3, <2>4
<1>4. (ActiveOf(quota, u))' \in SUBSET ActiveOf(quota, u)
  BY <1>3 DEF ActiveOf
<1>5. \A r \in (ActiveOf(quota, u))' : quota'[r].qty = quota[r].qty
  BY <1>3 DEF ActiveOf
<1>6. QtyOf(quota', (ActiveOf(quota, u))') <= QtyOf(quota, ActiveOf(quota, u))
  BY <1>1, <1>2, <1>4, <1>5, QtyUpTo
<1>7. /\ QtyOf(quota, ActiveOf(quota, u)) \in Nat
      /\ QtyOf(quota', (ActiveOf(quota, u))') \in Nat
  BY <1>1, <1>2, <1>4, QtyNat
<1>8. QtyOf(quota, ActiveOf(quota, u)) <= DailyLimit
  BY DEF LimitHolds
<1> QED BY <1>6, <1>7, <1>8, LimitsAssumption

(* A new reservation has been counted with the others of its user.         *)
LEMMA LimitCounted ==
  ASSUME Typed, RowsHaveOrders, LimitHolds, [Next]_vars,
         NEW u \in Users, NEW r \in Reservations, NEW n \in Nat,
         quota[r].state = "none", Reservable(r, u, n), quota' = Reserve(quota, r, n)
  PROVE  (QtyOf(quota, ActiveOf(quota, u)) <= DailyLimit)'
<1>1. quota \in [Reservations -> QuotaType] /\ quota' \in [Reservations -> QuotaType]
  BY TypedStep DEF Typed, TypeOK, QuotaType
<1> DEFINE A == ActiveOf(quota, u)
<1>2. A \in SUBSET Reservations /\ A \cup {r} \in SUBSET Reservations /\ r \notin A
  BY DEF ActiveOf, Active
<1>3. /\ \A x \in Reservations : x # r => quota'[x] = quota[x]
      /\ quota'[r].qty = n
  BY <1>1 DEF Reserve
<1>4. (ActiveOf(quota, u))' \in SUBSET (A \cup {r})
  <2> SUFFICES ASSUME NEW x \in Reservations, x # r, quota'[x].state \in Active,
                      orders'[x[1]].user = u
               PROVE  x \in A
    BY DEF ActiveOf
  <2>1. quota[x].state \in Active
    BY <1>3
  <2>2. x[1] \in Keys /\ Exists(x[1])
    BY <2>1 DEF Reservations, RowsHaveOrders, Active
  <2>3. orders[x[1]].user = u
    BY <2>2, OrderKeeps
  <2> QED BY <2>1, <2>3 DEF ActiveOf
<1>5. QtyOf(quota', A \cup {r}) = QtyOf(quota', A) + n
  <2>1. QtyOf(quota', A \cup {r}) = QtyOf(quota', A) + quota'[r].qty
    BY <1>1, <1>2, QtyPlus
  <2> QED BY <1>3, <2>1
<1>6. QtyOf(quota', A) <= QtyOf(quota, A)
  <2>1. \A x \in A : quota'[x].qty = quota[x].qty
    BY <1>2, <1>3
  <2> HIDE DEF A
  <2> QED BY <1>1, <1>2, <2>1, QtyUpTo
<1>7. QtyOf(quota', (ActiveOf(quota, u))') <= QtyOf(quota', A \cup {r})
  <2> HIDE DEF A
  <2> QED BY <1>1, <1>2, <1>4, QtyUpTo
<1>8. QtyOf(quota, A) + n <= DailyLimit
  BY DEF Reservable
<1>9. /\ QtyOf(quota, A) \in Nat /\ QtyOf(quota', A) \in Nat
      /\ QtyOf(quota', A \cup {r}) \in Nat /\ QtyOf(quota', (ActiveOf(quota, u))') \in Nat
  <2> HIDE DEF A
  <2> QED BY <1>1, <1>2, <1>4, QtyNat
<1> HIDE DEF A
<1> QED BY <1>5, <1>6, <1>7, <1>8, <1>9, LimitsAssumption

LEMMA LimitInit == Init => LimitHolds
<1> SUFFICES ASSUME Init, NEW u \in Users PROVE QtyOf(quota, ActiveOf(quota, u)) <= DailyLimit
  BY DEF LimitHolds
<1>1. ActiveOf(quota, u) = {}
  BY DEF Init, ActiveOf, Active
<1>2. QtyOf(quota, {}) = 0
  BY SumEmpty DEF QtyOf
<1> QED BY <1>1, <1>2, LimitsAssumption

LEMMA LimitStep == Typed /\ RowsHaveOrders /\ LimitHolds /\ [Next]_vars => LimitHolds'
<1> SUFFICES ASSUME Typed, RowsHaveOrders, LimitHolds, [Next]_vars, NEW w \in Users
             PROVE  (QtyOf(quota, ActiveOf(quota, w)) <= DailyLimit)'
  BY DEF LimitHolds
<1>1. /\ orders \in [Keys -> OrderType] /\ quota \in [Reservations -> QuotaType]
  BY DEF Typed, TypeOK, OrderType, QuotaType
<1>2. ASSUME NEW k \in Calls, NEW u \in Users, NEW c \in Keys, NEW m \in Contents,
             NEW t \in Tokens \cup {None}, Place(k, u, c, m, t)
      PROVE  (QtyOf(quota, ActiveOf(quota, w)) <= DailyLimit)'
  <2>1. /\ quota' = Reserve(quota, PlaceRes(c), m.qty) /\ Reservable(PlaceRes(c), u, m.qty)
        /\ ~Exists(c) /\ orders'[c].user = u
    BY <1>1, <1>2 DEF Place, PlaceAllowed, NewOrder
  <2>2. PlaceRes(c) \in Reservations /\ PlaceRes(c)[1] = c /\ m.qty \in Nat
    BY PlaceResTyped, ContentsAssumption DEF PlaceRes
  <2>3. quota[PlaceRes(c)].state = "none"
    BY <2>1, <2>2 DEF RowsHaveOrders
  <2>4. CASE w = u
    BY <2>1, <2>2, <2>3, <2>4, LimitCounted
  <2>5. CASE w # u
    <3>1. ASSUME NEW r \in Reservations, quota'[r].state \in Active, orders'[r[1]].user = w
          PROVE  quota[r].state \in Active
      <4>1. r # PlaceRes(c)
        BY <2>1, <2>2, <2>5, <3>1
      <4>2. quota'[r] = quota[r]
        BY <1>1, <2>1, <2>2, <4>1 DEF Reserve
      <4> QED BY <3>1, <4>2
    <3> QED BY <3>1, LimitKept
  <2> QED BY <2>4, <2>5
<1>3. ASSUME NEW k \in Calls, NEW u \in Users, NEW c \in Keys, NEW m \in Contents,
             NEW t \in Tokens \cup {None}, Update(k, u, c, m, t)
      PROVE  (QtyOf(quota, ActiveOf(quota, w)) <= DailyLimit)'
  <2> DEFINE r == UpdateRes(c, m)
             n == m.qty - orders[c].qty
  <2>1. orders[c].user = u /\ orders' = orders /\ r \in Reservations /\ r[1] = c
    BY <1>3, UpdateResTyped DEF Update, UpdateAllowed, UpdateRes
  <2>2. CASE m.qty > orders[c].qty /\ quota[r].state = "none" /\ w = u
    <3>1. m.qty \in Nat /\ orders[c].qty \in Nat
      BY <1>1, ContentsAssumption DEF OrderType
    <3>2. n \in Nat
      BY <2>2, <3>1
    <3>3. quota' = Reserve(quota, r, n) /\ Reservable(r, u, n)
      BY <1>3, <2>2 DEF Update, UpdateAllowed
    <3> HIDE DEF r, n
    <3> QED BY <2>1, <2>2, <3>2, <3>3, LimitCounted
  <2>3. CASE ~(m.qty > orders[c].qty /\ quota[r].state = "none")
    <3>1. quota' = quota
      BY <1>3, <2>3 DEF Update, Reserve
    <3> QED BY <3>1, LimitKept
  <2>4. CASE w # u
    <3>1. ASSUME NEW x \in Reservations, quota'[x].state \in Active, orders'[x[1]].user = w
          PROVE  quota[x].state \in Active
      <4>1. x # r
        BY <2>1, <2>4, <3>1
      <4>2. quota'[x] = quota[x]
        <5>1. quota' = quota \/ quota' = Reserve(quota, r, n)
          BY <1>3 DEF Update
        <5> HIDE DEF r, n
        <5> QED BY <1>1, <2>1, <4>1, <5>1 DEF Reserve
      <4> QED BY <3>1, <4>2
    <3> QED BY <3>1, LimitKept
  <2> QED BY <2>2, <2>3, <2>4
<1>4. CASE ~\E k \in Calls, u \in Users, c \in Keys, m \in Contents, t \in Tokens \cup {None} :
             Place(k, u, c, m, t) \/ Update(k, u, c, m, t)
  <2>1. ASSUME NEW r \in Reservations, quota'[r].state \in Active PROVE quota[r].state \in Active
    BY <1>4, <2>1, QuotaStep DEF Active
  <2> QED BY <2>1, LimitKept
<1> QED BY <1>2, <1>3, <1>4

(* Confirmed, refused, unknown or settled by the watchdog, in any order:   *)
(* what a user has reserved stays within the daily limit.                  *)
THEOREM LimitIsKept == Spec => []LimitHolds
BY TypedInit, TypedStep, SendOnceInit, SendOnceStep, RowsInit, RowsStep, LimitInit, LimitStep,
   PTL DEF Spec

-----------------------------------------------------------------------------
(* What the broker has is reserved.  The invariant behind it follows what  *)
(* is accounted for of an order, confirmed or returned on a list out of    *)
(* date, which only grows: an acknowledged quantity is accounted for; a    *)
(* request under way is backed by that and its own reservation; what was   *)
(* taken without an answer is backed by a reservation no request can       *)
(* return any more.                                                        *)

Accounted(r) == quota[r].state = "confirmed" \/ (quota[r].state = "released" /\ r \in misled)
ConfirmedOf(c) == QtyOf(quota, {r \in Reservations : r[1] = c /\ Accounted(r)})
Disputed(c) == \E r \in disputed : r[1] = c
Idle(r) == \A k \in Calls : calls[k].kind \in {"place", "update"} => ResOf(k) # r

(* A place under way: nobody else has touched its order.                   *)
PlaceFresh(k) ==
  LET c == calls[k].key IN
  /\ ~orders[c].ids /\ orders[c].status = "pending" /\ orders[c].qty = calls[k].what.qty
  /\ quota[PlaceRes(c)].state = "reserved" /\ quota[PlaceRes(c)].qty = calls[k].what.qty

Alone(k) == \A j \in Calls : calls[j].kind = "update" /\ ResOf(j) = ResOf(k) => j = k
UpdateBacked(k) ==
  LET c == calls[k].key  m == calls[k].what IN
  \/ Disputed(c)
  \/ m.qty <= ConfirmedOf(c)
  \/ /\ quota[ResOf(k)].state = "reserved"
     /\ m.qty <= ConfirmedOf(c) + quota[ResOf(k)].qty
     /\ Alone(k)

AckCovered(c) == orders[c].ids => Disputed(c) \/ orders[c].qty <= ConfirmedOf(c)
TakenCovered(c) ==
  \/ taken[c] <= ConfirmedOf(c)
  \/ Exists(c) /\ orders[c].status = "failed"
  \/ Disputed(c)
  \/ \E r \in Reservations : /\ r[1] = c /\ quota[r].state = "reserved" /\ Idle(r)
                             /\ taken[c] <= ConfirmedOf(c) + quota[r].qty

RequestOK(k) ==
  /\ calls[k].kind = "place" => PlaceFresh(k)
  /\ calls[k].kind = "update" => UpdateBacked(k)
  /\ calls[k].kind \in {"update", "cancel"} => orders[calls[k].key].ids
Requests == \A k \in Calls : RequestOK(k)

Covered == \A c \in Keys : AckCovered(c) /\ TakenCovered(c)

Ground == Typed /\ SendOnce /\ RowsHaveOrders

LEMMA DisputedStays == ASSUME [Next]_vars PROVE disputed \subseteq disputed' /\ misled \subseteq misled'
<1>1. ASSUME NEW k \in Calls, NEW u \in Users, NEW c \in Keys, NEW m \in Contents,
             NEW t \in Tokens \cup {None}, Place(k, u, c, m, t) \/ Update(k, u, c, m, t)
      PROVE  disputed \subseteq disputed' /\ misled \subseteq misled'
  BY <1>1 DEF Place, Update
<1>2. ASSUME NEW k \in Calls, GateBlocks(k) \/ GateUnready(k) \/ NativeRefused(k) \/ NativeRaised(k)
             \/ NativeOk(k) \/ Send(k)
      PROVE  disputed \subseteq disputed' /\ misled \subseteq misled'
  BY <1>2 DEF GateBlocks, GateUnready, NativeRefused, NativeRaised, NativeOk, Send, Fails, IsUnknown
<1> QED
  BY <1>1, <1>2 DEF Next, AskPlace, AskUpdate, Cancel, Flip, Cooldown, Lapse, Reported, GiveUp,
                    Settle, Crash, db, history, vars

LEMMA ConfirmedNat == ASSUME Typed, NEW c PROVE ConfirmedOf(c) \in Nat
<1>1. quota \in [Reservations -> QuotaType]
  BY DEF Typed, TypeOK, QuotaType
<1> QED BY <1>1, QtyNat DEF ConfirmedOf

LEMMA ConfirmedGrows ==
  ASSUME Typed, [Next]_vars, NEW c
  PROVE  /\ ConfirmedOf(c) \in Nat /\ ConfirmedOf(c)' \in Nat
         /\ ConfirmedOf(c) <= ConfirmedOf(c)'
<1>1. quota \in [Reservations -> QuotaType] /\ quota' \in [Reservations -> QuotaType]
  BY TypedStep DEF Typed, TypeOK, QuotaType
<1> DEFINE A == {r \in Reservations : r[1] = c /\ Accounted(r)}
           B == {r \in Reservations : r[1] = c /\ Accounted(r)'}
<1>2. A \in SUBSET B /\ B \in SUBSET Reservations /\ \A r \in A : quota[r].qty = quota'[r].qty
  BY SettledStep, DisputedStays DEF Accounted
<1>3. QtyOf(quota, A) <= QtyOf(quota', B) /\ QtyOf(quota, A) \in Nat /\ QtyOf(quota', B) \in Nat
  <2> HIDE DEF A, B
  <2>1. A \in SUBSET Reservations
    BY <1>2
  <2> QED BY <1>1, <1>2, <2>1, QtyUpTo, QtyNat
<1> QED BY <1>3 DEF ConfirmedOf

LEMMA ConfirmedPlus ==
  ASSUME Typed, [Next]_vars, NEW r \in Reservations,
         quota[r].state = "reserved", Accounted(r)'
  PROVE  ConfirmedOf(r[1]) + quota[r].qty <= ConfirmedOf(r[1])'
<1>1. quota \in [Reservations -> QuotaType] /\ quota' \in [Reservations -> QuotaType]
  BY TypedStep DEF Typed, TypeOK, QuotaType
<1> DEFINE A == {x \in Reservations : x[1] = r[1] /\ Accounted(x)}
           B == {x \in Reservations : x[1] = r[1] /\ Accounted(x)'}
<1>2. /\ A \cup {r} \in SUBSET B /\ B \in SUBSET Reservations /\ r \notin A
      /\ \A x \in A \cup {r} : quota[x].qty = quota'[x].qty
  BY SettledStep, QuotaStep, DisputedStays DEF Accounted
<1>3. QtyOf(quota, A \cup {r}) <= QtyOf(quota', B)
  <2> HIDE DEF A, B
  <2> QED BY <1>1, <1>2, QtyUpTo
<1>4. QtyOf(quota, A \cup {r}) = QtyOf(quota, A) + quota[r].qty
  <2> HIDE DEF A, B
  <2>1. A \in SUBSET Reservations
    BY <1>2
  <2> QED BY <1>1, <1>2, <2>1, QtyPlus
<1> QED BY <1>3, <1>4 DEF ConfirmedOf

LEMMA DisputedGrows == ASSUME [Next]_vars, NEW c PROVE Disputed(c) => Disputed(c)'
BY DisputedStays DEF Disputed

LEMMA FailedStays ==
  ASSUME Ground, Requests, [Next]_vars, NEW d \in Keys, Exists(d), orders[d].status = "failed"
  PROVE  Exists(d)' /\ orders'[d].status = "failed"
<1>1. orders \in [Keys -> OrderType]
  BY DEF Ground, Typed, TypeOK, OrderType
<1>0. Exists(d)'
  BY OrdersStay DEF Ground
<1>9. \A s \in Statuses : Mark(orders[d].status, s) = "failed"
  BY MarkKeepsFinal DEF FinalStatuses
<1>2. ASSUME NEW k \in Calls, NEW u \in Users, NEW c \in Keys, NEW m \in Contents,
             NEW t \in Tokens \cup {None}, Place(k, u, c, m, t)
      PROVE  orders'[d].status = "failed"
  BY <1>1, <1>2 DEF Place, Exists
<1>3. ASSUME NEW k \in Calls, Fails(k) \/ IsUnknown(k) PROVE orders'[d].status = "failed"
  BY <1>1, <1>3, <1>9, StatusNames DEF Fails, IsUnknown, OrderType
<1>4. ASSUME NEW k \in Calls, NativeOk(k) PROVE orders'[d].status = "failed"
  <2>1. CASE calls[k].key # d
    BY <1>1, <1>4, <2>1 DEF NativeOk
  <2>2. CASE calls[k].key = d
    <3>1. calls[k].kind # "place"
      BY <2>2 DEF Requests, RequestOK, PlaceFresh
    <3>2. Acked(k, orders[d]).status = "failed"
      BY <1>1, <1>9, <3>1, StatusNames DEF Acked, OrderType
    <3> QED BY <1>1, <1>4, <2>2, <3>2 DEF NativeOk
  <2> QED BY <2>1, <2>2
<1>5. ASSUME NEW c \in Keys, GiveUp(c) PROVE orders'[d].status = "failed"
  BY <1>1, <1>5 DEF GiveUp, OrderType
<1>6. ASSUME NEW c \in Keys, NEW s \in Statuses, Reported(c, s)
      PROVE  orders'[d].status = "failed"
  BY <1>1, <1>6, <1>9 DEF Reported, OrderType
<1>7. CASE UNCHANGED orders
  BY <1>0, <1>7
<1>8. ASSUME NEW k \in Calls, GateBlocks(k) \/ GateUnready(k) \/ NativeRefused(k) \/ NativeRaised(k)
      PROVE  orders'[d].status = "failed"
  BY <1>3, <1>8 DEF GateBlocks, GateUnready, NativeRefused, NativeRaised
<1> QED
  BY <1>0, <1>2, <1>4, <1>5, <1>6, <1>7, <1>8
     DEF Next, AskPlace, AskUpdate, Update, Cancel, Send, Flip, Cooldown, Lapse, Settle, Crash, db, vars

LEMMA AckStays ==
  ASSUME Ground, [Next]_vars, NEW c \in Keys, AckCovered(c),
         orders'[c].ids => orders[c].ids /\ orders'[c].qty = orders[c].qty
  PROVE  AckCovered(c)'
<1>1. SUFFICES ASSUME orders'[c].ids PROVE Disputed(c)' \/ orders'[c].qty <= ConfirmedOf(c)'
  BY DEF AckCovered
<1>2. /\ ConfirmedOf(c) \in Nat /\ ConfirmedOf(c)' \in Nat /\ ConfirmedOf(c) <= ConfirmedOf(c)'
  BY ConfirmedGrows DEF Ground
<1>3. orders[c].qty \in Nat
  BY DEF Ground, Typed, TypeOK
<1>4. Disputed(c) => Disputed(c)'
  BY DisputedGrows
<1> QED BY <1>1, <1>2, <1>3, <1>4 DEF AckCovered

LEMMA TakenStays ==
  ASSUME Ground, Requests, [Next]_vars, NEW c \in Keys, TakenCovered(c), taken'[c] = taken[c],
         \A r \in Reservations : r[1] = c /\ quota[r].state = "reserved" /\ Idle(r) =>
           \/ quota'[r] = quota[r] /\ Idle(r)'
           \/ Accounted(r)'
           \/ Disputed(c)' \/ taken[c] <= ConfirmedOf(c) \/ orders'[c].status = "failed"
  PROVE  TakenCovered(c)'
<1>1. /\ ConfirmedOf(c) \in Nat /\ ConfirmedOf(c)' \in Nat /\ ConfirmedOf(c) <= ConfirmedOf(c)'
  BY ConfirmedGrows DEF Ground
<1>2. taken[c] \in Nat /\ taken'[c] \in Nat
  BY DEF Ground, Typed, TypeOK
<1>3. CASE taken[c] <= ConfirmedOf(c)
  BY <1>1, <1>2, <1>3 DEF TakenCovered
<1>4. CASE Exists(c) /\ orders[c].status = "failed"
  BY <1>4, FailedStays DEF TakenCovered
<1>5. CASE Disputed(c)
  <2>1. Disputed(c)'
    BY <1>5, DisputedGrows
  <2> QED BY <2>1 DEF TakenCovered
<1>6. ASSUME NEW r \in Reservations, r[1] = c, quota[r].state = "reserved", Idle(r),
             taken[c] <= ConfirmedOf(c) + quota[r].qty
      PROVE  TakenCovered(c)'
  <2>0. quota[r].qty \in Nat /\ Exists(c)'
    BY <1>6, OrdersStay DEF Ground, Typed, TypeOK, RowsHaveOrders
  <2>1. CASE quota'[r] = quota[r] /\ Idle(r)'
    <3>1. taken'[c] <= ConfirmedOf(c)' + quota'[r].qty
      BY <1>1, <1>2, <1>6, <2>0, <2>1
    <3> QED BY <1>6, <2>1, <3>1 DEF TakenCovered
  <2>2. CASE Accounted(r)'
    <3>1. ConfirmedOf(c) + quota[r].qty <= ConfirmedOf(c)'
      BY <1>6, <2>2, ConfirmedPlus DEF Ground, Accounted
    <3>2. taken'[c] <= ConfirmedOf(c)'
      BY <1>1, <1>2, <1>6, <2>0, <3>1
    <3> QED BY <3>2 DEF TakenCovered
  <2>3. CASE Disputed(c)' \/ orders'[c].status = "failed"
    BY <2>0, <2>3 DEF TakenCovered
  <2> QED BY <1>3, <1>6, <2>1, <2>2, <2>3
<1> QED BY <1>3, <1>4, <1>5, <1>6 DEF TakenCovered

Same(k) == calls'[k].kind = calls[k].kind /\ calls'[k].key = calls[k].key
           /\ calls'[k].what = calls[k].what

LEMMA BackedStays ==
  ASSUME Ground, [Next]_vars, NEW k \in Calls, calls[k].kind = "update", Same(k), UpdateBacked(k),
         quota[ResOf(k)].state = "reserved" /\ Alone(k) =>
           \/ quota'[ResOf(k)] = quota[ResOf(k)] /\ Alone(k)'
           \/ quota'[ResOf(k)].state = "confirmed"
           \/ Disputed(calls[k].key)'
  PROVE  UpdateBacked(k)'
<1>0. PICK c \in Keys, m \in Contents : calls[k].key = c /\ calls[k].what = m
  BY DEF Ground, Typed, CallsOK
<1>9. PICK r \in Reservations : r = UpdateRes(c, m)
  BY UpdateResTyped
<1>1. /\ ConfirmedOf(c) \in Nat /\ ConfirmedOf(c)' \in Nat /\ ConfirmedOf(c) <= ConfirmedOf(c)'
  BY ConfirmedGrows DEF Ground
<1>2. m.qty \in Nat
  BY ContentsAssumption
<1>3. r[1] = c /\ ResOf(k) = r /\ ResOf(k)' = r
  BY <1>0, <1>9 DEF ResOf, UpdateRes, Same
<1>4. quota[r].qty \in Nat
  BY <1>3 DEF Ground, Typed, TypeOK
<1>5. calls'[k].key = c /\ calls'[k].what = m
  BY <1>0 DEF Same
<1>6. CASE Disputed(c)
  <2>1. Disputed(c)'
    BY <1>6, DisputedGrows
  <2> QED BY <1>5, <2>1 DEF UpdateBacked
<1>7. CASE m.qty <= ConfirmedOf(c)
  <2>1. m.qty <= ConfirmedOf(c)'
    BY <1>1, <1>2, <1>7
  <2> QED BY <1>5, <2>1 DEF UpdateBacked
<1>8. CASE quota[r].state = "reserved" /\ m.qty <= ConfirmedOf(c) + quota[r].qty /\ Alone(k)
  <2>1. CASE quota'[r] = quota[r] /\ Alone(k)'
    <3>1. m.qty <= ConfirmedOf(c)' + quota'[r].qty
      BY <1>1, <1>2, <1>4, <1>8, <2>1
    <3> QED BY <1>3, <1>5, <1>8, <2>1, <3>1 DEF UpdateBacked
  <2>2. CASE quota'[r].state = "confirmed"
    <3>1. ConfirmedOf(c) + quota[r].qty <= ConfirmedOf(c)'
      BY <1>3, <1>8, <2>2, ConfirmedPlus DEF Ground, Accounted
    <3>2. m.qty <= ConfirmedOf(c)'
      BY <1>1, <1>2, <1>4, <1>8, <3>1
    <3> QED BY <1>5, <3>2 DEF UpdateBacked
  <2>3. CASE Disputed(c)'
    BY <1>5, <2>3 DEF UpdateBacked
  <2> QED BY <1>8, <2>1, <2>2, <2>3, <1>0, <1>3, <1>5
<1> QED BY <1>0, <1>3, <1>6, <1>7, <1>8 DEF UpdateBacked

(* A request somebody else's step does not touch.                          *)
LEMMA RequestStays ==
  ASSUME Ground, Requests, [Next]_vars, NEW j \in Calls, Same(j),
         calls[j].kind = "place" =>
           /\ orders'[calls[j].key] = orders[calls[j].key]
           /\ quota'[PlaceRes(calls[j].key)] = quota[PlaceRes(calls[j].key)],
         calls[j].kind = "update" /\ quota[ResOf(j)].state = "reserved" /\ Alone(j) =>
           \/ quota'[ResOf(j)] = quota[ResOf(j)] /\ Alone(j)'
           \/ quota'[ResOf(j)].state = "confirmed"
           \/ Disputed(calls[j].key)'
  PROVE  RequestOK(j)'
<1>1. CASE calls[j].kind = "place"
  <2>1. PlaceFresh(j)
    BY <1>1 DEF Requests, RequestOK
  <2>2. PlaceFresh(j)'
    BY <1>1, <2>1 DEF PlaceFresh, Same
  <2> QED BY <1>1, <2>2 DEF RequestOK, Same
<1>2. CASE calls[j].kind \in {"update", "cancel"}
  <2>1. calls[j].key \in Keys /\ orders[calls[j].key].ids /\ Exists(calls[j].key)
    BY <1>2 DEF Requests, RequestOK, Ground, Typed, CallsOK, RowsHaveOrders
  <2>2. orders'[calls[j].key].ids
    BY <2>1, OrderKeeps DEF Ground
  <2>3. calls[j].kind = "update" => UpdateBacked(j)'
    BY BackedStays DEF Requests, RequestOK
  <2> QED BY <1>2, <2>2, <2>3 DEF RequestOK, Same
<1>3. CASE calls[j].kind \notin {"place", "update", "cancel"}
  BY <1>3 DEF RequestOK, Same
<1> QED BY <1>1, <1>2, <1>3

LEMMA AloneStays ==
  ASSUME NEW j \in Calls, Alone(j), Same(j),
         \A i \in Calls : calls'[i].kind = "update" => Same(i) \/ ResOf(i)' # ResOf(j)
  PROVE  Alone(j)'
BY DEF Alone, Same, ResOf

LEMMA IdleStays ==
  ASSUME NEW r, Idle(r),
         \A i \in Calls : calls'[i].kind \in {"place", "update"} => Same(i) \/ ResOf(i)' # r
  PROVE  Idle(r)'
BY DEF Idle, Same, ResOf

LEMMA ResNames ==
  ASSUME Ground, NEW k \in Calls
  PROVE  /\ calls[k].kind = "place" => ResOf(k) = PlaceRes(calls[k].key)
         /\ calls[k].kind = "update" => ResOf(k) = UpdateRes(calls[k].key, calls[k].what)
         /\ calls[k].kind \in {"place", "update"} =>
              /\ ResOf(k) \in Reservations /\ ResOf(k)[1] = calls[k].key
              /\ calls[k].key \in Keys /\ calls[k].what \in Contents
BY PlaceResTyped, UpdateResTyped DEF Ground, Typed, CallsOK, ResOf, PlaceRes, UpdateRes

LEMMA ResApart ==
  ASSUME NEW c, NEW d, NEW m \in Contents PROVE PlaceRes(c) # UpdateRes(d, m)
BY NoneAssumption DEF PlaceRes, UpdateRes

(* A request other than a place never has a place's order.                 *)
LEMMA KeysApart ==
  ASSUME Ground, Requests, NEW j \in Calls, NEW k \in Calls, j # k,
         calls[j].kind = "place", calls[k].kind # "none"
  PROVE  calls[j].key # calls[k].key
<1>1. CASE calls[k].kind = "place"
  BY <1>1 DEF Ground, SendOnce
<1>2. CASE calls[k].kind # "place"
  <2>1. calls[k].kind \in {"update", "cancel"}
    BY <1>2 DEF Ground, Typed, TypeOK
  <2>2. orders[calls[k].key].ids /\ ~orders[calls[j].key].ids
    BY <2>1 DEF Requests, RequestOK, PlaceFresh
  <2> QED BY <2>2
<1> QED BY <1>1, <1>2

-----------------------------------------------------------------------------
(* The requests, action by action.                                         *)

LEMMA PlaceRequests ==
  ASSUME Ground, Requests, [Next]_vars, NEW k \in Calls, NEW u \in Users, NEW c \in Keys,
         NEW m \in Contents, NEW t \in Tokens \cup {None}, Place(k, u, c, m, t)
  PROVE  Requests'
<1>1. /\ orders \in [Keys -> OrderType] /\ quota \in [Reservations -> QuotaType]
      /\ calls \in [Calls -> CallType]
  BY DEF Ground, Typed, TypeOK, OrderType, QuotaType, CallType
<1>2. /\ ~Exists(c) /\ quota' = Reserve(quota, PlaceRes(c), m.qty)
      /\ orders' = [orders EXCEPT ![c] = NewOrder(u, m)]
      /\ calls' = [calls EXCEPT ![k] = NewCall("place", u, c, m, t)]
  BY DEF Place
<1>3. quota[PlaceRes(c)].state = "none" /\ PlaceRes(c) \in Reservations
  BY <1>2, PlaceResTyped DEF Ground, RowsHaveOrders, PlaceRes
<1>4. /\ quota'[PlaceRes(c)] = [state |-> "reserved", qty |-> m.qty]
      /\ \A r \in Reservations : r # PlaceRes(c) => quota'[r] = quota[r]
  BY <1>1, <1>2, <1>3 DEF Reserve
<1>5. calls'[k].kind = "place" /\ calls'[k].key = c /\ calls'[k].what = m
  BY <1>1, <1>2 DEF NewCall
<1>6. RequestOK(k)'
  <2>1. orders'[c] = NewOrder(u, m)
    BY <1>1, <1>2
  <2>2. PlaceFresh(k)'
    BY <1>4, <1>5, <2>1 DEF PlaceFresh, NewOrder
  <2> QED BY <1>5, <2>2 DEF RequestOK
<1>7. ASSUME NEW j \in Calls, j # k PROVE RequestOK(j)'
  <2>1. calls'[j] = calls[j] /\ Same(j)
    BY <1>1, <1>2, <1>7 DEF Same
  <2>2. CASE calls[j].kind = "place"
    <3>1. calls[j].key \in Keys /\ calls[j].key # c
      BY <1>2, <2>2 DEF Ground, SendOnce, Typed, CallsOK
    <3>2. orders'[calls[j].key] = orders[calls[j].key]
      BY <1>1, <1>2, <3>1
    <3>3. quota'[PlaceRes(calls[j].key)] = quota[PlaceRes(calls[j].key)]
      BY <1>4, <3>1, PlaceResTyped DEF PlaceRes
    <3> QED BY <2>1, <2>2, <3>2, <3>3, RequestStays
  <2>3. CASE calls[j].kind = "update"
    <3>1. quota'[ResOf(j)] = quota[ResOf(j)]
      BY <1>4, <2>3, ResNames, ResApart
    <3>2. Alone(j) => Alone(j)'
      <4>1. \A i \in Calls : calls'[i].kind = "update" => Same(i)
        BY <1>1, <1>2, <1>5 DEF Same
      <4> QED BY <2>1, <4>1, AloneStays
    <3> QED BY <2>1, <2>3, <3>1, <3>2, RequestStays
  <2>4. CASE calls[j].kind \notin {"place", "update"}
    BY <2>1, <2>4, RequestStays
  <2> QED BY <2>2, <2>3, <2>4
<1> QED BY <1>6, <1>7 DEF Requests

LEMMA UpdateRequests ==
  ASSUME Ground, Requests, Covered, [Next]_vars, NEW k \in Calls, NEW u \in Users, NEW c \in Keys,
         NEW m \in Contents, NEW t \in Tokens \cup {None}, Update(k, u, c, m, t)
  PROVE  Requests'
<1>1. /\ orders \in [Keys -> OrderType] /\ quota \in [Reservations -> QuotaType]
      /\ calls \in [Calls -> CallType]
  BY DEF Ground, Typed, TypeOK, OrderType, QuotaType, CallType
<1>0. PICK r \in Reservations : r = UpdateRes(c, m)
  BY UpdateResTyped
<1>2. /\ orders[c].ids /\ orders' = orders /\ calls[k].phase = "idle"
      /\ calls' = [calls EXCEPT ![k] = NewCall("update", u, c, m, t)]
      /\ quota[r].state # "none" => r \in disputed'
      /\ quota' = IF m.qty > orders[c].qty THEN Reserve(quota, r, m.qty - orders[c].qty) ELSE quota
  BY <1>0 DEF Update, UpdateAllowed
<1>3. r[1] = c /\ m.qty \in Nat /\ orders[c].qty \in Nat
  BY <1>0, <1>1, ContentsAssumption DEF UpdateRes, OrderType
<1>4. /\ calls'[k].kind = "update" /\ calls'[k].key = c /\ calls'[k].what = m
      /\ ResOf(k)' = r
  BY <1>0, <1>1, <1>2 DEF NewCall, ResOf
<1>5. \A x \in Reservations : x # r \/ quota[r].state # "none" => quota'[x] = quota[x]
  BY <1>1, <1>2 DEF Reserve
<1>6. quota[r].state # "none" => Disputed(c)'
  BY <1>2, <1>3 DEF Disputed
<1>7. /\ ConfirmedOf(c) \in Nat /\ ConfirmedOf(c)' \in Nat /\ ConfirmedOf(c) <= ConfirmedOf(c)'
  BY ConfirmedGrows DEF Ground
<1>8. ASSUME NEW j \in Calls, j # k PROVE calls'[j] = calls[j] /\ Same(j)
  BY <1>1, <1>2, <1>8 DEF Same
<1>9. RequestOK(k)'
  <2>1. orders[c].qty <= ConfirmedOf(c) \/ Disputed(c)
    BY <1>2 DEF Covered, AckCovered
  <2>2. CASE Disputed(c) \/ quota[r].state # "none"
    <3>1. Disputed(c)'
      BY <1>6, <2>2, DisputedGrows
    <3> QED BY <1>2, <1>4, <3>1 DEF RequestOK, UpdateBacked
  <2>3. CASE m.qty <= orders[c].qty /\ ~Disputed(c)
    <3>1. m.qty <= ConfirmedOf(c)'
      BY <1>3, <1>7, <2>1, <2>3
    <3> QED BY <1>2, <1>4, <3>1 DEF RequestOK, UpdateBacked
  <2>4. CASE m.qty > orders[c].qty /\ quota[r].state = "none" /\ ~Disputed(c)
    <3>1. quota'[r] = [state |-> "reserved", qty |-> m.qty - orders[c].qty]
      BY <1>1, <1>2, <2>4 DEF Reserve
    <3>2. m.qty <= ConfirmedOf(c)' + quota'[r].qty
      BY <1>3, <1>7, <2>1, <2>4, <3>1
    <3>3. CASE Alone(k)'
      BY <1>2, <1>4, <3>1, <3>2, <3>3 DEF RequestOK, UpdateBacked
    <3>4. CASE ~Alone(k)'
      <4>1. PICK j \in Calls : calls'[j].kind = "update" /\ ResOf(j)' = r /\ j # k
        BY <1>4, <3>4 DEF Alone
      <4>2. calls[j].kind = "update" /\ ResOf(j) = r
        BY <1>8, <4>1 DEF ResOf
      <4>3. calls[j].key = c /\ calls[j].what = m
        BY <1>0, <4>2, ResNames DEF UpdateRes
      <4>4. m.qty <= ConfirmedOf(c)
        BY <2>4, <4>2, <4>3 DEF Requests, RequestOK, UpdateBacked
      <4>5. m.qty <= ConfirmedOf(c)'
        BY <1>3, <1>7, <4>4
      <4> QED BY <1>2, <1>4, <4>5 DEF RequestOK, UpdateBacked
    <3> QED BY <3>3, <3>4
  <2> QED BY <1>3, <2>2, <2>3, <2>4
<1>10. ASSUME NEW j \in Calls, j # k PROVE RequestOK(j)'
  <2>1. calls'[j] = calls[j] /\ Same(j)
    BY <1>8, <1>10
  <2>2. CASE calls[j].kind = "place"
    <3>1. calls[j].key \in Keys
      BY <2>2 DEF Ground, Typed, CallsOK
    <3>3. quota'[PlaceRes(calls[j].key)] = quota[PlaceRes(calls[j].key)]
      BY <1>0, <1>5, <3>1, PlaceResTyped, ResApart
    <3> QED BY <1>2, <2>1, <2>2, <3>3, RequestStays
  <2>3. CASE calls[j].kind = "update" /\ ResOf(j) # r
    <3>1. quota'[ResOf(j)] = quota[ResOf(j)]
      BY <1>5, <2>3, ResNames
    <3>2. Alone(j) => Alone(j)'
      <4>1. \A i \in Calls : calls'[i].kind = "update" => Same(i) \/ ResOf(i)' # ResOf(j)
        BY <1>4, <1>8, <2>3
      <4> QED BY <2>1, <4>1, AloneStays
    <3> QED BY <2>1, <2>3, <3>1, <3>2, RequestStays
  <2>4. CASE calls[j].kind = "update" /\ ResOf(j) = r
    <3>1. calls[j].key = c /\ calls'[j].key = c
      BY <1>3, <2>1, <2>4, ResNames
    <3>2. quota[ResOf(j)].state = "reserved" => Disputed(calls[j].key)'
      BY <1>6, <2>4, <3>1
    <3> QED BY <2>1, <2>4, <3>2, RequestStays
  <2>5. CASE calls[j].kind \notin {"place", "update"}
    BY <2>1, <2>5, RequestStays
  <2> QED BY <2>2, <2>3, <2>4, <2>5
<1> QED BY <1>9, <1>10 DEF Requests

(* What the end of a request writes: its own order and reservation.        *)
Ending(k) ==
  /\ calls[k].kind # "none" /\ Ends(k)
  /\ \A d \in Keys : d # calls[k].key => orders'[d] = orders[d]
  /\ \A r \in Reservations :
       r # ResOf(k) \/ calls[k].kind = "cancel" => quota'[r] = quota[r]

LEMMA EndingIs ==
  ASSUME Ground, NEW k \in Calls,
         GateBlocks(k) \/ GateUnready(k) \/ NativeRefused(k) \/ NativeRaised(k) \/ NativeOk(k)
  PROVE  Ending(k)
<1>1. /\ orders \in [Keys -> OrderType] /\ quota \in [Reservations -> QuotaType]
      /\ calls[k].phase # "idle" => calls[k].kind # "none"
  BY DEF Ground, Typed, TypeOK, OrderType, QuotaType, CallsOK
<1>2. calls[k].kind # "none" /\ (Fails(k) \/ IsUnknown(k) \/ NativeOk(k))
  BY <1>1 DEF GateBlocks, GateUnready, NativeRefused, NativeRaised, NativeOk, AtGate
<1>3. CASE Fails(k)
  BY <1>1, <1>2, <1>3 DEF Fails, Ending, Release
<1>4. CASE IsUnknown(k)
  BY <1>1, <1>2, <1>4 DEF IsUnknown, Ending
<1>5. CASE NativeOk(k)
  BY <1>1, <1>2, <1>5 DEF NativeOk, Ending, Confirm
<1> QED BY <1>2, <1>3, <1>4, <1>5

LEMMA EndRequests ==
  ASSUME Ground, Requests, [Next]_vars, NEW k \in Calls, Ending(k)
  PROVE  Requests'
<1>1. calls' = [calls EXCEPT ![k] = NoCall] /\ calls \in [Calls -> CallType]
  BY DEF Ground, Typed, TypeOK, CallType, Ending, Ends
<1>2. RequestOK(k)'
  BY <1>1 DEF RequestOK, NoCall
<1>3. \A i \in Calls : calls'[i].kind \in {"place", "update"} => i # k /\ Same(i)
  BY <1>1 DEF NoCall, Same
<1>4. ASSUME NEW j \in Calls, j # k PROVE RequestOK(j)'
  <2>1. calls'[j] = calls[j] /\ Same(j)
    BY <1>1, <1>4 DEF Same
  <2>2. CASE calls[j].kind = "place"
    <3>1. calls[j].key # calls[k].key /\ calls[j].key \in Keys
      BY <1>4, <2>2, KeysApart, ResNames DEF Ending
    <3>2. orders'[calls[j].key] = orders[calls[j].key]
      BY <3>1 DEF Ending
    <3>3. PlaceRes(calls[j].key) # ResOf(k) \/ calls[k].kind = "cancel"
      <4>1. calls[k].kind \in {"place", "update", "cancel"}
        BY DEF Ending, Ground, Typed, TypeOK
      <4> QED BY <3>1, <4>1, ResNames DEF PlaceRes
    <3>4. quota'[PlaceRes(calls[j].key)] = quota[PlaceRes(calls[j].key)]
      BY <3>1, <3>3, PlaceResTyped DEF Ending
    <3> QED BY <2>1, <2>2, <3>2, <3>4, RequestStays
  <2>3. CASE calls[j].kind = "update"
    <3> SUFFICES ASSUME Alone(j)
                 PROVE  quota'[ResOf(j)] = quota[ResOf(j)] /\ Alone(j)'
      BY <2>1, <2>3, RequestStays
    <3>1. ResOf(j) # ResOf(k) \/ calls[k].kind = "cancel"
      <4>1. CASE calls[k].kind = "update"
        BY <1>4, <2>3, <4>1 DEF Alone
      <4>2. CASE calls[k].kind = "place"
        BY <2>3, <4>2, ResNames, ResApart
      <4> QED BY <4>1, <4>2 DEF Ending, Ground, Typed, TypeOK
    <3>2. quota'[ResOf(j)] = quota[ResOf(j)]
      BY <2>3, <3>1, ResNames DEF Ending
    <3>3. Alone(j)'
      BY <1>3, <2>1, AloneStays
    <3> QED BY <3>2, <3>3
  <2>4. CASE calls[j].kind \notin {"place", "update"}
    BY <2>1, <2>4, RequestStays
  <2> QED BY <2>2, <2>3, <2>4
<1> QED BY <1>2, <1>4 DEF Requests

(* A step that begins and ends no request.                                 *)
LEMMA OtherRequests ==
  ASSUME Ground, Requests, [Next]_vars, \A k \in Calls : Same(k),
         \A d \in Keys : ~orders[d].ids /\ orders[d].status = "pending" => orders'[d] = orders[d],
         \A c \in Keys : ~orders[c].ids /\ orders[c].status = "pending"
                           => quota'[PlaceRes(c)] = quota[PlaceRes(c)],
         \A k \in Calls : calls[k].kind = "update" =>
           \/ quota'[ResOf(k)] = quota[ResOf(k)]
           \/ Disputed(calls[k].key)'
  PROVE  Requests'
<1>1. ASSUME NEW j \in Calls PROVE RequestOK(j)'
  <2>1. CASE calls[j].kind = "place"
    <3>1. PlaceFresh(j) /\ calls[j].key \in Keys
      BY <2>1, ResNames DEF Requests, RequestOK
    <3>2. /\ orders'[calls[j].key] = orders[calls[j].key]
          /\ quota'[PlaceRes(calls[j].key)] = quota[PlaceRes(calls[j].key)]
      BY <3>1 DEF PlaceFresh
    <3> QED BY <2>1, <3>2, RequestStays
  <2>2. CASE calls[j].kind = "update"
    <3>1. Alone(j) => Alone(j)'
      BY AloneStays
    <3> QED BY <2>2, <3>1, RequestStays
  <2>3. CASE calls[j].kind \notin {"place", "update"}
    BY <2>3, RequestStays
  <2> QED BY <2>1, <2>2, <2>3
<1> QED BY <1>1 DEF Requests

-----------------------------------------------------------------------------
(* The orders, action by action.                                           *)

LEMMA PlaceCovered ==
  ASSUME Ground, Requests, Covered, [Next]_vars, NEW k \in Calls, NEW u \in Users, NEW c \in Keys,
         NEW m \in Contents, NEW t \in Tokens \cup {None}, Place(k, u, c, m, t)
  PROVE  Covered'
<1>1. /\ orders \in [Keys -> OrderType] /\ quota \in [Reservations -> QuotaType]
      /\ calls \in [Calls -> CallType]
  BY DEF Ground, Typed, TypeOK, OrderType, QuotaType, CallType
<1>2. /\ ~Exists(c) /\ quota' = Reserve(quota, PlaceRes(c), m.qty) /\ taken' = taken
      /\ orders' = [orders EXCEPT ![c] = NewOrder(u, m)]
      /\ calls' = [calls EXCEPT ![k] = NewCall("place", u, c, m, t)]
  BY DEF Place
<1>3. quota[PlaceRes(c)].state = "none"
  BY <1>2, PlaceResTyped DEF Ground, RowsHaveOrders, PlaceRes
<1>4. ResOf(k)' = PlaceRes(c)
  BY <1>1, <1>2 DEF NewCall, ResOf
<1> SUFFICES ASSUME NEW d \in Keys PROVE AckCovered(d)' /\ TakenCovered(d)'
  BY DEF Covered
<1>5. AckCovered(d)'
  <2>1. orders'[d].ids => orders[d].ids /\ orders'[d].qty = orders[d].qty
    BY <1>1, <1>2 DEF NewOrder
  <2> QED BY <2>1, AckStays DEF Covered
<1>6. TakenCovered(d)'
  <2>1. ASSUME NEW r \in Reservations, quota[r].state = "reserved", Idle(r)
        PROVE  quota'[r] = quota[r] /\ Idle(r)'
    <3>1. r # PlaceRes(c)
      BY <1>3, <2>1
    <3>2. \A i \in Calls : calls'[i].kind \in {"place", "update"} => Same(i) \/ ResOf(i)' # r
      BY <1>1, <1>2, <1>4, <3>1 DEF Same
    <3>3. quota'[r] = quota[r]
      BY <1>1, <1>2, <3>1 DEF Reserve
    <3> QED BY <2>1, <3>2, <3>3, IdleStays
  <2> QED BY <1>2, <2>1, TakenStays DEF Covered
<1> QED BY <1>5, <1>6

LEMMA UpdateCovered ==
  ASSUME Ground, Requests, Covered, [Next]_vars, NEW k \in Calls, NEW u \in Users, NEW c \in Keys,
         NEW m \in Contents, NEW t \in Tokens \cup {None}, Update(k, u, c, m, t)
  PROVE  Covered'
<1>1. /\ quota \in [Reservations -> QuotaType] /\ calls \in [Calls -> CallType]
  BY DEF Ground, Typed, TypeOK, QuotaType, CallType
<1>0. PICK x \in Reservations : x = UpdateRes(c, m)
  BY UpdateResTyped
<1>2. /\ orders' = orders /\ taken' = taken
      /\ calls' = [calls EXCEPT ![k] = NewCall("update", u, c, m, t)]
      /\ quota[x].state # "none" => x \in disputed'
      /\ quota' = quota \/ quota' = Reserve(quota, x, m.qty - orders[c].qty)
  BY <1>0 DEF Update, UpdateAllowed
<1>3. ResOf(k)' = x
  BY <1>0, <1>1, <1>2 DEF NewCall, ResOf
<1> SUFFICES ASSUME NEW d \in Keys PROVE AckCovered(d)' /\ TakenCovered(d)'
  BY DEF Covered
<1>4. AckCovered(d)'
  BY <1>2, AckStays DEF Covered
<1>5. TakenCovered(d)'
  <2>1. ASSUME NEW r \in Reservations, r[1] = d, quota[r].state = "reserved", Idle(r)
        PROVE  Disputed(d)' \/ (quota'[r] = quota[r] /\ Idle(r)')
    <3>1. CASE r = x
      BY <1>2, <2>1, <3>1 DEF Disputed
    <3>2. CASE r # x
      <4>1. \A i \in Calls : calls'[i].kind \in {"place", "update"} => Same(i) \/ ResOf(i)' # r
        BY <1>1, <1>2, <1>3, <3>2 DEF Same
      <4>2. quota'[r] = quota[r]
        BY <1>1, <1>2, <3>2 DEF Reserve
      <4> QED BY <2>1, <4>1, <4>2, IdleStays
    <3> QED BY <3>1, <3>2
  <2> QED BY <1>2, <2>1, TakenStays DEF Covered
<1> QED BY <1>4, <1>5

(* What a broker took for a request that is over.                          *)
LEMMA EffectCovered ==
  ASSUME Ground, Requests, [Next]_vars, NEW k \in Calls, calls[k].kind # "none", Effect(k),
         NEW c \in Keys, c = calls[k].key,
         \A j \in Calls : calls'[j].kind # "none" => j # k /\ Same(j),
         calls[k].kind # "cancel" =>
           \/ quota'[ResOf(k)] = quota[ResOf(k)]
           \/ quota'[ResOf(k)].state = "confirmed"
  PROVE  TakenCovered(c)'
<1>1. calls[k].kind \in {"place", "update", "cancel"}
  BY DEF Ground, Typed, TypeOK
<1>2. calls[k].key = c
  OBVIOUS
<1>3. taken'[c] = IF calls[k].kind = "cancel" THEN 0 ELSE calls[k].what.qty
  BY <1>2 DEF Effect, Ground, Typed, TypeOK
<1>4. /\ ConfirmedOf(c) \in Nat /\ ConfirmedOf(c)' \in Nat /\ ConfirmedOf(c) <= ConfirmedOf(c)'
  BY ConfirmedGrows DEF Ground
<1> SUFFICES \/ taken'[c] <= ConfirmedOf(c)'
             \/ Disputed(c)'
             \/ \E r \in Reservations : /\ r[1] = c /\ quota'[r].state = "reserved" /\ Idle(r)'
                                        /\ taken'[c] <= ConfirmedOf(c)' + quota'[r].qty
  BY DEF TakenCovered
<1>5. CASE calls[k].kind = "cancel"
  BY <1>3, <1>4, <1>5
<1>6. ASSUME NEW r \in Reservations, ResOf(k) = r, quota[r].state = "reserved",
             calls[k].kind # "cancel",
             calls[k].what.qty <= ConfirmedOf(c) + quota[r].qty,
             \A j \in Calls : calls[j].kind \in {"place", "update"} /\ ResOf(j) = r => j = k
      PROVE  \/ taken'[c] <= ConfirmedOf(c)'
             \/ \E x \in Reservations : /\ x[1] = c /\ quota'[x].state = "reserved" /\ Idle(x)'
                                        /\ taken'[c] <= ConfirmedOf(c)' + quota'[x].qty
  <2>1. r[1] = c /\ calls[k].what.qty \in Nat /\ quota[r].qty \in Nat
    BY <1>1, <1>2, <1>6, ResNames, ContentsAssumption DEF Ground, Typed, TypeOK
  <2>2. CASE quota'[r].state = "confirmed"
    <3>1. ConfirmedOf(c) + quota[r].qty <= ConfirmedOf(c)'
      BY <1>6, <2>1, <2>2, ConfirmedPlus DEF Ground, Accounted
    <3> QED BY <1>3, <1>4, <1>6, <2>1, <3>1
  <2>3. CASE quota'[r] = quota[r]
    <3>1. Idle(r)'
      BY <1>6 DEF Idle, Same, ResOf
    <3>2. taken'[c] <= ConfirmedOf(c)' + quota'[r].qty
      BY <1>3, <1>4, <1>6, <2>1, <2>3
    <3> QED BY <1>6, <2>1, <2>3, <3>1, <3>2
  <2> QED BY <1>6, <2>2, <2>3
<1>7. CASE calls[k].kind = "place"
  <2>1. PlaceFresh(k) /\ ResOf(k) = PlaceRes(c) /\ ResOf(k) \in Reservations
    BY <1>2, <1>7, ResNames DEF Requests, RequestOK
  <2>2. ASSUME NEW j \in Calls, calls[j].kind \in {"place", "update"}, ResOf(j) = ResOf(k)
        PROVE  j = k
    <3>1. calls[j].kind = "place"
      BY <2>1, <2>2, ResNames, ResApart
    <3>2. calls[j].key = c
      BY <1>2, <1>7, <2>2, <3>1, ResNames
    <3> QED BY <1>2, <1>7, <3>1, <3>2 DEF Ground, SendOnce
  <2>3. calls[k].what.qty <= ConfirmedOf(c) + quota[ResOf(k)].qty
    <3>1. calls[k].what.qty \in Nat
      BY <1>7, ResNames, ContentsAssumption
    <3> QED BY <1>2, <1>4, <2>1, <3>1 DEF PlaceFresh
  <2> QED BY <1>2, <1>6, <1>7, <2>1, <2>2, <2>3 DEF PlaceFresh
<1>8. CASE calls[k].kind = "update"
  <2>1. UpdateBacked(k) /\ ResOf(k) \in Reservations /\ calls[k].what.qty \in Nat
    BY <1>8, ResNames, ContentsAssumption DEF Requests, RequestOK
  <2>2. CASE Disputed(c)
    BY <2>2, DisputedGrows
  <2>3. CASE calls[k].what.qty <= ConfirmedOf(c)
    BY <1>3, <1>4, <1>8, <2>1, <2>3
  <2>4. CASE /\ quota[ResOf(k)].state = "reserved" /\ Alone(k)
             /\ calls[k].what.qty <= ConfirmedOf(c) + quota[ResOf(k)].qty
    <3>1. ASSUME NEW j \in Calls, calls[j].kind \in {"place", "update"}, ResOf(j) = ResOf(k)
          PROVE  j = k
      <4>1. calls[j].kind = "update"
        BY <1>8, <3>1, ResNames, ResApart
      <4> QED BY <2>4, <3>1, <4>1 DEF Alone
    <3> QED BY <1>6, <1>8, <2>1, <2>4, <3>1
  <2> QED BY <1>2, <2>1, <2>2, <2>3, <2>4 DEF UpdateBacked
<1> QED BY <1>1, <1>5, <1>7, <1>8

(* A request ends without or with its effect at the broker.                *)
LEMMA EndTaken ==
  ASSUME Ground, Requests, Covered, [Next]_vars, NEW k \in Calls, Ending(k),
         \/ UNCHANGED taken
         \/ /\ Effect(k)
            /\ calls[k].kind # "cancel" => \/ quota'[ResOf(k)] = quota[ResOf(k)]
                                          \/ quota'[ResOf(k)].state = "confirmed"
  PROVE  \A d \in Keys : TakenCovered(d)'
<1>1. calls' = [calls EXCEPT ![k] = NoCall] /\ calls \in [Calls -> CallType]
  BY DEF Ground, Typed, TypeOK, CallType, Ending, Ends
<1>2. \A j \in Calls : calls'[j].kind # "none" => j # k /\ Same(j)
  BY <1>1 DEF NoCall, Same
<1>3. ASSUME NEW d \in Keys, taken'[d] = taken[d] PROVE TakenCovered(d)'
  <2>1. ASSUME NEW r \in Reservations, Idle(r) PROVE quota'[r] = quota[r] /\ Idle(r)'
    <3>1. calls[k].kind = "cancel" \/ r # ResOf(k)
      BY <2>1 DEF Idle, Ending, Ground, Typed, TypeOK
    <3>2. Idle(r)'
      BY <1>2, <2>1, IdleStays
    <3> QED BY <3>1, <3>2 DEF Ending
  <2> QED BY <1>3, <2>1, TakenStays DEF Covered
<1>4. ASSUME NEW d \in Keys, taken'[d] # taken[d] PROVE TakenCovered(d)'
  <2>1. Effect(k) /\ d = calls[k].key
    BY <1>4 DEF Effect, Ground, Typed, TypeOK
  <2>2. calls[k].kind # "cancel" => \/ quota'[ResOf(k)] = quota[ResOf(k)]
                                   \/ quota'[ResOf(k)].state = "confirmed"
    BY <1>4
  <2> QED BY <1>2, <2>1, <2>2, EffectCovered DEF Ending
<1> QED BY <1>3, <1>4

(* The acknowledgement writes what was confirmed with it.                  *)
LEMMA NativeOkAck ==
  ASSUME Ground, Requests, Covered, [Next]_vars, NEW k \in Calls, NativeOk(k), NEW d \in Keys
  PROVE  AckCovered(d)'
<1>1. /\ orders \in [Keys -> OrderType] /\ quota \in [Reservations -> QuotaType]
  BY DEF Ground, Typed, TypeOK, OrderType, QuotaType
<1>2. CASE d # calls[k].key \/ calls[k].kind = "cancel"
  <2>1. orders'[d].ids = orders[d].ids /\ orders'[d].qty = orders[d].qty
    BY <1>1, <1>2 DEF NativeOk, Acked, OrderType
  <2> QED BY <2>1, AckStays DEF Covered
<1>3. CASE d = calls[k].key /\ calls[k].kind # "cancel"
  <2>1. calls[k].kind \in {"place", "update"}
    BY <1>3, EndingIs DEF Ending, Ground, Typed, TypeOK
  <2>2. PICK r \in Reservations : r = ResOf(k) /\ r[1] = d
    BY <1>3, <2>1, ResNames
  <2>3. quota[r].state = "reserved" => quota'[r].state = "confirmed"
    BY <1>1, <2>1, <2>2 DEF NativeOk, Confirm
  <2>4. quota[r].state = "reserved" => ConfirmedOf(d) + quota[r].qty <= ConfirmedOf(d)'
    BY <2>2, <2>3, ConfirmedPlus DEF Ground, Accounted
  <2>5. /\ ConfirmedOf(d) \in Nat /\ ConfirmedOf(d)' \in Nat /\ ConfirmedOf(d) <= ConfirmedOf(d)'
    BY ConfirmedGrows DEF Ground
  <2>6. calls[k].what.qty \in Nat /\ quota[r].qty \in Nat
    BY <2>1, ResNames, ContentsAssumption DEF Ground, Typed, TypeOK
  <2>7. orders'[d].qty = calls[k].what.qty
    <3>1. orders'[d] = Acked(k, orders[d]) /\ orders[d] \in OrderType
      BY <1>1, <1>3 DEF NativeOk
    <3>2. calls[k].kind = "place" => orders[d].qty = calls[k].what.qty
      BY <1>3 DEF Requests, RequestOK, PlaceFresh
    <3> QED BY <2>1, <3>1, <3>2 DEF Acked, OrderType
  <2>8. Disputed(d)' \/ calls[k].what.qty <= ConfirmedOf(d)'
    <3>1. CASE calls[k].kind = "place"
      <4>1. quota[r].state = "reserved" /\ quota[r].qty = calls[k].what.qty
        BY <1>3, <2>2, <3>1, ResNames DEF Requests, RequestOK, PlaceFresh
      <4> QED BY <2>4, <2>5, <2>6, <4>1
    <3>2. CASE calls[k].kind = "update"
      <4>1. UpdateBacked(k)
        BY <3>2 DEF Requests, RequestOK
      <4>2. CASE Disputed(d)
        BY <4>2, DisputedGrows
      <4>3. CASE calls[k].what.qty <= ConfirmedOf(d)
        BY <2>5, <2>6, <4>3
      <4>4. CASE quota[r].state = "reserved" /\ calls[k].what.qty <= ConfirmedOf(d) + quota[r].qty
        BY <2>4, <2>5, <2>6, <4>4
      <4> QED BY <1>3, <2>2, <4>1, <4>2, <4>3, <4>4 DEF UpdateBacked
    <3> QED BY <2>1, <3>1, <3>2
  <2> QED BY <2>7, <2>8 DEF AckCovered
<1> QED BY <1>2, <1>3

LEMMA EndCovered ==
  ASSUME Ground, Requests, Covered, [Next]_vars, NEW k \in Calls,
         GateBlocks(k) \/ GateUnready(k) \/ NativeRefused(k) \/ NativeRaised(k) \/ NativeOk(k)
  PROVE  Covered'
<1>1. Ending(k) /\ orders \in [Keys -> OrderType] /\ quota \in [Reservations -> QuotaType]
  BY EndingIs DEF Ground, Typed, TypeOK, OrderType, QuotaType
<1>2. CASE GateBlocks(k) \/ NativeRefused(k)
  <2>1. Fails(k) /\ taken' = taken
    BY <1>2 DEF GateBlocks, NativeRefused
  <2>2. \A d \in Keys : orders'[d].ids = orders[d].ids /\ orders'[d].qty = orders[d].qty
    BY <1>1, <2>1 DEF Fails, OrderType
  <2>3. \A d \in Keys : TakenCovered(d)'
    BY <1>1, <2>1, EndTaken
  <2> QED BY <2>2, <2>3, AckStays DEF Covered
<1>3. CASE GateUnready(k) \/ NativeRaised(k)
  <2>1. IsUnknown(k) /\ (UNCHANGED taken \/ Effect(k))
    BY <1>3 DEF GateUnready, NativeRaised
  <2>2. \A d \in Keys : orders'[d].ids = orders[d].ids /\ orders'[d].qty = orders[d].qty
    BY <1>1, <2>1 DEF IsUnknown, OrderType
  <2>3. quota' = quota
    BY <2>1 DEF IsUnknown
  <2>4. \A d \in Keys : TakenCovered(d)'
    BY <1>1, <2>1, <2>3, EndTaken
  <2> QED BY <2>2, <2>4, AckStays DEF Covered
<1>4. CASE NativeOk(k)
  <2>1. Effect(k) /\ (calls[k].kind # "cancel" => quota' = Confirm(quota, ResOf(k)))
    BY <1>4 DEF NativeOk
  <2>2. ASSUME calls[k].kind # "cancel"
        PROVE  quota'[ResOf(k)] = quota[ResOf(k)] \/ quota'[ResOf(k)].state = "confirmed"
    <3>1. PICK r \in Reservations : r = ResOf(k)
      BY <1>1, <2>2, ResNames DEF Ending, Ground, Typed, TypeOK
    <3>2. quota' = Confirm(quota, r)
      BY <2>1, <2>2, <3>1
    <3>3. quota'[r] = quota[r] \/ quota'[r].state = "confirmed"
      BY <1>1, <3>2 DEF Confirm, QuotaType
    <3> QED BY <3>1, <3>3
  <2>3. \A d \in Keys : TakenCovered(d)'
    BY <1>1, <2>1, <2>2, EndTaken
  <2>4. \A d \in Keys : AckCovered(d)'
    BY <1>4, NativeOkAck
  <2> QED BY <2>3, <2>4 DEF Covered
<1> QED BY <1>2, <1>3, <1>4

LEMMA OtherCovered ==
  ASSUME Ground, Requests, Covered, [Next]_vars,
         \A i \in Calls : calls'[i].kind \in {"place", "update"} => Same(i),
         \A d \in Keys : orders'[d].ids = orders[d].ids /\ orders'[d].qty = orders[d].qty,
         taken' = taken, quota' = quota
  PROVE  Covered'
<1> SUFFICES ASSUME NEW d \in Keys PROVE AckCovered(d)' /\ TakenCovered(d)'
  BY DEF Covered
<1>1. \A r \in Reservations : Idle(r) => Idle(r)'
  BY IdleStays
<1>2. AckCovered(d)'
  BY AckStays DEF Covered
<1>3. TakenCovered(d)'
  BY <1>1, TakenStays DEF Covered
<1> QED BY <1>2, <1>3

-----------------------------------------------------------------------------
(* The steps that begin and end no request, and the crash.                 *)

LEMMA CancelBacked ==
  ASSUME Ground, Requests, Covered, [Next]_vars, NEW k \in Calls, NEW u \in Users, NEW c \in Keys,
         Cancel(k, u, c)
  PROVE  Requests' /\ Covered'
<1>1. /\ orders[c].ids /\ orders' = orders /\ quota' = quota /\ taken' = taken
      /\ calls' = [calls EXCEPT ![k] = NewCall("cancel", u, c, None, None)]
  BY DEF Cancel, db
<1>2. calls \in [Calls -> CallType]
  BY DEF Ground, Typed, TypeOK, CallType
<1>3. calls'[k].kind = "cancel" /\ calls'[k].key = c
  BY <1>1, <1>2 DEF NewCall
<1>4. \A i \in Calls : i # k => Same(i)
  BY <1>1, <1>2 DEF Same
<1>5. \A i \in Calls : calls'[i].kind \in {"place", "update"} => Same(i)
  BY <1>3, <1>4
<1>6. RequestOK(k)'
  BY <1>1, <1>3 DEF RequestOK
<1>7. ASSUME NEW j \in Calls, j # k PROVE RequestOK(j)'
  <2>1. Alone(j) => Alone(j)'
    BY <1>4, <1>5, <1>7, AloneStays
  <2> QED BY <1>1, <1>4, <1>7, <2>1, RequestStays
<1>8. Covered'
  BY <1>1, <1>5, OtherCovered
<1> QED BY <1>6, <1>7, <1>8 DEF Requests

(* Only the status of an order with numbers changes, or nothing of these.  *)
LEMMA QuietBacked ==
  ASSUME Ground, Requests, Covered, [Next]_vars, \A k \in Calls : Same(k),
         quota' = quota, taken' = taken,
         \A d \in Keys : \/ orders'[d] = orders[d]
                         \/ /\ orders[d].ids /\ orders'[d].ids
                            /\ orders'[d].qty = orders[d].qty
  PROVE  Requests' /\ Covered'
<1>1. Requests'
  BY OtherRequests
<1>2. \A d \in Keys : orders'[d].ids = orders[d].ids /\ orders'[d].qty = orders[d].qty
  <2>1. orders \in [Keys -> OrderType] /\ orders' \in [Keys -> OrderType]
    BY TypedStep DEF Ground, Typed, TypeOK, OrderType
  <2>2. \A d \in Keys : orders[d].ids \in BOOLEAN /\ orders'[d].ids \in BOOLEAN
    BY <2>1 DEF OrderType
  <2> QED BY <2>2
<1>3. Covered'
  BY <1>2, OtherCovered
<1> QED BY <1>1, <1>3

LEMMA GiveUpBacked ==
  ASSUME Ground, Requests, Covered, [Next]_vars, NEW c \in Keys, GiveUp(c)
  PROVE  Requests' /\ Covered'
<1>1. /\ orders \in [Keys -> OrderType] /\ quota \in [Reservations -> QuotaType]
      /\ calls \in [Calls -> CallType]
  BY DEF Ground, Typed, TypeOK, OrderType, QuotaType, CallType
<1>2. /\ orders[c].status = "unknown" /\ ~orders[c].ids
      /\ orders' = [orders EXCEPT ![c].status = "failed"]
      /\ quota' = Release(quota, PlaceRes(c)) /\ calls' = calls /\ taken' = taken
  BY DEF GiveUp
<1>3. \A k \in Calls : Same(k)
  BY <1>2 DEF Same
<1>4. PICK p \in Reservations : p = PlaceRes(c)
  BY PlaceResTyped
<1>5. p[1] = c /\ \A r \in Reservations : r # p => quota'[r] = quota[r]
  BY <1>1, <1>2, <1>4 DEF Release, PlaceRes
<1>6. Requests'
  <2>1. \A d \in Keys : ~orders[d].ids /\ orders[d].status = "pending" => orders'[d] = orders[d]
    BY <1>1, <1>2
  <2>2. ASSUME NEW d \in Keys, ~orders[d].ids /\ orders[d].status = "pending"
        PROVE  quota'[PlaceRes(d)] = quota[PlaceRes(d)]
    <3>1. PlaceRes(d) # p
      BY <1>2, <1>4, <2>2 DEF PlaceRes
    <3> QED BY <1>5, <3>1, PlaceResTyped
  <2>3. ASSUME NEW k \in Calls, calls[k].kind = "update" PROVE quota'[ResOf(k)] = quota[ResOf(k)]
    BY <1>4, <1>5, <2>3, ResNames, ResApart
  <2> QED BY <1>3, <2>1, <2>2, <2>3, OtherRequests
<1>7. ASSUME NEW d \in Keys PROVE AckCovered(d)'
  <2>1. orders'[d].ids = orders[d].ids /\ orders'[d].qty = orders[d].qty
    BY <1>1, <1>2 DEF OrderType
  <2> QED BY <2>1, AckStays DEF Covered
<1>8. ASSUME NEW d \in Keys PROVE TakenCovered(d)'
  <2>1. d = c => orders'[d].status = "failed"
    BY <1>1, <1>2 DEF OrderType
  <2>2. \A r \in Reservations : Idle(r) => Idle(r)'
    BY <1>3, IdleStays
  <2>3. \A r \in Reservations : r[1] = d /\ d # c => quota'[r] = quota[r]
    BY <1>5
  <2> QED BY <1>2, <2>1, <2>2, <2>3, TakenStays DEF Covered
<1> QED BY <1>6, <1>7, <1>8 DEF Covered

LEMMA SettleBacked ==
  ASSUME Ground, Requests, Covered, [Next]_vars, NEW c \in Keys, Settle(c)
  PROVE  Requests' /\ Covered'
<1>0. PICK n \in listed[c] :
        /\ quota' = [r \in Reservations |->
             IF r \in Took(c, n) THEN [quota[r] EXCEPT !.state = "confirmed"]
             ELSE IF r \in Missed(c, n) THEN [quota[r] EXCEPT !.state = "released"]
             ELSE quota[r]]
        /\ disputed' = disputed \cup {r \in Took(c, n) \cup Missed(c, n) : UnderWay(r)}
        /\ misled' = misled \cup {r \in Missed(c, n) : n < taken[c]}
  BY DEF Settle
<1> DEFINE Settled == Took(c, n) \cup Missed(c, n)
<1>1. /\ orders[c].ids /\ orders' = orders /\ calls' = calls /\ taken' = taken
      /\ \A r \in Settled : UnderWay(r) => r \in disputed'
  BY <1>0 DEF Settle
<1>2. /\ \A r \in Reservations : r \in Took(c, n) => quota'[r].state = "confirmed"
      /\ \A r \in Reservations : r \in Missed(c, n) \ Took(c, n) => quota'[r].state = "released"
      /\ \A r \in Reservations : r \notin Settled => quota'[r] = quota[r]
  <2>1. quota \in [Reservations -> QuotaType]
    BY DEF Ground, Typed, TypeOK, QuotaType
  <2> QED BY <1>0, <2>1 DEF QuotaType
<1>3. \A r \in Settled : r \in Reservations /\ r[1] = c /\ r[2] # None
  BY DEF Took, Missed, PendingUpdates
<1>4. ASSUME NEW r \in Missed(c, n) PROVE r \in misled' \/ taken[c] <= orders[c].qty
  <2>1. n = orders[c].qty /\ n \in Nat /\ taken[c] \in Nat
    BY <1>4 DEF Missed, Ground, Typed, TypeOK
  <2> QED BY <1>0, <1>4, <2>1
<1> HIDE DEF Settled
<1>5. \A k \in Calls : Same(k)
  BY <1>1 DEF Same
<1>6. Requests'
  <2>1. ASSUME NEW d \in Keys PROVE quota'[PlaceRes(d)] = quota[PlaceRes(d)]
    BY <1>2, <1>3, PlaceResTyped DEF PlaceRes
  <2>2. ASSUME NEW k \in Calls, calls[k].kind = "update"
        PROVE  quota'[ResOf(k)] = quota[ResOf(k)] \/ Disputed(calls[k].key)'
    <3>1. PICK r \in Reservations : r = ResOf(k) /\ r[1] = calls[k].key
      BY <2>2, ResNames
    <3>2. CASE r \in Settled
      <4>1. r \in disputed'
        BY <1>1, <2>2, <3>1, <3>2 DEF UnderWay
      <4>2. calls'[k].key = calls[k].key
        BY <1>1
      <4> QED BY <3>1, <4>1, <4>2 DEF Disputed
    <3>3. CASE r \notin Settled
      BY <1>2, <3>1, <3>3
    <3> QED BY <3>2, <3>3
  <2> QED BY <1>1, <1>5, <2>1, <2>2, OtherRequests
<1>7. ASSUME NEW d \in Keys PROVE AckCovered(d)'
  BY <1>1, AckStays DEF Covered
<1>8. ASSUME NEW d \in Keys PROVE TakenCovered(d)'
  <2>1. ASSUME NEW r \in Reservations, r[1] = d, Idle(r)
        PROVE  \/ quota'[r] = quota[r] /\ Idle(r)'
               \/ Accounted(r)'
               \/ Disputed(d)' \/ taken[d] <= ConfirmedOf(d)
    <3>1. CASE r \notin Settled
      BY <1>2, <1>5, <2>1, <3>1, IdleStays
    <3>2. CASE r \in Took(c, n)
      BY <1>2, <3>2 DEF Accounted
    <3>3. CASE r \in Missed(c, n) \ Took(c, n)
      <4>1. d = c
        BY <1>3, <2>1, <3>3 DEF Settled
      <4>2. CASE r \in misled'
        BY <1>2, <3>3, <4>2 DEF Accounted
      <4>3. CASE taken[c] <= orders[c].qty
        <5>1. Disputed(c) \/ orders[c].qty <= ConfirmedOf(c)
          BY <1>1 DEF Covered, AckCovered
        <5>2. taken[c] \in Nat /\ orders[c].qty \in Nat /\ ConfirmedOf(c) \in Nat
          BY ConfirmedNat DEF Ground, Typed, TypeOK
        <5> QED BY <4>1, <4>3, <5>1, <5>2, DisputedGrows
      <4> QED BY <1>4, <3>3, <4>2, <4>3
    <3> QED BY <3>1, <3>2, <3>3 DEF Settled
  <2> QED BY <1>1, <2>1, TakenStays DEF Covered
<1> QED BY <1>6, <1>7, <1>8 DEF Covered

LEMMA CrashBacked ==
  ASSUME Ground, Requests, Covered, [Next]_vars, Crash
  PROVE  Requests' /\ Covered'
<1>1. /\ orders' = orders /\ quota' = quota
      /\ calls' = [k \in Calls |-> NoCall]
      /\ \/ UNCHANGED taken
         \/ \E k \in Calls : calls[k].phase = "native" /\ Effect(k)
  BY DEF Crash, db
<1>2. \A k \in Calls : calls'[k].kind = "none"
  BY <1>1 DEF NoCall
<1>3. Requests'
  BY <1>2 DEF Requests, RequestOK
<1>4. ASSUME NEW d \in Keys PROVE AckCovered(d)'
  BY <1>1, AckStays DEF Covered
<1>5. ASSUME NEW d \in Keys, taken'[d] = taken[d] PROVE TakenCovered(d)'
  <2>1. \A r \in Reservations : Idle(r)'
    BY <1>2 DEF Idle
  <2> QED BY <1>1, <1>5, <2>1, TakenStays DEF Covered
<1>6. ASSUME NEW d \in Keys, taken'[d] # taken[d] PROVE TakenCovered(d)'
  <2>1. PICK k \in Calls : calls[k].phase = "native" /\ Effect(k)
    BY <1>1, <1>6
  <2>2. calls[k].kind # "none" /\ d = calls[k].key
    BY <1>6, <2>1 DEF Effect, Ground, Typed, TypeOK, CallsOK
  <2> QED BY <1>1, <1>2, <2>1, <2>2, EffectCovered
<1> QED BY <1>3, <1>4, <1>5, <1>6 DEF Covered

LEMMA ExposureStep ==
  Ground /\ Requests /\ Covered /\ [Next]_vars => Requests' /\ Covered'
<1> SUFFICES ASSUME Ground, Requests, Covered, [Next]_vars PROVE Requests' /\ Covered'
  OBVIOUS
<1>1. ASSUME NEW k \in Calls, NEW u \in Users, NEW c \in Keys, NEW m \in Contents,
             NEW t \in Tokens \cup {None}, Place(k, u, c, m, t)
      PROVE  Requests' /\ Covered'
  BY <1>1, PlaceRequests, PlaceCovered
<1>2. ASSUME NEW k \in Calls, NEW u \in Users, NEW c \in Keys, NEW m \in Contents,
             NEW t \in Tokens \cup {None}, Update(k, u, c, m, t)
      PROVE  Requests' /\ Covered'
  BY <1>2, UpdateRequests, UpdateCovered
<1>3. ASSUME NEW k \in Calls,
             GateBlocks(k) \/ GateUnready(k) \/ NativeRefused(k) \/ NativeRaised(k) \/ NativeOk(k)
      PROVE  Requests' /\ Covered'
  BY <1>3, EndingIs, EndRequests, EndCovered
<1>4. ASSUME NEW k \in Calls, Send(k) PROVE Requests' /\ Covered'
  <2>1. \A j \in Calls : Same(j)
    BY <1>4 DEF Send, Same, Ground, Typed, TypeOK
  <2> QED BY <1>4, <2>1, QuietBacked DEF Send, db
<1>5. ASSUME NEW c \in Keys, NEW s \in Statuses, Reported(c, s) PROVE Requests' /\ Covered'
  <2>1. \A j \in Calls : Same(j)
    BY <1>5 DEF Reported, Same
  <2>2. \A d \in Keys : \/ orders'[d] = orders[d]
                        \/ orders[d].ids /\ orders'[d].ids /\ orders'[d].qty = orders[d].qty
    BY <1>5 DEF Reported, Ground, Typed, TypeOK
  <2> QED BY <1>5, <2>1, <2>2, QuietBacked DEF Reported
<1>6. CASE UNCHANGED <<orders, quota, calls, taken>>
  BY <1>6, QuietBacked DEF Same
<1>7. ASSUME NEW c \in Keys, GiveUp(c) \/ Settle(c) PROVE Requests' /\ Covered'
  BY <1>7, GiveUpBacked, SettleBacked
<1>8. ASSUME NEW k \in Calls, NEW u \in Users, NEW c \in Keys, Cancel(k, u, c)
      PROVE  Requests' /\ Covered'
  BY <1>8, CancelBacked
<1>9. CASE Crash
  BY <1>9, CrashBacked
<1> QED
  BY <1>1, <1>2, <1>3, <1>4, <1>5, <1>6, <1>7, <1>8, <1>9
     DEF Next, AskPlace, AskUpdate, Flip, Cooldown, Lapse, db, vars

LEMMA ExposureInit == Init => Requests /\ Covered
<1> SUFFICES ASSUME Init PROVE Requests /\ Covered
  OBVIOUS
<1>1. Requests
  BY DEF Init, Requests, RequestOK, NoCall
<1>2. ASSUME NEW c \in Keys PROVE AckCovered(c) /\ TakenCovered(c)
  <2>1. ConfirmedOf(c) \in Nat
    BY TypedInit, ConfirmedNat
  <2> QED BY <2>1 DEF Init, AckCovered, TakenCovered, NoOrder
<1> QED BY <1>1, <1>2 DEF Covered

(* What is confirmed and one reservation besides are reserved together.    *)
LEMMA CoverHas ==
  ASSUME Typed, NEW c
  PROVE  /\ CoverOf(c) \in Nat /\ ConfirmedOf(c) <= CoverOf(c)
         /\ \A r \in Reservations : r[1] = c /\ quota[r].state = "reserved"
                                      => ConfirmedOf(c) + quota[r].qty <= CoverOf(c)
<1>1. quota \in [Reservations -> QuotaType]
  BY DEF Typed, TypeOK, QuotaType
<1> DEFINE A == {r \in Reservations : r[1] = c /\ Accounted(r)}
           B == {r \in Reservations : r[1] = c /\ (quota[r].state \in Active \/ r \in misled)}
<1>2. A \in SUBSET B /\ A \in SUBSET Reservations /\ B \in SUBSET Reservations
  BY DEF Active, Accounted
<1>3. \A r \in Reservations : r[1] = c /\ quota[r].state = "reserved"
                                => r \notin A /\ A \cup {r} \in SUBSET B
  BY DEF Active, Accounted
<1>4. ConfirmedOf(c) = QtyOf(quota, A) /\ CoverOf(c) = QtyOf(quota, B)
  BY DEF ConfirmedOf, CoverOf
<1> HIDE DEF A, B
<1>5. QtyOf(quota, A) <= QtyOf(quota, B) /\ QtyOf(quota, B) \in Nat
  BY <1>1, <1>2, QtyUpTo, QtyNat
<1>6. ASSUME NEW r \in Reservations, r[1] = c, quota[r].state = "reserved"
      PROVE  QtyOf(quota, A) + quota[r].qty <= QtyOf(quota, B)
  <2>1. QtyOf(quota, A \cup {r}) <= QtyOf(quota, B)
    BY <1>1, <1>2, <1>3, <1>6, QtyUpTo
  <2>2. QtyOf(quota, A \cup {r}) = QtyOf(quota, A) + quota[r].qty
    BY <1>1, <1>2, <1>3, <1>6, QtyPlus
  <2> QED BY <2>1, <2>2
<1> QED BY <1>4, <1>5, <1>6

LEMMA CoveredIs == Typed /\ Covered => ExposureCovered
<1> SUFFICES ASSUME Typed, Covered, NEW c \in Keys
             PROVE  taken[c] <= CoverOf(c) \/ orders[c].status = "failed" \/ Disputed(c)
  BY DEF ExposureCovered, Disputed
<1>1. taken[c] \in Nat /\ CoverOf(c) \in Nat /\ ConfirmedOf(c) \in Nat
  BY CoverHas, ConfirmedNat DEF Typed, TypeOK
<1>2. CASE taken[c] <= ConfirmedOf(c)
  BY <1>1, <1>2, CoverHas
<1>3. ASSUME NEW r \in Reservations, r[1] = c, quota[r].state = "reserved",
             taken[c] <= ConfirmedOf(c) + quota[r].qty
      PROVE  taken[c] <= CoverOf(c)
  <2>1. quota[r].qty \in Nat
    BY DEF Typed, TypeOK
  <2> QED BY <1>1, <1>3, <2>1, CoverHas
<1> QED BY <1>2, <1>3 DEF Covered, TakenCovered

(* Whatever is sent, refused, lost, repeated or settled, in any order and  *)
(* over crashes, the quantity an order has at the broker is reserved for   *)
(* it; but for an order given up without broker ids, for a reservation two *)
(* parties decided about, and for no more than the increases the watchdog  *)
(* returned on a list that did not show them yet.                          *)
THEOREM ExposureKept == Spec => []ExposureCovered
<1>1. Init => Ground /\ Requests /\ Covered
  BY TypedInit, SendOnceInit, RowsInit, ExposureInit DEF Ground
<1>2. Ground /\ Requests /\ Covered /\ [Next]_vars => (Ground /\ Requests /\ Covered)'
  BY TypedStep, SendOnceStep, RowsStep, ExposureStep DEF Ground
<1>3. Ground /\ Requests /\ Covered => ExposureCovered
  BY CoveredIs DEF Ground
<1> QED BY <1>1, <1>2, <1>3, PTL DEF Spec
=============================================================================
