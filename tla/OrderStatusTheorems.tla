------------------------ MODULE OrderStatusTheorems ------------------------
(***************************************************************************)
(* Facts about the status guard of broker/repository.py.                   *)
(***************************************************************************)
EXTENDS OrderStatus, TLAPS

(* Mark writes the new status or keeps the old one.                        *)
LEMMA MarkEither ==
  ASSUME NEW cur, NEW new
  PROVE  Mark(cur, new) \in {cur, new}
BY DEF Mark

(* Nothing leaves cancelled, failed or filled through the guard.           *)
LEMMA MarkKeepsFinal ==
  ASSUME NEW cur \in FinalStatuses, NEW new \in Statuses
  PROVE  Mark(cur, new) = cur
<1>1. CASE cur \in TerminalStatuses
  BY <1>1 DEF Mark, TransitionAllowed
<1>2. CASE cur = "filled" /\ new \in Ranked
  <2>1. Rank(cur) = 4 /\ Rank(new) \in {0, 1, 2, 3, 4}
    BY <1>2 DEF Rank, Ranked
  <2>2. ~(Rank(new) > Rank(cur))
    BY <2>1
  <2>3. new \notin TerminalStatuses \cup {"unknown"}
    BY <1>2 DEF Ranked, TerminalStatuses
  <2> QED BY <1>2, <2>2, <2>3 DEF Mark, TransitionAllowed
<1>3. CASE cur = "filled" /\ new \in TerminalStatuses \cup {"unknown"}
  BY <1>3 DEF Mark, TransitionAllowed
<1> QED BY <1>1, <1>2, <1>3 DEF FinalStatuses, Statuses, TerminalStatuses

(* Progress is never undone: through the guard a ranked status only rises, *)
(* or leaves the ranks for cancelled, failed or unknown.                   *)
LEMMA MarkRises ==
  ASSUME NEW cur \in Ranked, NEW new \in Statuses,
         Mark(cur, new) \in Ranked
  PROVE  Rank(Mark(cur, new)) >= Rank(cur)
<1>1. Rank(cur) \in {0, 1, 2, 3, 4}
  BY DEF Rank, Ranked
<1>2. CASE Mark(cur, new) = cur
  BY <1>1, <1>2
<1>3. CASE Mark(cur, new) # cur
  <2>1. TransitionAllowed(cur, new) /\ Mark(cur, new) = new
    BY <1>3 DEF Mark
  <2>2. new \in Ranked /\ new \notin TerminalStatuses \cup {"unknown"} /\ cur # "unknown"
    BY <2>1 DEF Ranked, TerminalStatuses
  <2>3. Rank(new) > Rank(cur)
    BY <2>1, <2>2 DEF TransitionAllowed
  <2>4. Rank(new) \in {0, 1, 2, 3, 4}
    BY <2>2 DEF Rank, Ranked
  <2> QED BY <1>1, <2>1, <2>3, <2>4
<1> QED BY <1>2, <1>3
=============================================================================
