---------------------------- MODULE OrderStatus ----------------------------
(***************************************************************************)
(* The life of an order's status: the guard every writer of Order.status   *)
(* goes through (broker/repository.py), except set_order_ack, which        *)
(* overwrites.  Pure operators; AgentCommands and RawInbox use them.       *)
(***************************************************************************)
EXTENDS Integers

Ranked == {"pending", "sending", "submitted", "partfilled", "filled"}

TerminalStatuses == {"cancelled", "failed"}

Statuses == Ranked \cup TerminalStatuses \cup {"unknown"}

Rank(s) == CASE s = "pending"    -> 0
             [] s = "sending"    -> 1
             [] s = "submitted"  -> 2
             [] s = "partfilled" -> 3
             [] s = "filled"     -> 4

(* Mutant: cancelled and failed can be left.                               *)
LeavesTerminal(cur, new) ==
  IF new \in TerminalStatuses \cup {"unknown"}
  THEN cur # "filled"
  ELSE cur \in TerminalStatuses \cup {"unknown"} \/ Rank(new) > Rank(cur)

(* May a status move from cur to new?  The early returns of the code, in   *)
(* order: no self-loop, no way out of a terminal status, no way into a     *)
(* terminal status or "unknown" from "filled", any way out of "unknown",   *)
(* and otherwise strictly up the ranks.                                    *)
TransitionAllowed(cur, new) ==
  /\ cur # new
  /\ cur \notin TerminalStatuses
  /\ IF new \in TerminalStatuses \cup {"unknown"}
     THEN cur # "filled"
     ELSE cur = "unknown" \/ Rank(new) > Rank(cur)

(* mark_order_status: silently keeps the status when the move is refused.  *)
Mark(cur, new) == IF TransitionAllowed(cur, new) THEN new ELSE cur

(* apply_order_fill: the status after a fill that brings filled_qty to     *)
(* filled, for an order of size qty.                                       *)
FillStatus(cur, filled, qty) ==
  Mark(cur, IF filled >= qty THEN "filled" ELSE "partfilled")

(* The statuses the unknown-resolver and the report handler regard as      *)
(* final (agent_commands.ORDER_TERMINAL_FOR_UNKNOWN_RESOLVER).             *)
FinalStatuses == {"cancelled", "failed", "filled"}
=============================================================================
