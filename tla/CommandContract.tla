-------------------------- MODULE CommandContract --------------------------
(***************************************************************************)
(* What the command path promises of one mutating command, whatever the    *)
(* sessions, replays and duplicates underneath: an effect at the agent, a  *)
(* verdict at the server, and how the two are related.                     *)
(*                                                                         *)
(* effect   none      the native call has not been made                    *)
(*          running   it has, and its answer is not recorded yet           *)
(*          ok, refused, doubt    the recorded answer                      *)
(*          lost      its answer was lost                                  *)
(* verdict  open, ok, error, unknown (answered, outcome not known),        *)
(*          settled   (closed by the server itself: a report or a query of *)
(*                    the order, or its own failure to send; which recalls *)
(*                    nothing that may be on its way), or sent again after *)
(*                    the verdict error                                    *)
(***************************************************************************)
CONSTANT Cmds

VARIABLES effect, verdict
vars == <<effect, verdict>>

Effects == {"none", "running", "ok", "refused", "doubt", "lost"}
Verdicts == {"open", "ok", "error", "unknown", "settled"}

Init ==
  /\ effect = [c \in Cmds |-> "none"]
  /\ verdict = [c \in Cmds |-> "open"]

(* A command whose answer is recorded, or which has been answered, is not  *)
(* executed; one whose answer was lost may be executed again.              *)
Execute(c) ==
  /\ effect[c] \in {"none", "lost"} /\ verdict[c] \in {"open", "settled"}
  /\ effect' = [effect EXCEPT ![c] = "running"]
  /\ UNCHANGED verdict

Finish(c) ==
  /\ effect[c] = "running"
  /\ \E e \in {"ok", "refused", "doubt", "lost"} : effect' = [effect EXCEPT ![c] = e]
  /\ UNCHANGED verdict

(* The verdict is the recorded answer.  Without one it can only be error,  *)
(* from an agent that has not executed and will not.                       *)
Agrees(v, e) ==
  \/ v = "ok" /\ e = "ok"
  \/ v = "unknown" /\ e = "doubt"
  \/ v = "error" /\ e \in {"none", "lost", "refused"}

Answer(c) ==
  /\ verdict[c] = "open"
  /\ \E v \in {"ok", "error", "unknown"} :
       Agrees(v, effect[c]) /\ verdict' = [verdict EXCEPT ![c] = v]
  /\ UNCHANGED effect

(* The request itself sends the command after it was refused: the server   *)
(* keeps the refusal, and what the command then does is nobody's verdict.  *)
SendAfterError(c) ==
  /\ verdict[c] = "error"
  /\ verdict' = [verdict EXCEPT ![c] = "settled"]
  /\ UNCHANGED effect

(* One event of the system settles every command of a final order.         *)
SettleSome ==
  /\ \E C \in SUBSET Cmds :
       /\ \A c \in C : verdict[c] \in {"open", "unknown"}
       /\ verdict' = [c \in Cmds |-> IF c \in C THEN "settled" ELSE verdict[c]]
  /\ UNCHANGED effect

Next == SettleSome \/ \E c \in Cmds : Execute(c) \/ Finish(c) \/ Answer(c) \/ SendAfterError(c)

Spec == Init /\ [][Next]_vars

-----------------------------------------------------------------------------
(* What follows from the contract: a verdict of ok or error, once given,   *)
(* stays true of the agent.                                                *)
TypeOK ==
  /\ effect \in [Cmds -> Effects]
  /\ verdict \in [Cmds -> Verdicts]

VerdictTrue ==
  \A c \in Cmds : /\ verdict[c] = "ok" => effect[c] = "ok"
                  /\ verdict[c] = "error" => effect[c] \in {"none", "lost", "refused"}
                  /\ verdict[c] = "unknown" => effect[c] = "doubt"
=============================================================================
