--------------------------- MODULE MCAgentAccess ---------------------------
EXTENDS AgentAccess, TLC
CONSTANTS u1, u2, a1, a2, p1, p2, q1

Owner == [c \in Conns |-> IF c = q1 THEN u2 ELSE u1]
(* A server without orders, and one where the second user has some.        *)
NewAndUsed == {{}, {<<a2, u2>>}}
(* A shut-out is followed without reports and crashes, reports without     *)
(* crashes.                                                                *)
OneStory ==
  /\ (\E u \in Users : ShutOut(u)) \/ slipped # {} => rows = {} /\ (\A u \in Users : recon[u] = "idle")
  /\ crashes > 0 => rows = {} /\ (\A u \in Users : recon[u] = "idle" /\ ~ShutOut(u))
Symmetric == Permutations({p1, p2})
=============================================================================
