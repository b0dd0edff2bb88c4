---------------------------- MODULE MCRiskGuard ----------------------------
EXTENDS RiskGuard, TLC
CONSTANTS u1, u2, c1, c2, t1, t2, t3, k1, k2

New(qty) == [qty |-> qty, octype |-> "New"]
OneAndTwo == {New(1), New(2)}
(* A cooldown only refuses new orders in the check: it is not followed     *)
(* together with a switch or a crash.                                      *)
CoolingAlone == cooling = {} \/ (kill = {} /\ crashes = 0)

Symmetric ==
  Permutations({c1, c2}) \cup Permutations({t1, t2, t3}) \cup Permutations({k1, k2})
=============================================================================
