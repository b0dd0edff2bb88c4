-------------------------------- MODULE Sums -------------------------------
(***************************************************************************)
(* Sums over finite sets.  The terms are a function, not an operator, so   *)
(* that SumTheorems can state their laws.                                  *)
(***************************************************************************)
EXTENDS FiniteSetsExt

SumOver(q, S) == MapThenSumSet(LAMBDA x : q[x], S)
=============================================================================
