----------------------------- MODULE MCAgentGui -----------------------------
EXTENDS AgentGui, TLC
CONSTANTS u1, u2, g1, g2, k1, k2, t1, t2, t3

GuiFlows == Guis \X {"setup", "reauth"}
Symmetric == Permutations(Users) \cup Permutations(Tokens)

(* How far a state is from one GUI with one code and two tokens: a second  *)
(* GUI or a further token, an expiry or a repeated request, a keyring that *)
(* does not agree with the registry.  A state strays at most once; a second*)
(* code comes with a repeated request on a machine that began without a    *)
(* profile, and some strays keep the authorisations still.                 *)
Used == Cardinality({k \in Codes : code[k].status # "unused"})
Forgotten == {p \in registry : stored[p] = None}
Odd == {p \in registry : ~broker[p]} \cup {p \in Users \ registry : stored[p] # None \/ broker[p]}
Strays ==
  (IF gui[g2].up THEN 1 ELSE 0)
    + (IF \A t \in Tokens : token[t].user # None THEN 1 ELSE 0)
    + Cardinality({k \in Codes : code[k].expired}) + Cardinality({t \in Tokens : token[t].aged}) + resends
    + Cardinality(Forgotten) + Cardinality(Odd)
Quiet == polls = {} /\ \A f \in Flows : flow[f].at \in {"idle", "done"}
OneStory ==
  /\ Strays <= 1
  /\ code[k2].status # "unused" => code[k1].status # "unused"
  /\ gui[g2].up => gui[g1].up /\ gui[g2].decision.profile # None
  /\ gui[g2].up \/ Odd # {} \/ (\E g \in Guis : gui[g].probing) => Quiet
  /\ Used > 1 => /\ resends > 0 /\ Cardinality(registry) <= 1
                 /\ \A g \in Guis : gui[g].decision = Off.decision
  /\ \A g \in Guis : gui[g].creds => gui[g].result # None
=============================================================================
