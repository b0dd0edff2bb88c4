--------------------------- MODULE MCAgentCommands ---------------------------
EXTENDS AgentCommands, TLC
CONSTANTS o1, o2, k1, u1, u2, u3

OnePlace == {o1}
OneCancel == {k1}
ThreeUpdates == {u1, u2, u3}
None == {}
OrderOfAll == [c \in Cancels \cup Updates |-> o1]
LotEach == [o \in Places |-> 1]
TwoLots == [u \in Updates |-> 2]
TwoOrOne == [u \in Updates |-> IF u = u2 THEN 1 ELSE 2]
\* the two updates of one content may be exchanged
SameContent == Permutations({u1, u3})
JustException == {"exception"}
JustNotFound == {"trade_not_found"}
=============================================================================
