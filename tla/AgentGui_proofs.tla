-------------------------- MODULE AgentGui_proofs --------------------------
(***************************************************************************)
(* Proofs that the tokens of the device authorisation are accounted for    *)
(* and that the GUI processes of a machine keep to the profiles their      *)
(* tokens belong to, for any number of users, codes, tokens and GUIs.      *)
(***************************************************************************)
EXTENDS AgentGui, TLAPS

(* Codes and tokens: the run's TokensAccounted, and why it is inductive.   *)
Decided ==
  /\ \A k \in Codes : code[k].consumed => code[k].status = "approved"
  /\ \A k \in Codes : code[k].status = "approved" => code[k].user # None
  /\ \A t \in Tokens : token[t].active \/ token[t].from # None => token[t].user # None

(* A client that was given a token asked about a code.                     *)
Given ==
  /\ \A f \in Flows : flow[f].at \in {"open", "asked", "answered"} => flow[f].code # None
  /\ \A f \in Flows : flow[f].token # None => flow[f].at = "answered" /\ flow[f].answer = "approved"
  /\ \A f \in Flows : flow[f].at = "answered" /\ flow[f].answer = "approved" => flow[f].token # None

(* A lock a GUI remembers is its own, and so is its runner's.              *)
Locked ==
  /\ \A g \in Guis : gui[g].lock # None => locks[gui[g].lock] = g
  /\ \A g \in Guis : Alive(g) => gui[g].runner.profile # None /\ gui[g].lock = gui[g].runner.profile

(* Tokens are where their users are.                                       *)
Placed ==
  /\ \A g \in Guis : Alive(g) => token[gui[g].runner.token].user = gui[g].runner.profile
  /\ \A g \in Guis : gui[g].result # None => gui[g].profile # None /\ token[gui[g].result].user = gui[g].profile
  /\ \A p \in Users : stored[p] # None => token[stored[p]].user = p

Accounted == TokensAccounted /\ Decided /\ Given
Owning == Locked /\ Placed
IInv == TypeOK /\ Accounted /\ Owning

CodeType == [status : {"unused", "pending", "approved", "denied"},
             user : Users \cup {None}, consumed : BOOLEAN, expired : BOOLEAN]
TokenType == [user : Users \cup {None}, from : Codes \cup {None}, active : BOOLEAN, aged : BOOLEAN]
FlowType == [at : {"idle", "starting", "open", "asked", "answered", "done"},
             code : Codes \cup {None}, answer : Answers \cup {None},
             token : Tokens \cup {None}, restarts : 0 .. MaxRestarts]
GuiType == [up : BOOLEAN,
            decision : [step : {1, 2}, profile : Users \cup {None}],
            result : Tokens \cup {None}, profile : Users \cup {None}, creds : BOOLEAN,
            runner : [profile : Users \cup {None}, token : Tokens \cup {None}],
            probing : BOOLEAN, lock : Users \cup {None}]

LEMMA Types ==
  /\ DeviceTypeOK <=> /\ code \in [Codes -> CodeType] /\ token \in [Tokens -> TokenType]
                      /\ polls \subseteq Codes /\ resends \in 0 .. MaxResends
                      /\ flow \in [Flows -> FlowType]
  /\ TypeOK <=> /\ DeviceTypeOK /\ gui \in [Guis -> GuiType] /\ registry \subseteq Users
                /\ stored \in [Users -> Tokens \cup {None}] /\ broker \in [Users -> BOOLEAN]
                /\ locks \in [Users -> Guis \cup {None}]
BY DEF TypeOK, DeviceTypeOK, CodeType, TokenType, FlowType, GuiType

(* The same of the next state.                                             *)
LEMMA TypesNext ==
  /\ DeviceTypeOK' <=> /\ code' \in [Codes -> CodeType] /\ token' \in [Tokens -> TokenType]
                       /\ polls' \subseteq Codes /\ resends' \in 0 .. MaxResends
                       /\ flow' \in [Flows -> FlowType]
  /\ TypeOK' <=> /\ DeviceTypeOK' /\ gui' \in [Guis -> GuiType] /\ registry' \subseteq Users
                 /\ stored' \in [Users -> Tokens \cup {None}] /\ broker' \in [Users -> BOOLEAN]
                 /\ locks' \in [Users -> Guis \cup {None}]
BY DEF TypeOK, DeviceTypeOK, CodeType, TokenType, FlowType, GuiType

LEMMA Clients == ASSUME NEW g \in Guis
  PROVE /\ Setup(g) \in Flows /\ Reauthorisation(g) \in Flows
        /\ \A h \in Guis : Setup(g) # Reauthorisation(h) /\ (g # h => Setup(g) # Setup(h))
        /\ \A h \in Guis : g # h => Reauthorisation(g) # Reauthorisation(h)
BY FlowsOfGuis DEF Setup, Reauthorisation

-----------------------------------------------------------------------------
(* What an authorisation does to the rows, and what the machine relies on. *)

(* An issued token keeps its user, whatever is rotated or aged.            *)
Keeps == \A t \in Tokens : token[t].user # None => token'[t].user = token[t].user

DeviceIInv == DeviceTypeOK /\ Accounted

LEMMA RotatedRows ==
  ASSUME DeviceTypeOK, NEW u \in Users, NEW t \in Tokens, NEW k \in Codes \cup {None},
         token' = Rotated(u, t, k), token[t].user = None
  PROVE  /\ token' \in [Tokens -> TokenType]
         /\ token'[t] = [user |-> u, from |-> k, active |-> TRUE, aged |-> FALSE]
         /\ \A s \in Tokens \ {t} : /\ token'[s].user = token[s].user /\ token'[s].from = token[s].from
                                    /\ token'[s].active => token[s].active /\ token[s].user # u
         /\ Keeps
<1>1. token \in [Tokens -> TokenType]
  BY Types
<1>2. ASSUME NEW s \in Tokens
      PROVE /\ token'[s] \in TokenType
            /\ s = t => token'[s] = [user |-> u, from |-> k, active |-> TRUE, aged |-> FALSE]
            /\ s # t => /\ token'[s].user = token[s].user /\ token'[s].from = token[s].from
                        /\ token'[s].active => token[s].active /\ token[s].user # u
  <2>1. CASE s = t
    <3>1. token'[s] = [user |-> u, from |-> k, active |-> TRUE, aged |-> FALSE]
      BY <2>1 DEF Rotated
    <3> QED BY <2>1, <3>1 DEF TokenType
  <2>2. CASE s # t /\ token[s].user = u
    <3>1. token'[s] = [token[s] EXCEPT !.active = FALSE] /\ token[s] \in TokenType
      BY <1>1, <2>2 DEF Rotated
    <3>2. token'[s] \in TokenType /\ token'[s].active = FALSE
      BY <3>1 DEF TokenType
    <3>3. token'[s].user = token[s].user /\ token'[s].from = token[s].from
      BY <3>1 DEF TokenType
    <3> QED BY <2>2, <3>2, <3>3
  <2>3. CASE s # t /\ token[s].user # u
    <3>1. token'[s] = token[s]
      BY <2>3 DEF Rotated
    <3> QED BY <1>1, <2>3, <3>1 DEF TokenType
  <2> QED BY <2>1, <2>2, <2>3
<1>3. token' \in [Tokens -> TokenType]
  BY <1>2 DEF Rotated
<1> QED BY <1>2, <1>3 DEF Keeps

LEMMA ApproveStep ==
  ASSUME DeviceIInv, NEW u \in Users, NEW k \in Codes, Approve(u, k)
  PROVE  DeviceIInv' /\ Keeps
<1> USE NoneIsNothing
<1>1. code \in [Codes -> CodeType] /\ token \in [Tokens -> TokenType] /\ flow \in [Flows -> FlowType]
  BY Types DEF DeviceIInv
<1>2. /\ code' = [code EXCEPT ![k].status = "approved", ![k].user = u]
      /\ UNCHANGED <<token, polls, resends, flow>> /\ code[k].status = "pending"
  BY DEF Approve, Decidable
<1>3. code' \in [Codes -> CodeType]
  BY <1>1, <1>2 DEF CodeType
<1>4. DeviceTypeOK'
  BY <1>2, <1>3, Types, TypesNext DEF DeviceIInv
<1>5. /\ code'[k].consumed = code[k].consumed /\ code'[k].user = u /\ code'[k].status = "approved"
      /\ \A c \in Codes \ {k} : code'[c] = code[c]
  BY <1>1, <1>2 DEF CodeType
<1>6. ~code[k].consumed
  BY <1>2 DEF DeviceIInv, Accounted, Decided
<1>7. \A t \in Tokens : token[t].from # k
  BY <1>2, <1>6 DEF DeviceIInv, Accounted, TokensAccounted
<1>8. TokensAccounted'
  BY <1>1, <1>2, <1>5, <1>6, <1>7 DEF DeviceIInv, Accounted, TokensAccounted, TokenType
<1>9. Decided' /\ Given'
  BY <1>1, <1>2, <1>5 DEF DeviceIInv, Accounted, Decided, Given
<1> QED BY <1>2, <1>4, <1>8, <1>9 DEF DeviceIInv, Accounted, Keeps

LEMMA DenyStep ==
  ASSUME DeviceIInv, NEW k \in Codes, Deny(k)
  PROVE  DeviceIInv' /\ Keeps
<1> USE NoneIsNothing
<1>1. code \in [Codes -> CodeType] /\ token \in [Tokens -> TokenType] /\ flow \in [Flows -> FlowType]
  BY Types DEF DeviceIInv
<1>2. /\ code' = [code EXCEPT ![k].status = "denied"]
      /\ UNCHANGED <<token, polls, resends, flow>> /\ code[k].status = "pending"
  BY DEF Deny, Decidable
<1>3. code' \in [Codes -> CodeType]
  BY <1>1, <1>2 DEF CodeType
<1>4. DeviceTypeOK'
  BY <1>2, <1>3, Types, TypesNext DEF DeviceIInv
<1>5. /\ code'[k].consumed = code[k].consumed /\ code'[k].status = "denied"
      /\ \A c \in Codes \ {k} : code'[c] = code[c]
  BY <1>1, <1>2 DEF CodeType
<1>6. ~code[k].consumed
  BY <1>2 DEF DeviceIInv, Accounted, Decided
<1>7. \A t \in Tokens : token[t].from # k
  BY <1>2, <1>6 DEF DeviceIInv, Accounted, TokensAccounted
<1>8. TokensAccounted'
  BY <1>1, <1>2, <1>5, <1>6, <1>7 DEF DeviceIInv, Accounted, TokensAccounted, TokenType
<1>9. Decided' /\ Given'
  BY <1>1, <1>2, <1>5, <1>6 DEF DeviceIInv, Accounted, Decided, Given
<1> QED BY <1>2, <1>4, <1>8, <1>9 DEF DeviceIInv, Accounted, Keeps

LEMMA ExpireStep ==
  ASSUME DeviceIInv, NEW k \in Codes, Expire(k)
  PROVE  DeviceIInv' /\ Keeps
<1>1. code \in [Codes -> CodeType] /\ token \in [Tokens -> TokenType] /\ flow \in [Flows -> FlowType]
  BY Types DEF DeviceIInv
<1>2. code' = [code EXCEPT ![k].expired = TRUE] /\ UNCHANGED <<token, polls, resends, flow>>
  BY DEF Expire
<1>3. code' \in [Codes -> CodeType]
  BY <1>1, <1>2 DEF CodeType
<1>4. DeviceTypeOK'
  BY <1>2, <1>3, Types, TypesNext DEF DeviceIInv
<1>5. \A c \in Codes : /\ code'[c].consumed = code[c].consumed /\ code'[c].user = code[c].user
                       /\ code'[c].status = code[c].status
  BY <1>1, <1>2 DEF CodeType
<1>6. TokensAccounted'
  BY <1>1, <1>2, <1>5, NoneIsNothing DEF DeviceIInv, Accounted, TokensAccounted, TokenType
<1>7. Decided' /\ Given'
  BY <1>1, <1>2, <1>5 DEF DeviceIInv, Accounted, Decided, Given
<1> QED BY <1>2, <1>4, <1>6, <1>7 DEF DeviceIInv, Accounted, Keeps

LEMMA IssueTokenStep ==
  ASSUME DeviceIInv, NEW u \in Users, NEW t \in Tokens, IssueToken(u, t)
  PROVE  DeviceIInv' /\ Keeps
<1> USE NoneIsNothing
<1>1. code \in [Codes -> CodeType] /\ token \in [Tokens -> TokenType] /\ flow \in [Flows -> FlowType]
  BY Types DEF DeviceIInv
<1>2. token' = Rotated(u, t, None) /\ token[t].user = None /\ UNCHANGED <<code, polls, resends, flow>>
  BY DEF IssueToken
<1>3. /\ token' \in [Tokens -> TokenType]
      /\ token'[t].user = u /\ token'[t].from = None
      /\ \A s \in Tokens \ {t} : /\ token'[s].user = token[s].user /\ token'[s].from = token[s].from
                                 /\ token'[s].active => token[s].active /\ token[s].user # u
      /\ Keeps
  <2>1. DeviceTypeOK /\ None \in Codes \cup {None}
    BY DEF DeviceIInv
  <2> HIDE NoneIsNothing
  <2>2. /\ token' \in [Tokens -> TokenType]
        /\ token'[t] = [user |-> u, from |-> None, active |-> TRUE, aged |-> FALSE]
        /\ \A s \in Tokens \ {t} : /\ token'[s].user = token[s].user /\ token'[s].from = token[s].from
                                   /\ token'[s].active => token[s].active /\ token[s].user # u
        /\ Keeps
    BY <1>2, <2>1, RotatedRows
  <2> QED BY <2>2
<1>4. DeviceTypeOK'
  BY <1>2, <1>3, Types, TypesNext DEF DeviceIInv
<1>5. token[t].from = None
  BY <1>2 DEF DeviceIInv, Accounted, Decided
<1>6. \A f \in Flows : flow[f].token # t
  BY <1>1, <1>5 DEF DeviceIInv, Accounted, Given, TokensAccounted
<1>7. TokensAccounted'
  <2>1. (\A k \in Codes : code[k].consumed => \E s \in Tokens : token[s].from = k)'
    BY <1>2, <1>3, <1>5 DEF DeviceIInv, Accounted, TokensAccounted
  <2>2. (\A s \in Tokens : token[s].from # None =>
            /\ code[token[s].from].consumed
            /\ code[token[s].from].status = "approved"
            /\ code[token[s].from].user = token[s].user)'
    BY <1>2, <1>3 DEF DeviceIInv, Accounted, TokensAccounted
  <2>3. (\A r, s \in Tokens : r # s /\ token[r].from # None => token[r].from # token[s].from)'
    BY <1>2, <1>3 DEF DeviceIInv, Accounted, TokensAccounted
  <2>4. (\A r, s \in Tokens : token[r].active /\ token[s].active /\ r # s =>
            token[r].user # token[s].user)'
    BY <1>2, <1>3 DEF DeviceIInv, Accounted, TokensAccounted
  <2>5. (\A f \in Flows : flow[f].token # None => token[flow[f].token].from = flow[f].code)'
    BY <1>1, <1>2, <1>3, <1>6 DEF DeviceIInv, Accounted, TokensAccounted, FlowType
  <2> QED BY <2>1, <2>2, <2>3, <2>4, <2>5 DEF TokensAccounted
<1>8. Decided' /\ Given'
  BY <1>1, <1>2, <1>3 DEF DeviceIInv, Accounted, Decided, Given
<1> QED BY <1>3, <1>4, <1>7, <1>8 DEF DeviceIInv, Accounted

LEMMA AgeStep ==
  ASSUME DeviceIInv, NEW t \in Tokens, Age(t)
  PROVE  DeviceIInv' /\ Keeps
<1>1. code \in [Codes -> CodeType] /\ token \in [Tokens -> TokenType] /\ flow \in [Flows -> FlowType]
  BY Types DEF DeviceIInv
<1>2. token' = [token EXCEPT ![t].aged = TRUE] /\ UNCHANGED <<code, polls, resends, flow>>
  BY DEF Age
<1>3. token' \in [Tokens -> TokenType]
  BY <1>1, <1>2 DEF TokenType
<1>4. DeviceTypeOK'
  BY <1>2, <1>3, Types, TypesNext DEF DeviceIInv
<1>5. \A s \in Tokens : /\ token'[s].user = token[s].user /\ token'[s].from = token[s].from
                        /\ token'[s].active = token[s].active
  BY <1>1, <1>2 DEF TokenType
<1>6. TokensAccounted'
  BY <1>1, <1>2, <1>5, NoneIsNothing DEF DeviceIInv, Accounted, TokensAccounted, FlowType
<1>7. Decided' /\ Given'
  BY <1>1, <1>2, <1>5 DEF DeviceIInv, Accounted, Decided, Given
<1> QED BY <1>4, <1>5, <1>6, <1>7 DEF DeviceIInv, Accounted, Keeps

(* What a poll's answer does to the clients.                               *)
LEMMA AnswerStep ==
  ASSUME DeviceIInv, NEW k \in Codes, NEW a \in Answers, NEW t \in Tokens \cup {None}, Answer(k, a, t)
  PROVE  /\ polls' \subseteq Codes /\ resends' \in 0 .. MaxResends
         /\ flow' \in [Flows -> FlowType]
         /\ \A f \in Flows : \/ flow'[f] = flow[f]
                             \/ /\ flow[f].code = k /\ flow'[f].code = k /\ flow'[f].at = "answered"
                                /\ flow'[f].answer = a /\ flow'[f].token = t
<1>1. flow \in [Flows -> FlowType] /\ polls \subseteq Codes /\ resends \in 0 .. MaxResends
  BY Types DEF DeviceIInv
<1>2. polls' \subseteq Codes /\ resends' \in 0 .. MaxResends
  <2>1. polls' \subseteq Codes
    BY <1>1 DEF Answer
  <2>2. CASE resends' = resends
    BY <1>1, <2>1, <2>2
  <2>3. CASE resends < MaxResends /\ resends' = resends + 1
    BY <1>1, <2>1, <2>3, DeviceBounds
  <2> QED BY <2>2, <2>3 DEF Answer
<1>3. CASE UNCHANGED flow
  BY <1>1, <1>2, <1>3
<1>4. ASSUME NEW f \in Flows, flow[f].at = "asked", flow[f].code = k,
             flow' = [flow EXCEPT ![f].at = "answered", ![f].answer = a, ![f].token = t]
      PROVE /\ flow' \in [Flows -> FlowType]
            /\ \A g \in Flows \ {f} : flow'[g] = flow[g]
            /\ flow'[f].code = k /\ flow'[f].at = "answered"
            /\ flow'[f].answer = a /\ flow'[f].token = t
  <2> DEFINE x == [flow[f] EXCEPT !.at = "answered", !.answer = a, !.token = t]
  <2>1. flow[f] \in FlowType
    BY <1>1
  <2>2. x \in FlowType
    BY <2>1 DEF FlowType
  <2>3. x.code = k /\ x.at = "answered" /\ x.answer = a /\ x.token = t
    BY <1>4, <2>1 DEF FlowType
  <2>4. flow' = [flow EXCEPT ![f] = x]
    BY <1>1, <1>4 DEF FlowType
  <2> HIDE DEF x
  <2>5. flow'[f] = x /\ \A g \in Flows \ {f} : flow'[g] = flow[g]
    BY <1>1, <2>4
  <2>6. flow' \in [Flows -> FlowType]
    BY <1>1, <2>2, <2>4
  <2> QED BY <2>3, <2>5, <2>6
<1>5. CASE \E f \in Flows :
          /\ flow[f].at = "asked" /\ flow[f].code = k
          /\ flow' = [flow EXCEPT ![f].at = "answered", ![f].answer = a, ![f].token = t]
  BY <1>2, <1>4, <1>5
<1> QED BY <1>3, <1>5 DEF Answer

LEMMA TellStep ==
  ASSUME DeviceIInv, NEW k \in Codes, Tell(k)
  PROVE  DeviceIInv' /\ Keeps
<1> USE NoneIsNothing
<1>1. code \in [Codes -> CodeType] /\ token \in [Tokens -> TokenType] /\ flow \in [Flows -> FlowType]
  BY Types DEF DeviceIInv
<1>2. Verdict(k) \in Answers /\ Verdict(k) # "approved"
  BY <1>1 DEF Verdict, Answers, CodeType
<1>3. Answer(k, Verdict(k), None) /\ UNCHANGED <<code, token>>
  BY DEF Tell
<1>4. /\ polls' \subseteq Codes /\ resends' \in 0 .. MaxResends
      /\ flow' \in [Flows -> FlowType]
      /\ \A f \in Flows : \/ flow'[f] = flow[f]
                          \/ /\ flow[f].code = k /\ flow'[f].code = k /\ flow'[f].at = "answered"
                             /\ flow'[f].answer = Verdict(k) /\ flow'[f].token = None
  BY <1>2, <1>3, AnswerStep
<1>5. DeviceTypeOK'
  BY <1>3, <1>4, Types, TypesNext DEF DeviceIInv
<1>6. TokensAccounted'
  BY <1>3, <1>4 DEF DeviceIInv, Accounted, TokensAccounted
<1>7. Decided' /\ Given'
  BY <1>2, <1>3, <1>4 DEF DeviceIInv, Accounted, Decided, Given
<1> QED BY <1>3, <1>5, <1>6, <1>7 DEF DeviceIInv, Accounted, Keeps

LEMMA ClaimStep ==
  ASSUME DeviceIInv, NEW k \in Codes, NEW t \in Tokens, Claim(k, t)
  PROVE  DeviceIInv' /\ Keeps
<1>1. code \in [Codes -> CodeType] /\ token \in [Tokens -> TokenType] /\ flow \in [Flows -> FlowType]
  BY Types DEF DeviceIInv
<1>2. /\ code' = [code EXCEPT ![k].consumed = TRUE] /\ token' = Rotated(code[k].user, t, k)
      /\ Answer(k, "approved", t) /\ code[k].status = "approved" /\ token[t].user = None
      /\ ~code[k].consumed
  BY DEF Claim, Verdict
<1>3. code[k].user \in Users
  BY <1>1, <1>2 DEF DeviceIInv, Accounted, Decided, CodeType
<1>4. /\ token' \in [Tokens -> TokenType]
      /\ token'[t] = [user |-> code[k].user, from |-> k, active |-> TRUE, aged |-> FALSE]
      /\ \A s \in Tokens \ {t} : /\ token'[s].user = token[s].user /\ token'[s].from = token[s].from
                                 /\ token'[s].active => token[s].active /\ token[s].user # code[k].user
      /\ Keeps
  <2>1. DeviceTypeOK /\ k \in Codes \cup {None}
    BY DEF DeviceIInv
  <2> QED BY <1>2, <1>3, <2>1, RotatedRows
<1>5. /\ token'[t].user = code[k].user /\ token'[t].from = k /\ token'[t].active
  BY <1>4
<1>6. /\ code' \in [Codes -> CodeType] /\ code'[k].consumed
      /\ code'[k].status = "approved" /\ code'[k].user = code[k].user
      /\ \A c \in Codes \ {k} : code'[c] = code[c]
  BY <1>1, <1>2 DEF CodeType
<1>7. /\ polls' \subseteq Codes /\ resends' \in 0 .. MaxResends
      /\ flow' \in [Flows -> FlowType]
      /\ \A f \in Flows : \/ flow'[f] = flow[f]
                          \/ /\ flow[f].code = k /\ flow'[f].code = k /\ flow'[f].at = "answered"
                             /\ flow'[f].answer = "approved" /\ flow'[f].token = t
  BY <1>2, AnswerStep DEF Answers
<1>8. DeviceTypeOK'
  BY <1>4, <1>6, <1>7, TypesNext
<1>9. token[t].from = None /\ \A s \in Tokens : token[s].from # k
  BY <1>2, NoneIsNothing DEF DeviceIInv, Accounted, Decided, TokensAccounted
<1>10. \A f \in Flows : flow[f].token # t
  BY <1>1, <1>9, NoneIsNothing DEF DeviceIInv, Accounted, Given, TokensAccounted
<1>11. TokensAccounted'
  <2>1. (\A c \in Codes : code[c].consumed => \E s \in Tokens : token[s].from = c)'
    <3>1. ASSUME NEW c \in Codes, code'[c].consumed PROVE \E s \in Tokens : token'[s].from = c
      <4>1. CASE c = k
        BY <1>5, <4>1
      <4>2. CASE c # k
        <5>1. PICK s \in Tokens : token[s].from = c
          BY <1>6, <3>1, <4>2 DEF DeviceIInv, Accounted, TokensAccounted
        <5>2. s # t
          BY <1>9, <5>1, NoneIsNothing
        <5> QED BY <1>4, <5>1, <5>2
      <4> QED BY <4>1, <4>2
    <3> QED BY <3>1
  <2>2. (\A s \in Tokens : token[s].from # None =>
            /\ code[token[s].from].consumed
            /\ code[token[s].from].status = "approved"
            /\ code[token[s].from].user = token[s].user)'
    <3>1. ASSUME NEW s \in Tokens, token'[s].from # None
          PROVE /\ code'[token'[s].from].consumed
                /\ code'[token'[s].from].status = "approved"
                /\ code'[token'[s].from].user = token'[s].user
      <4>1. CASE s = t
        BY <1>5, <1>6, <4>1
      <4>2. CASE s # t
        <5>1. token[s].from \in Codes \ {k} /\ token'[s].from = token[s].from /\ token'[s].user = token[s].user
          BY <1>1, <1>4, <1>9, <3>1, <4>2 DEF TokenType
        <5> QED BY <1>6, <5>1, NoneIsNothing DEF DeviceIInv, Accounted, TokensAccounted
      <4> QED BY <4>1, <4>2
    <3> QED BY <3>1
  <2>3. (\A r, s \in Tokens : r # s /\ token[r].from # None => token[r].from # token[s].from)'
    BY <1>4, <1>5, <1>9 DEF DeviceIInv, Accounted, TokensAccounted
  <2>4. (\A r, s \in Tokens : token[r].active /\ token[s].active /\ r # s =>
            token[r].user # token[s].user)'
    BY <1>4, <1>5 DEF DeviceIInv, Accounted, TokensAccounted
  <2>5. (\A f \in Flows : flow[f].token # None => token[flow[f].token].from = flow[f].code)'
    <3>1. ASSUME NEW f \in Flows, flow'[f].token # None
          PROVE token'[flow'[f].token].from = flow'[f].code
      <4>1. CASE flow'[f] = flow[f]
        <5>1. flow[f].token \in Tokens \ {t}
          BY <1>1, <1>10, <3>1, <4>1 DEF FlowType
        <5> QED BY <1>4, <4>1, <5>1, NoneIsNothing DEF DeviceIInv, Accounted, TokensAccounted
      <4>2. CASE flow'[f].code = k /\ flow'[f].token = t
        BY <1>5, <4>2
      <4> QED BY <1>7, <4>1, <4>2
    <3> QED BY <3>1
  <2> QED BY <2>1, <2>2, <2>3, <2>4, <2>5 DEF TokensAccounted
<1>12. Decided'
  BY <1>3, <1>4, <1>5, <1>6, <1>2, NoneIsNothing DEF DeviceIInv, Accounted, Decided
<1>13. Given'
  BY <1>7, NoneIsNothing DEF DeviceIInv, Accounted, Given
<1> QED BY <1>4, <1>8, <1>11, <1>12, <1>13 DEF DeviceIInv, Accounted

(* A client moves on without a token.                                      *)
Tokenless(x) ==
  /\ x \in FlowType /\ x.token = None
  /\ x.at \in {"open", "asked", "answered"} => x.code # None
  /\ x.at = "answered" => x.answer # "approved"

LEMMA FlowStep ==
  ASSUME DeviceIInv, NEW f \in Flows, NEW x, Tokenless(x), flow' = [flow EXCEPT ![f] = x],
         UNCHANGED token
  PROVE  /\ flow' \in [Flows -> FlowType] /\ Given'
         /\ \A g \in Flows : flow'[g].token # None => token'[flow'[g].token].from = flow'[g].code
<1>1. flow \in [Flows -> FlowType]
  BY Types DEF DeviceIInv
<1>2. flow'[f] = x /\ \A g \in Flows \ {f} : flow'[g] = flow[g]
  BY <1>1
<1>3. flow' \in [Flows -> FlowType]
  BY <1>1 DEF Tokenless
<1>4. \A g \in Flows : flow'[g].token # None => token'[flow'[g].token].from = flow'[g].code
  BY <1>2 DEF Tokenless, DeviceIInv, Accounted, TokensAccounted
<1>5. Given'
  BY <1>2 DEF Tokenless, DeviceIInv, Accounted, Given
<1> QED BY <1>3, <1>4, <1>5

LEMMA IdleIsTokenless ==
  /\ Tokenless(Idle) /\ Tokenless([Idle EXCEPT !.at = "starting"])
  /\ Tokenless([Idle EXCEPT !.at = "done"])
BY DeviceBounds DEF Tokenless, Idle, FlowType

(* A client's step that leaves the server alone.                           *)
LEMMA ClientOnly ==
  ASSUME DeviceIInv, NEW f \in Flows, NEW x, Tokenless(x), flow' = [flow EXCEPT ![f] = x],
         UNCHANGED <<code, token, resends>>, polls' \subseteq Codes
  PROVE  DeviceIInv' /\ Keeps
<1>1. /\ flow' \in [Flows -> FlowType] /\ Given'
      /\ \A g \in Flows : flow'[g].token # None => token'[flow'[g].token].from = flow'[g].code
  BY FlowStep
<1>2. DeviceTypeOK'
  BY <1>1, Types, TypesNext DEF DeviceIInv
<1>3. TokensAccounted' /\ Decided'
  BY <1>1 DEF DeviceIInv, Accounted, TokensAccounted, Decided
<1> QED BY <1>1, <1>2, <1>3 DEF DeviceIInv, Accounted, Keeps

LEMMA InitiateStep ==
  ASSUME DeviceIInv, NEW f \in Flows, NEW k \in Codes, Initiate(f, k)
  PROVE  DeviceIInv' /\ Keeps
<1>1. code \in [Codes -> CodeType] /\ token \in [Tokens -> TokenType] /\ flow \in [Flows -> FlowType]
  BY Types DEF DeviceIInv
<1>2. /\ flow[f].at = "starting" /\ code[k].status = "unused"
      /\ code' = [code EXCEPT ![k].status = "pending"]
      /\ UNCHANGED <<token, polls, resends>>
  BY DEF Initiate
<1>3. PICK x : Tokenless(x) /\ flow' = [flow EXCEPT ![f] = x]
  <2>1. CASE flow' = [flow EXCEPT ![f].at = "open", ![f].code = k]
    <3> DEFINE x == [flow[f] EXCEPT !.at = "open", !.code = k]
    <3>1. flow' = [flow EXCEPT ![f] = x]
      BY <1>1, <2>1 DEF FlowType
    <3>2. flow[f].token = None
      BY <1>2 DEF DeviceIInv, Accounted, Given
    <3>3. flow[f] \in FlowType
      BY <1>1
    <3>4. x.at = "open" /\ x.token = None /\ x.code = k /\ x \in FlowType
      BY <3>2, <3>3 DEF FlowType
    <3>5. Tokenless(x)
      BY <3>4, NoneIsNothing DEF Tokenless
    <3> QED BY <3>1, <3>5
  <2>2. CASE flow' = Ended(f)
    BY <2>2, IdleIsTokenless DEF Ended
  <2> QED BY <2>1, <2>2 DEF Initiate
<1>4. /\ flow' \in [Flows -> FlowType] /\ Given'
      /\ \A g \in Flows : flow'[g].token # None => token'[flow'[g].token].from = flow'[g].code
  BY <1>2, <1>3, FlowStep
<1>5. code' \in [Codes -> CodeType]
  BY <1>1, <1>2 DEF CodeType
<1>6. DeviceTypeOK'
  BY <1>2, <1>4, <1>5, Types, TypesNext DEF DeviceIInv
<1>7. /\ code'[k].consumed = code[k].consumed /\ code'[k].status = "pending"
      /\ \A c \in Codes \ {k} : code'[c] = code[c]
  BY <1>1, <1>2 DEF CodeType
<1>8. ~code[k].consumed
  BY <1>2 DEF DeviceIInv, Accounted, Decided
<1>9. \A t \in Tokens : token[t].from # k
  BY <1>8, NoneIsNothing DEF DeviceIInv, Accounted, TokensAccounted
<1>10. TokensAccounted'
  BY <1>1, <1>2, <1>4, <1>7, <1>8, <1>9, NoneIsNothing DEF DeviceIInv, Accounted, TokensAccounted, TokenType
<1>11. Decided'
  BY <1>1, <1>2, <1>7, <1>8 DEF DeviceIInv, Accounted, Decided
<1> QED BY <1>2, <1>4, <1>6, <1>10, <1>11 DEF DeviceIInv, Accounted, Keeps

LEMMA PollStep ==
  ASSUME DeviceIInv, NEW f \in Flows, Poll(f)
  PROVE  DeviceIInv' /\ Keeps
<1>1. flow \in [Flows -> FlowType] /\ polls \subseteq Codes
  BY Types DEF DeviceIInv
<1>2. flow[f].at = "open" /\ flow[f].code # None /\ flow[f].token = None
  BY DEF Poll, DeviceIInv, Accounted, Given
<1>3. flow[f].code \in Codes
  BY <1>1, <1>2 DEF FlowType
<1> DEFINE x == [flow[f] EXCEPT !.at = "asked"]
<1>4. flow' = [flow EXCEPT ![f] = x]
  BY <1>1 DEF Poll, FlowType
<1>5. Tokenless(x)
  BY <1>1, <1>2 DEF Tokenless, FlowType
<1>6. polls' \subseteq Codes /\ UNCHANGED <<code, token, resends>>
  BY <1>1, <1>3 DEF Poll
<1> QED BY <1>4, <1>5, <1>6, ClientOnly

LEMMA ReceiveStep ==
  ASSUME DeviceIInv, NEW f \in Flows, Receive(f)
  PROVE  DeviceIInv' /\ Keeps
<1>1. flow \in [Flows -> FlowType] /\ polls \subseteq Codes
  BY Types DEF DeviceIInv
<1>2. flow[f].at = "answered" /\ flow[f].answer # "approved" /\ flow[f].code # None
  BY DEF Receive, DeviceIInv, Accounted, Given
<1>3. PICK x : Tokenless(x) /\ flow' = [flow EXCEPT ![f] = x]
  <2>0. flow[f].token = None
    BY <1>2 DEF DeviceIInv, Accounted, Given
  <2>1. CASE flow' = [flow EXCEPT ![f] = [@ EXCEPT !.at = "open", !.answer = None, !.restarts = 0]]
    <3> DEFINE x == [flow[f] EXCEPT !.at = "open", !.answer = None, !.restarts = 0]
    <3>1. flow' = [flow EXCEPT ![f] = x]
      BY <2>1
    <3>2. 0 \in 0 .. MaxRestarts
      BY DeviceBounds
    <3>3. flow[f] \in FlowType
      BY <1>1
    <3>4. x \in FlowType
      BY <3>2, <3>3 DEF FlowType
    <3>5. x.at = "open" /\ x.token = None /\ x.code = flow[f].code
      BY <2>0, <3>3 DEF FlowType
    <3>6. Tokenless(x)
      BY <1>2, <3>4, <3>5 DEF Tokenless
    <3> QED BY <3>1, <3>6
  <2>2. CASE /\ flow[f].restarts < MaxRestarts
             /\ flow' = [flow EXCEPT ![f] = [Idle EXCEPT !.at = "starting",
                                                         !.restarts = flow[f].restarts + 1]]
    <3> DEFINE x == [Idle EXCEPT !.at = "starting", !.restarts = flow[f].restarts + 1]
    <3>1. flow[f].restarts + 1 \in 0 .. MaxRestarts
      BY <1>1, <2>2, DeviceBounds DEF FlowType
    <3>2. flow' = [flow EXCEPT ![f] = x]
      BY <2>2
    <3>3. x.at = "starting" /\ x.token = None /\ x \in FlowType
      BY <3>1 DEF FlowType, Idle
    <3>4. Tokenless(x)
      BY <3>3 DEF Tokenless
    <3> QED BY <3>2, <3>4
  <2>3. CASE flow' = Ended(f)
    BY <2>3, IdleIsTokenless DEF Ended
  <2> QED BY <2>1, <2>2, <2>3 DEF Receive
<1>4. UNCHANGED <<code, token, polls, resends>>
  BY DEF Receive
<1> QED BY <1>1, <1>3, <1>4, ClientOnly

LEMMA GiveUpStep ==
  ASSUME DeviceIInv, NEW f \in Flows, GiveUp(f)
  PROVE  DeviceIInv' /\ Keeps
<1>1. polls \subseteq Codes
  BY Types DEF DeviceIInv
<1>2. flow' = [flow EXCEPT ![f] = Idle] /\ UNCHANGED <<code, token, polls, resends>>
  BY DEF GiveUp, Ended
<1> QED BY <1>1, <1>2, IdleIsTokenless, ClientOnly

LEMMA DeviceStep ==
  ASSUME DeviceIInv, ServerNext \/ ClientNext
  PROVE  DeviceIInv' /\ Keeps
<1>1. CASE ServerNext
  BY <1>1, ApproveStep, DenyStep, ExpireStep, TellStep, ClaimStep, IssueTokenStep, AgeStep DEF ServerNext
<1>2. CASE ClientNext
  BY <1>2, InitiateStep, PollStep, ReceiveStep, GiveUpStep DEF ClientNext
<1> QED BY <1>1, <1>2

LEMMA DeviceStutter ==
  ASSUME DeviceIInv, UNCHANGED deviceVars
  PROVE  DeviceIInv' /\ Keeps
BY DEF DeviceIInv, deviceVars, DeviceTypeOK, Accounted, TokensAccounted, Decided, Given, Keeps

-----------------------------------------------------------------------------
(* What a GUI does.                                                        *)

(* The state x of a GUI agrees with the token table.                       *)
Sound(x) ==
  /\ x \in GuiType
  /\ x.runner.token # None => /\ x.runner.profile # None /\ x.lock = x.runner.profile
                              /\ token[x.runner.token].user = x.runner.profile
  /\ x.result # None => x.profile # None /\ token[x.result].user = x.profile

LEMMA GuisAreSound ==
  ASSUME TypeOK, Owning, NEW g \in Guis PROVE Sound(gui[g])
BY Types DEF Owning, Locked, Placed, Alive, Sound

(* A step of the authorisation leaves the machine where its tokens are.    *)
LEMMA MachineStutter ==
  ASSUME TypeOK, Owning, Keeps, DeviceTypeOK', UNCHANGED machineVars
  PROVE  TypeOK' /\ Owning'
<1> USE NoneIsNothing
<1>1. /\ gui \in [Guis -> GuiType] /\ stored \in [Users -> Tokens \cup {None}]
      /\ gui' = gui /\ stored' = stored /\ locks' = locks
  BY Types DEF machineVars
<1>2. TypeOK'
  BY Types, TypesNext DEF machineVars
<1>3. Locked'
  BY <1>1 DEF Owning, Locked, Alive
<1>4. ASSUME NEW g \in Guis
      PROVE /\ gui[g].runner.token # None => token'[gui[g].runner.token].user = gui[g].runner.profile
            /\ gui[g].result # None => token'[gui[g].result].user = gui[g].profile
  BY <1>1 DEF Keeps, Owning, Locked, Placed, Alive, GuiType
<1>5. ASSUME NEW p \in Users, stored[p] # None PROVE token'[stored[p]].user = p
  BY <1>1, <1>5 DEF Keeps, Owning, Placed
<1>6. Placed'
  BY <1>1, <1>4, <1>5 DEF Owning, Placed, Alive
<1> QED BY <1>2, <1>3, <1>6 DEF Owning

(* A step of one GUI that becomes x.                                       *)
Moved(g, x) ==
  /\ Sound(x) /\ gui' = [gui EXCEPT ![g] = x]
  /\ DeviceTypeOK' /\ UNCHANGED token
  /\ registry' \subseteq Users /\ broker' \in [Users -> BOOLEAN]
  /\ locks' \in [Users -> Guis \cup {None}]
  /\ x.lock # None => locks'[x.lock] = g
  /\ \A h \in Guis \ {g} : gui[h].lock # None => locks'[gui[h].lock] = h
  /\ stored' \in [Users -> Tokens \cup {None}]
  /\ \A p \in Users : stored'[p] # None => token[stored'[p]].user = p

LEMMA GuiStep ==
  ASSUME TypeOK, Owning, NEW g \in Guis, NEW x, Moved(g, x)
  PROVE  TypeOK' /\ Owning'
<1>1. gui \in [Guis -> GuiType]
  BY Types
<1>2. gui'[g] = x /\ \A h \in Guis \ {g} : gui'[h] = gui[h]
  BY <1>1 DEF Moved
<1>3. gui' \in [Guis -> GuiType]
  BY <1>1 DEF Moved, Sound
<1>4. TypeOK'
  BY <1>3, TypesNext DEF Moved
<1>5. Locked'
  BY <1>2 DEF Moved, Owning, Locked, Alive, Sound
<1>6. Placed'
  BY <1>2 DEF Moved, Owning, Placed, Alive, Sound
<1> QED BY <1>4, <1>5, <1>6 DEF Owning

(* One that takes and releases no lock and leaves the keyring alone.       *)
LEMMA QuietGuiStep ==
  ASSUME TypeOK, Owning, NEW g \in Guis, NEW x, Sound(x), x.lock = gui[g].lock,
         gui' = [gui EXCEPT ![g] = x], DeviceTypeOK',
         UNCHANGED <<token, registry, stored, broker, locks>>
  PROVE  TypeOK' /\ Owning'
<1>1. /\ registry \subseteq Users /\ broker \in [Users -> BOOLEAN]
      /\ locks \in [Users -> Guis \cup {None}] /\ stored \in [Users -> Tokens \cup {None}]
  BY Types
<1>2. /\ x.lock # None => locks[x.lock] = g
      /\ \A h \in Guis \ {g} : gui[h].lock # None => locks[gui[h].lock] = h
      /\ \A p \in Users : stored[p] # None => token[stored[p]].user = p
  BY DEF Owning, Locked, Placed
<1>3. Moved(g, x)
  BY <1>1, <1>2 DEF Moved
<1> QED BY <1>3, GuiStep

LEMMA Gathered ==
  /\ IInv <=> TypeOK /\ DeviceIInv /\ Owning
  /\ IInv' <=> TypeOK' /\ DeviceIInv' /\ Owning'
BY DEF IInv, DeviceIInv, TypeOK

(* resolve_gui_startup only connects a profile that has a token.           *)
LEMMA Resolved ==
  ASSUME NEW h, NEW r \in BOOLEAN, TypeOK
  PROVE  /\ Resolve(h, r).kind = "direct" =>
              Resolve(h, r).profile \in Users /\ stored[Resolve(h, r).profile] \in Tokens
         /\ Kept(Resolve(h, r)) \in [step : {1, 2}, profile : Users \cup {None}]
<1> DEFINE p == CHOOSE p \in Known(h) : TRUE
<1>1. registry \subseteq Users /\ stored \in [Users -> Tokens \cup {None}]
  BY Types
<1>2. CASE Known(h) = {}
  BY <1>2 DEF Resolve, Decision, Kept
<1>3. CASE Known(h) # {} /\ Cardinality(Known(h)) > 1
  BY <1>3 DEF Resolve, Decision, Kept
<1>4. CASE Known(h) # {} /\ ~(Cardinality(Known(h)) > 1)
  <2>1. p \in Users
    BY <1>1, <1>4 DEF Known
  <2> HIDE DEF p
  <2>2. Resolve(h, r) = IF r \/ stored[p] = None THEN Decision("setup1", p)
                        ELSE IF token[stored[p]].aged THEN Decision("setup1", p)
                        ELSE IF ~broker[p] THEN Decision("setup2", p)
                        ELSE Decision("direct", p)
    BY <1>4 DEF Resolve, p
  <2> QED BY <1>1, <2>1, <2>2 DEF Decision, Kept
<1> QED BY <1>2, <1>3, <1>4

(* A GUI in state s acts on a decision.                                    *)
LEMMA DirectStep ==
  ASSUME IInv, NEW g \in Guis, NEW s, Sound(s), s.lock # None => locks[s.lock] = g,
         NEW h, NEW r \in BOOLEAN, Direct(g, s, Resolve(h, r)),
         UNCHANGED <<registry, stored, broker, deviceVars>>
  PROVE  IInv'
<1> USE NoneIsNothing
<1> DEFINE d == Resolve(h, r)
<1>1. TypeOK /\ DeviceIInv /\ Owning /\ DeviceIInv' /\ DeviceTypeOK'
  BY Gathered, DeviceStutter DEF DeviceIInv
<1>2. /\ d.kind = "direct" => d.profile \in Users /\ stored[d.profile] \in Tokens
      /\ Kept(d) \in [step : {1, 2}, profile : Users \cup {None}]
  BY <1>1, Resolved
<1> HIDE DEF d
<1>3. /\ registry \subseteq Users /\ broker \in [Users -> BOOLEAN]
      /\ locks \in [Users -> Guis \cup {None}] /\ stored \in [Users -> Tokens \cup {None}]
      /\ UNCHANGED <<token, registry, broker, stored>>
  BY <1>1, Types DEF deviceVars
<1>4. /\ \A k \in Guis \ {g} : gui[k].lock # None => locks[gui[k].lock] = k
      /\ \A p \in Users : stored[p] # None => token[stored[p]].user = p
  BY <1>1 DEF Owning, Locked, Placed
<1>5. CASE gui' = [gui EXCEPT ![g] = [s EXCEPT !.decision = Kept(d)]] /\ UNCHANGED locks
  <2> DEFINE x == [s EXCEPT !.decision = Kept(d)]
  <2>1. Sound(x) /\ x.lock = s.lock
    BY <1>2 DEF Sound, GuiType
  <2> HIDE DEF x
  <2>2. gui' = [gui EXCEPT ![g] = x]
    BY <1>5 DEF x
  <2>3. locks' \in [Users -> Guis \cup {None}] /\ (x.lock # None => locks'[x.lock] = g)
    BY <1>3, <1>5, <2>1
  <2>4. \A k \in Guis \ {g} : gui[k].lock # None => locks'[gui[k].lock] = k
    BY <1>4, <1>5
  <2>5. Moved(g, x)
    BY <1>1, <1>3, <1>4, <2>1, <2>2, <2>3, <2>4 DEF Moved
  <2> QED BY <1>1, <2>5, GuiStep, Gathered
<1>6. CASE /\ d.kind = "direct" /\ s.runner.token = None /\ locks[d.profile] = None
           /\ gui' = [gui EXCEPT ![g] =
                [s EXCEPT !.decision = Kept(d), !.runner = Runner(d.profile, stored[d.profile]),
                          !.probing = TRUE, !.lock = d.profile]]
           /\ locks' = [locks EXCEPT ![d.profile] = g]
  <2> DEFINE x == [s EXCEPT !.decision = Kept(d), !.runner = Runner(d.profile, stored[d.profile]),
                            !.probing = TRUE, !.lock = d.profile]
  <2>1. d.profile \in Users /\ stored[d.profile] \in Tokens /\ token[stored[d.profile]].user = d.profile
    BY <1>2, <1>4, <1>6
  <2>2. Sound(x) /\ x.lock = d.profile
    BY <1>2, <2>1 DEF Sound, GuiType, Runner
  <2> HIDE DEF x
  <2>3. gui' = [gui EXCEPT ![g] = x]
    BY <1>6 DEF x
  <2>4. locks' \in [Users -> Guis \cup {None}] /\ locks'[x.lock] = g
    BY <1>3, <1>6, <2>1, <2>2
  <2>5. \A k \in Guis \ {g} : gui[k].lock # None => locks'[gui[k].lock] = k
    <3>1. ASSUME NEW k \in Guis \ {g}, gui[k].lock # None PROVE locks'[gui[k].lock] = k
      <4>1. locks[gui[k].lock] = k /\ k # None /\ gui[k].lock \in Users
        BY <1>1, <1>4, <3>1, FlowsOfGuis, Types DEF GuiType
      <4> QED BY <1>3, <1>6, <2>1, <4>1
    <3> QED BY <3>1
  <2>6. Moved(g, x)
    BY <1>1, <1>3, <1>4, <2>2, <2>3, <2>4, <2>5 DEF Moved
  <2> QED BY <1>1, <2>6, GuiStep, Gathered
<1>7. Direct(g, s, d)
  BY DEF d
<1> QED BY <1>5, <1>6, <1>7 DEF Direct

LEMMA StartStep == ASSUME IInv, NEW g \in Guis, Start(g) PROVE IInv'
<1> DEFINE s == [Off EXCEPT !.up = TRUE]
<1>1. Sound(s) /\ s.lock = None
  BY DEF Sound, GuiType, Off, Runner
<1> HIDE DEF s
<1>2. PICK h \in Users \cup {None}, r \in BOOLEAN : Direct(g, s, Resolve(h, r))
  BY DEF Start, s
<1>3. UNCHANGED <<registry, stored, broker, deviceVars>>
  BY DEF Start
<1> QED BY <1>1, <1>2, <1>3, DirectStep

LEMMA SelectStep == ASSUME IInv, NEW g \in Guis, NEW p \in Users, Select(g, p) PROVE IInv'
<1>1. Sound(gui[g]) /\ (gui[g].lock # None => locks[gui[g].lock] = g)
  BY Gathered, GuisAreSound DEF Owning, Locked
<1>2. Direct(g, gui[g], Resolve(p, FALSE)) /\ UNCHANGED <<registry, stored, broker, deviceVars>>
  BY DEF Select
<1>3. FALSE \in BOOLEAN
  OBVIOUS
<1> QED BY <1>1, <1>2, <1>3, DirectStep

(* A GUI's step that no one else sees.                                     *)
LEMMA AloneStep ==
  ASSUME IInv, NEW g \in Guis, NEW x, Sound(x), x.lock = gui[g].lock,
         gui' = [gui EXCEPT ![g] = x],
         UNCHANGED <<registry, stored, broker, locks, deviceVars>>
  PROVE  IInv'
<1>1. TypeOK /\ DeviceIInv /\ Owning /\ DeviceIInv' /\ DeviceTypeOK'
  BY Gathered, DeviceStutter DEF DeviceIInv
<1>2. UNCHANGED <<token, registry, stored, broker, locks>>
  BY DEF deviceVars
<1> QED BY <1>1, <1>2, QuietGuiStep, Gathered

LEMMA ProbeEndsStep == ASSUME IInv, NEW g \in Guis, ProbeEnds(g) PROVE IInv'
<1> DEFINE x == [gui[g] EXCEPT !.probing = FALSE]
<1>1. gui \in [Guis -> GuiType] /\ Sound(gui[g])
  BY Gathered, GuisAreSound, Types
<1>2. Sound(x) /\ x.lock = gui[g].lock
  BY <1>1 DEF Sound, GuiType
<1>3. gui' = [gui EXCEPT ![g] = x]
  BY <1>1 DEF ProbeEnds, GuiType
<1>4. UNCHANGED <<registry, stored, broker, locks, deviceVars>>
  BY DEF ProbeEnds
<1> QED BY <1>2, <1>3, <1>4, AloneStep

LEMMA RunnerEndsStep == ASSUME IInv, NEW g \in Guis, RunnerEnds(g) PROVE IInv'
<1> DEFINE x == [gui[g] EXCEPT !.runner = [gui[g].runner EXCEPT !.token = None]]
<1>1. gui \in [Guis -> GuiType] /\ Sound(gui[g])
  BY Gathered, GuisAreSound, Types
<1>2. Sound(x) /\ x.lock = gui[g].lock
  BY <1>1 DEF Sound, GuiType
<1>3. gui' = [gui EXCEPT ![g] = x]
  BY <1>1 DEF RunnerEnds, GuiType
<1>4. UNCHANGED <<registry, stored, broker, locks, deviceVars>>
  BY DEF RunnerEnds
<1> QED BY <1>2, <1>3, <1>4, AloneStep

LEMMA SetupPageStep == ASSUME IInv, NEW g \in Guis, SetupPage(g) PROVE IInv'
<1> DEFINE p == gui[g].decision.profile
<1> DEFINE x == [gui[g] EXCEPT !.result = stored[p], !.profile = p]
<1>1. gui \in [Guis -> GuiType] /\ Sound(gui[g]) /\ stored \in [Users -> Tokens \cup {None}]
  BY Gathered, GuisAreSound, Types
<1>2. p \in Users /\ stored[p] \in Tokens /\ token[stored[p]].user = p
  BY <1>1, Gathered DEF SetupPage, GuiType, Owning, Placed
<1>3. Sound(x) /\ x.lock = gui[g].lock
  BY <1>1, <1>2, NoneIsNothing DEF Sound, GuiType
<1>4. gui' = [gui EXCEPT ![g] = x]
  BY <1>1 DEF SetupPage, GuiType
<1>5. UNCHANGED <<registry, stored, broker, locks, deviceVars>>
  BY DEF SetupPage
<1> QED BY <1>3, <1>4, <1>5, AloneStep

LEMMA CredentialsStep == ASSUME IInv, NEW g \in Guis, Credentials(g) PROVE IInv'
<1> DEFINE x == [gui[g] EXCEPT !.creds = TRUE]
<1>1. gui \in [Guis -> GuiType] /\ Sound(gui[g])
  BY Gathered, GuisAreSound, Types
<1>2. Sound(x) /\ x.lock = gui[g].lock
  BY <1>1 DEF Sound, GuiType
<1>3. gui' = [gui EXCEPT ![g] = x]
  BY <1>1 DEF Credentials, GuiType
<1>4. UNCHANGED <<registry, stored, broker, locks, deviceVars>>
  BY DEF Credentials
<1> QED BY <1>2, <1>3, <1>4, AloneStep

(* A GUI that gives its lock back (frees it and perhaps others of its own).*)
LEMMA ReleaseStep ==
  ASSUME TypeOK, Owning, NEW g \in Guis, NEW x, Sound(x), x.lock = None,
         gui' = [gui EXCEPT ![g] = x], DeviceTypeOK',
         locks' \in [Users -> Guis \cup {None}],
         \A p \in Users : locks[p] # g => locks'[p] = locks[p],
         UNCHANGED <<token, registry, stored, broker>>
  PROVE  TypeOK' /\ Owning'
<1>1. /\ registry \subseteq Users /\ broker \in [Users -> BOOLEAN]
      /\ stored \in [Users -> Tokens \cup {None}] /\ gui \in [Guis -> GuiType]
  BY Types
<1>2. \A p \in Users : stored[p] # None => token[stored[p]].user = p
  BY DEF Owning, Placed
<1>3. ASSUME NEW h \in Guis \ {g}, gui[h].lock # None PROVE locks'[gui[h].lock] = h
  BY <1>1, <1>3 DEF Owning, Locked, GuiType
<1>4. Moved(g, x)
  BY <1>1, <1>2, <1>3 DEF Moved
<1> QED BY <1>4, GuiStep

LEMMA ProbeRejectedStep == ASSUME IInv, NEW g \in Guis, ProbeRejected(g) PROVE IInv'
<1> DEFINE p == gui[g].runner.profile
<1> DEFINE x == [gui[g] EXCEPT !.runner = [gui[g].runner EXCEPT !.token = None], !.probing = FALSE,
                               !.lock = None, !.decision = [step |-> 1, profile |-> p]]
<1>1. /\ TypeOK /\ DeviceIInv /\ Owning /\ DeviceIInv' /\ DeviceTypeOK'
      /\ gui \in [Guis -> GuiType] /\ Sound(gui[g]) /\ locks \in [Users -> Guis \cup {None}]
      /\ UNCHANGED <<token, registry, stored, broker>>
  BY Gathered, GuisAreSound, DeviceStutter, Types DEF DeviceIInv, ProbeRejected, deviceVars
<1>2. p \in Users /\ locks[p] = g
  BY <1>1 DEF ProbeRejected, Alive, Owning, Locked, Sound, GuiType
<1>3. Sound(x) /\ x.lock = None
  BY <1>1, <1>2 DEF Sound, GuiType
<1>4. gui' = [gui EXCEPT ![g] = x]
  BY <1>1 DEF ProbeRejected, GuiType
<1>5. /\ locks' \in [Users -> Guis \cup {None}]
      /\ \A q \in Users : locks[q] # g => locks'[q] = locks[q]
  BY <1>1, <1>2 DEF ProbeRejected
<1> HIDE DEF x, p
<1> QED BY <1>1, <1>3, <1>4, <1>5, ReleaseStep, Gathered

LEMMA StopUncleanStep == ASSUME IInv, NEW g \in Guis, StopUnclean(g) PROVE IInv'
<1> DEFINE x == [gui[g] EXCEPT !.runner = [gui[g].runner EXCEPT !.token = None], !.lock = None]
<1>1. /\ TypeOK /\ DeviceIInv /\ Owning /\ DeviceIInv' /\ DeviceTypeOK'
      /\ gui \in [Guis -> GuiType] /\ Sound(gui[g]) /\ locks \in [Users -> Guis \cup {None}]
      /\ UNCHANGED <<token, registry, stored, broker>>
  BY Gathered, GuisAreSound, DeviceStutter, Types DEF DeviceIInv, StopUnclean, deviceVars
<1>2. Sound(x) /\ x.lock = None
  BY <1>1 DEF Sound, GuiType
<1>3. gui' = [gui EXCEPT ![g] = x]
  BY <1>1 DEF StopUnclean, GuiType
<1>4. locks' = [p \in Users |-> IF p = gui[g].lock THEN None ELSE locks[p]]
  BY DEF StopUnclean
<1>5. locks' \in [Users -> Guis \cup {None}]
  BY <1>1, <1>4
<1>6. \A q \in Users : locks[q] # g => locks'[q] = locks[q]
  BY <1>1, <1>4, NoneIsNothing DEF Owning, Locked
<1> HIDE DEF x
<1> QED BY <1>1, <1>2, <1>3, <1>5, <1>6, ReleaseStep, Gathered

LEMMA LaunchStep == ASSUME IInv, NEW g \in Guis, Launch(g) PROVE IInv'
<1> DEFINE p == gui[g].profile
<1> DEFINE t == gui[g].result
<1>1. /\ TypeOK /\ DeviceIInv /\ Owning /\ DeviceIInv' /\ DeviceTypeOK'
      /\ gui \in [Guis -> GuiType] /\ Sound(gui[g]) /\ locks \in [Users -> Guis \cup {None}]
      /\ registry \subseteq Users /\ broker \in [Users -> BOOLEAN]
      /\ stored \in [Users -> Tokens \cup {None}] /\ UNCHANGED token
  BY Gathered, GuisAreSound, DeviceStutter, Types DEF DeviceIInv, Launch, deviceVars
<1>2. p \in Users /\ t \in Tokens /\ token[t].user = p
  BY <1>1 DEF Launch, Sound, GuiType
<1>3. registry' \subseteq Users
  BY <1>1, <1>2 DEF Launch
<1>4. \A h \in Guis : gui[h].lock # None => locks[gui[h].lock] = h
  BY <1>1 DEF Owning, Locked
<1>5. \A q \in Users : stored[q] # None => token[stored[q]].user = q
  BY <1>1 DEF Owning, Placed
<1>6. CASE UNCHANGED <<gui, locks, stored, broker>>
  <2>1. gui' = [gui EXCEPT ![g] = gui[g]]
    BY <1>1, <1>6
  <2> HIDE DEF p, t
  <2>2. Moved(g, gui[g])
    BY <1>1, <1>3, <1>4, <1>5, <1>6, <2>1 DEF Moved
  <2> QED BY <1>1, <2>2, GuiStep, Gathered
<1>7. CASE /\ gui' = [gui EXCEPT ![g].runner = Runner(p, t), ![g].lock = p]
           /\ locks' = [locks EXCEPT ![p] = g]
           /\ stored' \in {stored, [stored EXCEPT ![p] = t]}
           /\ broker' \in {broker, [broker EXCEPT ![p] = TRUE]}
  <2> DEFINE x == [gui[g] EXCEPT !.runner = Runner(p, t), !.lock = p]
  <2>1. Sound(x) /\ x.lock = p
    BY <1>1, <1>2, NoneIsNothing DEF Sound, GuiType, Runner
  <2>2. gui' = [gui EXCEPT ![g] = x]
    BY <1>1, <1>7 DEF GuiType
  <2>3. locks[p] = None
    BY DEF Launch
  <2> HIDE DEF x, p, t
  <2>4. locks' \in [Users -> Guis \cup {None}] /\ locks'[x.lock] = g
    BY <1>1, <1>2, <1>7, <2>1
  <2>5. \A h \in Guis \ {g} : gui[h].lock # None => locks'[gui[h].lock] = h
    BY <1>1, <1>2, <1>4, <1>7, <2>3, FlowsOfGuis DEF GuiType
  <2>6. stored' \in [Users -> Tokens \cup {None}] /\ broker' \in [Users -> BOOLEAN]
    BY <1>1, <1>2, <1>7
  <2>7. \A q \in Users : stored'[q] # None => token[stored'[q]].user = q
    BY <1>1, <1>2, <1>5, <1>7
  <2>8. Moved(g, x)
    BY <1>1, <1>3, <2>1, <2>2, <2>4, <2>5, <2>6, <2>7 DEF Moved
  <2> QED BY <1>1, <2>8, GuiStep, Gathered
<1> QED BY <1>6, <1>7 DEF Launch

(* Steps that end a client's flow or begin it.                             *)
LEMMA FlowBegun ==
  ASSUME IInv, NEW f \in Flows, NEW x, Tokenless(x), flow' = [flow EXCEPT ![f] = x],
         UNCHANGED <<code, token, polls, resends>>
  PROVE  DeviceIInv' /\ DeviceTypeOK'
<1>1. DeviceIInv /\ polls \subseteq Codes
  BY Gathered, Types DEF DeviceIInv
<1> QED BY <1>1, ClientOnly DEF DeviceIInv

LEMMA StartFlowStep == ASSUME IInv, NEW g \in Guis, StartFlow(g) PROVE IInv'
<1> DEFINE x == [gui[g] EXCEPT !.result = None]
<1>1. TypeOK /\ Owning /\ gui \in [Guis -> GuiType] /\ Sound(gui[g])
  BY Gathered, GuisAreSound, Types
<1>2. DeviceIInv' /\ DeviceTypeOK'
  BY Clients, IdleIsTokenless, FlowBegun DEF StartFlow, Begun
<1>3. Sound(x) /\ x.lock = gui[g].lock
  BY <1>1 DEF Sound, GuiType
<1>4. gui' = [gui EXCEPT ![g] = x]
  BY <1>1 DEF StartFlow, GuiType
<1>5. UNCHANGED <<token, registry, stored, broker, locks>>
  BY DEF StartFlow
<1> QED BY <1>1, <1>2, <1>3, <1>4, <1>5, QuietGuiStep, Gathered

(* A token that arrives is some user's.                                    *)
LEMMA ArrivedToken ==
  ASSUME IInv, NEW f \in Flows, Arrived(f)
  PROVE  flow[f].token \in Tokens /\ token[flow[f].token].user \in Users
<1>1. DeviceIInv /\ flow \in [Flows -> FlowType] /\ token \in [Tokens -> TokenType]
  BY Gathered, Types DEF DeviceIInv
<1>2. flow[f].token # None /\ flow[f].code # None
  BY <1>1 DEF Arrived, DeviceIInv, Accounted, Given
<1>3. flow[f].token \in Tokens /\ token[flow[f].token].from = flow[f].code
  BY <1>1, <1>2 DEF DeviceIInv, Accounted, TokensAccounted, FlowType
<1>4. token[flow[f].token].user # None
  BY <1>1, <1>2, <1>3 DEF DeviceIInv, Accounted, Decided
<1> QED BY <1>1, <1>3, <1>4 DEF TokenType

LEMMA SetupApprovedStep == ASSUME IInv, NEW g \in Guis, SetupApproved(g) PROVE IInv'
<1> DEFINE t == flow[Setup(g)].token
<1> DEFINE x == [gui[g] EXCEPT !.result = t, !.profile = token[t].user]
<1>1. TypeOK /\ Owning /\ gui \in [Guis -> GuiType] /\ Sound(gui[g])
  BY Gathered, GuisAreSound, Types
<1>2. DeviceIInv' /\ DeviceTypeOK'
  BY Clients, IdleIsTokenless, FlowBegun DEF SetupApproved, Accepted
<1>3. t \in Tokens /\ token[t].user \in Users
  BY Clients, ArrivedToken DEF SetupApproved
<1>4. gui' = [gui EXCEPT ![g] = x]
  BY <1>1 DEF SetupApproved, GuiType
<1>5. UNCHANGED <<token, registry, stored, broker, locks>>
  BY DEF SetupApproved
<1>6. Sound(x) /\ x.lock = gui[g].lock
  <2> HIDE DEF t
  <2> QED BY <1>1, <1>3, NoneIsNothing DEF Sound, GuiType
<1> HIDE DEF x
<1> QED BY <1>1, <1>2, <1>4, <1>5, <1>6, QuietGuiStep, Gathered

LEMMA ReauthStep == ASSUME IInv, NEW g \in Guis, Reauth(g) PROVE IInv'
<1>1. TypeOK /\ Owning /\ gui \in [Guis -> GuiType] /\ Sound(gui[g])
  BY Gathered, GuisAreSound, Types
<1>2. DeviceIInv' /\ DeviceTypeOK'
  BY Clients, IdleIsTokenless, FlowBegun DEF Reauth, Begun
<1>3. gui' = [gui EXCEPT ![g] = gui[g]]
  BY <1>1 DEF Reauth, machineVars
<1>4. UNCHANGED <<token, registry, stored, broker, locks>>
  BY DEF Reauth, machineVars
<1> QED BY <1>1, <1>2, <1>3, <1>4, QuietGuiStep, Gathered

(* A step that only writes the keyring and the registry.                   *)
LEMMA KeyringStep ==
  ASSUME IInv, NEW g \in Guis, DeviceIInv', DeviceTypeOK', UNCHANGED <<token, gui, locks>>,
         registry' \subseteq Users, broker' \in [Users -> BOOLEAN],
         stored' \in [Users -> Tokens \cup {None}],
         \A p \in Users : stored'[p] # None => token[stored'[p]].user = p
  PROVE  IInv'
<1>1. /\ TypeOK /\ Owning /\ gui \in [Guis -> GuiType] /\ Sound(gui[g])
      /\ locks \in [Users -> Guis \cup {None}]
  BY Gathered, GuisAreSound, Types
<1>2. gui' = [gui EXCEPT ![g] = gui[g]]
  BY <1>1
<1>3. \A h \in Guis : gui[h].lock # None => locks'[gui[h].lock] = h
  BY <1>1 DEF Owning, Locked
<1>4. Moved(g, gui[g])
  BY <1>1, <1>2, <1>3 DEF Moved
<1> QED BY <1>1, <1>4, GuiStep, Gathered

LEMMA ReauthApprovedStep == ASSUME IInv, NEW g \in Guis, ReauthApproved(g) PROVE IInv'
<1> DEFINE p == CurrentProfile(g)
<1> DEFINE t == flow[Reauthorisation(g)].token
<1>1. /\ registry \subseteq Users /\ broker \in [Users -> BOOLEAN]
      /\ stored \in [Users -> Tokens \cup {None}] /\ Owning /\ gui \in [Guis -> GuiType]
  BY Gathered, Types
<1>2. DeviceIInv' /\ DeviceTypeOK'
  BY Clients, IdleIsTokenless, FlowBegun DEF ReauthApproved, Accepted
<1>3. t \in Tokens
  BY Clients, ArrivedToken DEF ReauthApproved
<1>4. \A q \in Users : stored[q] # None => token[stored[q]].user = q
  BY <1>1 DEF Owning, Placed
<1>5. UNCHANGED <<token, gui, registry, broker, locks>>
  BY DEF ReauthApproved
<1>6. /\ stored' \in [Users -> Tokens \cup {None}]
      /\ \A q \in Users : stored'[q] # None => token[stored'[q]].user = q
  <2>1. CASE UNCHANGED stored
    BY <1>1, <1>4, <2>1
  <2>2. CASE p # None /\ p = token[t].user /\ \E s \in {t, None, stored[p]} : stored' = [stored EXCEPT ![p] = s]
    <3>1. p \in Users
      BY <1>1, <2>2 DEF CurrentProfile, GuiType
    <3> HIDE DEF p, t
    <3> QED BY <1>1, <1>3, <1>4, <2>2, <3>1
  <2> QED BY <2>1, <2>2 DEF ReauthApproved, Matches
<1> HIDE DEF p, t
<1> QED BY <1>1, <1>2, <1>5, <1>6, KeyringStep

LEMMA OnStatusProfile ==
  ASSUME IInv, NEW g \in Guis, OnStatus(g) PROVE CurrentProfile(g) \in Users
<1>1. gui \in [Guis -> GuiType]
  BY Gathered, Types
<1> QED BY <1>1 DEF OnStatus, CurrentProfile, GuiType

LEMMA ClearStep == ASSUME IInv, NEW g \in Guis, NEW w \in Secrets, Clear(g, w) PROVE IInv'
<1> DEFINE p == CurrentProfile(g)
<1>1. /\ registry \subseteq Users /\ broker \in [Users -> BOOLEAN]
      /\ stored \in [Users -> Tokens \cup {None}] /\ Owning
      /\ DeviceIInv' /\ DeviceTypeOK'
  BY Gathered, Types, DeviceStutter DEF DeviceIInv, Clear
<1>2. p \in Users
  BY OnStatusProfile DEF Clear
<1>3. \A q \in Users : stored[q] # None => token[stored[q]].user = q
  BY <1>1 DEF Owning, Placed
<1>4. /\ UNCHANGED <<token, gui, registry, locks>>
      /\ \/ stored' = [stored EXCEPT ![p] = None] /\ UNCHANGED broker
         \/ broker' = [broker EXCEPT ![p] = FALSE] /\ UNCHANGED stored
  BY DEF Clear, deviceVars
<1> HIDE DEF p
<1>5. /\ stored' \in [Users -> Tokens \cup {None}] /\ broker' \in [Users -> BOOLEAN]
      /\ \A q \in Users : stored'[q] # None => token[stored'[q]].user = q
  BY <1>1, <1>2, <1>3, <1>4
<1> QED BY <1>1, <1>4, <1>5, KeyringStep

LEMMA DeleteProfileStep == ASSUME IInv, NEW g \in Guis, DeleteProfile(g) PROVE IInv'
<1> DEFINE p == CurrentProfile(g)
<1>1. /\ registry \subseteq Users /\ broker \in [Users -> BOOLEAN]
      /\ stored \in [Users -> Tokens \cup {None}] /\ Owning
      /\ DeviceIInv' /\ DeviceTypeOK'
  BY Gathered, Types, DeviceStutter DEF DeviceIInv, DeleteProfile
<1>2. p \in Users
  BY OnStatusProfile DEF DeleteProfile
<1>3. \A q \in Users : stored[q] # None => token[stored[q]].user = q
  BY <1>1 DEF Owning, Placed
<1>4. UNCHANGED <<token, gui, locks>>
  BY DEF DeleteProfile, deviceVars
<1>5. PICK s \in {None, stored[p]}, b \in {FALSE, broker[p]} :
        /\ stored' = [stored EXCEPT ![p] = s] /\ broker' = [broker EXCEPT ![p] = b]
        /\ registry' = IF s = None /\ ~b THEN registry \ {p} ELSE registry
  BY DEF DeleteProfile
<1> HIDE DEF p
<1>6. /\ registry' \subseteq Users
      /\ stored' \in [Users -> Tokens \cup {None}] /\ broker' \in [Users -> BOOLEAN]
      /\ \A q \in Users : stored'[q] # None => token[stored'[q]].user = q
  BY <1>1, <1>2, <1>3, <1>5
<1> QED BY <1>1, <1>4, <1>6, KeyringStep

LEMMA QuitStep == ASSUME IInv, NEW g \in Guis, Quit(g) PROVE IInv'
<1>1. /\ TypeOK /\ DeviceIInv /\ Owning /\ flow \in [Flows -> FlowType]
      /\ locks \in [Users -> Guis \cup {None}]
      /\ UNCHANGED <<registry, stored, broker, code, token, polls, resends>>
  BY Gathered, Types DEF DeviceIInv, Quit
<1>2. /\ gui' = [gui EXCEPT ![g] = Off]
      /\ locks' = [p \in Users |-> IF locks[p] = g THEN None ELSE locks[p]]
      /\ flow' = [f \in Flows |-> IF f \in {Setup(g), Reauthorisation(g)} THEN Idle ELSE flow[f]]
  BY DEF Quit, Exit
<1>3. Tokenless(Idle)
  BY IdleIsTokenless
<1>4. flow' \in [Flows -> FlowType] /\ \A f \in Flows : flow'[f] \in {Idle, flow[f]}
  BY <1>1, <1>2, <1>3 DEF Tokenless
<1>5. DeviceTypeOK'
  BY <1>1, <1>4, Types, TypesNext DEF DeviceIInv
<1>6. TokensAccounted'
  BY <1>1, <1>3, <1>4 DEF DeviceIInv, Accounted, TokensAccounted, Tokenless
<1>7. Decided' /\ Given'
  BY <1>1, <1>3, <1>4 DEF DeviceIInv, Accounted, Decided, Given, Tokenless
<1>8. Sound(Off) /\ Off.lock = None
  BY DEF Sound, GuiType, Off, Runner
<1>9. locks' \in [Users -> Guis \cup {None}] /\ \A p \in Users : locks[p] # g => locks'[p] = locks[p]
  BY <1>1, <1>2
<1>10. TypeOK' /\ Owning'
  BY <1>1, <1>2, <1>5, <1>8, <1>9, ReleaseStep
<1> QED BY <1>5, <1>6, <1>7, <1>10, Gathered DEF DeviceIInv, Accounted

-----------------------------------------------------------------------------
(* The invariant.                                                          *)

LEMMA InitHolds == Init => IInv
<1> SUFFICES ASSUME Init PROVE IInv
  OBVIOUS
<1> USE NoneIsNothing
<1>1. /\ code = [k \in Codes |-> Unused] /\ polls = {} /\ resends = 0
      /\ flow = [f \in Flows |-> Idle] /\ gui = [g \in Guis |-> Off]
      /\ stored \in [Users -> Tokens \cup {None}]
      /\ \A p, q \in Users : p # q /\ stored[p] # None => stored[p] # stored[q]
      /\ registry = {p \in Users : stored[p] # None} /\ broker = [p \in Users |-> stored[p] # None]
      /\ locks = [p \in Users |-> None]
  BY DEF Init, DeviceInit
<1>2. \A t \in Tokens : token[t] =
         IF \E p \in Users : stored[p] = t
           THEN [Unissued EXCEPT !.user = CHOOSE p \in Users : stored[p] = t, !.active = TRUE]
           ELSE Unissued
  BY DEF Init
<1>3. ASSUME NEW t \in Tokens
      PROVE  /\ token[t] \in TokenType /\ token[t].from = None
             /\ \A p \in Users : stored[p] = t => token[t].user = p
             /\ token[t].active => token[t].user \in Users /\ stored[token[t].user] = t
  <2>1. CASE \E p \in Users : stored[p] = t
    <3> DEFINE u == CHOOSE p \in Users : stored[p] = t
    <3>1. u \in Users /\ stored[u] = t
      BY <2>1
    <3>2. \A p \in Users : stored[p] = t => p = u
      BY <1>1, <3>1
    <3>3. token[t] = [Unissued EXCEPT !.user = u, !.active = TRUE]
      BY <1>2, <2>1
    <3> HIDE DEF u
    <3> QED BY <3>1, <3>2, <3>3 DEF Unissued, TokenType
  <2>2. CASE ~ \E p \in Users : stored[p] = t
    <3>1. token[t] = Unissued
      BY <1>2, <2>2
    <3> QED BY <2>2, <3>1 DEF Unissued, TokenType
  <2> QED BY <2>1, <2>2
<1>4. token \in [Tokens -> TokenType]
  BY <1>3 DEF Init
<1>5. TypeOK
  <2>1. code \in [Codes -> CodeType]
    BY <1>1 DEF Unused, CodeType
  <2>2. flow \in [Flows -> FlowType]
    BY <1>1, IdleIsTokenless DEF Tokenless
  <2>3. gui \in [Guis -> GuiType]
    BY <1>1 DEF Off, Runner, GuiType
  <2>4. resends \in 0 .. MaxResends
    BY <1>1, DeviceBounds
  <2>5. DeviceTypeOK
    BY <1>1, <1>4, <2>1, <2>2, <2>4, Types
  <2> QED BY <1>1, <2>3, <2>5, Types
<1>6. TokensAccounted
  BY <1>1, <1>3 DEF TokensAccounted, Unused, Idle
<1>7. Decided /\ Given
  BY <1>1, <1>3 DEF Decided, Given, Unused, Idle
<1>8. Locked /\ Placed
  BY <1>1, <1>3 DEF Locked, Placed, Alive, Off, Runner
<1> QED BY <1>5, <1>6, <1>7, <1>8 DEF IInv, Accounted, Owning

LEMMA GuiNextHolds == ASSUME IInv, GuiNext PROVE IInv'
BY StartStep, ProbeEndsStep, ProbeRejectedStep, RunnerEndsStep, SetupPageStep, StartFlowStep,
   SetupApprovedStep, LaunchStep, ReauthApprovedStep, DeleteProfileStep, StopUncleanStep,
   QuitStep, SelectStep, CredentialsStep, ReauthStep, ClearStep DEF GuiNext

LEMMA NextHolds == IInv /\ [Next]_vars => IInv'
<1> SUFFICES ASSUME IInv, [Next]_vars PROVE IInv'
  OBVIOUS
<1>1. CASE (ServerNext \/ ClientNext) /\ UNCHANGED machineVars
  <2>1. DeviceIInv' /\ Keeps /\ DeviceTypeOK' /\ TypeOK /\ Owning
    BY <1>1, Gathered, DeviceStep DEF DeviceIInv
  <2> QED BY <1>1, <2>1, MachineStutter, Gathered
<1>2. CASE GuiNext
  BY <1>2, GuiNextHolds
<1>3. CASE UNCHANGED vars
  <2>1. UNCHANGED deviceVars /\ UNCHANGED machineVars
    BY <1>3 DEF vars
  <2>2. DeviceIInv' /\ Keeps /\ DeviceTypeOK' /\ TypeOK /\ Owning
    BY <2>1, Gathered, DeviceStutter DEF DeviceIInv
  <2> QED BY <2>1, <2>2, MachineStutter, Gathered
<1> QED BY <1>1, <1>2, <1>3 DEF Next

LEMMA Invariance == Spec => []IInv
<1>1. Init => IInv
  BY InitHolds
<1>2. IInv /\ [Next]_vars => IInv'
  BY NextHolds
<1> QED BY <1>1, <1>2, PTL DEF Spec

(* Codes, tokens, clients, GUIs and the machine's files keep their types   *)
(* (models.py:510, models.py:638, profile_registry.py:91).                 *)
THEOREM TypeCorrect == Spec => []TypeOK
<1>1. IInv => TypeOK
  BY DEF IInv
<1> QED BY <1>1, Invariance, PTL

(* Whatever is delayed, repeated or lost, each claimed code made exactly   *)
(* one token, for the user who approved it and the client that asked, and a*)
(* user has at most one active token (device_flow.py:153,                  *)
(* agent_tokens.py:41).                                                    *)
THEOREM TokensAreAccounted == Spec => []TokensAccounted
<1>1. IInv => TokensAccounted
  BY DEF IInv, Accounted
<1> QED BY <1>1, Invariance, PTL

(* Any number of GUIs share the machine: a live agent works with a token of*)
(* its own profile, no two run the same profile, and no profile's token is *)
(* kept under another (setup_routes.py:112, status_routes.py:181,          *)
(* coordinator.py:239).                                                    *)
THEOREM GuisKeepToTheirProfiles == Spec => []OwnSession
<1>1. ASSUME IInv PROVE OwnSession
  <2>1. Locked /\ Placed
    BY <1>1 DEF IInv, Owning
  <2>2. ASSUME NEW g \in Guis, NEW h \in Guis, Alive(g), Alive(h), g # h
        PROVE gui[g].runner.profile # gui[h].runner.profile
    BY <2>1, <2>2 DEF Locked
  <2> QED BY <2>1, <2>2 DEF OwnSession, Placed
<1> QED BY <1>1, Invariance, PTL
=============================================================================
