----------------------------- MODULE DeviceFlow -----------------------------
(***************************************************************************)
(* The authorisation of a device (auth/device_flow.py, auth/agent_tokens.py*)
(* and their routes on the server; agent/device_flow_client.py on the      *)
(* user's machine).  A client asks for a code, its user approves or denies *)
(* the code in the browser, and the client polls until the server hands it *)
(* the token made for that code.  Issuing a token revokes the user's       *)
(* earlier ones.                                                           *)
(*                                                                         *)
(* The server's handlers run on one event loop without an await inside, so *)
(* each is one step.  A request on its way is an element of polls: it may  *)
(* arrive late, after its client gave up, or twice (resends), and its      *)
(* answer may be lost.  The throttle of a code is the answer "pending" to a*)
(* code that could be claimed: a client treats slow_down and pending alike.*)
(* Module AgentGui says what a machine does with the token.                *)
(***************************************************************************)
EXTENDS Naturals, FiniteSets

CONSTANTS
  Users,        \* the accounts of the site
  Owners,       \* those the order subsystem trades for
  Admins,       \* those who may issue a token by hand
  Codes,        \* device codes (a bound on how many are asked for)
  Tokens,       \* agent tokens (a bound on how many are issued)
  Flows,        \* the clients that may run an authorisation
  None,
  MaxPending,   \* agent_device_code_max_active
  MaxRestarts,  \* MAX_CONSUMED_RESTARTS
  MaxResends    \* requests the network delivers twice (a bound)

ASSUME NoneIsNothing == None \notin Users \cup Codes \cup Tokens
ASSUME DeviceBounds == MaxRestarts \in Nat /\ MaxResends \in Nat

VARIABLES
  code,         \* code -> its row of agent_device_codes
  token,        \* token -> its row of agent_tokens
  polls,        \* codes with a poll on its way to the server
  resends,      \* requests delivered twice so far
  flow          \* client -> the state of its DeviceFlowClient

deviceVars == <<code, token, polls, resends, flow>>

-----------------------------------------------------------------------------

Answers == {"pending", "denied", "expired", "consumed", "approved"}
Unused == [status |-> "unused", user |-> None, consumed |-> FALSE, expired |-> FALSE]
Unissued == [user |-> None, from |-> None, active |-> FALSE, aged |-> FALSE]
Idle == [at |-> "idle", code |-> None, answer |-> None, token |-> None, restarts |-> 0]

(* Type correctness of the rows and of the clients.                        *)
DeviceTypeOK ==
  /\ code \in [Codes -> [status : {"unused", "pending", "approved", "denied"},
                         user : Users \cup {None}, consumed : BOOLEAN, expired : BOOLEAN]]
  /\ token \in [Tokens -> [user : Users \cup {None}, from : Codes \cup {None},
                           active : BOOLEAN, aged : BOOLEAN]]
  /\ polls \subseteq Codes
  /\ resends \in 0 .. MaxResends
  /\ flow \in [Flows -> [at : {"idle", "starting", "open", "asked", "answered", "done"},
                         code : Codes \cup {None}, answer : Answers \cup {None},
                         token : Tokens \cup {None}, restarts : 0 .. MaxRestarts]]

-----------------------------------------------------------------------------
(* The server *)

(* Mutant: a decided code may be decided again.                            *)
DecidableTwice(k) == code[k].status # "unused" /\ ~code[k].expired

(* A code its user can still decide: pending and not expired.              *)
Decidable(k) == code[k].status = "pending" /\ ~code[k].expired

(* An owner approves or denies a pending code on /agent/authorize.         *)
Approve(u, k) ==
  /\ Decidable(k) /\ u \in Owners
  /\ code' = [code EXCEPT ![k].status = "approved", ![k].user = u]
  /\ UNCHANGED <<token, polls, resends, flow>>

Deny(k) ==
  /\ Decidable(k) /\ Owners # {}
  /\ code' = [code EXCEPT ![k].status = "denied"]
  /\ UNCHANGED <<token, polls, resends, flow>>

(* A code nobody claimed reaches expires_at.                               *)
Expire(k) ==
  /\ code[k].status \in {"pending", "approved"} /\ ~code[k].consumed /\ ~code[k].expired
  /\ code' = [code EXCEPT ![k].expired = TRUE]
  /\ UNCHANGED <<token, polls, resends, flow>>

(* stage_rotation: the new token t of user u, made for code k (None: by    *)
(* hand), and the end of the user's active tokens.                         *)
Rotated(u, t, k) ==
  [s \in Tokens |->
     CASE s = t -> [user |-> u, from |-> k, active |-> TRUE, aged |-> FALSE]
       [] s # t /\ token[s].user = u -> [token[s] EXCEPT !.active = FALSE]
       [] OTHER -> token[s]]

(* issue_agent_token: an administrator replaces their token by hand.       *)
IssueToken(u, t) ==
  /\ u \in Owners \cap Admins /\ token[t].user = None
  /\ token' = Rotated(u, t, None)
  /\ UNCHANGED <<code, polls, resends, flow>>

(* A token reaches expires_at.                                             *)
Age(t) ==
  /\ token[t].user # None /\ ~token[t].aged
  /\ token' = [token EXCEPT ![t].aged = TRUE]
  /\ UNCHANGED <<code, polls, resends, flow>>

(* The end of a poll: the request leaves the network, or is delivered once *)
(* more, and the answer reaches the client that still waits for it, or not.*)
Answer(k, a, t) ==
  /\ \/ polls' = polls \ {k} /\ UNCHANGED resends
     \/ resends < MaxResends /\ resends' = resends + 1 /\ UNCHANGED polls
  /\ \/ UNCHANGED flow
     \/ \E f \in Flows :
          /\ flow[f].at = "asked" /\ flow[f].code = k
          /\ flow' = [flow EXCEPT ![f].at = "answered", ![f].answer = a, ![f].token = t]

(* poll_device_token without a claim, in the order the code asks: consumed,*)
(* denied, expired, and "pending" for a code nobody decided or for a poll  *)
(* that came too soon.                                                     *)
Verdict(k) ==
  CASE code[k].consumed -> "consumed"
    [] ~code[k].consumed /\ code[k].status = "denied" -> "denied"
    [] ~code[k].consumed /\ code[k].status # "denied" /\ code[k].expired -> "expired"
    [] OTHER -> "pending"

Tell(k) ==
  /\ k \in polls
  /\ Answer(k, Verdict(k), None)
  /\ UNCHANGED <<code, token>>

(* claim_and_issue_device_token: one commit marks the code consumed and    *)
(* rotates the token of the user who approved it.                          *)
Claim(k, t) ==
  /\ k \in polls
  /\ Verdict(k) = "pending" /\ code[k].status = "approved"
  /\ token[t].user = None
  /\ code' = [code EXCEPT ![k].consumed = TRUE]
  /\ token' = Rotated(code[k].user, t, k)
  /\ Answer(k, "approved", t)

ServerNext ==
  \/ \E k \in Codes : Deny(k) \/ Expire(k) \/ Tell(k)
  \/ \E u \in Users, k \in Codes : Approve(u, k)
  \/ \E k \in Codes, t \in Tokens : Claim(k, t)
  \/ \E u \in Users, t \in Tokens : IssueToken(u, t)
  \/ \E t \in Tokens : Age(t)

-----------------------------------------------------------------------------
(* A client *)

Begun(f) == [flow EXCEPT ![f] = [Idle EXCEPT !.at = "starting"]]

(* A flow that ends without a token may be begun again.                    *)
Ended(f) == [flow EXCEPT ![f] = Idle]

(* initiate with create_device_code: a fresh code, unless too many are     *)
(* pending; its answer may be lost.                                        *)
Initiate(f, k) ==
  /\ flow[f].at = "starting" /\ code[k].status = "unused"
  /\ Cardinality({c \in Codes : Decidable(c)}) < MaxPending
  /\ code' = [code EXCEPT ![k].status = "pending"]
  /\ flow' \in {[flow EXCEPT ![f].at = "open", ![f].code = k], Ended(f)}
  /\ UNCHANGED <<token, polls, resends>>

(* poll_until_done sends one request and waits for its answer.             *)
Poll(f) ==
  /\ flow[f].at = "open"
  /\ flow' = [flow EXCEPT ![f].at = "asked"]
  /\ polls' = polls \cup {flow[f].code}
  /\ UNCHANGED <<code, token, resends>>

(* It handles an answer that carries no token: pending polls on; consumed  *)
(* starts over, a limited number of times in a row; the rest ends it.      *)
Receive(f) ==
  /\ flow[f].at = "answered" /\ flow[f].answer # "approved"
  /\ \/ /\ flow[f].answer = "pending"
        /\ flow' = [flow EXCEPT ![f] = [@ EXCEPT !.at = "open", !.answer = None, !.restarts = 0]]
     \/ /\ flow[f].answer = "consumed" /\ flow[f].restarts < MaxRestarts
        /\ flow' = [flow EXCEPT ![f] = [Idle EXCEPT !.at = "starting",
                                                    !.restarts = flow[f].restarts + 1]]
     \/ /\ \/ flow[f].answer \in {"denied", "expired"}
           \/ flow[f].answer = "consumed" /\ flow[f].restarts = MaxRestarts
        /\ flow' = Ended(f)
  /\ UNCHANGED <<code, token, polls, resends>>

(* A request of the client is refused (429) or gets no answer in time: the *)
(* flow ends, and a poll on its way stays on its way.                      *)
GiveUp(f) ==
  /\ flow[f].at \in {"starting", "asked"}
  /\ flow' = Ended(f)
  /\ UNCHANGED <<code, token, polls, resends>>

(* The token arrived; what its machine does with it is module AgentGui's.  *)
Arrived(f) == flow[f].at = "answered" /\ flow[f].answer = "approved"

Accepted(f) == [flow EXCEPT ![f] = [Idle EXCEPT !.at = "done"]]

ClientNext ==
  \E f \in Flows :
    \/ \E k \in Codes : Initiate(f, k)
    \/ Poll(f)
    \/ Receive(f)
    \/ GiveUp(f)

DeviceInit ==
  /\ code = [k \in Codes |-> Unused]
  /\ polls = {}
  /\ resends = 0
  /\ flow = [f \in Flows |-> Idle]

-----------------------------------------------------------------------------

(* Every code that was claimed has exactly one token, of the user who      *)
(* approved it, no token comes from a code that was not claimed, a client  *)
(* is only handed the token of the code it asked about, and a user has at  *)
(* most one active token, however polls are delayed, repeated or unanswered*)
(* and whoever rotates at the same time (device_flow.py:153,               *)
(* agent_tokens.py:41).                                                    *)
TokensAccounted ==
  /\ \A k \in Codes : code[k].consumed => \E t \in Tokens : token[t].from = k
  /\ \A t \in Tokens : token[t].from # None =>
       /\ code[token[t].from].consumed
       /\ code[token[t].from].status = "approved"
       /\ code[token[t].from].user = token[t].user
  /\ \A s, t \in Tokens : s # t /\ token[s].from # None => token[s].from # token[t].from
  /\ \A s, t \in Tokens : token[s].active /\ token[t].active /\ s # t =>
       token[s].user # token[t].user
  /\ \A f \in Flows : flow[f].token # None => token[flow[f].token].from = flow[f].code
=============================================================================
