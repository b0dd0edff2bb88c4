------------------------------ MODULE AgentGui ------------------------------
(***************************************************************************)
(* The local GUI of the agent (agent/gui/, profile_registry.py,            *)
(* keyring_store.py): the start-up decision, the three-step wizard, the    *)
(* direct connection with a remembered token, and the status page's        *)
(* re-authorisation, clearing, deletion and stop.  Several GUI processes of*)
(* one machine share the profile registry, the keyring and the instance    *)
(* locks.  The authorisations they run are module DeviceFlow's: a GUI has  *)
(* one client for the wizard and one for re-authorisation.                 *)
(*                                                                         *)
(* A profile is the user of the site it belongs to.  A handler runs on its *)
(* GUI's event loop and awaits nothing between reading the state and       *)
(* writing it, so each is one step.  A direct connection is watched for a  *)
(* few seconds (probing) while other requests are served.                  *)
(***************************************************************************)
EXTENDS DeviceFlow

CONSTANTS
  Guis          \* GUI processes of the machine

ASSUME FlowsOfGuis == Flows = Guis \X {"setup", "reauth"} /\ None \notin Guis

VARIABLES
  gui,          \* GUI -> its app.state
  registry,     \* profiles in profiles.json
  stored,       \* profile -> its token in the keyring
  broker,       \* profile -> whether the keyring has its broker credentials
  locks         \* profile -> the GUI holding its InstanceLock

machineVars == <<gui, registry, stored, broker, locks>>
vars == <<deviceVars, machineVars>>

-----------------------------------------------------------------------------

Secrets == {"token", "broker"}
Setup(g) == <<g, "setup">>
Reauthorisation(g) == <<g, "reauth">>

(* A start-up decision; a GUI keeps its profile and the wizard's first step*)
(* (step 2 for a profile that only lacks its broker credentials).          *)
Decision(kind, p) == [kind |-> kind, profile |-> p]
Kept(d) == [step |-> IF d.kind = "setup2" THEN 2 ELSE 1, profile |-> d.profile]

(* An AgentRunner works for a profile with a token; one that ended has no  *)
(* token any more.                                                         *)
Runner(p, t) == [profile |-> p, token |-> t]
Off == [up |-> FALSE, decision |-> [step |-> 1, profile |-> None], result |-> None,
        profile |-> None, creds |-> FALSE, runner |-> Runner(None, None),
        probing |-> FALSE, lock |-> None]

(* Type correctness of the model's state.                                  *)
TypeOK ==
  /\ DeviceTypeOK
  /\ gui \in [Guis ->
       [up : BOOLEAN,
        decision : [step : {1, 2}, profile : Users \cup {None}],
        result : Tokens \cup {None}, profile : Users \cup {None}, creds : BOOLEAN,
        runner : [profile : Users \cup {None}, token : Tokens \cup {None}],
        probing : BOOLEAN, lock : Users \cup {None}]]
  /\ registry \subseteq Users
  /\ stored \in [Users -> Tokens \cup {None}]
  /\ broker \in [Users -> BOOLEAN]
  /\ locks \in [Users -> Guis \cup {None}]

Alive(g) == gui[g].runner.token # None

(* The machine may remember profiles, each with its own active token.      *)
Init ==
  /\ DeviceInit
  /\ gui = [g \in Guis |-> Off]
  /\ stored \in [Users -> Tokens \cup {None}]
  /\ \A p, q \in Users : p # q /\ stored[p] # None => stored[p] # stored[q]
  /\ registry = {p \in Users : stored[p] # None}
  /\ broker = [p \in Users |-> stored[p] # None]
  /\ token = [t \in Tokens |->
       IF \E p \in Users : stored[p] = t
         THEN [Unissued EXCEPT !.user = CHOOSE p \in Users : stored[p] = t, !.active = TRUE]
         ELSE Unissued]
  /\ locks = [p \in Users |-> None]

-----------------------------------------------------------------------------
(* Start-up *)

(* resolve_gui_startup: what to do for the profile hint h (None: no hint). *)
Known(h) == IF h = None THEN registry ELSE registry \cap {h}

Resolve(h, reset) ==
  IF Known(h) = {} THEN Decision("setup1", None)
  ELSE IF Cardinality(Known(h)) > 1 THEN Decision("profile_select", None)
  ELSE LET p == CHOOSE p \in Known(h) : TRUE IN
       IF reset \/ stored[p] = None THEN Decision("setup1", p)
       ELSE IF token[stored[p]].aged THEN Decision("setup1", p)
       ELSE IF ~broker[p] THEN Decision("setup2", p)
       ELSE Decision("direct", p)

(* A GUI whose state would be s acts on decision d: launch_direct reuses a *)
(* runner that is alive, and otherwise starts one with the remembered      *)
(* token.  If the lock is taken or the construction fails, the wizard's    *)
(* step 1 is shown instead.                                                *)
Direct(g, s, d) ==
  \/ /\ gui' = [gui EXCEPT ![g] = [s EXCEPT !.decision = Kept(d)]]
     /\ UNCHANGED locks
  \/ /\ d.kind = "direct" /\ s.runner.token = None
     /\ locks[d.profile] = None
     /\ gui' = [gui EXCEPT ![g] =
          [s EXCEPT !.decision = Kept(d), !.runner = Runner(d.profile, stored[d.profile]),
                    !.probing = TRUE, !.lock = d.profile]]
     /\ locks' = [locks EXCEPT ![d.profile] = g]

(* run_gui: a GUI process starts, perhaps with --profile and --reset.      *)
Start(g) ==
  /\ ~gui[g].up
  /\ \E h \in Users \cup {None}, reset \in BOOLEAN :
       Direct(g, [Off EXCEPT !.up = TRUE], Resolve(h, reset))
  /\ UNCHANGED <<registry, stored, broker, deviceVars>>

(* profiles_select: the user picks a profile on /profiles; the decision is *)
(* replaced even when a runner is alive.                                   *)
Select(g, p) ==
  /\ gui[g].up
  /\ Direct(g, gui[g], Resolve(p, FALSE))
  /\ UNCHANGED <<registry, stored, broker, deviceVars>>

(* probe_direct_connect ends in time or undecided: the runner goes on.     *)
ProbeEnds(g) ==
  /\ gui[g].probing
  /\ gui' = [gui EXCEPT ![g].probing = FALSE]
  /\ UNCHANGED <<registry, stored, broker, locks, deviceVars>>

(* The server refuses the token (or the user is shut out) while the probe  *)
(* watches: the runner ends, the lock is released, back to step 1.         *)
ProbeRejected(g) ==
  /\ gui[g].probing /\ Alive(g)
  /\ gui' = [gui EXCEPT ![g].runner.token = None, ![g].probing = FALSE, ![g].lock = None,
                        ![g].decision = [step |-> 1, profile |-> gui[g].runner.profile]]
  /\ locks' = [locks EXCEPT ![gui[g].runner.profile] = None]
  /\ UNCHANGED <<registry, stored, broker, deviceVars>>

(* run_forever ends by itself: a direct runner is refused later, or a fatal*)
(* error.  Nobody releases the lock.                                       *)
RunnerEnds(g) ==
  /\ Alive(g)
  /\ gui' = [gui EXCEPT ![g].runner.token = None]
  /\ UNCHANGED <<registry, stored, broker, locks, deviceVars>>

-----------------------------------------------------------------------------
(* The wizard *)

(* GET /setup of a profile that only lacks its broker credentials takes the*)
(* remembered token for the result of step 1.                              *)
SetupPage(g) ==
  LET p == gui[g].decision.profile IN
  /\ gui[g].up /\ gui[g].decision.step = 2 /\ p # None
  /\ gui[g].result = None /\ stored[p] # None
  /\ gui' = [gui EXCEPT ![g].result = stored[p], ![g].profile = p]
  /\ UNCHANGED <<registry, stored, broker, locks, deviceVars>>

(* POST /setup/step1/start: one authorisation at a time, again only after  *)
(* an error; it forgets an earlier result but not its profile.             *)
StartFlow(g) ==
  /\ gui[g].up /\ flow[Setup(g)].at = "idle"
  /\ flow' = Begun(Setup(g))
  /\ gui' = [gui EXCEPT ![g].result = None]
  /\ UNCHANGED <<code, token, polls, resends, registry, stored, broker, locks>>

(* The wizard's token arrives: _finalize_approved_profile makes the user it*)
(* was approved by the GUI's profile, whichever one was expected.          *)
SetupApproved(g) ==
  LET t == flow[Setup(g)].token IN
  /\ Arrived(Setup(g))
  /\ flow' = Accepted(Setup(g))
  /\ gui' = [gui EXCEPT ![g].result = t, ![g].profile = token[t].user]
  /\ UNCHANGED <<code, token, polls, resends, registry, stored, broker, locks>>

(* POST /setup/step2: the broker credentials.                              *)
Credentials(g) ==
  /\ gui[g].up /\ ~gui[g].creds
  /\ gui' = [gui EXCEPT ![g].creds = TRUE]
  /\ UNCHANGED <<registry, stored, broker, locks, deviceVars>>

(* POST /setup/step3/launch: with everything collected and no lock in this *)
(* process, take the profile's lock, register the profile, start the runner*)
(* and keep in the keyring what the user asked to keep and the keyring     *)
(* accepts; or the construction fails.                                     *)
Launch(g) ==
  LET p == gui[g].profile
      t == gui[g].result IN
  /\ gui[g].up /\ t # None /\ gui[g].creds /\ p # None
  /\ gui[g].lock = None /\ locks[p] = None
  /\ registry' = registry \cup {p}
  /\ \/ UNCHANGED <<gui, locks, stored, broker>>
     \/ /\ gui' = [gui EXCEPT ![g].runner = Runner(p, t), ![g].lock = p]
        /\ locks' = [locks EXCEPT ![p] = g]
        /\ stored' \in {stored, [stored EXCEPT ![p] = t]}
        /\ broker' \in {broker, [broker EXCEPT ![p] = TRUE]}
  /\ UNCHANGED deviceVars

-----------------------------------------------------------------------------
(* The status page *)

(* _current_profile: the wizard's profile first, then the decision's.      *)
CurrentProfile(g) ==
  IF gui[g].profile # None THEN gui[g].profile ELSE gui[g].decision.profile

(* The page of a GUI that has a runner and knows whose it is.              *)
OnStatus(g) == gui[g].runner.profile # None /\ CurrentProfile(g) # None

(* POST /status/reauth of a user who wants the token remembered; one flow  *)
(* at a time.                                                              *)
Reauth(g) ==
  /\ OnStatus(g)
  /\ flow[Reauthorisation(g)].at \in {"idle", "done"}
  /\ flow' = Begun(Reauthorisation(g))
  /\ UNCHANGED <<code, token, polls, resends, machineVars>>

(* Mutant: the account that approved is not compared.                      *)
MatchesAny(g, t) == gui[g].up

(* The token of a re-authorisation is for the current profile's user.      *)
Matches(g, t) == CurrentProfile(g) = token[t].user

(* It arrives: kept with rotate_token_secret, which deletes the old entry  *)
(* first.  The deletion may fail (nothing changes) or the writing (nothing *)
(* is left).  The token of another user is dropped.                        *)
ReauthApproved(g) ==
  LET f == Reauthorisation(g)
      p == CurrentProfile(g)
      t == flow[f].token IN
  /\ Arrived(f)
  /\ flow' = Accepted(f)
  /\ IF p # None /\ Matches(g, t)
       THEN \E s \in {t, None, stored[p]} : stored' = [stored EXCEPT ![p] = s]
       ELSE UNCHANGED stored
  /\ UNCHANGED <<code, token, polls, resends, gui, registry, broker, locks>>

(* POST /status/clear-credential: one entry of the current profile.        *)
Clear(g, which) ==
  LET p == CurrentProfile(g) IN
  /\ OnStatus(g)
  /\ IF which = "token"
       THEN stored' = [stored EXCEPT ![p] = None] /\ UNCHANGED broker
       ELSE broker' = [broker EXCEPT ![p] = FALSE] /\ UNCHANGED stored
  /\ UNCHANGED <<gui, registry, locks, deviceVars>>

(* POST /status/delete-profile, nothing being unsent: both entries, then   *)
(* the registry; an entry that stays keeps the registry as it is.          *)
DeleteProfile(g) ==
  LET p == CurrentProfile(g) IN
  /\ OnStatus(g)
  /\ \E s \in {None, stored[p]}, b \in {FALSE, broker[p]} :
       /\ stored' = [stored EXCEPT ![p] = s]
       /\ broker' = [broker EXCEPT ![p] = b]
       /\ registry' = IF s = None /\ ~b THEN registry \ {p} ELSE registry
  /\ UNCHANGED <<gui, locks, deviceVars>>

(* The process ends: its clients with it, and the system frees its locks.  *)
Exit(g) ==
  /\ gui' = [gui EXCEPT ![g] = Off]
  /\ locks' = [p \in Users |-> IF locks[p] = g THEN None ELSE locks[p]]
  /\ flow' = [f \in Flows |-> IF f \in {Setup(g), Reauthorisation(g)} THEN Idle ELSE flow[f]]

(* shutdown_runner without the certainty that the child ended: the lock is *)
(* released all the same, the GUI stays.  Requests served while it waits   *)
(* for the child are taken to come before or after it.                     *)
StopUnclean(g) ==
  /\ gui[g].runner.profile # None
  /\ gui' = [gui EXCEPT ![g].runner.token = None, ![g].lock = None]
  /\ locks' = [p \in Users |-> IF p = gui[g].lock THEN None ELSE locks[p]]
  /\ UNCHANGED <<registry, stored, broker, deviceVars>>

(* The GUI ends: POST /status/stop with a clean shutdown, a signal, or a   *)
(* crash.                                                                  *)
Quit(g) ==
  /\ gui[g].up
  /\ Exit(g)
  /\ UNCHANGED <<registry, stored, broker, code, token, polls, resends>>

GuiNext ==
  \E g \in Guis :
    \/ Start(g) \/ ProbeEnds(g) \/ ProbeRejected(g) \/ RunnerEnds(g)
    \/ SetupPage(g) \/ StartFlow(g) \/ SetupApproved(g) \/ Launch(g)
    \/ ReauthApproved(g) \/ DeleteProfile(g) \/ StopUnclean(g) \/ Quit(g)
    \/ \E p \in Users : Select(g, p)
    \/ Credentials(g) \/ Reauth(g)
    \/ \E which \in Secrets : Clear(g, which)

Next ==
  \/ (ServerNext \/ ClientNext) /\ UNCHANGED machineVars
  \/ GuiNext

Spec == Init /\ [][Next]_vars

-----------------------------------------------------------------------------

(* A live agent works for the profile its token was issued to, no two GUIs *)
(* of the machine run the same profile, and the keyring never has the token*)
(* of one profile under another, whatever account approves an authorisation*)
(* and whichever profile is picked, re-authorised or deleted meanwhile     *)
(* (setup_routes.py:112, status_routes.py:181, coordinator.py:239).        *)
OwnSession ==
  /\ \A g \in Guis : Alive(g) => token[gui[g].runner.token].user = gui[g].runner.profile
  /\ \A g, h \in Guis : Alive(g) /\ Alive(h) /\ g # h =>
       gui[g].runner.profile # gui[h].runner.profile
  /\ \A p \in Users : stored[p] # None => token[stored[p]].user = p
=============================================================================
