------------------------- MODULE AgentFailstop_proofs -------------------------
(***************************************************************************)
(* For any number of children, sessions, faults and restarts: two children *)
(* of one agent never run at once, types hold, no call starts past a latch *)
(* or a sentinel, and the server does not believe a latched agent.  The    *)
(* argument for one child does not look at the pipe (poisoned or not): a   *)
(* running child is always the newest one, and its handle is kept until it *)
(* has been seen dead.                                                     *)
(***************************************************************************)
EXTENDS AgentFailstop, FiniteSetTheorems, TLAPS

(* Inductive: what runs is the newest child, and the parent has its handle. *)
Handled == live \subseteq {gen} /\ (live # {} => handle)

LEMMA HandledInit == Init => Handled
BY DEF Init, Handled

LEMMA HandledKept ==
  ASSUME Handled, UNCHANGED <<gen, live, handle>>
  PROVE  Handled'
BY DEF Handled

(* terminate() clears the handle of a dead child only.                     *)
LEMMA TerminateKeepsHandled ==
  ASSUME Handled, NEW dead \in BOOLEAN, Terminate(dead), gen' = gen
  PROVE  Handled'
<1>1. CASE dead
  <2>1. handle' = FALSE /\ live' = IF handle THEN live \ {gen} ELSE live
    BY <1>1 DEF Terminate
  <2>2. live' = {}
    BY <2>1 DEF Handled
  <2>. QED  BY <2>1, <2>2 DEF Handled
<1>2. CASE ~dead
  BY <1>2, HandledKept DEF Terminate
<1>. QED  BY <1>1, <1>2

(* ensure_child starts a child only after the one it has a handle of.      *)
LEMMA StartKeepsHandled ==
  ASSUME Handled, StartChild
  PROVE  Handled'
<1>1. Survivors = {}
  BY DEF Survivors, ProcessAlive, Handled
<1>2. live' = {gen'} /\ handle'
  BY <1>1 DEF StartChild
<1>. QED  BY <1>2 DEF Handled

LEMMA ChildKeepsHandled ==
  ASSUME Handled, ChildNext
  PROVE  Handled'
<1>1. CASE WriteFails
  BY <1>1, HandledKept DEF WriteFails, rpc
<1>2. CASE ChildWritesSentinel
  BY <1>2, HandledKept DEF ChildWritesSentinel, rpc
<1>3. CASE ChildNotifies
  BY <1>3, HandledKept DEF ChildNotifies
<1>4. CASE ChildDispatches
  BY <1>4, HandledKept DEF ChildDispatches
<1>5. CASE CallReturns
  BY <1>5, HandledKept DEF CallReturns
<1>6. CASE ChildDies
  BY <1>6 DEF ChildDies, Handled, rpc
<1>7. CASE OrphanFails \/ OrphanWrites \/ OrphanEnds
  BY <1>7, HandledKept DEF OrphanFails, OrphanWrites, OrphanEnds, child, rpc
<1>. QED  BY <1>1, <1>2, <1>3, <1>4, <1>5, <1>6, <1>7 DEF ChildNext

LEMMA HandleKeepsHandled ==
  ASSUME Handled, HandleNext
  PROVE  Handled'
<1>1. CASE TakeCommand
  BY <1>1, HandledKept DEF TakeCommand, child
<1>2. CASE SendCommand
  <2>1. gen' = gen
    BY <1>2 DEF SendCommand
  <2>2. Terminate(TRUE) \/ UNCHANGED <<live, handle>>
    BY <1>2 DEF SendCommand
  <2>. QED  BY <2>1, <2>2, HandledKept, TerminateKeepsHandled
<1>3. ASSUME NEW dead \in BOOLEAN, RequestTimesOut(dead) PROVE Handled'
  <2>1. Terminate(dead) /\ gen' = gen
    BY <1>3 DEF RequestTimesOut
  <2>. QED  BY <2>1, TerminateKeepsHandled
<1>. QED  BY <1>1, <1>2, <1>3 DEF HandleNext

LEMMA SessionKeepsHandled ==
  ASSUME Handled, StartNext
  PROVE  Handled'
<1>1. CASE AgentRestarts
  BY <1>1 DEF AgentRestarts, Handled
<1>2. CASE StartUnchanged \/ ProbePasses \/ ClearSentinel \/ LoadHealth \/ KeepChild
  BY <1>2, HandledKept DEF StartUnchanged, ProbePasses, ClearSentinel, LoadHealth, KeepChild,
                           child, rpc
<1>3. CASE StartChild
  BY <1>3, StartKeepsHandled
<1>4. CASE CannotKill \/ ChildConnects \/ ConnectToServer \/ SessionLost
  BY <1>4, HandledKept DEF CannotKill, ChildConnects, ConnectToServer, SessionLost, child, rpc
<1>5. ASSUME NEW dead \in BOOLEAN, ConnectFails(dead) PROVE Handled'
  <2>1. Terminate(dead) /\ gen' = gen
    BY <1>5 DEF ConnectFails
  <2>. QED  BY <2>1, TerminateKeepsHandled
<1>. QED  BY <1>1, <1>2, <1>3, <1>4, <1>5 DEF StartNext

LEMMA LatchKeepsHandled ==
  ASSUME Handled, LatchNext
  PROVE  Handled'
<1>1. CASE NoticeRead \/ NoticeLost
  BY <1>1, HandledKept DEF NoticeRead, NoticeLost, child
<1>2. CASE LatchOnNotice \/ LatchOnPing
  BY <1>2, HandledKept DEF LatchOnNotice, LatchOnPing, BeginLatch, child, rpc
<1>3. ASSUME NEW dead \in BOOLEAN, SentinelWritten(dead) PROVE Handled'
  <2>1. gen' = gen
    BY <1>3 DEF SentinelWritten
  <2>2. Terminate(dead) \/ UNCHANGED <<live, handle>>
    BY <1>3 DEF SentinelWritten
  <2>. QED  BY <2>1, <2>2, HandledKept, TerminateKeepsHandled
<1>4. ASSUME NEW dead \in BOOLEAN, PingFails(dead) PROVE Handled'
  <2>1. Terminate(dead) /\ gen' = gen
    BY <1>4 DEF PingFails
  <2>. QED  BY <2>1, TerminateKeepsHandled
<1>5. CASE SentinelFails \/ StrayWrite
  BY <1>5, HandledKept DEF SentinelFails, StrayWrite, child, rpc
<1>. QED  BY <1>1, <1>2, <1>3, <1>4, <1>5 DEF LatchNext

LEMMA HealthKeepsHandled ==
  ASSUME Handled, HealthNext
  PROVE  Handled'
BY HandledKept DEF HealthNext, Heartbeat, SendFrame, TakeFrame, child, rpc

LEMMA ServerLeavesAgent == ServerNext => UNCHANGED agentVars
BY DEF ServerNext, Attach, HandlerEnds, Superseded, Hangup, BeginLogin, LoginChecked,
       ReceiveHealth, LeaseExpires

LEMMA ServerKeepsHandled ==
  ASSUME Handled, ServerNext
  PROVE  Handled'
<1>1. UNCHANGED agentVars
  BY ServerLeavesAgent
<1>. QED  BY <1>1, HandledKept DEF agentVars, child, rpc

LEMMA HandledStep == Handled /\ [Next]_vars => Handled'
<1>. SUFFICES ASSUME Handled, [Next]_vars PROVE Handled'
  OBVIOUS
<1>1. CASE Next
  BY <1>1, ChildKeepsHandled, HandleKeepsHandled, SessionKeepsHandled, LatchKeepsHandled,
     HealthKeepsHandled, ServerKeepsHandled DEF Next
<1>2. CASE UNCHANGED vars
  BY <1>2, HandledKept DEF vars, child, rpc
<1>. QED  BY <1>1, <1>2

LEMMA HandledIsOne == Handled => OneChild
<1>. SUFFICES ASSUME Handled PROVE OneChild
  OBVIOUS
<1>1. live = {} \/ live = {gen}
  BY DEF Handled
<1>2. Cardinality({}) = 0 /\ Cardinality({gen}) = 1
  BY FS_EmptySet, FS_Singleton
<1>. QED  BY <1>1, <1>2 DEF OneChild

(* Two children never run at once on one buffer and one broker account,    *)
(* whatever kills fail, pipes break and requests outlive their session     *)
(* (ensure_child, terminate).                                              *)
THEOREM OnlyOneChild == Spec => []OneChild
<1>1. Init => Handled
  BY HandledInit
<1>2. Handled /\ [Next]_vars => Handled'
  BY HandledStep
<1>3. Handled => OneChild
  BY HandledIsOne
<1>. QED  BY <1>1, <1>2, <1>3, PTL DEF Spec

-----------------------------------------------------------------------------
(* Types, and what the agent's own variables owe each other.               *)

AgentTyped ==
  /\ sentinel \in Nat \cup {Absent, Placeholder} /\ meta \in Nat
  /\ orphan \in {"none", "calling", "sentinel"}
  /\ gen \in Nat /\ live \subseteq 1..gen
  /\ cb \in {"idle", "sentinel", "notify"} /\ op \in {"none", "sent", "calling"}
  /\ pipe \in Nat
  /\ req \in {"none", "queued", "waiting"} /\ reqGen \in Nat
  /\ phase \in {"boot", "clearing", "off", "loaded", "starting", "ready", "run", "stopped"}
  /\ epoch \in Nat
  /\ notice \in Nat /\ writer \in {"none", "watchdog", "ping"}
  /\ writing \in Nat /\ stray \in Nat
  /\ queue \subseteq Nat /\ sending \in Frame \cup {NoFrame}
  /\ faultGen \in Nat /\ unseen \in {"no", "file", "child"} /\ faults \in Nat /\ restarts \in Nat

(* A child that told anybody has tripped; who writes the sentinel has      *)
(* latched; requests, notices and faults are of this child or an older one.*)
Causes ==
  /\ cb # "idle" => tripped
  /\ pipe > 0 => tripped
  /\ notice <= gen /\ (notice = gen /\ notice # 0 => tripped)
  /\ faultGen <= gen /\ (faultGen = gen /\ gen # 0 => tripped)
  /\ reqGen <= gen
  /\ op = "sent" => gen \in live
  /\ writer # "none" => phase = "run" /\ latched /\ writing = epoch
  /\ stray # 0 => latched
  /\ phase \in {"boot", "clearing"} => stray = 0 /\ req = "none" /\ op = "none"
  /\ phase # "run" => sending = NoFrame

Agent == AgentTyped /\ Causes

LEMMA AgentInit == Init => Agent
BY DEF Init, Agent, AgentTyped, Causes, NoFrame, Absent

LEMMA AgentStays ==
  ASSUME Agent, UNCHANGED <<files, child, rpc, phase, acct, latch, tasks, history>>
  PROVE  Agent'
BY DEF Agent, AgentTyped, Causes, files, child, rpc, latch, tasks, history

(* terminate() leaves types and causes, whatever else the step does.       *)
LEMMA Terminated ==
  ASSUME AgentTyped, Causes, NEW dead \in BOOLEAN, Terminate(dead), gen' = gen, tripped' = tripped
  PROVE  /\ live' \subseteq 1..gen' /\ pipe' \in Nat
         /\ cb' \in {"idle", "sentinel", "notify"} /\ op' \in {"none", "sent", "calling"}
         /\ (cb' # "idle" => tripped') /\ (pipe' > 0 => tripped')
         /\ (op' = "sent" => gen' \in live')
<1>1. CASE dead
  <2>1. pipe' = 0
    BY <1>1 DEF Terminate
  <2>2. CASE handle
    <3>1. live' = live \ {gen} /\ cb' = "idle" /\ op' = "none"
      BY <1>1, <2>2 DEF Terminate
    <3>. QED  BY <2>1, <3>1 DEF AgentTyped
  <2>3. CASE ~handle
    <3>1. live' = live /\ cb' = cb /\ op' = op
      BY <1>1, <2>3 DEF Terminate
    <3>. QED  BY <2>1, <3>1 DEF AgentTyped, Causes
  <2>. QED  BY <2>2, <2>3
<1>2. CASE ~dead
  BY <1>2 DEF Terminate, AgentTyped, Causes
<1>. QED  BY <1>1, <1>2

(* terminate() ends the operation or leaves it.                            *)
LEMMA TerminatedOp ==
  ASSUME NEW dead \in BOOLEAN, Terminate(dead) PROVE op' \in {op, "none"}
BY DEF Terminate

LEMMA ChildAgent ==
  ASSUME Agent, ChildNext
  PROVE  Agent'
<1>. USE DEF Agent, AgentTyped, Causes, files, rpc, latch, tasks, net, history
<1>1. CASE WriteFails
  BY <1>1 DEF WriteFails
<1>2. CASE ChildWritesSentinel
  BY <1>2 DEF ChildWritesSentinel
<1>3. CASE ChildNotifies
  BY <1>3 DEF ChildNotifies
<1>4. CASE ChildDispatches
  BY <1>4 DEF ChildDispatches, Answered
<1>5. CASE CallReturns
  BY <1>5 DEF CallReturns, Answered
<1>6. CASE ChildDies
  BY <1>6 DEF ChildDies
<1>7. CASE OrphanFails
  BY <1>7 DEF OrphanFails, child
<1>8. CASE OrphanWrites
  BY <1>8 DEF OrphanWrites, child
<1>9. CASE OrphanEnds
  BY <1>9 DEF OrphanEnds, child
<1>. QED  BY <1>1, <1>2, <1>3, <1>4, <1>5, <1>6, <1>7, <1>8, <1>9 DEF ChildNext

LEMMA HandleAgent ==
  ASSUME Agent, HandleNext
  PROVE  Agent'
<1>. USE DEF Agent, AgentTyped, Causes, files, child, latch, tasks, net, history
<1>1. CASE TakeCommand
  BY <1>1 DEF TakeCommand
<1>2. CASE SendCommand
  <2>1. /\ UNCHANGED <<files, gen, tripped, phase, acct, latch, tasks, net, history>>
        /\ reqGen' = 0 /\ req = "queued"
    BY <1>2 DEF SendCommand
  <2>2. CASE /\ gen \in live /\ op' = "sent" /\ req' = "waiting"
             /\ UNCHANGED <<live, cb, handle, poisoned, pipe>>
    BY <2>1, <2>2
  <2>3. CASE req' = "none" /\ Terminate(TRUE)
    <3>1. /\ live' \subseteq 1..gen' /\ pipe' \in Nat
          /\ cb' \in {"idle", "sentinel", "notify"} /\ op' \in {"none", "sent", "calling"}
          /\ (cb' # "idle" => tripped') /\ (pipe' > 0 => tripped')
          /\ (op' = "sent" => gen' \in live')
      <4>. HIDE DEF Agent, AgentTyped, Causes
      <4>1. AgentTyped /\ Causes /\ TRUE \in BOOLEAN /\ gen' = gen /\ tripped' = tripped
        BY <2>1 DEF Agent
      <4>. QED  BY <4>1, <2>3, Terminated
    <3>. QED  BY <2>1, <2>3, <3>1
  <2>4. CASE req' = "none" /\ UNCHANGED <<live, cb, op, handle, poisoned, pipe>>
    BY <2>1, <2>4
  <2>. QED  BY <1>2, <2>2, <2>3, <2>4 DEF SendCommand
<1>3. ASSUME NEW dead \in BOOLEAN, RequestTimesOut(dead) PROVE Agent'
  <2>1. Terminate(dead) /\ gen' = gen /\ tripped' = tripped
    BY <1>3 DEF RequestTimesOut
  <2>2. op' \in {op, "none"}
    BY <2>1, TerminatedOp
  <2>. QED  BY <1>3, <2>1, <2>2, Terminated DEF RequestTimesOut
<1>. QED  BY <1>1, <1>2, <1>3 DEF HandleNext

LEMMA StartAgent ==
  ASSUME Agent, StartNext
  PROVE  Agent'
<1>. USE DEF Agent, AgentTyped, Causes, files, child, rpc, latch, tasks, net, history
<1>0. LoadedEpoch \in Nat
  BY DEF LoadedEpoch, Larger, Absent, Placeholder
<1>1. CASE AgentRestarts
  BY <1>0, <1>1 DEF AgentRestarts, LoadedLatch, Orphaned
<1>2. CASE StartUnchanged
  BY <1>2 DEF StartUnchanged
<1>10. CASE ProbePasses
  BY <1>10 DEF ProbePasses
<1>3. CASE ClearSentinel
  BY <1>3 DEF ClearSentinel
<1>4. CASE LoadHealth
  <2>1. /\ UNCHANGED <<files, child, rpc, acct, tasks, net, faultGen, faults, restarts>>
        /\ phase = "off" /\ phase' = "loaded" /\ epoch' \in Nat
        /\ latched => latched'
        /\ unseen' \in {"no", "file", "child"}
    BY <1>0, <1>4 DEF LoadHealth, LoadedLatch
  <2>2. writer = "none"
    BY <2>1
  <2>. QED  BY <2>1, <2>2
<1>5. CASE StartChild
  BY <1>5 DEF StartChild, Survivors
<1>6. CASE KeepChild
  BY <1>6 DEF KeepChild
<1>11. CASE CannotKill
  BY <1>11 DEF CannotKill
<1>12. CASE ChildConnects
  BY <1>12 DEF ChildConnects
<1>7. ASSUME NEW dead \in BOOLEAN, ConnectFails(dead) PROVE Agent'
  <2>1. Terminate(dead) /\ gen' = gen /\ tripped' = tripped
    BY <1>7 DEF ConnectFails
  <2>. QED  BY <1>7, <2>1, Terminated DEF ConnectFails
<1>8. CASE ConnectToServer
  <2>1. /\ UNCHANGED <<files, child, rpc, acct, latch, notice, writer, writing, stray, sending, history>>
        /\ phase = "ready" /\ phase' \in {"run", "off"} /\ queue' \in {queue, queue \cup {epoch}}
    BY <1>8 DEF ConnectToServer
  <2>. QED  BY <2>1
<1>9. CASE SessionLost
  BY <1>9 DEF SessionLost, EndSession
<1>. QED  BY <1>1, <1>2, <1>3, <1>4, <1>5, <1>6, <1>7, <1>8, <1>9, <1>10, <1>11, <1>12 DEF StartNext

LEMMA LatchAgent ==
  ASSUME Agent, LatchNext
  PROVE  Agent'
<1>. USE DEF Agent, AgentTyped, Causes, files, child, rpc, latch, tasks, net, history
<1>1. CASE NoticeRead
  BY <1>1 DEF NoticeRead
<1>7. CASE NoticeLost
  BY <1>7 DEF NoticeLost
<1>2. CASE LatchOnNotice
  BY <1>2 DEF LatchOnNotice, BeginLatch, NextEpoch
<1>8. CASE LatchOnPing
  BY <1>8 DEF LatchOnPing, BeginLatch, NextEpoch
<1>3. ASSUME NEW dead \in BOOLEAN, SentinelWritten(dead) PROVE Agent'
  <2>1. CASE writer = "ping"
    <3>1. Terminate(dead) /\ gen' = gen /\ tripped' = tripped
      BY <1>3, <2>1 DEF SentinelWritten
    <3>2. /\ UNCHANGED <<meta, orphan, req, reqGen, acct, latch, stray, net, history>>
          /\ phase = "run" /\ phase' \in {"off", "stopped"}
          /\ sentinel' = writing /\ queue' = queue \cup {writing}
          /\ notice' = 0 /\ sending' = NoFrame /\ writer' = "none" /\ writing' = 0
      BY <1>3, <2>1 DEF SentinelWritten, Enqueued
    <3>. QED  BY <3>1, <3>2, Terminated
  <2>2. CASE writer # "ping"
    <3>1. /\ UNCHANGED <<meta, orphan, child, rpc, phase, acct, latch, notice, stray, sending,
                        net, history>>
          /\ sentinel' = writing /\ queue' = queue \cup {writing}
          /\ writer' = "none" /\ writing' = 0
      BY <1>3, <2>2 DEF SentinelWritten, Enqueued
    <3>. QED  BY <3>1
  <2>. QED  BY <2>1, <2>2
<1>4. ASSUME NEW dead \in BOOLEAN, PingFails(dead) PROVE Agent'
  <2>1. Terminate(dead) /\ gen' = gen /\ tripped' = tripped
    BY <1>4 DEF PingFails
  <2>2. /\ UNCHANGED <<files, gen, tripped, req, reqGen, acct, latch, queue, net, history>>
        /\ phase = "run" /\ phase' \in {"off", "stopped"}
        /\ notice' = 0 /\ sending' = NoFrame /\ writer' = "none" /\ writing' = 0
        /\ stray' \in {stray, writing} /\ (stray' # 0 => latched)
    BY <1>4 DEF PingFails, EndSession
  <2>. QED  BY <2>1, <2>2, Terminated
<1>5. CASE SentinelFails
  BY <1>5 DEF SentinelFails
<1>6. CASE StrayWrite
  BY <1>6 DEF StrayWrite
<1>. QED  BY <1>1, <1>2, <1>3, <1>4, <1>5, <1>6, <1>7, <1>8 DEF LatchNext

LEMMA HealthAgent ==
  ASSUME Agent, HealthNext
  PROVE  Agent'
<1>. USE DEF Agent, AgentTyped, Causes, files, child, rpc, latch, tasks, net, history
<1>1. CASE Heartbeat
  BY <1>1 DEF Heartbeat
<1>2. CASE SendFrame
  BY <1>2 DEF SendFrame
<1>3. ASSUME NEW e \in queue, TakeFrame(e) PROVE Agent'
  BY <1>3 DEF TakeFrame, Frame, NoFrame
<1>. QED  BY <1>1, <1>2, <1>3 DEF HealthNext
LEMMA AgentStep == Agent /\ [Next]_vars => Agent'
<1>. SUFFICES ASSUME Agent, [Next]_vars PROVE Agent'
  OBVIOUS
<1>1. CASE ServerNext
  <2>1. UNCHANGED agentVars
    BY <1>1, ServerLeavesAgent
  <2>. QED  BY <2>1, AgentStays DEF agentVars
<1>2. CASE UNCHANGED vars
  BY <1>2, AgentStays DEF vars
<1>. QED  BY <1>1, <1>2, ChildAgent, HandleAgent, StartAgent, LatchAgent, HealthAgent DEF Next

-----------------------------------------------------------------------------
(* The Boolean variables.                                                  *)
Flags == /\ tripped \in BOOLEAN /\ handle \in BOOLEAN /\ poisoned \in BOOLEAN
         /\ acct \in BOOLEAN /\ latched \in BOOLEAN

LEMMA FlagsInit == Init => Flags
BY DEF Init, Flags

LEMMA FlagsStep == Flags /\ [Next]_vars => Flags'
<1>. SUFFICES ASSUME Flags, [Next]_vars PROVE Flags'
  OBVIOUS
<1>. USE DEF Flags
<1>1. ASSUME NEW dead \in BOOLEAN, Terminate(dead) PROVE handle' \in BOOLEAN
  BY <1>1 DEF Terminate
<1>2. CASE ChildNext
  BY <1>2 DEF ChildNext, WriteFails, ChildWritesSentinel, ChildNotifies, ChildDispatches, CallReturns,
              ChildDies, OrphanFails, OrphanWrites, OrphanEnds, child, rpc, latch
<1>3. CASE HandleNext
  BY <1>1, <1>3 DEF HandleNext, TakeCommand, SendCommand, RequestTimesOut, child, latch
<1>4. CASE StartNext
  BY <1>1, <1>4 DEF StartNext, AgentRestarts, StartUnchanged, ProbePasses, ClearSentinel,
              LoadHealth, KeepChild, StartChild, CannotKill, ChildConnects, ConnectFails,
              ConnectToServer, SessionLost, LoadedLatch, child, rpc, latch
<1>5. CASE LatchNext
  BY <1>1, <1>5 DEF LatchNext, NoticeRead, NoticeLost, LatchOnNotice, LatchOnPing, BeginLatch,
              SentinelWritten, PingFails, SentinelFails, StrayWrite, child, rpc, latch
<1>6. CASE HealthNext
  BY <1>6 DEF HealthNext, Heartbeat, TakeFrame, SendFrame, child, rpc, latch
<1>7. CASE ServerNext
  <2>1. UNCHANGED agentVars
    BY <1>7, ServerLeavesAgent
  <2>. QED  BY <2>1 DEF agentVars, child, rpc, latch
<1>8. CASE UNCHANGED vars
  BY <1>8 DEF vars, child, rpc, latch
<1>. QED  BY <1>2, <1>3, <1>4, <1>5, <1>6, <1>7, <1>8 DEF Next

-----------------------------------------------------------------------------
(* The wires and the server.                                               *)

Net ==
  /\ conn \in 0..MaxSessions /\ wire \in [Conns -> Seq(Frame)]
  /\ hand \in [Conns -> {"none", "new", "on", "login", "end"}]
  /\ chan \in [conn : 0..MaxSessions, in : BOOLEAN, ok : BOOLEAN, max : Nat]
  /\ phase \in {"loaded", "starting", "ready"} => conn < MaxSessions
  /\ phase = "run" => conn # 0
  /\ \A c \in Conns : hand[c] = "login" => wire[c] # <<>> /\ wire[c][1].kind = "login"
  /\ \A c \in Conns : hand[c] # "none" => c <= conn
  /\ chan.conn <= conn

LEMMA NetInit == Init => Net
<1>. SUFFICES ASSUME Init PROVE Net
  OBVIOUS
<1>1. conn = 0 /\ phase = "boot" /\ wire = [c \in Conns |-> <<>>] /\ hand = [c \in Conns |-> "none"]
  BY DEF Init
<1>2. chan = [conn |-> 0, in |-> FALSE, ok |-> FALSE, max |-> 0]
  BY DEF Init, NoChannel
<1>3. chan \in [conn : 0..MaxSessions, in : BOOLEAN, ok : BOOLEAN, max : Nat] /\ chan.conn = 0
  BY <1>2, BoundsAssumption
<1>4. wire \in [Conns -> Seq(Frame)]
  BY <1>1
<1>. QED  BY <1>1, <1>3, <1>4, BoundsAssumption DEF Net

(* What the agent does apart from connecting and sending.                  *)
Quiet ==
  /\ UNCHANGED net
  /\ phase' = "run" => phase = "run"
  /\ phase' \in {"loaded", "starting", "ready"} =>
       phase \in {"loaded", "starting", "ready"} \/ conn < MaxSessions

LEMMA AgentIsQuiet ==
  ASSUME ChildNext \/ HandleNext \/ StartNext \/ LatchNext \/ HealthNext
  PROVE  Quiet \/ ConnectToServer \/ SendFrame
<1>. USE DEF Quiet
<1>1. CASE ChildNext
  BY <1>1 DEF ChildNext, WriteFails, ChildWritesSentinel, ChildNotifies, ChildDispatches, CallReturns,
              ChildDies, OrphanFails, OrphanWrites, OrphanEnds
<1>2. CASE HandleNext
  BY <1>2 DEF HandleNext, TakeCommand, SendCommand, RequestTimesOut
<1>3. CASE StartNext
  BY <1>3 DEF StartNext, AgentRestarts, StartUnchanged, ProbePasses, ClearSentinel, LoadHealth, KeepChild,
              StartChild, CannotKill, ChildConnects, ConnectFails, SessionLost
<1>4. CASE LatchNext
  BY <1>4 DEF LatchNext, NoticeRead, NoticeLost, LatchOnNotice, LatchOnPing, BeginLatch, SentinelWritten,
              PingFails, SentinelFails, StrayWrite
<1>5. CASE HealthNext
  BY <1>5 DEF HealthNext, Heartbeat, TakeFrame
<1>. QED  BY <1>1, <1>2, <1>3, <1>4, <1>5

LEMMA QuietNet ==
  ASSUME Net, UNCHANGED net,
         phase' = "run" => phase = "run",
         phase' \in {"loaded", "starting", "ready"} =>
           phase \in {"loaded", "starting", "ready"} \/ conn < MaxSessions
  PROVE  Net'
BY DEF Net, net

LEMMA ConnectNet ==
  ASSUME Net, Agent, ConnectToServer
  PROVE  Net'
<1>. USE DEF Net
<1>1. CASE phase' = "off" /\ UNCHANGED <<conn, wire, hand, queue>>
  BY <1>1 DEF ConnectToServer
<1>2. CASE phase' = "run" /\ conn' = conn + 1
  <2>1. /\ phase = "ready" /\ chan' = chan /\ conn + 1 \in Conns /\ epoch \in Nat
        /\ wire' = [wire EXCEPT ![conn + 1] = <<[kind |-> "login", epoch |-> epoch]>>]
        /\ hand' = [hand EXCEPT ![conn + 1] = "new"]
    BY <1>2, BoundsAssumption DEF ConnectToServer, Conns, Agent, AgentTyped
  <2>2. <<[kind |-> "login", epoch |-> epoch]>> \in Seq(Frame)
    BY <2>1 DEF Frame
  <2>3. wire' \in [Conns -> Seq(Frame)] /\ hand' \in [Conns -> {"none", "new", "on", "login", "end"}]
    BY <2>1, <2>2
  <2>4. \A c \in Conns : hand'[c] = "login" => hand[c] = "login" /\ wire'[c] = wire[c]
    BY <2>1
  <2>5. \A c \in Conns : hand'[c] # "none" => c <= conn + 1
    BY <2>1 DEF Conns
  <2>. QED  BY <1>2, <2>1, <2>3, <2>4, <2>5 DEF Conns
<1>. QED  BY <1>1, <1>2 DEF ConnectToServer

LEMMA SendNet ==
  ASSUME Net, Agent, SendFrame
  PROVE  Net'
<1>1. /\ phase = "run" /\ phase' = phase /\ UNCHANGED <<conn, hand, chan>> /\ sending \in Frame
      /\ wire' = [wire EXCEPT ![conn] = Append(@, sending)]
  BY DEF SendFrame, Agent, AgentTyped
<1>2. conn \in Conns
  BY <1>1 DEF Net, Conns
<1>3. wire' \in [Conns -> Seq(Frame)]
  BY <1>1, <1>2 DEF Net
<1>4. \A c \in Conns : wire[c] # <<>> => wire'[c] # <<>> /\ wire'[c][1] = wire[c][1]
  BY <1>1, <1>2 DEF Net
<1>. QED  BY <1>1, <1>3, <1>4 DEF Net

LEMMA HangupNet ==
  ASSUME Net, NEW c \in Conns, hand[c] # "none", Hangup(c)
  PROVE  Net'
<1>1. phase' = phase /\ conn' = conn
  BY DEF Hangup, agentVars
<1>2. chan' \in [conn : 0..MaxSessions, in : BOOLEAN, ok : BOOLEAN, max : Nat] /\ chan'.conn <= conn
  <2>1. CASE chan.conn = c
    <3>1. chan' = [chan EXCEPT !.conn = 0, !.in = FALSE, !.ok = FALSE, !.max = 0]
      BY <2>1 DEF Hangup, Detached
    <3>2. chan' = [conn |-> 0, in |-> FALSE, ok |-> FALSE, max |-> 0]
      BY <3>1 DEF Net
    <3>. QED  BY <3>2, BoundsAssumption DEF Net
  <2>2. CASE chan.conn # c
    BY <2>2 DEF Hangup, Detached, Net
  <2>. QED  BY <2>1, <2>2
<1>3. hand' = [hand EXCEPT ![c] = "end"] /\ wire' = [wire EXCEPT ![c] = <<>>]
  BY DEF Hangup
<1>4. wire' \in [Conns -> Seq(Frame)] /\ hand' \in [Conns -> {"none", "new", "on", "login", "end"}]
  BY <1>3 DEF Net
<1>5. \A d \in Conns : /\ hand'[d] = "login" => hand[d] = "login" /\ wire'[d] = wire[d]
                       /\ hand'[d] # "none" => hand[d] # "none" \/ d = c
  BY <1>3 DEF Net
<1>. QED  BY <1>1, <1>2, <1>4, <1>5 DEF Net

LEMMA ServerNet ==
  ASSUME Net, ServerNext
  PROVE  Net'
<1>1. phase' = phase /\ conn' = conn
  BY DEF ServerNext, Attach, HandlerEnds, Superseded, Hangup, BeginLogin, LoginChecked, ReceiveHealth,
         LeaseExpires, agentVars
<1>2. ASSUME NEW c \in Conns, Attach(c) PROVE Net'
  <2>1. /\ hand[c] = "new" /\ hand' = [hand EXCEPT ![c] = "on"] /\ wire' = wire
        /\ chan' = [conn |-> c, in |-> chan.conn = 0 /\ chan.in, ok |-> FALSE, max |-> 0]
    BY <1>2 DEF Attach
  <2>2. c \in 0..MaxSessions /\ c <= conn
    BY <2>1, BoundsAssumption DEF Net, Conns
  <2>3. chan' \in [conn : 0..MaxSessions, in : BOOLEAN, ok : BOOLEAN, max : Nat] /\ chan'.conn = c
    BY <2>1, <2>2
  <2>. QED  BY <1>1, <2>1, <2>2, <2>3 DEF Net
<1>3. ASSUME NEW c \in Conns, HandlerEnds(c) \/ Superseded(c) PROVE Net'
  BY <1>3, HangupNet DEF HandlerEnds, Superseded
<1>4. ASSUME NEW c \in Conns, BeginLogin(c) PROVE Net'
  <2>1. wire[c] # <<>> /\ wire[c][1].kind = "login"
    BY <1>4 DEF BeginLogin, Net
  <2>2. hand[c] = "on" /\ hand' = [hand EXCEPT ![c] = "login"] /\ wire' = wire /\ chan' = chan
    BY <1>4 DEF BeginLogin
  <2>. QED  BY <1>1, <2>1, <2>2 DEF Net
<1>5. ASSUME NEW c \in Conns, LoginChecked(c) PROVE Net'
  <2>1. CASE Hangup(c)
    BY <1>5, <2>1, HangupNet DEF LoginChecked
  <2>2. CASE ~Hangup(c)
    <3>1. /\ hand[c] = "login" /\ hand' = [hand EXCEPT ![c] = "on"]
          /\ wire' = [wire EXCEPT ![c] = Tail(@)]
          /\ chan' = [conn |-> chan.conn, in |-> TRUE, ok |-> FALSE, max |-> Head(wire[c]).epoch]
      BY <1>5, <2>2 DEF LoginChecked
    <3>2. wire[c] # <<>> /\ Head(wire[c]) \in Frame /\ Tail(wire[c]) \in Seq(Frame)
      BY <3>1 DEF Net
    <3>3. wire' \in [Conns -> Seq(Frame)]
      BY <3>1, <3>2 DEF Net
    <3>4. /\ chan' \in [conn : 0..MaxSessions, in : BOOLEAN, ok : BOOLEAN, max : Nat]
          /\ chan'.conn = chan.conn
      BY <3>1, <3>2 DEF Net, Frame
    <3>5. \A d \in Conns : d # c => wire'[d] = wire[d] /\ hand'[d] = hand[d]
      BY <3>1 DEF Net
    <3>6. hand' \in [Conns -> {"none", "new", "on", "login", "end"}] /\ hand'[c] = "on"
      BY <3>1 DEF Net
    <3>. QED  BY <1>1, <3>1, <3>3, <3>4, <3>5, <3>6 DEF Net
  <2>. QED  BY <2>1, <2>2
<1>6. ASSUME NEW c \in Conns, ReceiveHealth(c) PROVE Net'
  <2>1. /\ hand[c] = "on" /\ wire[c] # <<>> /\ hand' = hand /\ wire' = [wire EXCEPT ![c] = Tail(@)]
    BY <1>6 DEF ReceiveHealth
  <2>2. Head(wire[c]) \in Frame /\ Tail(wire[c]) \in Seq(Frame)
    BY <2>1 DEF Net
  <2>3. /\ chan' \in [conn : 0..MaxSessions, in : BOOLEAN, ok : BOOLEAN, max : Nat]
        /\ chan'.conn = chan.conn
    <3>1. CASE chan' = chan
      BY <3>1 DEF Net
    <3>2. CASE chan' = [chan EXCEPT !.ok = Head(wire[c]).kind = "ok", !.max = Head(wire[c]).epoch]
      BY <2>2, <3>2 DEF Net, Frame
    <3>. QED  BY <1>6, <3>1, <3>2 DEF ReceiveHealth
  <2>4. wire' \in [Conns -> Seq(Frame)]
    BY <2>1, <2>2 DEF Net
  <2>5. \A d \in Conns : d # c => wire'[d] = wire[d]
    BY <2>1 DEF Net
  <2>. QED  BY <1>1, <2>1, <2>3, <2>4, <2>5 DEF Net
<1>7. CASE LeaseExpires
  BY <1>1, <1>7 DEF LeaseExpires, Net
<1>. QED  BY <1>2, <1>3, <1>4, <1>5, <1>6, <1>7 DEF ServerNext

LEMMA NetStep == Agent /\ Net /\ [Next]_vars => Net'
<1>. SUFFICES ASSUME Agent, Net, [Next]_vars PROVE Net'
  OBVIOUS
<1>1. CASE Quiet
  BY <1>1, QuietNet DEF Quiet
<1>2. CASE UNCHANGED vars
  BY <1>2, QuietNet DEF vars
<1>. QED  BY <1>1, <1>2, AgentIsQuiet, ConnectNet, SendNet, ServerNet DEF Next

-----------------------------------------------------------------------------
(* The sentinel and the latch.                                             *)

(* Before the child is known to serve, a sentinel written after the files  *)
(* were read is remembered as unseen.                                      *)
Honoured ==
  /\ phase \in {"starting", "ready", "run"} /\ sentinel # Absent => latched \/ tripped \/ unseen = "child"
  /\ phase = "loaded" /\ sentinel # Absent => latched \/ unseen \in {"file", "child"}
  /\ phase = "loaded" /\ unseen = "file" => tripped

(* A command meant for this child and not yet called is stopped by the     *)
(* child once anybody has latched.                                         *)
Fenced ==
  (req = "queued" /\ reqGen = gen) \/ op = "sent" =>
    (latched \/ sentinel # Absent => tripped \/ unseen = "child")

Safe == Honoured /\ Fenced

LEMMA SafeInit == Init => Safe
BY DEF Init, Safe, Honoured, Fenced

LEMMA SafeStays ==
  ASSUME Safe, UNCHANGED <<sentinel, gen, tripped, req, reqGen, phase, latched, unseen>>,
         op' \in {op, "none", "calling"}
  PROVE  Safe'
BY DEF Safe, Honoured, Fenced

LEMMA ChildSafe ==
  ASSUME Agent, Safe, ChildNext
  PROVE  Safe'
<1>. USE DEF rpc, latch
<1>1. CASE WriteFails
  BY <1>1 DEF WriteFails, Safe, Honoured, Fenced, files
<1>2. CASE ChildWritesSentinel
  <2>1. tripped
    BY <1>2 DEF ChildWritesSentinel, Agent, Causes
  <2>. QED  BY <1>2, <2>1 DEF ChildWritesSentinel, Safe, Honoured, Fenced
<1>3. CASE ChildNotifies
  BY <1>3, SafeStays DEF ChildNotifies, files, history
<1>4. CASE ChildDispatches
  BY <1>4 DEF ChildDispatches, Answered, Safe, Honoured, Fenced, files, history
<1>5. CASE CallReturns
  BY <1>5 DEF CallReturns, Answered, Safe, Honoured, Fenced, files, history
<1>6. CASE ChildDies
  BY <1>6, SafeStays DEF ChildDies, files, history
<1>7. CASE OrphanFails \/ OrphanEnds
  BY <1>7, SafeStays DEF OrphanFails, OrphanEnds, child, history
<1>8. CASE OrphanWrites
  BY <1>8 DEF OrphanWrites, Agent, Causes, Safe, Honoured, Fenced, child
<1>. QED  BY <1>1, <1>2, <1>3, <1>4, <1>5, <1>6, <1>7, <1>8 DEF ChildNext

LEMMA HandleSafe ==
  ASSUME Agent, Safe, HandleNext
  PROVE  Safe'
<1>. USE DEF latch, history, files
<1>1. CASE TakeCommand
  BY <1>1 DEF TakeCommand, Safe, Honoured, Fenced, child
<1>2. CASE SendCommand
  <2>1. op' = "sent" => op = "sent" \/ (req = "queued" /\ reqGen = gen)
    BY <1>2, TerminatedOp DEF SendCommand, Usable
  <2>2. req' # "queued"
    BY <1>2 DEF SendCommand
  <2>. QED  BY <1>2, <2>1, <2>2 DEF SendCommand, Safe, Honoured, Fenced
<1>3. ASSUME NEW dead \in BOOLEAN, RequestTimesOut(dead) PROVE Safe'
  <2>1. op' \in {op, "none"} /\ (req' = "queued" => req = "queued")
    BY <1>3, TerminatedOp DEF RequestTimesOut
  <2>. QED  BY <1>3, <2>1 DEF RequestTimesOut, Safe, Honoured, Fenced
<1>. QED  BY <1>1, <1>2, <1>3 DEF HandleNext

LEMMA StartSafe ==
  ASSUME Agent, Safe, StartNext
  PROVE  Safe'
<1>. USE DEF latch, history, files, child, rpc, Safe, Honoured, Fenced
<1>1. CASE AgentRestarts
  BY <1>1 DEF AgentRestarts
<1>2. CASE StartUnchanged
  BY <1>2 DEF StartUnchanged
<1>3. CASE ProbePasses
  BY <1>3 DEF ProbePasses
<1>4. CASE ClearSentinel
  BY <1>4 DEF ClearSentinel
<1>5. CASE LoadHealth
  BY <1>5 DEF LoadHealth, LoadedLatch
<1>6. CASE KeepChild
  BY <1>6 DEF KeepChild
<1>7. CASE StartChild
  <2>1. reqGen # gen + 1
    BY DEF Agent, AgentTyped, Causes
  <2>. QED  BY <1>7, <2>1 DEF StartChild
<1>8. CASE CannotKill
  BY <1>8 DEF CannotKill
<1>9. CASE ChildConnects
  BY <1>9 DEF ChildConnects
<1>10. ASSUME NEW dead \in BOOLEAN, ConnectFails(dead) PROVE Safe'
  <2>1. op' \in {op, "none"}
    BY <1>10, TerminatedOp DEF ConnectFails
  <2>. QED  BY <1>10, <2>1 DEF ConnectFails
<1>11. CASE ConnectToServer
  <2>1. /\ UNCHANGED <<files, child, rpc, acct, latch, history>>
        /\ phase = "ready" /\ phase' \in {"run", "off"}
    BY <1>11 DEF ConnectToServer
  <2>. QED  BY <2>1
<1>12. CASE SessionLost
  BY <1>12 DEF SessionLost
<1>. QED  BY <1>1, <1>2, <1>3, <1>4, <1>5, <1>6, <1>7, <1>8, <1>9, <1>10, <1>11, <1>12 DEF StartNext

LEMMA LatchSafe ==
  ASSUME Agent, Safe, LatchNext
  PROVE  Safe'
<1>. USE DEF latch, history, files, child, rpc
<1>1. CASE NoticeRead
  BY <1>1, SafeStays DEF NoticeRead
<1>2. CASE NoticeLost
  BY <1>2, SafeStays DEF NoticeLost
<1>3. CASE LatchOnNotice
  <2>1. tripped
    BY <1>3 DEF LatchOnNotice, Agent, Causes
  <2>. QED  BY <1>3, <2>1 DEF LatchOnNotice, BeginLatch, Safe, Honoured, Fenced
<1>4. CASE LatchOnPing
  BY <1>4 DEF LatchOnPing, BeginLatch, Safe, Honoured, Fenced
<1>5. ASSUME NEW dead \in BOOLEAN, SentinelWritten(dead) PROVE Safe'
  <2>1. op' \in {op, "none"}
    BY <1>5, TerminatedOp DEF SentinelWritten
  <2>2. latched /\ phase = "run" /\ phase' \in {"run", "off", "stopped"}
    BY <1>5 DEF SentinelWritten, Agent, Causes
  <2>3. UNCHANGED <<gen, tripped, req, reqGen, latched, unseen>>
    BY <1>5 DEF SentinelWritten
  <2>. QED  BY <2>1, <2>2, <2>3 DEF Safe, Honoured, Fenced
<1>6. ASSUME NEW dead \in BOOLEAN, PingFails(dead) PROVE Safe'
  <2>1. op' \in {op, "none"}
    BY <1>6, TerminatedOp DEF PingFails
  <2>. QED  BY <1>6, <2>1 DEF PingFails, Safe, Honoured, Fenced
<1>7. CASE SentinelFails
  BY <1>7 DEF SentinelFails, Safe, Honoured, Fenced
<1>8. CASE StrayWrite
  <2>1. latched
    BY <1>8 DEF StrayWrite, Agent, Causes
  <2>. QED  BY <1>8, <2>1 DEF StrayWrite, Safe, Honoured, Fenced
<1>. QED  BY <1>1, <1>2, <1>3, <1>4, <1>5, <1>6, <1>7, <1>8 DEF LatchNext

LEMMA SafeStep == Agent /\ Safe /\ [Next]_vars => Safe'
<1>. SUFFICES ASSUME Agent, Safe, [Next]_vars PROVE Safe'
  OBVIOUS
<1>1. CASE HealthNext
  BY <1>1, SafeStays DEF HealthNext, Heartbeat, SendFrame, TakeFrame, files, child, rpc, latch, history
<1>2. CASE ServerNext
  <2>1. UNCHANGED agentVars
    BY <1>2, ServerLeavesAgent
  <2>. QED  BY <2>1, SafeStays DEF agentVars, files, child, rpc, latch, history
<1>3. CASE UNCHANGED vars
  BY <1>3, SafeStays DEF vars, files, child, rpc, latch, history
<1>. QED  BY <1>1, <1>2, <1>3, ChildSafe, HandleSafe, StartSafe, LatchSafe DEF Next

(* What a step of NoCallOnceLatched says.                                  *)
LEMMA CallAllowed ==
  ASSUME Agent, Safe, [Next]_vars, op # "calling", op' = "calling"
  PROVE  faultGen # gen /\ (latched => unseen = "child")
<1>1. ChildDispatches
  <2>1. ASSUME NEW dead \in BOOLEAN, Terminate(dead) PROVE op' # "calling"
    BY <2>1, TerminatedOp
  <2>2. ~HandleNext
    BY <2>1 DEF HandleNext, TakeCommand, SendCommand, RequestTimesOut, child
  <2>3. ~StartNext
    BY <2>1 DEF StartNext, AgentRestarts, StartUnchanged, ProbePasses, ClearSentinel, LoadHealth, KeepChild,
              StartChild, CannotKill, ChildConnects, ConnectFails, ConnectToServer, SessionLost, child
  <2>4. ~LatchNext
    BY <2>1 DEF LatchNext, NoticeRead, NoticeLost, LatchOnNotice, LatchOnPing, BeginLatch, SentinelWritten,
              PingFails, SentinelFails, StrayWrite, child
  <2>5. ~HealthNext
    BY DEF HealthNext, Heartbeat, TakeFrame, SendFrame, child
  <2>6. ~ServerNext
    BY DEF ServerNext, Attach, HandlerEnds, Superseded, Hangup, BeginLogin, LoginChecked,
                ReceiveHealth, LeaseExpires, agentVars, child
  <2>7. ~(UNCHANGED vars)
    BY DEF vars, child
  <2>8. ~(WriteFails \/ ChildWritesSentinel \/ ChildNotifies \/ CallReturns \/ ChildDies)
    BY DEF WriteFails, ChildWritesSentinel, ChildNotifies, CallReturns, ChildDies
  <2>9. ~(OrphanFails \/ OrphanWrites \/ OrphanEnds)
    BY DEF OrphanFails, OrphanWrites, OrphanEnds, child
  <2>. QED  BY <2>2, <2>3, <2>4, <2>5, <2>6, <2>7, <2>8, <2>9 DEF Next, ChildNext
<1>2. op = "sent" /\ gen \in live /\ ~tripped
  BY <1>1 DEF ChildDispatches
<1>. QED  BY <1>2 DEF Agent, AgentTyped, Causes, Safe, Fenced

-----------------------------------------------------------------------------
(* What the server is told.                                                *)

(* An epoch of which "ok" is true or out of date.                          *)
Past(e) == e < epoch \/ (e = epoch /\ ~latched)

(* In a session every "ok" under way, and the one the server believes, is  *)
(* past; none follows a "failstop".                                        *)
Fresh ==
  /\ sending.kind = "ok" => Past(sending.epoch)
  /\ \A i \in 1..Len(wire[conn]) : wire[conn][i].kind = "ok" => Past(wire[conn][i].epoch)
  /\ chan.conn = conn /\ chan.ok => Past(chan.max)

InOrder ==
  /\ sending.kind = "failstop" => latched
  /\ \A i, j \in 1..Len(wire[conn]) :
       i < j /\ wire[conn][i].kind = "failstop" => wire[conn][j].kind # "ok"
  /\ \A i \in 1..Len(wire[conn]) : wire[conn][i].kind = "failstop" => latched /\ sending.kind # "ok"

News == [kind |-> "failstop", epoch |-> epoch]

(* No "ok" is left to be believed.                                         *)
Told ==
  /\ sending.kind # "ok"
  /\ \A i \in 1..Len(wire[conn]) : wire[conn][i].kind # "ok"
  /\ ~(chan.conn = conn /\ chan.ok)

Announced ==
  latched =>
    \/ writer # "none" \/ epoch \in queue \/ sending = News
    \/ \E i \in 1..Len(wire[conn]) : wire[conn][i] = News
    \/ Told

Truth == phase = "run" => Fresh /\ InOrder /\ Announced

LEMMA TruthInit == Init => Truth
BY DEF Init, Truth

(* The agent, within a session and apart from what it sends.               *)
Calm ==
  \/ /\ latched' = latched /\ epoch' = epoch /\ sending' = sending /\ queue \subseteq queue'
     /\ writer' = writer \/ (writer # "none" /\ writing \in queue')
  \/ latched' /\ epoch' = epoch + 1 /\ writer' # "none" /\ sending' = sending
  \/ \E e \in queue : TakeFrame(e)

LEMMA AgentIsCalm ==
  ASSUME ChildNext \/ HandleNext \/ StartNext \/ LatchNext \/ HealthNext,
         ~ConnectToServer, ~SendFrame, phase' = "run"
  PROVE  phase = "run" /\ UNCHANGED net /\ Calm
<1>. USE DEF latch, tasks
<1>1. CASE ChildNext
  BY <1>1 DEF ChildNext, WriteFails, ChildWritesSentinel, ChildNotifies, ChildDispatches, CallReturns,
              ChildDies, OrphanFails, OrphanWrites, OrphanEnds, Calm
<1>2. CASE HandleNext
  BY <1>2 DEF HandleNext, TakeCommand, SendCommand, RequestTimesOut, Calm
<1>3. CASE StartNext
  BY <1>3 DEF StartNext, AgentRestarts, StartUnchanged, ProbePasses, ClearSentinel, LoadHealth, KeepChild,
              StartChild, CannotKill, ChildConnects, ConnectFails, SessionLost
<1>4. CASE LatchNext
  <2>1. CASE NoticeRead \/ NoticeLost \/ StrayWrite
    BY <2>1 DEF NoticeRead, NoticeLost, StrayWrite, Calm
  <2>2. CASE LatchOnNotice \/ LatchOnPing
    BY <2>2 DEF LatchOnNotice, LatchOnPing, BeginLatch, NextEpoch, Calm
  <2>3. ASSUME NEW dead \in BOOLEAN, SentinelWritten(dead)
        PROVE  phase = "run" /\ UNCHANGED net /\ Calm
    <3>1. writer # "none" /\ writer # "ping"
      BY <2>3 DEF SentinelWritten
    <3>2. UNCHANGED <<phase, latched, epoch, sending, net>> /\ queue' = queue \cup {writing}
      BY <2>3, <3>1 DEF SentinelWritten, Enqueued
    <3>. QED  BY <3>1, <3>2 DEF Calm
  <2>4. ~SentinelFails /\ \A dead \in BOOLEAN : ~PingFails(dead)
    BY DEF SentinelFails, PingFails
  <2>. QED  BY <1>4, <2>1, <2>2, <2>3, <2>4 DEF LatchNext
<1>5. CASE HealthNext
  <2>1. CASE Heartbeat
    BY <2>1 DEF Heartbeat, Calm
  <2>2. ASSUME NEW e \in queue, TakeFrame(e) PROVE phase = "run" /\ UNCHANGED net /\ Calm
    BY <2>2 DEF TakeFrame, Calm
  <2>. QED  BY <1>5, <2>1, <2>2 DEF HealthNext
<1>. QED  BY <1>1, <1>2, <1>3, <1>4, <1>5

LEMMA CalmTruth ==
  ASSUME Agent, Net, Truth, phase = "run", phase' = "run", UNCHANGED net, Calm
  PROVE  Truth'
<1>. USE DEF Truth, Fresh, InOrder, Announced, Told, Past, News, net
<1>1. CASE /\ latched' = latched /\ epoch' = epoch /\ sending' = sending /\ queue \subseteq queue'
           /\ writer' = writer \/ (writer # "none" /\ writing \in queue')
  <2>1. writer # "none" => writing = epoch
    BY DEF Agent, Causes
  <2>. QED  BY <1>1, <2>1
<1>2. CASE latched' /\ epoch' = epoch + 1 /\ writer' # "none" /\ sending' = sending
  <2>1. \A e \in Nat : Past(e) => e < epoch + 1
    BY DEF Agent, AgentTyped
  <2>2. /\ chan.max \in Nat
        /\ sending.kind = "ok" => sending.epoch \in Nat
        /\ \A i \in 1..Len(wire[conn]) : wire[conn][i].epoch \in Nat
    <3>1. conn \in Conns /\ wire[conn] \in Seq(Frame)
      BY DEF Net, Conns
    <3>2. ASSUME NEW i \in 1..Len(wire[conn]) PROVE wire[conn][i].epoch \in Nat
      <4>1. wire[conn][i] \in Frame
        BY <3>1
      <4>. QED  BY <4>1 DEF Frame
    <3>3. chan.max \in Nat
      BY DEF Net
    <3>4. sending.kind = "ok" => sending.epoch \in Nat
      BY DEF Agent, AgentTyped, Frame, NoFrame
    <3>. QED  BY <3>2, <3>3, <3>4
  <2>. QED  BY <1>2, <2>1, <2>2
<1>3. ASSUME NEW e \in queue, TakeFrame(e) PROVE Truth'
  <2>1. /\ UNCHANGED <<latched, epoch, writer>> /\ queue' = queue \ {e} /\ sending = NoFrame
        /\ sending' = IF e # epoch THEN NoFrame
                      ELSE [kind |-> IF latched THEN "failstop" ELSE "ok", epoch |-> epoch]
    BY <1>3 DEF TakeFrame, latch
  <2>2. CASE e # epoch
    BY <2>1, <2>2 DEF NoFrame
  <2>3. CASE e = epoch /\ latched
    <3>1. sending' = News /\ sending'.kind # "ok" /\ sending' = News'
      BY <2>1, <2>3
    <3>. QED  BY <2>1, <2>3, <3>1
  <2>4. CASE e = epoch /\ ~latched
    <3>1. sending'.kind = "ok" /\ sending'.epoch = epoch
      BY <2>1, <2>4
    <3>. QED  BY <2>1, <2>4, <3>1
  <2>. QED  BY <2>2, <2>3, <2>4
<1>. QED  BY <1>1, <1>2, <1>3 DEF Calm

LEMMA ConnectTruth ==
  ASSUME Agent, Net, ConnectToServer
  PROVE  Truth'
<1>. SUFFICES ASSUME phase' = "run" PROVE Truth'
  BY DEF Truth
<1>1. /\ phase = "ready" /\ chan' = chan /\ conn' = conn + 1 /\ conn + 1 \in Conns
      /\ wire' = [wire EXCEPT ![conn + 1] = <<[kind |-> "login", epoch |-> epoch]>>]
      /\ sending' = sending /\ latched' = latched /\ epoch' = epoch
      /\ queue' = queue \cup {epoch}
  BY BoundsAssumption DEF ConnectToServer, Net, Conns, latch
<1>2. wire'[conn'] = <<[kind |-> "login", epoch |-> epoch]>>
  BY <1>1 DEF Net
<1>3. Len(wire'[conn']) = 1 /\ wire'[conn'][1].kind = "login"
  BY <1>2
<1>4. sending'.kind = "none"
  BY <1>1 DEF Agent, Causes, NoFrame
<1>5. chan'.conn # conn'
  BY <1>1 DEF Net
<1>. QED  BY <1>1, <1>3, <1>4, <1>5 DEF Truth, Fresh, InOrder, Announced

LEMMA SendTruth ==
  ASSUME Agent, Net, Truth, SendFrame
  PROVE  Truth'
<1>1. /\ phase = "run" /\ phase' = phase /\ UNCHANGED <<conn, hand, chan, latched, epoch, writer, queue>>
      /\ sending \in Frame /\ sending' = NoFrame
      /\ wire' = [wire EXCEPT ![conn] = Append(@, sending)]
  BY DEF SendFrame, Agent, AgentTyped, latch
<1>2. conn \in Conns /\ wire[conn] \in Seq(Frame)
  BY <1>1 DEF Net, Conns
<1>3. wire'[conn] = Append(wire[conn], sending)
  BY <1>1, <1>2 DEF Net
<1>4. /\ Len(wire'[conn]) = Len(wire[conn]) + 1
      /\ \A i \in 1..Len(wire[conn]) : wire'[conn][i] = wire[conn][i]
      /\ wire'[conn][Len(wire[conn]) + 1] = sending
      /\ Len(wire[conn]) \in Nat
  BY <1>1, <1>2, <1>3
<1>5. sending'.kind = "none" /\ sending' # News
  BY <1>1 DEF NoFrame, News
<1>6. Fresh'
  BY <1>1, <1>4, <1>5 DEF Truth, Fresh, Past
<1>7. InOrder'
  BY <1>1, <1>4, <1>5 DEF Truth, InOrder
<1>8. Announced'
  BY <1>1, <1>4, <1>5 DEF Truth, Announced, Told, News
<1>. QED  BY <1>6, <1>7, <1>8 DEF Truth

(* What the server does to the wire of the agent's connection, and what it *)
(* makes of it.                                                            *)
LEMMA ServerEffect ==
  ASSUME Net, ServerNext, conn \in Conns
  PROVE  /\ \/ wire'[conn] = wire[conn]
            \/ wire[conn] # <<>> /\ wire'[conn] = Tail(wire[conn])
                 /\ (Head(wire[conn]).kind = "failstop" =>
                      ~chan'.ok \/ (chan' = chan /\ Head(wire[conn]).epoch < chan.max))
            \/ wire'[conn] = <<>> /\ chan'.conn # conn
         /\ chan'.conn = conn /\ chan'.ok =>
              \/ chan.conn = conn /\ chan.ok /\ chan'.max = chan.max
              \/ wire[conn] # <<>> /\ Head(wire[conn]).kind = "ok" /\ chan'.max = Head(wire[conn]).epoch
<1>. DEFINE Effect ==
       /\ \/ wire'[conn] = wire[conn]
          \/ wire[conn] # <<>> /\ wire'[conn] = Tail(wire[conn])
               /\ (Head(wire[conn]).kind = "failstop" =>
                    ~chan'.ok \/ (chan' = chan /\ Head(wire[conn]).epoch < chan.max))
          \/ wire'[conn] = <<>> /\ chan'.conn # conn
       /\ chan'.conn = conn /\ chan'.ok =>
            \/ chan.conn = conn /\ chan.ok /\ chan'.max = chan.max
            \/ wire[conn] # <<>> /\ Head(wire[conn]).kind = "ok" /\ chan'.max = Head(wire[conn]).epoch
<1>. SUFFICES Effect
  OBVIOUS
<1>1. ASSUME NEW c \in Conns, Attach(c) PROVE Effect
  BY <1>1 DEF Attach
<1>2. ASSUME NEW c \in Conns, Hangup(c) PROVE Effect
  <2>1. wire' = [wire EXCEPT ![c] = <<>>] /\ chan' = Detached(c)
    BY <1>2 DEF Hangup
  <2>2. CASE chan.conn = c
    <3>1. chan'.conn = 0 /\ ~chan'.ok
      BY <2>1, <2>2 DEF Detached, Net
    <3>2. wire'[conn] = wire[conn] \/ wire'[conn] = <<>>
      BY <2>1 DEF Net
    <3>. QED  BY <3>1, <3>2 DEF Conns
  <2>3. CASE chan.conn # c
    <3>1. chan' = chan
      BY <2>1, <2>3 DEF Detached
    <3>2. wire'[conn] = wire[conn] \/ (conn = c /\ wire'[conn] = <<>>)
      BY <2>1 DEF Net
    <3>. QED  BY <2>3, <3>1, <3>2
  <2>. QED  BY <2>2, <2>3
<1>3. ASSUME NEW c \in Conns, BeginLogin(c) PROVE Effect
  BY <1>3 DEF BeginLogin
<1>4. ASSUME NEW c \in Conns, LoginChecked(c), ~Hangup(c) PROVE Effect
  <2>1. /\ hand[c] = "login" /\ wire' = [wire EXCEPT ![c] = Tail(@)] /\ ~chan'.ok
    BY <1>4 DEF LoginChecked
  <2>2. wire[c] # <<>>
    BY <2>1 DEF Net
  <2>3. CASE conn # c
    <3>1. wire'[conn] = wire[conn]
      BY <2>1, <2>3 DEF Net
    <3>. QED  BY <2>1, <3>1
  <2>4. CASE conn = c
    <3>1. wire'[conn] = Tail(wire[conn])
      BY <2>1, <2>4 DEF Net
    <3>2. wire[conn] # <<>> /\ ~chan'.ok
      BY <2>1, <2>2, <2>4
    <3>3. ~(chan'.conn = conn /\ chan'.ok)
      BY <3>2
    <3>. QED  BY <3>1, <3>2, <3>3
  <2>. QED  BY <2>3, <2>4
<1>5. ASSUME NEW c \in Conns, ReceiveHealth(c) PROVE Effect
  <2>1. /\ chan.conn = c /\ wire[c] # <<>> /\ wire' = [wire EXCEPT ![c] = Tail(@)]
        /\ Head(wire[c]).kind # "login" /\ Head(wire[c]) \in Frame
    BY <1>5 DEF ReceiveHealth, Net
  <2>2. CASE c # conn
    <3>1. wire'[conn] = wire[conn]
      BY <2>1, <2>2 DEF Net
    <3>2. chan'.conn = c
      BY <1>5, <2>1 DEF ReceiveHealth, Net
    <3>. QED  BY <2>2, <3>1, <3>2
  <2>3. CASE c = conn /\ Stale(Head(wire[c]))
    <3>1. chan' = chan /\ Head(wire[c]).epoch < chan.max
      BY <1>5, <2>3 DEF ReceiveHealth, Stale
    <3>2. wire'[conn] = Tail(wire[conn])
      BY <2>1, <2>3 DEF Net
    <3>. QED  BY <2>1, <2>3, <3>1, <3>2
  <2>4. CASE c = conn /\ ~Stale(Head(wire[c]))
    <3>1. chan' = [chan EXCEPT !.ok = Head(wire[c]).kind = "ok", !.max = Head(wire[c]).epoch]
      BY <1>5, <2>4 DEF ReceiveHealth
    <3>2. /\ chan'.ok => Head(wire[c]).kind = "ok"
          /\ chan'.max = Head(wire[c]).epoch
      BY <3>1 DEF Net
    <3>3. wire'[conn] = Tail(wire[conn])
      BY <2>1, <2>4 DEF Net
    <3>4. wire[conn] # <<>> /\ (Head(wire[conn]).kind = "failstop" => ~chan'.ok)
      BY <2>1, <2>4, <3>2
    <3>5. chan'.ok => Head(wire[conn]).kind = "ok" /\ chan'.max = Head(wire[conn]).epoch
      BY <2>4, <3>2
    <3>. QED  BY <3>3, <3>4, <3>5
  <2>. QED  BY <2>2, <2>3, <2>4
<1>6. CASE LeaseExpires
  BY <1>6 DEF LeaseExpires, Net
<1>. QED  BY <1>1, <1>2, <1>3, <1>4, <1>5, <1>6 DEF ServerNext, HandlerEnds, Superseded

LEMMA ServerTruth ==
  ASSUME Agent, Net, Truth, ServerNext
  PROVE  Truth'
<1>. SUFFICES ASSUME phase' = "run" PROVE Truth'
  BY DEF Truth
<1>1. UNCHANGED <<phase, conn, latched, epoch, sending, queue, writer>>
  BY DEF ServerNext, Attach, HandlerEnds, Superseded, Hangup, BeginLogin, LoginChecked,
         ReceiveHealth, LeaseExpires, agentVars, latch, tasks
<1>2. conn \in Conns /\ wire[conn] \in Seq(Frame) /\ Fresh /\ InOrder /\ Announced
  BY <1>1 DEF Net, Conns, Truth
<1>. DEFINE W == wire[conn]
<1>3. ASSUME W # <<>>
      PROVE  /\ Len(W) >= 1 /\ Len(Tail(W)) = Len(W) - 1 /\ Head(W) = W[1]
             /\ \A i \in 1..Len(Tail(W)) : Tail(W)[i] = W[i + 1] /\ i + 1 \in 1..Len(W)
  BY <1>2, <1>3
<1>4. chan'.conn = conn /\ chan'.ok => Past(chan'.max)
  <2>1. W # <<>> /\ Head(W).kind = "ok" => Past(Head(W).epoch)
    BY <1>2, <1>3 DEF Fresh
  <2>. QED  BY <1>2, <2>1, ServerEffect DEF Fresh
<1>5. CASE wire'[conn] = W
  <2>1. Fresh' /\ InOrder'
    BY <1>1, <1>2, <1>4, <1>5 DEF Fresh, InOrder, Past
  <2>2. ASSUME Told PROVE ~(chan'.conn = conn /\ chan'.ok)
    <3>1. ~(W # <<>> /\ Head(W).kind = "ok")
      BY <1>2, <1>3, <2>2 DEF Told
    <3>. QED  BY <1>2, <2>2, <3>1, ServerEffect DEF Told
  <2>3. Announced'
    BY <1>1, <1>2, <1>5, <2>2 DEF Announced, Told, News
  <2>. QED  BY <2>1, <2>3 DEF Truth
<1>6. CASE wire'[conn] = <<>> /\ chan'.conn # conn
  <2>1. Len(wire'[conn]) = 0
    BY <1>6
  <2>2. Fresh' /\ InOrder'
    BY <1>1, <1>2, <1>4, <2>1 DEF Fresh, InOrder, Past
  <2>3. Announced'
    BY <1>1, <1>2, <1>6, <2>1 DEF Announced, Told, News, InOrder
  <2>. QED  BY <2>2, <2>3 DEF Truth
<1>7. CASE /\ W # <<>> /\ wire'[conn] = Tail(W)
           /\ (Head(W).kind = "failstop" => ~chan'.ok \/ (chan' = chan /\ Head(W).epoch < chan.max))
  <2>0. /\ Len(W) >= 1 /\ Len(wire'[conn]) = Len(W) - 1 /\ Head(W) = W[1] /\ Len(W) \in Nat
        /\ \A i \in 1..Len(wire'[conn]) : wire'[conn][i] = W[i + 1] /\ i + 1 \in 1..Len(W)
    BY <1>2, <1>3, <1>7
  <2>. HIDE DEF W
  <2>1. Fresh'
    BY <1>1, <1>2, <1>4, <2>0 DEF Fresh, Past, W
  <2>2. InOrder'
    <3>1. ASSUME NEW i \in 1..Len(wire'[conn]), NEW j \in 1..Len(wire'[conn]),
                 i < j, wire'[conn][i].kind = "failstop"
          PROVE  wire'[conn][j].kind # "ok"
      <4>1. W[i + 1].kind = "failstop" /\ i + 1 < j + 1 /\ wire'[conn][j] = W[j + 1]
        <5>1. i \in Int /\ j \in Int
          OBVIOUS
        <5>2. wire'[conn][i] = W[i + 1] /\ wire'[conn][j] = W[j + 1]
          BY <2>0
        <5>. QED  BY <3>1, <5>1, <5>2
      <4>2. i + 1 \in 1..Len(W) /\ j + 1 \in 1..Len(W)
        BY <2>0
      <4>. QED  BY <1>2, <4>1, <4>2 DEF InOrder, W
    <3>2. ASSUME NEW i \in 1..Len(wire'[conn]), wire'[conn][i].kind = "failstop"
          PROVE  latched /\ sending.kind # "ok"
      BY <1>2, <2>0, <3>2 DEF InOrder, W
    <3>3. sending.kind = "failstop" => latched
      BY <1>2 DEF InOrder
    <3>. QED  BY <1>1, <3>1, <3>2, <3>3 DEF InOrder
  <2>3. ASSUME Told PROVE Told'
    <3>1. ~(chan'.conn = conn /\ chan'.ok)
      BY <1>2, <2>0, <2>3, ServerEffect DEF Told, W
    <3>. QED  BY <1>1, <2>0, <2>3, <3>1 DEF Told, W
  <2>4. ASSUME W[1] = News PROVE Told'
    <3>1. ~(chan'.conn = conn /\ chan'.ok)
      <4>1. ASSUME chan' = chan, epoch < chan.max, chan.conn = conn, chan.ok PROVE FALSE
        BY <1>2, <4>1 DEF Fresh, Past, Agent, AgentTyped, Net
      <4>. QED  BY <1>7, <2>0, <2>4, <4>1 DEF News
    <3>2. \A i \in 2..Len(W) : W[i].kind # "ok"
      BY <1>2, <2>0, <2>4 DEF InOrder, News, W
    <3>3. sending.kind # "ok"
      BY <1>2, <2>0, <2>4 DEF InOrder, News, W
    <3>. QED  BY <1>1, <2>0, <3>1, <3>2, <3>3 DEF Told
  <2>5. ASSUME NEW i \in 1..Len(W), W[i] = News PROVE i = 1 \/ wire'[conn][i - 1] = News
    BY <2>0, <2>5
  <2>6. Announced'
    <3>1. CASE \E i \in 1..Len(W) : W[i] = News
      <4>1. PICK i \in 1..Len(W) : W[i] = News
        BY <3>1
      <4>2. CASE i = 1
        BY <4>1, <4>2, <2>4 DEF Announced
      <4>3. CASE i # 1
        <5>1. i - 1 \in 1..Len(wire'[conn]) /\ wire'[conn][i - 1] = News
          BY <2>0, <2>5, <4>1, <4>3
        <5>. QED  BY <1>1, <5>1 DEF Announced, News
      <4>. QED  BY <4>2, <4>3
    <3>2. CASE Told
      BY <2>3, <3>2 DEF Announced
    <3>3. CASE ~latched \/ writer # "none" \/ epoch \in queue \/ sending = News
      BY <1>1, <3>3 DEF Announced, News
    <3>. QED  BY <1>2, <3>1, <3>2, <3>3 DEF Announced, W
  <2>. QED  BY <2>1, <2>2, <2>6 DEF Truth
<1>. QED  BY <1>2, <1>5, <1>6, <1>7, ServerEffect

LEMMA TruthStep == Agent /\ Net /\ Truth /\ [Next]_vars => Truth'
<1>. SUFFICES ASSUME Agent, Net, Truth, [Next]_vars PROVE Truth'
  OBVIOUS
<1>1. CASE UNCHANGED vars
  BY <1>1 DEF vars, latch, tasks, net, Truth, Fresh, InOrder, Announced, Told, News, Past
<1>2. CASE ~ConnectToServer /\ ~SendFrame /\ (ChildNext \/ HandleNext \/ StartNext \/ LatchNext \/ HealthNext)
  BY <1>2, AgentIsCalm, CalmTruth DEF Truth
<1>. QED  BY <1>1, <1>2, ConnectTruth, SendTruth, ServerTruth DEF Next

-----------------------------------------------------------------------------
(* The theorems.                                                           *)
IInv == Agent /\ Flags /\ Net /\ Safe /\ Truth

LEMMA IInvInit == Init => IInv
BY AgentInit, FlagsInit, NetInit, SafeInit, TruthInit DEF IInv

LEMMA IInvStep == IInv /\ [Next]_vars => IInv'
BY AgentStep, FlagsStep, NetStep, SafeStep, TruthStep DEF IInv

LEMMA IInvAlways == Spec => []IInv
BY IInvInit, IInvStep, PTL DEF Spec

LEMMA IInvTypes == IInv => TypeOK
BY DEF IInv, Agent, AgentTyped, Flags, Net, TypeOK

(* Files, processes, queues, frames and connections keep their shape; the  *)
(* agent never declares or reports the child's -1 as an epoch              *)
(* (_load_persisted_health).                                               *)
THEOREM TypeCorrect == Spec => []TypeOK
BY IInvAlways, IInvTypes, PTL

(* In a session a sentinel on disk stops new calls, in the parent or in    *)
(* the child, unless it was written between the reading of the files and   *)
(* the start of the next child (run_once, ensure_child).                   *)
THEOREM SentinelStops == Spec => []SentinelHonoured
<1>1. IInv => SentinelHonoured
  BY DEF IInv, Safe, Honoured, SentinelHonoured
<1>. QED  BY <1>1, IInvAlways, PTL

(* No native call starts in a child that has failed to store a report, nor *)
(* under a latched parent, however long ago its request was taken          *)
(* (ChildHandle.request, child_main).                                      *)
THEOREM CallsEndAtTheLatch == Spec => NoCallOnceLatched
<1>1. IInv /\ [Next]_vars =>
        [op # "calling" /\ op' = "calling" => faultGen # gen /\ (latched => unseen = "child")]_vars
  BY CallAllowed DEF IInv
<1>. QED  BY <1>1, IInvAlways, PTL DEF Spec, NoCallOnceLatched

(* The server never believes a latched agent to be ok at its own epoch,    *)
(* over reconnections, late frames and epochs that were lost               *)
(* (note_health, declare_epoch).                                           *)
THEOREM OkIsUnlatched == Spec => []OkMeansUnlatched
<1>1. IInv => OkMeansUnlatched
  BY DEF IInv, Agent, AgentTyped, Truth, Fresh, Past, OkMeansUnlatched, AdmissionReady
<1>. QED  BY <1>1, IInvAlways, PTL

LEMMA NewsIsOut == IInv => LatchAnnounced
<1>. SUFFICES ASSUME IInv, phase = "run", latched, chan.conn = conn, AdmissionReady,
                     writer = "none", epoch \notin queue, sending.kind # "failstop"
              PROVE  \E i \in DOMAIN wire[conn] :
                       wire[conn][i].kind = "failstop" /\ wire[conn][i].epoch >= chan.max
  BY DEF LatchAnnounced
<1>1. chan.ok /\ ~Told /\ sending # News
  BY DEF AdmissionReady, Told, News
<1>2. PICK i \in 1..Len(wire[conn]) : wire[conn][i] = News
  BY <1>1 DEF IInv, Truth, Announced
<1>3. wire[conn] \in Seq(Frame) /\ chan.max \in Nat /\ epoch \in Nat
  BY DEF IInv, Net, Conns, Agent, AgentTyped
<1>4. chan.max <= epoch
  BY <1>1, <1>3 DEF IInv, Truth, Fresh, Past
<1>. QED  BY <1>2, <1>3, <1>4 DEF News

(* As long as the server would admit an order of a latched agent, the news *)
(* is in the writer, the queue, the sender or the wire, and will count     *)
(* (_latch, _health_sender).                                               *)
THEOREM LatchIsAnnounced == Spec => []LatchAnnounced
BY IInvAlways, NewsIsOut, PTL
=============================================================================
