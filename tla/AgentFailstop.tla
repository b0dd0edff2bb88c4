---------------------------- MODULE AgentFailstop ----------------------------
(***************************************************************************)
(* What the agent does when a broker report cannot be stored.  The child   *)
(* process that holds the broker's SDK trips a latch of its own, writes a  *)
(* sentinel file beside the SQLite buffer and tells its parent through a   *)
(* pipe; the parent latches for the rest of its life, numbers the event    *)
(* with a health epoch and tells the server, which must stop admitting     *)
(* orders.  Only a start of the agent process, if it finds the storage     *)
(* usable, removes the sentinel.                                           *)
(*                                                                         *)
(*   child    agent/native_runner.py: callback thread and main loop        *)
(*   parent   agent/runner.py: ChildHandle, AgentRunner and the threads it *)
(*            hands blocking calls to; agent/buffer.py: the files          *)
(*   server   broker/agent_channel.py, broker/agent_registry.py,           *)
(*            web/routers/agent_ws.py                                      *)
(*                                                                         *)
(* Child, parent, server and file writes interleave freely; what the       *)
(* parent's event loop does between two awaits is one step.  A file that   *)
(* cannot be read, or whose epoch is the child's -1, has the same effect   *)
(* on a reader and is one value.  A child ends with its parent, for its    *)
(* recv fails; but one that has a command when the parent is killed lives  *)
(* until the call returns, and its callback thread with it.                *)
(***************************************************************************)
EXTENDS Integers, Sequences, FiniteSets

CONSTANTS
  MaxGens,       \* bound: children one agent process starts
  MaxSessions,   \* bound: WebSocket connections
  MaxFaults,     \* bound: reports that cannot be stored
  MaxRestarts,   \* bound: restarts of the agent process
  MaxWire        \* bound: frames on a wire when another is sent

ASSUME BoundsAssumption ==
  /\ MaxGens \in Nat /\ MaxSessions \in Nat /\ MaxFaults \in Nat
  /\ MaxRestarts \in Nat /\ MaxWire \in Nat

VARIABLES
  (* files *)
  sentinel,  \* the epoch in <buffer>.failstop, Placeholder or Absent
  meta,      \* health_epoch in the buffer's meta table
  orphan,    \* who else writes them: the child of a killed parent in its last
             \* call; none, calling, sentinel (a failed write left to report)
  (* child process *)
  gen,       \* generation of the newest child; 0 before the first
  live,      \* generations whose process is alive
  tripped,   \* ChildFailstopLatch of the newest child
  cb,        \* its callback thread: idle, or what a failed write still has to do
  op,        \* the mutating command in its main loop: none, sent, calling
  (* ChildHandle *)
  handle,    \* is _process set?
  poisoned,  \* _poisoned
  pipe,      \* failstop notices not yet read
  req,       \* the thread that carries a command: none, queued, waiting
  reqGen,    \* the generation that thread noted
  (* AgentRunner *)
  phase,     \* boot, clearing, off, loaded, starting, ready, run, stopped
  acct,      \* is _account set?
  latched, epoch,
  notice,    \* generation of the notice the watchdog holds; 0 for none
  writer,    \* who is inside _latch: none, watchdog, ping
  writing,   \* the epoch it is writing to the sentinel
  stray,     \* the epoch a cancelled _latch's thread still writes; 0 for none
  queue,     \* epochs in _health_queue
  sending,   \* the frame between _health_sender's check and its send
  (* connections and server *)
  conn,      \* the agent's newest connection; 0 before the first
  wire,      \* [Conns -> frames sent and not yet received]
  hand,      \* [Conns -> state of the server's handler]
  chan,      \* AgentChannel: attached connection, logged_in, confirmed ok, max epoch
  (* history and bounds *)
  faultGen,  \* the last child of this process that failed to store a report
  unseen,    \* no; file: written since run_once read the files; child: and a child
             \* may run that does not know of it
  faults, restarts

files    == <<sentinel, meta, orphan>>
child    == <<gen, live, tripped, cb, op>>
rpc      == <<handle, poisoned, pipe, req, reqGen>>
latch    == <<latched, epoch>>
tasks    == <<notice, writer, writing, stray, queue, sending>>
net      == <<conn, wire, hand, chan>>
history  == <<faultGen, unseen, faults, restarts>>
vars     == <<files, child, rpc, phase, acct, latch, tasks, net, history>>

Absent == -2
Placeholder == -1
Conns == 1..MaxSessions
Frame == [kind : {"login", "ok", "failstop"}, epoch : Nat]
NoFrame == [kind |-> "none", epoch |-> 0]
NoChannel == [conn |-> 0, in |-> FALSE, ok |-> FALSE, max |-> 0]

Larger(a, b) == IF a > b THEN a ELSE b

Init ==
  /\ sentinel = Absent /\ meta = 0 /\ orphan = "none"
  /\ gen = 0 /\ live = {} /\ tripped = FALSE /\ cb = "idle" /\ op = "none"
  /\ handle = FALSE /\ poisoned = FALSE /\ pipe = 0 /\ req = "none" /\ reqGen = 0
  /\ phase = "boot" /\ acct = FALSE /\ latched = FALSE /\ epoch = 0
  /\ notice = 0 /\ writer = "none" /\ writing = 0 /\ stray = 0
  /\ queue = {} /\ sending = NoFrame
  /\ conn = 0 /\ wire = [c \in Conns |-> <<>>] /\ hand = [c \in Conns |-> "none"]
  /\ chan = NoChannel
  /\ faultGen = 0 /\ unseen = "no" /\ faults = 0 /\ restarts = 0

(***************************************************************************)
(* The child: its callback thread, and the main loop that executes         *)
(* commands.                                                               *)
(***************************************************************************)
(* buffer.append fails in a callback.  The latch trips before anything     *)
(* else is attempted.                                                      *)
WriteFails ==
  /\ gen \in live /\ cb = "idle" /\ faults < MaxFaults
  /\ tripped' = TRUE /\ cb' = "sentinel"
  /\ faultGen' = gen /\ faults' = faults + 1
  /\ UNCHANGED <<files, gen, live, op, rpc, phase, acct, latch, tasks, net, unseen, restarts>>

(* The degraded write (no effect here), then the sentinel; both may fail.  *)
ChildWritesSentinel ==
  /\ cb = "sentinel" /\ cb' = "notify"
  /\ \/ UNCHANGED <<sentinel, unseen>>
     \/ /\ sentinel' = Placeholder
        /\ unseen' = IF phase = "loaded" /\ ~latched THEN "file" ELSE unseen
  /\ UNCHANGED <<meta, orphan, gen, live, tripped, op, rpc, phase, acct, latch, tasks, net,
                 faultGen, faults, restarts>>

(* The notice to the parent; it may fail too.                              *)
ChildNotifies ==
  /\ cb = "notify" /\ cb' = "idle"
  /\ pipe' \in {pipe, pipe + 1}
  /\ UNCHANGED <<files, gen, live, tripped, op, handle, poisoned, req, reqGen, phase, acct,
                 latch, tasks, net, history>>

(* The child takes the command off its pipe and looks at its latch just    *)
(* before the native call.  Its reply reaches the thread, if one still     *)
(* waits.                                                                  *)
Answered == req' = IF req = "waiting" THEN "none" ELSE req

ChildDispatches ==
  /\ op = "sent" /\ gen \in live
  /\ \/ ~tripped /\ op' = "calling" /\ UNCHANGED req
     \/ tripped /\ op' = "none" /\ Answered
  /\ UNCHANGED <<files, gen, live, tripped, cb, handle, poisoned, pipe, reqGen, phase, acct,
                 latch, tasks, net, history>>

CallReturns ==
  /\ op = "calling" /\ op' = "none" /\ Answered
  /\ UNCHANGED <<files, gen, live, tripped, cb, handle, poisoned, pipe, reqGen, phase, acct,
                 latch, tasks, net, history>>

(* The process ends by itself, or long after a kill.  The handle stays.    *)
ChildDies ==
  /\ gen \in live
  /\ live' = live \ {gen} /\ cb' = "idle" /\ op' = "none"
  /\ UNCHANGED <<files, gen, tripped, rpc, phase, acct, latch, tasks, net, history>>

(* The orphan is heard by nobody: what its callback thread fails to store  *)
(* ends in the sentinel, at any time until the call returns.               *)
OrphanFails ==
  /\ orphan = "calling" /\ faults < MaxFaults
  /\ orphan' = "sentinel" /\ faults' = faults + 1
  /\ UNCHANGED <<sentinel, meta, child, rpc, phase, acct, latch, tasks, net, faultGen, unseen,
                 restarts>>

OrphanWrites ==
  /\ orphan = "sentinel" /\ orphan' = "calling"
  /\ \/ UNCHANGED <<sentinel, unseen>>
     \/ /\ sentinel' = Placeholder
        /\ unseen' = IF ~latched /\ phase \notin {"boot", "clearing"} THEN "child" ELSE unseen
  /\ UNCHANGED <<meta, child, rpc, phase, acct, latch, tasks, net, faultGen, faults, restarts>>

OrphanEnds ==
  /\ orphan # "none" /\ orphan' = "none"
  /\ UNCHANGED <<sentinel, meta, child, rpc, phase, acct, latch, tasks, net, history>>

(***************************************************************************)
(* ChildHandle.                                                            *)
(***************************************************************************)
ProcessAlive == handle /\ gen \in live
Alive == ~poisoned /\ ProcessAlive

(* terminate(): kill, wait five seconds, look.  If the process is still    *)
(* there, nothing is cleared.  Returns whether it is dead.                 *)
Terminate(dead) ==
  IF dead
  THEN /\ handle' = FALSE /\ pipe' = 0
       /\ live' = IF handle THEN live \ {gen} ELSE live
       /\ cb' = IF handle THEN "idle" ELSE cb
       /\ op' = IF handle THEN "none" ELSE op
  ELSE ProcessAlive /\ UNCHANGED <<handle, pipe, live, cb, op>>

(* A command passes the parent's own latch check; a thread takes it to the *)
(* child and notes the generation it is meant for.                         *)
TakeCommand ==
  /\ phase = "run" /\ ~latched /\ req = "none"
  /\ req' = "queued" /\ reqGen' = gen
  /\ UNCHANGED <<files, child, handle, poisoned, pipe, phase, acct, latch, tasks, net, history>>

(* Mutant: no generation fence.                                            *)
UsableUnfenced == ~poisoned /\ handle

(* The thread gets the lock, which start() holds while it connects.        *)
Usable == reqGen = gen /\ ~poisoned /\ handle

SendCommand ==
  /\ req = "queued" /\ phase # "starting"
  /\ \/ /\ Usable /\ gen \in live
        /\ op' = "sent" /\ req' = "waiting"
        /\ UNCHANGED <<live, cb, handle, poisoned, pipe>>
     \/ /\ Usable /\ gen \notin live
        /\ poisoned' = TRUE /\ req' = "none" /\ Terminate(TRUE)
     \/ /\ ~Usable /\ req' = "none"
        /\ UNCHANGED <<live, cb, op, handle, poisoned, pipe>>
  /\ reqGen' = 0
  /\ UNCHANGED <<files, gen, tripped, phase, acct, latch, tasks, net, history>>

(* No reply in time, or the pipe broke: the pipe is poisoned and the child *)
(* terminated, still under the lock.  The request is the command, or a     *)
(* query or ping whose thread may have outlived its session.  (In phases   *)
(* loaded and ready the effect is that of a timeout just before or after.) *)
RequestTimesOut(dead) ==
  /\ \/ req = "waiting" /\ req' = "none"
     \/ req # "waiting" /\ phase \in {"off", "run"} /\ handle /\ ~poisoned
        /\ UNCHANGED req
  /\ poisoned' = TRUE /\ Terminate(dead)
  /\ UNCHANGED <<files, gen, tripped, reqGen, phase, acct, latch, tasks, net, history>>

(***************************************************************************)
(* AgentRunner: start of the process, start of a session.                  *)
(***************************************************************************)
(* Mutants: the session trusts what it remembers; the file's epoch is      *)
(* taken as it is.                                                         *)
TrustsMemory(l) == l
FileEpoch == IF sentinel # Absent THEN sentinel ELSE meta

(* _load_persisted_health: a sentinel latches; no sentinel does not        *)
(* unlatch.                                                                *)
LoadedLatch(l) == l \/ sentinel # Absent
LoadedEpoch == Larger(sentinel, meta)

(* The process ends, by a crash or by hand, and is started again: the      *)
(* constructor reads the files.  A child that has a command may outlive    *)
(* its parent; one such orphan is followed at a time.  A restart that      *)
(* leaves none and follows no fault is not explored: the agent then starts *)
(* as it did the first time.                                               *)
Orphaned == IF cb = "sentinel" THEN "sentinel" ELSE "calling"

AgentRestarts ==
  /\ restarts < MaxRestarts /\ restarts' = restarts + 1
  /\ orphan' \in {orphan} \cup {Orphaned : c \in {op} \ {"none"}}
  /\ 0 < faults \/ orphan' # "none"
  /\ gen' = 0 /\ live' = {} /\ tripped' = FALSE /\ cb' = "idle" /\ op' = "none"
  /\ handle' = FALSE /\ poisoned' = FALSE /\ pipe' = 0 /\ req' = "none" /\ reqGen' = 0
  /\ phase' = "boot" /\ acct' = FALSE
  /\ latched' = LoadedLatch(FALSE) /\ epoch' = LoadedEpoch
  /\ notice' = 0 /\ writer' = "none" /\ writing' = 0 /\ stray' = 0
  /\ queue' = {} /\ sending' = NoFrame
  /\ faultGen' = 0 /\ unseen' = "no"
  /\ UNCHANGED <<sentinel, meta, net, faults>>

(* _startup_recovery_probe.  Not latched, a failed probe, or a failed      *)
(* set_health_epoch: go on as constructed.                                 *)
StartUnchanged ==
  /\ phase = "boot" /\ phase' = "off"
  /\ UNCHANGED <<files, child, rpc, acct, latch, tasks, net, history>>

ProbePasses ==
  /\ phase = "boot" /\ latched
  /\ meta' = epoch /\ phase' = "clearing"
  /\ UNCHANGED <<sentinel, orphan, child, rpc, acct, latch, tasks, net, history>>

(* clear_sentinel; if that fails the latch stays.                          *)
ClearSentinel ==
  /\ phase = "clearing" /\ phase' = "off"
  /\ \/ sentinel' = Absent /\ latched' = FALSE
     \/ UNCHANGED <<sentinel, latched>>
  /\ UNCHANGED <<meta, orphan, child, rpc, acct, epoch, tasks, net, history>>

(* run_once reads the files again ...                                      *)
LoadHealth ==
  /\ phase = "off" /\ conn < MaxSessions
  /\ phase' = "loaded"
  /\ latched' = LoadedLatch(latched) /\ epoch' = LoadedEpoch
  /\ unseen' = IF unseen = "file" THEN "no" ELSE unseen
  /\ UNCHANGED <<files, child, rpc, acct, tasks, net, faultGen, faults, restarts>>

(* ... and makes sure of a child.  Property `alive' waits for a command    *)
(* that holds the lock.                                                    *)
KeepChild ==
  /\ phase = "loaded" /\ req # "waiting"
  /\ Alive /\ acct
  /\ phase' = "ready"
  /\ UNCHANGED <<files, child, rpc, acct, latch, tasks, net, history>>

(* Mutant: `alive', which is false of a poisoned child, decides the kill.  *)
SurvivorsByAlive == IF Alive THEN live \ {gen} ELSE live

(* The processes left when start() is called.                              *)
Survivors == IF ProcessAlive THEN live \ {gen} ELSE live

StartChild ==
  /\ phase = "loaded" /\ req # "waiting"
  /\ ~(Alive /\ acct) /\ gen < MaxGens
  /\ phase' = "starting"
  /\ gen' = gen + 1
  /\ live' = Survivors \cup {gen + 1}
  /\ tripped' = FALSE /\ cb' = "idle" /\ op' = "none"
  /\ handle' = TRUE /\ poisoned' = FALSE /\ pipe' = 0
  /\ unseen' = IF unseen # "no" /\ ~latched THEN "child" ELSE "no"
  /\ UNCHANGED <<files, req, reqGen, acct, latch, tasks, net, faultGen, faults, restarts>>

(* The old child cannot be killed: a fatal error stops the agent.          *)
CannotKill ==
  /\ phase = "loaded" /\ req # "waiting"
  /\ ~(Alive /\ acct) /\ ProcessAlive
  /\ phase' = "stopped"
  /\ UNCHANGED <<files, child, rpc, acct, latch, tasks, net, history>>

ChildConnects ==
  /\ phase = "starting" /\ gen \in live
  /\ phase' = "ready" /\ acct' = TRUE
  /\ UNCHANGED <<files, child, rpc, latch, tasks, net, history>>

(* No answer: poison and terminate.  A refusal: terminate, whether that    *)
(* succeeds or not.  Another account: the agent stops.                     *)
ConnectFails(dead) ==
  /\ phase = "starting"
  /\ Terminate(dead)
  /\ \/ poisoned' = TRUE /\ phase' = "off"
     \/ gen \in live /\ UNCHANGED poisoned /\ phase' \in {"off", "stopped"}
  /\ UNCHANGED <<files, gen, tripped, req, reqGen, acct, latch, tasks, net, history>>

ConnectToServer ==
  /\ phase = "ready"
  /\ \/ /\ phase' = "run" /\ conn' = conn + 1
        /\ wire' = [wire EXCEPT ![conn + 1] = <<[kind |-> "login", epoch |-> epoch]>>]
        /\ hand' = [hand EXCEPT ![conn + 1] = "new"]
        /\ queue' = queue \cup {epoch}
     \/ /\ phase' = "off"
        /\ UNCHANGED <<conn, wire, hand, queue>>
  /\ UNCHANGED <<files, child, rpc, acct, latch, notice, writer, writing, stray, sending, chan,
                 history>>

(* The session's tasks are cancelled; a thread that is writing the         *)
(* sentinel is not, and a notice a thread has read is lost.                *)
EndSession ==
  /\ notice' = 0 /\ sending' = NoFrame /\ writer' = "none" /\ writing' = 0
  /\ stray' = IF writer = "none" THEN stray ELSE writing

SessionLost ==
  /\ phase = "run" /\ phase' = "off" /\ EndSession
  /\ UNCHANGED <<files, child, rpc, acct, latch, queue, net, history>>

(***************************************************************************)
(* The watchdogs and _latch.                                               *)
(***************************************************************************)
(* poll_failstop, in a thread.                                             *)
NoticeRead ==
  /\ phase = "run" /\ pipe > 0 /\ notice = 0 /\ writer # "watchdog"
  /\ pipe' = pipe - 1 /\ notice' = gen
  /\ UNCHANGED <<files, child, handle, poisoned, req, reqGen, phase, acct, latch, writer,
                 writing, stray, queue, sending, net, history>>

(* The thread of a cancelled watchdog reads a notice for nobody.           *)
NoticeLost ==
  /\ phase = "off" /\ pipe > 0 /\ pipe' = pipe - 1
  /\ UNCHANGED <<files, child, handle, poisoned, req, reqGen, phase, acct, latch, tasks, net,
                 history>>

(* Mutant: the latch does not count as an event of its own.                *)
SameEpoch == epoch

NextEpoch == epoch + 1

BeginLatch(who) ==
  /\ writer = "none" /\ writer' = who
  /\ latched' = TRUE /\ epoch' = NextEpoch /\ writing' = NextEpoch
  /\ UNCHANGED <<files, child, rpc, phase, acct, stray, queue, sending, net, history>>

LatchOnNotice ==
  /\ phase = "run" /\ notice = gen /\ notice # 0 /\ notice' = 0
  /\ BeginLatch("watchdog")

(* The ping finds the child's latch tripped.                               *)
LatchOnPing ==
  /\ phase = "run" /\ req # "waiting" /\ Alive /\ tripped /\ UNCHANGED notice
  /\ BeginLatch("ping")

(* Mutant: the latch waits for the next heartbeat to be told.              *)
LeftToHeartbeat(e) == queue

Enqueued(e) == queue \cup {e}

(* write_sentinel returns and the lock is released.  The ping's watchdog   *)
(* then declares the child frozen: run_forever terminates it, or stops.    *)
SentinelWritten(dead) ==
  /\ writer # "none" /\ (writer = "ping" => req # "waiting")
  /\ sentinel' = writing /\ queue' = Enqueued(writing)
  /\ IF writer = "ping"
     THEN /\ Terminate(dead)
          /\ phase' = IF dead THEN "off" ELSE "stopped"
          /\ notice' = 0 /\ sending' = NoFrame
     ELSE /\ dead
          /\ UNCHANGED <<live, cb, op, handle, pipe, phase, notice, sending>>
  /\ writer' = "none" /\ writing' = 0
  /\ UNCHANGED <<meta, orphan, gen, tripped, poisoned, req, reqGen, acct, latch, stray, net,
                 history>>

(* write_sentinel raises: the session ends, nothing is enqueued.           *)
SentinelFails ==
  /\ writer # "none"
  /\ phase' = "off"
  /\ notice' = 0 /\ sending' = NoFrame /\ writer' = "none" /\ writing' = 0
  /\ UNCHANGED <<files, child, rpc, acct, latch, stray, queue, net, history>>

StrayWrite ==
  /\ stray # 0 /\ stray' = 0
  /\ sentinel' \in {sentinel, stray}
  /\ UNCHANGED <<meta, orphan, child, rpc, phase, acct, latch, notice, writer, writing, queue,
                 sending, net, history>>

(* The ping fails, or its pipe is already poisoned: poison, terminate, and *)
(* the session ends with the child frozen.                                 *)
PingFails(dead) ==
  /\ phase = "run" /\ req # "waiting" /\ writer # "ping"
  /\ poisoned' = TRUE /\ Terminate(dead)
  /\ phase' = IF dead THEN "off" ELSE "stopped"
  /\ EndSession
  /\ UNCHANGED <<files, gen, tripped, req, reqGen, acct, latch, queue, net, history>>

(***************************************************************************)
(* Health reports.                                                         *)
(***************************************************************************)
(* A heartbeat, or the server asks.                                        *)
Heartbeat ==
  /\ phase = "run" /\ epoch \notin queue
  /\ queue' = queue \cup {epoch}
  /\ UNCHANGED <<files, child, rpc, phase, acct, latch, notice, writer, writing, stray, sending,
                 net, history>>

(* The sender takes an entry and, under the lock, drops it if it is stale  *)
(* or makes a frame of what holds now.                                     *)
TakeFrame(e) ==
  /\ phase = "run" /\ writer = "none" /\ sending = NoFrame /\ e \in queue
  /\ queue' = queue \ {e}
  /\ sending' = IF e # epoch THEN NoFrame
                ELSE [kind |-> IF latched THEN "failstop" ELSE "ok", epoch |-> epoch]
  /\ UNCHANGED <<files, child, rpc, phase, acct, latch, notice, writer, writing, stray, net,
                 history>>

SendFrame ==
  /\ phase = "run" /\ sending # NoFrame
  /\ Len(wire[conn]) < MaxWire /\ hand[conn] # "end"
  /\ wire' = [wire EXCEPT ![conn] = Append(@, sending)] /\ sending' = NoFrame
  /\ UNCHANGED <<files, child, rpc, phase, acct, latch, notice, writer, writing, stray, queue,
                 conn, hand, chan, history>>

(***************************************************************************)
(* The server.                                                             *)
(***************************************************************************)
agentVars == <<files, child, rpc, phase, acct, latch, tasks, conn, history>>

(* A connection that has passed authentication replaces the one attached.  *)
(* The largest epoch means nothing until it has logged in.                 *)
Attach(c) ==
  /\ hand[c] = "new" /\ hand' = [hand EXCEPT ![c] = "on"]
  /\ chan' = [conn |-> c, in |-> chan.conn = 0 /\ chan.in, ok |-> FALSE, max |-> 0]
  /\ UNCHANGED <<agentVars, wire>>

(* detach(generation): of the attached connection only.                    *)
Detached(c) ==
  IF chan.conn = c THEN [chan EXCEPT !.conn = 0, !.in = FALSE, !.ok = FALSE, !.max = 0] ELSE chan

Hangup(c) ==
  /\ hand' = [hand EXCEPT ![c] = "end"] /\ wire' = [wire EXCEPT ![c] = <<>>]
  /\ chan' = Detached(c)
  /\ UNCHANGED agentVars

HandlerEnds(c) == hand[c] \in {"new", "on"} /\ Hangup(c)

(* A superseded handler leaves at its next message.                        *)
Superseded(c) == hand[c] = "on" /\ wire[c] # <<>> /\ chan.conn # c /\ Hangup(c)

(* A login is checked in a thread, one at a time (inbox_lock).  Then it is *)
(* refused, or declares the epoch of the channel - of whichever connection *)
(* is attached by then.                                                    *)
BeginLogin(c) ==
  /\ hand[c] = "on" /\ chan.conn = c /\ wire[c] # <<>> /\ Head(wire[c]).kind = "login"
  /\ hand' = [hand EXCEPT ![c] = "login"]
  /\ UNCHANGED <<agentVars, wire, chan>>

LoginChecked(c) ==
  /\ hand[c] = "login" /\ \A d \in Conns : hand[d] = "login" => c <= d
  /\ \/ Hangup(c)
     \/ /\ chan' = [conn |-> chan.conn, in |-> TRUE, ok |-> FALSE, max |-> Head(wire[c]).epoch]
        /\ wire' = [wire EXCEPT ![c] = Tail(@)] /\ hand' = [hand EXCEPT ![c] = "on"]
        /\ UNCHANGED agentVars

Stale(f) == f.epoch < chan.max

(* note_health ignores an epoch below the largest seen.                    *)
ReceiveHealth(c) ==
  /\ hand[c] = "on" /\ chan.conn = c /\ wire[c] # <<>> /\ Head(wire[c]).kind # "login"
  /\ LET f == Head(wire[c]) IN
       chan' = IF Stale(f) THEN chan
               ELSE [chan EXCEPT !.ok = f.kind = "ok", !.max = f.epoch]
  /\ wire' = [wire EXCEPT ![c] = Tail(@)]
  /\ UNCHANGED <<agentVars, hand>>

(* run_health_lease_watchdog: no ok for longer than the lease.             *)
LeaseExpires ==
  /\ chan.ok /\ chan' = [chan EXCEPT !.ok = FALSE]
  /\ UNCHANGED <<agentVars, wire, hand>>

(* admission_ready: what place and update ask before they write a row.     *)
AdmissionReady == chan.conn # 0 /\ chan.in /\ chan.ok

-----------------------------------------------------------------------------

ChildNext ==
  \/ WriteFails \/ ChildWritesSentinel \/ ChildNotifies
  \/ ChildDispatches \/ CallReturns \/ ChildDies
  \/ OrphanFails \/ OrphanWrites \/ OrphanEnds

HandleNext ==
  \/ TakeCommand \/ SendCommand
  \/ \E dead \in BOOLEAN : RequestTimesOut(dead)

StartNext ==
  \/ AgentRestarts \/ StartUnchanged \/ ProbePasses \/ ClearSentinel
  \/ LoadHealth \/ KeepChild \/ StartChild \/ CannotKill \/ ChildConnects
  \/ \E dead \in BOOLEAN : ConnectFails(dead)
  \/ ConnectToServer \/ SessionLost

LatchNext ==
  \/ NoticeRead \/ NoticeLost \/ LatchOnNotice \/ LatchOnPing
  \/ \E dead \in BOOLEAN : SentinelWritten(dead) \/ PingFails(dead)
  \/ SentinelFails \/ StrayWrite

HealthNext ==
  \/ Heartbeat \/ SendFrame
  \/ \E e \in queue : TakeFrame(e)

ServerNext ==
  \/ \E c \in Conns : \/ Attach(c) \/ HandlerEnds(c) \/ Superseded(c)
                      \/ BeginLogin(c) \/ LoginChecked(c)
                      \/ ReceiveHealth(c)
  \/ LeaseExpires

Next == ChildNext \/ HandleNext \/ StartNext \/ LatchNext \/ HealthNext \/ ServerNext

Spec == Init /\ [][Next]_vars

-----------------------------------------------------------------------------

(* Every file, process, queue, frame and connection keeps its shape; in    *)
(* particular the agent never declares or reports the child's -1 as an     *)
(* epoch.                                                                  *)
TypeOK ==
  /\ sentinel \in Nat \cup {Absent, Placeholder} /\ meta \in Nat
  /\ orphan \in {"none", "calling", "sentinel"}
  /\ gen \in Nat /\ live \subseteq 1..gen /\ tripped \in BOOLEAN
  /\ cb \in {"idle", "sentinel", "notify"} /\ op \in {"none", "sent", "calling"}
  /\ handle \in BOOLEAN /\ poisoned \in BOOLEAN /\ pipe \in Nat
  /\ req \in {"none", "queued", "waiting"} /\ reqGen \in Nat
  /\ phase \in {"boot", "clearing", "off", "loaded", "starting", "ready", "run", "stopped"}
  /\ acct \in BOOLEAN /\ latched \in BOOLEAN /\ epoch \in Nat
  /\ notice \in Nat /\ writer \in {"none", "watchdog", "ping"}
  /\ writing \in Nat /\ stray \in Nat
  /\ queue \subseteq Nat /\ sending \in Frame \cup {NoFrame}
  /\ conn \in 0..MaxSessions /\ wire \in [Conns -> Seq(Frame)]
  /\ hand \in [Conns -> {"none", "new", "on", "login", "end"}]
  /\ chan \in [conn : 0..MaxSessions, in : BOOLEAN, ok : BOOLEAN, max : Nat]
  /\ faultGen \in Nat /\ unseen \in {"no", "file", "child"} /\ faults \in Nat /\ restarts \in Nat

(* Two children of one agent process never run at once on one buffer and   *)
(* one broker account, however kills fail and whatever the pipe's state    *)
(* (ensure_child, N9-1).  Nobody waits for the orphan of a killed agent.   *)
OneChild == Cardinality(live) <= 1

(* While a session runs, a sentinel on disk means that no new mutating     *)
(* call can start: the parent is latched or the child itself is tripped.   *)
(* The exception is named: it was written after run_once read the file, by *)
(* the orphan of a killed agent, or by a child before its successor began. *)
SentinelHonoured == phase = "run" /\ sentinel # Absent => latched \/ tripped \/ unseen = "child"

(* A native call never starts in a child that has failed to store a        *)
(* report, nor under a latched parent - not even for a request that was    *)
(* taken before the latch and waited for the lock since (same exception).  *)
NoCallOnceLatched ==
  [][op # "calling" /\ op' = "calling" => faultGen # gen /\ (latched => unseen = "child")]_vars

(* The server is never ready on the agent's current epoch while the agent  *)
(* is latched: epochs separate what was true before the latch from what    *)
(* is true after it, across reconnections and epochs that were lost.       *)
OkMeansUnlatched ==
  phase = "run" /\ chan.conn = conn /\ AdmissionReady /\ chan.max = epoch => ~latched

(* While the server still admits orders of a latched agent's session, the  *)
(* news is on its way: being written, queued, in the sender or on the wire *)
(* with an epoch the server will not ignore.                               *)
LatchAnnounced ==
  phase = "run" /\ latched /\ chan.conn = conn /\ AdmissionReady =>
    \/ writer # "none" \/ epoch \in queue
    \/ sending.kind = "failstop"
    \/ \E i \in DOMAIN wire[conn] :
         wire[conn][i].kind = "failstop" /\ wire[conn][i].epoch >= chan.max
=============================================================================
