---------------------------- MODULE WorkerBridge ----------------------------
(***************************************************************************)
(* One worker process and the task that drives it: the worker bridge       *)
(* (src/agent.rs) with the worker (src/worker.rs) at the other end of its  *)
(* pipes, or, for a sandboxed job, the capsule task (src/capsule.rs).      *)
(*                                                                         *)
(* Four processes: whoever holds a handle (the daemon, and every chat that *)
(* waits for its answer, with a clone), the task, the child, and the pipes *)
(* between the last two.  The queues hold 64 entries or more in the code,  *)
(* which nobody gets near; they have no limit here.                        *)
(***************************************************************************)
EXTENDS Naturals, Sequences, FiniteSets

CONSTANTS
  Kinds,      \* which uses of a worker to look at
  Chats,      \* UserMessage with a reply channel
  Closing,    \* those of them that ask a participant for its closing words
  Notices,    \* UserMessage without one: setup prompts, notices
  Routed,     \* ChannelMessage
  Jobs,       \* JobExecute, or the job specification of a capsule
  Stops,      \* Stop
  MaxCrashes  \* bound: children that die, pipes that break

ASSUME BridgeAssumption ==
  /\ Kinds \subseteq {"agent", "job", "participant", "capsule"}
  /\ Closing \subseteq Chats
  /\ MaxCrashes \in Nat
  /\ {"new", "asked", "gone", "error"} \cap (Chats \cup Notices \cup Routed \cup Jobs \cup Stops) = {}

Requests == Chats \cup Notices \cup Routed \cup Jobs \cup Stops

VARIABLES
  kind,     \* what this worker is for
  held,     \* the daemon has the handle
  reply,    \* per request: "new", "asked", "gone", "error" or whose answer it got
  cmdq,     \* cmd_tx .. cmd_rx
  bridge,   \* the task: "starting", "running", "waiting" (for the child), "done"
  counter,  \* req_counter
  pending,  \* chats that wait: [id, by]
  routes,   \* pending_channel: [id, by]
  child,    \* "none", "building", "idle", "busy", "ended" (exit code 0), "dead"
  hand,     \* the command the child is at
  stdin, stdout,
  status,   \* the last AgentStateUpdate
  reports,  \* what the orchestrator was told
  crashes

daemonVars == <<kind, held>>
taskVars == <<bridge, counter, pending, routes>>
childVars == <<child, hand>>
vars == <<kind, held, reply, cmdq, bridge, counter, pending, routes, child, hand,
          stdin, stdout, status, reports, crashes>>

Nobody == [of |-> "nobody", id |-> 0]

\* The commands each use of a worker may be sent.
Sendable ==
  Stops \cup (CASE kind = "agent"       -> Chats
                [] kind = "job"         -> Jobs
                [] kind = "participant" -> Closing \cup Notices \cup Routed
                [] kind = "capsule"     -> Notices \cup Routed)

Init ==
  /\ kind \in Kinds
  /\ held = TRUE
  /\ reply = [r \in Requests |-> "new"]
  /\ cmdq = <<>>
  /\ bridge = "starting"
  /\ counter = 0 /\ pending = {} /\ routes = {}
  /\ child = "none" /\ hand = Nobody
  /\ stdin = <<>> /\ stdout = <<>>
  /\ status = "none"
  /\ reports = <<>>
  /\ crashes = 0

Alive == child \in {"building", "idle", "busy"}

\* The chats among the requests of R, whose reply channel is dropped, fail.
FailChats(R) ==
  [r \in Requests |-> IF r \in R \cap Chats /\ reply[r] = "asked" THEN "error" ELSE reply[r]]

Entries(q) == {q[i] : i \in DOMAIN q}
Waiting == {p.by : p \in pending}

-----------------------------------------------------------------------------
(* Holders of the handle.                                                  *)

\* A command goes into the queue, or back to the sender when the task is gone.
Send(r) ==
  /\ held
  /\ r \in Sendable
  /\ reply[r] = "new"
  /\ IF bridge = "done"
     THEN reply' = [reply EXCEPT ![r] = "error"] /\ UNCHANGED cmdq
     ELSE reply' = [reply EXCEPT ![r] = "asked"] /\ cmdq' = Append(cmdq, r)
  /\ UNCHANGED <<daemonVars, taskVars, childVars, stdin, stdout, status, reports, crashes>>

\* The client of a chat disconnects, or closing words take over 45 s.
GiveUp(c) ==
  /\ reply[c] = "asked"
  /\ reply' = [reply EXCEPT ![c] = "gone"]
  /\ UNCHANGED <<daemonVars, cmdq, taskVars, childVars, stdin, stdout, status, reports, crashes>>

Terminal(e) == e.type \in {"job_completed", "job_failed"}

\* The daemon drops its entry: after Stop, after a report on the job, or, for an
\* agent, after a status that lets it be started anew.
DropHandle ==
  /\ held
  /\ \/ \E s \in Stops : reply[s] # "new"
     \/ \E e \in Entries(reports) : Terminal(e)
     \/ kind = "agent" /\ status \in {"Stopped", "Error"}
  /\ held' = FALSE
  /\ UNCHANGED <<kind, reply, cmdq, taskVars, childVars, stdin, stdout, status, reports, crashes>>

\* No sender is left and the queue is drained: recv gives None.
Closed == ~held /\ cmdq = <<>> /\ \A c \in Chats : reply[c] # "asked"

-----------------------------------------------------------------------------
(* The worker bridge.                                                      *)

SpawnChild ==
  /\ kind # "capsule"
  /\ bridge = "starting"
  /\ bridge' = "running"
  /\ child' = "building"
  /\ status' = "Starting"
  /\ UNCHANGED <<daemonVars, reply, cmdq, counter, pending, routes, hand, stdin, stdout,
                 reports, crashes>>

SpawnFails ==
  /\ kind # "capsule"
  /\ bridge = "starting"
  /\ crashes < MaxCrashes
  /\ bridge' = "done"
  /\ status' = "Error"
  /\ reply' = FailChats(Entries(cmdq))
  /\ cmdq' = <<>>
  /\ crashes' = crashes + 1
  /\ UNCHANGED <<daemonVars, counter, pending, routes, childVars, stdin, stdout, reports>>

\* The end of the select loop: requests still pending fail, those queued stay.
LeaveLoop(left) ==
  /\ bridge' = "waiting"
  /\ reply' = FailChats(left)
  /\ pending' = {}

\* Faulty: chats with a reply channel do not count.
UncountedId(r) == IF r \in Notices \cup Routed THEN counter + 1 ELSE counter

\* The id a command is written with; chats of all three sorts are numbered.
RequestId(r) == IF r \in Chats \cup Notices \cup Routed THEN counter + 1 ELSE counter

\* The command is written to the child.  A line that does not fit the buffer
\* shows that the child is gone, a short one does not.
ForwardCommand ==
  /\ kind # "capsule"
  /\ bridge = "running"
  /\ cmdq # <<>>
  /\ cmdq' = Tail(cmdq)
  /\ LET r == Head(cmdq)
         waits == IF r \in Chats THEN {[id |-> RequestId(r), by |-> r]} ELSE {}
     IN  /\ counter' = RequestId(r)
         /\ routes' = routes \cup (IF r \in Routed THEN {[id |-> RequestId(r), by |-> r]} ELSE {})
         /\ \/ /\ stdin' = IF Alive THEN Append(stdin, [of |-> r, id |-> RequestId(r)]) ELSE stdin
               /\ pending' = pending \cup waits
               /\ UNCHANGED <<bridge, reply>>
            \/ /\ ~Alive /\ r \notin Stops
               /\ LeaveLoop(Waiting \cup {w.by : w \in waits})
               /\ UNCHANGED stdin
  /\ UNCHANGED <<daemonVars, childVars, stdout, status, reports, crashes>>

CommandsEnd ==
  /\ kind # "capsule"
  /\ bridge = "running"
  /\ Closed
  /\ LeaveLoop(Waiting)
  /\ UNCHANGED <<daemonVars, cmdq, counter, routes, childVars, stdin, stdout, status, reports,
                 crashes>>

\* A chat_response goes to the chat of its id, or else to the channel of its id.
TakeAnswer(m) ==
  LET asked  == {p \in pending : p.id = m.id}
      routed == {p \in routes : p.id = m.id}
      told(p) == IF m.ok THEN [type |-> "channel_message", of |-> m.of, to |-> p.by]
                         ELSE [type |-> "job_failed", of |-> m.of]
  IN  \/ \E p \in asked :
           /\ pending' = pending \ {p}
           /\ reply' = IF reply[p.by] = "asked"
                       THEN [reply EXCEPT ![p.by] = IF m.ok THEN m.of ELSE "error"]
                       ELSE reply
           /\ UNCHANGED <<bridge, routes, status, reports>>
      \/ \E p \in routed :
           /\ asked = {}
           /\ routes' = routes \ {p}
           /\ reports' = Append(reports, told(p))
           /\ UNCHANGED <<bridge, reply, pending, status>>
      \/ /\ asked \cup routed = {}
         /\ UNCHANGED <<bridge, reply, pending, routes, status, reports>>

TakeStatus(m) ==
  /\ status' = m.status
  /\ IF m.status = "Stopped"
     THEN LeaveLoop(Waiting)
     ELSE UNCHANGED <<bridge, reply, pending>>
  /\ UNCHANGED <<routes, reports>>

TakeReport(m) ==
  /\ status' = "Idle"
  /\ reports' = Append(reports, m)
  /\ UNCHANGED <<bridge, reply, pending, routes>>

ReadMessage ==
  /\ kind # "capsule"
  /\ bridge = "running"
  /\ stdout # <<>>
  /\ stdout' = Tail(stdout)
  /\ LET m == Head(stdout) IN
       \/ m.type = "chat_response" /\ TakeAnswer(m)
       \/ m.type = "status" /\ TakeStatus(m)
       \/ Terminal(m) /\ TakeReport(m)
  /\ UNCHANGED <<daemonVars, cmdq, counter, childVars, stdin, crashes>>

\* Faulty: the closed pipe is taken for a quiet one.
IgnoreEnd ==
  /\ kind # "capsule" /\ bridge = "running" /\ stdout = <<>> /\ child \in {"ended", "dead"}
  /\ UNCHANGED vars

OutputEnds ==
  /\ kind # "capsule"
  /\ bridge = "running"
  /\ stdout = <<>>
  /\ child \in {"ended", "dead"}
  /\ LeaveLoop(Waiting)
  /\ UNCHANGED <<daemonVars, cmdq, counter, routes, childVars, stdin, stdout, status, reports,
                 crashes>>

\* Faulty: a child that exits with code 0 is taken to have said so itself.
LastUpdateUnlessClean == IF child = "dead" THEN "Stopped" ELSE status

\* An exit code other than 0 is reported as Error, and Stopped follows at once.
LastUpdate == "Stopped"

\* The task has held the child's stdin open while it waited; now its own queue
\* goes, with the commands in it.
Reap ==
  /\ bridge = "waiting"
  /\ child \in {"ended", "dead"}
  /\ bridge' = "done"
  /\ status' = LastUpdate
  /\ reply' = FailChats(Entries(cmdq))
  /\ cmdq' = <<>> /\ stdin' = <<>> /\ stdout' = <<>>
  /\ UNCHANGED <<daemonVars, counter, pending, routes, childVars, reports, crashes>>

-----------------------------------------------------------------------------
(* The worker.                                                             *)

Status(s) == [type |-> "status", status |-> s]

\* Log lines and the statuses idle and running, of which the bridge makes Idle and
\* Running updates: one at the end of a command stands for all of them.
Log == Status("Idle")

\* What the child writes, and nothing else changes outside it.
Writes(messages) ==
  /\ stdout' = stdout \o messages
  /\ UNCHANGED <<daemonVars, reply, cmdq, taskVars, status, reports, crashes>>

Build ==
  /\ child = "building"
  /\ \/ child' = "idle" /\ Writes(<<Log>>)
     \/ child' = "dead" /\ Writes(<<Status("Error")>>)
  /\ UNCHANGED <<hand, stdin>>

\* Faulty: Stop is not known to the child.
GoOn(c) ==
  /\ c.of \in Stops
  /\ child' = "idle" /\ Writes(<<>>) /\ UNCHANGED hand

Quit(c) ==
  /\ c.of \in Stops
  /\ child' = "ended" /\ Writes(<<Log, Status("Stopped")>>) /\ UNCHANGED hand

\* The next line of stdin, once the last one is dealt with.
TakeLine ==
  /\ child = "idle"
  /\ stdin # <<>>
  /\ stdin' = Tail(stdin)
  /\ LET c == Head(stdin) IN
       \/ Quit(c)
       \/ /\ c.of \notin Stops
          /\ child' = "busy" /\ hand' = c
          /\ Writes(<<>>)

\* The LLM call returns, well or not.
Finish(ok) ==
  /\ kind # "capsule"
  /\ child = "busy"
  /\ child' = "idle" /\ hand' = Nobody
  /\ Writes(<<IF hand.of \in Jobs
              THEN [type |-> IF ok THEN "job_completed" ELSE "job_failed", of |-> hand.of]
              ELSE [type |-> "chat_response", of |-> hand.of, id |-> hand.id, ok |-> ok],
              Log>>)
  /\ UNCHANGED stdin

ChildDies ==
  /\ Alive
  /\ crashes < MaxCrashes
  /\ child' = "dead" /\ hand' = Nobody
  /\ crashes' = crashes + 1
  /\ UNCHANGED <<daemonVars, reply, cmdq, taskVars, stdin, stdout, status, reports>>

-----------------------------------------------------------------------------
(* The capsule task.  It sends no status updates, and destroying the       *)
(* capsule ends the child.                                                 *)

\* Faulty: the end of the output is no failure.
NoFailure == <<>>

\* What is sent for a job whose capsule ends without a report of its own.
Failure == <<[type |-> "job_failed", of |-> CHOOSE j \in Jobs : TRUE]>>

\* Faulty: saw_terminal_event is never set.
EndTwice(told) ==
  /\ bridge' = "done"
  /\ reports' = reports \o told \o (IF told = <<>> THEN <<>> ELSE Failure)
  /\ reply' = FailChats(Entries(cmdq))
  /\ cmdq' = <<>> /\ stdout' = <<>>
  /\ child' = IF Alive THEN "dead" ELSE child
  /\ hand' = Nobody
  /\ UNCHANGED <<daemonVars, counter, pending, routes, stdin, status>>

End(told) ==
  /\ bridge' = "done"
  /\ reports' = reports \o told
  /\ reply' = FailChats(Entries(cmdq))
  /\ cmdq' = <<>> /\ stdout' = <<>>
  /\ child' = IF Alive THEN "dead" ELSE child
  /\ hand' = Nobody
  /\ UNCHANGED <<daemonVars, counter, pending, routes, stdin, status>>

\* The job is in a file the child reads at its start, whatever is sent to it.
SpawnCapsule ==
  /\ kind = "capsule"
  /\ bridge = "starting"
  /\ bridge' = "running"
  /\ child' = "busy"
  /\ hand' = [of |-> CHOOSE j \in Jobs : TRUE, id |-> 0]
  /\ UNCHANGED <<daemonVars, reply, cmdq, counter, pending, routes, stdin, stdout, status,
                 reports, crashes>>

\* The capsule, its workspace, the specification or the process cannot be made.
CapsuleFails ==
  /\ kind = "capsule"
  /\ bridge = "starting"
  /\ crashes < MaxCrashes
  /\ crashes' = crashes + 1
  /\ End(Failure)

\* Stop, and the loss of the handle, kill the child and keep its end quiet;
\* other commands are dropped.
CapsuleCommand ==
  /\ kind = "capsule"
  /\ bridge = "running"
  /\ \/ /\ Closed \/ (cmdq # <<>> /\ Head(cmdq) \in Stops)
        /\ End(<<>>)
     \/ /\ cmdq # <<>> /\ Head(cmdq) \notin Stops
        /\ cmdq' = Tail(cmdq)
        /\ UNCHANGED <<daemonVars, reply, taskVars, childVars, stdin, stdout, status, reports>>
  /\ UNCHANGED crashes

CapsuleFinish(ok) ==
  /\ kind = "capsule"
  /\ child = "busy"
  /\ child' = "ended"
  /\ Writes(<<[type |-> IF ok THEN "job_completed" ELSE "job_failed", of |-> hand.of]>>)
  /\ UNCHANGED <<hand, stdin>>

\* A report, or the end of the output.
CapsuleRead ==
  /\ kind = "capsule"
  /\ bridge = "running"
  /\ \/ stdout # <<>> /\ End(<<Head(stdout)>>)
     \/ stdout = <<>> /\ ~Alive /\ End(Failure)
  /\ UNCHANGED crashes

CapsulePipeBreaks ==
  /\ kind = "capsule"
  /\ bridge = "running"
  /\ crashes < MaxCrashes
  /\ crashes' = crashes + 1
  /\ End(Failure)

-----------------------------------------------------------------------------

Task ==
  \/ SpawnChild
  \/ ForwardCommand
  \/ CommandsEnd
  \/ ReadMessage
  \/ OutputEnds
  \/ Reap
  \/ SpawnCapsule
  \/ CapsuleCommand
  \/ CapsuleRead

Child == Build \/ TakeLine \/ \E ok \in BOOLEAN : Finish(ok) \/ CapsuleFinish(ok)

Next ==
  \/ \E r \in Requests : Send(r)
  \/ \E c \in Chats : GiveUp(c)
  \/ DropHandle
  \/ Task
  \/ SpawnFails
  \/ CapsuleFails
  \/ CapsulePipeBreaks
  \/ Child
  \/ ChildDies

Spec == Init /\ [][Next]_vars

\* select! takes its branches in random order, so none waits forever; a process
\* that can run does, and its LLM call returns.
Fairness ==
  /\ WF_vars(SpawnChild \/ SpawnCapsule)
  /\ WF_vars(ForwardCommand)
  /\ WF_vars(CommandsEnd \/ OutputEnds)
  /\ WF_vars(ReadMessage)
  /\ WF_vars(Reap)
  /\ WF_vars(CapsuleCommand)
  /\ WF_vars(CapsuleRead)
  /\ WF_vars(Child)

FairSpec == Spec /\ Fairness

-----------------------------------------------------------------------------
(* Properties.                                                             *)

\* Everyone gets the answer to his own question: chats of users and messages of
\* channels go through one numbered stream and come back in two maps.
OwnAnswers ==
  /\ \A c \in Chats : reply[c] \in Requests => reply[c] = c
  /\ \A e \in Entries(reports) : e.type = "channel_message" => e.of = e.to

\* A job is reported over once: a capsule that has passed on its child's report
\* says nothing about the end of its output, and no answer is reported twice.
ReportedOnce ==
  \A i, k \in DOMAIN reports : reports[i].of = reports[k].of => i = k

\* When the bridge of an agent or job is gone its last word was Stopped, or
\* Error if there never was a child: no log line or late answer comes after.
\* The daemon restarts an agent on these words and on nothing else.
DeathIsReported ==
  bridge = "done" /\ kind # "capsule" => status \in {"Stopped", "Error"}

\* Whoever waits for a chat hears back, or gives up: a child that dies, stops or
\* fails, and a command that is still queued when the bridge ends, leave nobody
\* waiting.
EveryChatAnswered ==
  \A c \in Chats : reply[c] = "asked" ~> reply[c] # "asked"

\* Stop ends the child and the task: whatever is queued before it is answered
\* first, and it does not matter whether the daemon drops the handle meanwhile.
StopEnds ==
  \A s \in Stops : reply[s] = "asked" ~> bridge = "done" /\ ~Alive

\* A sandboxed job is always heard of again, however its capsule ends, unless the
\* daemon itself had it stopped.
CapsuleReports ==
  kind = "capsule" ~> (reports # <<>> \/ \E s \in Stops : reply[s] # "new")

\* "Spawn a temporary worker process for an orchestration job." (daemon.rs): a
\* worker whose handle was dropped ends.
TemporaryWorkersEnd == ~held ~> ~Alive
=============================================================================
