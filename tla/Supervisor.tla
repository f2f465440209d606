----------------------------- MODULE Supervisor -----------------------------
(***************************************************************************)
(* The agent supervisor of src/daemon.rs for the agent of one name: state  *)
(* updates, restarts with backoff, the commands start, stop and restart of *)
(* src/server.rs, and the reload of the configuration.  Agents of other    *)
(* names share nothing with it but the order of one queue.                 *)
(*                                                                         *)
(* A process that was started for the agent is an instance.  Of its bridge *)
(* (module WorkerBridge) only the status updates are left, and that it     *)
(* reads no more once every handle is dropped.  Updates carry the name of  *)
(* the agent and not the instance, and a job worker reports under the name *)
(* of its profile.  Backoff times are left out: they pass at any time.     *)
(***************************************************************************)
EXTENDS Naturals, Sequences, FiniteSets

CONSTANTS
  MaxRestarts,    \* max_restarts of the agent
  QueueCapacity,  \* of state_rx, 256 in the daemon
  MaxInstances,   \* bound: processes started for the agent
  MaxCommands,    \* bound: requests of users
  MaxReloads,     \* bound: edits of the configuration
  MaxChatter,     \* bound: Idle updates that log lines bring about
  MaxJobWords     \* bound: updates of job workers with the agent's name

ASSUME SupervisorAssumption ==
  {MaxRestarts, QueueCapacity, MaxInstances, MaxCommands, MaxReloads, MaxChatter,
   MaxJobWords} \subseteq Nat

VARIABLES
  config,      \* current_config: is the agent "absent", "manual" or auto_start, "auto"
  managed,     \* the daemon's entry: None or [status, count, due, inst]
  shared,      \* the server's entry: None or [status, inst]
  instances,   \* per instance: [phase, told]
  updates,     \* state_rx
  commands,    \* daemon_cmd_rx
  stopping,    \* the instance whose handle a post_stop holds, 0 if there is none
  used         \* commands, reloads, chatter and job words so far

vars == <<config, managed, shared, instances, updates, commands, stopping, used>>

None == [inst |-> 0]
Ends == {"Stopped", "Error"}
Configs == {"absent", "manual", "auto"}

Exists(entry) == entry.inst # 0
Holding(e, sh, st, i) == i \in {e.inst, sh.inst, st}
Held(i) == Holding(managed, shared, stopping, i)

Use(what) == used' = [used EXCEPT ![what] = @ + 1]

-----------------------------------------------------------------------------
(* Starting an instance.                                                   *)

\* An entry of a process that is being spawned, which both maps get.
Fresh(count) == [status |-> "Starting", count |-> count, due |-> FALSE,
                 inst |-> Len(instances) + 1]

Ref(entry) == [status |-> entry.status, inst |-> entry.inst]

CanSpawn == Len(instances) < MaxInstances

Told(i) ==
  IF i \in DOMAIN instances THEN [instances EXCEPT ![i].told = TRUE] ELSE instances

\* spawn_managed_agent and sync_agent_to_shared, with the instances in `others'.
SpawnInto(count, others) ==
  /\ CanSpawn
  /\ managed' = Fresh(count)
  /\ shared' = Ref(Fresh(count))
  /\ instances' = Append(others, [phase |-> "starting", told |-> FALSE])

Init ==
  /\ config \in {"manual", "auto"}
  /\ managed = IF config = "auto"
               THEN [status |-> "Starting", count |-> 0, due |-> FALSE, inst |-> 1] ELSE None
  /\ shared = IF config = "auto" THEN [status |-> "Starting", inst |-> 1] ELSE None
  /\ instances = IF config = "auto" THEN <<[phase |-> "starting", told |-> FALSE]>> ELSE <<>>
  /\ updates = <<>>
  /\ commands = <<>>
  /\ stopping = 0
  /\ used = [command |-> 0, reload |-> 0, chatter |-> 0, job |-> 0]

-----------------------------------------------------------------------------
(* The daemon loop.                                                        *)

\* Faulty: one restart too many.
BudgetOffByOne(entry) == entry.count <= MaxRestarts

WithinBudget(entry) == entry.count < MaxRestarts

\* The oldest update, for whichever process has the entry now.  The server sees
\* the status that was reported, the daemon goes on to schedule a restart.
HandleUpdate ==
  /\ updates # <<>>
  /\ updates' = Tail(updates)
  /\ LET status == Head(updates)
         restart == status \in Ends /\ WithinBudget(managed)
     IN  IF Exists(managed)
         THEN /\ managed' = [managed EXCEPT
                               !.status = IF restart THEN "RestartPending" ELSE status,
                               !.due = IF restart THEN FALSE ELSE @]
              /\ shared' = IF Exists(shared)
                           THEN [status |-> status, inst |-> shared.inst] ELSE shared
         ELSE UNCHANGED <<managed, shared>>
  /\ UNCHANGED <<config, instances, commands, stopping, used>>

\* The backoff is over.
BackoffPasses ==
  /\ Exists(managed) /\ managed.status = "RestartPending" /\ ~managed.due
  /\ managed' = [managed EXCEPT !.due = TRUE]
  /\ UNCHANGED <<config, shared, instances, updates, commands, stopping, used>>

Due == Exists(managed) /\ managed.status = "RestartPending" /\ managed.due

\* Faulty: only agents that start on their own are restarted.
RestartAutoOnly ==
  /\ Due /\ config = "auto"
  /\ SpawnInto(managed.count + 1, instances)
  /\ UNCHANGED <<config, updates, commands, stopping, used>>

\* Faulty: the server keeps the old handle.
RestartUnsynced ==
  /\ Due /\ config # "absent" /\ CanSpawn
  /\ managed' = Fresh(managed.count + 1)
  /\ instances' = Append(instances, [phase |-> "starting", told |-> FALSE])
  /\ UNCHANGED <<config, shared, updates, commands, stopping, used>>

\* The poll tick replaces the entry.  Nobody tells the old process to stop.
RestartDue ==
  /\ Due
  /\ config # "absent"
  /\ SpawnInto(managed.count + 1, instances)
  /\ UNCHANGED <<config, updates, commands, stopping, used>>

\* The entry, if there is one, has ended or makes the command fail; the agent is
\* started if the configuration has it.
HandleStart ==
  /\ commands # <<>> /\ Head(commands) = "start"
  /\ commands' = Tail(commands)
  /\ IF Exists(managed) /\ managed.status \notin Ends
     THEN UNCHANGED <<managed, shared, instances>>
     ELSE IF config # "absent"
          THEN SpawnInto(0, instances)
          ELSE /\ managed' = None
               /\ shared' = IF Exists(managed) THEN None ELSE shared
               /\ UNCHANGED instances
  /\ UNCHANGED <<config, updates, stopping, used>>

\* The process is told to stop and another one started at once.
HandleRestart ==
  /\ commands # <<>> /\ Head(commands) = "restart"
  /\ commands' = Tail(commands)
  /\ IF config # "absent"
     THEN SpawnInto(0, Told(managed.inst))
     ELSE /\ managed' = None
          /\ shared' = IF Exists(managed) THEN None ELSE shared
          /\ instances' = Told(managed.inst)
  /\ UNCHANGED <<config, updates, stopping, used>>

\* apply_config_changes: what does not start on its own is stopped, even if a
\* user started it, and what does and is not there is started.
Reload ==
  /\ used.reload < MaxReloads
  /\ Use("reload")
  /\ config' \in Configs
  /\ CASE config' = "auto" /\ ~Exists(managed) -> SpawnInto(0, instances)
       [] config' # "auto" /\ Exists(managed) ->
            managed' = None /\ shared' = None /\ instances' = Told(managed.inst)
       [] OTHER -> UNCHANGED <<managed, shared, instances>>
  /\ UNCHANGED <<updates, commands, stopping>>

-----------------------------------------------------------------------------
(* The server.                                                             *)

\* post_start looks at its own copy of the status first.
PostStart ==
  /\ used.command < MaxCommands
  /\ Exists(shared) => shared.status \in Ends
  /\ commands' = Append(commands, "start")
  /\ Use("command")
  /\ UNCHANGED <<config, managed, shared, instances, updates, stopping>>

PostRestart ==
  /\ used.command < MaxCommands
  /\ commands' = Append(commands, "restart")
  /\ Use("command")
  /\ UNCHANGED <<config, managed, shared, instances, updates, stopping>>

\* post_stop takes a handle under one lock and sends Stop without it.
PostStop ==
  /\ used.command < MaxCommands
  /\ stopping = 0
  /\ Exists(shared)
  /\ stopping' = shared.inst
  /\ instances' = Told(shared.inst)
  /\ Use("command")
  /\ UNCHANGED <<config, managed, shared, updates, commands>>

\* Then it marks whatever entry it finds under another lock.
MarkStopped ==
  /\ stopping # 0
  /\ stopping' = 0
  /\ shared' = IF Exists(shared) THEN [shared EXCEPT !.status = "Stopped"] ELSE shared
  /\ UNCHANGED <<config, managed, instances, updates, commands, used>>

-----------------------------------------------------------------------------
(* The instances, as WorkerBridge has them.                                *)

Enters(i, phase) == instances' = [instances EXCEPT ![i].phase = phase]

\* A full queue makes the sender wait.
Says(words) ==
  /\ Len(updates) + Len(words) <= QueueCapacity
  /\ updates' = updates \o words

Unmanaged == UNCHANGED <<config, managed, shared, commands, stopping>>

\* Faulty: a process that cannot be spawned is only logged.
VanishQuietly(i) ==
  /\ instances[i].phase = "starting"
  /\ Enters(i, "gone") /\ UNCHANGED <<updates, used>> /\ Unmanaged

\* The process cannot be spawned.
FailToSpawn(i) ==
  /\ instances[i].phase = "starting"
  /\ Enters(i, "gone") /\ Says(<<"Error">>)
  /\ UNCHANGED used /\ Unmanaged

ComeUp(i) ==
  /\ instances[i].phase = "starting"
  /\ Enters(i, "up") /\ Says(<<"Starting">>)
  /\ UNCHANGED used /\ Unmanaged

\* A log line or a status of the worker; one may come between the loss of the
\* handle and the moment the bridge notices.
Chatter(i) ==
  /\ instances[i].phase = "up"
  /\ used.chatter < MaxChatter
  /\ Says(<<"Idle">>) /\ Use("chatter")
  /\ UNCHANGED instances /\ Unmanaged

\* The worker says why it ends: it could not be built, or it was told to.
Announce(i) ==
  /\ instances[i].phase = "up"
  /\ Enters(i, "ending")
  /\ \/ Says(<<"Error">>)
     \/ instances[i].told /\ Says(<<"Stopped">>)
  /\ UNCHANGED used /\ Unmanaged

\* The child has ended; an orderly end takes a Stop.
End(i) ==
  /\ instances[i].phase \in {"up", "ending"}
  /\ Enters(i, "gone")
  /\ \/ Says(<<"Error", "Stopped">>)
     \/ instances[i].told /\ Says(<<"Stopped">>)
  /\ UNCHANGED used /\ Unmanaged

\* A job worker whose profile is this agent reports a status.
JobWord ==
  /\ used.job < MaxJobWords
  /\ \E word \in {"Starting", "Idle", "Error", "Stopped"} : Says(<<word>>)
  /\ Use("job")
  /\ UNCHANGED instances /\ Unmanaged

-----------------------------------------------------------------------------

Next ==
  \/ HandleUpdate
  \/ BackoffPasses
  \/ RestartDue
  \/ HandleStart
  \/ HandleRestart
  \/ Reload
  \/ PostStart
  \/ PostRestart
  \/ PostStop
  \/ MarkStopped
  \/ \E i \in DOMAIN instances :
       FailToSpawn(i) \/ ComeUp(i) \/ Chatter(i) \/ Announce(i) \/ End(i)
  \/ JobWord

Spec == Init /\ [][Next]_vars

\* The loop receives, backoffs pass, the poll tick comes, and an instance that was
\* told to stop or has announced its end ends.
Fairness ==
  /\ WF_vars(HandleUpdate)
  /\ WF_vars(BackoffPasses)
  /\ WF_vars(RestartDue)
  /\ \A i \in 1..MaxInstances :
       WF_vars(/\ i \in DOMAIN instances
               /\ \/ ComeUp(i)
                  \/ (instances[i].told \/ instances[i].phase = "ending") /\ End(i))

FairSpec == Spec /\ Fairness

-----------------------------------------------------------------------------
(* Properties.                                                             *)

Phases == {"starting", "up", "ending", "gone"}
Instance == [phase : Phases, told : BOOLEAN]
Words == {"Starting", "Idle", "Error", "Stopped"}

\* Both maps know the instance that was started last, or none.
TypeOK ==
  /\ config \in Configs
  /\ managed \in {None} \cup [status : Words \cup {"RestartPending"}, count : Nat,
                              due : BOOLEAN, inst : Nat \ {0}]
  /\ shared \in {None} \cup [status : Words, inst : Nat \ {0}]
  /\ {managed.inst, shared.inst} \subseteq {0, Len(instances)}
  /\ instances \in Seq(Instance)
  /\ updates \in Seq(Words)
  /\ commands \in Seq({"start", "restart"})
  /\ stopping \in 0..Len(instances)

\* However updates of several processes and user commands mix, the agent is
\* restarted on its own max_restarts times at most after a start.
RestartBudget == Exists(managed) => managed.count <= MaxRestarts

\* Chats and stops reach the process the daemon supervises: the server's map has
\* the handle of the daemon's, through restarts, reloads and commands.
HandlesAgree == managed.inst = shared.inst

\* A process that lives although no handle of it is left and nobody told it to
\* stop: its bridge waits for it for good.
Orphans ==
  {i \in DOMAIN instances :
     instances[i].phase \in {"starting", "up"} /\ ~instances[i].told /\ ~Held(i)}

\* No job worker has spoken under the agent's name and no process was left behind.
NoStrangers == used.job = 0 /\ Orphans = {}

Dead == Exists(managed) /\ instances[managed.inst].phase = "gone"

\* An agent whose process is gone is listed as ended or as about to be restarted,
\* once what it said last is handled: no later word of another process hides it
\* for good, because every process that may still speak ends with Stopped itself.
NoSilentDeath ==
  Dead /\ updates = <<>> /\ NoStrangers =>
    \/ managed.status \in Ends \cup {"RestartPending"}
    \/ \E i \in DOMAIN instances : i < managed.inst /\ instances[i].phase # "gone"

\* "Automatic restart with exponential backoff" (README): an agent whose process
\* has ended within its budget gets a new one, or a user takes it out.
ComesBack ==
  Dead /\ WithinBudget(managed) ~> ~Dead \/ ~NoStrangers \/ ~CanSpawn
=============================================================================
