# Verification of ZeptoPM

ZeptoPM is a daemon that runs LLM agents as child processes and orchestrates
*runs*: a task becomes a planner job, the planner's output becomes a graph of
jobs, each job is executed by a worker process, reviewers may ask for
revisions, and jobs may talk through channels.  These TLA+ modules model the
orchestration with its persistence, the bridge to a worker process, the
supervision of agents, the gateway, and the functions that read what LLMs
write.  TLC checks them on small instances, and TLAPS proves the central
invariants, and that the orchestrator implements its abstract specification, for every value
of the constants.

Paths below are relative to the repository (`src/daemon.rs` and so on).

## Inventory

| Component | State | Operations | Interacts with |
|---|---|---|---|
| Orchestrator engine (`src/orchestrator/engine.rs`) | run store, `ready_queue`, `active_jobs`, `last_heartbeat` | `submit_run`, `next_job`, `mark_running`, `record_heartbeat`, `stale_jobs`, `mark_completed`, `mark_failed`, `handle_review_completion`, four channel methods | called by the daemon loop only |
| Scheduler (`scheduler.rs`) | none | `promote_unblocked_jobs`, `check_run_completion`, `gen_id` | engine |
| Planner (`planner.rs`) | none | `validate_plan`, `materialize_plan` | daemon loop, store |
| Review (`review.rs`) | none | `parse_review_decision` | daemon loop |
| Run store (`store.rs`) | maps of runs, jobs, artifacts, channels | create, update, lookup, `remove_run` | engine, daemon, persistence |
| SQLite persistence (`sqlite_store.rs`) | four tables | `persist_run_state`, `load_*`, `delete_run` | daemon loop, startup |
| Daemon loop (`src/daemon.rs`) | `managed` (agents and job workers), timers, configuration | one `tokio::select!` over shutdown, agent state updates, commands, orchestrator events and the poll tick | all of the above |
| Agent supervisor (in `daemon.rs`, `status.rs`) | status, restart count, restart time per agent | start, stop, restart, backoff, reload | bridge, HTTP server |
| Worker bridge (`src/agent.rs`) | pending chats, routes of channel messages, child process, bounded queues | commands to the child's stdin, messages of its stdout to the daemon | daemon, worker |
| Capsule task (`src/capsule.rs`) | the sandboxed child | one job, its report, its end | daemon |
| Worker (`src/worker.rs`) | chat history | `chat`, `job_execute`, `stop`, heartbeats every 10 s | bridge, LLM |
| HTTP server (`src/server.rs`) | agent references, rate limits | routes, `RateLimitBucket` | daemon commands |
| Configuration, LLM, command line | none that outlives a call | | |

### What is hard here

The daemon is one task, so its handlers do not interleave with each other.  The
difficulty is that everything else does.

* **Reports without an attempt.** A worker that is told to stop reads the
  command after the job in hand, so it may report after its job was timed out,
  retried or cancelled.  An event carries the job id alone.
* **One field, several writers.** A job's status, its entries in the queue,
  its slot in `active_jobs` and its handle in `managed` are four pieces of
  state that eight paths update (submission, planning, promotion, revision,
  retry, timeout, cancellation, reload).
* **Awaits inside the poll tick.** The list of stale jobs is computed once and
  worked through while jobs are failed and respawned.
* **Opposite calls on one job.** A planner with an unusable plan is completed
  and then failed, by one handler.
* **Crash and restart.** Each handler saves the run of its event, a statement
  at a time.
* **Channels.** Participants hold slots while they wait for each other.
* **Two copies of the agents.** Daemon and server each have a map of agents,
  and what a process says carries the agent's name and not the process.
* **Several ends of a worker.** A worker, its pipes, its handle and the task
  between them end in any order, and somebody waits on each of them.

What makes the components correct:

* engine: slots are bounded and never leak, no Ready job is forgotten,
  dependencies come first, attempts are bounded, a finished job stays finished,
  a run's status tells how it went;
* daemon loop: an event is about the attempt in hand, every run comes to rest;
* channels: turns are kept, rounds are bounded, a closed channel frees its
  participants;
* persistence: after a restart no finished work is lost and the rest is queued;
* bridge: every chat is answered, and with its own answer; the end of a worker
  is told once and last;
* supervisor: an agent restarts as often as configured, and both maps have the
  same process;
* gateway and the readers of text: exact limits, exact acceptance of plans.

`PROJECT.json` lists each hazard with its line and the properties that cover it.

## Modules

```
Engine                  operators: the methods of OrchestratorEngine and its helpers
  EngineProofs            lemmas: what each engine operation keeps (extended by the three below)
  Orchestrator          state machine: daemon loop, job workers, event queue
    MCOrchestrator        plans and profiles for TLC
    OrchestratorProofs    theorems: what holds with any faults, what holds while every report
                          is current, and that the orchestrator implements Scheduling
    Recovery            Orchestrator with the database, crashes, shutdown, cleanup
      MCRecovery
      RecoveryProofs      theorems: what holds through crashes, and what a crash costs while
                          no timeout is wrong (extends OrchestratorProofs)
  Channels              state machine: one run whose jobs talk through channels
    MCChannels
    ChannelsProofs        theorems: the engine, the turns and the ends of discussions
Scheduling              abstract specification, implemented by Orchestrator
  SchedulingProofs        theorems
WorkerBridge            state machine: handle, task, pipes and process of one worker
  MCBridge
  BridgeProofs            theorems
Supervisor              state machine: the agent of one name in daemon and server
  MCSupervisor
  SupervisorProofs        theorems
Gateway                 state machine: requests and their rate limit
Intake                  functions on plans, texts and histories
  MCIntake                Gateway and Intake side by side, inputs for TLC
  IntakeProofs            theorems about both
MCEdges                 MCBridge and MCIntake side by side: one run for the edges of the daemon
```

### Engine

An engine is a record (`jobs`, `runs`, `queue`, `active`, `nextJob`, `nextRun`) and each
Rust method an operator from the engine before to the engine after.  `mark_running` and
`next_job` only ever occur in the loop
`while let Some(job) = next_job() { mark_running; spawn_job_worker }`; the model
takes the loop as a whole: `PopsExactly(s, n)` says that it stops after `n`
entries, `StartPopped(s, n)` is the engine it leaves.  `next_job` looks neither
at the status of the job nor at `active_jobs`, so a job with two entries may be
popped twice, and the model keeps that.  Where the code iterates a `HashMap`, the order is
a parameter (`Orderings`) the action chooses.

### Orchestrator

One action per select branch and handler.

| Variable | Code |
|---|---|
| `eng` | `orchestrator` |
| `managed` | the keys `__job_<id>` of `managed` |
| `workers` | live worker processes, with the attempt they were started for |
| `events` | orchestrator events sent and not received |
| `stale` | the rest of the list the poll tick works through |
| `faults` | counters for the bounds on faults; not in the code |

| Action | Code |
|---|---|
| `SubmitRun`, `CancelRun` | the branches of `daemon_cmd_rx` |
| `HandleCompleted` | `job_completed`: `mark_completed`, plan materialisation, review, spawn loop |
| `HandleFailed` | `job_failed`: `mark_failed`, spawn loop |
| `CheckHeartbeats`, `ExpireJob` | the stale-job scan and one round of its loop |
| `ReloadConfig` | `apply_config_changes`, as far as it touches job workers |
| `WorkerReport` | the end of `job_execute`, forwarded by the bridge |
| `WorkerCrash` | the process dies, or never started |
| `BridgeClose` | the bridge ends because its command channel was dropped |

Every action of the daemon but `ExpireJob` requires `stale = {}`: while the poll tick
is at work nothing else is received.

Abstractions, and why they are safe:

* Events are a set and any of them may be handled next.  The queue is FIFO, but
  a worker may delay its report, so every order of reports occurs; the set has
  a few orders more, for failures the daemon queues itself.  Invariants of the
  model therefore hold of the code; the violation below needs no such order.
* Time is left out: any active job may be found stale, at any time.  If its
  worker is alive or has reported, the timeout counts as *false*.
* A plan is one of a given set, and "no artifact", "unusable plan" and each
  review decision are choices.  Instructions, artifacts, workspaces and
  timestamps are left out, and so is `final_artifact_ids`.
* `Profiles` stays the same when the configuration is edited; the edit's effect on
  job workers is the loss of their handles.
* `JobStatus::Cancelled` is never assigned by the code and not in the model.

### Scheduling

What the orchestrator promises of its jobs, without queue, workers, reports, runs and
heartbeats: jobs arrive in batches, run in a limited number of slots once what they depend on
has completed, and are tried a limited number of times.  Three kinds of steps end a job's stay
in its slot (`Complete`, `Retry`, `Fail`), and every step gives out all slots it can.
`AbstractJobs` in Orchestrator is the refinement mapping (Pending and Ready are both
"waiting": the abstract scheduler looks at dependencies, the code at a queue), and
`SchedulesJobs == Abstract!Spec` a property of the run `Clean`.  It asks that promotion,
retry, revision, materialisation and the spawn loop of one handler together amount to one
step of the abstract scheduler.  Two things limit it to the clean regime, see below: reports
on an attempt that is over, and cancellations.  It does not hold of plans that contain a job
whose role is planner with dependents in the plan: such a job with an unusable plan is
completed, promotes its dependents, and is failed and retried by the same handler.

### Channels

One run from the start of its planner, with plans whose jobs are plain workers.  Its
handlers are the daemon's once more, with the parts `Orchestrator` leaves out: the failure of
a participant spreads to its peers before `mark_failed`, every handler ends with the spawn
loop *and* `activate_channels`, and `channel_message` routes, closes or ignores.
Cancellation, revisions, unusable plans and missing profiles are `Orchestrator`'s.

`sandbox` is what `sandbox_requested` says, the same for the whole run: FALSE for isolation
`"none"`, TRUE for any other, unless the command line overrides it.  With isolation `"none"` a
participant gets a setup prompt and then messages, and is completed when its channels close.  In a
capsule (`daemon.rs:1216-1246`, `capsule.rs:222-227`, `256-270`) it gets its job to execute and ignores
every message, so that it is completed by its own report while its channels, which are opened all the
same, stay open.  What is claimed about discussions and their ends (`ChannelsBeforeCompletion`,
`DiscussionsEnd`) has isolation `"none"` as a premise in the property; `EngineConsistent`, `OneVoice`
and `RunSettles` hold of both.

The plans may list a participant more than once, and a stream channel may have only one: `validate_plan`
accepts both.  So messages and notices go to places of the list and not to jobs, a peer listed twice is
failed twice, and a job may take turns with itself.

| Variable, action | Code |
|---|---|
| `eng`, `managed` | as above |
| `inbox` | for each live worker (job and attempt), the commands written to its stdin that it has not answered |
| `chans` | `store.channels`: members, mode, round, speaker (counted from 1), active, closed |
| `events` | the event queue, here in its order, because messages follow each other |
| `stale` | the poll tick's list; the code's list holds job ids, the attempt only says whose silence put it there |
| `HandleCompleted`, `HandleFailed`, `HandleMessage` | `job_completed`, `job_failed`, `channel_message` |
| `CheckHeartbeats`, `ExpireJob` | the scan, after the refresh of idle participants, and a round of its loop |
| `Answer` | the worker answers its oldest command, and the bridge makes a report, a message, a failure or nothing of it |
| `WorkerCrash`, `BridgeClose` | as above |

A handler is a composition of operators on `[eng, managed, inbox, chans]`.  A loop of the code is a
recursive function of the number of rounds it has made: `Opened` (channels that are opened), `PeerFailures`
(channels of a job that failed), `PeersFailed` (participants of one of them), `Completions` (participants of
a closed channel).  The order in which a `HashMap` is gone through is a parameter the action chooses
(`Orderings`), and where two engine calls may each go several ways the function is one of sets of states.
Commands to the participants of a channel go out in one step (`Send`): each has a pipe of its own, and
no loop that sends does anything else.  `complete_closed_channel_participants` waits
up to 45 s for each participant's closing words; the answer only fills an artifact, so the
model goes on as the code does after the wait.  A job is *silent* when its worker is dead or
has nothing to answer and no event of it is queued: workers send heartbeats only while they
answer.

### Recovery

Orchestrator with a database, and an end of the daemon at any point.

| Variable | Code |
|---|---|
| `artifacts` | the artifacts the store has, each with its job and its run |
| `db` | the tables runs, jobs and artifacts |
| `unsaved` | what the handler that has just run has yet to write: a run, the deletion of one, or nothing |
| `since` | what there was since the last start: nothing, a handler, or a cleanup of a run with work under way.  Not in the code |
| `mishaps` | counters for the bounds: restarts, saves and cleanups cut off, cleanups of runs with work under way.  Not in the code |

Each handler of Orchestrator is conjoined with what it saves (`Saving`: the run of its event
and no other), and `Persist` is the end of the save.  Errors of the database are dropped (`.ok()`), so
any statement of a save or a cleanup may be the first that is not executed, the very first included,
while the daemon goes on (`TornPoints`, `CutOff`); the write of an artifact may fail in the same way
(`StoreArtifact`).  `CrashAndRestart` comes before or after what `unsaved` says, or after a write that was
cut off, which is a crash between two statements; the new daemon hydrates from the tables as they are.
Hydration parses the statuses back, revives Running jobs, and queues everything Ready in any
order (rows come back in the order in which a `HashMap` had them written).  `Shutdown` cancels
and saves every run in progress first; `AllCancelled` has the loop over those runs as one step,
because runs share no jobs, and leaves out the queue and the slots, which end with the process.
Workers end with the daemon since their pipes close.

`ExpireRun` is the cleanup of old runs in the poll tick.  Like the code it looks at the run's status (and
its age, which the model does not have, so that it may come at any tick) and at nothing else.  Runs
that are over may have work under way: hydration queues Ready and revived jobs of a run that was saved
as over, and a run is Completed before the jobs of its plan run (`FindCompleted`).  `remove_run` forgets the jobs
but leaves their ids in `ready_queue`, `active_jobs`, `managed` and events.  `next_job` returns nothing when
it pops such an id (`engine.rs:78`), which ends the spawn loop with slots free and jobs waiting; a
report of a removed job gives its slot back, and its artifact is stored without a run.  `Popped` and
`PopsExactly` of Engine, and every handler, are defined for such ids.  The model counts the cleanups of runs with work
under way (`mishaps.early`, bound `MaxEarly`), and remembers in `since` that there was one since the last
start, since ids that are left behind end with the process.

### WorkerBridge

| Variable | Code |
|---|---|
| `kind` | the use of the worker: an agent, a job, a participant of a channel, or a capsule |
| `held`, `reply` | the daemon's handle; per request, what whoever made it knows |
| `cmdq`, `bridge`, `counter`, `pending`, `routes` | `cmd_rx`, where `worker_bridge` is, `req_counter`, `pending`, `pending_channel` |
| `child`, `hand`, `stdin`, `stdout` | the worker process, the command it is at, its pipes |
| `status`, `reports` | the last state update, and all that the orchestrator was told |

Actions: holders of the handle `Send`, `GiveUp` and `DropHandle`; the task spawns the child,
forwards commands, reads messages, sees the end of either side (`CommandsEnd`, `OutputEnds`),
and then waits for the child (`Reap`); the child builds its agent, takes a line, finishes a
command, dies.  A write to a child that is gone may go unnoticed, as a short line does that fits
the buffer.  For a capsule the task is `spawn_capsule_job`, with every place where it may fail.

### Supervisor

The agent of one name.

| Variable | Code |
|---|---|
| `config` | does the configuration have the agent, and does it start on its own |
| `managed`, `shared` | the daemon's entry and the server's |
| `instances` | the processes that were started for it: phase, and whether it was told to stop |
| `updates`, `commands` | `state_rx`, a bounded queue, and `daemon_cmd_rx` |
| `stopping` | the handle a `post_stop` has taken and not marked yet |

The daemon handles an update, a due restart, a start or restart command, a reload; the
server posts commands, and stops in two steps with a lock for each; instances speak and end
as WorkerBridge has them, and `JobWord` is a job worker whose profile is this agent.

### Gateway and Intake

Gateway has the two locks of `gateway_chat` as two steps (`Arrive`, `Count`), so that an edit
of the settings may come between them.  The bucket, once made, keeps its limit: a later edit
of `rate_limit` has no effect until the daemon restarts (`server.rs:822`).

Intake has the functions that read what others write: `validate_plan` against what
`materialize_plan` makes of the plan, `parse_review_decision`, `extract_json`,
`truncate_history`.  Texts are sequences of tokens (decision words, braces, code marks), so the
searches and slices of the code are searches and slices of sequences, and a slice that ends
before it begins is the panic it is in Rust.  A brace is the token `"open"` or `"close"`, and an object
that the JSON parser accepts is one token.

`ISpec` says what the inputs may be: any plan with finitely many jobs and channels (`Plans`), any
sequence of tokens (`Texts`), any conversation that is questions and answers in turn
(`Conversations`).  TLC is given small sets of each, and `InputsAreGeneral` has it check that they are
among these.

`validate_plan` counts the entries of a turn-based channel's list, not the jobs they name.  So
`ValidPlansMaterialize` says that every entry is resolved, in order, to the job of its name, and leaves
it at that; that a discussion has two different participants is `DiscussionsHavePartners`, which the
code does not keep (`FindMonologue`).

## Runs

All runs set `CHECK_DEADLOCK FALSE`: once the bounds are used up and all runs are
over, the system has nothing left to do.

| Run | Question | Instance, distinct states, time with two workers |
|---|---|---|
| `Faults` | does the bookkeeping of slots, statuses, queue and handles survive crashes, false timeouts, cancellations and the late reports they lead to? | 2 runs, 4 jobs, 2 slots, one of each of these faults (reloads are in `Clean` and `Progress`); 1,057,231; 75 s |
| `Clean` | does the orchestrator implement the scheduler, and keep its promises on queue, attempts and runs, as long as reports are about the attempt in hand? | joins, forks, a reviewer beside another worker, unstaffed profiles, unusable plans; 2 runs, 6 jobs, a crash and a reload; 545,057; 110 s |
| `Progress` | does every Ready job start and every run come to rest? | 1 slot, 2 runs, 4 jobs, a crash, a reload, unusable plans, revisions; 14,651; 50 s |
| `Channels` | what do channels do to the engine, to turns and to completion when calls fail and turns are slow? | one run of up to 3 workers on 3 slots, with isolation none and in capsules, six plans: a debate with a dependent job, a circle of three, a broadcast among three, one job in two channels, a job that debates with itself, a broadcast to one job listed twice; 2 attempts, 1 failed call; 1,043,156; 75 s |
| `Settling` | does a run with channels come to rest after a crash, and do discussions end without one? | the same plans without the broadcast among three, both isolations, a crash, no waiting for a turn that takes too long; 55,735; 75 s |
| `Recovery` | is the database enough to go on from? | 1 slot, 2 runs, 4 jobs, a worker crash, a cancellation, and two of: an end of the daemon, a save or cleanup cut off (one at most), a cleanup of a run with work under way (one at most); 1,527,623; 60 s |
| `Edges` | who asks a worker gets an answer, his own, and is its end told, once and last? is the rate limit exact, is a plan accepted exactly when it can be used whole, are verdicts read? | the four uses of a worker, two chats, a notice, a routed message, a job, a stop, a crash; or 4 requests over three windows with three limits; or every plan of 2 jobs and 1 or 2 channels, every text of up to 9 tokens around one object, every history of 6; 275,302; 55 s |
| `Supervisor` | do daemon and server supervise the same process, within its budget? | one agent, 3 processes, a queue of 2, 2 commands, a reload, one stray word of a process and one of a job worker; 976,784; 115 s |
| `Find*` | four statements of comments and messages that the code does not keep, one each | |

Bounds: `MaxErrors` (failed calls), `MaxRuns`, `MaxJobs` (ids), `MaxCrashes`, `MaxFalseTimeouts`,
`MaxCancels`, `MaxReloads`, in Recovery `MaxMishaps` (ends of the daemon and the next two together),
`MaxCutOffs` (saves and cleanups with a statement that is not executed) and `MaxEarly` (cleanups of runs
with work under way), `MaxInstances`, `MaxCommands`, `MaxChatter`, `MaxJobWords`, `MaxTime`, `MaxInFlight`,
`MaxRequests`, and small values of the program's own `MaxConcurrency` (4 in the
daemon), `MaxAttempts` (3), `MaxRevisions`, `MaxRestarts` and `QueueCapacity`
(256).

Why these bounds are enough to be interesting: two runs compete for the slots
(in `Progress` and `Recovery` for the only one), two attempts are the smallest number with a
retry and a final failure, four jobs are the planners of both runs and two more jobs, which with
a third reaching for two slots makes the limit bite, six let a join or a review with its
revision be complete.  One false timeout already gives two live workers for one job.
In `Channels`, two members are the smallest discussion, three the smallest with survivors,
and two channels that share a member the smallest overlap; the limits of one or two rounds
let a channel both pass a round and close.  The crash and the failed call are in different
runs to keep both small.  A channel of one job listed twice is
the smallest with a repetition.  In `Recovery` two mishaps are two ends of the daemon, so that one comes
while the work the other left is being done again, or a restart and what a write that was cut off or a
cleanup of a hydrated run does to it.  In `Supervisor` three processes are the one that
speaks late, the one in place and its successor, and a queue of two makes senders wait.  In
`Gateway` four requests fill a window of two and come back after it has moved on.
Every action and every disjunct of `Next` fires in the passing runs.

`IdleTimeouts` tells whether a participant that still waits for its turn may be found stale.
It is a premise of `DiscussionsEnd`, not a bound: 120 s is a time the model does not have.
A participant nobody will ever talk to again is found stale in either case.

### The two regimes of Orchestrator

`MaxFalseTimeouts = 0` and `MaxCancels = 0` are a premise of `Clean` and
`Progress`, not a bound.  `ReportsAreCurrent` holds under the premise, and is what
lets handlers ignore which attempt an event belongs to; everything else in `Clean` rests
on it, in the proofs too.  Without the premise those properties fail: a second worker of one job
completes it while the first is under way, a late failure restarts a completed job, a
cancelled job is started again.  What still holds then is checked by `Faults` and proved.
`Recovery` allows a cancellation and no false timeout.

`FailedRunsAreOver` leaves out jobs of a revision.  The failure of the last job of a run may
be decided while a completed reviewer's wish for a revision has yet to be read: the jobs
of the revision then join a run that is already reported Failed (run it without `round = 0`
and TLC shows it in the plan `Beside`).

### Fairness

`Progress` assumes weak fairness, per job, of: the receipt of an event, the
report of a worker whose handle is held, the closing of the bridge of one whose
handle was dropped, the timeout of a job that lost its worker, and a round of the
stale-job loop.  The select loop polls its branches in random order and each handler
ends, the poll tick recurs, and dropping the handle closes the command channel, which
ends the bridge.  `Settling` assumes the same of `Channels`.  One assumption is not the code's:
that the LLM call of a worker returns.  `src/worker.rs` sends heartbeats from a second task while
the call is pending, so a call that hangs is never found stale.

`Edges` assumes weak fairness of each branch of the task's `select!`, which takes them in
random order, and of the child, which runs unless it waits for a line.  `Supervisor` assumes
it of the receipt of updates, the passing of the backoff, the poll tick, the start of a process,
and the end of one that was told to stop or has announced its end.  No fairness is assumed of
commands, users, crashes, reloads or of any particular outcome.

### Disagreements

| Run | The code |
|---|---|
| `FindCompleted` | `mark_completed` decides the run's completion before the plan is materialised: the run says Completed while its work starts, and clients that poll for it fetch an empty result |
| `FindLeak` | a job worker outlives its job: the daemon drops its handle, the bridge leaves its loop and waits for the child with the child's stdin open, the child waits for a line |
| `FindPanic` | a text whose only closing brace stands before its first opening one panics in the daemon's loop, in `extract_json_block` as in `extract_json` |
| `FindMonologue` | a turn-based channel of one job listed twice is accepted, and the job takes turns with itself: `validate_plan` counts entries, though its message says "at least 2 participants" |

More were met while modelling.  The modules do as the code does, and the properties are
stated so that they hold beside them:

* an unusable plan does not mark the run failed, though `daemon.rs:505` says so: the planner is tried again;
* a late `job_failed` restarts a job of a cancelled run (`daemon.rs:579`), and a shutdown or a
  cancellation leaves jobs Ready, which hydration queues for a run that is Cancelled;
* with a false timeout, an old queue entry restarts a completed job (`engine.rs:78`), also while
  jobs that depend on it run, and a job may get more workers than `max_attempts`;
* a job that failed for good does not fail its run while a dependent is Pending, which it stays;
* slots freed by a cancellation stay empty beside a waiting job until the next event, and so do
  all slots after a restart;
* a run whose last job is found Running with no attempt left is made Failed in its job and not in
  its run (`daemon.rs:182`);
* an edit of the configuration drops the handles of all job workers, and stops an agent that a
  user started by hand (`daemon.rs:961`); `config_hash` looks at neither the gateway's settings
  nor `restart_backoff_ms`;
* a participant that waits 120 s for its turn is timed out: the refresh meant for it goes by the
  status of an entry that never turns Idle, because the worker reports under its profile's name
  (`daemon.rs:296`, `733`);
* with `Continue` a failure closes the channel all the same; the survivors are told and never
  completed, they time out, are retried without a channel and fail (`engine.rs:422`);
* a `Stopped` of the process before last marks the one in place for a restart, which is done
  while that one lives and leaves it behind without a handle (`daemon.rs:826`);
* a job of a plan may have the role of a planner, and is then treated as one: with an unusable
  answer it is failed after it was completed, tried again while its dependents run already, and may
  make a run Failed that has work left (`daemon.rs:468`);
* the cleanup of old runs does not look for work under way, which runs that are over may have after a
  restart: the ids that stay behind end the spawn loop, one each, with slots free and jobs waiting
  (`daemon.rs:782`, `engine.rs:78`).  Jobs of a run that is Completed too early (`FindCompleted`) may go
  the same way if it takes longer than the days after which runs are cleaned up;
* in a capsule a participant of a channel executes its job and ignores every message
  (`capsule.rs:264`), so that with any isolation but "none" no discussion takes place and its channels stay
  open, though `capsule.rs:5` says "same IPC protocol as isolation=none mode";
* after an error of the database the daemon goes on as if the row were written (`daemon.rs:702`, `777`);
* the backoff overflows for a `max_restarts` of 64 and more (`daemon.rs:321`).

## Proofs

The theorems hold for every value of the constants, unless one names a hypothesis.  No proof
uses more than the named assumptions of the modules.

`OrchestratorProofs`, for any number of runs, jobs, slots, attempts, plans and faults, from
`EngineAssumption` and `OrchestratorAssumption`:

| Theorem | States |
|---|---|
| `TypeCorrect` | `Spec => []TypeOK` |
| `SlotAccounting` | `Spec => []SlotsMatchJobs`: Running if and only if in a slot |
| `ConcurrencyLimit` | `Spec => []SlotLimit` |
| `ReadyJobsAreQueued` | `Spec => []NoLostReady` |
| `StaleListIsValid` | `Spec => []StaleHoldSlots` |

The inductive invariant `IInv` is the conjunction of the five, and each needs some of the
others.  `SlotLimit` needs to know that an operation frees slots and takes none
outside the spawn loop; `NoLostReady` needs the type invariant, because promotion
must not refer to a job that is not stored; `StaleHoldSlots` needs `SlotsMatchJobs` and
the rule that no handler runs between two rounds; `SlotsMatchJobs` needs
`StaleHoldSlots`, because `ExpireJob` fails a job on the strength of the list.
`Faults` checks exactly these conjuncts; the theorems cover reloads as well.
Each engine operation has a lemma in `EngineProofs`: it keeps `EngineOK` (type,
Running holds slots, Ready is queued, slots bounded) and frees at most the slots it
names.  Operations that change jobs share the lemma `Changes`, those that add jobs share
`Grows`.  `HandlerOK` combines an operation with the spawn loop, `NextOK` has one step
per action, `Invariance` puts them together.

Its second part, from the same assumptions, is about the time before the first cancellation and the
first timeout of a job whose worker is alive: `Undisturbed`, a predicate on the state, since both
are counted in `faults`.  It holds forever where `MaxCancels = 0` and `MaxFalseTimeouts = 0`.
Crashes, reloads, failed calls, unusable plans, unstaffed profiles and revisions are all allowed.

| Theorem | States |
|---|---|
| `CalmReportsAreCurrent` | `Spec => [](Undisturbed => ReportsAreCurrent)` |
| `CalmQueue` | ... `QueueHoldsReadyOnce` |
| `CalmAttempts` | ... `AttemptsBounded` |
| `CalmSlots` | ... `NoIdleSlot` |
| `CalmRunsAreReported` | ... `OverMeansReported` |
| `CalmFailedRuns` | ... `FailedRunsAreOver`, if `Plain` |
| `CalmDependencies` | ... what is Ready, runs or has ended has its dependencies completed, if `Plain` |

The invariant is `CleanInv == IInv /\ (Undisturbed => Attended)`.  `Attended` has four parts that
need each other.  `Orderly` is about the queue, the attempts and the statuses of runs: the queue
has each Ready job once, so that the spawn loop starts no job twice and counts no attempt twice.
`Full`: a job waits only if the slots are taken, unless a stale list is being worked through.
`Current`: a worker or an event is of the current attempt and is the only one of its job.
`Silent`: a job on the stale list has neither, so that the retry the loop brings about
meets no other report of it.  `Current` needs that only a job in a slot is reported, so that a
report finds its job active and `mark_failed` or `mark_completed` does what it says; the queue
needs `Current`, because a job completed or failed twice would be queued twice.
The two theorems that need `Plain` are false without it: a plan with a planner in it is among the
disagreements above.  `Clean` has plans that satisfy it.

`RecoveryProofs`, from the same assumptions and `RecoveryAssumption`, of `RSpec`:

| Theorem | States |
|---|---|
| `RecoveryTypeCorrect` | `RSpec => [](since # "cleanup" => TypeOK)` |
| `RecoverySlotAccounting` | ... `SlotLimit`; and `SlotsMatchJobs`, `StaleHoldSlots` while `since # "cleanup"` |
| `RecoveryReadyJobsAreQueued` | ... `NoLostReady` while `since # "cleanup"` |
| `NoRowIsOrphaned` | ... `NoOrphanRows` |
| `SlotsIdleOnlyAtStartup` | ... `IdleOnlyAtStartup` |
| `NoOutputIsLost` | ... `OutputsAreSaved` while `mishaps.early = 0` |

The premise `since # "cleanup"` leaves out the time from a cleanup of a run with work under way to the next start.
In that time ids of removed jobs are in the queue and in slots, which is just what `TypeOK` and `SlotsMatchJobs`
say is not so; `NoLostReady` is checked by TLC without the premise.  Every other cleanup, crash and cut-off write is
allowed, also before that time and after it.

`SafeInv` has two parts.  `LooseOK` is what holds always: the store is in order (`StoreOK`) whatever ids are
outside it, slots are bounded, and the tables could be hydrated (`DbOK`): rows refer to rows, under ids that were handed
out, and a job that is in the tables and in memory has the same run, role and dependencies there.  While
`since # "cleanup"` there is also `IInv` and a part on free slots.  A start of the daemon has only the tables to
go by, so `LooseOK` is enough to bring `IInv` back.  A handler keeps `DbOK` because of what every
handler amounts to (`Leads`): it changes the run of its event (`Within`), and for the rest starts jobs
that were Ready (`Begins`).  A save that is cut off leaves any set of the run's jobs beside its row;
`WriteOK` holds for any such set, and `DeleteOK` does the same for cleanups.  `RestartOK` shows that what is
hydrated from such tables is an engine in order (`EngineOK`).  Ids of runs that were cleaned up are
missing from it, which is why `EngineType` lets the ids have gaps.

`NoOrphanRows` says of artifacts, too, that they have their job, as long as no save was cut off and
`mishaps.early = 0`; `RowsInv` adds that (`RowsOK`).  Without these premises it is false: a save that is cut off
may leave out a job whose artifact is written next, and an artifact that arrives for a removed job
belongs to no run.  Cleanups may be cut off at any statement.

`OutputInv` adds what holds until a write is cut off or a cleanup is early (`Whole`): tables and memory hold the same
jobs and runs but for those of the run that is being saved or deleted (`DomainsOK`), and in both each
Completed job has an artifact, which is in the tables already (`OutputsOK`).

The second part, from the same assumptions, is about the time before the first timeout of a job whose
worker is alive and the first cleanup of a run with work under way, `Unbroken`.  Cancellations, unrecorded
reports, unusable plans, revisions and all other cleanups are allowed, and as many crashes, restarts and cut-off writes
as there may be.

| Theorem | States |
|---|---|
| `CrashesCostStarts` | `RSpec => [](Unbroken => CrashLosesOnlyStarts)` |
| `SavedWorkStaysDone` | `MaxFalseTimeouts = 0 /\ MaxEarly = 0 => (RSpec => SavedWorkIsKept)` |
| `CrashesKeepDependencies` | `(BadPlans => Plain) => (RSpec => [](Unbroken => DependenciesSurvive))` |

The hypotheses on timeouts and plans are needed.  A timeout that was wrong lets a job run twice, and the second report sets
back what the first has finished and the tables hold.  A planner inside a plan whose own plan is
unusable is completed first, which promotes its dependents, and then failed; so `CrashesKeepDependencies`
asks that, if there are unusable plans, no plan has a planner in it.  (`DependenciesSurvive` itself leaves out
cancellations and cut-off writes, as its comment says.)  That no run is removed with work under way is what the
proofs of `OutputsAreSaved` and of these three use; TLC has found no behaviour of `Recovery` with
such a cleanup that breaks them.

`CrashInv` adds to `OutputInv` what holds until then.  `Steady`: each report that may come is about the attempt in
hand of a job that is neither finished nor in the queue, and is the only one about it; it is weaker than
`Current`, because a cancelled job may be reported, too.  With `QueueOK` and `Silent` this shows that no
handler touches finished work: `Moves` says what each does to its run and whom it starts then, and `Keeps`
that of jobs it changes unfinished ones of its run only.  From this follow `Kept`, that what the tables hold as
Completed is Completed in memory, and, until a save is cut off, `InStep`, that memory is ahead of the tables by
starts only but for the run to be saved, and `DepsDone` for memory and tables.
The step that matters is the save: it writes a run with all jobs of it, hence with the dependencies of
each (`WrittenInStep`, `WrittenDeps`); one cut off draws each row from the tables or from memory
(`Drawn`), both of which have what was completed, so a restart from it keeps that (`RestartKeeps`).

`ChannelsProofs`, of any plans with channels whose turn-based ones list two participants or more and the others
one, in any order and with repetitions, with isolation "none" and in capsules, from `EngineAssumption` and
`ChannelAssumption`:

| Theorem | States |
|---|---|
| `EngineStaysConsistent` | `Spec => []EngineConsistent`: types, Running if and only if in a slot, Ready is queued, slots bounded |
| `TurnsDoNotOverlap` | `Spec => []OneVoice` |
| `CompletionAwaitsChannels` | `Spec => []ChannelsBeforeCompletion`, which is about isolation "none" |

The inductive invariant is `IInv`; TLC checked it on the run `Channels` before it was proved.
Its part that each piece of a handler keeps is `DaemonOK`, which says of the engine that it is in
order (`EngineOK`), and of the rest:

* a channel is between stored jobs, is not both open and closed, and, with isolation "none", is closed if a
  participant has completed (`ChannelOK`);
* with isolation "none", a worker may have been told to execute its job only if the job takes part in no channel
  (`Executed`, `InboxOK`), and only such jobs are reported completed (`Reports`), so that a participant is completed
  with its channels and in no other way;
* nothing is under way in a channel that has yet to open, and in a turn-based one at most one message, in all pipes
  and the event queue together (`Voices`).  `OneVoice` counts messages; `Single` says without counting that any two places
  of one are the same.

A message is under way in one place at a time: it leaves the pipe when it is answered, and the answer leaves
the queue when the turn is passed on.  The first one goes out when the channel opens, and is the first
because no channel opens twice (mutant of `Activatable`).

A job that fails may take others with it, which may be participants of further channels.  The proof
that `FailJob` keeps `DaemonOK` follows the loops: round after round the engine stays in order,
no job completes, and each channel either stays as it was or closes (`CloseOK`).
`CompleteAll` completes participants whose channels have all closed, which is just what
`ChannelsBeforeCompletion` asks; without the check (mutant `FinishesAnyway`) the lemma fails as the run does.

The equations of the loops (`OpenedRounds`, `PeersFailedRounds`, `PeerFailuresRounds`,
`CompletionsRounds`) are proved from the well-foundedness of the numbers
(`NatLessThanWellFounded` and `WFMin`), and so is the rule that carries an invariant from round to round
(`FromZero`), which is stated of a set of rounds instead of a predicate: the library's
theorems on induction take an operator, which the installed provers cannot instantiate.

`SchedulingProofs`, of the abstract scheduler, from the assumption that there are slots and
tries: `NothingStartsEarly` (what runs or has ended has all its dependencies completed),
`TriesAreUsed`, `SlotsAreUsed`, and the action property `CompletedIsFinal`.  The invariant is
their conjunction with the type; that nothing starts early needs that what completed stays
so.

The last part of `OrchestratorProofs`: `ImplementsScheduling`, `Calm /\ Plain => (Spec => SchedulesJobs)`, where `Calm`
is `MaxCancels = 0 /\ MaxFalseTimeouts = 0`.  So the theorems of SchedulingProofs are about the
orchestrator, too, for any number of slots, attempts, runs and jobs.
The lemma `NextRefines` has a step per action: submissions, the completion of a job with what its
plan or review adds, and the failure of a job by report or timeout are steps of the scheduler,
everything else a stutter.  A handler is split in two where the scheduler's step is: what it settles
and adds (`AbsSettles`, `AbsGrows`) and whom the spawn loop starts (`AbsStarts`, `DispatchFills`).
`StartableAbs` is the heart of it: a job may start in the abstract, where its
dependencies say so, exactly if it is in the ready queue.  That rests on `Gated`, by which a job is
Pending exactly as long as a dependency has not completed, so that promotion neither skips a job nor
comes early, and on the queue's having the Ready jobs and no others.

`SupervisorProofs`, from `SupervisorAssumption`: `SupervisorTypes`, `HandlesAgreeAlways`,
`RestartsStayWithinBudget`, `NoDeathIsSilent`.  The invariant adds that an agent about to be restarted has
budget left (`PendingHasBudget`), which is true although updates of any process may come
between the moment the restart is scheduled and the moment it is due, because every update
either schedules it anew, within the budget, or takes it back.  For the last theorem it adds that
once all processes that were ever started are gone, the last word in the queue, or the status if the
queue is empty, is one of an end (`LastWords`).  Updates have no sender, so no stronger statement
about a single process holds; and of `NoStrangers` the proof needs only that no job worker has spoken,
because a process left behind that still lives is one of the older ones the property allows for.

`BridgeProofs`, from `BridgeAssumption`: `AnswersAreOwn`, `DeathsAreReported` and
`AnswersAreReportedOnce`.  For the first, the invariant says that ids only grow (`Numbered`), so that
a line under way cannot be taken for a request that is numbered later, and that what travels under
the id of a request that waits, through `stdin`, the child's hand and back through `stdout`, was sent
for it (`Matching`).  For the last, a request is in one place at a time (`OnePlace`): in the queue,
in `stdin`, in the child's hand, in `stdout`, or reported, and once there; each step takes it from one
place to the next or drops it.  A capsule's task has no such way, but it is done as soon as it has
said something (`SpeaksOnce`).

The first part of `IntakeProofs`, from `GatewayAssumption`: `TheLimitIsExact`, `GSpec => []RateIsExact`.  The window holds
times, and the property counts requests.  `Recorded` says which request each time is of: there is an
increasing map from the window into the log, so that the window is sorted, since requests are counted in the
order of the clock (`Chronicle`), and a passed request that is missing is over a minute old.  The
loop stops at the first entry that is recent (`PurgedAt`), hence pops all that are not; what is left is in
bijection with the requests that passed within the minute (`PurgedCounts`), and the next one passes or not
by the length of it (`CountOK`).

Its second part, from no assumption at all, is about any plan, text and conversation, of any length:

| Theorem | States |
|---|---|
| `PlansAreAcceptedWhole` | `ISpec => []ValidPlansMaterialize` |
| `VerdictsAreRead` | `ISpec => []VerdictIsRead` |
| `ConversationsAreKept` | `ISpec => []HistoryKeepsPairs` |

`Intake` has one step, and what it leaves is what the function makes of the input (`Reading`), so these
are theorems about the functions.

* Plans (what `PlansAreAcceptedWhole` says of turn-based channels is that they have two entries, not
  two jobs): `validate_plan` finds no error if and only if the plan is `Sound` (`NoErrors`).  The ids of a
  sound plan are as many as its jobs, so no two jobs share one (`DistinctIds`), and the loop that gives out ids
  has, round after round, one for each id it has passed (`ResolvedIs`); so nothing that a sound plan refers
  to is missing from what `materialize_plan` makes of it (`SoundIsWhole`).
* Texts: a search has its first or its last hit (`FirstIs`, `LastIs`), so it is known which slice a block
  is, and that the parser gets the object (`ObjectIsFound`).  If there is no object, the words decide.  The
  property says that an approval was said, and the slices, being part of the text, have no word that the
  text has not (`PartOfThree`).
* History: the slice begins at an even place (`EvenSuffix`), which in a conversation is a question.

Model-checked and not proved: liveness, which is out of the prover's reach under fairness.  It
is `ReadyJobStarts` and `RunSettles` in `Progress`, `DiscussionsEnd` in `Settling`, `EveryChatAnswered`,
`StopEnds` and `CapsuleReports` in `Edges`, `ComesBack` in `Supervisor`.  What the `Find*` runs refute
cannot be proved.  Every other property of a run is a theorem.

## Not modelled

* `handle_channel_done`: no worker in the repository sends `channel_done`.
* The rows of channels in the database: hydration loads them without their scheduling state,
  and Recovery has plans without channels.
* Runs with fewer slots than the participants of a channel; what ends such a wait is the
  heartbeat timeout of a participant.  Plans with circular dependencies.
* The length of the backoff, heartbeat intervals and all other times.
* The limits of the queues, but for `state_rx` in Supervisor: nothing comes near them on small
  instances (`spawn_job_worker` would wait for its own loop if 256 events were queued).
* Queries, logs, token counts, the other HTTP handlers, which forward a command: they keep no state
  that an action reads.
* The age of runs: the first cleanup comes an hour after the start at the earliest, and then takes runs that
  were left alone for days.  In the model it may come at any tick, so that it meets every state of a run.
* An edit of the configuration while a run with channels goes on, which could change the isolation between
  two jobs of it.
* The sandbox (ZeptoCapsule) and the LLM libraries, which are external; parsing of the
  configuration file; the command line client.

## Running

```
tlc -config Faults.cfg MCOrchestrator.tla     (Clean, Progress, FindCompleted alike)
tlc -config Channels.cfg MCChannels.tla       (Settling)
tlc -config Recovery.cfg MCRecovery.tla
tlc -config Edges.cfg MCEdges.tla
tlc -config FindLeak.cfg MCBridge.tla
tlc -config Supervisor.cfg MCSupervisor.tla
tlc -config FindPanic.cfg MCIntake.tla        (FindMonologue)
tlapm OrchestratorProofs.tla                  (RecoveryProofs, ChannelsProofs, EngineProofs,
                                               SchedulingProofs, SupervisorProofs, BridgeProofs,
                                               IntakeProofs)
```
