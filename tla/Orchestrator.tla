---------------------------- MODULE Orchestrator ----------------------------
(***************************************************************************)
(* The daemon's orchestration of runs without channels: the select loop of *)
(* src/daemon.rs over the engine (module Engine), the job workers it       *)
(* spawns, and the event queue they report on.                             *)
(*                                                                         *)
(* Every select branch runs to its end before the next one starts, so a    *)
(* handler is one action.  The loop over stale jobs is the exception: it   *)
(* computes its list once and then awaits for each job, so it is one       *)
(* action for the list and one per job, and no other handler runs until    *)
(* the list is done.  Workers are separate processes.  A worker that is    *)
(* told to stop reads the command only after the job in hand, so it may    *)
(* still report; an event names the job and not the attempt, so a handler  *)
(* cannot tell a late report from a current one.                           *)
(***************************************************************************)
EXTENDS Engine

CONSTANTS
  Plans,              \* plans a planner may produce (all pass validate_plan)
  BadPlans,           \* TRUE: a planner may produce an unusable plan
  MaxRuns,            \* bound: runs submitted
  MaxJobs,            \* bound: jobs created
  MaxCrashes,         \* bound: workers that die without a report
  MaxFalseTimeouts,   \* bound: heartbeat timeouts of jobs whose worker lives
  MaxCancels,         \* bound: cancel_run calls
  MaxReloads          \* bound: edits of the configuration file

ASSUME OrchestratorAssumption ==
  /\ \A plan \in Plans :
       /\ plan \in Seq([role : Roles, profile : ProfileNames, deps : Seq(Nat)])
       /\ ValidPlan(plan)
  /\ BadPlans \in BOOLEAN
  /\ {MaxRuns, MaxJobs, MaxCrashes, MaxFalseTimeouts, MaxCancels, MaxReloads}
       \subseteq Nat

VARIABLES
  eng,       \* the OrchestratorEngine
  managed,   \* job ids with a "__job_<id>" entry in the daemon's managed map
  workers,   \* live job workers: [job, attempt]
  events,    \* orchestrator events not yet received: [job, attempt, outcome]
  stale,     \* what is left of the stale-job list the poll tick works through
  faults     \* crashes, false timeouts, cancellations and reloads so far

vars == <<eng, managed, workers, events, stale, faults>>

JobIds == 1..MaxJobs
RunIds == 1..MaxRuns
Outcomes == {"completed", "failed"}

Init ==
  /\ eng = EmptyEngine
  /\ managed = {}
  /\ workers = {}
  /\ events = {}
  /\ stale = {}
  /\ faults = [crash |-> 0, timeout |-> 0, cancel |-> 0, reload |-> 0]

-----------------------------------------------------------------------------
(* The end of a handler that left engine state s, handles m and events ev: *)
(* spawn_job_worker for every job next_job hands out.  A job whose profile *)
(* no configured agent has gets no worker: the daemon queues its failure.  *)
(* A capsule needs no such agent: with any isolation but "none" every job  *)
(* gets a worker, as it does here when Profiles = ProfileNames.            *)

HasProfile(s, j) == s.jobs[j].profile \in Profiles

Launched(s, n) ==
  UNION {{[job |-> j, attempt |-> s.jobs[j].attempt + k] : k \in 1..TimesPopped(s, n, j)} :
           j \in Popped(s, n)}

Dispatch(s, m, ev) ==
  \E n \in 0..Len(s.queue) :
    /\ PopsExactly(s, n)
    /\ eng' = StartPopped(s, n)
    /\ managed' = m \cup {j \in Popped(s, n) : HasProfile(s, j)}
    /\ workers' = workers \cup {w \in Launched(s, n) : HasProfile(s, w.job)}
    /\ events' = ev \cup {[job |-> w.job, attempt |-> w.attempt, outcome |-> "failed"] :
                            w \in {v \in Launched(s, n) : ~HasProfile(s, v.job)}}

\* Faulty: other handlers run while the stale list is being worked through.
AlwaysSelecting == TRUE

\* The select loop is free to receive a command or an event.
Selecting == stale = {}

-----------------------------------------------------------------------------
(* Commands.                                                               *)

SubmitRun ==
  /\ Selecting
  /\ eng.nextRun <= MaxRuns
  /\ eng.nextJob <= MaxJobs
  /\ Dispatch(Submit(eng), managed, events)
  /\ UNCHANGED <<stale, faults>>

\* cancel_run stops the workers it knows of and forgets them; whether and when
\* they stop is up to them.
CancelRun(r) ==
  /\ Selecting
  /\ faults.cancel < MaxCancels
  /\ r \in DOMAIN eng.runs
  /\ eng.runs[r] \in {"Running", "Pending"}
  /\ \E kept \in Listings(KeptEntries(eng, r)) : eng' = Cancel(eng, r, kept)
  /\ managed' = managed \ {j \in JobsOf(eng, r) : eng.jobs[j].status = "Running"}
  /\ faults' = [faults EXCEPT !.cancel = @ + 1]
  /\ UNCHANGED <<workers, events, stale>>

-----------------------------------------------------------------------------
(* Events.                                                                 *)

\* The states in which the jobs of a plan have been added to the planner's run.
Expanded(s, j, plan) ==
  {MaterializePlan(s, s.jobs[j].run, plan, roots) : roots \in Listings(PlanRoots(s, plan))}

\* The states the artifact of a completed planner may lead to.  It is read when
\* the event is handled: no artifact changes nothing, a plan becomes jobs, and
\* an unusable plan marks the already completed planner failed.
Planned(s, j) ==
  {s}
  \cup (UNION {Expanded(s, j, plan) :
                  plan \in {p \in Plans : s.nextJob + Len(p) - 1 <= MaxJobs}})
  \cup {t \in {MarkFailed(s, j)} : BadPlans}

\* The states the decision of a completed reviewer may lead to: approval,
\* rejection and a revision over the limit change nothing.
Reviewed(s, j) ==
  {s} \cup (IF CanRevise(s, j) /\ s.nextJob + 1 <= MaxJobs THEN {Revise(s, j)} ELSE {})

AfterCompletion(s, j) ==
  IF j \notin DOMAIN s.jobs THEN {s}
  ELSE CASE s.jobs[j].role = "planner"  -> Planned(s, j)
         [] s.jobs[j].role = "reviewer" -> Reviewed(s, j)
         [] OTHER                       -> {s}

HandleCompleted(e) ==
  /\ Selecting
  /\ e \in events
  /\ e.outcome = "completed"
  /\ \E order \in Orderings(PromotedBy(eng, e.job)) :
       \E next \in AfterCompletion(MarkCompleted(eng, e.job, order), e.job) :
         Dispatch(next, managed \ {e.job}, events \ {e})
  /\ UNCHANGED <<stale, faults>>

\* Faulty: the failure is delivered again.
HandleFailedTwice(e) ==
  /\ Selecting
  /\ e \in events
  /\ e.outcome = "failed"
  /\ Dispatch(MarkFailed(eng, e.job), managed \ {e.job}, events)
  /\ UNCHANGED <<stale, faults>>

\* Faulty: the slot that is free now is not offered to the queue.
HandleFailedIdle(e) ==
  /\ Selecting
  /\ e \in events
  /\ e.outcome = "failed"
  /\ eng' = MarkFailed(eng, e.job)
  /\ managed' = managed \ {e.job}
  /\ events' = events \ {e}
  /\ UNCHANGED <<workers, stale, faults>>

HandleFailed(e) ==
  /\ Selecting
  /\ e \in events
  /\ e.outcome = "failed"
  /\ Dispatch(MarkFailed(eng, e.job), managed \ {e.job}, events \ {e})
  /\ UNCHANGED <<stale, faults>>

-----------------------------------------------------------------------------
(* The poll tick: jobs without a heartbeat for 120 s.  Whether a heartbeat *)
(* was late is not modelled, so any active job may be on the list; one     *)
(* whose worker is alive or has reported counts as a false timeout.        *)

Lost(j) ==
  \A w \in workers \cup events :
    w.job = j => j \in DOMAIN eng.jobs /\ w.attempt # eng.jobs[j].attempt

CheckHeartbeats(late) ==
  /\ Selecting
  /\ late # {}
  /\ late \subseteq eng.active
  /\ faults' = [faults EXCEPT !.timeout = @ + Cardinality({j \in late : ~Lost(j)})]
  /\ faults'.timeout <= MaxFalseTimeouts
  /\ stale' = late
  /\ UNCHANGED <<eng, managed, workers, events>>

\* Faulty: the worker is stopped but its job is not failed.
ExpireWorkerOnly(j) ==
  /\ j \in stale
  /\ stale' = stale \ {j}
  /\ managed' = managed \ {j}
  /\ UNCHANGED <<eng, workers, events, faults>>

\* One round of the loop, which handles the list in HashMap order.
ExpireJob(j) ==
  /\ j \in stale
  /\ stale' = stale \ {j}
  /\ Dispatch(MarkFailed(eng, j), managed \ {j}, events)
  /\ UNCHANGED faults

\* The poll tick finds the configuration file changed.  apply_config_changes
\* stops and forgets every managed entry that is not an agent of the file, and
\* the job workers' "__job_<id>" entries never are; their jobs keep their slots.
ReloadConfig ==
  /\ Selecting
  /\ faults.reload < MaxReloads
  /\ managed' = {}
  /\ faults' = [faults EXCEPT !.reload = @ + 1]
  /\ UNCHANGED <<eng, workers, events, stale>>

-----------------------------------------------------------------------------
(* Workers.                                                                *)

\* A report on the job in hand; the worker then only waits for commands.
WorkerReport(w, outcome) ==
  /\ w \in workers
  /\ workers' = workers \ {w}
  /\ events' = events \cup {[job |-> w.job, attempt |-> w.attempt, outcome |-> outcome]}
  /\ UNCHANGED <<eng, managed, stale, faults>>

\* The daemon still holds the handle of this worker.
Linked(w) ==
  w.job \in managed /\ (w.job \in DOMAIN eng.jobs => w.attempt = eng.jobs[w.job].attempt)

\* A worker dies without a report, or its process could not be started.
WorkerCrash(w) ==
  /\ w \in workers
  /\ Linked(w)
  /\ faults.crash < MaxCrashes
  /\ workers' = workers \ {w}
  /\ faults' = [faults EXCEPT !.crash = @ + 1]
  /\ UNCHANGED <<eng, managed, events, stale>>

\* Once the daemon has dropped the handle, the worker's bridge stops reading
\* and nothing more is heard of the worker; until then a report may slip out.
BridgeClose(w) ==
  /\ w \in workers
  /\ ~Linked(w)
  /\ workers' = workers \ {w}
  /\ UNCHANGED <<eng, managed, events, stale, faults>>

-----------------------------------------------------------------------------

Next ==
  \/ SubmitRun
  \/ \E r \in RunIds : CancelRun(r)
  \/ \E e \in events : HandleCompleted(e) \/ HandleFailed(e)
  \/ \E late \in SUBSET eng.active : CheckHeartbeats(late)
  \/ \E j \in stale : ExpireJob(j)
  \/ ReloadConfig
  \/ \E w \in workers :
       \/ WorkerCrash(w)
       \/ BridgeClose(w)
       \/ \E o \in Outcomes : WorkerReport(w, o)

Spec == Init /\ [][Next]_vars

\* The select loop keeps receiving, the poll tick keeps coming, a worker whose
\* handle is held reports (its LLM call returns or fails) unless it crashes, and
\* the bridge of one whose handle was dropped closes.
Fairness ==
  /\ \A j \in JobIds :
       /\ WF_vars(\E e \in events : e.job = j /\ (HandleCompleted(e) \/ HandleFailed(e)))
       /\ WF_vars(\E w \in workers : w.job = j /\ Linked(w)
                                     /\ \E o \in Outcomes : WorkerReport(w, o))
       /\ WF_vars(\E w \in workers : w.job = j /\ BridgeClose(w))
       /\ WF_vars(CheckHeartbeats({j}) /\ Lost(j))
       /\ WF_vars(ExpireJob(j))

FairSpec == Spec /\ Fairness

-----------------------------------------------------------------------------
(* Types.                                                                  *)

\* The daemon's state has the shape the store, the queue and the maps give it.
TypeOK ==
  /\ EngineType(eng)
  /\ managed \subseteq DOMAIN eng.jobs
  /\ workers \subseteq [job : DOMAIN eng.jobs, attempt : Nat]
  /\ events \subseteq [job : DOMAIN eng.jobs, attempt : Nat, outcome : Outcomes]
  /\ stale \subseteq DOMAIN eng.jobs
  /\ faults \in [crash : Nat, timeout : Nat, cancel : Nat, reload : Nat]

-----------------------------------------------------------------------------
(* What holds whatever crashes, times out, is cancelled or reports late.   *)

\* A job is marked Running exactly while it holds a slot in active_jobs, and a
\* handle in the managed map belongs to such a job that got a worker: no path
\* frees a slot without settling the job, or settles a job and leaks its slot
\* or its handle.
SlotsMatchJobs ==
  /\ RunningHoldSlots(eng)
  /\ managed \subseteq {j \in eng.active : HasProfile(eng, j)}

\* Never more than max_concurrency jobs hold a slot, with any number of queue
\* entries for one job and a spawn loop that pops several jobs at once.
SlotLimit == Cardinality(eng.active) <= MaxConcurrency

\* A Ready job has an entry in the ready queue, so next_job will come to it: a
\* retry, a promotion or a new plan never leaves a job Ready and forgotten.
\* Only cancel_run takes entries out, and only those of the run it cancels.
NoLostReady == ReadyAreQueued(eng)

\* The stale list never outlives its jobs: each one still holds the slot it
\* held when the list was made, though earlier rounds of the loop have failed
\* and respawned others.
StaleHoldSlots == stale \subseteq eng.active

-----------------------------------------------------------------------------
(* What holds as long as no heartbeat timeout hits a job whose worker is   *)
(* alive and no run is cancelled: then every report is about the attempt   *)
(* in hand.  Crashes, failures, retries and unusable plans are allowed.    *)

\* A report or a live worker always belongs to a job that holds a slot, and to
\* its current attempt; a job has one worker or one report in flight, not two.
\* This is what lets the handlers ignore the attempt an event comes from.
ReportsAreCurrent ==
  \A w \in workers \cup events :
    /\ w.job \in eng.active
    /\ w.attempt = eng.jobs[w.job].attempt
    /\ \A v \in workers \cup events : v.job = w.job => v = w

\* The ready queue holds the Ready jobs, each once: next_job, which does not
\* look at the status, hands out no running or finished job and no job twice.
QueueHoldsReadyOnce ==
  /\ \A j \in Entries(eng.queue) : eng.jobs[j].status = "Ready"
  /\ \A i, k \in DOMAIN eng.queue : eng.queue[i] = eng.queue[k] => i = k

\* Retries stop at max_attempts, and a job is Failed only when it has used
\* them all.
AttemptsBounded ==
  \A j \in DOMAIN eng.jobs :
    /\ eng.jobs[j].attempt <= MaxAttempts
    /\ eng.jobs[j].status = "Failed" => eng.jobs[j].attempt = MaxAttempts

\* A run that is reported Failed has no job in a slot or waiting for one, except
\* those of a revision: check_run_completion counts every unfinished job before
\* it gives up, but the reviewer's decision is read after it.
FailedRunsAreOver ==
  \A j \in DOMAIN eng.jobs :
    eng.runs[eng.jobs[j].run] = "Failed" /\ eng.jobs[j].round = 0 =>
      eng.jobs[j].status \notin Unfinished

\* When the last job of a run with a usable plan is over the run says how it
\* went, although the status may have been set and overwritten several times on
\* the way: Completed if every job completed, Failed otherwise.
OverMeansReported ==
  \A r \in DOMAIN eng.runs :
    /\ \A j \in JobsOf(eng, r) : eng.jobs[j].status \notin Unfinished
    /\ \A j \in JobsOf(eng, r) :
         eng.jobs[j].role = "planner" => eng.jobs[j].status = "Completed"
    => eng.runs[r] = IF \E j \in JobsOf(eng, r) : eng.jobs[j].status = "Failed"
                     THEN "Failed" ELSE "Completed"

\* A job that is waiting has to wait for a slot: whenever the select loop is
\* back at its start, a queued job means that all slots are taken.
NoIdleSlot ==
  Selecting /\ eng.queue # <<>> => Cardinality(eng.active) = MaxConcurrency

\* The jobs as module Scheduling knows them: Pending and Ready is one state, and
\* whether a job may start depends on its dependencies and not on a queue.
AbstractJobs ==
  [j \in DOMAIN eng.jobs |->
     [deps  |-> Entries(eng.jobs[j].deps),
      state |-> CASE eng.jobs[j].status \in {"Pending", "Ready"} -> "waiting"
                  [] eng.jobs[j].status = "Running"              -> "running"
                  [] eng.jobs[j].status = "Completed"            -> "completed"
                  [] eng.jobs[j].status = "Failed"               -> "failed",
      tries |-> eng.jobs[j].attempt]]

Abstract ==
  INSTANCE Scheduling WITH jobs <- AbstractJobs, Slots <- MaxConcurrency, Tries <- MaxAttempts

\* The orchestrator implements the abstract scheduler: whatever the ready queue,
\* promotions, retries, revisions and plans do in one handler amounts to one job
\* giving back its slot, jobs arriving, and startable jobs taking the slots that
\* are free, so that none is started early, twice, too often or after its end.
SchedulesJobs == Abstract!Spec

-----------------------------------------------------------------------------
(* Progress, under the fairness above.                                     *)

HasStatus(j, status) == j \in DOMAIN eng.jobs /\ eng.jobs[j].status = status

\* A Ready job eventually runs: retries and promotions behind it in the queue,
\* crashed workers and unstaffed profiles do not starve it.
ReadyJobStarts == \A j \in JobIds : HasStatus(j, "Ready") ~> HasStatus(j, "Running")

\* Every submitted run comes to rest for good, with no job in a slot or in the
\* queue: a crashed worker does not hold its slot forever, and retries,
\* replanning and revisions end.  Jobs behind a failed one stay Pending.
RunSettles ==
  \A r \in RunIds :
    r \in DOMAIN eng.runs ~>
      [](\A j \in JobsOf(eng, r) : eng.jobs[j].status \notin {"Ready", "Running"})

-----------------------------------------------------------------------------
(* What comments, documents and log messages say of the program and the    *)
(* code does not do.                                                       *)

\* "poll until data.status is Completed, Failed, or Cancelled", then fetch the
\* result (main.rs): a run reported Completed has no work left.
CompletedRunsAreOver ==
  \A j \in DOMAIN eng.jobs :
    eng.runs[eng.jobs[j].run] = "Completed" => eng.jobs[j].status \notin Unfinished
=============================================================================
