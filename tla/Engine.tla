------------------------------- MODULE Engine -------------------------------
(***************************************************************************)
(* The orchestrator engine as operators on its state: the job store, the   *)
(* ready queue and the set of active jobs of OrchestratorEngine            *)
(* (src/orchestrator/engine.rs) with the scheduling helpers it calls       *)
(* (scheduler.rs) and the plan materialisation (planner.rs).  Every        *)
(* operator takes the engine state and returns the one the Rust method     *)
(* leaves behind; the daemon's handlers, which compose these methods, are  *)
(* the actions of module Orchestrator.                                     *)
(*                                                                         *)
(* An engine state is a record                                             *)
(*   jobs     job id -> Job, defined on the ids the store holds            *)
(*   runs     run id -> RunStatus                                          *)
(*   queue    ready_queue                                                  *)
(*   active   the keys of active_jobs (its value is the job's run_id)      *)
(*   nextJob, nextRun   the ids gen_id hands out next                      *)
(* Instructions, artifacts, workspaces and times are left out.             *)
(***************************************************************************)
EXTENDS Naturals, Sequences, FiniteSets

CONSTANTS
  MaxConcurrency,   \* OrchestratorEngine::new(4) in the daemon
  MaxAttempts,      \* Job::max_attempts, 3 for every job
  MaxRevisions,     \* daemon.max_revisions of the configuration
  ProfileNames,     \* what the profile_id of a job may be
  Profiles          \* those of them that name an agent of the configuration

ASSUME EngineAssumption ==
  /\ MaxConcurrency \in Nat \ {0}
  /\ MaxAttempts \in Nat \ {0}
  /\ MaxRevisions \in Nat
  /\ Profiles \subseteq ProfileNames
  /\ "planner" \in ProfileNames      \* the profile submit_run gives its planner

RunStatus == {"Pending", "Running", "Completed", "Failed", "Cancelled"}
JobStatus == {"Pending", "Ready", "Running", "Completed", "Failed"}
Unfinished == {"Pending", "Ready", "Running"}

\* A role is a free string of the plan; the daemon tells these three apart.
Roles == {"planner", "reviewer", "worker"}

EmptyEngine ==
  [jobs |-> <<>>, runs |-> <<>>, queue |-> <<>>, active |-> {},
   nextJob |-> 1, nextRun |-> 1]

-----------------------------------------------------------------------------
(* Sequences and sets.                                                     *)

Entries(q) == {q[i] : i \in DOMAIN q}

\* No element is listed twice.
Distinct(q) == \A i, k \in DOMAIN q : q[i] = q[k] => i = k

\* All the orders in which a HashMap may list the elements of S.
Orderings(S) ==
  {f \in [1..Cardinality(S) -> S] : \A x \in S : \E i \in DOMAIN f : f[i] = x}

\* The one increasing listing of a set of numbers (a set with one element).
Listings(S) ==
  {f \in Orderings(S) : \A i, k \in DOMAIN f : i < k => f[i] < f[k]}

JobsOf(s, r) == {j \in DOMAIN s.jobs : s.jobs[j].run = r}

\* Job records with the next job ids, as store.create_job adds them.
AddJobs(s, recs) ==
  [s EXCEPT
    !.jobs = [j \in DOMAIN s.jobs \cup (s.nextJob .. s.nextJob + Len(recs) - 1) |->
                IF j \in DOMAIN s.jobs THEN s.jobs[j] ELSE recs[j - s.nextJob + 1]],
    !.nextJob = @ + Len(recs)]

SetStatus(jobs, J, status) ==
  [j \in DOMAIN jobs |->
     IF j \in J THEN [jobs[j] EXCEPT !.status = status] ELSE jobs[j]]

NewJob(run, role, profile, status, deps, round) ==
  [run |-> run, role |-> role, profile |-> profile, status |-> status,
   deps |-> deps, attempt |-> 0, round |-> round]

-----------------------------------------------------------------------------
(* scheduler.rs                                                            *)

\* Faulty: one completed dependency is enough.
PromotableByAny(s, r) ==
  {j \in JobsOf(s, r) :
     /\ s.jobs[j].status = "Pending"
     /\ \E d \in Entries(s.jobs[j].deps) :
          d \in DOMAIN s.jobs /\ s.jobs[d].status = "Completed"}

\* The jobs promote_unblocked_jobs turns Ready: a dependency that is not in
\* the store counts as not completed.
Promotable(s, r) ==
  {j \in JobsOf(s, r) :
     /\ s.jobs[j].status = "Pending"
     /\ \A d \in Entries(s.jobs[j].deps) :
          d \in DOMAIN s.jobs /\ s.jobs[d].status = "Completed"}

\* Faulty: the promoted jobs are not queued.
PromoteUnqueued(s, order) ==
  [s EXCEPT !.jobs = SetStatus(@, Entries(order), "Ready")]

\* `order' is the order in which the job map lists the promoted jobs.
PromoteUnblocked(s, order) ==
  [s EXCEPT !.jobs = SetStatus(@, Entries(order), "Ready"), !.queue = @ \o order]

\* Faulty: the first job that fails for good ends the run.
CheckFirstFailure(s, r) ==
  LET own == JobsOf(s, r) IN
  IF \E j \in own : s.jobs[j].status = "Failed" THEN [s EXCEPT !.runs[r] = "Failed"]
  ELSE IF own = {} \/ \E j \in own : s.jobs[j].status \in Unfinished THEN s
  ELSE [s EXCEPT !.runs[r] = "Completed"]

CheckRunCompletion(s, r) ==
  LET own == JobsOf(s, r) IN
  IF own = {} \/ \E j \in own : s.jobs[j].status \in Unfinished
  THEN s
  ELSE [s EXCEPT !.runs[r] = IF \E j \in own : s.jobs[j].status = "Failed"
                             THEN "Failed" ELSE "Completed"]

-----------------------------------------------------------------------------
(* engine.rs                                                               *)

\* Faulty: the run itself is not stored.
SubmitJobOnly(s) ==
  LET added == AddJobs(s, <<NewJob(s.nextRun, "planner", "planner", "Ready", <<>>, 0)>>)
  IN  [added EXCEPT !.nextRun = @ + 1, !.queue = Append(@, s.nextJob)]

\* A Pending run with a Ready planner job in the queue.
Submit(s) ==
  LET added == AddJobs(s, <<NewJob(s.nextRun, "planner", "planner", "Ready", <<>>, 0)>>)
  IN  [added EXCEPT
        !.runs = [r \in DOMAIN s.runs \cup {s.nextRun} |->
                    IF r \in DOMAIN s.runs THEN s.runs[r] ELSE "Pending"],
        !.nextRun = @ + 1,
        !.queue = Append(@, s.nextJob)]

\* The daemon's loop `while let Some(job) = next_job() { mark_running; ... }'
\* pops the first n entries: it stops when every slot is taken, when the queue is
\* empty, or at an entry whose job the store no longer holds, which it drops.
\* next_job looks at neither the job's status nor active_jobs, so one job may be
\* popped twice.
Popped(s, n) == {s.queue[i] : i \in 1..n} \cap DOMAIN s.jobs

\* Faulty: the limit is checked one job too late.
PopsOneTooMany(s, n) ==
  /\ n \in 0..Len(s.queue)
  /\ \A k \in 0..n-1 : Cardinality(s.active \cup Popped(s, k)) <= MaxConcurrency
  /\ n = Len(s.queue) \/ Cardinality(s.active \cup Popped(s, n)) > MaxConcurrency

\* Faulty: `if let' in place of `while let', so that a handler starts one job.
PopsAtMostOne(s, n) ==
  n = IF s.queue = <<>> \/ Cardinality(s.active) >= MaxConcurrency THEN 0 ELSE 1

PopsExactly(s, n) ==
  /\ n \in 0..Len(s.queue)
  /\ \A k \in 0..n-1 : Cardinality(s.active \cup Popped(s, k)) < MaxConcurrency
  /\ \A k \in 1..n-1 : s.queue[k] \in DOMAIN s.jobs
  /\ \/ n = Len(s.queue)
     \/ Cardinality(s.active \cup Popped(s, n)) >= MaxConcurrency
     \/ n > 0 /\ s.queue[n] \notin DOMAIN s.jobs

TimesPopped(s, n, j) == Cardinality({i \in 1..n : s.queue[i] = j})

StartPopped(s, n) ==
  [s EXCEPT
    !.jobs = [j \in DOMAIN s.jobs |->
                IF j \in Popped(s, n)
                THEN [s.jobs[j] EXCEPT !.status = "Running",
                                       !.attempt = @ + TimesPopped(s, n, j)]
                ELSE s.jobs[j]],
    !.runs = [r \in DOMAIN s.runs |->
                IF s.runs[r] = "Pending" /\ \E j \in Popped(s, n) : s.jobs[j].run = r
                THEN "Running" ELSE s.runs[r]],
    !.queue = SubSeq(@, n + 1, Len(@)),
    !.active = @ \cup Popped(s, n)]

\* Faulty: the slot is not given back.
CompletedKeepsSlot(s, j) == [s EXCEPT !.jobs = SetStatus(@, {j}, "Completed")]

\* mark_completed up to the promotion: the slot is freed whatever happens, the
\* job, if it is still stored, is overwritten whatever its status was.
Completed(s, j) ==
  [s EXCEPT !.jobs = SetStatus(@, {j}, "Completed"), !.active = @ \ {j}]

\* What mark_completed promotes: nothing unless the job held a slot.
PromotedBy(s, j) ==
  IF j \in s.active \cap DOMAIN s.jobs
  THEN Promotable(Completed(s, j), s.jobs[j].run) ELSE {}

MarkCompleted(s, j, order) ==
  IF j \in s.active \cap DOMAIN s.jobs
  THEN CheckRunCompletion(PromoteUnblocked(Completed(s, j), order), s.jobs[j].run)
  ELSE Completed(s, j)

\* Faulty: one attempt too many.
MarkFailedOffByOne(s, j) ==
  LET retry == s.jobs[j].attempt <= MaxAttempts
      failed == [s EXCEPT !.jobs = SetStatus(@, {j}, IF retry THEN "Ready" ELSE "Failed"),
                          !.queue = IF retry THEN Append(@, j) ELSE @,
                          !.active = @ \ {j}]
  IN  IF j \in s.active THEN CheckRunCompletion(failed, s.jobs[j].run) ELSE failed

\* Faulty: nobody looks whether the run is over.
MarkFailedOnly(s, j) ==
  LET retry == s.jobs[j].attempt < MaxAttempts
  IN  [s EXCEPT !.jobs = SetStatus(@, {j}, IF retry THEN "Ready" ELSE "Failed"),
                !.queue = IF retry THEN Append(@, j) ELSE @,
                !.active = @ \ {j}]

MarkFailed(s, j) ==
  LET retry == j \in DOMAIN s.jobs /\ s.jobs[j].attempt < MaxAttempts
      failed == [s EXCEPT !.jobs = SetStatus(@, {j}, IF retry THEN "Ready" ELSE "Failed"),
                          !.queue = IF retry THEN Append(@, j) ELSE @,
                          !.active = @ \ {j}]
  IN  IF j \in s.active \cap DOMAIN s.jobs
      THEN CheckRunCompletion(failed, s.jobs[j].run) ELSE failed

\* handle_review_completion creates a revision only for a reviewer whose first
\* dependency is still stored, and only up to MaxRevisions rounds.
CanRevise(s, j) ==
  /\ s.jobs[j].deps # <<>>
  /\ Head(s.jobs[j].deps) \in DOMAIN s.jobs
  /\ s.jobs[j].round + 1 <= MaxRevisions

\* Faulty: the new reviewer is queued along with the new coder.
ReviseBothQueued(s, j) ==
  LET reviewer == s.jobs[j]
      coder == s.jobs[Head(reviewer.deps)]
      round == reviewer.round + 1
      added == AddJobs(s,
        <<NewJob(reviewer.run, coder.role, coder.profile, "Ready", <<>>, round),
          NewJob(reviewer.run, reviewer.role, reviewer.profile, "Pending",
                 <<s.nextJob>>, round)>>)
  IN  [added EXCEPT !.queue = @ \o <<s.nextJob, s.nextJob + 1>>]

Revise(s, j) ==
  LET reviewer == s.jobs[j]
      coder == s.jobs[Head(reviewer.deps)]
      round == reviewer.round + 1
      added == AddJobs(s,
        <<NewJob(reviewer.run, coder.role, coder.profile, "Ready", <<>>, round),
          NewJob(reviewer.run, reviewer.role, reviewer.profile, "Pending",
                 <<s.nextJob>>, round)>>)
  IN  [added EXCEPT !.queue = Append(@, s.nextJob)]

-----------------------------------------------------------------------------
(* planner.rs.  A plan is a sequence of [role, profile, deps], the deps    *)
(* being positions in the plan.  validate_plan asks for a job and for       *)
(* dependencies on other jobs of the plan; it does not look for cycles.    *)

ValidPlan(plan) ==
  /\ plan # <<>>
  /\ \A i \in DOMAIN plan : Entries(plan[i].deps) \subseteq DOMAIN plan \ {i}

PlannedJobs(s, run, plan) ==
  [i \in DOMAIN plan |->
    NewJob(run, plan[i].role, plan[i].profile,
           IF plan[i].deps = <<>> THEN "Ready" ELSE "Pending",
           [k \in DOMAIN plan[i].deps |-> s.nextJob + plan[i].deps[k] - 1], 0)]

\* The plan's jobs that start out Ready, which the daemon queues in plan order.
PlanRoots(s, plan) ==
  {s.nextJob + i - 1 : i \in {k \in DOMAIN plan : plan[k].deps = <<>>}}

MaterializePlan(s, run, plan, roots) ==
  LET added == AddJobs(s, PlannedJobs(s, run, plan))
  IN  [added EXCEPT !.queue = @ \o roots]

-----------------------------------------------------------------------------
(* cancel_run of daemon.rs, which works on the engine state: mark_failed   *)
(* on every unfinished job, in whatever order, then the run's entries are  *)
(* dropped from the queue and the run is Cancelled.  No slot is refilled.  *)

CancelledJobs(s, r) == {j \in JobsOf(s, r) : s.jobs[j].status \in Unfinished}

\* Positions of the queue entries that survive: jobs of other runs.
KeptEntries(s, r) == {i \in DOMAIN s.queue : s.queue[i] \notin JobsOf(s, r)}

Cancel(s, r, kept) ==
  [s EXCEPT
    !.jobs = [j \in DOMAIN s.jobs |->
                IF j \in CancelledJobs(s, r)
                THEN [s.jobs[j] EXCEPT !.status = IF s.jobs[j].attempt < MaxAttempts
                                                  THEN "Ready" ELSE "Failed"]
                ELSE s.jobs[j]],
    !.queue = [i \in DOMAIN kept |-> s.queue[kept[i]]],
    !.active = @ \ CancelledJobs(s, r),
    !.runs[r] = "Cancelled"]

-----------------------------------------------------------------------------
(* What every engine state is, whatever sequence of these methods made it. *)

JobRecords ==
  [run : Nat, role : Roles, profile : ProfileNames, status : JobStatus,
   deps : Seq(Nat), attempt : Nat, round : Nat]

\* The ids of the store have been handed out, and nothing refers to a job or run
\* that it does not hold.  (Only the removal of a run can break the latter, see
\* module Recovery.)
EngineType(s) ==
  LET jobIds == DOMAIN s.jobs
      runIds == DOMAIN s.runs
  IN  /\ s \in [jobs : [jobIds -> JobRecords], runs : [runIds -> RunStatus],
                queue : Seq(jobIds), active : SUBSET jobIds,
                nextJob : Nat \ {0}, nextRun : Nat \ {0}]
      /\ jobIds \subseteq 1..s.nextJob - 1
      /\ runIds \subseteq 1..s.nextRun - 1
      /\ \A j \in jobIds : s.jobs[j].run \in runIds

\* A job is Running exactly while it holds a slot.
RunningHoldSlots(s) ==
  \A j \in DOMAIN s.jobs : j \in s.active <=> s.jobs[j].status = "Running"

\* A Ready job of a run that was not cancelled has an entry in the queue.
ReadyAreQueued(s) ==
  \A j \in DOMAIN s.jobs :
    s.jobs[j].status = "Ready" /\ s.runs[s.jobs[j].run] # "Cancelled"
      => j \in Entries(s.queue)

=============================================================================
