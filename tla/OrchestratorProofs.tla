------------------------- MODULE OrchestratorProofs -------------------------
(***************************************************************************)
(* Proofs about module Orchestrator, for every value of its constants: any *)
(* number of runs, jobs, slots, attempts and faults and any plans.         *)
(*                                                                         *)
(* The first part is about every behaviour.  HandlerOK puts an engine      *)
(* operation and the spawn loop that ends every handler together, and      *)
(* NextOK has one step per action.                                         *)
(*                                                                         *)
(* The second part holds until the first run is cancelled or the first     *)
(* live worker timed out (Undisturbed): reports are about the attempt in   *)
(* hand, the queue holds the Ready jobs once each, attempts are bounded,   *)
(* slots are used, and runs are reported as they went.  Orderly is the     *)
(* part of the inductive invariant that is about the engine: an operation  *)
(* that settles a job keeps it through Settles and Concludes, one that     *)
(* adds jobs through Grows, and the spawn loop through Starts.  What the   *)
(* daemon adds is Attended.                                                *)
(*                                                                         *)
(* The third part shows that the module implements Scheduling, when no     *)
(* run is cancelled, no timeout hits a live worker's job, and no plan      *)
(* contains a planner.  AbsOf reads the abstract job map off an engine     *)
(* state; each engine operation becomes an operator of Scheduling on these *)
(* maps, and the spawn loop becomes FillSlots.                             *)
(***************************************************************************)
EXTENDS Orchestrator, EngineProofs

-----------------------------------------------------------------------------
(* What follows a completion.                                              *)

LEMMA PlansAreValid ==
  \A plan \in Plans : plan \in PlanSteps /\ ValidPlan(plan)
BY OrchestratorAssumption DEF PlanSteps

LEMMA AfterCompletionOK ==
  ASSUME NEW s, EngineOK(s), NEW j \in DOMAIN s.jobs, j \notin s.active,
         NEW next \in AfterCompletion(s, j)
  PROVE  EngineOK(next) /\ Freed(s, next, {})
<1>1. CASE next = s
  BY <1>1 DEF Freed
<1>2. CASE \E plan \in Plans : \E roots \in Listings(PlanRoots(s, plan)) :
             next = MaterializePlan(s, s.jobs[j].run, plan, roots)
  <2>1. s.jobs[j].run \in DOMAIN s.runs
    BY TypeParts DEF EngineOK
  <2> QED BY <1>2, <2>1, PlansAreValid, MaterializePlanOK
<1>3. CASE next = MarkFailed(s, j)
  <2>1. s.active \ {j} = s.active \ {}
    OBVIOUS
  <2>2. EngineOK(next) /\ Freed(s, next, {j})
    BY <1>3, MarkFailedOK
  <2> QED BY <2>1, <2>2 DEF Freed
<1>4. CASE CanRevise(s, j) /\ next = Revise(s, j)
  BY <1>4, ReviseOK
<1>5. next = s \/ next \in Planned(s, j) \/ next \in Reviewed(s, j)
  BY DEF AfterCompletion
<1>6. CASE next \in Planned(s, j)
  <2>1. next = s \/ next = MarkFailed(s, j) \/ \E plan \in Plans : next \in Expanded(s, j, plan)
    BY <1>6 DEF Planned
  <2>2. ASSUME NEW plan \in Plans, next \in Expanded(s, j, plan)
        PROVE  \E roots \in Listings(PlanRoots(s, plan)) :
                 next = MaterializePlan(s, s.jobs[j].run, plan, roots)
    BY <2>2 DEF Expanded
  <2> QED BY <1>1, <1>2, <1>3, <2>1, <2>2
<1>7. CASE next \in Reviewed(s, j)
  BY <1>1, <1>4, <1>7 DEF Reviewed
<1> QED BY <1>1, <1>5, <1>6, <1>7

-----------------------------------------------------------------------------
(* The daemon's maps, and the invariant.                                   *)

\* The jobs the managed map may hold a handle for in engine state s.
Handles(s) == {j \in s.active : HasProfile(s, j)}

\* Worker and event records about the jobs J.
WorkerType(J) == [job : J, attempt : Nat]
EventType(J) == [job : J, attempt : Nat, outcome : Outcomes]

LEMMA FreedHandles ==
  ASSUME NEW s, NEW t, NEW J, EngineType(s), Freed(s, t, J)
  PROVE  Handles(t) = Handles(s) \ J
<1>1. s.active \subseteq DOMAIN s.jobs
  BY TypeParts
<1> QED BY <1>1 DEF Freed, Handles, HasProfile

\* Records about some jobs are records about more jobs.
LEMMA MoreJobs ==
  ASSUME NEW J, NEW K, J \subseteq K
  PROVE  WorkerType(J) \subseteq WorkerType(K) /\ EventType(J) \subseteq EventType(K)
BY DEF WorkerType, EventType

LEMMA LaunchedType ==
  ASSUME NEW s, EngineType(s), NEW n \in 0..Len(s.queue)
  PROVE  Launched(s, n) \subseteq WorkerType(DOMAIN s.jobs)
<1> SUFFICES ASSUME NEW w \in Launched(s, n)
             PROVE  w \in WorkerType(DOMAIN s.jobs)
  OBVIOUS
<1>0. PICK j \in Popped(s, n) : \E k \in 1..TimesPopped(s, n, j) :
        w = [job |-> j, attempt |-> s.jobs[j].attempt + k]
  BY DEF Launched
<1>1. PICK k \in 1..TimesPopped(s, n, j) : w = [job |-> j, attempt |-> s.jobs[j].attempt + k]
  BY <1>0
<1>2. j \in DOMAIN s.jobs /\ s.jobs[j] \in JobRecords /\ TimesPopped(s, n, j) \in Nat
  BY PoppedJobs, TypeParts
<1>3. s.jobs[j].attempt + k \in Nat
  BY <1>2 DEF JobRecords
<1> QED BY <1>1, <1>2, <1>3 DEF WorkerType

\* The end of every handler.
LEMMA DispatchOK ==
  ASSUME NEW s, EngineOK(s),
         NEW m \in SUBSET Handles(s),
         NEW ev \in SUBSET EventType(DOMAIN s.jobs),
         workers \subseteq WorkerType(DOMAIN s.jobs),
         Dispatch(s, m, ev)
  PROVE  /\ EngineOK(eng')
         /\ DOMAIN eng'.jobs = DOMAIN s.jobs
         /\ s.active \subseteq eng'.active
         /\ managed' \subseteq Handles(eng')
         /\ workers' \subseteq WorkerType(DOMAIN eng'.jobs)
         /\ events' \subseteq EventType(DOMAIN eng'.jobs)
<1>1. PICK n \in 0..Len(s.queue) :
        /\ PopsExactly(s, n)
        /\ eng' = StartPopped(s, n)
        /\ managed' = m \cup {j \in Popped(s, n) : HasProfile(s, j)}
        /\ workers' = workers \cup {w \in Launched(s, n) : HasProfile(s, w.job)}
        /\ events' = ev \cup {[job |-> w.job, attempt |-> w.attempt, outcome |-> "failed"] :
                                w \in {v \in Launched(s, n) : ~HasProfile(s, v.job)}}
  BY DEF Dispatch
<1>2. /\ EngineOK(eng')
      /\ DOMAIN eng'.jobs = DOMAIN s.jobs
      /\ \A j \in DOMAIN s.jobs : eng'.jobs[j].profile = s.jobs[j].profile
      /\ eng'.active = s.active \cup Popped(s, n)
  BY <1>1, StartPoppedOK
<1>3. /\ s.active \subseteq DOMAIN s.jobs /\ Popped(s, n) \subseteq DOMAIN s.jobs
      /\ Launched(s, n) \subseteq WorkerType(DOMAIN s.jobs)
  BY PoppedJobs, LaunchedType, TypeParts DEF EngineOK
<1>4. managed' \subseteq Handles(eng')
  BY <1>1, <1>2, <1>3 DEF Handles, HasProfile
<1>5. workers' \subseteq WorkerType(DOMAIN s.jobs)
  BY <1>1, <1>3
<1>6. ASSUME NEW w \in Launched(s, n)
      PROVE  [job |-> w.job, attempt |-> w.attempt, outcome |-> "failed"] \in EventType(DOMAIN s.jobs)
  BY <1>3 DEF WorkerType, EventType, Outcomes
<1>7. events' \subseteq EventType(DOMAIN s.jobs)
  BY <1>1, <1>6
<1> QED BY <1>2, <1>4, <1>5, <1>7

\* The inductive invariant: the daemon-wide type and the four invariants that
\* hold under every fault need each other and nothing else.
IInv ==
  /\ TypeOK
  /\ SlotsMatchJobs
  /\ SlotLimit
  /\ NoLostReady
  /\ StaleHoldSlots

\* The same, sorted by variable.
IInvByVariable ==
  /\ EngineOK(eng)
  /\ managed \subseteq Handles(eng)
  /\ workers \subseteq WorkerType(DOMAIN eng.jobs)
  /\ events \subseteq EventType(DOMAIN eng.jobs)
  /\ stale \subseteq eng.active
  /\ faults \in [crash : Nat, timeout : Nat, cancel : Nat, reload : Nat]

LEMMA IInvParts == IInv <=> IInvByVariable
<1>1. ASSUME EngineType(eng) PROVE eng.active \subseteq DOMAIN eng.jobs
  BY <1>1, TypeParts
<1>2. managed \subseteq Handles(eng) /\ eng.active \subseteq DOMAIN eng.jobs
        => managed \subseteq DOMAIN eng.jobs
  BY DEF Handles
<1> QED BY <1>1, <1>2 DEF IInv, TypeOK, SlotsMatchJobs, SlotLimit, NoLostReady, StaleHoldSlots,
                          EngineOK, Handles, WorkerType, EventType, IInvByVariable

\* A handler that leaves engine state s behind and then hands out jobs.
LEMMA HandlerOK ==
  ASSUME IInv, NEW s, NEW J, EngineOK(s), Freed(eng, s, J),
         NEW ev \in SUBSET events,
         Dispatch(s, managed \ J, ev),
         stale' \subseteq eng.active \ J,
         faults' = faults
  PROVE  IInv'
<1>1. /\ EngineOK(eng) /\ managed \subseteq Handles(eng)
      /\ workers \subseteq WorkerType(DOMAIN eng.jobs)
      /\ events \subseteq EventType(DOMAIN eng.jobs)
      /\ faults \in [crash : Nat, timeout : Nat, cancel : Nat, reload : Nat]
  BY IInvParts DEF IInvByVariable
<1>2. DOMAIN eng.jobs \subseteq DOMAIN s.jobs /\ s.active = eng.active \ J
  BY DEF Freed
<1>3. workers \subseteq WorkerType(DOMAIN s.jobs) /\ ev \subseteq EventType(DOMAIN s.jobs)
  BY <1>1, <1>2, MoreJobs
<1>4. managed \ J \subseteq Handles(s)
  BY <1>1, FreedHandles DEF EngineOK
<1>5. /\ EngineOK(eng')
      /\ s.active \subseteq eng'.active
      /\ managed' \subseteq Handles(eng')
      /\ workers' \subseteq WorkerType(DOMAIN eng'.jobs)
      /\ events' \subseteq EventType(DOMAIN eng'.jobs)
  BY <1>3, <1>4, DispatchOK
<1>6. stale' \subseteq eng'.active
  BY <1>2, <1>5
<1>7. IInvByVariable'
  BY <1>1, <1>5, <1>6 DEF IInvByVariable
<1> QED BY <1>7, IInvParts, PTL

LEMMA InitOK == Init => IInv
<1> SUFFICES ASSUME Init PROVE IInvByVariable
  BY IInvParts
<1> DEFINE s == EmptyEngine
<1>1. EngineOK(s) /\ s.active = {}
  BY EmptyEngineOK
<1> HIDE DEF s
<1>2. Handles(s) = {}
  BY <1>1 DEF Handles
<1> QED BY <1>1, <1>2 DEF Init, IInvByVariable, s

LEMMA NextOK == IInv /\ [Next]_vars => IInv'
<1> SUFFICES ASSUME IInv, [Next]_vars PROVE IInv'
  OBVIOUS
<1>0. /\ EngineOK(eng) /\ managed \subseteq Handles(eng)
      /\ workers \subseteq WorkerType(DOMAIN eng.jobs)
      /\ events \subseteq EventType(DOMAIN eng.jobs)
      /\ stale \subseteq eng.active
      /\ faults \in [crash : Nat, timeout : Nat, cancel : Nat, reload : Nat]
  BY IInvParts DEF IInvByVariable
<1>1. CASE SubmitRun
  <2>1. EngineOK(Submit(eng)) /\ Freed(eng, Submit(eng), {})
    BY <1>0, SubmitOK
  <2>2. managed = managed \ {} /\ stale' \subseteq eng.active \ {}
    BY <1>1 DEF SubmitRun, Selecting
  <2> QED BY <1>1, <2>1, <2>2, HandlerOK DEF SubmitRun
<1>2. ASSUME NEW r \in RunIds, CancelRun(r) PROVE IInv'
  <2>1. PICK kept \in Listings(KeptEntries(eng, r)) : eng' = Cancel(eng, r, kept)
    BY <1>2 DEF CancelRun
  <2>2. EngineOK(eng') /\ Freed(eng, eng', CancelledJobs(eng, r))
    BY <1>0, <1>2, <2>1, CancelOK DEF CancelRun
  <2>3. managed' \subseteq Handles(eng')
    <3>1. Handles(eng') = Handles(eng) \ CancelledJobs(eng, r)
      BY <1>0, <2>2, FreedHandles DEF EngineOK
    <3>2. \A j \in Handles(eng) :
            j \in CancelledJobs(eng, r) <=> j \in JobsOf(eng, r) /\ eng.jobs[j].status = "Running"
      BY <1>0, TypeParts DEF EngineOK, RunningHoldSlots, Handles, CancelledJobs, JobsOf, Unfinished
    <3>3. managed' = managed \ {j \in JobsOf(eng, r) : eng.jobs[j].status = "Running"}
      BY <1>2 DEF CancelRun
    <3> QED BY <1>0, <3>1, <3>2, <3>3
  <2>4. workers' \subseteq WorkerType(DOMAIN eng'.jobs) /\ events' \subseteq EventType(DOMAIN eng'.jobs)
    BY <1>0, <1>2, <2>2, MoreJobs DEF CancelRun, Freed
  <2>5. stale' = {} /\ faults' \in [crash : Nat, timeout : Nat, cancel : Nat, reload : Nat]
    BY <1>0, <1>2 DEF CancelRun, Selecting
  <2>6. IInvByVariable'
    BY <2>2, <2>3, <2>4, <2>5 DEF IInvByVariable
  <2> QED BY <2>6, IInvParts, PTL
<1>3. ASSUME NEW e \in events, HandleCompleted(e) PROVE IInv'
  <2> DEFINE j == e.job
  <2>1. j \in DOMAIN eng.jobs
    BY <1>0 DEF EventType
  <2>2. PICK order \in Orderings(PromotedBy(eng, j)) :
          \E next \in AfterCompletion(MarkCompleted(eng, j, order), j) :
            Dispatch(next, managed \ {j}, events \ {e})
    BY <1>3 DEF HandleCompleted
  <2> DEFINE done == MarkCompleted(eng, j, order)
  <2>3. PICK next \in AfterCompletion(done, j) : Dispatch(next, managed \ {j}, events \ {e})
    BY <2>2
  <2>4. EngineOK(done) /\ Freed(eng, done, {j})
    BY <1>0, <2>1, MarkCompletedOK
  <2> HIDE DEF done
  <2>5. EngineOK(next) /\ Freed(done, next, {})
    BY <2>1, <2>4, AfterCompletionOK DEF Freed
  <2>6. Freed(eng, next, {j})
    BY <2>4, <2>5 DEF Freed
  <2>7. stale' \subseteq eng.active \ {j} /\ faults' = faults /\ events \ {e} \in SUBSET events
    BY <1>3 DEF HandleCompleted, Selecting
  <2> HIDE DEF j
  <2> QED BY <2>3, <2>5, <2>6, <2>7, HandlerOK
<1>4. ASSUME NEW e \in events, HandleFailed(e) PROVE IInv'
  <2> DEFINE j == e.job
  <2>1. j \in DOMAIN eng.jobs
    BY <1>0 DEF EventType
  <2>2. EngineOK(MarkFailed(eng, j)) /\ Freed(eng, MarkFailed(eng, j), {j})
    BY <1>0, <2>1, MarkFailedOK
  <2>3. Dispatch(MarkFailed(eng, j), managed \ {j}, events \ {e})
    BY <1>4 DEF HandleFailed
  <2>4. stale' \subseteq eng.active \ {j} /\ faults' = faults /\ events \ {e} \in SUBSET events
    BY <1>4 DEF HandleFailed, Selecting
  <2> HIDE DEF j
  <2> QED BY <2>2, <2>3, <2>4, HandlerOK
<1>5. ASSUME NEW late \in SUBSET eng.active, CheckHeartbeats(late) PROVE IInv'
  <2>1. Cardinality({j \in late : ~Lost(j)}) \in Nat
    <3>1. IsFiniteSet(eng.active)
      BY <1>0, FiniteIds DEF EngineOK
    <3>2. IsFiniteSet({j \in late : ~Lost(j)})
      BY <3>1, FS_Subset
    <3> QED BY <3>2, FS_CardinalityType
  <2>2. faults' \in [crash : Nat, timeout : Nat, cancel : Nat, reload : Nat]
    BY <1>0, <1>5, <2>1 DEF CheckHeartbeats
  <2>3. IInvByVariable'
    BY <1>0, <1>5, <2>2 DEF CheckHeartbeats, IInvByVariable
  <2> QED BY <2>3, IInvParts, PTL
<1>6. ASSUME NEW j \in stale, ExpireJob(j) PROVE IInv'
  <2>1. j \in DOMAIN eng.jobs
    BY <1>0, TypeParts DEF EngineOK
  <2>2. EngineOK(MarkFailed(eng, j)) /\ Freed(eng, MarkFailed(eng, j), {j})
    BY <1>0, <2>1, MarkFailedOK
  <2>3. Dispatch(MarkFailed(eng, j), managed \ {j}, events) /\ faults' = faults
    BY <1>6 DEF ExpireJob
  <2>4. stale' \subseteq eng.active \ {j} /\ events \in SUBSET events
    BY <1>0, <1>6 DEF ExpireJob
  <2> QED BY <2>2, <2>3, <2>4, HandlerOK
<1>7. ASSUME NEW w \in workers, WorkerCrash(w) \/ BridgeClose(w) PROVE IInv'
  <2>1. faults' \in [crash : Nat, timeout : Nat, cancel : Nat, reload : Nat]
    BY <1>0, <1>7 DEF WorkerCrash, BridgeClose
  <2>2. IInvByVariable'
    BY <1>0, <1>7, <2>1 DEF WorkerCrash, BridgeClose, IInvByVariable
  <2> QED BY <2>2, IInvParts, PTL
<1>8. ASSUME NEW w \in workers, NEW o \in Outcomes, WorkerReport(w, o) PROVE IInv'
  <2>1. [job |-> w.job, attempt |-> w.attempt, outcome |-> o] \in EventType(DOMAIN eng.jobs)
    BY <1>0 DEF WorkerType, EventType
  <2>2. IInvByVariable'
    BY <1>0, <1>8, <2>1 DEF WorkerReport, IInvByVariable
  <2> QED BY <2>2, IInvParts, PTL
<1>9. CASE ReloadConfig
  <2>1. faults' \in [crash : Nat, timeout : Nat, cancel : Nat, reload : Nat]
    BY <1>0, <1>9 DEF ReloadConfig
  <2>2. IInvByVariable'
    BY <1>0, <1>9, <2>1 DEF ReloadConfig, IInvByVariable
  <2> QED BY <2>2, IInvParts, PTL
<1>10. CASE UNCHANGED vars
  <2>1. IInvByVariable'
    BY <1>0, <1>10 DEF vars, IInvByVariable
  <2> QED BY <2>1, IInvParts, PTL
<1> QED BY <1>1, <1>2, <1>3, <1>4, <1>5, <1>6, <1>7, <1>8, <1>9, <1>10 DEF Next

-----------------------------------------------------------------------------

\* The inductive invariant holds in every behaviour of the daemon.
LEMMA Invariance == Spec => []IInv
BY InitOK, NextOK, PTL DEF Spec

\* For any number of runs, jobs, slots and attempts and any plans, the engine,
\* the managed map and the event queue stay well-formed: every id they hold is
\* the id of a stored job, and every stored job belongs to a stored run.
THEOREM TypeCorrect == Spec => []TypeOK
<1>1. IInv => TypeOK
  BY DEF IInv
<1> QED BY <1>1, Invariance, PTL

\* No event, timeout, cancellation or late report, in any order and of any
\* number, makes a slot or a worker handle leak or frees one whose job is still
\* marked Running.
THEOREM SlotAccounting == Spec => []SlotsMatchJobs
<1>1. IInv => SlotsMatchJobs
  BY DEF IInv
<1> QED BY <1>1, Invariance, PTL

\* max_concurrency is never exceeded, however many queue entries a job has and
\* however many jobs the spawn loop at the end of a handler hands out.
THEOREM ConcurrencyLimit == Spec => []SlotLimit
<1>1. IInv => SlotLimit
  BY DEF IInv
<1> QED BY <1>1, Invariance, PTL

\* No job of a run that was not cancelled is ever Ready without a queue entry.
THEOREM ReadyJobsAreQueued == Spec => []NoLostReady
<1>1. IInv => NoLostReady
  BY DEF IInv
<1> QED BY <1>1, Invariance, PTL

\* The stale list that the poll tick works through across its awaits names only
\* jobs that still hold a slot.
THEOREM StaleListIsValid == Spec => []StaleHoldSlots
<1>1. IInv => StaleHoldSlots
  BY DEF IInv
<1> QED BY <1>1, Invariance, PTL

-----------------------------------------------------------------------------
(* An undisturbed daemon.                                                  *)

\* Only submit_run makes planners.
Plain == \A plan \in Plans : \A i \in DOMAIN plan : plan[i].role # "planner"

-----------------------------------------------------------------------------
(* Engine states.                                                          *)

\* QueueHoldsReadyOnce.
QueueOK(s) ==
  /\ \A j \in Entries(s.queue) : s.jobs[j].status = "Ready"
  /\ Distinct(s.queue)

\* AttemptsBounded, and a job that is to start has an attempt left.
AttemptsOK(s) ==
  \A j \in DOMAIN s.jobs :
    /\ s.jobs[j].attempt <= MaxAttempts
    /\ s.jobs[j].status = "Failed" => s.jobs[j].attempt = MaxAttempts
    /\ s.jobs[j].status \in {"Pending", "Ready"} => s.jobs[j].attempt < MaxAttempts

\* A job depends on jobs of its run.
DepsOK(s) ==
  \A j \in DOMAIN s.jobs : \A d \in Entries(s.jobs[j].deps) :
    d \in DOMAIN s.jobs /\ s.jobs[d].run = s.jobs[j].run

\* OverMeansReported for run r.
Reported(s, r) ==
  /\ \A j \in JobsOf(s, r) : s.jobs[j].status \notin Unfinished
  /\ \A j \in JobsOf(s, r) : s.jobs[j].role = "planner" => s.jobs[j].status = "Completed"
  => s.runs[r] = IF \E j \in JobsOf(s, r) : s.jobs[j].status = "Failed"
                 THEN "Failed" ELSE "Completed"

\* A run has jobs, is not cancelled, and when it is over it is reported.
RunsOK(s) ==
  \A r \in DOMAIN s.runs :
    JobsOf(s, r) # {} /\ s.runs[r] # "Cancelled" /\ Reported(s, r)

\* A job is Pending exactly while it has to wait for a dependency.
Gated(s) ==
  \A j \in DOMAIN s.jobs :
    s.jobs[j].status = "Pending"
      <=> \E d \in Entries(s.jobs[j].deps) : s.jobs[d].status # "Completed"

\* Nothing depends on a planner, and while it is unfinished its run has no
\* other job.
PlannersOK(s) ==
  \A j \in DOMAIN s.jobs : s.jobs[j].role = "planner" =>
    /\ \A i \in DOMAIN s.jobs : j \notin Entries(s.jobs[i].deps)
    /\ s.jobs[j].status \in Unfinished => JobsOf(s, s.jobs[j].run) = {j}

\* FailedRunsAreOver.
FailedOver(s) ==
  \A j \in DOMAIN s.jobs :
    s.runs[s.jobs[j].run] = "Failed" /\ s.jobs[j].round = 0 =>
      s.jobs[j].status \notin Unfinished

\* What plans without planners add.
PlainOK(s) == Gated(s) /\ PlannersOK(s) /\ FailedOver(s)

Orderly(s) ==
  /\ EngineOK(s)
  /\ QueueOK(s)
  /\ AttemptsOK(s)
  /\ DepsOK(s)
  /\ RunsOK(s)
  /\ Plain => PlainOK(s)

-----------------------------------------------------------------------------
(* Operations that settle a job.                                           *)

\* The jobs that wait for j alone.
Waiters(s, j) ==
  {i \in JobsOf(s, s.jobs[j].run) :
     /\ s.jobs[i].status = "Pending"
     /\ \A d \in Entries(s.jobs[i].deps) : d = j \/ s.jobs[d].status = "Completed"}

\* The statuses a job may be left with when its attempt is over.
Verdict(job, status) ==
  /\ status \in {"Completed", "Ready", "Failed"}
  /\ status = "Ready" => job.attempt < MaxAttempts
  /\ status = "Failed" => job.attempt = MaxAttempts

\* What a step does to queue, attempts and dependencies does not hang on the runs.
LEMMA SettlesBasics ==
  ASSUME NEW s, NEW t, Orderly(s), NEW j \in DOMAIN s.jobs, NEW status,
         Verdict(s.jobs[j], status), s.jobs[j].status # "Ready",
         NEW new \in SUBSET {i \in DOMAIN s.jobs : i # j /\ s.jobs[i].status = "Pending"},
         Settles(s, t, j, status, new)
  PROVE  QueueOK(t) /\ AttemptsOK(t) /\ DepsOK(t)
<1>1. Entries(s.queue) \subseteq DOMAIN s.jobs
  BY TypeParts, EntriesOfSeq DEF Orderly, EngineOK
<1>2. /\ \A i \in Entries(s.queue) : s.jobs[i].status = "Ready"
      /\ Distinct(s.queue)
  BY DEF Orderly, QueueOK
<1>3. j \notin Entries(s.queue) /\ new \cap Entries(s.queue) = {}
  BY <1>2
<1>4. QueueOK(t)
  BY <1>1, <1>2, <1>3 DEF Settles, QueueOK
<1>5. AttemptsOK(t)
  <2> SUFFICES ASSUME NEW i \in DOMAIN s.jobs
               PROVE  /\ t.jobs[i].attempt <= MaxAttempts
                      /\ t.jobs[i].status = "Failed" => t.jobs[i].attempt = MaxAttempts
                      /\ t.jobs[i].status \in {"Pending", "Ready"} => t.jobs[i].attempt < MaxAttempts
    BY DEF Settles, AttemptsOK
  <2>1. /\ s.jobs[i].attempt <= MaxAttempts
        /\ s.jobs[i].status = "Failed" => s.jobs[i].attempt = MaxAttempts
        /\ s.jobs[i].status \in {"Pending", "Ready"} => s.jobs[i].attempt < MaxAttempts
    BY DEF Orderly, AttemptsOK
  <2>2. t.jobs[i].attempt = s.jobs[i].attempt
    BY DEF Settles, SameJob
  <2>3. t.jobs[i].status = IF i = j THEN status
                           ELSE IF i \in new THEN "Ready" ELSE s.jobs[i].status
    BY DEF Settles
  <2> QED BY <2>1, <2>2, <2>3 DEF Verdict
<1>6. DepsOK(t)
  BY DEF Orderly, DepsOK, Settles, SameJob
<1> QED BY <1>4, <1>5, <1>6

\* The jobs that wait for j alone stop waiting when it completes, and no job
\* that had all its dependencies loses one.
LEMMA SettlesGated ==
  ASSUME NEW s, NEW t, Orderly(s), Gated(s), NEW j \in DOMAIN s.jobs,
         s.jobs[j].status = "Running", NEW status, Verdict(s.jobs[j], status), NEW new,
         new = (IF status = "Completed" THEN Waiters(s, j) ELSE {}),
         Settles(s, t, j, status, new)
  PROVE  Gated(t)
<1> SUFFICES ASSUME NEW i \in DOMAIN s.jobs
             PROVE  t.jobs[i].status = "Pending"
                      <=> \E d \in Entries(t.jobs[i].deps) : t.jobs[d].status # "Completed"
  BY DEF Settles, Gated
<1>1. /\ DOMAIN t.jobs = DOMAIN s.jobs
      /\ \A k \in DOMAIN s.jobs : t.jobs[k].deps = s.jobs[k].deps
      /\ \A k \in DOMAIN s.jobs :
           t.jobs[k].status = IF k = j THEN status ELSE IF k \in new THEN "Ready" ELSE s.jobs[k].status
  BY DEF Settles, SameJob
<1>2. \A k \in DOMAIN s.jobs :
        s.jobs[k].status = "Pending"
          <=> \E d \in Entries(s.jobs[k].deps) : s.jobs[d].status # "Completed"
  BY DEF Gated
<1>3. \A d \in Entries(s.jobs[i].deps) : d \in DOMAIN s.jobs /\ s.jobs[d].run = s.jobs[i].run
  BY DEF Orderly, DepsOK
<1>4. /\ new \subseteq DOMAIN s.jobs
      /\ \A k \in new : s.jobs[k].status = "Pending"
  BY DEF Waiters, JobsOf
<1>5. \A d \in DOMAIN s.jobs :
        t.jobs[d].status = "Completed"
          <=> s.jobs[d].status = "Completed" \/ (d = j /\ status = "Completed")
  BY <1>1, <1>4
<1>6. status # "Pending" /\ j \notin new
  BY <1>4 DEF Verdict
<1>7. CASE s.jobs[i].status # "Pending"
  BY <1>1, <1>2, <1>3, <1>4, <1>5, <1>6, <1>7
<1>8. CASE s.jobs[i].status = "Pending" /\ i \in new
  <2>1. status = "Completed"
        /\ \A d \in Entries(s.jobs[i].deps) : d = j \/ s.jobs[d].status = "Completed"
    BY <1>8 DEF Waiters
  <2>2. t.jobs[i].status = "Ready"
    BY <1>1, <1>6, <1>8
  <2> QED BY <1>1, <1>3, <1>5, <2>1, <2>2
<1>9. CASE s.jobs[i].status = "Pending" /\ i \notin new
  <2>1. t.jobs[i].status = "Pending" /\ i # j
    BY <1>1, <1>9
  <2>2. \E d \in Entries(s.jobs[i].deps) : s.jobs[d].status # "Completed"
    BY <1>2, <1>9
  <2>3. CASE status # "Completed"
    BY <1>1, <1>3, <1>5, <2>1, <2>2, <2>3
  <2>4. CASE status = "Completed" /\ s.jobs[i].run # s.jobs[j].run
    BY <1>1, <1>3, <1>5, <2>1, <2>2, <2>4
  <2>5. CASE status = "Completed" /\ s.jobs[i].run = s.jobs[j].run
    <3>1. \E d \in Entries(s.jobs[i].deps) : d # j /\ s.jobs[d].status # "Completed"
      BY <1>9, <2>5 DEF Waiters, JobsOf
    <3> QED BY <1>1, <1>3, <1>5, <2>1, <3>1
  <2> QED BY <2>3, <2>4, <2>5
<1> QED BY <1>7, <1>8, <1>9

\* A job that gives its slot back leaves an orderly engine.
LEMMA SettlesOrderly ==
  ASSUME NEW s, NEW t, Orderly(s), EngineOK(t), NEW j \in s.active, NEW status,
         Verdict(s.jobs[j], status), NEW new,
         new \subseteq {i \in DOMAIN s.jobs : s.jobs[i].status = "Pending"},
         Plain => new = (IF status = "Completed" THEN Waiters(s, j) ELSE {}),
         Settles(s, t, j, status, new),
         Concludes(s, t, s.jobs[j].run)
  PROVE  Orderly(t)
<1> DEFINE r == s.jobs[j].run
<1>1. /\ j \in DOMAIN s.jobs /\ s.jobs[j].status = "Running"
      /\ r \in DOMAIN s.runs
      /\ \A i \in DOMAIN s.jobs : s.jobs[i].run \in DOMAIN s.runs
  BY TypeParts DEF Orderly, EngineOK, RunningHoldSlots
<1>2. new \subseteq {i \in DOMAIN s.jobs : i # j /\ s.jobs[i].status = "Pending"}
  BY <1>1
<1>3. QueueOK(t) /\ AttemptsOK(t) /\ DepsOK(t)
  BY <1>1, <1>2, SettlesBasics
<1>4. \A q : JobsOf(t, q) = JobsOf(s, q)
  BY <1>1, SettlesJobs
<1>5. /\ DOMAIN t.jobs = DOMAIN s.jobs
      /\ \A i \in DOMAIN s.jobs :
           /\ SameJob(t.jobs[i], s.jobs[i])
           /\ t.jobs[i].status = IF i = j THEN status
                                 ELSE IF i \in new THEN "Ready" ELSE s.jobs[i].status
  BY DEF Settles
<1>6. /\ DOMAIN t.runs = DOMAIN s.runs
      /\ \A q \in DOMAIN s.runs \ {r} : t.runs[q] = s.runs[q]
      /\ (\E i \in JobsOf(t, r) : t.jobs[i].status \in Unfinished) => t.runs[r] = s.runs[r]
      /\ (\A i \in JobsOf(t, r) : t.jobs[i].status \notin Unfinished)
           => t.runs[r] = IF \E i \in JobsOf(t, r) : t.jobs[i].status = "Failed"
                          THEN "Failed" ELSE "Completed"
  BY DEF Concludes
<1> HIDE DEF r
<1>7. RunsOK(t)
  <2> SUFFICES ASSUME NEW q \in DOMAIN s.runs
               PROVE  JobsOf(t, q) # {} /\ t.runs[q] # "Cancelled" /\ Reported(t, q)
    BY <1>6 DEF RunsOK
  <2>1. JobsOf(s, q) # {} /\ s.runs[q] # "Cancelled" /\ Reported(s, q)
    BY DEF Orderly, RunsOK
  <2>2. CASE q = r
    BY <1>4, <1>6, <2>1, <2>2 DEF Reported
  <2>3. CASE q # r
    <3>1. \A i \in JobsOf(s, q) : i \in DOMAIN s.jobs /\ i # j
      BY <2>3 DEF JobsOf, r
    <3>2. \A i \in JobsOf(s, q) :
            /\ t.jobs[i].role = s.jobs[i].role
            /\ t.jobs[i].status \in Unfinished <=> s.jobs[i].status \in Unfinished
            /\ t.jobs[i].status = "Completed" <=> s.jobs[i].status = "Completed"
            /\ t.jobs[i].status = "Failed" <=> s.jobs[i].status = "Failed"
      BY <1>2, <1>5, <3>1 DEF SameJob, Unfinished
    <3>3. Reported(t, q)
      BY <1>4, <1>6, <2>1, <2>3, <3>2 DEF Reported
    <3> QED BY <1>4, <1>6, <2>1, <2>3, <3>3
  <2> QED BY <2>2, <2>3
<1>8. ASSUME Plain
      PROVE  PlainOK(t)
  <2>1. Gated(s) /\ PlannersOK(s) /\ FailedOver(s)
    BY <1>8 DEF Orderly, PlainOK
  <2>2. Gated(t)
    BY <1>1, <1>8, <2>1, SettlesGated
  <2>3. \A i \in DOMAIN s.jobs : t.jobs[i].status \in Unfinished => s.jobs[i].status \in Unfinished
    BY <1>1, <1>2, <1>5 DEF Unfinished
  <2>4. PlannersOK(t)
    BY <1>4, <1>5, <2>1, <2>3 DEF PlannersOK, SameJob
  <2>5. FailedOver(t)
    <3> SUFFICES ASSUME NEW i \in DOMAIN s.jobs, t.runs[t.jobs[i].run] = "Failed",
                        t.jobs[i].round = 0, t.jobs[i].status \in Unfinished
                 PROVE  FALSE
      BY <1>5 DEF FailedOver
    <3>1. t.jobs[i].run = s.jobs[i].run /\ s.jobs[i].round = 0 /\ s.jobs[i].status \in Unfinished
      BY <1>5, <2>3 DEF SameJob
    <3>2. i \in JobsOf(t, s.jobs[i].run)
      BY <1>4 DEF JobsOf
    <3>3. s.runs[s.jobs[i].run] = "Failed"
      BY <1>1, <1>6, <3>1, <3>2
    <3> QED BY <2>1, <3>1, <3>3 DEF FailedOver
  <2> QED BY <2>2, <2>4, <2>5 DEF PlainOK
<1> QED BY <1>3, <1>7, <1>8 DEF Orderly

\* A planner whose plan turns out unusable is failed after it has completed.
LEMMA SetBackOrderly ==
  ASSUME NEW s, NEW t, Orderly(s), EngineOK(t), NEW j \in DOMAIN s.jobs,
         s.jobs[j].role = "planner", s.jobs[j].status = "Completed",
         Plain => JobsOf(s, s.jobs[j].run) = {j},
         NEW status, Verdict(s.jobs[j], status), status # "Completed",
         Settles(s, t, j, status, {}), t.runs = s.runs
  PROVE  Orderly(t)
<1> DEFINE r == s.jobs[j].run
<1>1. /\ \A i \in DOMAIN s.jobs : s.jobs[i].run \in DOMAIN s.runs
      /\ \A q : JobsOf(t, q) = JobsOf(s, q)
  BY TypeParts, SettlesJobs DEF Orderly, EngineOK
<1>2. QueueOK(t) /\ AttemptsOK(t) /\ DepsOK(t)
  BY SettlesBasics
<1>3. /\ DOMAIN t.jobs = DOMAIN s.jobs
      /\ \A i \in DOMAIN s.jobs : /\ SameJob(t.jobs[i], s.jobs[i])
                                  /\ i # j => t.jobs[i].status = s.jobs[i].status
      /\ t.jobs[j].status = status
  BY DEF Settles
<1>4. RunsOK(t)
  <2> SUFFICES ASSUME NEW q \in DOMAIN s.runs PROVE Reported(t, q)
    BY <1>1 DEF Orderly, RunsOK
  <2>1. CASE q = r
    <3>1. j \in JobsOf(t, q) /\ t.jobs[j].role = "planner" /\ t.jobs[j].status # "Completed"
      BY <1>1, <1>3, <2>1 DEF JobsOf, SameJob
    <3> QED BY <3>1 DEF Reported
  <2>2. CASE q # r
    <3>1. \A i \in JobsOf(s, q) : i \in DOMAIN s.jobs /\ i # j
      BY <2>2 DEF JobsOf
    <3>2. \A i \in JobsOf(s, q) :
            t.jobs[i].role = s.jobs[i].role /\ t.jobs[i].status = s.jobs[i].status
      BY <1>3, <3>1 DEF SameJob
    <3>3. Reported(s, q)
      BY DEF Orderly, RunsOK
    <3> QED BY <1>1, <3>2, <3>3 DEF Reported
  <2> QED BY <2>1, <2>2
<1>5. ASSUME Plain
      PROVE  PlainOK(t)
  <2>1. Gated(s) /\ PlannersOK(s) /\ FailedOver(s) /\ JobsOf(s, r) = {j}
    BY <1>5 DEF Orderly, PlainOK
  <2>2. Gated(t)
    <3> SUFFICES ASSUME NEW i \in DOMAIN s.jobs
                 PROVE  t.jobs[i].status = "Pending"
                          <=> \E d \in Entries(t.jobs[i].deps) : t.jobs[d].status # "Completed"
      BY <1>3 DEF Gated
    <3>1. \A d \in Entries(s.jobs[i].deps) :
            d # j /\ d \in DOMAIN s.jobs /\ t.jobs[d].status = s.jobs[d].status
      BY <1>3, <2>1 DEF PlannersOK, Orderly, DepsOK
    <3>2. t.jobs[i].deps = s.jobs[i].deps
      BY <1>3 DEF SameJob
    <3>3. t.jobs[i].status = "Pending" <=> s.jobs[i].status = "Pending"
      BY <1>3 DEF Verdict
    <3> QED BY <2>1, <3>1, <3>2, <3>3 DEF Gated
  <2>3. PlannersOK(t)
    <3> SUFFICES ASSUME NEW i \in DOMAIN s.jobs, t.jobs[i].role = "planner"
                 PROVE  /\ \A k \in DOMAIN s.jobs : i \notin Entries(t.jobs[k].deps)
                        /\ t.jobs[i].status \in Unfinished => JobsOf(t, t.jobs[i].run) = {i}
      BY <1>3 DEF PlannersOK
    <3>1. /\ s.jobs[i].role = "planner" /\ t.jobs[i].run = s.jobs[i].run
          /\ \A k \in DOMAIN s.jobs : t.jobs[k].deps = s.jobs[k].deps
      BY <1>3 DEF SameJob
    <3>2. \A k \in DOMAIN s.jobs : i \notin Entries(t.jobs[k].deps)
      BY <2>1, <3>1 DEF PlannersOK
    <3>3. t.jobs[i].status \in Unfinished => JobsOf(s, s.jobs[i].run) = {i}
      BY <1>3, <2>1, <3>1 DEF PlannersOK
    <3> QED BY <1>1, <3>1, <3>2, <3>3
  <2>4. FailedOver(t)
    <3>1. Reported(s, r)
      BY <1>1 DEF Orderly, RunsOK
    <3>2. s.runs[r] = "Completed"
      BY <2>1, <3>1 DEF Reported, Unfinished
    <3>3. \A i \in DOMAIN s.jobs : i # j => s.jobs[i].run # r
      BY <2>1 DEF JobsOf
    <3> QED BY <1>3, <2>1, <3>2, <3>3 DEF FailedOver, SameJob
  <2> QED BY <2>2, <2>3, <2>4 DEF PlainOK
<1> QED BY <1>2, <1>4, <1>5 DEF Orderly

LEMMA MarkFailedSettles ==
  ASSUME NEW s, Orderly(s), NEW j \in DOMAIN s.jobs
  PROVE  LET t == MarkFailed(s, j)
             status == AfterFailure(s.jobs[j])
         IN  /\ Verdict(s.jobs[j], status)
             /\ Settles(s, t, j, status, {})
             /\ j \in s.active => Concludes(s, t, s.jobs[j].run)
             /\ j \notin s.active => t.runs = s.runs
<1>1. EngineType(s) /\ s.jobs[j].attempt <= MaxAttempts
  BY DEF Orderly, EngineOK, AttemptsOK
<1>2. s.jobs[j].attempt \in Nat /\ MaxAttempts \in Nat
  BY <1>1, TypeParts, EngineAssumption DEF JobRecords
<1>3. Verdict(s.jobs[j], AfterFailure(s.jobs[j]))
  BY <1>1, <1>2 DEF Verdict, AfterFailure
<1> QED BY <1>1, <1>3, MarkFailedEffect

LEMMA MarkCompletedSettles ==
  ASSUME NEW s, Orderly(s), NEW j \in s.active, NEW order \in Orderings(PromotedBy(s, j))
  PROVE  LET t == MarkCompleted(s, j, order) IN
         /\ Settles(s, t, j, "Completed", Waiters(s, j))
         /\ Concludes(s, t, s.jobs[j].run)
<1> DEFINE done == Completed(s, j)
<1>1. EngineOK(s) /\ j \in DOMAIN s.jobs /\ s.jobs[j].status = "Running"
  BY TypeParts DEF Orderly, EngineOK, RunningHoldSlots
<1>2. DOMAIN done.jobs = DOMAIN s.jobs
      /\ \A i \in DOMAIN s.jobs :
           /\ SameJob(done.jobs[i], s.jobs[i])
           /\ done.jobs[i].status = IF i = j THEN "Completed" ELSE s.jobs[i].status
  <2>1. EngineType(s) /\ done.jobs = SetStatus(s.jobs, {j}, "Completed")
    BY <1>1 DEF EngineOK, EngineType, Completed
  <2> HIDE DEF done
  <2>2. Restatused(s, done.jobs, {j}, "Completed")
    BY <2>1, SetStatusOK DEF JobStatus
  <2> QED BY <2>2 DEF Restatused, SameJob
<1> HIDE DEF done
<1>3. PromotedBy(s, j) = Waiters(s, j)
  <2>1. PromotedBy(s, j) = Promotable(done, s.jobs[j].run)
    BY <1>1 DEF PromotedBy, done
  <2>2. \A i \in DOMAIN s.jobs : \A d \in Entries(s.jobs[i].deps) : d \in DOMAIN s.jobs
    BY DEF Orderly, DepsOK
  <2>3. ASSUME NEW i \in DOMAIN s.jobs, s.jobs[i].status = "Pending"
        PROVE  (\A d \in Entries(done.jobs[i].deps) :
                  d \in DOMAIN done.jobs /\ done.jobs[d].status = "Completed")
               <=> \A d \in Entries(s.jobs[i].deps) : d = j \/ s.jobs[d].status = "Completed"
    BY <1>2, <2>2 DEF SameJob
  <2>4. \A i \in DOMAIN s.jobs :
          /\ done.jobs[i].run = s.jobs[i].run
          /\ done.jobs[i].status = "Pending" <=> s.jobs[i].status = "Pending"
    BY <1>1, <1>2 DEF SameJob
  <2> QED BY <1>2, <2>1, <2>3, <2>4 DEF Promotable, Waiters, JobsOf
<1>4. /\ Settles(s, MarkCompleted(s, j, order), j, "Completed", PromotedBy(s, j))
      /\ Concludes(s, MarkCompleted(s, j, order), s.jobs[j].run)
  BY <1>1, MarkCompletedEffect
<1> QED BY <1>3, <1>4

\* What holds of a job that has just completed.
Finished(s, t, j) ==
  /\ Orderly(t)
  /\ DOMAIN t.jobs = DOMAIN s.jobs
  /\ t.jobs[j].status = "Completed"
  /\ SameJob(t.jobs[j], s.jobs[j])
  /\ t.jobs[j].role = "planner" /\ Plain => JobsOf(t, t.jobs[j].run) = {j}

LEMMA MarkCompletedOrderly ==
  ASSUME NEW s, Orderly(s), NEW j \in s.active, NEW order \in Orderings(PromotedBy(s, j))
  PROVE  Finished(s, MarkCompleted(s, j, order), j)
<1> DEFINE t == MarkCompleted(s, j, order)
           new == Waiters(s, j)
<1>1. /\ j \in DOMAIN s.jobs /\ s.jobs[j].status = "Running" /\ EngineOK(t)
  BY TypeParts, MarkCompletedOK DEF Orderly, EngineOK, RunningHoldSlots
<1>2. Settles(s, t, j, "Completed", new) /\ Concludes(s, t, s.jobs[j].run)
  BY MarkCompletedSettles
<1>3. Verdict(s.jobs[j], "Completed")
  BY DEF Verdict
<1>4. new \subseteq {i \in DOMAIN s.jobs : s.jobs[i].status = "Pending"}
  BY DEF Waiters, JobsOf
<1> HIDE DEF t
<1>5. Orderly(t)
  BY <1>1, <1>2, <1>3, <1>4, SettlesOrderly
<1>6. /\ DOMAIN t.jobs = DOMAIN s.jobs /\ t.jobs[j].status = "Completed"
      /\ SameJob(t.jobs[j], s.jobs[j])
      /\ \A q : JobsOf(t, q) = JobsOf(s, q)
  <2>1. \A q : JobsOf(t, q) = JobsOf(s, q)
    BY <1>1, <1>2, SettlesJobs
  <2> QED BY <1>1, <1>2, <2>1 DEF Settles
<1>7. ASSUME Plain, t.jobs[j].role = "planner"
      PROVE  JobsOf(t, t.jobs[j].run) = {j}
  <2>1. PlannersOK(s)
    BY <1>7 DEF Orderly, PlainOK
  <2>2. JobsOf(s, s.jobs[j].run) = {j}
    BY <1>1, <1>6, <1>7, <2>1 DEF PlannersOK, SameJob, Unfinished
  <2> QED BY <1>6, <2>2 DEF SameJob
<1> QED BY <1>5, <1>6, <1>7 DEF Finished, t

\* A failure gives the slot of an active job back in order.
LEMMA MarkFailedOrderly ==
  ASSUME NEW s, Orderly(s), NEW j \in s.active
  PROVE  Orderly(MarkFailed(s, j))
<1> DEFINE t == MarkFailed(s, j)
           status == AfterFailure(s.jobs[j])
<1>1. j \in DOMAIN s.jobs /\ EngineOK(t)
  BY TypeParts, MarkFailedOK DEF Orderly, EngineOK
<1>2. /\ Verdict(s.jobs[j], status)
      /\ Settles(s, t, j, status, {})
      /\ Concludes(s, t, s.jobs[j].run)
  BY <1>1, MarkFailedSettles
<1>3. status # "Completed"
  BY DEF AfterFailure
<1> HIDE DEF t, status
<1>4. Orderly(t)
  BY <1>1, <1>2, <1>3, SettlesOrderly
<1> QED BY <1>4 DEF t

-----------------------------------------------------------------------------
(* Operations that add jobs.                                               *)

LEMMA EntriesOfNonempty ==
  ASSUME NEW S, NEW q \in Seq(S), q # <<>>
  PROVE  Entries(q) # {}
<1>1. Len(q) \in Nat /\ DOMAIN q = 1..Len(q) /\ Len(q) # 0
  BY LenProperties, EmptySeq
<1>2. 1 \in DOMAIN q
  BY <1>1
<1> QED BY <1>2 DEF Entries

\* The ids of the jobs that come with t.
Newcomers(s, t) == DOMAIN t.jobs \ DOMAIN s.jobs

LEMMA GrownJobs ==
  ASSUME NEW s, NEW t, NEW run, NEW recs, EngineOK(s), Grows(s, t, run, recs)
  PROVE  /\ DOMAIN s.jobs \subseteq DOMAIN t.jobs
         /\ \A j \in DOMAIN s.jobs : t.jobs[j] = s.jobs[j]
         /\ Newcomers(s, t) = s.nextJob .. s.nextJob + Len(recs) - 1
         /\ \A i \in 1..Len(recs) : /\ s.nextJob + i - 1 \in Newcomers(s, t)
                                    /\ t.jobs[s.nextJob + i - 1] = recs[i]
         /\ \A j \in Newcomers(s, t) :
              /\ \E i \in 1..Len(recs) : t.jobs[j] = recs[i]
              /\ t.jobs[j] \in JobRecords
              /\ t.jobs[j].run = run /\ t.jobs[j].attempt = 0
              /\ t.jobs[j].status = IF t.jobs[j].deps = <<>> THEN "Ready" ELSE "Pending"
              /\ \A d \in Entries(t.jobs[j].deps) : d \in Newcomers(s, t)
<1> DEFINE first == s.nextJob
           m == Len(recs)
<1>1. /\ recs \in Seq(JobRecords)
      /\ t.jobs = [j \in DOMAIN s.jobs \cup (first .. first + m - 1) |->
                     IF j \in DOMAIN s.jobs THEN s.jobs[j] ELSE recs[j - first + 1]]
      /\ \A i \in 1..m :
           /\ recs[i].run = run /\ recs[i].attempt = 0
           /\ recs[i].status = IF recs[i].deps = <<>> THEN "Ready" ELSE "Pending"
           /\ \A d \in Entries(recs[i].deps) : d \in first .. first + m - 1
  BY DEF Grows
<1>2. first \in Nat \ {0} /\ DOMAIN s.jobs \subseteq 1..first - 1
  BY TypeParts DEF EngineOK, EngineType
<1>3. m \in Nat /\ \A i \in 1..m : recs[i] \in JobRecords
  BY <1>1, LenProperties, ElementOfSeq
<1> HIDE DEF first, m
<1>4. /\ DOMAIN t.jobs = DOMAIN s.jobs \cup (first .. first + m - 1)
      /\ Newcomers(s, t) = first .. first + m - 1
      /\ DOMAIN s.jobs \subseteq DOMAIN t.jobs
  BY <1>1, <1>2, <1>3 DEF Newcomers
<1>5. \A j \in DOMAIN s.jobs : t.jobs[j] = s.jobs[j]
  BY <1>1, <1>4
<1>6. ASSUME NEW j \in Newcomers(s, t)
      PROVE  j - first + 1 \in 1..m /\ t.jobs[j] = recs[j - first + 1]
  BY <1>1, <1>2, <1>3, <1>4, <1>6
<1>7. ASSUME NEW i \in 1..m
      PROVE  first + i - 1 \in Newcomers(s, t) /\ t.jobs[first + i - 1] = recs[i]
  <2>1. first + i - 1 \in Newcomers(s, t) /\ (first + i - 1) - first + 1 = i
    BY <1>2, <1>3, <1>4
  <2> QED BY <1>6, <2>1
<1>8. ASSUME NEW j \in Newcomers(s, t)
      PROVE  /\ \E i \in 1..m : t.jobs[j] = recs[i]
             /\ t.jobs[j] \in JobRecords
             /\ t.jobs[j].run = run /\ t.jobs[j].attempt = 0
             /\ t.jobs[j].status = IF t.jobs[j].deps = <<>> THEN "Ready" ELSE "Pending"
             /\ \A d \in Entries(t.jobs[j].deps) : d \in Newcomers(s, t)
  <2>1. PICK i \in 1..m : t.jobs[j] = recs[i]
    BY <1>6
  <2>2. /\ recs[i].run = run /\ recs[i].attempt = 0
        /\ recs[i].status = IF recs[i].deps = <<>> THEN "Ready" ELSE "Pending"
        /\ \A d \in Entries(recs[i].deps) : d \in first .. first + m - 1
        /\ recs[i] \in JobRecords
    BY <1>1, <1>3
  <2> QED BY <1>4, <2>1, <2>2
<1> QED BY <1>4, <1>5, <1>7, <1>8 DEF first, m

\* New jobs leave an orderly engine, unless they put a planner beside other jobs
\* or revive a failed run.
LEMMA GrowsOrderly ==
  ASSUME NEW s, NEW t, NEW run, NEW recs, Orderly(s), Grows(s, t, run, recs),
         Len(recs) > 0,
         DOMAIN t.runs \subseteq DOMAIN s.runs \cup {run}, t.runs[run] # "Cancelled",
         Plain =>
           /\ \A i \in 1..Len(recs) : recs[i].role = "planner" =>
                /\ Len(recs) = 1 /\ recs[i].deps = <<>>
                /\ JobsOf(s, run) = {}
           /\ \A i \in JobsOf(s, run) : s.jobs[i].role = "planner" =>
                                          s.jobs[i].status \notin Unfinished
           /\ t.runs[run] = "Failed" => \A i \in 1..Len(recs) : recs[i].round # 0
  PROVE  Orderly(t)
<1> DEFINE new == Newcomers(s, t)
           old == DOMAIN s.jobs
<1>1. EngineOK(s) /\ EngineOK(t)
  BY GrowsOK DEF Orderly
<1>2. /\ DOMAIN t.jobs = old \cup new /\ old \cap new = {}
      /\ \A j \in old : t.jobs[j] = s.jobs[j]
      /\ \A i \in 1..Len(recs) : /\ s.nextJob + i - 1 \in new
                                 /\ t.jobs[s.nextJob + i - 1] = recs[i]
      /\ \A j \in new : \E i \in 1..Len(recs) : t.jobs[j] = recs[i]
      /\ \A j \in new :
           /\ t.jobs[j] \in JobRecords
           /\ t.jobs[j].run = run /\ t.jobs[j].attempt = 0
           /\ t.jobs[j].status = IF t.jobs[j].deps = <<>> THEN "Ready" ELSE "Pending"
           /\ \A d \in Entries(t.jobs[j].deps) : d \in new
  <2>1. old \subseteq DOMAIN t.jobs
    BY <1>1, GrownJobs
  <2>2. DOMAIN t.jobs = old \cup new /\ old \cap new = {}
    BY <2>1 DEF Newcomers
  <2>3. \A j \in DOMAIN s.jobs : t.jobs[j] = s.jobs[j]
    BY <1>1, GrownJobs
  <2>4. \A i \in 1..Len(recs) : /\ s.nextJob + i - 1 \in Newcomers(s, t)
                                 /\ t.jobs[s.nextJob + i - 1] = recs[i]
    BY <1>1, GrownJobs
  <2>5. \A j \in Newcomers(s, t) :
          /\ \E i \in 1..Len(recs) : t.jobs[j] = recs[i]
          /\ t.jobs[j] \in JobRecords
          /\ t.jobs[j].run = run /\ t.jobs[j].attempt = 0
          /\ t.jobs[j].status = IF t.jobs[j].deps = <<>> THEN "Ready" ELSE "Pending"
          /\ \A d \in Entries(t.jobs[j].deps) : d \in Newcomers(s, t)
    BY <1>1, GrownJobs
  <2> HIDE DEF old, new
  <2>6. old = DOMAIN s.jobs /\ new = Newcomers(s, t)
    BY DEF old, new
  <2> QED BY <2>2, <2>3, <2>4, <2>5, <2>6
<1>3. \A j \in old : s.jobs[j].run \in DOMAIN s.runs
  BY <1>1, TypeParts DEF EngineOK
<1>4. \A q \in DOMAIN s.runs : t.runs[q] = s.runs[q]
  BY DEF Grows
<1>5. \A j \in old : \A d \in Entries(s.jobs[j].deps) :
        d \in old /\ s.jobs[d].run = s.jobs[j].run
  BY DEF Orderly, DepsOK
<1>6. \E j \in new : t.jobs[j].status \in Unfinished
  <2>1. 1 \in 1..Len(recs)
    <3>1. Len(recs) \in Nat
      BY LenProperties DEF Grows
    <3> QED BY <3>1
  <2> QED BY <1>2, <2>1 DEF Unfinished
<1> HIDE DEF new, old
<1>7. QueueOK(t)
  <2>1. Entries(s.queue) \subseteq old /\ \A j \in Entries(s.queue) : s.jobs[j].status = "Ready"
    BY <1>1, TypeParts, EntriesOfSeq DEF EngineOK, Orderly, QueueOK, old
  <2>2. \A j \in Entries(t.queue) \ Entries(s.queue) : t.jobs[j].status = "Ready"
    <3> SUFFICES ASSUME NEW j \in Entries(t.queue) \ Entries(s.queue)
                 PROVE  t.jobs[j].status = "Ready"
      OBVIOUS
    <3>1. PICK i \in 1..Len(recs) : j = s.nextJob + i - 1 /\ recs[i].status = "Ready"
      BY DEF Grows
    <3>2. t.jobs[s.nextJob + i - 1] = recs[i]
      BY <1>2, <3>1
    <3> QED BY <3>1, <3>2
  <2>3. Distinct(t.queue)
    BY DEF Grows, Orderly, QueueOK
  <2> QED BY <1>2, <2>1, <2>2, <2>3 DEF QueueOK
<1>8. AttemptsOK(t)
  <2>1. 0 < MaxAttempts /\ 0 <= MaxAttempts
    BY EngineAssumption
  <2> QED BY <1>2, <2>1 DEF Orderly, AttemptsOK, old
<1>9. DepsOK(t)
  <2> SUFFICES ASSUME NEW j \in DOMAIN t.jobs, NEW d \in Entries(t.jobs[j].deps)
               PROVE  d \in DOMAIN t.jobs /\ t.jobs[d].run = t.jobs[j].run
    BY DEF DepsOK
  <2>1. CASE j \in old
    <3>1. t.jobs[j] = s.jobs[j]
      BY <1>2, <2>1
    <3>2. d \in old /\ s.jobs[d].run = s.jobs[j].run
      BY <1>5, <2>1, <3>1
    <3> QED BY <1>2, <3>1, <3>2
  <2>2. CASE j \in new
    <3>1. d \in new
      BY <1>2, <2>2
    <3> QED BY <1>2, <2>2, <3>1
  <2> QED BY <1>2, <2>1, <2>2
<1>10. RunsOK(t)
  <2> SUFFICES ASSUME NEW q \in DOMAIN t.runs
               PROVE  JobsOf(t, q) # {} /\ t.runs[q] # "Cancelled" /\ Reported(t, q)
    BY DEF RunsOK
  <2>1. CASE q = run
    <3>1. \E j \in JobsOf(t, q) : t.jobs[j].status \in Unfinished
      BY <1>2, <1>6, <2>1 DEF JobsOf
    <3> QED BY <2>1, <3>1 DEF Reported
  <2>2. CASE q # run
    <3>1. q \in DOMAIN s.runs
      BY <2>2
    <3>2. /\ JobsOf(t, q) = JobsOf(s, q)
          /\ \A j \in JobsOf(s, q) : t.jobs[j] = s.jobs[j]
      BY <1>2, <2>2 DEF JobsOf, old
    <3>3. JobsOf(s, q) # {} /\ s.runs[q] # "Cancelled" /\ Reported(s, q)
      BY <3>1 DEF Orderly, RunsOK
    <3> QED BY <1>4, <3>1, <3>2, <3>3 DEF Reported
  <2> QED BY <2>1, <2>2
<1>11. ASSUME Plain
       PROVE  PlainOK(t)
  <2>0. Gated(s) /\ PlannersOK(s) /\ FailedOver(s)
    BY <1>11 DEF Orderly, PlainOK
  <2>1. Gated(t)
    <3> SUFFICES ASSUME NEW j \in DOMAIN t.jobs
                 PROVE  t.jobs[j].status = "Pending"
                          <=> \E d \in Entries(t.jobs[j].deps) : t.jobs[d].status # "Completed"
      BY DEF Gated
    <3>1. CASE j \in old
      <4>1. t.jobs[j] = s.jobs[j]
        BY <1>2, <3>1
      <4>2. \A d \in Entries(s.jobs[j].deps) : d \in old /\ t.jobs[d] = s.jobs[d]
        BY <1>2, <1>5, <3>1
      <4>3. s.jobs[j].status = "Pending"
              <=> \E d \in Entries(s.jobs[j].deps) : s.jobs[d].status # "Completed"
        BY <2>0, <3>1 DEF Gated, old
      <4> QED BY <4>1, <4>2, <4>3
    <3>2. CASE j \in new /\ t.jobs[j].deps = <<>>
      BY <1>2, <3>2, EntriesOfEmpty
    <3>3. CASE j \in new /\ t.jobs[j].deps # <<>>
      <4>1. t.jobs[j].deps \in Seq(Nat)
        BY <1>2, <3>3 DEF JobRecords
      <4>2. PICK d \in Entries(t.jobs[j].deps) : TRUE
        BY <3>3, <4>1, EntriesOfNonempty
      <4>3. t.jobs[d].status # "Completed"
        BY <1>2, <3>3
      <4> QED BY <1>2, <3>3, <4>3
    <3> QED BY <1>2, <3>1, <3>2, <3>3
  <2>2. PlannersOK(t)
    <3> SUFFICES ASSUME NEW j \in DOMAIN t.jobs, t.jobs[j].role = "planner"
                 PROVE  /\ \A i \in DOMAIN t.jobs : j \notin Entries(t.jobs[i].deps)
                        /\ t.jobs[j].status \in Unfinished => JobsOf(t, t.jobs[j].run) = {j}
      BY DEF PlannersOK
    <3>1. CASE j \in old
      <4>1. \A i \in DOMAIN t.jobs : j \notin Entries(t.jobs[i].deps)
        BY <1>2, <2>0, <3>1 DEF PlannersOK, old
      <4>2. t.jobs[j].status \in Unfinished => s.jobs[j].run # run
        BY <1>2, <1>11, <3>1 DEF JobsOf, old
      <4>3. t.jobs[j].status \in Unfinished => JobsOf(s, s.jobs[j].run) = {j}
        BY <1>2, <2>0, <3>1 DEF PlannersOK, old
      <4>4. s.jobs[j].run # run => JobsOf(t, s.jobs[j].run) = JobsOf(s, s.jobs[j].run)
        BY <1>2 DEF JobsOf, old
      <4> QED BY <1>2, <3>1, <4>1, <4>2, <4>3, <4>4
    <3>2. CASE j \in new
      <4>1. PICK at \in 1..Len(recs) : t.jobs[j] = recs[at]
        BY <1>2, <3>2
      <4>2. Len(recs) = 1 /\ t.jobs[j].deps = <<>> /\ JobsOf(s, run) = {}
        BY <1>11, <4>1
      <4>3. new = {j}
        <5>1. new = s.nextJob .. s.nextJob
          <6>1. new = s.nextJob .. s.nextJob + Len(recs) - 1
            BY <1>1, GrownJobs DEF new
          <6>2. s.nextJob \in Nat
            BY <1>1, TypeParts DEF EngineOK
          <6> QED BY <4>2, <6>1, <6>2
        <5>2. s.nextJob \in Nat
          BY <1>1, TypeParts DEF EngineOK
        <5> QED BY <3>2, <5>1, <5>2
      <4>4. JobsOf(t, run) = {j}
        BY <1>2, <4>2, <4>3 DEF JobsOf, old
      <4>5. \A i \in DOMAIN t.jobs : j \notin Entries(t.jobs[i].deps)
        <5>1. \A i \in old : j \notin Entries(t.jobs[i].deps)
          BY <1>2, <1>5, <3>2
        <5>2. Entries(t.jobs[j].deps) = {}
          BY <4>2, EntriesOfEmpty
        <5> QED BY <1>2, <4>3, <5>1, <5>2
      <4> QED BY <1>2, <3>2, <4>4, <4>5
    <3> QED BY <1>2, <3>1, <3>2
  <2>3. FailedOver(t)
    <3> SUFFICES ASSUME NEW j \in DOMAIN t.jobs, t.runs[t.jobs[j].run] = "Failed",
                        t.jobs[j].round = 0
                 PROVE  t.jobs[j].status \notin Unfinished
      BY DEF FailedOver
    <3>1. CASE j \in old
      <4>1. t.jobs[j] = s.jobs[j] /\ s.jobs[j].run \in DOMAIN s.runs
        BY <1>2, <1>3, <3>1
      <4>2. t.runs[s.jobs[j].run] = s.runs[s.jobs[j].run]
        BY <1>4, <4>1
      <4>3. s.runs[s.jobs[j].run] = "Failed" /\ s.jobs[j].round = 0
        BY <4>1, <4>2
      <4>4. j \in DOMAIN s.jobs
        BY <3>1 DEF old
      <4>5. s.jobs[j].status \notin Unfinished
        BY <2>0, <4>3, <4>4 DEF FailedOver
      <4> QED BY <4>1, <4>5
    <3>2. CASE j \in new
      BY <1>2, <1>11, <3>2
    <3> QED BY <1>2, <3>1, <3>2
  <2> QED BY <2>1, <2>2, <2>3 DEF PlainOK
<1> QED BY <1>1, <1>7, <1>8, <1>9, <1>10, <1>11 DEF Orderly

\* What the artifact of a completed planner or the decision of a completed
\* reviewer leads to: nothing, more jobs in the same run, or a planner that is
\* failed after all.
Follows(s, next, j) ==
  \/ next = s
  \/ \E recs : Grows(s, next, s.jobs[j].run, recs)
  \/ /\ s.jobs[j].role = "planner"
     /\ Settles(s, next, j, AfterFailure(s.jobs[j]), {})

\* A usable plan: the run has been reported Completed and has no other job, so
\* the plan's jobs join it as if they were the first.
LEMMA PlannedOrderly ==
  ASSUME NEW s, NEW j \in DOMAIN s.jobs, NEW prev, Finished(prev, s, j),
         s.jobs[j].role = "planner",
         NEW plan \in Plans, NEW next \in Expanded(s, j, plan)
  PROVE  Orderly(next) /\ Follows(s, next, j)
<1> DEFINE run == s.jobs[j].run
<1>1. Orderly(s) /\ EngineOK(s) /\ run \in DOMAIN s.runs
  BY TypeParts DEF Finished, Orderly, EngineOK
<1>2. PICK roots \in Listings(PlanRoots(s, plan)) : next = MaterializePlan(s, run, plan, roots)
  BY DEF Expanded
<1>3. PICK recs :
        /\ next.nextRun = s.nextRun /\ next.runs = s.runs
        /\ Grows(s, next, run, recs)
        /\ Len(recs) = Len(plan)
        /\ \A i \in 1..Len(recs) : recs[i].role = plan[i].role /\ recs[i].round = 0
  BY <1>1, <1>2, PlansAreValid, MaterializePlanGrows DEF EngineOK
<1>4. Len(plan) > 0 /\ DOMAIN plan = 1..Len(plan)
  <2>1. plan \in Seq([role : Roles, profile : ProfileNames, deps : Seq(Nat)]) /\ plan # <<>>
    BY OrchestratorAssumption DEF ValidPlan
  <2>2. Len(plan) \in Nat /\ DOMAIN plan = 1..Len(plan) /\ Len(plan) # 0
    BY <2>1, LenProperties, EmptySeq
  <2> QED BY <2>2
<1>5. s.runs[run] # "Cancelled"
  BY <1>1 DEF Orderly, RunsOK
<1>6. ASSUME Plain
      PROVE  /\ \A i \in 1..Len(recs) : recs[i].role # "planner"
             /\ \A i \in JobsOf(s, run) : s.jobs[i].status \notin Unfinished
             /\ s.runs[run] # "Failed"
  <2>1. \A i \in 1..Len(recs) : recs[i].role # "planner"
    BY <1>3, <1>4, <1>6 DEF Plain
  <2>2. JobsOf(s, run) = {j} /\ s.jobs[j].status = "Completed"
    BY <1>6 DEF Finished
  <2>3. Reported(s, run)
    BY <1>1 DEF Orderly, RunsOK
  <2>4. s.runs[run] = "Completed"
    BY <2>2, <2>3 DEF Reported, Unfinished
  <2> QED BY <2>1, <2>2, <2>4 DEF Unfinished
<1>7. Orderly(next)
  BY <1>1, <1>3, <1>4, <1>5, <1>6, GrowsOrderly
<1> QED BY <1>3, <1>7 DEF Follows

\* A revision: a new coder and a new reviewer of the next round.
LEMMA RevisedOrderly ==
  ASSUME NEW s, NEW j \in DOMAIN s.jobs, NEW prev, Finished(prev, s, j),
         s.jobs[j].role = "reviewer", CanRevise(s, j)
  PROVE  Orderly(Revise(s, j)) /\ Follows(s, Revise(s, j), j)
<1> DEFINE run == s.jobs[j].run
           coder == Head(s.jobs[j].deps)
           next == Revise(s, j)
<1>1. Orderly(s) /\ EngineOK(s) /\ run \in DOMAIN s.runs
  BY TypeParts DEF Finished, Orderly, EngineOK
<1>2. PICK recs :
        /\ next.nextRun = s.nextRun /\ next.runs = s.runs
        /\ Grows(s, next, run, recs)
        /\ Len(recs) = 2
        /\ recs[1].role = s.jobs[coder].role
        /\ recs[2].role = s.jobs[j].role
        /\ \A i \in 1..2 : recs[i].round = s.jobs[j].round + 1
  BY <1>1, ReviseGrows DEF EngineOK
<1>3. s.runs[run] # "Cancelled"
  BY <1>1 DEF Orderly, RunsOK
<1>4. coder \in DOMAIN s.jobs /\ coder \in Entries(s.jobs[j].deps)
  <2>1. s.jobs[j].deps \in Seq(Nat) /\ s.jobs[j].deps # <<>> /\ coder \in DOMAIN s.jobs
    BY <1>1, TypeParts DEF EngineOK, JobRecords, CanRevise
  <2>2. Len(s.jobs[j].deps) \in Nat /\ DOMAIN s.jobs[j].deps = 1..Len(s.jobs[j].deps)
        /\ Len(s.jobs[j].deps) # 0
    BY <2>1, LenProperties, EmptySeq
  <2>3. 1 \in DOMAIN s.jobs[j].deps /\ coder = s.jobs[j].deps[1]
    BY <2>1, <2>2
  <2> QED BY <2>1, <2>3 DEF Entries
<1> HIDE DEF next, coder
<1>5. ASSUME Plain
      PROVE  /\ \A i \in 1..Len(recs) : recs[i].role # "planner" /\ recs[i].round # 0
             /\ \A i \in JobsOf(s, run) : s.jobs[i].role = "planner" =>
                                            s.jobs[i].status \notin Unfinished
  <2>1. PlannersOK(s)
    BY <1>1, <1>5 DEF Orderly, PlainOK
  <2>2. s.jobs[coder].role # "planner"
    BY <1>4, <2>1 DEF PlannersOK
  <2>3. s.jobs[j].round + 1 # 0
    <3>1. s.jobs[j] \in JobRecords
      BY <1>1, TypeParts DEF EngineOK
    <3>2. s.jobs[j].round \in Nat
      BY <3>1 DEF JobRecords
    <3> QED BY <3>2
  <2>4. \A i \in 1..Len(recs) : i = 1 \/ i = 2
    BY <1>2
  <2>5. \A i \in 1..Len(recs) : recs[i].role # "planner" /\ recs[i].round # 0
    BY <1>2, <2>2, <2>3, <2>4
  <2>6. ASSUME NEW i \in JobsOf(s, run), s.jobs[i].role = "planner", s.jobs[i].status \in Unfinished
        PROVE  FALSE
    <3>1. JobsOf(s, run) = {i}
      BY <2>1, <2>6 DEF PlannersOK, JobsOf
    <3>2. j \in JobsOf(s, run)
      BY DEF JobsOf
    <3> QED BY <2>6, <3>1, <3>2
  <2> QED BY <2>5, <2>6
<1>6. Len(recs) > 0 /\ DOMAIN next.runs \subseteq DOMAIN s.runs \cup {run} /\ next.runs[run] # "Cancelled"
  BY <1>2, <1>3
<1>7. Orderly(next)
  BY <1>1, <1>2, <1>5, <1>6, GrowsOrderly
<1> QED BY <1>2, <1>7 DEF Follows, next

\* A completed planner or reviewer has its effect in order.
LEMMA AfterCompletionOrderly ==
  ASSUME NEW prev, NEW s, NEW j \in DOMAIN s.jobs, Finished(prev, s, j), j \notin s.active,
         NEW next \in AfterCompletion(s, j)
  PROVE  Orderly(next) /\ Follows(s, next, j)
<1>1. Orderly(s) /\ EngineOK(s)
  BY DEF Finished, Orderly
<1>2. CASE next = s
  BY <1>1, <1>2 DEF Follows
<1>3. CASE s.jobs[j].role = "planner" /\ next = MarkFailed(s, j)
  <2>1. /\ Verdict(s.jobs[j], AfterFailure(s.jobs[j]))
        /\ Settles(s, next, j, AfterFailure(s.jobs[j]), {})
        /\ next.runs = s.runs
    BY <1>1, <1>3, MarkFailedSettles
  <2>2. EngineOK(next)
    BY <1>1, <1>3, MarkFailedOK
  <2>3. Plain => JobsOf(s, s.jobs[j].run) = {j}
    BY <1>3 DEF Finished
  <2>4. s.jobs[j].status = "Completed"
    BY DEF Finished
  <2>5. AfterFailure(s.jobs[j]) # "Completed"
    BY DEF AfterFailure
  <2>6. Orderly(next)
    BY <1>1, <1>3, <2>1, <2>2, <2>3, <2>4, <2>5, SetBackOrderly
  <2> QED BY <1>3, <2>1, <2>6 DEF Follows
<1>4. CASE s.jobs[j].role = "planner"
  <2>1. next = s \/ next = MarkFailed(s, j) \/ \E plan \in Plans : next \in Expanded(s, j, plan)
    BY <1>4 DEF AfterCompletion, Planned
  <2> QED BY <1>2, <1>3, <1>4, <2>1, PlannedOrderly
<1>5. CASE s.jobs[j].role = "reviewer"
  <2>1. next = s \/ (CanRevise(s, j) /\ next = Revise(s, j))
    BY <1>5 DEF AfterCompletion, Reviewed
  <2> QED BY <1>2, <1>5, <2>1, RevisedOrderly
<1> QED BY <1>2, <1>4, <1>5 DEF AfterCompletion

LEMMA SubmitOrderly ==
  ASSUME NEW s, Orderly(s)
  PROVE  Orderly(Submit(s)) /\ \E recs : Grows(s, Submit(s), s.nextRun, recs) /\ Len(recs) = 1
<1> DEFINE t == Submit(s)
           run == s.nextRun
<1>1. EngineOK(s) /\ run \in Nat \ {0} /\ DOMAIN s.runs \subseteq 1..run - 1
  BY TypeParts DEF Orderly, EngineOK, EngineType
<1>2. PICK recs : /\ t.nextRun = run + 1
                  /\ DOMAIN t.runs = DOMAIN s.runs \cup {run}
                  /\ t.runs[run] = "Pending"
                  /\ Grows(s, t, run, recs)
                  /\ Len(recs) = 1
                  /\ recs[1].role = "planner" /\ recs[1].deps = <<>>
  BY <1>1, SubmitGrows DEF EngineOK
<1>3. \A j \in DOMAIN s.jobs : s.jobs[j].run \in 1..run - 1
  BY <1>1, TypeParts DEF EngineOK
<1>4. JobsOf(s, run) = {}
  BY <1>1, <1>3 DEF JobsOf
<1> HIDE DEF t, run
<1>5. DOMAIN t.runs \subseteq DOMAIN s.runs \cup {run}
  BY <1>2
<1>6. \A i \in 1..Len(recs) : i = 1
  BY <1>2
<1>7. /\ \A i \in 1..Len(recs) : recs[i].role = "planner" =>
           /\ Len(recs) = 1 /\ recs[i].deps = <<>>
           /\ JobsOf(s, run) = {}
      /\ \A i \in JobsOf(s, run) : s.jobs[i].role = "planner" =>
                                     s.jobs[i].status \notin Unfinished
      /\ t.runs[run] # "Failed" /\ t.runs[run] # "Cancelled" /\ Len(recs) > 0
  BY <1>2, <1>4, <1>6
<1>8. Orderly(t)
  BY <1>2, <1>5, <1>7, GrowsOrderly
<1> QED BY <1>2, <1>8 DEF t, run

-----------------------------------------------------------------------------
(* The spawn loop.                                                         *)

\* The jobs in P have left the queue of s and been started once each.
Starts(s, t, P) ==
  /\ P \subseteq DOMAIN s.jobs
  /\ \A j \in P : s.jobs[j].status = "Ready"
  /\ DOMAIN t.jobs = DOMAIN s.jobs
  /\ \A j \in DOMAIN s.jobs :
       /\ t.jobs[j].run = s.jobs[j].run /\ t.jobs[j].role = s.jobs[j].role
       /\ t.jobs[j].profile = s.jobs[j].profile /\ t.jobs[j].deps = s.jobs[j].deps
       /\ t.jobs[j].round = s.jobs[j].round
       /\ t.jobs[j].status = IF j \in P THEN "Running" ELSE s.jobs[j].status
       /\ t.jobs[j].attempt = s.jobs[j].attempt + (IF j \in P THEN 1 ELSE 0)
  /\ DOMAIN t.runs = DOMAIN s.runs
  /\ \A r \in DOMAIN s.runs :
       t.runs[r] = s.runs[r] \/ (s.runs[r] = "Pending" /\ t.runs[r] = "Running")
  /\ Entries(t.queue) = Entries(s.queue) \ P
  /\ Distinct(t.queue)
  /\ t.active = s.active \cup P

\* A queued job means that every slot is taken.
Full(s) == s.queue # <<>> => Cardinality(s.active) = MaxConcurrency

\* The rest of a queue without repetitions.
LEMMA DistinctRest ==
  ASSUME NEW S, NEW q \in Seq(S), Distinct(q), NEW n \in 0..Len(q)
  PROVE  LET rest == SubSeq(q, n + 1, Len(q)) IN
         /\ Distinct(rest)
         /\ Entries(rest) = Entries(q) \ {q[i] : i \in 1..n}
<1> DEFINE rest == SubSeq(q, n + 1, Len(q))
<1>1. Len(q) \in Nat /\ DOMAIN q = 1..Len(q) /\ n \in Nat /\ n <= Len(q)
  BY LenProperties
<1>2. /\ DOMAIN rest = 1..Len(q) - n
      /\ \A i \in 1..Len(q) - n : rest[i] = q[n + i]
  <2>1. n + 1 \in 1..Len(q) + 1 /\ Len(q) \in (n + 1) - 1 .. Len(q)
    BY <1>1
  <2>2. /\ rest \in Seq(S)
        /\ Len(rest) = Len(q) - (n + 1) + 1
        /\ \A i \in 1..Len(q) - (n + 1) + 1 : rest[i] = q[(n + 1) + i - 1]
    BY <2>1, SubSeqProperties
  <2>3. DOMAIN rest = 1..Len(rest)
    BY <2>2, LenProperties
  <2>4. Len(q) - (n + 1) + 1 = Len(q) - n
    BY <1>1
  <2>5. ASSUME NEW i \in 1 .. Len(q) - n PROVE (n + 1) + i - 1 = n + i
    BY <1>1
  <2> HIDE DEF rest
  <2> QED BY <2>2, <2>3, <2>4, <2>5
<1> HIDE DEF rest
<1>3. Distinct(rest)
  <2> SUFFICES ASSUME NEW i \in DOMAIN rest, NEW k \in DOMAIN rest, rest[i] = rest[k]
               PROVE  i = k
    BY DEF Distinct
  <2>1. n + i \in DOMAIN q /\ n + k \in DOMAIN q /\ q[n + i] = q[n + k]
    BY <1>1, <1>2
  <2>2. n + i = n + k
    BY <2>1 DEF Distinct
  <2> QED BY <1>1, <1>2, <2>2
<1>4. ASSUME NEW x \in Entries(rest)
      PROVE  x \in Entries(q) /\ \A i \in 1..n : q[i] # x
  <2>1. PICK k \in 1..Len(q) - n : x = q[n + k]
    BY <1>2 DEF Entries
  <2>2. n + k \in DOMAIN q
    BY <1>1
  <2>3. ASSUME NEW i \in 1..n, q[i] = x PROVE FALSE
    <3>1. i \in DOMAIN q /\ i # n + k
      BY <1>1
    <3> QED BY <2>1, <2>2, <2>3, <3>1 DEF Distinct
  <2> QED BY <2>1, <2>2, <2>3 DEF Entries
<1>5. ASSUME NEW x \in Entries(q), \A i \in 1..n : q[i] # x
      PROVE  x \in Entries(rest)
  <2>1. PICK k \in DOMAIN q : x = q[k]
    BY DEF Entries
  <2>2. k - n \in 1..Len(q) - n /\ n + (k - n) = k
    BY <1>1, <1>5, <2>1
  <2> QED BY <1>2, <2>1, <2>2 DEF Entries
<1>6. Entries(rest) = Entries(q) \ {q[i] : i \in 1..n}
  BY <1>4, <1>5
<1> QED BY <1>3, <1>6 DEF rest

\* A queue without repetitions hands out no job twice.
LEMMA PoppedOnce ==
  ASSUME NEW s, EngineType(s), Distinct(s.queue), NEW n \in 0..Len(s.queue), NEW j \in Popped(s, n)
  PROVE  TimesPopped(s, n, j) = 1
<1>1. PICK i \in 1..n : s.queue[i] = j
  BY DEF Popped
<1>2. Len(s.queue) \in Nat /\ DOMAIN s.queue = 1..Len(s.queue)
  <2>1. s.queue \in Seq(DOMAIN s.jobs)
    BY TypeParts
  <2> QED BY <2>1, LenProperties
<1>3. \A k \in 1..n : k \in DOMAIN s.queue
  BY <1>2
<1>4. {k \in 1..n : s.queue[k] = j} = {i}
  BY <1>1, <1>3 DEF Distinct
<1>5. Cardinality({i}) = 1
  BY FS_Singleton
<1> QED BY <1>4, <1>5 DEF TimesPopped

\* The spawn loop leaves a slot free only when the queue is empty.
LEMMA StartPoppedFull ==
  ASSUME NEW s, EngineOK(s), NEW n \in 0..Len(s.queue), PopsExactly(s, n)
  PROVE  Full(StartPopped(s, n))
<1> DEFINE t == StartPopped(s, n)
           P == Popped(s, n)
           rest == SubSeq(s.queue, n + 1, Len(s.queue))
<1>0. EngineOK(s) /\ EngineType(s) /\ s.queue \in Seq(DOMAIN s.jobs)
  BY TypeParts DEF EngineOK
<1>1. t.queue = rest /\ t.active = s.active \cup P
  BY <1>0 DEF StartPopped, EngineType
<1> HIDE DEF t
<1>3. Len(s.queue) \in Nat /\ DOMAIN s.queue = 1..Len(s.queue)
  BY <1>0, LenProperties
<1>4. P \subseteq DOMAIN s.jobs
  BY <1>0, PoppedJobs
<1>9. Full(t)
  <2> SUFFICES ASSUME t.queue # <<>> PROVE Cardinality(t.active) = MaxConcurrency
    BY DEF Full
  <2>1. n # Len(s.queue)
    <3>1. ASSUME n = Len(s.queue) PROVE t.queue = <<>>
      <4>1. n + 1 \in 1..Len(s.queue) + 1 /\ Len(s.queue) \in (n + 1) - 1 .. Len(s.queue)
        BY <1>3, <3>1
      <4> DEFINE ids == DOMAIN s.jobs
                 q == s.queue
      <4>2. q \in Seq(ids)
        BY <1>0
      <4> HIDE DEF ids, q
      <4>3. SubSeq(q, n + 1, Len(q)) \in Seq(ids)
            /\ Len(SubSeq(q, n + 1, Len(q))) = Len(q) - (n + 1) + 1
        BY <4>1, <4>2, SubSeqProperties DEF q
      <4>4. Len(rest) = 0 /\ rest \in Seq(ids)
        BY <1>3, <3>1, <4>3 DEF q
      <4> HIDE DEF rest
      <4> QED BY <1>1, <4>4, EmptySeq
    <3> QED BY <3>1
  <2>2. Cardinality(t.active) >= MaxConcurrency
    <3>1. n > 0 => s.queue[n] \in DOMAIN s.jobs
      BY <1>0, <1>3, ElementOfSeq
    <3> QED BY <1>1, <2>1, <3>1 DEF PopsExactly
  <2>3. Cardinality(t.active) <= MaxConcurrency
    BY <1>0, <1>1, PopsWithinLimit
  <2>4. Cardinality(t.active) \in Nat /\ MaxConcurrency \in Nat
    <3>1. t.active \subseteq DOMAIN s.jobs
      BY <1>0, <1>1, <1>4, TypeParts
    <3>2. IsFiniteSet(t.active)
      BY <1>0, <3>1, FiniteIds, FS_Subset
    <3> QED BY <3>2, FS_CardinalityType, EngineAssumption
  <2> QED BY <2>2, <2>3, <2>4
<1> QED BY <1>9 DEF t

LEMMA StartPoppedStarts ==
  ASSUME NEW s, EngineOK(s), QueueOK(s), NEW n \in 0..Len(s.queue), PopsExactly(s, n)
  PROVE  LET t == StartPopped(s, n) IN Starts(s, t, Popped(s, n)) /\ Full(t)
<1> DEFINE t == StartPopped(s, n)
           P == Popped(s, n)
           rest == SubSeq(s.queue, n + 1, Len(s.queue))
           Begun(j) == [s.jobs[j] EXCEPT !.status = "Running",
                                         !.attempt = @ + TimesPopped(s, n, j)]
<1>0. EngineOK(s) /\ EngineType(s) /\ HasFields(s)
  BY TypeParts DEF EngineOK
<1>1. /\ t.jobs = [j \in DOMAIN s.jobs |-> IF j \in P THEN Begun(j) ELSE s.jobs[j]]
      /\ t.runs = [r \in DOMAIN s.runs |->
                     IF s.runs[r] = "Pending" /\ \E j \in P : s.jobs[j].run = r
                     THEN "Running" ELSE s.runs[r]]
      /\ t.queue = rest
      /\ t.active = s.active \cup P
  BY <1>0 DEF StartPopped, HasFields
<1> HIDE DEF t
<1>2. /\ s.queue \in Seq(DOMAIN s.jobs) /\ Distinct(s.queue)
      /\ \A j \in Entries(s.queue) : s.jobs[j].status = "Ready"
  BY <1>0, TypeParts DEF QueueOK
<1>3. Len(s.queue) \in Nat /\ DOMAIN s.queue = 1..Len(s.queue)
  BY <1>2, LenProperties
<1>4. P \subseteq DOMAIN s.jobs /\ P \subseteq Entries(s.queue)
  <2>1. P \subseteq DOMAIN s.jobs
    BY <1>0, PoppedJobs
  <2>2. \A i \in 1..n : i \in DOMAIN s.queue
    BY <1>3
  <2> QED BY <2>1, <2>2 DEF Popped, Entries
<1>5. Distinct(t.queue) /\ Entries(t.queue) = Entries(s.queue) \ P
  <2>1. Distinct(rest) /\ Entries(rest) = Entries(s.queue) \ {s.queue[i] : i \in 1..n}
    BY <1>2, DistinctRest
  <2>2. P = {s.queue[i] : i \in 1..n}
    BY <1>0, EveryPopCounts
  <2> HIDE DEF rest, P
  <2> QED BY <1>1, <2>1, <2>2
<1>6. ASSUME NEW j \in DOMAIN s.jobs
      PROVE  /\ t.jobs[j].run = s.jobs[j].run /\ t.jobs[j].role = s.jobs[j].role
             /\ t.jobs[j].profile = s.jobs[j].profile /\ t.jobs[j].deps = s.jobs[j].deps
             /\ t.jobs[j].round = s.jobs[j].round
             /\ t.jobs[j].status = IF j \in P THEN "Running" ELSE s.jobs[j].status
             /\ t.jobs[j].attempt = s.jobs[j].attempt + (IF j \in P THEN 1 ELSE 0)
  <2>1. s.jobs[j] \in JobRecords /\ s.jobs[j].attempt \in Nat
    <3>1. s.jobs[j] \in JobRecords
      BY <1>0, TypeParts
    <3> QED BY <3>1 DEF JobRecords
  <2>2. j \in P => TimesPopped(s, n, j) = 1
    BY <1>0, <1>2, PoppedOnce
  <2>3. /\ Begun(j).run = s.jobs[j].run /\ Begun(j).role = s.jobs[j].role
        /\ Begun(j).profile = s.jobs[j].profile /\ Begun(j).deps = s.jobs[j].deps
        /\ Begun(j).round = s.jobs[j].round /\ Begun(j).status = "Running"
        /\ Begun(j).attempt = s.jobs[j].attempt + TimesPopped(s, n, j)
    BY <2>1 DEF JobRecords
  <2> HIDE DEF Begun, P
  <2>4. CASE j \in P
    <3>1. t.jobs[j] = Begun(j)
      BY <1>1, <2>4
    <3> QED BY <2>2, <2>3, <2>4, <3>1
  <2>5. CASE j \notin P
    <3>1. t.jobs[j] = s.jobs[j]
      BY <1>1, <2>5
    <3> QED BY <2>1, <2>5, <3>1
  <2> QED BY <2>4, <2>5
<1>7. DOMAIN t.jobs = DOMAIN s.jobs /\ DOMAIN t.runs = DOMAIN s.runs
      /\ \A r \in DOMAIN s.runs :
           t.runs[r] = s.runs[r] \/ (s.runs[r] = "Pending" /\ t.runs[r] = "Running")
  <2> HIDE DEF Begun
  <2> QED BY <1>1
<1>8. Starts(s, t, P)
  BY <1>1, <1>2, <1>4, <1>5, <1>6, <1>7 DEF Starts
<1>9. Full(t)
  BY <1>0, StartPoppedFull DEF t
<1> QED BY <1>8, <1>9 DEF t

\* Starting queued jobs leaves an orderly engine.
LEMMA StartsOrderly ==
  ASSUME NEW s, NEW t, NEW P, Orderly(s), EngineOK(t), Starts(s, t, P)
  PROVE  Orderly(t)
<1>1. /\ P \subseteq DOMAIN s.jobs
      /\ \A j \in P : s.jobs[j].status = "Ready"
      /\ DOMAIN t.jobs = DOMAIN s.jobs
      /\ \A j \in DOMAIN s.jobs :
           /\ t.jobs[j].run = s.jobs[j].run /\ t.jobs[j].role = s.jobs[j].role
           /\ t.jobs[j].deps = s.jobs[j].deps /\ t.jobs[j].round = s.jobs[j].round
           /\ t.jobs[j].status = IF j \in P THEN "Running" ELSE s.jobs[j].status
           /\ t.jobs[j].attempt = s.jobs[j].attempt + (IF j \in P THEN 1 ELSE 0)
      /\ DOMAIN t.runs = DOMAIN s.runs
      /\ \A r \in DOMAIN s.runs :
           t.runs[r] = s.runs[r] \/ (s.runs[r] = "Pending" /\ t.runs[r] = "Running")
  BY DEF Starts
<1>2. \A r : JobsOf(t, r) = JobsOf(s, r)
  BY <1>1 DEF JobsOf
<1>3. \A j \in DOMAIN s.jobs :
        /\ t.jobs[j].status \in Unfinished <=> s.jobs[j].status \in Unfinished
        /\ t.jobs[j].status = "Completed" <=> s.jobs[j].status = "Completed"
        /\ t.jobs[j].status = "Failed" <=> s.jobs[j].status = "Failed"
        /\ t.jobs[j].status = "Pending" <=> s.jobs[j].status = "Pending"
  BY <1>1 DEF Unfinished
<1>4. QueueOK(t)
  <2>1. Entries(s.queue) \subseteq DOMAIN s.jobs /\ \A j \in Entries(s.queue) : s.jobs[j].status = "Ready"
    BY TypeParts, EntriesOfSeq DEF Orderly, EngineOK, QueueOK
  <2>2. Distinct(t.queue) /\ Entries(t.queue) = Entries(s.queue) \ P
    BY DEF Starts
  <2> QED BY <1>1, <2>1, <2>2 DEF QueueOK
<1>5. AttemptsOK(t)
  <2> SUFFICES ASSUME NEW j \in DOMAIN s.jobs
               PROVE  /\ t.jobs[j].attempt <= MaxAttempts
                      /\ t.jobs[j].status = "Failed" => t.jobs[j].attempt = MaxAttempts
                      /\ t.jobs[j].status \in {"Pending", "Ready"} => t.jobs[j].attempt < MaxAttempts
    BY <1>1 DEF AttemptsOK
  <2>1. s.jobs[j].attempt \in Nat /\ MaxAttempts \in Nat
    <3>1. s.jobs[j] \in JobRecords
      BY TypeParts DEF Orderly, EngineOK
    <3> QED BY <3>1, EngineAssumption DEF JobRecords
  <2>2. /\ s.jobs[j].attempt <= MaxAttempts
        /\ s.jobs[j].status = "Failed" => s.jobs[j].attempt = MaxAttempts
        /\ s.jobs[j].status \in {"Pending", "Ready"} => s.jobs[j].attempt < MaxAttempts
    BY DEF Orderly, AttemptsOK
  <2>3. CASE j \in P
    <3>1. t.jobs[j].status = "Running" /\ t.jobs[j].attempt = s.jobs[j].attempt + 1
          /\ s.jobs[j].attempt < MaxAttempts
      BY <1>1, <2>2, <2>3
    <3> QED BY <2>1, <3>1
  <2>4. CASE j \notin P
    <3>1. t.jobs[j].status = s.jobs[j].status /\ t.jobs[j].attempt = s.jobs[j].attempt
      BY <1>1, <2>1, <2>4
    <3> QED BY <2>2, <3>1
  <2> QED BY <2>3, <2>4
<1>6. DepsOK(t)
  BY <1>1 DEF Orderly, DepsOK
<1>7. RunsOK(t)
  <2> SUFFICES ASSUME NEW r \in DOMAIN s.runs
               PROVE  JobsOf(t, r) # {} /\ t.runs[r] # "Cancelled" /\ Reported(t, r)
    BY <1>1 DEF RunsOK
  <2>1. JobsOf(s, r) # {} /\ s.runs[r] # "Cancelled" /\ Reported(s, r)
    BY DEF Orderly, RunsOK
  <2>2. \A j \in JobsOf(s, r) :
          /\ j \in DOMAIN s.jobs
          /\ t.jobs[j].role = s.jobs[j].role
    BY <1>1 DEF JobsOf
  <2>3. Reported(t, r)
    BY <1>1, <1>2, <1>3, <2>1, <2>2 DEF Reported
  <2> QED BY <1>1, <1>2, <2>1, <2>3
<1>8. ASSUME Plain
      PROVE  PlainOK(t)
  <2>1. Gated(s) /\ PlannersOK(s) /\ FailedOver(s)
    BY <1>8 DEF Orderly, PlainOK
  <2>2. Gated(t)
    <3>1. \A j \in DOMAIN s.jobs : \A d \in Entries(s.jobs[j].deps) : d \in DOMAIN s.jobs
      BY DEF Orderly, DepsOK
    <3> QED BY <1>1, <1>3, <2>1, <3>1 DEF Gated
  <2>3. PlannersOK(t)
    BY <1>1, <1>2, <1>3, <2>1 DEF PlannersOK
  <2>4. FailedOver(t)
    <3>1. \A j \in DOMAIN s.jobs : s.jobs[j].run \in DOMAIN s.runs
      BY TypeParts DEF Orderly, EngineOK
    <3>2. \A j \in DOMAIN s.jobs :
            t.runs[s.jobs[j].run] = "Failed" => s.runs[s.jobs[j].run] = "Failed"
      BY <1>1, <3>1
    <3> QED BY <1>1, <1>3, <2>1, <3>2 DEF FailedOver
  <2> QED BY <2>2, <2>3, <2>4 DEF PlainOK
<1> QED BY <1>4, <1>5, <1>6, <1>7, <1>8 DEF Orderly

-----------------------------------------------------------------------------
(* The daemon.                                                             *)

\* ReportsAreCurrent for the reports in W.
Current(s, W) ==
  \A w \in W :
    /\ w.job \in s.active
    /\ w.attempt = s.jobs[w.job].attempt
    /\ \A v \in W : v.job = w.job => v = w

\* Nothing more is heard of a job on the stale list.
Silent == \A w \in workers \cup events : w.job \notin stale

\* What the daemon makes of its engine state while it is calm.
Attended ==
  /\ Orderly(eng)
  /\ Full(eng)
  /\ Current(eng, workers \cup events)
  /\ Silent

\* No run has been cancelled yet, and no timeout has hit a live worker's job.
Undisturbed == faults.cancel = 0 /\ faults.timeout = 0

\* The inductive invariant.
CleanInv == IInv /\ (Undisturbed => Attended)

\* What the spawn loop adds for job j: a worker, or the failure of a job that
\* can get none.
ReportOf(s, j) ==
  IF HasProfile(s, j) THEN [job |-> j, attempt |-> s.jobs[j].attempt + 1]
  ELSE [job |-> j, attempt |-> s.jobs[j].attempt + 1, outcome |-> "failed"]

LEMMA LaunchedOnce ==
  ASSUME NEW s, EngineOK(s), QueueOK(s), NEW n \in 0..Len(s.queue), NEW w \in Launched(s, n)
  PROVE  w.job \in Popped(s, n) /\ w = [job |-> w.job, attempt |-> s.jobs[w.job].attempt + 1]
<1>1. PICK j \in Popped(s, n) : \E k \in 1..TimesPopped(s, n, j) :
        w = [job |-> j, attempt |-> s.jobs[j].attempt + k]
  BY DEF Launched
<1>2. PICK k \in 1..TimesPopped(s, n, j) : w = [job |-> j, attempt |-> s.jobs[j].attempt + k]
  BY <1>1
<1>3. TimesPopped(s, n, j) = 1
  BY PoppedOnce DEF EngineOK, QueueOK
<1>4. k = 1
  BY <1>3
<1> QED BY <1>2, <1>4

\* The spawn loop starts jobs that nothing was heard of, and launches each of
\* them once.
LEMMA DispatchAttends ==
  ASSUME NEW s, Orderly(s), NEW m, NEW ev, Current(s, workers \cup ev), Dispatch(s, m, ev)
  PROVE  /\ Orderly(eng') /\ Full(eng')
         /\ Current(eng', workers' \cup events')
         /\ \E P : /\ Starts(s, eng', P)
                   /\ \A w \in workers' \cup events' : w \in workers \cup ev \/ w.job \in P
<1>1. PICK n \in 0..Len(s.queue) :
        /\ PopsExactly(s, n)
        /\ eng' = StartPopped(s, n)
        /\ workers' = workers \cup {w \in Launched(s, n) : HasProfile(s, w.job)}
        /\ events' = ev \cup {[job |-> w.job, attempt |-> w.attempt, outcome |-> "failed"] :
                                w \in {v \in Launched(s, n) : ~HasProfile(s, v.job)}}
  BY DEF Dispatch
<1> DEFINE P == Popped(s, n)
<1>2. EngineOK(eng') /\ Starts(s, eng', P) /\ Full(eng')
  BY <1>1, StartPoppedOK, StartPoppedStarts DEF Orderly
<1> HIDE DEF P
<1>3. Orderly(eng')
  BY <1>2, StartsOrderly
<1>4. ASSUME NEW w \in workers' \cup events'
      PROVE  w \in workers \cup ev \/ (w.job \in P /\ w = ReportOf(s, w.job))
  <2>1. CASE w \in Launched(s, n) /\ HasProfile(s, w.job)
    BY <2>1, LaunchedOnce DEF Orderly, ReportOf, P
  <2>2. ASSUME NEW v \in Launched(s, n), ~HasProfile(s, v.job),
               w = [job |-> v.job, attempt |-> v.attempt, outcome |-> "failed"]
        PROVE  w.job \in P /\ w = ReportOf(s, w.job)
    <3>1. v.job \in P /\ v = [job |-> v.job, attempt |-> s.jobs[v.job].attempt + 1]
      BY LaunchedOnce DEF Orderly, P
    <3>2. v.attempt = s.jobs[v.job].attempt + 1
      BY <3>1
    <3>3. w.job = v.job
      BY <2>2
    <3> QED BY <2>2, <3>1, <3>2, <3>3 DEF ReportOf
  <2> QED BY <1>1, <2>1, <2>2
<1>5. Current(eng', workers' \cup events')
  <2> SUFFICES ASSUME NEW w \in workers' \cup events'
               PROVE  /\ w.job \in eng'.active
                      /\ w.attempt = eng'.jobs[w.job].attempt
                      /\ \A v \in workers' \cup events' : v.job = w.job => v = w
    BY DEF Current
  <2>1. /\ P \subseteq DOMAIN s.jobs
        /\ \A j \in P : s.jobs[j].status = "Ready"
        /\ \A j \in DOMAIN s.jobs :
             eng'.jobs[j].attempt = s.jobs[j].attempt + (IF j \in P THEN 1 ELSE 0)
        /\ eng'.active = s.active \cup P
    BY <1>2 DEF Starts
  <2>2. /\ s.active \subseteq DOMAIN s.jobs
        /\ \A j \in s.active : s.jobs[j].status = "Running"
        /\ \A j \in DOMAIN s.jobs : s.jobs[j].attempt \in Nat
    <3>1. EngineType(s) /\ \A j \in DOMAIN s.jobs : s.jobs[j] \in JobRecords
      BY TypeParts DEF Orderly, EngineOK
    <3> QED BY <3>1, TypeParts DEF Orderly, EngineOK, RunningHoldSlots, JobRecords
  <2>3. \A v \in workers \cup ev : v.job \in s.active /\ v.job \notin P
    BY <2>1, <2>2 DEF Current
  <2>4. CASE w \in workers \cup ev
    <3>1. w.job \in DOMAIN s.jobs /\ w.job \notin P /\ w.attempt = s.jobs[w.job].attempt
      BY <2>2, <2>3, <2>4 DEF Current
    <3>2. w.attempt = eng'.jobs[w.job].attempt
      BY <2>1, <2>2, <3>1
    <3>3. \A v \in workers' \cup events' : v.job = w.job => v = w
      BY <1>4, <2>4, <3>1 DEF Current
    <3> QED BY <2>1, <2>3, <2>4, <3>2, <3>3
  <2>5. CASE w.job \in P /\ w = ReportOf(s, w.job)
    <3>1. w.attempt = s.jobs[w.job].attempt + 1
      <4>1. ReportOf(s, w.job).attempt = s.jobs[w.job].attempt + 1
        BY DEF ReportOf
      <4> QED BY <2>5, <4>1
    <3>2. w.attempt = eng'.jobs[w.job].attempt
      BY <2>1, <2>5, <3>1
    <3>3. \A v \in workers' \cup events' : v.job = w.job => v = w
      BY <1>4, <2>3, <2>5
    <3> QED BY <2>1, <2>5, <3>2, <3>3
  <2> QED BY <1>4, <2>4, <2>5
<1>6. \A w \in workers' \cup events' : w \in workers \cup ev \/ w.job \in P
  BY <1>4
<1> QED BY <1>2, <1>3, <1>5, <1>6

\* The jobs of s are in t, with the attempts they had.
KeepsAttempts(s, t) ==
  \A j \in DOMAIN s.jobs : j \in DOMAIN t.jobs /\ t.jobs[j].attempt = s.jobs[j].attempt

\* A handler that settles the jobs in J, of which nothing more is to be heard,
\* and then hands out jobs.
LEMMA HandlerAttends ==
  ASSUME IInv, Attended, NEW s, NEW J, Orderly(s),
         s.active = eng.active \ J, KeepsAttempts(eng, s),
         NEW ev \in SUBSET events, \A w \in workers \cup ev : w.job \notin J,
         Dispatch(s, managed \ J, ev),
         stale' \subseteq stale \ J
  PROVE  Attended'
<1>1. Current(s, workers \cup ev)
  <2> SUFFICES ASSUME NEW w \in workers \cup ev
               PROVE  /\ w.job \in s.active
                      /\ w.attempt = s.jobs[w.job].attempt
                      /\ \A v \in workers \cup ev : v.job = w.job => v = w
    BY DEF Current
  <2>1. /\ w.job \in eng.active
        /\ w.attempt = eng.jobs[w.job].attempt
        /\ \A v \in workers \cup events : v.job = w.job => v = w
    BY DEF Attended, Current
  <2>2. eng.active \subseteq DOMAIN eng.jobs
    BY IInvParts, TypeParts DEF IInvByVariable, EngineOK
  <2> QED BY <2>1, <2>2 DEF KeepsAttempts
<1>2. /\ Orderly(eng') /\ Full(eng')
      /\ Current(eng', workers' \cup events')
  BY <1>1, DispatchAttends
<1>3. PICK P : /\ Starts(s, eng', P)
               /\ \A w \in workers' \cup events' : w \in workers \cup ev \/ w.job \in P
  BY <1>1, DispatchAttends
<1>4. stale' \subseteq s.active
  BY IInvParts DEF IInvByVariable
<1>5. P \cap s.active = {}
  <2>1. s.active \subseteq DOMAIN s.jobs /\ \A j \in s.active : s.jobs[j].status = "Running"
    BY TypeParts DEF Orderly, EngineOK, RunningHoldSlots
  <2> QED BY <1>3, <2>1 DEF Starts
<1>6. \A w \in workers' \cup events' : w.job \notin stale'
  BY <1>3, <1>4, <1>5 DEF Attended, Silent
<1> QED BY <1>2, <1>6 DEF Attended, Silent

LEMMA SettlesKeepsAttempts ==
  ASSUME NEW s, NEW t, NEW j, NEW status, NEW new, Settles(s, t, j, status, new)
  PROVE  KeepsAttempts(s, t)
BY DEF Settles, SameJob, KeepsAttempts

LEMMA GrowsKeepsAttempts ==
  ASSUME NEW s, NEW t, NEW run, NEW recs, EngineOK(s), Grows(s, t, run, recs)
  PROVE  KeepsAttempts(s, t)
<1>1. DOMAIN s.jobs \subseteq DOMAIN t.jobs /\ \A j \in DOMAIN s.jobs : t.jobs[j] = s.jobs[j]
  BY GrownJobs
<1> QED BY <1>1 DEF KeepsAttempts

LEMMA FollowsKeepsAttempts ==
  ASSUME NEW s, NEW t, NEW j, EngineOK(s), Follows(s, t, j)
  PROVE  KeepsAttempts(s, t)
<1>1. CASE t = s
  BY <1>1 DEF KeepsAttempts
<1>2. CASE \E recs : Grows(s, t, s.jobs[j].run, recs)
  BY <1>2, GrowsKeepsAttempts
<1>3. CASE Settles(s, t, j, AfterFailure(s.jobs[j]), {})
  BY <1>3, SettlesKeepsAttempts
<1> QED BY <1>1, <1>2, <1>3 DEF Follows

\* What a handler leaves behind when it has dealt with the completion of j.
LEMMA CompletionHandled ==
  ASSUME NEW s, Orderly(s), NEW j \in s.active, NEW order \in Orderings(PromotedBy(s, j)),
         NEW next \in AfterCompletion(MarkCompleted(s, j, order), j)
  PROVE  LET done == MarkCompleted(s, j, order) IN
         /\ Finished(s, done, j) /\ Settles(s, done, j, "Completed", Waiters(s, j))
         /\ Orderly(next) /\ Follows(done, next, j)
         /\ next.active = s.active \ {j}
         /\ KeepsAttempts(s, next)
<1> DEFINE done == MarkCompleted(s, j, order)
<1>1. j \in DOMAIN s.jobs /\ EngineOK(s)
  BY TypeParts DEF Orderly, EngineOK
<1>2. Finished(s, done, j)
  BY MarkCompletedOrderly
<1>3. Settles(s, done, j, "Completed", Waiters(s, j))
  BY MarkCompletedSettles
<1>4. EngineOK(done) /\ Freed(s, done, {j})
  BY <1>1, MarkCompletedOK
<1> HIDE DEF done
<1>5. j \in DOMAIN done.jobs /\ j \notin done.active
  BY <1>1, <1>4 DEF Freed
<1>6. next \in AfterCompletion(done, j)
  BY DEF done
<1>7. Orderly(next) /\ Follows(done, next, j)
  BY <1>2, <1>5, <1>6, AfterCompletionOrderly
<1>8. Freed(done, next, {})
  BY <1>4, <1>5, <1>6, AfterCompletionOK
<1>9. KeepsAttempts(s, done) /\ KeepsAttempts(done, next)
  BY <1>3, <1>4, <1>7, SettlesKeepsAttempts, FollowsKeepsAttempts
<1>10. KeepsAttempts(s, next)
  BY <1>9 DEF KeepsAttempts
<1>11. next.active = s.active \ {j}
  BY <1>4, <1>8 DEF Freed
<1> QED BY <1>2, <1>3, <1>7, <1>10, <1>11 DEF done

\* What a handler leaves behind when it has dealt with the failure of j.
LEMMA FailureHandled ==
  ASSUME NEW s, Orderly(s), NEW j \in s.active
  PROVE  LET next == MarkFailed(s, j) IN
         /\ Verdict(s.jobs[j], AfterFailure(s.jobs[j]))
         /\ Settles(s, next, j, AfterFailure(s.jobs[j]), {})
         /\ Orderly(next)
         /\ next.active = s.active \ {j}
         /\ KeepsAttempts(s, next)
<1> DEFINE next == MarkFailed(s, j)
<1>1. j \in DOMAIN s.jobs /\ EngineOK(s)
  BY TypeParts DEF Orderly, EngineOK
<1>2. /\ Verdict(s.jobs[j], AfterFailure(s.jobs[j]))
      /\ Settles(s, next, j, AfterFailure(s.jobs[j]), {})
  BY <1>1, MarkFailedSettles
<1>3. Orderly(next)
  BY MarkFailedOrderly
<1>4. Freed(s, next, {j})
  BY <1>1, MarkFailedOK
<1> HIDE DEF next
<1>5. KeepsAttempts(s, next)
  BY <1>2, SettlesKeepsAttempts
<1> QED BY <1>2, <1>3, <1>4, <1>5 DEF Freed, next

\* Of a job whose attempt is current, nothing more is heard after its report.
LEMMA OnlyReport ==
  ASSUME IInv, Attended, NEW e \in events
  PROVE  /\ e.job \in eng.active
         /\ \A w \in workers \cup (events \ {e}) : w.job # e.job
<1>1. /\ workers \subseteq WorkerType(DOMAIN eng.jobs)
      /\ events \subseteq EventType(DOMAIN eng.jobs)
  BY IInvParts DEF IInvByVariable
<1>2. ASSUME NEW w \in workers PROVE w # e
  <2>1. DOMAIN w = {"job", "attempt"} /\ DOMAIN e = {"job", "attempt", "outcome"}
    BY <1>1 DEF WorkerType, EventType
  <2> QED BY <2>1
<1> QED BY <1>2 DEF Attended, Current

LEMMA CalmInit == Init => Attended
<1> SUFFICES ASSUME Init PROVE Attended
  OBVIOUS
<1> DEFINE s == EmptyEngine
<1>1. eng = s /\ workers = {} /\ events = {} /\ stale = {}
  BY DEF Init
<1>2. EngineOK(s)
  <2>1. IInvByVariable
    BY InitOK, IInvParts
  <2> QED BY <1>1, <2>1 DEF IInvByVariable
<1>3. s.jobs = <<>> /\ s.runs = <<>> /\ s.queue = <<>>
  BY DEF EmptyEngine
<1> HIDE DEF s
<1>4. DOMAIN s.jobs = {} /\ DOMAIN s.runs = {} /\ DOMAIN s.queue = {}
  BY <1>3
<1>5. Orderly(s)
  <2>1. QueueOK(s)
    BY <1>4 DEF QueueOK, Entries, Distinct
  <2>2. AttemptsOK(s) /\ DepsOK(s) /\ RunsOK(s)
    BY <1>4 DEF AttemptsOK, DepsOK, RunsOK
  <2>3. PlainOK(s)
    BY <1>4 DEF PlainOK, Gated, PlannersOK, FailedOver
  <2> QED BY <1>2, <2>1, <2>2, <2>3 DEF Orderly
<1> QED BY <1>1, <1>3, <1>5 DEF Attended, Full, Current, Silent

\* Reports that are fewer, and the same engine.
LEMMA FewerReports ==
  ASSUME Attended, UNCHANGED <<eng, stale>>, workers' \cup events' \subseteq workers \cup events
  PROVE  Attended'
BY DEF Attended, Current, Silent

\* Faults are only counted up.
LEMMA FaultsGrow ==
  ASSUME IInv, [Next]_vars
  PROVE  faults'.cancel >= faults.cancel /\ faults'.timeout >= faults.timeout
<1>0. EngineOK(eng) /\ faults \in [crash : Nat, timeout : Nat, cancel : Nat, reload : Nat]
  BY IInvParts DEF IInvByVariable
<1>1. ASSUME NEW late \in SUBSET eng.active, CheckHeartbeats(late)
      PROVE  \E n \in Nat : faults' = [faults EXCEPT !.timeout = @ + n]
  <2>1. Cardinality({j \in late : ~Lost(j)}) \in Nat
    BY <1>0, FiniteIds, FS_Subset, FS_CardinalityType DEF EngineOK
  <2> QED BY <1>1, <2>1 DEF CheckHeartbeats
<1>2. \/ faults' = faults
      \/ faults' = [faults EXCEPT !.cancel = @ + 1]
      \/ faults' = [faults EXCEPT !.crash = @ + 1]
      \/ faults' = [faults EXCEPT !.reload = @ + 1]
      \/ \E n \in Nat : faults' = [faults EXCEPT !.timeout = @ + n]
  BY <1>1 DEF Next, vars, SubmitRun, CancelRun, HandleCompleted, HandleFailed, ExpireJob,
              ReloadConfig, WorkerCrash, BridgeClose, WorkerReport
<1> QED BY <1>0, <1>2

LEMMA CalmNext == CleanInv /\ [Next]_vars => CleanInv'
<1> SUFFICES ASSUME IInv, Undisturbed => Attended, [Next]_vars, Undisturbed'
             PROVE  Attended'
  BY NextOK DEF CleanInv
<1>a. Undisturbed /\ Attended
  <2>1. faults.cancel \in Nat /\ faults.timeout \in Nat
    BY IInvParts DEF IInvByVariable
  <2> QED BY <2>1, FaultsGrow DEF Undisturbed
<1>0. /\ Orderly(eng) /\ EngineOK(eng) /\ eng.active \subseteq DOMAIN eng.jobs
      /\ stale \subseteq eng.active
      /\ workers \subseteq WorkerType(DOMAIN eng.jobs)
      /\ events \subseteq EventType(DOMAIN eng.jobs)
      /\ faults \in [crash : Nat, timeout : Nat, cancel : Nat, reload : Nat]
      /\ IInv'
  BY <1>a, IInvParts, NextOK, TypeParts DEF IInvByVariable, EngineOK, Attended
<1>1. CASE SubmitRun
  <2> DEFINE s == Submit(eng)
  <2>1. Orderly(s) /\ KeepsAttempts(eng, s)
    BY <1>0, SubmitOrderly, GrowsKeepsAttempts
  <2>2. Freed(eng, s, {})
    BY <1>0, SubmitOK
  <2> HIDE DEF s
  <2>3. s.active = eng.active \ {} /\ managed = managed \ {} /\ stale' \subseteq stale \ {}
    BY <1>1, <2>2 DEF SubmitRun, Freed
  <2>4. Dispatch(s, managed \ {}, events)
    BY <1>1, <2>3 DEF SubmitRun, s
  <2> QED BY <1>0, <1>a, <2>1, <2>3, <2>4, HandlerAttends
<1>2. ASSUME NEW r \in RunIds, CancelRun(r) PROVE FALSE
  <2>1. faults.cancel \in Nat /\ faults'.cancel = faults.cancel + 1
    BY <1>0, <1>2 DEF CancelRun
  <2> QED BY <2>1 DEF Undisturbed
<1>3. ASSUME NEW e \in events, HandleCompleted(e) PROVE Attended'
  <2> DEFINE j == e.job
  <2>1. j \in eng.active /\ \A w \in workers \cup (events \ {e}) : w.job \notin {j}
    BY <1>a, OnlyReport
  <2>2. PICK order \in Orderings(PromotedBy(eng, j)) :
          \E next \in AfterCompletion(MarkCompleted(eng, j, order), j) :
            Dispatch(next, managed \ {j}, events \ {e})
    BY <1>3 DEF HandleCompleted
  <2>3. PICK next \in AfterCompletion(MarkCompleted(eng, j, order), j) :
          Dispatch(next, managed \ {j}, events \ {e})
    BY <2>2
  <2>4. Orderly(next) /\ next.active = eng.active \ {j} /\ KeepsAttempts(eng, next)
    BY <1>0, <2>1, CompletionHandled
  <2>5. stale' \subseteq stale \ {j} /\ events \ {e} \in SUBSET events
    BY <1>3 DEF HandleCompleted, Selecting
  <2> HIDE DEF j
  <2> QED BY <1>0, <2>1, <2>3, <2>4, <2>5, <1>a, HandlerAttends
<1>4. ASSUME NEW e \in events, HandleFailed(e) PROVE Attended'
  <2> DEFINE j == e.job
             next == MarkFailed(eng, j)
  <2>1. j \in eng.active /\ \A w \in workers \cup (events \ {e}) : w.job \notin {j}
    BY <1>a, OnlyReport
  <2>2. Dispatch(next, managed \ {j}, events \ {e})
    BY <1>4 DEF HandleFailed
  <2>3. Orderly(next) /\ next.active = eng.active \ {j} /\ KeepsAttempts(eng, next)
    BY <1>0, <2>1, FailureHandled
  <2>4. stale' \subseteq stale \ {j}
    BY <1>4 DEF HandleFailed, Selecting
  <2> HIDE DEF j, next
  <2> QED BY <1>0, <1>a, <2>1, <2>2, <2>3, <2>4, HandlerAttends
<1>5. ASSUME NEW late \in SUBSET eng.active, CheckHeartbeats(late) PROVE Attended'
  <2> DEFINE alive == {j \in late : ~Lost(j)}
  <2>1. IsFiniteSet(alive) /\ Cardinality(alive) \in Nat
    BY <1>0, FiniteIds, FS_Subset, FS_CardinalityType DEF EngineOK
  <2>2. faults.timeout \in Nat /\ faults'.timeout = faults.timeout + Cardinality(alive)
        /\ faults'.timeout = 0
    BY <1>0, <1>5 DEF CheckHeartbeats, Undisturbed
  <2>3. Cardinality(alive) = 0
    <3> HIDE DEF alive
    <3> QED BY <2>1, <2>2
  <2>4. alive = {}
    <3> HIDE DEF alive
    <3> QED BY <2>1, <2>3, FS_EmptySet
  <2>5. \A w \in workers \cup events : w.job \notin late
    BY <1>a, <2>4 DEF Lost, Attended, Current
  <2> QED BY <1>a, <1>5, <2>5 DEF CheckHeartbeats, Attended, Silent
<1>6. ASSUME NEW j \in stale, ExpireJob(j) PROVE Attended'
  <2> DEFINE next == MarkFailed(eng, j)
  <2>1. j \in eng.active /\ \A w \in workers \cup events : w.job \notin {j}
    BY <1>0, <1>a DEF Attended, Silent
  <2>2. Dispatch(next, managed \ {j}, events) /\ stale' \subseteq stale \ {j}
    BY <1>6 DEF ExpireJob
  <2>3. Orderly(next) /\ next.active = eng.active \ {j} /\ KeepsAttempts(eng, next)
    BY <1>0, <2>1, FailureHandled
  <2> HIDE DEF next
  <2> QED BY <1>0, <1>a, <2>1, <2>2, <2>3, HandlerAttends
<1>7. ASSUME NEW w \in workers, WorkerCrash(w) \/ BridgeClose(w) PROVE Attended'
  BY <1>a, <1>7, FewerReports DEF WorkerCrash, BridgeClose
<1>8. ASSUME NEW w \in workers, NEW o \in Outcomes, WorkerReport(w, o) PROVE Attended'
  <2> DEFINE e == [job |-> w.job, attempt |-> w.attempt, outcome |-> o]
  <2>1. workers' \cup events' = ((workers \ {w}) \cup events) \cup {e}
        /\ UNCHANGED <<eng, stale>>
    BY <1>8 DEF WorkerReport
  <2>2. e.job = w.job /\ e.attempt = w.attempt
    OBVIOUS
  <2>3. \A v \in (workers \ {w}) \cup events : v # w
    <3>1. ASSUME NEW v \in events PROVE v # w
      <4>1. DOMAIN w = {"job", "attempt"} /\ DOMAIN v = {"job", "attempt", "outcome"}
        BY <1>0 DEF WorkerType, EventType
      <4> QED BY <4>1
    <3> QED BY <3>1
  <2>4. \A v \in (workers \ {w}) \cup events : v.job # w.job
    BY <1>a, <2>3 DEF Attended, Current
  <2> HIDE DEF e
  <2>5. Current(eng, workers' \cup events')
    BY <1>a, <2>1, <2>2, <2>4 DEF Attended, Current
  <2>6. \A v \in workers' \cup events' : v.job \notin stale
    BY <1>a, <2>1, <2>2 DEF Attended, Silent
  <2> QED BY <1>a, <2>1, <2>5, <2>6 DEF Attended, Silent
<1>9. CASE ReloadConfig \/ UNCHANGED vars
  <2>1. eng' = eng /\ stale' = stale /\ workers' = workers /\ events' = events
    BY <1>9 DEF ReloadConfig, vars
  <2>2. UNCHANGED <<eng, stale>> /\ workers' \cup events' \subseteq workers \cup events
    BY <2>1
  <2> QED BY <1>a, <2>2, FewerReports
<1> QED BY <1>0, <1>1, <1>2, <1>3, <1>4, <1>5, <1>6, <1>7, <1>8, <1>9 DEF Next

-----------------------------------------------------------------------------
(* Invariants of an undisturbed daemon.                                    *)

LEMMA CleanInvariance == Spec => []CleanInv
<1>1. Init => CleanInv
  BY InitOK, CalmInit DEF CleanInv
<1>2. CleanInv /\ [Next]_vars => CleanInv'
  BY CalmNext
<1> QED BY <1>1, <1>2, PTL DEF Spec

\* Until a run is cancelled or a timeout hits a job whose worker lives, crashes,
\* retries, replanning and reloads of the configuration produce no report about
\* a job that has no slot, about an earlier attempt, or a second one about the
\* same attempt.
THEOREM CalmReportsAreCurrent == Spec => [](Undisturbed => ReportsAreCurrent)
<1>1. CleanInv => (Undisturbed => ReportsAreCurrent)
  BY DEF CleanInv, Attended, Current, ReportsAreCurrent
<1> QED BY <1>1, CleanInvariance, PTL

\* Until then the ready queue holds Ready jobs only, and none twice, so that
\* next_job need not look at what it pops.
THEOREM CalmQueue == Spec => [](Undisturbed => QueueHoldsReadyOnce)
<1>1. CleanInv => (Undisturbed => QueueHoldsReadyOnce)
  BY DEF CleanInv, Attended, Orderly, QueueOK, Distinct, QueueHoldsReadyOnce
<1> QED BY <1>1, CleanInvariance, PTL

\* Until then no job is tried more than max_attempts times, and none is given up
\* with attempts left.
THEOREM CalmAttempts == Spec => [](Undisturbed => AttemptsBounded)
<1>1. CleanInv => (Undisturbed => AttemptsBounded)
  BY DEF CleanInv, Attended, Orderly, AttemptsOK, AttemptsBounded
<1> QED BY <1>1, CleanInvariance, PTL

\* Until then no slot is free while a job is queued, however many slots there
\* are.
THEOREM CalmSlots == Spec => [](Undisturbed => NoIdleSlot)
<1>1. CleanInv => (Undisturbed => NoIdleSlot)
  BY DEF CleanInv, Attended, Full, NoIdleSlot
<1> QED BY <1>1, CleanInvariance, PTL

\* Until then a run whose jobs are all over, its planner's plan having been
\* usable, is reported Completed or Failed as its jobs went.
THEOREM CalmRunsAreReported == Spec => [](Undisturbed => OverMeansReported)
<1>1. CleanInv => (Undisturbed => OverMeansReported)
  BY DEF CleanInv, Attended, Orderly, RunsOK, Reported, OverMeansReported
<1> QED BY <1>1, CleanInvariance, PTL

\* If moreover no plan contains a planner, a run that is reported Failed has no
\* unfinished job but those of a revision.
THEOREM CalmFailedRuns == Plain => (Spec => [](Undisturbed => FailedRunsAreOver))
<1> SUFFICES ASSUME Plain PROVE Spec => [](Undisturbed => FailedRunsAreOver)
  OBVIOUS
<1>1. CleanInv => (Undisturbed => FailedRunsAreOver)
  BY DEF CleanInv, Attended, Orderly, PlainOK, FailedOver, FailedRunsAreOver
<1> QED BY <1>1, CleanInvariance, PTL

\* And a job stays Pending until all its dependencies have completed and no
\* longer: none starts early, and none is forgotten by the promotion.
THEOREM CalmDependencies == Plain => (Spec => [](Undisturbed => Gated(eng)))
<1> SUFFICES ASSUME Plain PROVE Spec => [](Undisturbed => Gated(eng))
  OBVIOUS
<1>1. CleanInv => (Undisturbed => Gated(eng))
  BY DEF CleanInv, Attended, Orderly, PlainOK
<1> QED BY <1>1, CleanInvariance, PTL

-----------------------------------------------------------------------------
(* The orchestrator implements Scheduling.                                 *)

\* No run may be cancelled and no live worker's job may be timed out.
Calm == MaxCancels = 0 /\ MaxFalseTimeouts = 0

AbsState(status) ==
  CASE status \in {"Pending", "Ready"} -> "waiting"
    [] status = "Running"              -> "running"
    [] status = "Completed"            -> "completed"
    [] status = "Failed"               -> "failed"

AbsOf(s) ==
  [j \in DOMAIN s.jobs |-> [deps  |-> Entries(s.jobs[j].deps),
                            state |-> AbsState(s.jobs[j].status),
                            tries |-> s.jobs[j].attempt]]

\* The dependencies of the jobs that t has and s has not.
NewDeps(s, t) == [j \in Newcomers(s, t) |-> Entries(t.jobs[j].deps)]

LEMMA AbsIsAbstract == AbsOf(eng) = AbstractJobs /\ AbsOf(eng)' = AbstractJobs'
BY DEF AbsOf, AbsState, AbstractJobs

LEMMA AbsStates ==
  /\ AbsState("Pending") = "waiting" /\ AbsState("Ready") = "waiting"
  /\ AbsState("Running") = "running"
  /\ AbsState("Completed") = "completed" /\ AbsState("Failed") = "failed"
BY DEF AbsState

\* The copy of FiniteSets that the instance brings counts as the original does.
LEMMA AbsCardinality ==
  ASSUME NEW S
  PROVE  Abstract!Cardinality(S) = Cardinality(S)
BY DEF Abstract!Cardinality, Cardinality

-----------------------------------------------------------------------------
(* Operations on the engine as operators on the abstract job map.          *)

LEMMA AbsSettles ==
  ASSUME NEW s, NEW t, NEW j \in DOMAIN s.jobs, NEW status,
         NEW new, new \subseteq {i \in DOMAIN s.jobs : s.jobs[i].status = "Pending"},
         Settles(s, t, j, status, new)
  PROVE  AbsOf(t) = Abstract!Released(AbsOf(s), j, AbsState(status))
<1>1. DOMAIN AbsOf(t) = DOMAIN AbsOf(s) /\ DOMAIN AbsOf(s) = DOMAIN s.jobs
  BY DEF Settles, AbsOf
<1>2. ASSUME NEW i \in DOMAIN s.jobs
      PROVE  AbsOf(t)[i] = [deps  |-> AbsOf(s)[i].deps,
                            state |-> IF i = j THEN AbsState(status) ELSE AbsOf(s)[i].state,
                            tries |-> AbsOf(s)[i].tries]
  <2>1. /\ i \in DOMAIN t.jobs
        /\ t.jobs[i].deps = s.jobs[i].deps /\ t.jobs[i].attempt = s.jobs[i].attempt
        /\ t.jobs[i].status = IF i = j THEN status
                              ELSE IF i \in new THEN "Ready" ELSE s.jobs[i].status
    BY DEF Settles, SameJob
  <2>2. i \in new => AbsState(s.jobs[i].status) = AbsState("Ready")
    BY AbsStates
  <2>3. AbsState(t.jobs[i].status) = IF i = j THEN AbsState(status) ELSE AbsState(s.jobs[i].status)
    BY <2>1, <2>2
  <2> QED BY <2>1, <2>3 DEF AbsOf
<1>3. ASSUME NEW i \in DOMAIN s.jobs
      PROVE  AbsOf(s)[i] = [deps  |-> AbsOf(s)[i].deps, state |-> AbsOf(s)[i].state,
                            tries |-> AbsOf(s)[i].tries]
  BY DEF AbsOf
<1>4. ASSUME NEW i \in DOMAIN s.jobs
      PROVE  AbsOf(t)[i] = Abstract!Released(AbsOf(s), j, AbsState(status))[i]
  BY <1>1, <1>2, <1>3 DEF Abstract!Released
<1>5. /\ AbsOf(t) = [i \in DOMAIN s.jobs |-> AbsOf(t)[i]]
      /\ Abstract!Released(AbsOf(s), j, AbsState(status))
           = [i \in DOMAIN s.jobs |-> Abstract!Released(AbsOf(s), j, AbsState(status))[i]]
  BY <1>1 DEF Abstract!Released, AbsOf
<1> QED BY <1>4, <1>5

\* Of two statuses a job is given in one handler the second one counts.
LEMMA ReleasedTwice ==
  ASSUME NEW f, NEW j \in DOMAIN f, NEW a, NEW b
  PROVE  Abstract!Released(Abstract!Released(f, j, a), j, b) = Abstract!Released(f, j, b)
BY DEF Abstract!Released

LEMMA AbsGrows ==
  ASSUME NEW s, NEW t, NEW run, NEW recs, EngineOK(s), Grows(s, t, run, recs)
  PROVE  AbsOf(t) = Abstract!Extended(AbsOf(s), NewDeps(s, t))
<1>1. /\ DOMAIN s.jobs \subseteq DOMAIN t.jobs
      /\ \A j \in DOMAIN s.jobs : t.jobs[j] = s.jobs[j]
      /\ \A j \in Newcomers(s, t) :
           /\ t.jobs[j].attempt = 0
           /\ t.jobs[j].status = IF t.jobs[j].deps = <<>> THEN "Ready" ELSE "Pending"
  BY GrownJobs
<1>2. DOMAIN t.jobs = DOMAIN s.jobs \cup Newcomers(s, t)
  BY <1>1 DEF Newcomers
<1>3. \A j \in Newcomers(s, t) : AbsState(t.jobs[j].status) = "waiting"
  BY <1>1, AbsStates
<1> QED BY <1>1, <1>2, <1>3 DEF Abstract!Extended, AbsOf, NewDeps

LEMMA AbsSame ==
  ASSUME NEW s
  PROVE  AbsOf(s) = Abstract!Extended(AbsOf(s), NewDeps(s, s))
BY DEF Abstract!Extended, AbsOf, NewDeps, Newcomers

LEMMA AbsStarts ==
  ASSUME NEW s, NEW t, NEW P, EngineOK(s), Starts(s, t, P)
  PROVE  AbsOf(t) = Abstract!Started(AbsOf(s), P)
<1>1. /\ P \subseteq DOMAIN s.jobs /\ DOMAIN t.jobs = DOMAIN s.jobs
      /\ \A j \in DOMAIN s.jobs :
           /\ t.jobs[j].deps = s.jobs[j].deps
           /\ t.jobs[j].status = IF j \in P THEN "Running" ELSE s.jobs[j].status
           /\ t.jobs[j].attempt = s.jobs[j].attempt + (IF j \in P THEN 1 ELSE 0)
  BY DEF Starts
<1>2. \A j \in DOMAIN s.jobs : s.jobs[j].attempt + 0 = s.jobs[j].attempt
  <2>1. \A j \in DOMAIN s.jobs : s.jobs[j] \in JobRecords
    BY TypeParts DEF EngineOK
  <2> QED BY <2>1 DEF JobRecords
<1>3. \A j \in DOMAIN s.jobs :
        AbsState(t.jobs[j].status) = IF j \in P THEN "running" ELSE AbsState(s.jobs[j].status)
  BY <1>1, AbsStates
<1> QED BY <1>1, <1>2, <1>3 DEF Abstract!Started, AbsOf

LEMMA RunningAbs ==
  ASSUME NEW s, EngineOK(s)
  PROVE  Abstract!In(AbsOf(s), "running") = s.active
<1>1. /\ s.active \subseteq DOMAIN s.jobs
      /\ \A j \in DOMAIN s.jobs : s.jobs[j].status \in JobStatus
  <2>1. \A j \in DOMAIN s.jobs : s.jobs[j] \in JobRecords
    BY TypeParts DEF EngineOK
  <2> QED BY <2>1, TypeParts DEF EngineOK, JobRecords
<1>2. \A j \in DOMAIN s.jobs :
        AbsState(s.jobs[j].status) = "running" <=> s.jobs[j].status = "Running"
  BY <1>1, AbsStates DEF JobStatus
<1> QED BY <1>1, <1>2 DEF EngineOK, RunningHoldSlots, Abstract!In, AbsOf

\* The abstract scheduler may start exactly the jobs that are queued.
LEMMA StartableAbs ==
  ASSUME NEW s, Orderly(s), Plain
  PROVE  Abstract!Startable(AbsOf(s)) = Entries(s.queue)
<1>1. /\ EngineOK(s) /\ Entries(s.queue) \subseteq DOMAIN s.jobs
      /\ \A j \in DOMAIN s.jobs : s.jobs[j].status \in JobStatus
      /\ \A j \in DOMAIN s.jobs : s.jobs[j].run \in DOMAIN s.runs
  <2>1. \A j \in DOMAIN s.jobs : s.jobs[j] \in JobRecords
    BY TypeParts DEF Orderly, EngineOK
  <2> QED BY <2>1, TypeParts, EntriesOfSeq DEF Orderly, EngineOK, JobRecords
<1>2. \A j \in DOMAIN s.jobs :
        /\ AbsState(s.jobs[j].status) = "waiting" <=> s.jobs[j].status \in {"Pending", "Ready"}
        /\ AbsState(s.jobs[j].status) = "completed" <=> s.jobs[j].status = "Completed"
  BY <1>1, AbsStates DEF JobStatus
<1>3. \A j \in DOMAIN s.jobs : s.jobs[j].status = "Ready" <=> j \in Entries(s.queue)
  BY <1>1 DEF Orderly, QueueOK, RunsOK, EngineOK, ReadyAreQueued
<1>4. \A j \in DOMAIN s.jobs :
        s.jobs[j].status = "Pending"
          <=> \E d \in Entries(s.jobs[j].deps) : s.jobs[d].status # "Completed"
  BY DEF Orderly, PlainOK, Gated
<1>5. \A j \in DOMAIN s.jobs : Entries(s.jobs[j].deps) \subseteq DOMAIN s.jobs
  BY DEF Orderly, DepsOK
<1>6. \A j \in DOMAIN s.jobs :
        j \in Abstract!Startable(AbsOf(s))
          <=> /\ s.jobs[j].status \in {"Pending", "Ready"}
              /\ \A d \in Entries(s.jobs[j].deps) : s.jobs[d].status = "Completed"
  BY <1>2, <1>5 DEF Abstract!Startable, Abstract!In, AbsOf
<1>7. Abstract!Startable(AbsOf(s)) \subseteq DOMAIN s.jobs
  BY DEF Abstract!Startable, Abstract!In, AbsOf
<1> QED BY <1>1, <1>3, <1>4, <1>6, <1>7

-----------------------------------------------------------------------------
(* Handlers.                                                               *)

\* A handler that leaves engine state s behind and then runs the spawn loop.
LEMMA DispatchFills ==
  ASSUME Plain, NEW s, Orderly(s), NEW m, NEW ev, Dispatch(s, m, ev)
  PROVE  /\ Abstract!FillSlots(AbsOf(s))
         /\ DOMAIN eng.jobs \subseteq DOMAIN s.jobs => Abstract!Arrivals = NewDeps(eng, s)
<1> DEFINE f == AbsOf(s)
           g == AbsOf(eng')
           chosen == Abstract!In(g, "running") \ Abstract!In(f, "running")
<1>0. PICK n \in 0..Len(s.queue) : PopsExactly(s, n) /\ eng' = StartPopped(s, n)
  BY DEF Dispatch
<1> DEFINE P == Popped(s, n)
<1>u. Starts(s, eng', P) /\ EngineOK(eng') /\ Full(eng')
  BY <1>0, StartPoppedOK, StartPoppedStarts DEF Orderly
<1> HIDE DEF P
<1>1. EngineOK(s) /\ g = AbstractJobs'
  BY AbsIsAbstract DEF Orderly
<1>2. /\ Abstract!In(f, "running") = s.active
      /\ Abstract!In(g, "running") = eng'.active
      /\ eng'.active = s.active \cup P
  BY <1>1, <1>u, RunningAbs DEF Starts
<1>3. P \cap s.active = {}
  <2>1. s.active \subseteq DOMAIN s.jobs /\ \A j \in s.active : s.jobs[j].status = "Running"
    BY <1>1, TypeParts DEF EngineOK, RunningHoldSlots
  <2> QED BY <1>u, <2>1 DEF Starts
<1>4. chosen = P /\ Abstract!In(f, "running") \cup chosen = eng'.active
  BY <1>2, <1>3
<1>5. g = Abstract!Started(f, P)
  BY <1>1, <1>u, AbsStarts
<1>6. Abstract!Startable(f) = Entries(s.queue)
  BY StartableAbs
<1>7. P \subseteq Entries(s.queue)
  <2>1. \A j \in P : j \in DOMAIN s.jobs /\ s.jobs[j].status = "Ready"
    BY <1>u DEF Starts
  <2>2. \A j \in DOMAIN s.jobs : s.runs[s.jobs[j].run] # "Cancelled"
    BY <1>1, TypeParts DEF Orderly, RunsOK, EngineOK
  <2> QED BY <1>1, <2>1, <2>2 DEF EngineOK, ReadyAreQueued
<1>8. Cardinality(eng'.active) <= MaxConcurrency
  BY <1>u DEF EngineOK
<1>9. P = Entries(s.queue) \/ Cardinality(eng'.active) = MaxConcurrency
  <2>1. CASE eng'.queue = <<>>
    <3>1. Entries(s.queue) \ P = {}
      BY <1>u, <2>1, EntriesOfEmpty DEF Starts
    <3> QED BY <1>7, <3>1
  <2>2. CASE eng'.queue # <<>>
    BY <1>u, <2>2 DEF Full
  <2> QED BY <2>1, <2>2
<1> HIDE DEF f, g
<1>10. Abstract!FillSlots(f)
  <2>1. /\ chosen \subseteq Abstract!Startable(f)
        /\ g = Abstract!Started(f, chosen)
        /\ Cardinality(Abstract!In(f, "running") \cup chosen) <= MaxConcurrency
        /\ chosen = Abstract!Startable(f)
             \/ Cardinality(Abstract!In(f, "running") \cup chosen) = MaxConcurrency
    BY <1>4, <1>5, <1>6, <1>7, <1>8, <1>9
  <2>2. f \in {f} /\ g \in {AbstractJobs'}
    BY <1>1
  <2> HIDE DEF chosen
  <2> QED BY <2>1, <2>2, AbsCardinality DEF Abstract!FillSlots, chosen
<1>11. ASSUME DOMAIN eng.jobs \subseteq DOMAIN s.jobs
       PROVE  Abstract!Arrivals = NewDeps(eng, s)
  <2>1. DOMAIN AbstractJobs' = DOMAIN s.jobs /\ DOMAIN AbstractJobs = DOMAIN eng.jobs
    BY <1>u DEF AbstractJobs, Starts
  <2>2. \A j \in DOMAIN s.jobs : AbstractJobs'[j].deps = Entries(s.jobs[j].deps)
    BY <1>u DEF AbstractJobs, Starts
  <2> QED BY <2>1, <2>2 DEF Abstract!Arrivals, NewDeps, Newcomers
<1> QED BY <1>10, <1>11 DEF f

\* The step a failure of j amounts to, whether j had just been completed or not.
LEMMA AbsFailure ==
  ASSUME NEW s, NEW j \in s.active, Orderly(s), NEW status,
         Verdict(s.jobs[j], status), status # "Completed",
         Abstract!FillSlots(Abstract!Released(AbsOf(s), j, AbsState(status))),
         AbsOf(s) = AbstractJobs
  PROVE  Abstract!Next
<1>1. EngineOK(s) /\ j \in DOMAIN s.jobs
  BY TypeParts DEF Orderly, EngineOK
<1>2. j \in Abstract!In(AbstractJobs, "running")
  BY <1>1, RunningAbs
<1>3. AbstractJobs[j].tries = s.jobs[j].attempt
  <2>1. AbsOf(s)[j].tries = s.jobs[j].attempt
    BY <1>1 DEF AbsOf
  <2> QED BY <2>1
<1>4. CASE status = "Ready"
  <2>1. Abstract!Retry(j)
    BY <1>3, <1>4, AbsStates DEF Abstract!Retry, Verdict
  <2> QED BY <1>2, <2>1 DEF Abstract!Next
<1>5. CASE status = "Failed"
  <2>1. Abstract!Fail(j)
    BY <1>3, <1>5, AbsStates DEF Abstract!Fail, Verdict
  <2> QED BY <1>2, <2>1 DEF Abstract!Next
<1> QED BY <1>4, <1>5 DEF Verdict

\* A handler that fails job j.
LEMMA FailureRefines ==
  ASSUME Orderly(eng), Plain, NEW j \in eng.active, NEW m, NEW ev,
         Dispatch(MarkFailed(eng, j), m, ev)
  PROVE  Abstract!Next
<1> DEFINE next == MarkFailed(eng, j)
           status == AfterFailure(eng.jobs[j])
<1>1. Verdict(eng.jobs[j], status) /\ Settles(eng, next, j, status, {}) /\ Orderly(next)
  BY FailureHandled
<1>2. status # "Completed" /\ j \in DOMAIN eng.jobs
  BY TypeParts DEF AfterFailure, Orderly, EngineOK
<1> HIDE DEF next, status
<1>3. AbsOf(next) = Abstract!Released(AbsOf(eng), j, AbsState(status))
  BY <1>1, <1>2, AbsSettles
<1>4. Abstract!FillSlots(AbsOf(next))
  <2>1. Dispatch(next, m, ev)
    BY DEF next
  <2> QED BY <1>1, <2>1, DispatchFills
<1>5. Abstract!FillSlots(Abstract!Released(AbsOf(eng), j, AbsState(status)))
  BY <1>3, <1>4
<1> QED BY <1>1, <1>2, <1>5, AbsFailure, AbsIsAbstract

\* A handler that completes job j: with it come the jobs of its plan or its
\* revision, or, if its plan is unusable, it fails after all.
LEMMA CompletionRefines ==
  ASSUME Orderly(eng), Plain, NEW j \in eng.active,
         NEW order \in Orderings(PromotedBy(eng, j)),
         NEW next \in AfterCompletion(MarkCompleted(eng, j, order), j),
         NEW m, NEW ev, Dispatch(next, m, ev)
  PROVE  Abstract!Next
<1> DEFINE done == MarkCompleted(eng, j, order)
<1>1. /\ Finished(eng, done, j) /\ Settles(eng, done, j, "Completed", Waiters(eng, j))
      /\ Orderly(next) /\ Follows(done, next, j)
  BY CompletionHandled
<1> HIDE DEF done
<1>2. /\ j \in DOMAIN eng.jobs /\ EngineOK(eng) /\ EngineOK(done)
      /\ DOMAIN done.jobs = DOMAIN eng.jobs
      /\ SameJob(done.jobs[j], eng.jobs[j])
      /\ AbsOf(eng) = AbstractJobs
  BY <1>1, TypeParts, AbsIsAbstract DEF Orderly, EngineOK, Finished
<1>3. AbsOf(done) = Abstract!Released(AbsOf(eng), j, "completed")
  <2>1. Waiters(eng, j) \subseteq {i \in DOMAIN eng.jobs : eng.jobs[i].status = "Pending"}
    BY DEF Waiters, JobsOf
  <2>2. AbsOf(done) = Abstract!Released(AbsOf(eng), j, AbsState("Completed"))
    BY <1>1, <1>2, <2>1, AbsSettles
  <2> QED BY <2>2, AbsStates
<1>4. Abstract!FillSlots(AbsOf(next))
      /\ (DOMAIN eng.jobs \subseteq DOMAIN next.jobs => Abstract!Arrivals = NewDeps(eng, next))
  BY <1>1, DispatchFills
<1>5. CASE next = done \/ \E recs : Grows(done, next, done.jobs[j].run, recs)
  <2>1. AbsOf(next) = Abstract!Extended(AbsOf(done), NewDeps(done, next))
    BY <1>2, <1>5, AbsGrows, AbsSame
  <2>2. DOMAIN eng.jobs \subseteq DOMAIN next.jobs
    BY <1>2, <1>5, GrownJobs
  <2>3. NewDeps(done, next) = NewDeps(eng, next)
    BY <1>2 DEF NewDeps, Newcomers
  <2>4. Abstract!Complete(j)
    BY <1>2, <1>3, <1>4, <2>1, <2>2, <2>3 DEF Abstract!Complete
  <2>5. j \in Abstract!In(AbstractJobs, "running")
    BY <1>2, RunningAbs
  <2> QED BY <2>4, <2>5 DEF Abstract!Next
<1>6. CASE Settles(done, next, j, AfterFailure(done.jobs[j]), {})
  <2> DEFINE status == AfterFailure(eng.jobs[j])
  <2>1. AfterFailure(done.jobs[j]) = status
    BY <1>2 DEF AfterFailure, SameJob
  <2>2. status # "Completed" /\ Verdict(eng.jobs[j], status)
    BY FailureHandled DEF AfterFailure
  <2> HIDE DEF status
  <2>3. AbsOf(next) = Abstract!Released(AbsOf(done), j, AbsState(status))
    <3>1. j \in DOMAIN done.jobs /\ Settles(done, next, j, status, {})
      BY <1>2, <1>6, <2>1
    <3>2. {} \subseteq {i \in DOMAIN done.jobs : done.jobs[i].status = "Pending"}
      OBVIOUS
    <3> QED BY <3>1, <3>2, AbsSettles
  <2>4. j \in DOMAIN AbsOf(eng)
    BY <1>2 DEF AbsOf
  <2>5. AbsOf(next) = Abstract!Released(AbsOf(eng), j, AbsState(status))
    BY <1>3, <2>3, <2>4, ReleasedTwice
  <2> QED BY <1>2, <1>4, <2>2, <2>5, AbsFailure
<1> QED BY <1>1, <1>5, <1>6 DEF Follows

\* A submitted run is a batch of one job.
LEMMA SubmitRefines ==
  ASSUME Orderly(eng), Plain, NEW m, NEW ev, Dispatch(Submit(eng), m, ev)
  PROVE  Abstract!Next
<1> DEFINE next == Submit(eng)
<1>1. Orderly(next) /\ EngineOK(eng)
  BY SubmitOrderly DEF Orderly
<1>2. PICK recs : Grows(eng, next, eng.nextRun, recs) /\ Len(recs) = 1
  BY SubmitOrderly
<1>3. Dispatch(next, m, ev)
  OBVIOUS
<1> HIDE DEF next
<1>4. DOMAIN eng.jobs \subseteq DOMAIN next.jobs /\ Newcomers(eng, next) # {}
  <2>1. 1 \in 1..Len(recs)
    BY <1>2
  <2> QED BY <1>1, <1>2, <2>1, GrownJobs
<1>5. AbsOf(next) = Abstract!Extended(AbstractJobs, NewDeps(eng, next))
  BY <1>1, <1>2, AbsGrows, AbsIsAbstract
<1>6. Abstract!FillSlots(AbsOf(next)) /\ Abstract!Arrivals = NewDeps(eng, next)
  BY <1>1, <1>3, <1>4, DispatchFills
<1>7. Abstract!Arrivals # <<>>
  <2>1. DOMAIN NewDeps(eng, next) # {}
    BY <1>4 DEF NewDeps
  <2>2. DOMAIN <<>> = {}
    OBVIOUS
  <2> QED BY <1>6, <2>1, <2>2
<1>8. Abstract!Arrive
  BY <1>5, <1>6, <1>7 DEF Abstract!Arrive
<1> QED BY <1>8 DEF Abstract!Next

-----------------------------------------------------------------------------
(* The refinement.                                                         *)

LEMMA InitRefines == Init => Abstract!Init
<1>1. DOMAIN <<>> = {}
  OBVIOUS
<1> QED BY <1>1 DEF Init, EmptyEngine, AbstractJobs, Abstract!Init

LEMMA NextRefines ==
  ASSUME Plain, CleanInv, Undisturbed, Undisturbed', [Next]_vars
  PROVE  [Abstract!Next]_AbstractJobs
<1>1. IInv /\ Attended /\ Orderly(eng) /\ stale \subseteq eng.active
  BY IInvParts DEF CleanInv, Attended, IInvByVariable
<1>2. CASE SubmitRun
  BY <1>1, <1>2, SubmitRefines DEF SubmitRun
<1>3. ASSUME NEW r \in RunIds, CancelRun(r) PROVE FALSE
  <2>1. faults \in [crash : Nat, timeout : Nat, cancel : Nat, reload : Nat]
    BY <1>1, IInvParts DEF IInvByVariable
  <2>2. faults.cancel \in Nat /\ faults'.cancel = faults.cancel + 1
    BY <1>3, <2>1 DEF CancelRun
  <2> QED BY <2>2 DEF Undisturbed
<1>4. ASSUME NEW e \in events, HandleCompleted(e) PROVE Abstract!Next
  <2>1. e.job \in eng.active
    BY <1>1, OnlyReport
  <2>2. PICK order \in Orderings(PromotedBy(eng, e.job)) :
          \E next \in AfterCompletion(MarkCompleted(eng, e.job, order), e.job) :
            Dispatch(next, managed \ {e.job}, events \ {e})
    BY <1>4 DEF HandleCompleted
  <2> QED BY <1>1, <2>1, <2>2, CompletionRefines
<1>5. ASSUME NEW e \in events, HandleFailed(e) PROVE Abstract!Next
  <2>1. e.job \in eng.active
    BY <1>1, OnlyReport
  <2> QED BY <1>1, <1>5, <2>1, FailureRefines DEF HandleFailed
<1>6. ASSUME NEW j \in stale, ExpireJob(j) PROVE Abstract!Next
  BY <1>1, <1>6, FailureRefines DEF ExpireJob
<1>7. ASSUME eng' = eng PROVE UNCHANGED AbstractJobs
  BY <1>7 DEF AbstractJobs
<1>8. CASE \/ \E late \in SUBSET eng.active : CheckHeartbeats(late)
           \/ ReloadConfig
           \/ \E w \in workers : \/ WorkerCrash(w)
                                 \/ BridgeClose(w)
                                 \/ \E o \in Outcomes : WorkerReport(w, o)
           \/ UNCHANGED vars
  <2>1. eng' = eng
    BY <1>8 DEF CheckHeartbeats, ReloadConfig, WorkerCrash, BridgeClose, WorkerReport, vars
  <2> QED BY <1>7, <2>1
<1> QED BY <1>2, <1>3, <1>4, <1>5, <1>6, <1>8 DEF Next

\* A budget of no cancellations and no false timeouts is kept to.
LEMMA CalmMeansUndisturbed ==
  ASSUME Calm
  PROVE  Spec => []Undisturbed
<1>1. Init => Undisturbed
  BY DEF Init, Undisturbed
<1>2. IInv /\ Undisturbed /\ [Next]_vars => Undisturbed'
  <2> SUFFICES ASSUME IInv, Undisturbed, [Next]_vars PROVE Undisturbed'
    OBVIOUS
  <2>1. faults \in [crash : Nat, timeout : Nat, cancel : Nat, reload : Nat] /\ EngineOK(eng)
    BY IInvParts DEF IInvByVariable
  <2>2. CASE faults' = faults
    BY <2>2 DEF Undisturbed
  <2>3. ASSUME NEW late \in SUBSET eng.active, CheckHeartbeats(late) PROVE Undisturbed'
    <3> DEFINE n == Cardinality({j \in late : ~Lost(j)})
    <3>1. n \in Nat
      BY <2>1, FiniteIds, FS_Subset, FS_CardinalityType DEF EngineOK
    <3>2. faults' = [faults EXCEPT !.timeout = @ + n] /\ faults'.timeout <= 0
      BY <2>3 DEF CheckHeartbeats, Calm
    <3> HIDE DEF n
    <3> QED BY <2>1, <3>1, <3>2 DEF Undisturbed
  <2>4. CASE ReloadConfig \/ \E w \in workers : WorkerCrash(w)
    BY <2>1, <2>4 DEF ReloadConfig, WorkerCrash, Undisturbed
  <2>5. ASSUME NEW r \in RunIds, CancelRun(r) PROVE FALSE
    BY <2>1, <2>5 DEF CancelRun, Calm
  <2>6. \/ faults' = faults
        \/ \E late \in SUBSET eng.active : CheckHeartbeats(late)
        \/ ReloadConfig \/ \E w \in workers : WorkerCrash(w)
        \/ \E r \in RunIds : CancelRun(r)
    BY DEF Next, vars, SubmitRun, HandleCompleted, HandleFailed, ExpireJob, BridgeClose,
           WorkerReport
  <2> QED BY <2>2, <2>3, <2>4, <2>5, <2>6
<1> QED BY <1>1, <1>2, Invariance, PTL DEF Spec

\* For any number of runs, jobs, slots and attempts, any crashes and reloads,
\* and any plans without planners: whatever the ready queue, promotions,
\* retries, revisions and plans do in one handler is one step of the abstract
\* scheduler.  A job starts only when its dependencies have completed, holds one
\* slot, is tried at most Tries times, and no slot stays free while a job could
\* use it.
THEOREM ImplementsScheduling == Calm /\ Plain => (Spec => SchedulesJobs)
<1> SUFFICES ASSUME Calm, Plain PROVE Spec => SchedulesJobs
  OBVIOUS
<1>1. Init => Abstract!Init
  BY InitRefines
<1>2. CleanInv /\ Undisturbed /\ Undisturbed' /\ [Next]_vars => [Abstract!Next]_AbstractJobs
  BY NextRefines
<1>3. Spec => []Undisturbed
  BY CalmMeansUndisturbed
<1>4. Spec => []CleanInv
  BY CleanInvariance
<1> QED BY <1>1, <1>2, <1>3, <1>4, PTL DEF Spec, Abstract!Spec, SchedulesJobs

=============================================================================
