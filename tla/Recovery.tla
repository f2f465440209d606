------------------------------ MODULE Recovery ------------------------------
(***************************************************************************)
(* Persistence and restart: module Orchestrator with the SQLite sidecar    *)
(* (src/orchestrator/sqlite_store.rs) and the startup, shutdown and clean  *)
(* up code of src/daemon.rs around it.                                     *)
(*                                                                         *)
(* A handler changes memory and at its end saves the run of its event, one *)
(* statement at a time and outside any transaction; errors are dropped.    *)
(* Jobs of other runs that the same handler started are not saved.  What a *)
(* daemon that died leaves is the database; its workers die with it, since *)
(* their pipes close.                                                      *)
(*                                                                         *)
(* The hourly cleanup removes a run for its status and age only.  A run    *)
(* may say that it is over while its jobs are queued or running, and then  *)
(* their ids stay behind in ready_queue, active_jobs, managed and events:  *)
(* next_job stops at such an id, and a report of such a job only frees its *)
(* slot.                                                                   *)
(***************************************************************************)
EXTENDS Orchestrator

CONSTANTS
  MaxMishaps,    \* bound: ends of the daemon, each with a start, and the next two
  MaxCutOffs,    \* bound: saves and cleanups that an error or a crash cut off
  MaxEarly       \* bound: cleanups of runs that had work under way

ASSUME RecoveryAssumption == {MaxMishaps, MaxCutOffs, MaxEarly} \subseteq Nat

VARIABLES
  artifacts,   \* the output artifacts in the run store: [job, run]
  db,          \* the tables runs, jobs and artifacts
  unsaved,     \* what the handler that has just run has yet to write
  since,       \* not in the code: what there was since the last start, see Saving
  mishaps      \* restarts, saves and cleanups cut off, and early cleanups so far

rvars == <<vars, artifacts, db, unsaved, since, mishaps>>

Nothing == [op |-> "none", run |-> 0]

-----------------------------------------------------------------------------
(* The statements of sqlite_store.rs.                                      *)

WriteRuns(d, s, R) ==
  [d EXCEPT !.runs = [r \in DOMAIN d.runs \cup R |->
                        IF r \in R THEN s.runs[r] ELSE d.runs[r]]]

WriteJobs(d, s, J) ==
  [d EXCEPT !.jobs = [j \in DOMAIN d.jobs \cup J |->
                        IF j \in J THEN s.jobs[j] ELSE d.jobs[j]]]

WriteArtifact(d, a) == [d EXCEPT !.artifacts = @ \cup {a}]

Authors(A) == {a.job : a \in A}

\* Faulty: finished jobs are taken for saved already.
SaveUnfinishedOnly(d, s, r) ==
  IF r \notin DOMAIN s.runs THEN d
  ELSE WriteJobs(WriteRuns(d, s, {r}), s,
                 {j \in JobsOf(s, r) : s.jobs[j].status # "Completed"})

\* persist_run_state for every run of R, each to its end.
SaveRuns(d, s, R) ==
  WriteJobs(WriteRuns(d, s, R), s, {j \in DOMAIN s.jobs : s.jobs[j].run \in R})

\* It does nothing for a run the store does not hold.
SaveRun(d, s, r) == IF r \in DOMAIN s.runs THEN SaveRuns(d, s, {r}) ELSE d

\* Every point an error or a crash may stop it at, its first statement included:
\* the jobs come in HashMap order.
SavePoints(d, s, r) ==
  IF r \notin DOMAIN s.runs THEN {d}
  ELSE {d} \cup {WriteJobs(WriteRuns(d, s, {r}), s, J) : J \in SUBSET JobsOf(s, r)}

ArtifactsOf(A, r) == {a \in A : a.run = r}

\* Faulty: the jobs' rows go before those of their artifacts.
DeleteJobsFirst(d, r, n) ==
  LET own == {j \in DOMAIN d.jobs : d.jobs[j].run = r}
  IN  [artifacts |-> IF n >= 2 THEN d.artifacts \ ArtifactsOf(d.artifacts, r)
                     ELSE d.artifacts,
       jobs |-> [j \in DOMAIN d.jobs \ (IF n >= 1 THEN own ELSE {}) |-> d.jobs[j]],
       runs |-> [q \in DOMAIN d.runs \ (IF n >= 3 THEN {r} ELSE {}) |-> d.runs[q]]]

\* delete_run stopped after n of its statements (the one on channels apart).
DeletePoint(d, r, n) ==
  LET own == {j \in DOMAIN d.jobs : d.jobs[j].run = r}
  IN  [artifacts |-> IF n >= 1 THEN d.artifacts \ ArtifactsOf(d.artifacts, r)
                     ELSE d.artifacts,
       jobs |-> [j \in DOMAIN d.jobs \ (IF n >= 2 THEN own ELSE {}) |-> d.jobs[j]],
       runs |-> [q \in DOMAIN d.runs \ (IF n >= 3 THEN {r} ELSE {}) |-> d.runs[q]]]

WrittenOut ==
  CASE unsaved.op = "save"   -> SaveRun(db, eng, unsaved.run)
    [] unsaved.op = "delete" -> DeletePoint(db, unsaved.run, 3)
    [] OTHER                 -> db

\* What a write that failed may leave behind, its first statement included.
TornPoints ==
  (CASE unsaved.op = "save"   -> SavePoints(db, eng, unsaved.run)
     [] unsaved.op = "delete" -> {DeletePoint(db, unsaved.run, n) : n \in 0..3}
     [] OTHER                 -> {db}) \ {WrittenOut}

Mishaps == mishaps.restart + mishaps.save + mishaps.delete + mishaps.early

\* A statement of a save or a cleanup is not executed.
CutOff(op) ==
  /\ mishaps.save + mishaps.delete < MaxCutOffs
  /\ Mishaps < MaxMishaps
  /\ mishaps' = [mishaps EXCEPT ![op] = @ + 1]

-----------------------------------------------------------------------------
(* Startup.  The statuses were written with {:?} and are parsed back; an   *)
(* unknown word counts as Pending.                                         *)

ParseRunStatus(text) == IF text \in RunStatus THEN text ELSE "Pending"

\* Faulty: no arm for the word Completed.
ParseWithoutCompleted(text) ==
  IF text \in JobStatus \ {"Completed"} THEN text ELSE "Pending"

ParseJobStatus(text) == IF text \in JobStatus THEN text ELSE "Pending"

LoadedRuns(d) == [r \in DOMAIN d.runs |-> ParseRunStatus(d.runs[r])]

LoadedJobs(d) ==
  [j \in DOMAIN d.jobs |-> [d.jobs[j] EXCEPT !.status = ParseJobStatus(@)]]

\* Faulty: Pending jobs are revived along with the Running ones.
RevivedPending(job) ==
  IF job.status \in {"Pending", "Running"}
  THEN [job EXCEPT !.status = IF job.attempt < MaxAttempts THEN "Ready" ELSE "Failed"]
  ELSE job

\* A job that was Running has lost its process: another try, or Failed.
Revived(job) ==
  IF job.status = "Running"
  THEN [job EXCEPT !.status = IF job.attempt < MaxAttempts THEN "Ready" ELSE "Failed"]
  ELSE job

RevivedJobs(d) == [j \in DOMAIN d.jobs |-> Revived(LoadedJobs(d)[j])]

\* Faulty: only the jobs that were saved Ready are queued.
QueuedAsSaved(d) == {j \in DOMAIN d.jobs : LoadedJobs(d)[j].status = "Ready"}

\* The jobs hydration pushes on the ready queue, whatever their run's status.
Requeued(d) == {j \in DOMAIN d.jobs : RevivedJobs(d)[j].status = "Ready"}

\* The engines hydration may build.  Rows come in the order they were written
\* in, which the HashMap chose; ids stay unique across restarts.
Hydrated(d) ==
  {[eng EXCEPT !.jobs = RevivedJobs(d), !.runs = LoadedRuns(d),
               !.queue = order, !.active = {}] : order \in Orderings(Requeued(d))}

\* Nothing looks at the queue and no run is checked for completion before the
\* first command or event arrives.
StartFrom(d) ==
  /\ db' = d
  /\ eng' \in Hydrated(d)
  /\ artifacts' = d.artifacts
  /\ managed' = {}
  /\ workers' = {}
  /\ events' = {}
  /\ stale' = {}
  /\ unsaved' = Nothing
  /\ since' = "start"

\* The daemon dies before or after what it has to write.  Its death between two
\* statements is Persist with a write that is cut off, and then this.
CrashAndRestart ==
  /\ Mishaps < MaxMishaps
  /\ \E d \in {db, WrittenOut} : StartFrom(d)
  /\ mishaps' = [mishaps EXCEPT !.restart = @ + 1]
  /\ UNCHANGED faults

RunsInProgress == {r \in DOMAIN eng.runs : eng.runs[r] \in {"Running", "Pending"}}

\* cancel_run of every run in progress.  Runs share no jobs, so that the order
\* does not matter, and the queue and the slots end with the process.
AllCancelled ==
  [eng EXCEPT
    !.jobs = [j \in DOMAIN eng.jobs |->
                IF eng.jobs[j].run \in RunsInProgress
                THEN Cancel(eng, eng.jobs[j].run, <<>>).jobs[j] ELSE eng.jobs[j]],
    !.runs = [r \in DOMAIN eng.runs |->
                IF r \in RunsInProgress THEN "Cancelled" ELSE eng.runs[r]]]

\* Every run in progress is cancelled and saved, as if its user had; then the
\* daemon ends and is started again.
Shutdown ==
  /\ Selecting
  /\ unsaved = Nothing
  /\ Mishaps < MaxMishaps
  /\ faults.cancel < MaxCancels
  /\ faults' = [faults EXCEPT !.cancel = @ + 1]
  /\ StartFrom(SaveRuns(db, AllCancelled, RunsInProgress))
  /\ mishaps' = [mishaps EXCEPT !.restart = @ + 1]

-----------------------------------------------------------------------------
(* The handlers of Orchestrator, each with what it saves.                  *)

RInit ==
  /\ Init
  /\ artifacts = {}
  /\ db = [artifacts |-> {}, jobs |-> <<>>, runs |-> <<>>]
  /\ unsaved = Nothing
  /\ since = "start"
  /\ mishaps = [restart |-> 0, save |-> 0, delete |-> 0, early |-> 0]

\* A handler that goes on to save run r.  `since' tells whether there was no
\* handler since the last start ("start"), at least one ("handler"), or a cleanup
\* of a run whose work was still under way ("cleanup").
Saving(r) ==
  /\ unsaved = Nothing
  /\ unsaved' = [op |-> "save", run |-> r]
  /\ since' = IF since = "cleanup" THEN "cleanup" ELSE "handler"
  /\ UNCHANGED <<artifacts, db, mishaps>>

\* A job the store no longer holds has no run: nothing is saved for it.
RunOf(j) == IF j \in DOMAIN eng.jobs THEN eng.jobs[j].run ELSE 0

HandleCommand ==
  \/ SubmitRun /\ Saving(eng.nextRun)
  \/ \E r \in RunIds : CancelRun(r) /\ Saving(r)

\* Faulty: the artifact is kept in memory only.
StoreInMemory(j) ==
  /\ Selecting
  /\ unsaved = Nothing
  /\ j \notin Authors(artifacts)
  /\ \E e \in events : e.job = j /\ e.outcome = "completed"
  /\ artifacts' = artifacts \cup {[job |-> j, run |-> RunOf(j)]}
  /\ UNCHANGED <<vars, db, unsaved, since, mishaps>>

\* artifact_produced, which a worker sends right before job_completed.  An error
\* of the write is dropped; the artifact of a removed job belongs to no run.
StoreArtifact(j) ==
  /\ Selecting
  /\ unsaved = Nothing
  /\ j \notin Authors(artifacts)
  /\ \E e \in events : e.job = j /\ e.outcome = "completed"
  /\ LET artifact == [job |-> j, run |-> RunOf(j)] IN
       /\ artifacts' = artifacts \cup {artifact}
       /\ \/ db' = WriteArtifact(db, artifact) /\ UNCHANGED mishaps
          \/ CutOff("save") /\ UNCHANGED db
  /\ UNCHANGED <<vars, unsaved, since>>

\* A job whose artifact was stored may have been removed with it since.
HandleReport(e) ==
  /\ \/ e.job \in Authors(artifacts) \/ e.job \notin DOMAIN eng.jobs
     \/ e.outcome = "failed"
  /\ HandleCompleted(e) \/ HandleFailed(e)
  /\ Saving(RunOf(e.job))

ExpireAndSave(j) == ExpireJob(j) /\ Saving(RunOf(j))

\* The end of persist_run_state or delete_run; an error ends it early and is
\* dropped.
Persist ==
  /\ unsaved # Nothing
  /\ unsaved' = Nothing
  /\ \/ db' = WrittenOut /\ UNCHANGED mishaps
     \/ db' \in TornPoints /\ CutOff(unsaved.op)
  /\ UNCHANGED <<vars, artifacts, since>>

\* remove_run: the run and its jobs leave the store, their artifacts with them.
\* Queue entries, slots, handles and reports of these jobs stay.
Forget(s, r) ==
  [s EXCEPT !.runs = [q \in DOMAIN s.runs \ {r} |-> s.runs[q]],
            !.jobs = [j \in DOMAIN s.jobs \ JobsOf(s, r) |-> s.jobs[j]]]

\* Something of run r would outlive its removal.
UnderWay(r) ==
  JobsOf(eng, r) \cap (eng.active \cup Entries(eng.queue) \cup managed
                         \cup {w.job : w \in workers \cup events}) # {}

\* The hourly cleanup removes a run that is over and old; how old is not
\* modelled.  It does not look for work under way: `since' and `mishaps' do.
ExpireRun(r) ==
  /\ Selecting
  /\ unsaved = Nothing
  /\ r \in DOMAIN eng.runs
  /\ eng.runs[r] \in {"Completed", "Failed", "Cancelled"}
  /\ eng' = Forget(eng, r)
  /\ artifacts' = artifacts \ ArtifactsOf(artifacts, r)
  /\ unsaved' = [op |-> "delete", run |-> r]
  /\ IF UnderWay(r)
     THEN /\ mishaps.early < MaxEarly /\ Mishaps < MaxMishaps
          /\ mishaps' = [mishaps EXCEPT !.early = @ + 1]
          /\ since' = "cleanup"
     ELSE UNCHANGED <<since, mishaps>>
  /\ UNCHANGED <<managed, workers, events, stale, faults, db>>

\* Heartbeat scans and workers save nothing.
Unrecorded ==
  /\ UNCHANGED <<artifacts, db, unsaved, since, mishaps>>
  /\ \/ unsaved = Nothing /\ \E late \in SUBSET eng.active : CheckHeartbeats(late)
     \/ \E w \in workers :
          \/ WorkerCrash(w)
          \/ BridgeClose(w)
          \/ \E o \in Outcomes : WorkerReport(w, o)

RNext ==
  \/ HandleCommand
  \/ \E j \in JobIds : StoreArtifact(j)
  \/ \E e \in events : HandleReport(e)
  \/ \E j \in stale : ExpireAndSave(j)
  \/ \E r \in RunIds : ExpireRun(r)
  \/ Persist
  \/ Unrecorded
  \/ CrashAndRestart
  \/ Shutdown

RSpec == RInit /\ [][RNext]_rvars

-----------------------------------------------------------------------------
(* Properties.                                                             *)

\* Every save and every cleanup was written to its end.
NothingCutOff == mishaps.save = 0 /\ mishaps.delete = 0

\* What memory may hold of a job that the database holds as `saved': the same,
\* the revived job, or a start of it that an event of another run brought about.
SameButStarted(saved, job) ==
  \/ job \in {saved, Revived(saved)}
  \/ /\ saved.status \in {"Ready", "Running"}
     /\ job.status = "Running"
     /\ job = [saved EXCEPT !.status = "Running", !.attempt = job.attempt]

\* Between two handlers a crash costs no more than starts: nothing that was
\* planned, promoted, retried, revised, completed, failed or cancelled is lost,
\* although each handler saves the run of its own event only.
CrashLosesOnlyStarts ==
  NothingCutOff /\ unsaved = Nothing =>
    /\ DOMAIN db.jobs = DOMAIN eng.jobs
    /\ DOMAIN db.runs = DOMAIN eng.runs
    /\ \A j \in DOMAIN db.jobs : SameButStarted(db.jobs[j], eng.jobs[j])
    /\ \A r \in DOMAIN db.runs :
         db.runs[r] # eng.runs[r] => db.runs[r] = "Pending" /\ eng.runs[r] = "Running"

\* No job is left whose run is gone, wherever a save or a cleanup was cut off: the
\* run is written first and deleted last.  No artifact is left whose job is gone,
\* wherever a cleanup was cut off, so that a later cleanup of the run finds all of
\* it.  (A save that was cut off may leave out a job whose artifact then is
\* written, and the artifact of a job whose run was removed under it has none.)
NoOrphanRows ==
  /\ \A j \in DOMAIN db.jobs : db.jobs[j].run \in DOMAIN db.runs
  /\ \A j \in DOMAIN eng.jobs : eng.jobs[j].run \in DOMAIN eng.runs
  /\ mishaps.save = 0 /\ mishaps.early = 0 =>
       \A a \in db.artifacts : a.job \in DOMAIN db.jobs /\ db.jobs[a.job].run = a.run

\* Work that was saved as completed is not done again, whatever crashes, shut
\* downs and torn saves follow, as long as no live worker is timed out.
SavedWorkIsKept ==
  [][\A j \in DOMAIN db.jobs \cap DOMAIN eng'.jobs :
       db.jobs[j].status = "Completed" => eng'.jobs[j].status = "Completed"]_rvars

\* A job that was saved as completed has its output in the database: the
\* artifact's event comes first and is saved at once.
OutputsAreSaved ==
  NothingCutOff /\ unsaved = Nothing =>
    \A j \in DOMAIN db.jobs :
      db.jobs[j].status = "Completed" => j \in Authors(db.artifacts)

\* Through crashes between handlers a job is still started only after everything
\* it depends on.  A save that was cut off may break this, and so may a
\* cancellation, which makes Pending jobs Ready for a restart to queue.
DependenciesSurvive ==
  NothingCutOff /\ faults.cancel = 0 =>
    \A j \in DOMAIN eng.jobs :
      eng.jobs[j].status # "Pending" =>
        \A d \in Entries(eng.jobs[j].deps) :
          d \in DOMAIN eng.jobs /\ eng.jobs[d].status = "Completed"

\* Jobs wait in the queue while a slot is free only from a start of the daemon to
\* the first command or event, since hydration queues what is Ready and starts
\* nothing, and after a cleanup that removed queued jobs: next_job stops at each
\* of their entries, so that the jobs behind it wait for one more command or event.
\* (cancel_run frees slots without offering them to the queue either.)
IdleOnlyAtStartup ==
  Selecting /\ unsaved = Nothing /\ eng.queue # <<>> /\ faults.cancel = 0 =>
    since # "handler" \/ Cardinality(eng.active) = MaxConcurrency
=============================================================================
