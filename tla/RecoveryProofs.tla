--------------------------- MODULE RecoveryProofs ---------------------------
(***************************************************************************)
(* Proofs about module Recovery: what memory and the database hold through *)
(* crashes, restarts, shutdowns and saves that were cut off.               *)
(*                                                                         *)
(* A handler changes jobs of the run of its event only (Within) and then   *)
(* starts queued jobs of any run (Begins).  A start of the daemon builds   *)
(* the engine from the tables (HydratedOK), which are well-formed (DbOK)   *)
(* wherever a save or a cleanup was stopped.                               *)
(*                                                                         *)
(* A cleanup of a run with work under way leaves ids behind in queue and   *)
(* slots.  What is shown for every behaviour of Recovery, such cleanups    *)
(* included, rests on what is true of the engine with such ids (LooseOK):  *)
(* the store itself is in order (StoreOK) and slots stay within the limit. *)
(* The rest holds until the first such cleanup, or, as SafeInv says, again *)
(* from the next start of the daemon on.                                   *)
(*                                                                         *)
(* The last part is about Recovery as long as no heartbeat timeout hits a  *)
(* job whose worker is alive and no cleanup a run with work under way:     *)
(* what a crash costs, that saved work is kept and that dependencies       *)
(* survive.  A timeout that was wrong lets a job run twice, and the second *)
(* report sets a finished job back.  Without one, every report is about a  *)
(* job that is neither finished nor queued (Steady), whatever is           *)
(* cancelled, crashes or is cleaned up, so no handler touches finished     *)
(* work.                                                                   *)
(***************************************************************************)
EXTENDS Recovery, OrchestratorProofs

-----------------------------------------------------------------------------
(* What a handler does to the engine.                                      *)

\* t is s with changes to run r only: new jobs and Pending jobs that became
\* Ready, and jobs of J, left with a status of S.
Within(s, t, r, J, S) ==
  /\ DOMAIN s.jobs \subseteq DOMAIN t.jobs
  /\ \A i \in DOMAIN s.jobs :
       /\ SameJob(t.jobs[i], s.jobs[i])
       /\ \/ t.jobs[i].status = s.jobs[i].status
          \/ s.jobs[i].run = r /\ i \in J /\ t.jobs[i].status \in S
          \/ s.jobs[i].run = r /\ s.jobs[i].status = "Pending" /\ t.jobs[i].status = "Ready"
  /\ \A i \in Newcomers(s, t) :
       i >= s.nextJob /\ t.jobs[i].run = r /\ t.jobs[i].status \in {"Pending", "Ready"}
  /\ DOMAIN s.runs \subseteq DOMAIN t.runs /\ DOMAIN t.runs \subseteq DOMAIN s.runs \cup {r}
  /\ \A q \in DOMAIN s.runs \ {r} : t.runs[q] = s.runs[q]
  /\ t.nextJob >= s.nextJob /\ t.nextRun >= s.nextRun

\* The queue stays in order if the job settled is not in it, and of the jobs that
\* were there only that one and Pending ones enter it.
QueueKept(s, t, j) ==
  QueueOK(s) /\ j \notin Entries(s.queue) =>
    /\ QueueOK(t)
    /\ \A i \in Entries(t.queue) \cap DOMAIN s.jobs :
         i \in Entries(s.queue) \/ i = j \/ s.jobs[i].status = "Pending"

LEMMA WithinTransitive ==
  ASSUME NEW s, NEW t, NEW u, EngineType(s), EngineType(t), EngineType(u), NEW r, NEW J, NEW S,
         "Ready" \in S, J \subseteq DOMAIN s.jobs,
         Within(s, t, r, J, S), Within(t, u, r, J, S)
  PROVE  Within(s, u, r, J, S)
<1>1. /\ s.nextJob \in Nat /\ t.nextJob \in Nat /\ u.nextJob \in Nat
      /\ s.nextRun \in Nat /\ t.nextRun \in Nat /\ u.nextRun \in Nat
      /\ DOMAIN s.jobs \subseteq DOMAIN t.jobs /\ DOMAIN t.jobs \subseteq DOMAIN u.jobs
      /\ DOMAIN u.jobs \subseteq Nat
  <2>1. DOMAIN u.jobs \subseteq 1..u.nextJob - 1
    BY TypeParts
  <2>2. /\ s.nextJob \in Nat /\ t.nextJob \in Nat /\ u.nextJob \in Nat
        /\ s.nextRun \in Nat /\ t.nextRun \in Nat /\ u.nextRun \in Nat
    BY TypeParts
  <2>3. DOMAIN u.jobs \subseteq Nat
    BY <2>1, <2>2
  <2> QED BY <2>2, <2>3 DEF Within
<1>2. u.nextJob >= s.nextJob /\ u.nextRun >= s.nextRun
  BY <1>1 DEF Within
<1>3. /\ DOMAIN s.runs \subseteq DOMAIN u.runs /\ DOMAIN u.runs \subseteq DOMAIN s.runs \cup {r}
      /\ \A q \in DOMAIN s.runs \ {r} : u.runs[q] = s.runs[q]
  BY DEF Within
<1>4. ASSUME NEW i \in Newcomers(s, u)
      PROVE  i >= s.nextJob /\ u.jobs[i].run = r /\ u.jobs[i].status \in {"Pending", "Ready"}
  <2>1. CASE i \in DOMAIN t.jobs
    <3>1. i \in Newcomers(s, t)
      BY <1>4, <2>1 DEF Newcomers
    <3>2. i >= s.nextJob /\ t.jobs[i].run = r /\ t.jobs[i].status \in {"Pending", "Ready"}
      BY <3>1 DEF Within
    <3>3. SameJob(u.jobs[i], t.jobs[i])
      BY <2>1 DEF Within
    <3>4. \/ u.jobs[i].status = t.jobs[i].status
          \/ i \in J /\ u.jobs[i].status \in S
          \/ u.jobs[i].status = "Ready"
      BY <2>1 DEF Within
    <3>5. i \notin J
      BY <1>4 DEF Newcomers
    <3> QED BY <3>2, <3>3, <3>4, <3>5 DEF SameJob
  <2>2. CASE i \notin DOMAIN t.jobs
    <3>1. i \in Newcomers(t, u)
      BY <1>4, <2>2 DEF Newcomers
    <3>2. i >= t.nextJob /\ u.jobs[i].run = r /\ u.jobs[i].status \in {"Pending", "Ready"}
      BY <3>1 DEF Within
    <3>3. i \in Nat /\ t.nextJob >= s.nextJob
      BY <1>1, <3>1 DEF Within, Newcomers
    <3> QED BY <1>1, <3>2, <3>3
  <2> QED BY <2>1, <2>2
<1>5. ASSUME NEW i \in DOMAIN s.jobs
      PROVE  /\ SameJob(u.jobs[i], s.jobs[i])
             /\ \/ u.jobs[i].status = s.jobs[i].status
                \/ s.jobs[i].run = r /\ i \in J /\ u.jobs[i].status \in S
                \/ s.jobs[i].run = r /\ s.jobs[i].status = "Pending" /\ u.jobs[i].status = "Ready"
  <2>1. /\ i \in DOMAIN t.jobs /\ t.jobs[i].run = s.jobs[i].run
        /\ SameJob(t.jobs[i], s.jobs[i]) /\ SameJob(u.jobs[i], t.jobs[i])
    BY <1>1 DEF Within, SameJob
  <2>2. \/ t.jobs[i].status = s.jobs[i].status
        \/ s.jobs[i].run = r /\ i \in J /\ t.jobs[i].status \in S
        \/ s.jobs[i].run = r /\ s.jobs[i].status = "Pending" /\ t.jobs[i].status = "Ready"
    BY DEF Within
  <2>3. \/ u.jobs[i].status = t.jobs[i].status
        \/ t.jobs[i].run = r /\ i \in J /\ u.jobs[i].status \in S
        \/ t.jobs[i].run = r /\ t.jobs[i].status = "Pending" /\ u.jobs[i].status = "Ready"
    BY <2>1 DEF Within
  <2>4. SameJob(u.jobs[i], s.jobs[i])
    BY <2>1 DEF SameJob
  <2> QED BY <2>1, <2>2, <2>3, <2>4
<1>6. DOMAIN s.jobs \subseteq DOMAIN u.jobs
  BY <1>1
<1> QED BY <1>2, <1>3, <1>4, <1>5, <1>6 DEF Within

LEMMA SettlesWithin ==
  ASSUME NEW s, NEW t, EngineOK(s), EngineOK(t), NEW j \in DOMAIN s.jobs, NEW status, NEW S,
         status \in S,
         NEW new \in SUBSET {i \in JobsOf(s, s.jobs[j].run) : i # j /\ s.jobs[i].status = "Pending"},
         Settles(s, t, j, status, new),
         Concludes(s, t, s.jobs[j].run) \/ t.runs = s.runs,
         t.nextJob = s.nextJob, t.nextRun = s.nextRun
  PROVE  Within(s, t, s.jobs[j].run, {j}, S) /\ QueueKept(s, t, j)
<1>1. s.nextJob \in Nat /\ s.nextRun \in Nat
  BY TypeParts DEF EngineOK
<1>2. DOMAIN t.jobs = DOMAIN s.jobs /\ Newcomers(s, t) = {}
  BY DEF Settles, Newcomers
<1>3. /\ DOMAIN t.runs = DOMAIN s.runs
      /\ \A q \in DOMAIN s.runs \ {s.jobs[j].run} : t.runs[q] = s.runs[q]
  BY DEF Concludes
<1>4. ASSUME NEW i \in DOMAIN s.jobs
      PROVE  /\ SameJob(t.jobs[i], s.jobs[i])
             /\ \/ t.jobs[i].status = s.jobs[i].status
                \/ s.jobs[i].run = s.jobs[j].run /\ i \in {j} /\ t.jobs[i].status \in S
                \/ /\ s.jobs[i].run = s.jobs[j].run
                   /\ s.jobs[i].status = "Pending" /\ t.jobs[i].status = "Ready"
  BY DEF Settles, JobsOf
<1>5. Within(s, t, s.jobs[j].run, {j}, S)
  BY <1>1, <1>2, <1>3, <1>4 DEF Within
<1>6. QueueKept(s, t, j)
  <2> SUFFICES ASSUME QueueOK(s), j \notin Entries(s.queue)
               PROVE  /\ QueueOK(t)
                      /\ \A i \in Entries(t.queue) :
                           i \in Entries(s.queue) \/ i = j \/ s.jobs[i].status = "Pending"
    BY DEF QueueKept
  <2>1. /\ Entries(t.queue) = Entries(s.queue) \cup new \cup (IF status = "Ready" THEN {j} ELSE {})
        /\ \A i \in DOMAIN s.jobs :
             t.jobs[i].status = IF i = j THEN status
                                ELSE IF i \in new THEN "Ready" ELSE s.jobs[i].status
    BY DEF Settles
  <2>2. Entries(s.queue) \subseteq DOMAIN s.jobs
    <3> DEFINE ids == DOMAIN s.jobs
    <3>1. s.queue \in Seq(ids)
      BY TypeParts DEF EngineOK
    <3> HIDE DEF ids
    <3>2. Entries(s.queue) \subseteq ids
      BY <3>1, EntriesOfSeq
    <3> QED BY <3>2 DEF ids
  <2>3. new \subseteq DOMAIN s.jobs /\ \A i \in new : s.jobs[i].status = "Pending"
    BY DEF JobsOf
  <2>4. new \cap Entries(s.queue) = {}
    BY <2>3 DEF QueueOK
  <2>5. Distinct(t.queue)
    BY <2>4 DEF Settles, QueueOK
  <2>6. \A i \in Entries(t.queue) : t.jobs[i].status = "Ready"
    BY <2>1, <2>2, <2>3 DEF QueueOK
  <2>7. \A i \in Entries(t.queue) :
          i \in Entries(s.queue) \/ i = j \/ s.jobs[i].status = "Pending"
    BY <2>1, <2>3
  <2> QED BY <2>5, <2>6, <2>7 DEF QueueOK
<1> QED BY <1>5, <1>6

LEMMA GrowsWithin ==
  ASSUME NEW s, NEW t, NEW run, NEW recs, EngineOK(s), EngineOK(t), Grows(s, t, run, recs),
         DOMAIN t.runs \subseteq DOMAIN s.runs \cup {run}, NEW J, NEW S, NEW j
  PROVE  Within(s, t, run, J, S) /\ QueueKept(s, t, j)
<1>1. /\ DOMAIN s.jobs \subseteq DOMAIN t.jobs
      /\ \A i \in DOMAIN s.jobs : t.jobs[i] = s.jobs[i]
      /\ Newcomers(s, t) = s.nextJob .. s.nextJob + Len(recs) - 1
      /\ \A i \in 1..Len(recs) : /\ s.nextJob + i - 1 \in Newcomers(s, t)
                                 /\ t.jobs[s.nextJob + i - 1] = recs[i]
      /\ \A i \in Newcomers(s, t) :
           /\ t.jobs[i].run = run
           /\ t.jobs[i].status = IF t.jobs[i].deps = <<>> THEN "Ready" ELSE "Pending"
  BY GrownJobs
<1>2. s.nextJob \in Nat /\ Len(recs) \in Nat /\ t.nextJob = s.nextJob + Len(recs)
      /\ t.nextRun >= s.nextRun
  <2>1. s.nextJob \in Nat
    BY TypeParts DEF EngineOK
  <2>2. Len(recs) \in Nat
    BY LenProperties DEF Grows
  <2> QED BY <2>1, <2>2 DEF Grows
<1>3. \A i \in DOMAIN s.jobs : SameJob(t.jobs[i], s.jobs[i]) /\ t.jobs[i].status = s.jobs[i].status
  BY <1>1 DEF SameJob
<1>4. \A i \in Newcomers(s, t) : i >= s.nextJob
  BY <1>1, <1>2
<1>5. \A q \in DOMAIN s.runs \ {run} : t.runs[q] = s.runs[q]
  BY DEF Grows
<1>6. DOMAIN s.runs \subseteq DOMAIN t.runs
  BY DEF Grows
<1>7. \A i \in Newcomers(s, t) : t.jobs[i].status \in {"Pending", "Ready"}
  BY <1>1
<1>8. t.nextJob >= s.nextJob
  BY <1>2
<1>9. Within(s, t, run, J, S)
  BY <1>1, <1>2, <1>3, <1>4, <1>5, <1>6, <1>7, <1>8 DEF Within
<1>10. QueueKept(s, t, j)
  <2> SUFFICES ASSUME QueueOK(s)
               PROVE  /\ QueueOK(t)
                      /\ \A i \in Entries(t.queue) \cap DOMAIN s.jobs : i \in Entries(s.queue)
    BY DEF QueueKept
  <2>1. Distinct(t.queue)
    BY DEF Grows, QueueOK
  <2>2. Entries(s.queue) \subseteq DOMAIN s.jobs
    <3> DEFINE ids == DOMAIN s.jobs
    <3>1. s.queue \in Seq(ids)
      BY TypeParts DEF EngineOK
    <3> HIDE DEF ids
    <3>2. Entries(s.queue) \subseteq ids
      BY <3>1, EntriesOfSeq
    <3> QED BY <3>2 DEF ids
  <2>3. \A x \in Entries(t.queue) \ Entries(s.queue) :
          \E i \in 1..Len(recs) : x = s.nextJob + i - 1 /\ recs[i].status = "Ready"
    BY DEF Grows
  <2>4. \A x \in Entries(t.queue) : t.jobs[x].status = "Ready"
    BY <1>1, <2>2, <2>3 DEF QueueOK
  <2>5. \A x \in Entries(t.queue) \cap DOMAIN s.jobs : x \in Entries(s.queue)
    BY <1>1, <2>3 DEF Newcomers
  <2> QED BY <2>1, <2>4, <2>5 DEF QueueOK
<1> QED BY <1>9, <1>10

LEMMA NextIds ==
  ASSUME NEW s, EngineType(s), NEW j, NEW order
  PROVE  /\ MarkFailed(s, j).nextJob = s.nextJob /\ MarkFailed(s, j).nextRun = s.nextRun
         /\ MarkCompleted(s, j, order).nextJob = s.nextJob
         /\ MarkCompleted(s, j, order).nextRun = s.nextRun
<1>1. HasFields(s)
  BY TypeParts
<1>2. ASSUME NEW t, HasFields(t), NEW r
      PROVE  /\ CheckRunCompletion(t, r).nextJob = t.nextJob
             /\ CheckRunCompletion(t, r).nextRun = t.nextRun
  BY <1>2 DEF CheckRunCompletion, HasFields
<1>3. /\ MarkFailed(s, j).nextJob = s.nextJob /\ MarkFailed(s, j).nextRun = s.nextRun
  <2> DEFINE retry == j \in DOMAIN s.jobs /\ s.jobs[j].attempt < MaxAttempts
             failed == [s EXCEPT !.jobs = SetStatus(@, {j}, IF retry THEN "Ready" ELSE "Failed"),
                                 !.queue = IF retry THEN Append(@, j) ELSE @,
                                 !.active = @ \ {j}]
  <2>1. HasFields(failed) /\ failed.nextJob = s.nextJob /\ failed.nextRun = s.nextRun
    BY <1>1 DEF HasFields
  <2>2. MarkFailed(s, j) = IF j \in s.active \cap DOMAIN s.jobs
                           THEN CheckRunCompletion(failed, s.jobs[j].run) ELSE failed
    BY DEF MarkFailed
  <2> HIDE DEF failed
  <2> QED BY <1>2, <2>1, <2>2
<1>4. /\ MarkCompleted(s, j, order).nextJob = s.nextJob
      /\ MarkCompleted(s, j, order).nextRun = s.nextRun
  <2> DEFINE done == Completed(s, j)
             more == PromoteUnblocked(done, order)
  <2>1. HasFields(done) /\ done.nextJob = s.nextJob /\ done.nextRun = s.nextRun
    BY <1>1 DEF HasFields, Completed
  <2>2. MarkCompleted(s, j, order) = IF j \in s.active \cap DOMAIN s.jobs
                                     THEN CheckRunCompletion(more, s.jobs[j].run) ELSE done
    BY DEF MarkCompleted
  <2> HIDE DEF done
  <2>3. HasFields(more) /\ more.nextJob = done.nextJob /\ more.nextRun = done.nextRun
    BY <2>1 DEF HasFields, PromoteUnblocked
  <2> HIDE DEF more
  <2> QED BY <1>2, <2>1, <2>2, <2>3
<1> QED BY <1>3, <1>4

LEMMA MarkFailedWithin ==
  ASSUME NEW s, EngineOK(s), NEW j \in DOMAIN s.jobs, NEW S, {"Ready", "Failed"} \subseteq S
  PROVE  LET t == MarkFailed(s, j) IN
         EngineOK(t) /\ Within(s, t, s.jobs[j].run, {j}, S) /\ QueueKept(s, t, j)
<1> DEFINE t == MarkFailed(s, j)
<1>1. EngineType(s) /\ EngineOK(t)
  BY MarkFailedOK DEF EngineOK
<1>2. t.nextJob = s.nextJob /\ t.nextRun = s.nextRun
  BY <1>1, NextIds
<1>3. /\ Settles(s, t, j, AfterFailure(s.jobs[j]), {})
      /\ Concludes(s, t, s.jobs[j].run) \/ t.runs = s.runs
  BY <1>1, MarkFailedEffect
<1>4. AfterFailure(s.jobs[j]) \in S
  BY DEF AfterFailure
<1> HIDE DEF t
<1>5. {} \in SUBSET {i \in JobsOf(s, s.jobs[j].run) : i # j /\ s.jobs[i].status = "Pending"}
  OBVIOUS
<1> QED BY <1>1, <1>2, <1>3, <1>4, <1>5, SettlesWithin DEF t

LEMMA MarkCompletedWithin ==
  ASSUME NEW s, EngineOK(s), NEW j \in DOMAIN s.jobs, NEW order \in Orderings(PromotedBy(s, j)),
         NEW S, "Completed" \in S
  PROVE  LET t == MarkCompleted(s, j, order) IN
         EngineOK(t) /\ Within(s, t, s.jobs[j].run, {j}, S) /\ QueueKept(s, t, j)
<1> DEFINE t == MarkCompleted(s, j, order)
<1>1. EngineType(s) /\ EngineOK(t)
  BY MarkCompletedOK DEF EngineOK
<1>2. t.nextJob = s.nextJob /\ t.nextRun = s.nextRun
  BY <1>1, NextIds
<1>3. /\ Settles(s, t, j, "Completed", PromotedBy(s, j))
      /\ Concludes(s, t, s.jobs[j].run) \/ t.runs = s.runs
  BY MarkCompletedEffect
<1> HIDE DEF t
<1>4. PromotedBy(s, j) \in
        SUBSET {i \in JobsOf(s, s.jobs[j].run) : i # j /\ s.jobs[i].status = "Pending"}
  BY PromotedPending
<1> QED BY <1>1, <1>2, <1>3, <1>4, SettlesWithin DEF t

LEMMA AfterCompletionWithin ==
  ASSUME NEW s, EngineOK(s), NEW j \in DOMAIN s.jobs, j \notin s.active,
         NEW next \in AfterCompletion(s, j), NEW S, {"Ready", "Failed"} \subseteq S
  PROVE  EngineOK(next) /\ Within(s, next, s.jobs[j].run, {j}, S) /\ QueueKept(s, next, j)
<1> DEFINE r == s.jobs[j].run
<1>0. EngineOK(next) /\ r \in DOMAIN s.runs
  BY AfterCompletionOK, TypeParts DEF EngineOK
<1>1. CASE next = s
  <2>1. s.nextJob \in Nat /\ s.nextRun \in Nat
    BY TypeParts DEF EngineOK
  <2> QED BY <1>0, <1>1, <2>1 DEF Within, SameJob, Newcomers, QueueKept
<1>2. CASE \E plan \in Plans : next \in Expanded(s, j, plan)
  <2>1. PICK plan \in Plans : \E roots \in Listings(PlanRoots(s, plan)) :
                                next = MaterializePlan(s, r, plan, roots)
    BY <1>2 DEF Expanded
  <2>2. PICK roots \in Listings(PlanRoots(s, plan)) : next = MaterializePlan(s, r, plan, roots)
    BY <2>1
  <2> HIDE DEF r
  <2>3. PICK recs : next.runs = s.runs /\ Grows(s, next, r, recs)
    BY <1>0, <2>2, PlansAreValid, MaterializePlanGrows DEF EngineOK
  <2>4. DOMAIN next.runs \subseteq DOMAIN s.runs \cup {r}
    BY <2>3
  <2>5. Within(s, next, r, {j}, S) /\ QueueKept(s, next, j)
    BY <1>0, <2>3, <2>4, GrowsWithin
  <2> QED BY <1>0, <2>5 DEF r
<1>3. CASE CanRevise(s, j) /\ next = Revise(s, j)
  <2>1. PICK recs : next.runs = s.runs /\ Grows(s, next, r, recs)
    BY <1>3, ReviseGrows DEF EngineOK
  <2>2. DOMAIN next.runs \subseteq DOMAIN s.runs \cup {r}
    BY <2>1
  <2> HIDE DEF r
  <2>3. Within(s, next, r, {j}, S) /\ QueueKept(s, next, j)
    BY <1>0, <2>1, <2>2, GrowsWithin
  <2> QED BY <1>0, <2>3 DEF r
<1>4. CASE next = MarkFailed(s, j)
  BY <1>4, MarkFailedWithin
<1>5. next = s \/ next \in Planned(s, j) \/ next \in Reviewed(s, j)
  BY DEF AfterCompletion
<1>6. CASE next \in Planned(s, j)
  <2>1. next = s \/ next = MarkFailed(s, j) \/ \E plan \in Plans : next \in Expanded(s, j, plan)
    BY <1>6 DEF Planned
  <2> QED BY <1>1, <1>2, <1>4, <2>1
<1>7. CASE next \in Reviewed(s, j)
  BY <1>1, <1>3, <1>7 DEF Reviewed
<1> QED BY <1>1, <1>5, <1>6, <1>7

\* What a completion leaves behind before the spawn loop.
LEMMA CompletionWithin ==
  ASSUME NEW s, EngineOK(s), NEW j \in DOMAIN s.jobs, NEW order \in Orderings(PromotedBy(s, j)),
         NEW next \in AfterCompletion(MarkCompleted(s, j, order), j),
         NEW S, {"Completed", "Ready", "Failed"} \subseteq S
  PROVE  EngineOK(next) /\ Within(s, next, s.jobs[j].run, {j}, S) /\ QueueKept(s, next, j)
<1> DEFINE t == MarkCompleted(s, j, order)
           r == s.jobs[j].run
<1>1. EngineOK(t) /\ Within(s, t, r, {j}, S) /\ QueueKept(s, t, j)
  BY MarkCompletedWithin
<1>2. j \notin t.active
  BY MarkCompletedOK DEF Freed
<1>3. Settles(s, t, j, "Completed", PromotedBy(s, j))
  BY MarkCompletedEffect
<1> HIDE DEF t
<1>4. j \in DOMAIN t.jobs /\ t.jobs[j].run = r
  BY <1>3 DEF Settles, SameJob
<1>5. EngineOK(next) /\ Within(t, next, r, {j}, S) /\ QueueKept(t, next, j)
  BY <1>1, <1>2, <1>4, AfterCompletionWithin DEF t
<1> HIDE DEF r
<1>6. Within(s, next, r, {j}, S)
  BY <1>1, <1>5, WithinTransitive DEF EngineOK
<1>7. QueueKept(s, next, j)
  <2> SUFFICES ASSUME QueueOK(s), j \notin Entries(s.queue)
               PROVE  /\ QueueOK(next)
                      /\ \A i \in Entries(next.queue) \cap DOMAIN s.jobs :
                           i \in Entries(s.queue) \/ i = j \/ s.jobs[i].status = "Pending"
    BY DEF QueueKept
  <2>1. j \notin Entries(t.queue)
    BY <1>3, PromotedPending DEF Settles
  <2>2. /\ QueueOK(t)
        /\ \A i \in Entries(t.queue) \cap DOMAIN s.jobs :
             i \in Entries(s.queue) \/ i = j \/ s.jobs[i].status = "Pending"
    BY <1>1 DEF QueueKept
  <2>3. /\ QueueOK(next)
        /\ \A i \in Entries(next.queue) \cap DOMAIN t.jobs :
             i \in Entries(t.queue) \/ i = j \/ t.jobs[i].status = "Pending"
    BY <1>5, <2>1, <2>2 DEF QueueKept
  <2>4. \A i \in DOMAIN s.jobs :
          i \in DOMAIN t.jobs
          /\ (i # j /\ t.jobs[i].status = "Pending" => s.jobs[i].status = "Pending")
    BY <1>3 DEF Settles
  <2> QED BY <2>2, <2>3, <2>4
<1> QED BY <1>5, <1>6, <1>7 DEF r

\* cancel_run fails what the run has not finished and takes the rest of its
\* entries out of the queue.
LEMMA CancelWithin ==
  ASSUME NEW s, EngineOK(s), NEW r \in DOMAIN s.runs,
         NEW kept \in Listings(KeptEntries(s, r))
  PROVE  LET t == Cancel(s, r, kept) IN
         /\ EngineOK(t) /\ DOMAIN t.jobs = DOMAIN s.jobs /\ DOMAIN t.runs = DOMAIN s.runs
         /\ Within(s, t, r, CancelledJobs(s, r), {"Ready", "Failed"})
         /\ QueueOK(s) => QueueOK(t) /\ Entries(t.queue) \subseteq Entries(s.queue)
<1> DEFINE t == Cancel(s, r, kept)
           cancelled == CancelledJobs(s, r)
           Status(j) == IF s.jobs[j].attempt < MaxAttempts THEN "Ready" ELSE "Failed"
           q == s.queue
           positions == KeptEntries(s, r)
<1>0. EngineType(s) /\ HasFields(s) /\ EngineOK(t) /\ s.nextJob \in Nat /\ s.nextRun \in Nat
  BY TypeParts, CancelOK DEF EngineOK
<1>1. /\ t.jobs = [j \in DOMAIN s.jobs |->
                     IF j \in cancelled THEN [s.jobs[j] EXCEPT !.status = Status(j)] ELSE s.jobs[j]]
      /\ t.runs = [s.runs EXCEPT ![r] = "Cancelled"]
      /\ t.queue = [i \in DOMAIN kept |-> q[kept[i]]]
      /\ t.nextJob = s.nextJob /\ t.nextRun = s.nextRun
  BY <1>0 DEF Cancel, HasFields
<1> HIDE DEF t
<1>2. \A j \in cancelled : j \in DOMAIN s.jobs /\ s.jobs[j].run = r
  BY DEF CancelledJobs, JobsOf
<1> HIDE DEF cancelled
<1>3. ASSUME NEW j \in DOMAIN s.jobs
      PROVE  /\ SameJob(t.jobs[j], s.jobs[j])
             /\ t.jobs[j].status = IF j \in cancelled THEN Status(j) ELSE s.jobs[j].status
  <2>1. s.jobs[j] \in JobRecords /\ Status(j) \in JobStatus
    BY <1>0, TypeParts DEF JobStatus
  <2> HIDE DEF Status
  <2>2. j \in cancelled => t.jobs[j] = [s.jobs[j] EXCEPT !.status = Status(j)]
    BY <1>1
  <2>3. j \notin cancelled => t.jobs[j] = s.jobs[j]
    BY <1>1
  <2> DEFINE new == [s.jobs[j] EXCEPT !.status = Status(j)]
  <2>4. /\ new.status = Status(j) /\ SameJob(new, s.jobs[j])
    BY <2>1, JobUpdate DEF SameJob
  <2> HIDE DEF new
  <2>5. SameJob(s.jobs[j], s.jobs[j])
    BY DEF SameJob
  <2>6. CASE j \in cancelled
    <3>1. t.jobs[j] = new
      BY <2>2, <2>6 DEF new
    <3> QED BY <2>4, <2>6, <3>1
  <2> QED BY <2>3, <2>5, <2>6
<1>4. \A j : Status(j) \in {"Ready", "Failed"}
  OBVIOUS
<1>5. DOMAIN t.jobs = DOMAIN s.jobs /\ Newcomers(s, t) = {}
  <2> HIDE DEF Status
  <2> QED BY <1>1 DEF Newcomers
<1>6. DOMAIN t.runs = DOMAIN s.runs /\ \A p \in DOMAIN s.runs \ {r} : t.runs[p] = s.runs[p]
  BY <1>1
<1> HIDE DEF Status
<1>7. \A j \in DOMAIN s.jobs :
        \/ t.jobs[j].status = s.jobs[j].status
        \/ s.jobs[j].run = r /\ j \in cancelled /\ t.jobs[j].status \in {"Ready", "Failed"}
  BY <1>2, <1>3, <1>4
<1>8. Within(s, t, r, cancelled, {"Ready", "Failed"})
  <2>1. t.nextJob >= s.nextJob /\ t.nextRun >= s.nextRun
    BY <1>0, <1>1
  <2>2. \A j \in DOMAIN s.jobs : SameJob(t.jobs[j], s.jobs[j])
    BY <1>3
  <2> QED BY <1>5, <1>6, <1>7, <2>1, <2>2 DEF Within
<1>9. ASSUME QueueOK(s) PROVE QueueOK(t) /\ Entries(t.queue) \subseteq Entries(s.queue)
  <2> DEFINE ids == DOMAIN s.jobs
  <2>1. q \in Seq(ids)
    BY <1>0, TypeParts
  <2>2. Len(q) \in Nat /\ DOMAIN q = 1..Len(q) /\ \A i \in DOMAIN q : q[i] \in ids
    <3> HIDE DEF ids, q
    <3> QED BY <2>1, LenProperties, ElementOfSeq
  <2>3. positions = {i \in DOMAIN q : q[i] \notin JobsOf(s, r)}
    BY DEF KeptEntries
  <2> HIDE DEF q, positions
  <2>4. IsFiniteSet(positions)
    <3> HIDE DEF ids
    <3>1. IsFiniteSet(1..Len(q))
      BY <2>2, FS_Interval
    <3>2. positions \subseteq 1..Len(q)
      BY <2>2, <2>3
    <3> QED BY <3>1, <3>2, FS_Subset
  <2>5. Distinct(kept) /\ Entries(kept) = positions
    BY <2>4, EntriesOfOrdering, OrderingDistinct DEF Listings, positions
  <2>6. \A i \in DOMAIN kept : kept[i] \in positions
    BY <2>5 DEF Entries
  <2>7. DOMAIN t.queue = DOMAIN kept /\ \A i \in DOMAIN kept : t.queue[i] = q[kept[i]]
    BY <1>1
  <2>8. Distinct(t.queue)
    BY <1>9, <2>3, <2>5, <2>6, <2>7 DEF Distinct, QueueOK, q
  <2>9. ASSUME NEW i \in DOMAIN kept
        PROVE  t.jobs[q[kept[i]]].status = "Ready"
    <3>1. kept[i] \in DOMAIN q /\ q[kept[i]] \notin JobsOf(s, r) /\ q[kept[i]] \in ids
      BY <2>2, <2>3, <2>6
    <3>2. q[kept[i]] \notin cancelled
      BY <1>2, <3>1 DEF JobsOf
    <3>3. s.jobs[q[kept[i]]].status = "Ready"
      BY <1>9, <3>1 DEF QueueOK, Entries, q
    <3> QED BY <1>3, <3>1, <3>2, <3>3
  <2>10. \A j \in Entries(t.queue) : t.jobs[j].status = "Ready"
    BY <2>7, <2>9 DEF Entries
  <2>11. Entries(t.queue) \subseteq Entries(s.queue)
    BY <2>3, <2>6, <2>7 DEF Entries, q
  <2> QED BY <2>8, <2>10, <2>11 DEF QueueOK
<1> QED BY <1>0, <1>5, <1>6, <1>8, <1>9 DEF t, cancelled

-----------------------------------------------------------------------------
(* What jobs depend on.                                                    *)

\* Each dependency of a job is a job of its run, and one that is done once the job
\* is no longer Pending.  A planner that goes back to Ready for its unusable plan
\* must not be one of them.
DepsDone(jobs) ==
  \A i \in DOMAIN jobs : \A d \in Entries(jobs[i].deps) :
    /\ d \in DOMAIN jobs /\ jobs[d].run = jobs[i].run
    /\ jobs[i].status # "Pending" => jobs[d].status = "Completed"
    /\ BadPlans => jobs[d].role # "planner"

\* The dependencies stay in order if the job settled is one that was under way.
DepsKept(s, t, j) ==
  /\ BadPlans => Plain
  /\ DepsDone(s.jobs)
  /\ j \in DOMAIN s.jobs => s.jobs[j].status \notin {"Pending", "Completed"}
  => DepsDone(t.jobs)

LEMMA SettlesDeps ==
  ASSUME NEW s, NEW t, NEW j \in DOMAIN s.jobs, NEW status, NEW new \in SUBSET DOMAIN s.jobs,
         Settles(s, t, j, status, new), DepsDone(s.jobs), s.jobs[j].status # "Pending",
         \A i \in new : i # j /\ s.jobs[i].status = "Pending",
         \A i \in new : \A d \in Entries(s.jobs[i].deps) : t.jobs[d].status = "Completed",
         status = "Completed"
           \/ \A i \in DOMAIN s.jobs : j \in Entries(s.jobs[i].deps) => s.jobs[i].status = "Pending"
  PROVE  DepsDone(t.jobs)
<1>1. /\ DOMAIN t.jobs = DOMAIN s.jobs
      /\ \A i \in DOMAIN s.jobs :
           /\ t.jobs[i].run = s.jobs[i].run /\ t.jobs[i].role = s.jobs[i].role
           /\ t.jobs[i].deps = s.jobs[i].deps
           /\ t.jobs[i].status = IF i = j THEN status
                                 ELSE IF i \in new THEN "Ready" ELSE s.jobs[i].status
  BY DEF Settles, SameJob
<1> SUFFICES ASSUME NEW i \in DOMAIN s.jobs, NEW d \in Entries(s.jobs[i].deps)
             PROVE  /\ d \in DOMAIN s.jobs /\ t.jobs[d].run = t.jobs[i].run
                    /\ t.jobs[i].status # "Pending" => t.jobs[d].status = "Completed"
                    /\ BadPlans => t.jobs[d].role # "planner"
  BY <1>1 DEF DepsDone
<1>2. /\ d \in DOMAIN s.jobs /\ s.jobs[d].run = s.jobs[i].run
      /\ s.jobs[i].status # "Pending" => s.jobs[d].status = "Completed"
      /\ BadPlans => s.jobs[d].role # "planner"
  BY DEF DepsDone
<1>3. ASSUME t.jobs[i].status # "Pending" PROVE t.jobs[d].status = "Completed"
  <2>1. CASE i \in new
    BY <2>1
  <2>2. CASE i \notin new
    <3>1. s.jobs[i].status # "Pending"
      BY <1>1, <1>3, <2>2
    <3>2. s.jobs[d].status = "Completed" /\ d \notin new
      BY <1>2, <3>1
    <3>3. d = j => status = "Completed"
      BY <3>1
    <3> QED BY <1>1, <1>2, <3>2, <3>3
  <2> QED BY <2>1, <2>2
<1> QED BY <1>1, <1>2, <1>3

\* A job that failed had nothing started after it, and no job waits for a planner.
LEMMA MarkFailedDeps ==
  ASSUME NEW s, EngineOK(s), NEW j \in DOMAIN s.jobs, DepsDone(s.jobs),
         s.jobs[j].status # "Pending",
         s.jobs[j].status # "Completed" \/ (BadPlans /\ s.jobs[j].role = "planner")
  PROVE  DepsDone(MarkFailed(s, j).jobs)
<1> DEFINE t == MarkFailed(s, j)
           status == AfterFailure(s.jobs[j])
<1>0. EngineType(s)
  BY DEF EngineOK
<1>1. Settles(s, t, j, status, {})
  BY <1>0, MarkFailedEffect
<1>2. \A i \in DOMAIN s.jobs : j \in Entries(s.jobs[i].deps) => s.jobs[i].status = "Pending"
  BY DEF DepsDone
<1> DEFINE new == {}
<1>3. /\ new \in SUBSET DOMAIN s.jobs
      /\ \A i \in new : i # j /\ s.jobs[i].status = "Pending"
      /\ \A i \in new : \A d \in Entries(s.jobs[i].deps) : t.jobs[d].status = "Completed"
      /\ Settles(s, t, j, status, new)
  BY <1>1
<1> HIDE DEF t, status, new
<1>4. DepsDone(t.jobs)
  BY <1>2, <1>3, SettlesDeps
<1> QED BY <1>4 DEF t

\* A completion makes those jobs Ready that have all they depend on.
LEMMA MarkCompletedDeps ==
  ASSUME NEW s, EngineOK(s), NEW j \in DOMAIN s.jobs, NEW order \in Orderings(PromotedBy(s, j)),
         DepsDone(s.jobs), s.jobs[j].status # "Pending"
  PROVE  DepsDone(MarkCompleted(s, j, order).jobs)
<1> DEFINE t == MarkCompleted(s, j, order)
           done == Completed(s, j)
           new == PromotedBy(s, j)
<1>1. Settles(s, t, j, "Completed", new)
  BY MarkCompletedEffect
<1>2. new \in SUBSET DOMAIN s.jobs /\ \A i \in new : i # j /\ s.jobs[i].status = "Pending"
  BY PromotedPending DEF JobsOf
<1>3. /\ DOMAIN done.jobs = DOMAIN s.jobs
      /\ \A i \in DOMAIN s.jobs :
           /\ done.jobs[i].deps = s.jobs[i].deps
           /\ done.jobs[i].status = IF i = j THEN "Completed" ELSE s.jobs[i].status
  <2>1. EngineType(s) /\ done.jobs = SetStatus(s.jobs, {j}, "Completed")
    BY DEF EngineOK, EngineType, Completed
  <2> HIDE DEF done
  <2>2. Restatused(s, done.jobs, {j}, "Completed")
    BY <2>1, SetStatusOK DEF JobStatus
  <2> QED BY <2>2 DEF Restatused
<1> HIDE DEF t
<1>4. \A i \in new : \A d \in Entries(done.jobs[i].deps) :
        d \in DOMAIN done.jobs /\ done.jobs[d].status = "Completed"
  <2> HIDE DEF done
  <2>1. new \subseteq Promotable(done, s.jobs[j].run)
    BY DEF PromotedBy, done
  <2> QED BY <2>1 DEF Promotable
<1> HIDE DEF done, new
<1>5. \A i \in new : \A d \in Entries(s.jobs[i].deps) : t.jobs[d].status = "Completed"
  BY <1>1, <1>2, <1>3, <1>4 DEF Settles
<1>6. DepsDone(t.jobs)
  BY <1>1, <1>2, <1>5, SettlesDeps
<1> QED BY <1>6 DEF t

\* New jobs wait for new jobs only.
LEMMA GrowsDeps ==
  ASSUME NEW s, NEW t, NEW run, NEW recs, EngineOK(s), Grows(s, t, run, recs), DepsDone(s.jobs),
         \/ BadPlans => \A i \in 1..Len(recs) : recs[i].role # "planner"
         \/ \A i \in 1..Len(recs) : recs[i].deps = <<>>
  PROVE  DepsDone(t.jobs)
<1>1. /\ DOMAIN s.jobs \subseteq DOMAIN t.jobs
      /\ \A i \in DOMAIN s.jobs : t.jobs[i] = s.jobs[i]
      /\ \A i \in Newcomers(s, t) :
           /\ \E k \in 1..Len(recs) : t.jobs[i] = recs[k]
           /\ t.jobs[i].run = run
           /\ t.jobs[i].status = IF t.jobs[i].deps = <<>> THEN "Ready" ELSE "Pending"
           /\ \A d \in Entries(t.jobs[i].deps) : d \in Newcomers(s, t)
  BY GrownJobs
<1> SUFFICES ASSUME NEW i \in DOMAIN t.jobs, NEW d \in Entries(t.jobs[i].deps)
             PROVE  /\ d \in DOMAIN t.jobs /\ t.jobs[d].run = t.jobs[i].run
                    /\ t.jobs[i].status # "Pending" => t.jobs[d].status = "Completed"
                    /\ BadPlans => t.jobs[d].role # "planner"
  BY DEF DepsDone
<1>2. CASE i \in DOMAIN s.jobs
  <2>1. t.jobs[i] = s.jobs[i]
    BY <1>1, <1>2
  <2>2. /\ d \in DOMAIN s.jobs /\ s.jobs[d].run = s.jobs[i].run
        /\ s.jobs[i].status # "Pending" => s.jobs[d].status = "Completed"
        /\ BadPlans => s.jobs[d].role # "planner"
    BY <1>2, <2>1 DEF DepsDone
  <2>3. t.jobs[d] = s.jobs[d]
    BY <1>1, <2>2
  <2> QED BY <1>1, <2>1, <2>2, <2>3
<1>3. CASE i \notin DOMAIN s.jobs
  <2>1. i \in Newcomers(s, t)
    BY <1>3 DEF Newcomers
  <2>2. t.jobs[i].deps # <<>>
    BY DEF Entries
  <2>3. d \in Newcomers(s, t)
    BY <1>1, <2>1
  <2>4. d \in DOMAIN t.jobs /\ t.jobs[d].run = t.jobs[i].run /\ t.jobs[i].status = "Pending"
    BY <1>1, <2>1, <2>2, <2>3 DEF Newcomers
  <2>5. ASSUME BadPlans PROVE t.jobs[d].role # "planner"
    <3>1. PICK k \in 1..Len(recs) : t.jobs[i] = recs[k]
      BY <1>1, <2>1
    <3>2. recs[k].deps # <<>>
      BY <2>2, <3>1
    <3>3. PICK m \in 1..Len(recs) : t.jobs[d] = recs[m]
      BY <1>1, <2>3
    <3> QED BY <2>5, <3>2, <3>3
  <2> QED BY <2>4, <2>5
<1> QED BY <1>2, <1>3

LEMMA AfterCompletionDeps ==
  ASSUME NEW s, EngineOK(s), NEW j \in DOMAIN s.jobs, DepsDone(s.jobs), BadPlans => Plain,
         s.jobs[j].status = "Completed", NEW next \in AfterCompletion(s, j)
  PROVE  DepsDone(next.jobs)
<1> DEFINE r == s.jobs[j].run
<1>0. r \in DOMAIN s.runs
  BY TypeParts DEF EngineOK
<1>1. CASE next = s
  BY <1>1
<1>2. ASSUME NEW plan \in Plans, next \in Expanded(s, j, plan) PROVE DepsDone(next.jobs)
  <2>1. PICK roots \in Listings(PlanRoots(s, plan)) : next = MaterializePlan(s, r, plan, roots)
    BY <1>2 DEF Expanded
  <2> HIDE DEF r
  <2>2. PICK recs : /\ Grows(s, next, r, recs) /\ Len(recs) = Len(plan)
                    /\ \A i \in 1..Len(recs) : recs[i].role = plan[i].role
    BY <1>0, <2>1, PlansAreValid, MaterializePlanGrows DEF EngineOK
  <2>3. DOMAIN plan = 1..Len(plan)
    <3>1. plan \in Seq([role : Roles, profile : ProfileNames, deps : Seq(Nat)])
      BY OrchestratorAssumption
    <3> QED BY <3>1, LenProperties
  <2>4. BadPlans => \A i \in 1..Len(recs) : recs[i].role # "planner"
    BY <2>2, <2>3 DEF Plain
  <2> QED BY <2>2, <2>4, GrowsDeps
<1>3. CASE s.jobs[j].role = "reviewer" /\ CanRevise(s, j) /\ next = Revise(s, j)
  <2> DEFINE coder == Head(s.jobs[j].deps)
  <2>1. PICK recs : /\ Grows(s, next, r, recs) /\ Len(recs) = 2
                    /\ recs[1].role = s.jobs[coder].role
                    /\ recs[2].role = s.jobs[j].role
    BY <1>3, ReviseGrows DEF EngineOK
  <2>2. coder \in Entries(s.jobs[j].deps)
    <3>1. s.jobs[j].deps \in Seq(Nat) /\ s.jobs[j].deps # <<>>
      BY <1>3, TypeParts DEF EngineOK, JobRecords, CanRevise
    <3>2. Len(s.jobs[j].deps) \in Nat /\ DOMAIN s.jobs[j].deps = 1..Len(s.jobs[j].deps)
          /\ Len(s.jobs[j].deps) # 0
      BY <3>1, LenProperties, EmptySeq
    <3>3. 1 \in DOMAIN s.jobs[j].deps /\ coder = s.jobs[j].deps[1]
      BY <3>1, <3>2
    <3> QED BY <3>3 DEF Entries
  <2>3. ASSUME BadPlans PROVE s.jobs[coder].role # "planner"
    BY <2>2, <2>3 DEF DepsDone
  <2> HIDE DEF coder, r
  <2>4. BadPlans => \A i \in 1..Len(recs) : recs[i].role # "planner"
    <3>1. \A i \in 1..Len(recs) : i = 1 \/ i = 2
      BY <2>1
    <3> QED BY <1>3, <2>1, <2>3, <3>1
  <2> QED BY <2>1, <2>4, GrowsDeps
<1>4. CASE s.jobs[j].role = "planner"
  <2>1. \/ next = s
        \/ BadPlans /\ next = MarkFailed(s, j)
        \/ \E plan \in Plans : next \in Expanded(s, j, plan)
    BY <1>4 DEF AfterCompletion, Planned
  <2>2. CASE BadPlans /\ next = MarkFailed(s, j)
    BY <1>4, <2>2, MarkFailedDeps
  <2> QED BY <1>1, <1>2, <2>1, <2>2
<1>5. CASE s.jobs[j].role = "reviewer"
  <2>1. next = s \/ (CanRevise(s, j) /\ next = Revise(s, j))
    BY <1>5 DEF AfterCompletion, Reviewed
  <2> QED BY <1>1, <1>3, <1>5, <2>1
<1> QED BY <1>1, <1>4, <1>5 DEF AfterCompletion

LEMMA CompletionDeps ==
  ASSUME NEW s, EngineOK(s), NEW j \in DOMAIN s.jobs, NEW order \in Orderings(PromotedBy(s, j)),
         NEW next \in AfterCompletion(MarkCompleted(s, j, order), j)
  PROVE  DepsKept(s, next, j)
<1> DEFINE t == MarkCompleted(s, j, order)
<1> SUFFICES ASSUME BadPlans => Plain, DepsDone(s.jobs), s.jobs[j].status # "Pending"
             PROVE  DepsDone(next.jobs)
  BY DEF DepsKept
<1>1. DepsDone(t.jobs)
  BY MarkCompletedDeps
<1>2. Settles(s, t, j, "Completed", PromotedBy(s, j)) /\ EngineOK(t)
  BY MarkCompletedEffect, MarkCompletedOK
<1> HIDE DEF t
<1>3. j \in DOMAIN t.jobs /\ t.jobs[j].status = "Completed"
  BY <1>2 DEF Settles
<1> QED BY <1>1, <1>2, <1>3, AfterCompletionDeps DEF t

-----------------------------------------------------------------------------
(* The spawn loop.                                                         *)

\* The jobs in P have left the queue and been started, perhaps more than once.
Begins(s, t, P) ==
  /\ P \subseteq Entries(s.queue)
  /\ DOMAIN t.jobs = DOMAIN s.jobs
  /\ \A j \in DOMAIN s.jobs \ P : t.jobs[j] = s.jobs[j]
  /\ \A j \in P :
       /\ j \in DOMAIN s.jobs
       /\ t.jobs[j] = [s.jobs[j] EXCEPT !.status = "Running", !.attempt = t.jobs[j].attempt]
       /\ t.jobs[j].status = "Running"
       /\ t.jobs[j].run = s.jobs[j].run /\ t.jobs[j].deps = s.jobs[j].deps
       /\ t.jobs[j].role = s.jobs[j].role
  /\ DOMAIN t.runs = DOMAIN s.runs
  /\ \A r \in DOMAIN s.runs :
       t.runs[r] = s.runs[r] \/ (s.runs[r] = "Pending" /\ t.runs[r] = "Running")
  /\ t.nextJob = s.nextJob /\ t.nextRun = s.nextRun

LEMMA StartPoppedBegins ==
  ASSUME NEW s, EngineType(s), NEW n \in 0..Len(s.queue)
  PROVE  Begins(s, StartPopped(s, n), Popped(s, n))
<1> DEFINE t == StartPopped(s, n)
           P == Popped(s, n)
           Begun(j) == [s.jobs[j] EXCEPT !.status = "Running",
                                         !.attempt = @ + TimesPopped(s, n, j)]
<1>0. HasFields(s) /\ s.queue \in Seq(DOMAIN s.jobs)
  BY TypeParts
<1>1. /\ t.jobs = [j \in DOMAIN s.jobs |-> IF j \in P THEN Begun(j) ELSE s.jobs[j]]
      /\ t.runs = [r \in DOMAIN s.runs |->
                     IF s.runs[r] = "Pending" /\ \E j \in P : s.jobs[j].run = r
                     THEN "Running" ELSE s.runs[r]]
      /\ t.nextJob = s.nextJob /\ t.nextRun = s.nextRun
  BY <1>0 DEF StartPopped, HasFields
<1> HIDE DEF t
<1>2. Len(s.queue) \in Nat /\ DOMAIN s.queue = 1..Len(s.queue)
  BY <1>0, LenProperties
<1>3. P \subseteq DOMAIN s.jobs /\ P \subseteq Entries(s.queue)
  <2>1. P \subseteq DOMAIN s.jobs
    BY PoppedJobs
  <2>2. \A i \in 1..n : i \in DOMAIN s.queue
    BY <1>2
  <2> QED BY <2>1, <2>2, EveryPopCounts DEF Entries
<1>4. ASSUME NEW j \in P
      PROVE  /\ t.jobs[j] = [s.jobs[j] EXCEPT !.status = "Running", !.attempt = t.jobs[j].attempt]
             /\ t.jobs[j].status = "Running"
             /\ t.jobs[j].run = s.jobs[j].run /\ t.jobs[j].deps = s.jobs[j].deps
             /\ t.jobs[j].role = s.jobs[j].role
  <2>1. s.jobs[j] \in JobRecords /\ t.jobs[j] = Begun(j)
    <3> HIDE DEF Begun, P
    <3> QED BY <1>1, <1>3, TypeParts
  <2>2. /\ Begun(j) = [s.jobs[j] EXCEPT !.status = "Running", !.attempt = Begun(j).attempt]
        /\ Begun(j).status = "Running"
        /\ Begun(j).run = s.jobs[j].run /\ Begun(j).deps = s.jobs[j].deps
        /\ Begun(j).role = s.jobs[j].role
    BY <2>1 DEF JobRecords
  <2> HIDE DEF Begun
  <2> QED BY <2>1, <2>2
<1>5. DOMAIN t.jobs = DOMAIN s.jobs /\ \A j \in DOMAIN s.jobs \ P : t.jobs[j] = s.jobs[j]
  <2> HIDE DEF Begun, P
  <2> QED BY <1>1
<1>6. DOMAIN t.runs = DOMAIN s.runs
      /\ \A r \in DOMAIN s.runs :
           t.runs[r] = s.runs[r] \/ (s.runs[r] = "Pending" /\ t.runs[r] = "Running")
  <2> HIDE DEF P
  <2> QED BY <1>1
<1> HIDE DEF P
<1> QED BY <1>1, <1>3, <1>4, <1>5, <1>6 DEF Begins, t, P

LEMMA DispatchBegins ==
  ASSUME NEW s, EngineOK(s), NEW m, NEW ev, Dispatch(s, m, ev)
  PROVE  Full(eng') /\ \E P : Begins(s, eng', P)
<1>1. PICK n \in 0..Len(s.queue) : PopsExactly(s, n) /\ eng' = StartPopped(s, n)
  BY DEF Dispatch
<1>2. Full(eng')
  BY <1>1, StartPoppedFull
<1>3. Begins(s, eng', Popped(s, n))
  BY <1>1, StartPoppedBegins DEF EngineOK
<1> QED BY <1>2, <1>3

-----------------------------------------------------------------------------
(* The store alone, which is in order whatever a cleanup leaves behind in  *)
(* the queue, the slots and the daemon's maps.                             *)

StoreOK(s) ==
  /\ HasFields(s)
  /\ s.nextJob \in Nat \ {0} /\ s.nextRun \in Nat \ {0}
  /\ s.jobs \in [DOMAIN s.jobs -> JobRecords]
  /\ DOMAIN s.jobs \subseteq 1..s.nextJob - 1
  /\ s.runs \in [DOMAIN s.runs -> RunStatus]
  /\ DOMAIN s.runs \subseteq 1..s.nextRun - 1
  /\ \A j \in DOMAIN s.jobs : s.jobs[j].run \in DOMAIN s.runs

LEMMA TypedStore ==
  ASSUME NEW s, EngineType(s)
  PROVE  StoreOK(s)
BY TypeParts DEF StoreOK, EngineType

LEMMA StoreParts ==
  ASSUME NEW s, StoreOK(s)
  PROVE  /\ HasFields(s)
         /\ s.nextJob \in Nat /\ s.nextJob # 0 /\ s.nextRun \in Nat /\ s.nextRun # 0
         /\ DOMAIN s.jobs \subseteq 1..s.nextJob - 1 /\ DOMAIN s.runs \subseteq 1..s.nextRun - 1
         /\ s.jobs = [j \in DOMAIN s.jobs |-> s.jobs[j]]
         /\ \A j \in DOMAIN s.jobs : s.jobs[j] \in JobRecords /\ s.jobs[j].run \in DOMAIN s.runs
         /\ \A r \in DOMAIN s.runs : s.runs[r] \in RunStatus
         /\ IsFiniteSet(DOMAIN s.jobs)
<1>1. /\ s.nextJob \in Nat /\ s.nextJob # 0 /\ s.nextRun \in Nat /\ s.nextRun # 0
      /\ DOMAIN s.jobs \subseteq 1..s.nextJob - 1 /\ DOMAIN s.runs \subseteq 1..s.nextRun - 1
      /\ s.jobs = [j \in DOMAIN s.jobs |-> s.jobs[j]]
      /\ \A j \in DOMAIN s.jobs : s.jobs[j] \in JobRecords /\ s.jobs[j].run \in DOMAIN s.runs
      /\ \A r \in DOMAIN s.runs : s.runs[r] \in RunStatus
  BY DEF StoreOK
<1>2. IsFiniteSet(DOMAIN s.jobs)
  <2> DEFINE last == s.nextJob - 1
  <2>1. last \in Int /\ 1 \in Int /\ DOMAIN s.jobs \subseteq 1..last
    BY <1>1
  <2> HIDE DEF last
  <2>2. IsFiniteSet(1..last)
    BY <2>1, FS_Interval, Zenon
  <2> QED BY <2>1, <2>2, FS_Subset
<1> QED BY <1>1, <1>2 DEF StoreOK

\* t follows s: no id is handed out twice, and no job changes its run, role or
\* dependencies.
Evolves(s, t) ==
  /\ t.nextJob >= s.nextJob /\ t.nextRun >= s.nextRun
  /\ \A j \in DOMAIN t.jobs :
       \/ j >= s.nextJob
       \/ /\ j \in DOMAIN s.jobs
          /\ t.jobs[j].run = s.jobs[j].run /\ t.jobs[j].role = s.jobs[j].role
          /\ t.jobs[j].deps = s.jobs[j].deps

\* What an engine operation does that takes no slot.
Amends(s, t) == StoreOK(t) /\ Evolves(s, t) /\ t.active \subseteq s.active

LEMMA AmendsNothing ==
  ASSUME NEW s, StoreOK(s)
  PROVE  Amends(s, s)
<1>0. s.nextJob \in Nat /\ s.nextRun \in Nat
  BY StoreParts
<1>1. s.nextJob >= s.nextJob /\ s.nextRun >= s.nextRun
  BY <1>0
<1> QED BY <1>1 DEF Amends, Evolves

LEMMA EvolvesTransitive ==
  ASSUME NEW s, NEW t, NEW u, StoreOK(s), StoreOK(t), StoreOK(u), Evolves(s, t), Evolves(t, u)
  PROVE  Evolves(s, u)
<1>1. /\ s.nextJob \in Nat /\ t.nextJob \in Nat /\ u.nextJob \in Nat
      /\ s.nextRun \in Nat /\ t.nextRun \in Nat /\ u.nextRun \in Nat
      /\ DOMAIN u.jobs \subseteq Int
  <2>1. /\ s.nextJob \in Nat /\ t.nextJob \in Nat /\ u.nextJob \in Nat
        /\ s.nextRun \in Nat /\ t.nextRun \in Nat /\ u.nextRun \in Nat
        /\ DOMAIN u.jobs \subseteq 1..u.nextJob - 1
    BY StoreParts
  <2> QED BY <2>1
<1>2. t.nextJob >= s.nextJob /\ t.nextRun >= s.nextRun /\ u.nextJob >= t.nextJob /\ u.nextRun >= t.nextRun
  BY DEF Evolves
<1>3. ASSUME NEW j \in DOMAIN u.jobs
      PROVE  \/ j >= s.nextJob
             \/ /\ j \in DOMAIN s.jobs
                /\ u.jobs[j].run = s.jobs[j].run /\ u.jobs[j].role = s.jobs[j].role
                /\ u.jobs[j].deps = s.jobs[j].deps
  <2>1. CASE j >= t.nextJob
    <3>1. j \in Int
      BY <1>1
    <3> QED BY <1>1, <1>2, <2>1, <3>1
  <2>2. CASE ~(j >= t.nextJob)
    BY <2>2 DEF Evolves
  <2> QED BY <2>1, <2>2
<1> QED BY <1>1, <1>2, <1>3 DEF Evolves

LEMMA AmendsTransitive ==
  ASSUME NEW s, NEW t, NEW u, StoreOK(s), Amends(s, t), Amends(t, u)
  PROVE  Amends(s, u)
BY EvolvesTransitive DEF Amends

\* Jobs of s changed in place.
LEMMA AmendedStore ==
  ASSUME NEW s, StoreOK(s), NEW t, HasFields(t),
         t.nextJob = s.nextJob, t.nextRun = s.nextRun,
         t.jobs = [j \in DOMAIN s.jobs |-> t.jobs[j]],
         \A j \in DOMAIN s.jobs : /\ t.jobs[j] \in JobRecords
                                  /\ t.jobs[j].run = s.jobs[j].run /\ t.jobs[j].role = s.jobs[j].role
                                  /\ t.jobs[j].deps = s.jobs[j].deps,
         t.runs \in [DOMAIN s.runs -> RunStatus]
  PROVE  StoreOK(t) /\ Evolves(s, t)
<1>1. DOMAIN t.jobs = DOMAIN s.jobs /\ DOMAIN t.runs = DOMAIN s.runs
      /\ t.jobs \in [DOMAIN s.jobs -> JobRecords]
  OBVIOUS
<1>2. StoreOK(t)
  BY <1>1 DEF StoreOK
<1>3. Evolves(s, t)
  <2>0. s.nextJob \in Nat /\ s.nextRun \in Nat
    BY StoreParts
  <2>1. t.nextJob >= s.nextJob /\ t.nextRun >= s.nextRun
    BY <2>0
  <2> QED BY <1>1, <2>1 DEF Evolves
<1> QED BY <1>2, <1>3

\* Jobs with a new status.
LEMMA RestatusedStore ==
  ASSUME NEW s, StoreOK(s), NEW t, HasFields(t), t.nextJob = s.nextJob, t.nextRun = s.nextRun,
         NEW J, NEW status \in JobStatus, t.jobs = SetStatus(s.jobs, J, status),
         t.runs = s.runs, t.active \subseteq s.active
  PROVE  Amends(s, t)
<1>1. ASSUME NEW j \in DOMAIN s.jobs
      PROVE  /\ t.jobs[j] \in JobRecords
             /\ t.jobs[j].run = s.jobs[j].run /\ t.jobs[j].role = s.jobs[j].role
             /\ t.jobs[j].deps = s.jobs[j].deps
  <2>1. s.jobs[j] \in JobRecords
    BY StoreParts
  <2>2. t.jobs[j] = IF j \in J THEN [s.jobs[j] EXCEPT !.status = status] ELSE s.jobs[j]
    BY DEF SetStatus
  <2> QED BY <2>1, <2>2, JobUpdate
<1>2. t.jobs = [j \in DOMAIN s.jobs |-> t.jobs[j]]
  BY DEF SetStatus
<1>3. t.runs \in [DOMAIN s.runs -> RunStatus]
  BY DEF StoreOK
<1> QED BY <1>1, <1>2, <1>3, AmendedStore DEF Amends

LEMMA CheckRunAmends ==
  ASSUME NEW s, StoreOK(s), NEW r
  PROVE  Amends(s, CheckRunCompletion(s, r))
<1> DEFINE t == CheckRunCompletion(s, r)
<1>1. CASE t = s
  BY <1>1, AmendsNothing
<1>2. CASE t # s
  <2> DEFINE verdict == IF \E j \in JobsOf(s, r) : s.jobs[j].status = "Failed"
                        THEN "Failed" ELSE "Completed"
  <2>1. t = [s EXCEPT !.runs[r] = verdict]
    BY <1>2 DEF CheckRunCompletion
  <2>2. verdict \in RunStatus
    BY DEF RunStatus
  <2> HIDE DEF verdict, t
  <2>3. /\ HasFields(t) /\ t.jobs = s.jobs /\ t.active = s.active
        /\ t.nextJob = s.nextJob /\ t.nextRun = s.nextRun
        /\ t.runs = [s.runs EXCEPT ![r] = verdict]
    BY <2>1, StoreParts DEF HasFields
  <2>4. t.runs \in [DOMAIN s.runs -> RunStatus]
    BY <2>2, <2>3 DEF StoreOK
  <2>5. \A j \in DOMAIN s.jobs : s.jobs[j] \in JobRecords
    BY StoreParts
  <2>6. t.jobs = [j \in DOMAIN s.jobs |-> t.jobs[j]]
    BY <2>3, StoreParts
  <2> QED BY <2>3, <2>4, <2>5, <2>6, AmendedStore DEF Amends, t
<1> QED BY <1>1, <1>2

LEMMA MarkFailedAmends ==
  ASSUME NEW s, StoreOK(s), NEW j
  PROVE  Amends(s, MarkFailed(s, j))
<1> DEFINE retry == j \in DOMAIN s.jobs /\ s.jobs[j].attempt < MaxAttempts
           status == IF retry THEN "Ready" ELSE "Failed"
           failed == [s EXCEPT !.jobs = SetStatus(@, {j}, status),
                               !.queue = IF retry THEN Append(@, j) ELSE @,
                               !.active = @ \ {j}]
<1>1. HasFields(s) /\ status \in JobStatus
  BY StoreParts DEF JobStatus
<1>2. MarkFailed(s, j) = IF j \in s.active \cap DOMAIN s.jobs
                         THEN CheckRunCompletion(failed, s.jobs[j].run) ELSE failed
  BY DEF MarkFailed
<1> HIDE DEF retry
<1>3. /\ HasFields(failed) /\ failed.jobs = SetStatus(s.jobs, {j}, status)
      /\ failed.runs = s.runs /\ failed.active = s.active \ {j}
      /\ failed.nextJob = s.nextJob /\ failed.nextRun = s.nextRun
  BY <1>1 DEF HasFields
<1> HIDE DEF failed, status
<1>4. Amends(s, failed)
  BY <1>1, <1>3, RestatusedStore
<1>5. Amends(failed, CheckRunCompletion(failed, s.jobs[j].run))
  BY <1>4, CheckRunAmends DEF Amends
<1> QED BY <1>2, <1>4, <1>5, AmendsTransitive

LEMMA MarkCompletedAmends ==
  ASSUME NEW s, StoreOK(s), NEW j, NEW order
  PROVE  Amends(s, MarkCompleted(s, j, order))
<1> DEFINE done == Completed(s, j)
           more == PromoteUnblocked(done, order)
<1>0. "Completed" \in JobStatus /\ "Ready" \in JobStatus
  BY DEF JobStatus
<1>1. /\ HasFields(done) /\ done.jobs = SetStatus(s.jobs, {j}, "Completed")
      /\ done.runs = s.runs /\ done.active = s.active \ {j}
      /\ done.nextJob = s.nextJob /\ done.nextRun = s.nextRun
  <2>1. HasFields(s)
    BY StoreParts
  <2> QED BY <2>1 DEF HasFields, Completed
<1>2. MarkCompleted(s, j, order) = IF j \in s.active \cap DOMAIN s.jobs
                                   THEN CheckRunCompletion(more, s.jobs[j].run) ELSE done
  BY DEF MarkCompleted
<1> HIDE DEF done
<1>3. Amends(s, done)
  BY <1>0, <1>1, RestatusedStore
<1>4. /\ HasFields(more) /\ more.jobs = SetStatus(done.jobs, Entries(order), "Ready")
      /\ more.runs = done.runs /\ more.active = done.active
      /\ more.nextJob = done.nextJob /\ more.nextRun = done.nextRun
  BY <1>1 DEF HasFields, PromoteUnblocked
<1> HIDE DEF more
<1>5. Amends(done, more)
  BY <1>0, <1>3, <1>4, RestatusedStore DEF Amends
<1>6. Amends(s, more)
  BY <1>3, <1>5, AmendsTransitive
<1>7. Amends(more, CheckRunCompletion(more, s.jobs[j].run))
  BY <1>6, CheckRunAmends DEF Amends
<1> QED BY <1>2, <1>3, <1>6, <1>7, AmendsTransitive

\* s with no queue and only the slots of jobs it holds.
Trim(s) == [s EXCEPT !.queue = <<>>, !.active = @ \cap DOMAIN s.jobs]

LEMMA TrimOK ==
  ASSUME NEW s, StoreOK(s)
  PROVE  /\ EngineType(Trim(s))
         /\ Trim(s).jobs = s.jobs /\ Trim(s).runs = s.runs
         /\ Trim(s).nextJob = s.nextJob /\ Trim(s).nextRun = s.nextRun
<1> DEFINE t == Trim(s)
<1>0. HasFields(s)
  BY StoreParts
<1>1. /\ HasFields(t) /\ t.jobs = s.jobs /\ t.runs = s.runs
      /\ t.nextJob = s.nextJob /\ t.nextRun = s.nextRun
      /\ t.queue = <<>> /\ t.active = s.active \cap DOMAIN s.jobs
  BY <1>0 DEF Trim, HasFields
<1> HIDE DEF t
<1>2. t.queue \in Seq(DOMAIN t.jobs) /\ t.active \in SUBSET DOMAIN t.jobs
  BY <1>1
<1>3. EngineType(t)
  BY <1>1, <1>2 DEF EngineType, StoreOK, HasFields
<1> QED BY <1>1, <1>3 DEF t

\* Operations that add jobs depend on the store only.
LEMMA GrownStore ==
  ASSUME NEW s, StoreOK(s), NEW u, NEW run, NEW recs, Grows(Trim(s), u, run, recs),
         NEW t, HasFields(t), t.jobs = u.jobs, t.runs = u.runs,
         t.nextJob = u.nextJob, t.nextRun = u.nextRun, t.active = s.active
  PROVE  Amends(s, t)
<1>1. /\ EngineType(Trim(s)) /\ Trim(s).jobs = s.jobs
      /\ Trim(s).nextJob = s.nextJob /\ Trim(s).nextRun = s.nextRun
  BY TrimOK
<1> DEFINE v == Trim(s)
<1> HIDE DEF v
<1>2. /\ EngineType(u)
      /\ \A j \in DOMAIN v.jobs : j \in DOMAIN u.jobs /\ u.jobs[j] = v.jobs[j]
      /\ \A j \in DOMAIN u.jobs \ DOMAIN v.jobs : \E i \in 1..Len(recs) : j = v.nextJob + i - 1
  BY <1>1, GrowsType DEF v
<1>3. StoreOK(u)
  BY <1>2, TypedStore
<1>4. StoreOK(t)
  BY <1>3 DEF StoreOK
<1>5. u.nextJob = v.nextJob + Len(recs) /\ u.nextRun >= v.nextRun /\ Len(recs) \in Nat
  BY LenProperties DEF Grows, v
<1>6. s.nextJob \in Nat
  BY StoreParts
<1>7. t.nextJob >= s.nextJob /\ t.nextRun >= s.nextRun
  BY <1>1, <1>5, <1>6 DEF v
<1>8. ASSUME NEW j \in DOMAIN t.jobs
      PROVE  \/ j >= s.nextJob
             \/ /\ j \in DOMAIN s.jobs
                /\ t.jobs[j].run = s.jobs[j].run /\ t.jobs[j].role = s.jobs[j].role
                /\ t.jobs[j].deps = s.jobs[j].deps
  <2>1. CASE j \in DOMAIN s.jobs
    BY <1>1, <1>2, <2>1 DEF v
  <2>2. CASE j \notin DOMAIN s.jobs
    <3>1. PICK i \in 1..Len(recs) : j = s.nextJob + i - 1
      BY <1>1, <1>2, <2>2 DEF v
    <3> QED BY <1>6, <3>1
  <2> QED BY <2>1, <2>2
<1>9. Evolves(s, t)
  BY <1>7, <1>8 DEF Evolves
<1> QED BY <1>4, <1>9 DEF Amends

LEMMA SubmitAmends ==
  ASSUME NEW s, StoreOK(s)
  PROVE  Amends(s, Submit(s))
<1> DEFINE v == Trim(s)
           u == Submit(v)
           t == Submit(s)
<1>1. /\ EngineType(v) /\ v.jobs = s.jobs /\ v.runs = s.runs
      /\ v.nextJob = s.nextJob /\ v.nextRun = s.nextRun /\ HasFields(v) /\ HasFields(s)
  BY TrimOK, StoreParts, TypeParts
<1>2. PICK recs : Grows(v, u, v.nextRun, recs)
  BY <1>1, SubmitGrows
<1> HIDE DEF v
<1>3. /\ HasFields(t) /\ t.jobs = u.jobs /\ t.runs = u.runs
      /\ t.nextJob = u.nextJob /\ t.nextRun = u.nextRun /\ t.active = s.active
  BY <1>1 DEF Submit, AddJobs, HasFields
<1> HIDE DEF u, t
<1> QED BY <1>2, <1>3, GrownStore DEF v, t

LEMMA ReviseAmends ==
  ASSUME NEW s, StoreOK(s), NEW j \in DOMAIN s.jobs, CanRevise(s, j)
  PROVE  Amends(s, Revise(s, j))
<1> DEFINE v == Trim(s)
           u == Revise(v, j)
           t == Revise(s, j)
<1>1. /\ EngineType(v) /\ v.jobs = s.jobs /\ v.runs = s.runs
      /\ v.nextJob = s.nextJob /\ v.nextRun = s.nextRun /\ HasFields(v) /\ HasFields(s)
  BY TrimOK, StoreParts, TypeParts
<1> HIDE DEF v
<1>2. CanRevise(v, j) /\ j \in DOMAIN v.jobs
  BY <1>1 DEF CanRevise
<1>3. PICK recs : Grows(v, u, v.jobs[j].run, recs)
  BY <1>1, <1>2, ReviseGrows
<1>4. /\ HasFields(t) /\ t.jobs = u.jobs /\ t.runs = u.runs
      /\ t.nextJob = u.nextJob /\ t.nextRun = u.nextRun /\ t.active = s.active
  BY <1>1 DEF Revise, AddJobs, HasFields
<1> HIDE DEF u, t
<1> QED BY <1>3, <1>4, GrownStore DEF v, t

LEMMA MaterializePlanAmends ==
  ASSUME NEW s, StoreOK(s), NEW run \in DOMAIN s.runs, NEW plan \in Plans,
         NEW roots \in Listings(PlanRoots(s, plan))
  PROVE  Amends(s, MaterializePlan(s, run, plan, roots))
<1> DEFINE v == Trim(s)
           u == MaterializePlan(v, run, plan, roots)
           t == MaterializePlan(s, run, plan, roots)
<1>1. /\ EngineType(v) /\ v.jobs = s.jobs /\ v.runs = s.runs
      /\ v.nextJob = s.nextJob /\ v.nextRun = s.nextRun /\ HasFields(v) /\ HasFields(s)
  BY TrimOK, StoreParts, TypeParts
<1> HIDE DEF v
<1>2. roots \in Listings(PlanRoots(v, plan)) /\ run \in DOMAIN v.runs
  BY <1>1 DEF PlanRoots
<1>3. PICK recs : Grows(v, u, run, recs)
  BY <1>1, <1>2, PlansAreValid, MaterializePlanGrows
<1>4. PlannedJobs(v, run, plan) = PlannedJobs(s, run, plan)
  BY <1>1 DEF PlannedJobs
<1> DEFINE planned == PlannedJobs(s, run, plan)
<1> HIDE DEF planned
<1>5. /\ t = [AddJobs(s, planned) EXCEPT !.queue = @ \o roots]
      /\ u = [AddJobs(v, planned) EXCEPT !.queue = @ \o roots]
  BY <1>4 DEF MaterializePlan, planned
<1> HIDE DEF u, t
<1>6. /\ HasFields(t) /\ t.jobs = u.jobs /\ t.runs = u.runs
      /\ t.nextJob = u.nextJob /\ t.nextRun = u.nextRun /\ t.active = s.active
  BY <1>1, <1>5 DEF AddJobs, HasFields
<1> QED BY <1>3, <1>6, GrownStore DEF v, t

\* A completed job that was removed leads to nothing.
LEMMA AfterCompletionAmends ==
  ASSUME NEW s, StoreOK(s), NEW j, NEW next \in AfterCompletion(s, j)
  PROVE  Amends(s, next)
<1>1. CASE next = s
  BY <1>1, AmendsNothing
<1>2. CASE next = MarkFailed(s, j)
  BY <1>2, MarkFailedAmends
<1>3. CASE j \notin DOMAIN s.jobs
  BY <1>1, <1>3 DEF AfterCompletion
<1>4. CASE j \in DOMAIN s.jobs
  <2>1. next = s \/ next \in Planned(s, j) \/ next \in Reviewed(s, j)
    BY <1>4 DEF AfterCompletion
  <2>2. CASE next \in Planned(s, j)
    <3>1. next = s \/ next = MarkFailed(s, j) \/ \E plan \in Plans : next \in Expanded(s, j, plan)
      BY <2>2 DEF Planned
    <3>2. ASSUME NEW plan \in Plans, next \in Expanded(s, j, plan) PROVE Amends(s, next)
      <4>1. PICK roots \in Listings(PlanRoots(s, plan)) :
              next = MaterializePlan(s, s.jobs[j].run, plan, roots)
        BY <3>2 DEF Expanded
      <4>2. s.jobs[j].run \in DOMAIN s.runs
        BY <1>4, StoreParts
      <4> QED BY <4>1, <4>2, MaterializePlanAmends
    <3> QED BY <1>1, <1>2, <3>1, <3>2
  <2>3. CASE next \in Reviewed(s, j)
    BY <1>1, <1>4, <2>3, ReviseAmends DEF Reviewed
  <2> QED BY <1>1, <2>1, <2>2, <2>3
<1> QED BY <1>3, <1>4

LEMMA CancelAmends ==
  ASSUME NEW s, StoreOK(s), NEW r, NEW kept
  PROVE  Amends(s, Cancel(s, r, kept))
<1> DEFINE t == Cancel(s, r, kept)
           cancelled == CancelledJobs(s, r)
           Status(j) == IF s.jobs[j].attempt < MaxAttempts THEN "Ready" ELSE "Failed"
<1>0. HasFields(s)
  BY StoreParts
<1>1. /\ HasFields(t)
      /\ t.jobs = [j \in DOMAIN s.jobs |->
                     IF j \in cancelled THEN [s.jobs[j] EXCEPT !.status = Status(j)] ELSE s.jobs[j]]
      /\ t.runs = [s.runs EXCEPT ![r] = "Cancelled"]
      /\ t.active = s.active \ cancelled
      /\ t.nextJob = s.nextJob /\ t.nextRun = s.nextRun
  BY <1>0 DEF Cancel, HasFields
<1> HIDE DEF t, cancelled
<1>2. ASSUME NEW j \in DOMAIN s.jobs
      PROVE  /\ t.jobs[j] \in JobRecords
             /\ t.jobs[j].run = s.jobs[j].run /\ t.jobs[j].role = s.jobs[j].role
             /\ t.jobs[j].deps = s.jobs[j].deps
  <2>1. s.jobs[j] \in JobRecords /\ Status(j) \in JobStatus
    BY StoreParts DEF JobStatus
  <2> HIDE DEF Status
  <2>2. t.jobs[j] = IF j \in cancelled THEN [s.jobs[j] EXCEPT !.status = Status(j)] ELSE s.jobs[j]
    BY <1>1
  <2> QED BY <2>1, <2>2, JobUpdate
<1>3. t.jobs = [j \in DOMAIN s.jobs |-> t.jobs[j]]
  <2> HIDE DEF Status
  <2> QED BY <1>1
<1>4. t.runs \in [DOMAIN s.runs -> RunStatus]
  BY <1>1 DEF StoreOK, RunStatus
<1> QED BY <1>1, <1>2, <1>3, <1>4, AmendedStore DEF Amends, t

LEMMA ForgetAmends ==
  ASSUME NEW s, StoreOK(s), NEW r
  PROVE  LET t == Forget(s, r) IN
         /\ Amends(s, t) /\ t.queue = s.queue /\ t.active = s.active
         /\ DOMAIN t.jobs = DOMAIN s.jobs \ JobsOf(s, r)
         /\ DOMAIN t.runs = DOMAIN s.runs \ {r}
<1> DEFINE t == Forget(s, r)
           ids == DOMAIN s.jobs \ JobsOf(s, r)
<1>0. HasFields(s)
  BY StoreParts
<1>1. /\ HasFields(t)
      /\ t.jobs = [j \in ids |-> s.jobs[j]]
      /\ t.runs = [q \in DOMAIN s.runs \ {r} |-> s.runs[q]]
      /\ t.queue = s.queue /\ t.active = s.active
      /\ t.nextJob = s.nextJob /\ t.nextRun = s.nextRun
  BY <1>0 DEF Forget, HasFields
<1> HIDE DEF t
<1>2. /\ \A j \in ids : j \in DOMAIN s.jobs /\ s.jobs[j].run \in DOMAIN s.runs \ {r}
      /\ \A j \in ids : s.jobs[j] \in JobRecords
  BY StoreParts DEF JobsOf
<1>3. ids \subseteq DOMAIN s.jobs
  OBVIOUS
<1> HIDE DEF ids
<1>4. DOMAIN t.jobs = ids /\ \A j \in ids : t.jobs[j] = s.jobs[j]
  BY <1>1
<1>5. DOMAIN t.runs = DOMAIN s.runs \ {r} /\ \A q \in DOMAIN t.runs : t.runs[q] \in RunStatus
  BY <1>1, StoreParts
<1>6. StoreOK(t)
  <2>1. t.jobs \in [DOMAIN t.jobs -> JobRecords]
    BY <1>1, <1>2, <1>4
  <2>2. t.runs \in [DOMAIN t.runs -> RunStatus]
    BY <1>1, <1>5
  <2>3. \A j \in DOMAIN t.jobs : t.jobs[j].run \in DOMAIN t.runs
    BY <1>2, <1>4, <1>5
  <2>4. /\ t.nextJob \in Nat \ {0} /\ t.nextRun \in Nat \ {0}
        /\ DOMAIN t.jobs \subseteq 1..t.nextJob - 1 /\ DOMAIN t.runs \subseteq 1..t.nextRun - 1
    BY <1>1, <1>3, <1>4, <1>5, StoreParts
  <2> QED BY <1>1, <2>1, <2>2, <2>3, <2>4 DEF StoreOK
<1>7. Evolves(s, t)
  <2>0. s.nextJob \in Nat /\ s.nextRun \in Nat
    BY StoreParts
  <2>1. t.nextJob >= s.nextJob /\ t.nextRun >= s.nextRun
    BY <1>1, <2>0
  <2> QED BY <1>3, <1>4, <2>1 DEF Evolves
<1> QED BY <1>1, <1>4, <1>5, <1>6, <1>7 DEF Amends, t, ids

\* The slots, whoever holds them.
SlotsOK(s) == IsFiniteSet(s.active) /\ Cardinality(s.active) <= MaxConcurrency

LEMMA FewerSlotsOK ==
  ASSUME NEW s, NEW t, SlotsOK(s), t.active \subseteq s.active
  PROVE  SlotsOK(t)
<1> DEFINE c == Cardinality(s.active)
           d == Cardinality(t.active)
<1>1. c \in Nat /\ c <= MaxConcurrency
  BY FS_CardinalityType DEF SlotsOK
<1>2. IsFiniteSet(t.active) /\ d <= c
  BY FS_Subset DEF SlotsOK
<1>3. d \in Nat
  BY <1>2, FS_CardinalityType
<1> HIDE DEF c, d
<1>4. d <= MaxConcurrency
  BY <1>1, <1>2, <1>3, EngineAssumption
<1> QED BY <1>2, <1>4 DEF SlotsOK, d

LEMMA PopsKeepSlots ==
  ASSUME NEW s, StoreOK(s), SlotsOK(s), NEW n \in 0..Len(s.queue), PopsExactly(s, n)
  PROVE  LET A == s.active \cup Popped(s, n) IN
         IsFiniteSet(A) /\ Cardinality(A) <= MaxConcurrency
<1>1. \A k : IsFiniteSet(s.active \cup Popped(s, k))
  <2> SUFFICES ASSUME NEW k PROVE IsFiniteSet(s.active \cup Popped(s, k))
    OBVIOUS
  <2>1. Popped(s, k) \subseteq DOMAIN s.jobs /\ IsFiniteSet(DOMAIN s.jobs)
    BY StoreParts DEF Popped
  <2>2. IsFiniteSet(Popped(s, k))
    BY <2>1, FS_Subset
  <2> QED BY <2>2, FS_Union DEF SlotsOK
<1>2. CASE n = 0
  <2>1. s.active \cup Popped(s, n) = s.active
    BY <1>2 DEF Popped
  <2> QED BY <2>1 DEF SlotsOK
<1>3. CASE n # 0
  <2> DEFINE before == s.active \cup Popped(s, n - 1)
             after == s.active \cup Popped(s, n)
             last == s.queue[n]
             c == Cardinality(before)
             d == Cardinality(before \cup {last})
             a == Cardinality(after)
  <2>1. n - 1 \in 0..n - 1 /\ n \in Int
    BY <1>3
  <2>2. c < MaxConcurrency
    BY <2>1 DEF PopsExactly
  <2>3. after \subseteq before \cup {last}
    <3>1. \A i \in 1..n : i \in 1..n - 1 \/ i = n
      BY <2>1
    <3> QED BY <3>1 DEF Popped
  <2>4. IsFiniteSet(before) /\ IsFiniteSet(after)
    BY <1>1
  <2> HIDE DEF before, after, last
  <2>5. c \in Nat /\ a \in Nat
    BY <2>4, FS_CardinalityType
  <2>6. d = c \/ d = c + 1
    BY <2>4, FS_AddElement
  <2>7. IsFiniteSet(before \cup {last})
    BY <2>4, FS_AddElement
  <2>8. a <= d
    BY <2>3, <2>7, FS_Subset
  <2> HIDE DEF c, d, a
  <2>9. a <= MaxConcurrency
    BY <2>2, <2>5, <2>6, <2>8, EngineAssumption
  <2> QED BY <2>4, <2>9 DEF a, after
<1> QED BY <1>2, <1>3

LEMMA StartPoppedStore ==
  ASSUME NEW s, StoreOK(s), NEW n \in Int
  PROVE  LET t == StartPopped(s, n) IN
         StoreOK(t) /\ Evolves(s, t) /\ t.active = s.active \cup Popped(s, n)
<1> DEFINE t == StartPopped(s, n)
           P == Popped(s, n)
           Begun(j) == [s.jobs[j] EXCEPT !.status = "Running",
                                         !.attempt = @ + TimesPopped(s, n, j)]
<1>0. HasFields(s)
  BY StoreParts
<1>1. /\ HasFields(t)
      /\ t.jobs = [j \in DOMAIN s.jobs |-> IF j \in P THEN Begun(j) ELSE s.jobs[j]]
      /\ t.runs = [r \in DOMAIN s.runs |->
                     IF s.runs[r] = "Pending" /\ \E j \in P : s.jobs[j].run = r
                     THEN "Running" ELSE s.runs[r]]
      /\ t.active = s.active \cup P
      /\ t.nextJob = s.nextJob /\ t.nextRun = s.nextRun
  BY <1>0 DEF StartPopped, HasFields
<1> HIDE DEF t
<1>2. ASSUME NEW j \in DOMAIN s.jobs
      PROVE  /\ t.jobs[j] \in JobRecords
             /\ t.jobs[j].run = s.jobs[j].run /\ t.jobs[j].role = s.jobs[j].role
             /\ t.jobs[j].deps = s.jobs[j].deps
  <2>0. s.jobs[j] \in JobRecords
    BY StoreParts
  <2>1. s.jobs[j].attempt + TimesPopped(s, n, j) \in Nat
    <3>1. IsFiniteSet(1..n)
      BY FS_Interval
    <3>2. IsFiniteSet({i \in 1..n : s.queue[i] = j})
      BY <3>1, FS_Subset
    <3>3. TimesPopped(s, n, j) \in Nat
      BY <3>2, FS_CardinalityType DEF TimesPopped
    <3>4. s.jobs[j].attempt \in Nat
      BY <2>0 DEF JobRecords
    <3> QED BY <3>3, <3>4
  <2>2. /\ Begun(j) \in JobRecords
        /\ Begun(j).run = s.jobs[j].run /\ Begun(j).role = s.jobs[j].role
        /\ Begun(j).deps = s.jobs[j].deps
    BY <2>0, <2>1 DEF JobRecords, JobStatus
  <2> HIDE DEF Begun, P
  <2>3. t.jobs[j] = IF j \in P THEN Begun(j) ELSE s.jobs[j]
    BY <1>1
  <2> QED BY <2>0, <2>2, <2>3
<1>3. t.jobs = [j \in DOMAIN s.jobs |-> t.jobs[j]]
  <2> HIDE DEF Begun, P
  <2> QED BY <1>1
<1>4. t.runs \in [DOMAIN s.runs -> RunStatus]
  <2> HIDE DEF P
  <2> QED BY <1>1, StoreParts DEF RunStatus
<1> QED BY <1>1, <1>2, <1>3, <1>4, AmendedStore DEF t, P

\* The engine in the state a cleanup may leave.
LooseOK(s) == StoreOK(s) /\ SlotsOK(s)

LEMMA DispatchLoose ==
  ASSUME NEW s, NEW t, LooseOK(s), Amends(s, t), NEW m, NEW ev, Dispatch(t, m, ev)
  PROVE  LooseOK(eng') /\ Evolves(s, eng')
<1>1. PICK n \in 0..Len(t.queue) : PopsExactly(t, n) /\ eng' = StartPopped(t, n)
  BY DEF Dispatch
<1>2. StoreOK(t) /\ SlotsOK(t) /\ Evolves(s, t)
  BY FewerSlotsOK DEF LooseOK, Amends
<1>3. StoreOK(eng') /\ Evolves(t, eng') /\ eng'.active = t.active \cup Popped(t, n)
  BY <1>1, <1>2, StartPoppedStore
<1>4. SlotsOK(eng')
  BY <1>1, <1>2, <1>3, PopsKeepSlots DEF SlotsOK
<1> QED BY <1>2, <1>3, <1>4, EvolvesTransitive DEF LooseOK

LEMMA AmendsLoose ==
  ASSUME NEW s, NEW t, LooseOK(s), Amends(s, t)
  PROVE  LooseOK(t) /\ Evolves(s, t)
BY FewerSlotsOK DEF LooseOK, Amends

\* Whatever a handler does it does to a store in order.
LEMMA HandlerLoose ==
  ASSUME LooseOK(eng),
         \/ HandleCommand
         \/ \E e \in events : HandleReport(e)
         \/ \E j \in stale : ExpireAndSave(j)
         \/ \E r \in RunIds : ExpireRun(r)
  PROVE  LooseOK(eng') /\ Evolves(eng, eng')
<1>0. StoreOK(eng)
  BY DEF LooseOK
<1>1. CASE SubmitRun
  <2>1. Amends(eng, Submit(eng))
    BY <1>0, SubmitAmends
  <2> QED BY <1>1, <2>1, DispatchLoose DEF SubmitRun
<1>2. ASSUME NEW r, CancelRun(r) PROVE LooseOK(eng') /\ Evolves(eng, eng')
  <2>1. PICK kept \in Listings(KeptEntries(eng, r)) : eng' = Cancel(eng, r, kept)
    BY <1>2 DEF CancelRun
  <2> QED BY <1>0, <2>1, CancelAmends, AmendsLoose
<1>3. ASSUME NEW e, HandleCompleted(e) PROVE LooseOK(eng') /\ Evolves(eng, eng')
  <2>1. PICK order \in Orderings(PromotedBy(eng, e.job)) :
          \E next \in AfterCompletion(MarkCompleted(eng, e.job, order), e.job) :
            Dispatch(next, managed \ {e.job}, events \ {e})
    BY <1>3 DEF HandleCompleted
  <2>2. PICK next \in AfterCompletion(MarkCompleted(eng, e.job, order), e.job) :
          Dispatch(next, managed \ {e.job}, events \ {e})
    BY <2>1
  <2> DEFINE t == MarkCompleted(eng, e.job, order)
  <2>3. Amends(eng, t)
    BY <1>0, MarkCompletedAmends
  <2>4. Amends(t, next)
    BY <2>2, <2>3, AfterCompletionAmends DEF Amends
  <2> HIDE DEF t
  <2>5. Amends(eng, next)
    BY <1>0, <2>3, <2>4, AmendsTransitive
  <2> QED BY <2>2, <2>5, DispatchLoose
<1>4. ASSUME NEW j, NEW m, NEW ev, Dispatch(MarkFailed(eng, j), m, ev)
      PROVE  LooseOK(eng') /\ Evolves(eng, eng')
  <2>1. Amends(eng, MarkFailed(eng, j))
    BY <1>0, MarkFailedAmends
  <2> QED BY <1>4, <2>1, DispatchLoose
<1>5. ASSUME NEW r, ExpireRun(r) PROVE LooseOK(eng') /\ Evolves(eng, eng')
  <2>1. eng' = Forget(eng, r)
    BY <1>5 DEF ExpireRun
  <2> QED BY <1>0, <2>1, ForgetAmends, AmendsLoose
<1>6. CASE HandleCommand
  BY <1>1, <1>2, <1>6 DEF HandleCommand
<1>7. CASE \E e \in events : HandleReport(e)
  <2>1. PICK e \in events : HandleCompleted(e) \/ HandleFailed(e)
    BY <1>7 DEF HandleReport
  <2>2. CASE HandleFailed(e)
    BY <1>4, <2>2 DEF HandleFailed
  <2> QED BY <1>3, <2>1, <2>2
<1>8. CASE \E j \in stale : ExpireAndSave(j)
  BY <1>4, <1>8 DEF ExpireAndSave, ExpireJob
<1> QED BY <1>5, <1>6, <1>7, <1>8

-----------------------------------------------------------------------------
(* The tables, and the engine a start of the daemon builds from them.      *)

\* The tables are those of an earlier or this state of engine s, or of a part of
\* it: their ids were handed out, no row's run is missing, and a job that both
\* know has the same run, role and dependencies.
DbOK(d, s) ==
  /\ d \in [artifacts : {d.artifacts}, jobs : {d.jobs}, runs : {d.runs}]
  /\ d.jobs \in [DOMAIN d.jobs -> JobRecords]
  /\ d.runs \in [DOMAIN d.runs -> RunStatus]
  /\ DOMAIN d.jobs \subseteq 1..s.nextJob - 1
  /\ DOMAIN d.runs \subseteq 1..s.nextRun - 1
  /\ \A j \in DOMAIN d.jobs : d.jobs[j].run \in DOMAIN d.runs
  /\ \A j \in DOMAIN d.jobs \cap DOMAIN s.jobs :
       /\ d.jobs[j].run = s.jobs[j].run /\ d.jobs[j].role = s.jobs[j].role
       /\ d.jobs[j].deps = s.jobs[j].deps

\* The tables stay well-formed for what a handler makes of the engine.
LEMMA EvolvesKeepsDb ==
  ASSUME NEW d, NEW s, NEW t, StoreOK(s), StoreOK(t), DbOK(d, s), Evolves(s, t)
  PROVE  DbOK(d, t)
<1>1. s.nextJob \in Nat /\ t.nextJob \in Nat /\ s.nextRun \in Nat /\ t.nextRun \in Nat
  BY StoreParts
<1>2. t.nextJob >= s.nextJob /\ t.nextRun >= s.nextRun
  BY DEF Evolves
<1>3. DOMAIN d.jobs \subseteq 1..s.nextJob - 1 /\ DOMAIN d.runs \subseteq 1..s.nextRun - 1
  BY DEF DbOK
<1>4. DOMAIN d.jobs \subseteq 1..t.nextJob - 1 /\ DOMAIN d.runs \subseteq 1..t.nextRun - 1
  BY <1>1, <1>2, <1>3
<1>5. ASSUME NEW j \in DOMAIN d.jobs \cap DOMAIN t.jobs
      PROVE  /\ d.jobs[j].run = t.jobs[j].run /\ d.jobs[j].role = t.jobs[j].role
             /\ d.jobs[j].deps = t.jobs[j].deps
  <2>1. ~(j >= s.nextJob)
    BY <1>1, <1>3
  <2> QED BY <2>1 DEF Evolves, DbOK
<1> QED BY <1>4, <1>5 DEF DbOK

\* A handler that starts nothing.
LEMMA BeginsNothing ==
  ASSUME NEW s
  PROVE  Begins(s, s, {})
BY DEF Begins

LEMMA RevivedOK ==
  ASSUME NEW job \in JobRecords
  PROVE  /\ Revived(job) \in JobRecords
         /\ Revived(job).run = job.run /\ Revived(job).role = job.role
         /\ Revived(job).deps = job.deps
         /\ Revived(job).status # "Running"
         /\ job.status # "Running" => Revived(job) = job
         /\ job.status = "Running" => Revived(job).status \in {"Ready", "Failed"}
<1>1. CASE job.status = "Running"
  <2> DEFINE status == IF job.attempt < MaxAttempts THEN "Ready" ELSE "Failed"
  <2>1. status \in {"Ready", "Failed"} /\ status \in JobStatus
    BY DEF JobStatus
  <2>2. Revived(job) = [job EXCEPT !.status = status]
    BY <1>1 DEF Revived
  <2> HIDE DEF status
  <2> DEFINE new == [job EXCEPT !.status = status]
  <2>3. new \in JobRecords /\ new.run = job.run /\ new.role = job.role /\ new.deps = job.deps
        /\ new.status = status
    BY <2>1, JobUpdate
  <2> HIDE DEF new
  <2> QED BY <1>1, <2>1, <2>2, <2>3 DEF new
<1>2. CASE job.status # "Running"
  BY <1>2 DEF Revived
<1> QED BY <1>1, <1>2

\* What the daemon holds after a start from the tables d.
Restored(d, s, t) ==
  /\ EngineOK(t) /\ QueueOK(t)
  /\ DOMAIN t.jobs = DOMAIN d.jobs
  /\ \A j \in DOMAIN d.jobs : d.jobs[j] \in JobRecords /\ t.jobs[j] = Revived(d.jobs[j])
  /\ t.runs = d.runs
  /\ t.active = {}
  /\ t.nextJob = s.nextJob /\ t.nextRun = s.nextRun

LEMMA HydratedOK ==
  ASSUME StoreOK(eng), NEW d, DbOK(d, eng), NEW t \in Hydrated(d)
  PROVE  Restored(d, eng, t)
<1>1. PICK order \in Orderings(Requeued(d)) :
        t = [eng EXCEPT !.jobs = RevivedJobs(d), !.runs = LoadedRuns(d),
                        !.queue = order, !.active = {}]
  BY DEF Hydrated
<1>2. /\ HasFields(eng) /\ eng.nextJob \in Nat /\ eng.nextJob # 0
      /\ eng.nextRun \in Nat /\ eng.nextRun # 0
  BY StoreParts
<1>3. /\ HasFields(t)
      /\ t.jobs = RevivedJobs(d) /\ t.runs = LoadedRuns(d) /\ t.queue = order
      /\ t.active = {} /\ t.nextJob = eng.nextJob /\ t.nextRun = eng.nextRun
  BY <1>1, <1>2 DEF HasFields
<1>4. ASSUME NEW j \in DOMAIN d.jobs
      PROVE  d.jobs[j] \in JobRecords /\ LoadedJobs(d)[j] = d.jobs[j]
  <2>1. d.jobs[j] \in JobRecords
    BY DEF DbOK
  <2>2. ParseJobStatus(d.jobs[j].status) = d.jobs[j].status
    BY <2>1 DEF JobRecords, ParseJobStatus
  <2>3. LoadedJobs(d)[j] = [d.jobs[j] EXCEPT !.status = ParseJobStatus(@)]
    BY DEF LoadedJobs
  <2>4. [d.jobs[j] EXCEPT !.status = d.jobs[j].status] = d.jobs[j]
    BY <2>1 DEF JobRecords
  <2> QED BY <2>1, <2>2, <2>3, <2>4
<1>5. DOMAIN t.jobs = DOMAIN d.jobs
      /\ \A j \in DOMAIN d.jobs : d.jobs[j] \in JobRecords /\ t.jobs[j] = Revived(d.jobs[j])
  BY <1>3, <1>4 DEF RevivedJobs
<1>6. t.runs = d.runs
  <2>1. d.runs = [r \in DOMAIN d.runs |-> d.runs[r]] /\ \A r \in DOMAIN d.runs : d.runs[r] \in RunStatus
    BY DEF DbOK
  <2>2. \A r \in DOMAIN d.runs : ParseRunStatus(d.runs[r]) = d.runs[r]
    BY <2>1 DEF ParseRunStatus
  <2> QED BY <1>3, <2>1, <2>2 DEF LoadedRuns
<1>7. \A j \in DOMAIN t.jobs : /\ t.jobs[j] \in JobRecords /\ t.jobs[j].status # "Running"
                               /\ t.jobs[j].run = d.jobs[j].run
  BY <1>5, RevivedOK
<1>8. Requeued(d) = {j \in DOMAIN t.jobs : t.jobs[j].status = "Ready"}
  BY <1>3, <1>5 DEF Requeued
<1>9. DOMAIN t.jobs \subseteq 1..t.nextJob - 1 /\ DOMAIN t.runs \subseteq 1..t.nextRun - 1
  BY <1>3, <1>5, <1>6 DEF DbOK
<1>10. IsFiniteSet(Requeued(d))
  <2> DEFINE last == t.nextJob - 1
  <2>1. last \in Int
    BY <1>2, <1>3
  <2>2. Requeued(d) \subseteq 1..last
    BY <1>8, <1>9
  <2> HIDE DEF last
  <2>3. 1 \in Int
    OBVIOUS
  <2>4. IsFiniteSet(1..last)
    BY <2>1, <2>3, FS_Interval, Zenon
  <2> QED BY <2>2, <2>4, FS_Subset
<1>11. /\ t.queue \in Seq(Requeued(d)) /\ Entries(t.queue) = Requeued(d) /\ Distinct(t.queue)
       /\ DOMAIN t.queue = 1..Cardinality(Requeued(d)) /\ Cardinality(Requeued(d)) \in Nat
  <2>1. order \in Seq(Requeued(d)) /\ Entries(order) = Requeued(d)
        /\ DOMAIN order = 1..Cardinality(Requeued(d))
    BY <1>10, EntriesOfOrdering
  <2>2. Distinct(order) /\ Cardinality(Requeued(d)) \in Nat
    BY <1>10, OrderingDistinct, FS_CardinalityType
  <2> QED BY <1>3, <2>1, <2>2
<1>12. t.queue \in Seq(DOMAIN t.jobs)
  <2> DEFINE ids == DOMAIN t.jobs
             ready == Requeued(d)
  <2>1. ready \subseteq ids
    BY <1>8
  <2>2. t.queue \in Seq(ready)
    BY <1>11
  <2> HIDE DEF ids, ready
  <2>3. Seq(ready) \subseteq Seq(ids)
    BY <2>1
  <2> QED BY <2>2, <2>3 DEF ids
<1>13. EngineType(t)
  <2>1. t.jobs \in [DOMAIN t.jobs -> JobRecords]
    <3>1. t.jobs = [j \in DOMAIN t.jobs |-> t.jobs[j]]
      BY <1>3, <1>5 DEF RevivedJobs
    <3> QED BY <1>7, <3>1
  <2>2. t.runs \in [DOMAIN t.runs -> RunStatus]
    BY <1>6 DEF DbOK
  <2>3. \A j \in DOMAIN t.jobs : t.jobs[j].run \in DOMAIN t.runs
    BY <1>5, <1>6, <1>7 DEF DbOK
  <2>4. t.active \in SUBSET DOMAIN t.jobs /\ t.nextJob \in Nat \ {0} /\ t.nextRun \in Nat \ {0}
    BY <1>2, <1>3
  <2> QED BY <1>3, <1>9, <1>12, <2>1, <2>2, <2>3, <2>4 DEF EngineType, HasFields
<1>14. RunningHoldSlots(t) /\ ReadyAreQueued(t)
  BY <1>3, <1>7, <1>8, <1>11 DEF RunningHoldSlots, ReadyAreQueued
<1>15. Cardinality(t.active) <= MaxConcurrency
  BY <1>3, FS_EmptySet, EngineAssumption
<1>16. QueueOK(t)
  BY <1>8, <1>11 DEF QueueOK
<1> QED BY <1>3, <1>5, <1>6, <1>13, <1>14, <1>15, <1>16 DEF Restored, EngineOK

\* A start of the daemon from well-formed tables.
LEMMA RestartOK ==
  ASSUME StoreOK(eng), NEW d, DbOK(d, eng), StartFrom(d),
         faults' \in [crash : Nat, timeout : Nat, cancel : Nat, reload : Nat]
  PROVE  IInv' /\ DbOK(db', eng') /\ Restored(d, eng, eng')
<1>2. Restored(d, eng, eng') /\ db' = d
  BY HydratedOK DEF StartFrom
<1>3. managed' = {} /\ workers' = {} /\ events' = {} /\ stale' = {}
  BY DEF StartFrom
<1>4. IInvByVariable'
  BY <1>2, <1>3 DEF IInvByVariable, Restored
<1>5. IInv'
  BY <1>4, IInvParts, PTL
<1>6. \A j \in DOMAIN d.jobs : /\ d.jobs[j].run = eng'.jobs[j].run /\ d.jobs[j].role = eng'.jobs[j].role
                               /\ d.jobs[j].deps = eng'.jobs[j].deps
  BY <1>2, RevivedOK DEF Restored
<1>7. DbOK(d, eng')
  BY <1>2, <1>6 DEF DbOK, Restored
<1> QED BY <1>2, <1>5, <1>7

-----------------------------------------------------------------------------
(* What saves and cleanups leave in the tables, wherever they are stopped. *)

\* e is d with the runs R and the jobs J written as s has them.
Written(d, e, s, R, J) ==
  /\ e.artifacts = d.artifacts
  /\ DOMAIN e.runs = DOMAIN d.runs \cup R
  /\ \A r \in DOMAIN e.runs : e.runs[r] = IF r \in R THEN s.runs[r] ELSE d.runs[r]
  /\ DOMAIN e.jobs = DOMAIN d.jobs \cup J
  /\ \A j \in DOMAIN e.jobs : e.jobs[j] = IF j \in J THEN s.jobs[j] ELSE d.jobs[j]

LEMMA WriteOK ==
  ASSUME NEW s, StoreOK(s), NEW d, DbOK(d, s), NEW R \in SUBSET DOMAIN s.runs,
         NEW J \in SUBSET DOMAIN s.jobs, \A j \in J : s.jobs[j].run \in R
  PROVE  LET e == WriteJobs(WriteRuns(d, s, R), s, J) IN Written(d, e, s, R, J) /\ DbOK(e, s)
<1> DEFINE mid == WriteRuns(d, s, R)
           e == WriteJobs(mid, s, J)
<1>1. /\ d \in [artifacts : {d.artifacts}, jobs : {d.jobs}, runs : {d.runs}]
      /\ \A j \in DOMAIN d.jobs : d.jobs[j] \in JobRecords
      /\ \A r \in DOMAIN d.runs : d.runs[r] \in RunStatus
  BY DEF DbOK
<1>2. /\ mid \in [artifacts : {mid.artifacts}, jobs : {mid.jobs}, runs : {mid.runs}]
      /\ mid.artifacts = d.artifacts /\ mid.jobs = d.jobs
      /\ mid.runs = [r \in DOMAIN d.runs \cup R |-> IF r \in R THEN s.runs[r] ELSE d.runs[r]]
  BY <1>1 DEF WriteRuns
<1> HIDE DEF mid
<1>3. /\ e \in [artifacts : {e.artifacts}, jobs : {e.jobs}, runs : {e.runs}]
      /\ e.artifacts = mid.artifacts /\ e.runs = mid.runs
      /\ e.jobs = [j \in DOMAIN mid.jobs \cup J |-> IF j \in J THEN s.jobs[j] ELSE mid.jobs[j]]
  BY <1>2 DEF WriteJobs
<1> HIDE DEF e
<1>4. Written(d, e, s, R, J)
  BY <1>2, <1>3 DEF Written
<1>5. /\ \A j \in DOMAIN s.jobs : s.jobs[j] \in JobRecords
      /\ \A r \in DOMAIN s.runs : s.runs[r] \in RunStatus
      /\ DOMAIN s.jobs \subseteq 1..s.nextJob - 1 /\ DOMAIN s.runs \subseteq 1..s.nextRun - 1
  BY StoreParts
<1>6. e.jobs \in [DOMAIN e.jobs -> JobRecords]
  <2>1. e.jobs = [j \in DOMAIN e.jobs |-> e.jobs[j]]
    BY <1>3
  <2>2. \A j \in DOMAIN e.jobs : e.jobs[j] \in JobRecords
    BY <1>1, <1>4, <1>5 DEF Written
  <2> QED BY <2>1, <2>2
<1>7. e.runs \in [DOMAIN e.runs -> RunStatus]
  <2>1. e.runs = [r \in DOMAIN e.runs |-> e.runs[r]]
    BY <1>2, <1>3
  <2>2. \A r \in DOMAIN e.runs : e.runs[r] \in RunStatus
    BY <1>1, <1>4, <1>5 DEF Written
  <2> QED BY <2>1, <2>2
<1>8. DOMAIN e.jobs \subseteq 1..s.nextJob - 1 /\ DOMAIN e.runs \subseteq 1..s.nextRun - 1
  BY <1>4, <1>5 DEF Written, DbOK
<1>9. \A j \in DOMAIN e.jobs : e.jobs[j].run \in DOMAIN e.runs
  BY <1>4 DEF Written, DbOK
<1>10. \A j \in DOMAIN e.jobs \cap DOMAIN s.jobs :
         /\ e.jobs[j].run = s.jobs[j].run /\ e.jobs[j].role = s.jobs[j].role
         /\ e.jobs[j].deps = s.jobs[j].deps
  BY <1>4 DEF Written, DbOK
<1> QED BY <1>3, <1>4, <1>6, <1>7, <1>8, <1>9, <1>10 DEF DbOK, e, mid

\* What is written holds what s holds of the runs it was written for.
LEMMA SaveRunsOK ==
  ASSUME NEW s, StoreOK(s), NEW d, DbOK(d, s), NEW R \in SUBSET DOMAIN s.runs
  PROVE  /\ Written(d, SaveRuns(d, s, R), s, R, {j \in DOMAIN s.jobs : s.jobs[j].run \in R})
         /\ DbOK(SaveRuns(d, s, R), s)
<1> DEFINE J == {j \in DOMAIN s.jobs : s.jobs[j].run \in R}
<1>1. J \in SUBSET DOMAIN s.jobs /\ \A j \in J : s.jobs[j].run \in R
  OBVIOUS
<1>2. SaveRuns(d, s, R) = WriteJobs(WriteRuns(d, s, R), s, J)
  BY DEF SaveRuns
<1> HIDE DEF J
<1>3. Written(d, SaveRuns(d, s, R), s, R, J) /\ DbOK(SaveRuns(d, s, R), s)
  BY <1>1, <1>2, WriteOK
<1> QED BY <1>3 DEF J

LEMMA SavePointsOK ==
  ASSUME NEW s, StoreOK(s), NEW d, DbOK(d, s), NEW r, NEW e \in SavePoints(d, s, r)
  PROVE  /\ DbOK(e, s)
         /\ e = d \/ (r \in DOMAIN s.runs
                       /\ \E J \in SUBSET JobsOf(s, r) : Written(d, e, s, {r}, J))
<1>1. CASE e = d
  BY <1>1
<1>2. ASSUME r \in DOMAIN s.runs, NEW J \in SUBSET JobsOf(s, r),
             e = WriteJobs(WriteRuns(d, s, {r}), s, J)
      PROVE  DbOK(e, s) /\ Written(d, e, s, {r}, J)
  <2>1. /\ {r} \in SUBSET DOMAIN s.runs /\ J \in SUBSET DOMAIN s.jobs
        /\ \A j \in J : s.jobs[j].run \in {r}
    BY <1>2 DEF JobsOf
  <2> QED BY <1>2, <2>1, WriteOK
<1>3. \/ e = d
      \/ /\ r \in DOMAIN s.runs
         /\ \E J \in SUBSET JobsOf(s, r) : e = WriteJobs(WriteRuns(d, s, {r}), s, J)
  BY DEF SavePoints
<1> QED BY <1>1, <1>2, <1>3

\* e is d without some of what belongs to run r: artifacts go first, the run last.
Deleted(d, e, r) ==
  /\ e.artifacts \subseteq d.artifacts
  /\ \A a \in d.artifacts : a.run = r \/ a \in e.artifacts
  /\ DOMAIN e.runs \subseteq DOMAIN d.runs /\ DOMAIN d.runs \subseteq DOMAIN e.runs \cup {r}
  /\ \A q \in DOMAIN e.runs : e.runs[q] = d.runs[q]
  /\ DOMAIN e.jobs \subseteq DOMAIN d.jobs
  /\ \A j \in DOMAIN e.jobs : e.jobs[j] = d.jobs[j]
  /\ \A j \in DOMAIN d.jobs : d.jobs[j].run # r => j \in DOMAIN e.jobs
  /\ \A a \in e.artifacts : a.job \in DOMAIN d.jobs /\ d.jobs[a.job].run = a.run
                              => a.job \in DOMAIN e.jobs

LEMMA DeleteOK ==
  ASSUME NEW s, NEW d, DbOK(d, s), NEW r, NEW n \in 0..3
  PROVE  LET e == DeletePoint(d, r, n) IN
         /\ Deleted(d, e, r) /\ DbOK(e, s)
         /\ n = 3 => /\ r \notin DOMAIN e.runs
                     /\ \A j \in DOMAIN e.jobs : d.jobs[j].run # r
                     /\ \A a \in e.artifacts : a.run # r
<1> DEFINE own == {j \in DOMAIN d.jobs : d.jobs[j].run = r}
           outputs == ArtifactsOf(d.artifacts, r)
           e == DeletePoint(d, r, n)
<1>1. /\ e \in [artifacts : {e.artifacts}, jobs : {e.jobs}, runs : {e.runs}]
      /\ e.artifacts = IF n >= 1 THEN d.artifacts \ outputs ELSE d.artifacts
      /\ e.jobs = [j \in DOMAIN d.jobs \ (IF n >= 2 THEN own ELSE {}) |-> d.jobs[j]]
      /\ e.runs = [q \in DOMAIN d.runs \ (IF n >= 3 THEN {r} ELSE {}) |-> d.runs[q]]
  BY DEF DeletePoint
<1> HIDE DEF e
<1>2. \A j \in own : j \in DOMAIN d.jobs /\ d.jobs[j].run = r
  OBVIOUS
<1>3. \A j \in DOMAIN d.jobs : d.jobs[j].run = r => j \in own
  OBVIOUS
<1>a. \A a \in d.artifacts : a \in outputs <=> a.run = r
  BY DEF ArtifactsOf
<1> HIDE DEF own, outputs
<1>4. Deleted(d, e, r)
  <2>1. ASSUME NEW a \in e.artifacts, a.job \in DOMAIN d.jobs, d.jobs[a.job].run = a.run
        PROVE  a.job \in DOMAIN e.jobs
    <3>1. n >= 2 => a.job \notin own
      BY <1>1, <1>2, <1>a, <2>1
    <3> QED BY <1>1, <2>1, <3>1
  <2>2. e.artifacts \subseteq d.artifacts /\ \A a \in d.artifacts : a.run = r \/ a \in e.artifacts
    BY <1>1, <1>a
  <2>3. /\ DOMAIN e.runs \subseteq DOMAIN d.runs /\ DOMAIN d.runs \subseteq DOMAIN e.runs \cup {r}
        /\ \A q \in DOMAIN e.runs : e.runs[q] = d.runs[q]
    BY <1>1
  <2>4. /\ DOMAIN e.jobs \subseteq DOMAIN d.jobs
        /\ \A j \in DOMAIN e.jobs : e.jobs[j] = d.jobs[j]
        /\ \A j \in DOMAIN d.jobs : d.jobs[j].run # r => j \in DOMAIN e.jobs
    BY <1>1, <1>2
  <2> QED BY <2>1, <2>2, <2>3, <2>4 DEF Deleted
<1>5. n = 3 => /\ r \notin DOMAIN e.runs
               /\ \A j \in DOMAIN e.jobs : d.jobs[j].run # r
               /\ \A a \in e.artifacts : a.run # r
  BY <1>1, <1>3, <1>a
<1>6. \A j \in DOMAIN e.jobs : e.jobs[j].run \in DOMAIN e.runs
  <2> SUFFICES ASSUME NEW j \in DOMAIN e.jobs PROVE e.jobs[j].run \in DOMAIN e.runs
    OBVIOUS
  <2>1. j \in DOMAIN d.jobs /\ e.jobs[j] = d.jobs[j] /\ d.jobs[j].run \in DOMAIN d.runs
    BY <1>4 DEF Deleted, DbOK
  <2>2. CASE n = 3
    BY <1>4, <1>5, <2>1, <2>2 DEF Deleted
  <2>3. CASE n # 3
    <3>1. DOMAIN e.runs = DOMAIN d.runs
      BY <1>1, <2>3
    <3> QED BY <2>1, <3>1
  <2> QED BY <2>2, <2>3
<1>7. e.jobs \in [DOMAIN e.jobs -> JobRecords] /\ e.runs \in [DOMAIN e.runs -> RunStatus]
  <2>1. e.jobs = [j \in DOMAIN e.jobs |-> e.jobs[j]] /\ e.runs = [q \in DOMAIN e.runs |-> e.runs[q]]
    BY <1>1
  <2>2. (\A j \in DOMAIN e.jobs : e.jobs[j] \in JobRecords)
        /\ (\A q \in DOMAIN e.runs : e.runs[q] \in RunStatus)
    BY <1>4 DEF Deleted, DbOK
  <2> QED BY <2>1, <2>2
<1>8. /\ DOMAIN e.jobs \subseteq 1..s.nextJob - 1 /\ DOMAIN e.runs \subseteq 1..s.nextRun - 1
      /\ \A j \in DOMAIN e.jobs \cap DOMAIN s.jobs :
           /\ e.jobs[j].run = s.jobs[j].run /\ e.jobs[j].role = s.jobs[j].role
           /\ e.jobs[j].deps = s.jobs[j].deps
  BY <1>4 DEF Deleted, DbOK
<1>9. DbOK(e, s)
  BY <1>1, <1>6, <1>7, <1>8 DEF DbOK
<1> QED BY <1>4, <1>5, <1>9 DEF e

\* Wherever the write of the handler that has just run ends.
LEMMA PersistOK ==
  ASSUME StoreOK(eng), DbOK(db, eng), NEW e \in {db, WrittenOut} \cup TornPoints
  PROVE  DbOK(e, eng)
<1>1. CASE unsaved.op = "save"
  <2>1. \/ e = db \/ e = SaveRun(db, eng, unsaved.run)
        \/ e \in SavePoints(db, eng, unsaved.run)
    BY <1>1 DEF WrittenOut, TornPoints
  <2>2. CASE unsaved.run \in DOMAIN eng.runs
    <3>1. {unsaved.run} \in SUBSET DOMAIN eng.runs
      BY <2>2
    <3>2. DbOK(SaveRuns(db, eng, {unsaved.run}), eng)
      BY <3>1, SaveRunsOK
    <3> QED BY <2>1, <2>2, <3>2, SavePointsOK DEF SaveRun
  <2>3. CASE unsaved.run \notin DOMAIN eng.runs
    BY <2>1, <2>3, SavePointsOK DEF SaveRun
  <2> QED BY <2>2, <2>3
<1>2. CASE unsaved.op = "delete"
  <2>1. e = db \/ \E n \in 0..3 : e = DeletePoint(db, unsaved.run, n)
    BY <1>2 DEF WrittenOut, TornPoints
  <2> QED BY <2>1, DeleteOK
<1>3. CASE unsaved.op \notin {"save", "delete"}
  <2>1. e = db
    BY <1>3 DEF WrittenOut, TornPoints
  <2> QED BY <2>1
<1> QED BY <1>1, <1>2, <1>3

\* t is eng with every run in progress cancelled.
CancelledInto(s, t) ==
  /\ StoreOK(t)
  /\ DOMAIN t.jobs = DOMAIN s.jobs
  /\ \A j \in DOMAIN s.jobs :
       /\ SameJob(t.jobs[j], s.jobs[j])
       /\ \/ t.jobs[j] = s.jobs[j]
          \/ s.jobs[j].status \in Unfinished /\ t.jobs[j].status \in {"Ready", "Failed"}
       /\ s.jobs[j].run \notin RunsInProgress => t.jobs[j] = s.jobs[j]
  /\ DOMAIN t.runs = DOMAIN s.runs
  /\ \A r \in DOMAIN s.runs \ RunsInProgress : t.runs[r] = s.runs[r]
  /\ t.nextJob = s.nextJob /\ t.nextRun = s.nextRun

LEMMA AllCancelledOK ==
  ASSUME StoreOK(eng)
  PROVE  CancelledInto(eng, AllCancelled)
<1> DEFINE t == AllCancelled
           Status(j) == IF eng.jobs[j].attempt < MaxAttempts THEN "Ready" ELSE "Failed"
           After(j) == Cancel(eng, eng.jobs[j].run, <<>>).jobs[j]
<1>0. HasFields(eng)
  BY StoreParts
<1>1. /\ HasFields(t)
      /\ t.jobs = [j \in DOMAIN eng.jobs |->
                     IF eng.jobs[j].run \in RunsInProgress THEN After(j) ELSE eng.jobs[j]]
      /\ t.runs = [r \in DOMAIN eng.runs |->
                     IF r \in RunsInProgress THEN "Cancelled" ELSE eng.runs[r]]
      /\ t.queue = eng.queue /\ t.active = eng.active
      /\ t.nextJob = eng.nextJob /\ t.nextRun = eng.nextRun
  BY <1>0 DEF AllCancelled, HasFields
<1> HIDE DEF t
<1>2. ASSUME NEW j \in DOMAIN eng.jobs
      PROVE  After(j) = IF eng.jobs[j].status \in Unfinished
                        THEN [eng.jobs[j] EXCEPT !.status = Status(j)] ELSE eng.jobs[j]
  <2> DEFINE r == eng.jobs[j].run
  <2>1. Cancel(eng, r, <<>>).jobs =
          [i \in DOMAIN eng.jobs |->
             IF i \in CancelledJobs(eng, r) THEN [eng.jobs[i] EXCEPT !.status = Status(i)]
             ELSE eng.jobs[i]]
    BY <1>0 DEF Cancel, HasFields
  <2>2. j \in CancelledJobs(eng, r) <=> eng.jobs[j].status \in Unfinished
    BY DEF CancelledJobs, JobsOf
  <2> HIDE DEF Status
  <2> QED BY <2>1, <2>2
<1> HIDE DEF After
<1>3. ASSUME NEW j \in DOMAIN eng.jobs
      PROVE  /\ t.jobs[j] \in JobRecords
             /\ SameJob(t.jobs[j], eng.jobs[j])
             /\ \/ t.jobs[j] = eng.jobs[j]
                \/ eng.jobs[j].status \in Unfinished /\ t.jobs[j].status \in {"Ready", "Failed"}
             /\ eng.jobs[j].run \notin RunsInProgress => t.jobs[j] = eng.jobs[j]
  <2>1. eng.jobs[j] \in JobRecords /\ Status(j) \in JobStatus /\ Status(j) \in {"Ready", "Failed"}
    BY StoreParts DEF JobStatus
  <2> HIDE DEF Status
  <2> DEFINE new == [eng.jobs[j] EXCEPT !.status = Status(j)]
  <2>2. new \in JobRecords /\ new.status = Status(j) /\ SameJob(new, eng.jobs[j])
    BY <2>1, JobUpdate DEF SameJob
  <2> HIDE DEF new
  <2>3. SameJob(eng.jobs[j], eng.jobs[j])
    BY DEF SameJob
  <2>4. \/ t.jobs[j] = eng.jobs[j]
        \/ /\ t.jobs[j] = new /\ eng.jobs[j].status \in Unfinished
           /\ eng.jobs[j].run \in RunsInProgress
    BY <1>1, <1>2 DEF new
  <2> QED BY <2>1, <2>2, <2>3, <2>4
<1>4. DOMAIN t.jobs = DOMAIN eng.jobs /\ DOMAIN t.runs = DOMAIN eng.runs
      /\ \A r \in DOMAIN eng.runs \ RunsInProgress : t.runs[r] = eng.runs[r]
  BY <1>1
<1>5. StoreOK(t)
  <2>1. t.jobs = [j \in DOMAIN eng.jobs |-> t.jobs[j]]
    BY <1>1
  <2>2. t.runs \in [DOMAIN eng.runs -> RunStatus]
    <3>1. "Cancelled" \in RunStatus
      BY DEF RunStatus
    <3>2. \A r \in DOMAIN eng.runs : t.runs[r] \in RunStatus
      BY <1>1, <3>1, StoreParts
    <3> QED BY <1>1, <3>2
  <2>3. \A j \in DOMAIN eng.jobs :
          /\ t.jobs[j] \in JobRecords
          /\ t.jobs[j].run = eng.jobs[j].run /\ t.jobs[j].role = eng.jobs[j].role
          /\ t.jobs[j].deps = eng.jobs[j].deps
    BY <1>3 DEF SameJob
  <2>4. HasFields(t) /\ t.nextJob = eng.nextJob /\ t.nextRun = eng.nextRun
    BY <1>1
  <2> QED BY <2>1, <2>2, <2>3, <2>4, AmendedStore
<1> QED BY <1>1, <1>3, <1>4, <1>5 DEF CancelledInto, t

\* What a shutdown saves.
LEMMA ShutdownSavesOK ==
  ASSUME StoreOK(eng), DbOK(db, eng)
  PROVE  LET e == SaveRuns(db, AllCancelled, RunsInProgress) IN
         /\ DbOK(e, eng)
         /\ Written(db, e, AllCancelled, RunsInProgress,
                    {j \in DOMAIN eng.jobs : eng.jobs[j].run \in RunsInProgress})
<1> DEFINE t == AllCancelled
           e == SaveRuns(db, t, RunsInProgress)
<1>1. CancelledInto(eng, t)
  BY AllCancelledOK
<1> HIDE DEF t
<1>2. DbOK(db, t)
  BY <1>1 DEF CancelledInto, DbOK, SameJob
<1>3. RunsInProgress \in SUBSET DOMAIN t.runs
  BY <1>1 DEF CancelledInto, RunsInProgress
<1>4. /\ Written(db, e, t, RunsInProgress, {j \in DOMAIN t.jobs : t.jobs[j].run \in RunsInProgress})
      /\ DbOK(e, t)
  BY <1>1, <1>2, <1>3, SaveRunsOK DEF CancelledInto
<1>5. {j \in DOMAIN t.jobs : t.jobs[j].run \in RunsInProgress}
        = {j \in DOMAIN eng.jobs : eng.jobs[j].run \in RunsInProgress}
  BY <1>1 DEF CancelledInto, SameJob
<1> HIDE DEF e
<1>6. DbOK(e, eng)
  BY <1>1, <1>4 DEF CancelledInto, DbOK, SameJob
<1> QED BY <1>4, <1>5, <1>6 DEF e, t

-----------------------------------------------------------------------------
(* The handlers.                                                           *)

\* A handler changes run r, settles job j with a status of S (0 is no job) and
\* hands out jobs.
Leads(r, j, S, ev) ==
  \E t : /\ EngineOK(t) /\ r \in DOMAIN t.runs
         /\ Within(eng, t, r, {j}, S)
         /\ QueueKept(eng, t, j) /\ DepsKept(eng, t, j)
         /\ Dispatch(t, managed \ {j}, ev)

Failing == {"Ready", "Failed"}
Settling == {"Completed", "Ready", "Failed"}

LEMMA SubmitLeads ==
  ASSUME IInv, SubmitRun
  PROVE  Leads(eng.nextRun, 0, Failing, events)
<1> DEFINE t == Submit(eng)
<1>1. EngineOK(eng) /\ managed \subseteq Handles(eng) /\ DOMAIN eng.jobs \subseteq 1..eng.nextJob - 1
      /\ eng.active \subseteq DOMAIN eng.jobs
  BY IInvParts, TypeParts DEF IInvByVariable, EngineOK
<1>2. EngineOK(t)
  BY <1>1, SubmitOK
<1>3. PICK recs : /\ DOMAIN t.runs = DOMAIN eng.runs \cup {eng.nextRun}
                  /\ Grows(eng, t, eng.nextRun, recs)
                  /\ Len(recs) = 1 /\ recs[1].deps = <<>>
  BY <1>1, SubmitGrows DEF EngineOK
<1>4. Dispatch(t, managed, events)
  BY DEF SubmitRun
<1> HIDE DEF t
<1>5. Within(eng, t, eng.nextRun, {0}, Failing) /\ QueueKept(eng, t, 0)
  BY <1>1, <1>2, <1>3, GrowsWithin
<1>6. 0 \notin DOMAIN eng.jobs
  BY <1>1
<1>7. managed \ {0} = managed
  BY <1>1, <1>6 DEF Handles
<1>8. DepsKept(eng, t, 0)
  <2>1. \A i \in 1..Len(recs) : recs[i].deps = <<>>
    <3>1. \A i \in 1..Len(recs) : i = 1
      BY <1>3
    <3> QED BY <1>3, <3>1
  <2>2. DepsDone(eng.jobs) => DepsDone(t.jobs)
    BY <1>1, <1>3, <2>1, GrowsDeps
  <2> QED BY <2>2 DEF DepsKept
<1> QED BY <1>2, <1>3, <1>4, <1>5, <1>7, <1>8 DEF Leads

LEMMA CompletedLeads ==
  ASSUME IInv, NEW e \in events, HandleCompleted(e)
  PROVE  Leads(eng.jobs[e.job].run, e.job, Settling, events \ {e}) /\ e.job \in DOMAIN eng.jobs
<1> DEFINE j == e.job
<1>1. EngineOK(eng) /\ j \in DOMAIN eng.jobs /\ eng.jobs[j].run \in DOMAIN eng.runs
  <2>1. EngineOK(eng) /\ j \in DOMAIN eng.jobs
    BY IInvParts DEF IInvByVariable, EventType
  <2> QED BY <2>1, TypeParts DEF EngineOK
<1>2. PICK order \in Orderings(PromotedBy(eng, j)) :
        \E next \in AfterCompletion(MarkCompleted(eng, j, order), j) :
          Dispatch(next, managed \ {j}, events \ {e})
  BY DEF HandleCompleted
<1>3. PICK next \in AfterCompletion(MarkCompleted(eng, j, order), j) :
        Dispatch(next, managed \ {j}, events \ {e})
  BY <1>2
<1> HIDE DEF j
<1>4. {"Completed", "Ready", "Failed"} \subseteq Settling
  BY DEF Settling
<1>5. EngineOK(next) /\ Within(eng, next, eng.jobs[j].run, {j}, Settling) /\ QueueKept(eng, next, j)
  BY <1>1, <1>4, CompletionWithin
<1>7. DepsKept(eng, next, j)
  BY <1>1, CompletionDeps
<1>6. eng.jobs[j].run \in DOMAIN next.runs
  BY <1>1, <1>5 DEF Within
<1> QED BY <1>1, <1>3, <1>5, <1>6, <1>7 DEF Leads, j

LEMMA FailureLeads ==
  ASSUME IInv, NEW j \in DOMAIN eng.jobs, NEW ev, Dispatch(MarkFailed(eng, j), managed \ {j}, ev)
  PROVE  Leads(eng.jobs[j].run, j, Failing, ev)
<1>1. EngineOK(eng) /\ eng.jobs[j].run \in DOMAIN eng.runs
  <2>1. EngineOK(eng)
    BY IInvParts DEF IInvByVariable
  <2> QED BY <2>1, TypeParts DEF EngineOK
<1> DEFINE t == MarkFailed(eng, j)
<1>2. EngineOK(t) /\ Within(eng, t, eng.jobs[j].run, {j}, Failing) /\ QueueKept(eng, t, j)
  BY <1>1, MarkFailedWithin DEF Failing
<1>3. eng.jobs[j].run \in DOMAIN t.runs
  BY <1>1, <1>2 DEF Within
<1>4. DepsKept(eng, t, j)
  BY <1>1, MarkFailedDeps DEF DepsKept
<1> QED BY <1>2, <1>3, <1>4 DEF Leads

\* What every such handler does to the engine as a whole.
LEMMA LeadsAdvance ==
  ASSUME NEW r, NEW j, NEW S, NEW ev, Leads(r, j, S, ev)
  PROVE  /\ Full(eng')
         /\ r \in DOMAIN eng'.runs
         /\ \E t, P : /\ EngineOK(t) /\ Within(eng, t, r, {j}, S) /\ QueueKept(eng, t, j)
                      /\ Begins(t, eng', P)
<1>1. PICK t : /\ EngineOK(t) /\ r \in DOMAIN t.runs
               /\ Within(eng, t, r, {j}, S) /\ QueueKept(eng, t, j)
               /\ Dispatch(t, managed \ {j}, ev)
  BY DEF Leads
<1>2. Full(eng') /\ \E P : Begins(t, eng', P)
  BY <1>1, DispatchBegins
<1>3. r \in DOMAIN eng'.runs
  BY <1>1, <1>2 DEF Begins
<1> QED BY <1>1, <1>2, <1>3

\* The handlers that save run r: a step of the daemon that advances the run, or a
\* cancellation of it.
SaveStep(r) ==
  /\ [Next]_vars
  /\ Saving(r)
  /\ \/ Leads(r, 0, Failing, events) /\ Selecting /\ UNCHANGED <<stale, faults>>
     \/ \E e \in events : /\ e.job \in DOMAIN eng.jobs /\ r = eng.jobs[e.job].run
                          /\ e.outcome = "completed" /\ e.job \in Authors(artifacts)
                          /\ Leads(r, e.job, Settling, events \ {e})
                          /\ Selecting /\ UNCHANGED <<stale, faults>>
     \/ \E e \in events : /\ e.job \in DOMAIN eng.jobs /\ r = eng.jobs[e.job].run
                          /\ Leads(r, e.job, Failing, events \ {e})
                          /\ Selecting /\ UNCHANGED <<stale, faults>>
     \/ \E j \in stale : /\ j \in DOMAIN eng.jobs /\ r = eng.jobs[j].run
                         /\ Leads(r, j, Failing, events)
                         /\ stale' = stale \ {j} /\ UNCHANGED faults
     \/ CancelRun(r)

LEMMA SaveSteps ==
  ASSUME IInv, \/ HandleCommand
               \/ \E e \in events : HandleReport(e)
               \/ \E j \in stale : ExpireAndSave(j)
  PROVE  \E r : SaveStep(r)
<1>0. EngineOK(eng) /\ events \subseteq EventType(DOMAIN eng.jobs) /\ stale \subseteq DOMAIN eng.jobs
  BY IInvParts, TypeParts DEF IInvByVariable, EngineOK
<1>1. CASE SubmitRun /\ Saving(eng.nextRun)
  <2>1. Leads(eng.nextRun, 0, Failing, events) /\ Selecting /\ UNCHANGED <<stale, faults>>
    BY <1>1, SubmitLeads DEF SubmitRun
  <2>2. [Next]_vars
    BY <1>1 DEF Next
  <2> QED BY <1>1, <2>1, <2>2 DEF SaveStep
<1>2. ASSUME NEW r \in RunIds, CancelRun(r), Saving(r) PROVE SaveStep(r)
  <2>1. [Next]_vars
    BY <1>2 DEF Next
  <2> QED BY <1>2, <2>1 DEF SaveStep
<1>3. ASSUME NEW e \in events, HandleReport(e), HandleCompleted(e), Saving(RunOf(e.job))
      PROVE  SaveStep(RunOf(e.job))
  <2>0. e.job \in Authors(artifacts)
    <3>1. e.outcome # "failed"
      BY <1>3 DEF HandleCompleted
    <3>2. e.job \in DOMAIN eng.jobs
      BY <1>0 DEF EventType
    <3> QED BY <1>3, <3>1, <3>2 DEF HandleReport
  <2>1. [Next]_vars
    BY <1>3 DEF Next
  <2>2. e.outcome = "completed" /\ Selecting /\ UNCHANGED <<stale, faults>>
    BY <1>3 DEF HandleCompleted
  <2>3. Leads(eng.jobs[e.job].run, e.job, Settling, events \ {e}) /\ e.job \in DOMAIN eng.jobs
    BY <1>3, CompletedLeads
  <2> QED BY <1>3, <2>0, <2>1, <2>2, <2>3 DEF SaveStep, RunOf
<1>4. ASSUME NEW e \in events, HandleFailed(e), Saving(RunOf(e.job))
      PROVE  SaveStep(RunOf(e.job))
  <2>1. [Next]_vars
    BY <1>4 DEF Next
  <2>2. Dispatch(MarkFailed(eng, e.job), managed \ {e.job}, events \ {e})
        /\ Selecting /\ UNCHANGED <<stale, faults>>
    BY <1>4 DEF HandleFailed
  <2>3. e.job \in DOMAIN eng.jobs
    BY <1>0 DEF EventType
  <2> DEFINE j == e.job
  <2> HIDE DEF j
  <2>4. Leads(eng.jobs[j].run, j, Failing, events \ {e})
    BY <2>2, <2>3, FailureLeads DEF j
  <2> QED BY <1>4, <2>1, <2>2, <2>3, <2>4 DEF SaveStep, RunOf, j
<1>5. ASSUME NEW j \in stale, ExpireAndSave(j) PROVE SaveStep(RunOf(j))
  <2>1. [Next]_vars
    BY <1>5 DEF Next, ExpireAndSave
  <2>2. Dispatch(MarkFailed(eng, j), managed \ {j}, events)
        /\ stale' = stale \ {j} /\ UNCHANGED faults /\ Saving(RunOf(j))
    BY <1>5 DEF ExpireJob, ExpireAndSave
  <2>3. Leads(eng.jobs[j].run, j, Failing, events) /\ j \in DOMAIN eng.jobs
    BY <1>0, <2>2, FailureLeads
  <2> QED BY <2>1, <2>2, <2>3 DEF SaveStep, RunOf
<1> QED BY <1>1, <1>2, <1>3, <1>4, <1>5 DEF HandleCommand, HandleReport

\* Handlers leave the tables alone and hand out what they can.
LEMMA SaveStepAdvances ==
  ASSUME IInv, NEW r, SaveStep(r)
  PROVE  /\ IInv'
         /\ unsaved = Nothing /\ unsaved' = [op |-> "save", run |-> r]
         /\ (since # "cleanup" => since' = "handler") /\ UNCHANGED <<artifacts, db, mishaps>>
         /\ r \in DOMAIN eng'.runs
         /\ faults'.cancel = 0 => Full(eng')
         /\ \E t, P, J, S :
              /\ EngineOK(t) /\ Within(eng, t, r, J, S) /\ Begins(t, eng', P)
              /\ \A j \in J : "Completed" \in S => j \in Authors(artifacts)
<1>0. EngineOK(eng) /\ faults \in [crash : Nat, timeout : Nat, cancel : Nat, reload : Nat]
  BY IInvParts DEF IInvByVariable
<1>1. IInv'
  BY NextOK DEF SaveStep
<1>2. /\ unsaved = Nothing /\ unsaved' = [op |-> "save", run |-> r]
      /\ (since # "cleanup" => since' = "handler") /\ UNCHANGED <<artifacts, db, mishaps>>
  BY DEF SaveStep, Saving
<1>3. ASSUME NEW j, NEW S, NEW ev, Leads(r, j, S, ev), "Completed" \in S => j \in Authors(artifacts)
      PROVE  /\ r \in DOMAIN eng'.runs /\ Full(eng')
             /\ \E t, P, J, T :
                  /\ EngineOK(t) /\ Within(eng, t, r, J, T) /\ Begins(t, eng', P)
                  /\ \A i \in J : "Completed" \in T => i \in Authors(artifacts)
  <2>1. PICK t, P : EngineOK(t) /\ Within(eng, t, r, {j}, S) /\ Begins(t, eng', P)
    BY <1>3, LeadsAdvance
  <2>2. \A i \in {j} : "Completed" \in S => i \in Authors(artifacts)
    BY <1>3
  <2>3. r \in DOMAIN eng'.runs /\ Full(eng')
    BY <1>3, LeadsAdvance
  <2> QED BY <2>1, <2>2, <2>3
<1>4. ASSUME CancelRun(r)
      PROVE  /\ r \in DOMAIN eng'.runs
             /\ faults'.cancel = 0 => Full(eng')
             /\ \E t, P, J, S :
                  /\ EngineOK(t) /\ Within(eng, t, r, J, S) /\ Begins(t, eng', P)
                  /\ \A j \in J : "Completed" \in S => j \in Authors(artifacts)
  <2>1. PICK kept \in Listings(KeptEntries(eng, r)) : eng' = Cancel(eng, r, kept)
    BY <1>4 DEF CancelRun
  <2>2. /\ r \in DOMAIN eng.runs
        /\ faults'.cancel = faults.cancel + 1
    BY <1>0, <1>4 DEF CancelRun
  <2>3. /\ EngineOK(eng') /\ DOMAIN eng'.runs = DOMAIN eng.runs
        /\ Within(eng, eng', r, CancelledJobs(eng, r), {"Ready", "Failed"})
    BY <1>0, <2>1, <2>2, CancelWithin
  <2>4. Begins(eng', eng', {})
    BY BeginsNothing
  <2>5. /\ Within(eng, eng', r, CancelledJobs(eng, r), Failing)
        /\ \A j \in CancelledJobs(eng, r) : "Completed" \in Failing => j \in Authors(artifacts)
    BY <2>3 DEF Failing
  <2>6. faults'.cancel # 0
    BY <1>0, <2>2
  <2>7. \E t, P, J, S :
          /\ EngineOK(t) /\ Within(eng, t, r, J, S) /\ Begins(t, eng', P)
          /\ \A j \in J : "Completed" \in S => j \in Authors(artifacts)
    BY <2>3, <2>4, <2>5
  <2> QED BY <2>2, <2>3, <2>6, <2>7
<1>5. /\ r \in DOMAIN eng'.runs
      /\ faults'.cancel = 0 => Full(eng')
      /\ \E t, P, J, S :
           /\ EngineOK(t) /\ Within(eng, t, r, J, S) /\ Begins(t, eng', P)
           /\ \A j \in J : "Completed" \in S => j \in Authors(artifacts)
  <2>1. "Completed" \notin Failing
    BY DEF Failing
  <2> QED BY <1>3, <1>4, <2>1 DEF SaveStep
<1> QED BY <1>1, <1>2, <1>5

\* A run that is cleaned up leaves an engine in order.
LEMMA ForgetOK ==
  ASSUME NEW s, EngineOK(s), NEW r,
         JobsOf(s, r) \cap (s.active \cup Entries(s.queue)) = {}
  PROVE  LET t == Forget(s, r) IN
         /\ EngineOK(t)
         /\ DOMAIN t.jobs = DOMAIN s.jobs \ JobsOf(s, r)
         /\ \A j \in DOMAIN t.jobs : t.jobs[j] = s.jobs[j]
         /\ DOMAIN t.runs = DOMAIN s.runs \ {r}
         /\ \A q \in DOMAIN t.runs : t.runs[q] = s.runs[q]
         /\ t.queue = s.queue /\ t.active = s.active
         /\ t.nextJob = s.nextJob /\ t.nextRun = s.nextRun
<1> DEFINE t == Forget(s, r)
           ids == DOMAIN s.jobs \ JobsOf(s, r)
<1>0. EngineType(s) /\ HasFields(s)
  BY TypeParts DEF EngineOK
<1>1. /\ HasFields(t)
      /\ t.jobs = [j \in ids |-> s.jobs[j]]
      /\ t.runs = [q \in DOMAIN s.runs \ {r} |-> s.runs[q]]
      /\ t.queue = s.queue /\ t.active = s.active
      /\ t.nextJob = s.nextJob /\ t.nextRun = s.nextRun
  BY <1>0 DEF Forget, HasFields
<1> HIDE DEF t
<1>2. \A j \in ids : j \in DOMAIN s.jobs /\ s.jobs[j].run # r
  BY DEF JobsOf
<1>3. t.queue \in Seq(ids)
  <2> DEFINE all == DOMAIN s.jobs
             q == s.queue
  <2>1. q \in Seq(all)
    BY <1>0, TypeParts
  <2>2. \A i \in DOMAIN q : q[i] \in ids
    <3>1. Entries(q) \subseteq all
      <4> HIDE DEF all, q
      <4> QED BY <2>1, EntriesOfSeq
    <3> QED BY <3>1 DEF Entries
  <2> HIDE DEF all, q, ids
  <2>3. Len(q) \in Nat /\ DOMAIN q = 1..Len(q) /\ q = [i \in 1..Len(q) |-> q[i]]
    BY <2>1, LenProperties
  <2>4. q \in Seq(ids)
    BY <2>2, <2>3, IsASeq
  <2> QED BY <1>1, <2>4 DEF q
<1>4. t.active \subseteq ids
  <2>1. s.active \subseteq DOMAIN s.jobs
    BY <1>0, TypeParts
  <2> QED BY <1>1, <2>1
<1> HIDE DEF ids
<1>5. EngineType(t)
  <2>1. /\ \A j \in DOMAIN s.jobs : s.jobs[j] \in JobRecords /\ s.jobs[j].run \in DOMAIN s.runs
        /\ s.runs \in [DOMAIN s.runs -> RunStatus]
        /\ DOMAIN s.jobs \subseteq 1..s.nextJob - 1 /\ DOMAIN s.runs \subseteq 1..s.nextRun - 1
        /\ s.nextJob \in Nat \ {0} /\ s.nextRun \in Nat \ {0}
    BY <1>0, TypeParts DEF EngineType
  <2>2. t.jobs \in [ids -> JobRecords] /\ DOMAIN t.jobs = ids
    BY <1>1, <1>2, <2>1
  <2>3. t.runs \in [DOMAIN t.runs -> RunStatus] /\ DOMAIN t.runs = DOMAIN s.runs \ {r}
    BY <1>1, <2>1
  <2>4. \A j \in ids : t.jobs[j].run \in DOMAIN t.runs
    BY <1>1, <1>2, <2>1
  <2>5. ids \subseteq 1..t.nextJob - 1 /\ DOMAIN t.runs \subseteq 1..t.nextRun - 1
    BY <1>1, <1>2, <2>1, <2>3
  <2>6. t.nextJob \in Nat \ {0} /\ t.nextRun \in Nat \ {0} /\ t.active \in SUBSET ids
    BY <1>1, <1>4, <2>1
  <2> QED BY <1>1, <1>3, <2>2, <2>3, <2>4, <2>5, <2>6 DEF EngineType, HasFields
<1>6. RunningHoldSlots(t) /\ ReadyAreQueued(t)
  <2>1. DOMAIN t.jobs = ids /\ \A j \in ids : t.jobs[j] = s.jobs[j]
    BY <1>1
  <2>2. \A q \in DOMAIN s.runs \ {r} : t.runs[q] = s.runs[q]
    BY <1>1
  <2>3. \A j \in ids : s.jobs[j].run \in DOMAIN s.runs \ {r}
    BY <1>0, <1>2, TypeParts
  <2>4. RunningHoldSlots(t)
    BY <1>1, <1>2, <2>1 DEF EngineOK, RunningHoldSlots
  <2>5. ReadyAreQueued(t)
    BY <1>1, <1>2, <2>1, <2>2, <2>3 DEF EngineOK, ReadyAreQueued
  <2> QED BY <2>4, <2>5
<1>7. EngineOK(t)
  BY <1>1, <1>5, <1>6 DEF EngineOK
<1> QED BY <1>1, <1>7 DEF t, ids

LEMMA ExpireRunOK ==
  ASSUME IInv, NEW r, ExpireRun(r), ~UnderWay(r)
  PROVE  IInv'
<1>0. /\ EngineOK(eng) /\ managed \subseteq Handles(eng)
      /\ workers \subseteq WorkerType(DOMAIN eng.jobs)
      /\ events \subseteq EventType(DOMAIN eng.jobs)
      /\ faults \in [crash : Nat, timeout : Nat, cancel : Nat, reload : Nat]
  BY IInvParts DEF IInvByVariable
<1>1. /\ JobsOf(eng, r) \cap (eng.active \cup Entries(eng.queue)) = {}
      /\ \A w \in workers \cup events : w.job \notin JobsOf(eng, r)
  BY DEF UnderWay
<1>2. /\ eng' = Forget(eng, r) /\ stale' = {}
      /\ UNCHANGED <<managed, workers, events, faults, db>>
  BY DEF ExpireRun, Selecting
<1>3. /\ EngineOK(eng')
      /\ DOMAIN eng'.jobs = DOMAIN eng.jobs \ JobsOf(eng, r)
      /\ \A j \in DOMAIN eng'.jobs : eng'.jobs[j] = eng.jobs[j]
      /\ eng'.active = eng.active
      /\ eng'.nextJob = eng.nextJob /\ eng'.nextRun = eng.nextRun
  BY <1>0, <1>1, <1>2, ForgetOK
<1>4. managed' \subseteq Handles(eng')
  <2>1. eng'.active \subseteq DOMAIN eng'.jobs
    BY <1>3, TypeParts DEF EngineOK
  <2> QED BY <1>0, <1>2, <1>3, <2>1 DEF Handles, HasProfile
<1>5. workers' \subseteq WorkerType(DOMAIN eng'.jobs) /\ events' \subseteq EventType(DOMAIN eng'.jobs)
  <2>1. ASSUME NEW w \in workers PROVE w \in WorkerType(DOMAIN eng'.jobs)
    BY <1>0, <1>1, <1>3 DEF WorkerType
  <2>2. ASSUME NEW w \in events PROVE w \in EventType(DOMAIN eng'.jobs)
    BY <1>0, <1>1, <1>3 DEF EventType
  <2> QED BY <1>2, <2>1, <2>2
<1>6. IInvByVariable'
  BY <1>0, <1>2, <1>3, <1>4, <1>5 DEF IInvByVariable
<1> QED BY <1>6, IInvParts, PTL

-----------------------------------------------------------------------------
(* What holds through every crash, restart and write that was cut off.     *)

Faults == [crash : Nat, timeout : Nat, cancel : Nat, reload : Nat]
MishapCounts == [restart : Nat, save : Nat, delete : Nat, early : Nat]

\* The inductive invariant.  The store, the slots and the tables are in order
\* whatever happens.  The rest of Orchestrator's invariant holds from each start of
\* the daemon to the next cleanup of a run that has work under way; and then no
\* slot is free while a job is queued but for a fresh start and cancellations.
SafeInv ==
  /\ LooseOK(eng)
  /\ DbOK(db, eng)
  /\ faults \in Faults
  /\ mishaps \in MishapCounts
  /\ since \in {"start", "handler", "cleanup"}
  /\ mishaps.early = 0 => since # "cleanup"
  /\ since # "cleanup" => IInv /\ (faults.cancel = 0 => since = "start" \/ Full(eng))

\* The steps that are no handler's.
LEMMA Steps ==
  ASSUME IInv, [RNext]_rvars
  PROVE  \/ \E r : SaveStep(r)
         \/ \E j \in JobIds : StoreArtifact(j)
         \/ \E r \in RunIds : ExpireRun(r)
         \/ Persist
         \/ Unrecorded
         \/ CrashAndRestart
         \/ Shutdown
         \/ UNCHANGED rvars
<1>1. CASE HandleCommand
  BY <1>1, SaveSteps
<1>2. CASE \E e \in events : HandleReport(e)
  BY <1>2, SaveSteps
<1>3. CASE \E j \in stale : ExpireAndSave(j)
  BY <1>3, SaveSteps
<1> QED BY <1>1, <1>2, <1>3 DEF RNext

LEMMA UnrecordedStep ==
  ASSUME Unrecorded
  PROVE  [Next]_vars /\ UNCHANGED <<artifacts, db, unsaved, since, mishaps, eng>>
BY DEF Unrecorded, Next, CheckHeartbeats, WorkerCrash, BridgeClose, WorkerReport

\* What a crash or a shutdown starts the daemon from.
RestartFrom(d) ==
  /\ StartFrom(d)
  /\ mishaps' = [mishaps EXCEPT !.restart = @ + 1]
  /\ \/ d \in {db, WrittenOut} /\ UNCHANGED faults
     \/ /\ d = SaveRuns(db, AllCancelled, RunsInProgress) /\ unsaved = Nothing
        /\ faults' = [faults EXCEPT !.cancel = @ + 1]

LEMMA RestartSteps ==
  ASSUME CrashAndRestart \/ Shutdown
  PROVE  \E d : RestartFrom(d)
BY DEF CrashAndRestart, Shutdown, RestartFrom

LEMMA RestartFromOK ==
  ASSUME SafeInv, NEW d, RestartFrom(d)
  PROVE  /\ SafeInv' /\ DbOK(d, eng) /\ Restored(d, eng, eng')
         /\ db' = d /\ artifacts' = d.artifacts /\ unsaved' = Nothing
         /\ workers' = {} /\ events' = {} /\ stale' = {}
         /\ faults'.timeout = faults.timeout /\ faults'.cancel >= faults.cancel
         /\ mishaps'.save = mishaps.save /\ mishaps'.delete = mishaps.delete
         /\ mishaps'.early = mishaps.early
<1>0. StoreOK(eng) /\ faults \in Faults /\ mishaps \in MishapCounts
  BY DEF SafeInv, LooseOK
<1>1. DbOK(d, eng)
  <2>1. CASE d \in {db, WrittenOut} \cup TornPoints
    BY <1>0, <2>1, PersistOK DEF SafeInv
  <2>2. CASE d = SaveRuns(db, AllCancelled, RunsInProgress)
    BY <1>0, <2>2, ShutdownSavesOK DEF SafeInv
  <2> QED BY <2>1, <2>2 DEF RestartFrom
<1>2. /\ faults' \in Faults
      /\ faults'.timeout = faults.timeout /\ faults'.cancel >= faults.cancel
  BY <1>0 DEF RestartFrom, Faults
<1>3. IInv' /\ DbOK(db', eng') /\ Restored(d, eng, eng')
  BY <1>0, <1>1, <1>2, RestartOK DEF RestartFrom, Faults
<1>4. /\ mishaps' \in MishapCounts
      /\ mishaps'.save = mishaps.save /\ mishaps'.delete = mishaps.delete
      /\ mishaps'.early = mishaps.early
  BY <1>0 DEF RestartFrom, MishapCounts
<1>5. /\ db' = d /\ artifacts' = d.artifacts /\ unsaved' = Nothing /\ since' = "start"
      /\ workers' = {} /\ events' = {} /\ stale' = {}
  BY DEF RestartFrom, StartFrom
<1>6. LooseOK(eng')
  <2>1. EngineOK(eng')
    BY <1>3 DEF Restored
  <2>2. SlotsOK(eng')
    BY <2>1, FiniteIds DEF EngineOK, SlotsOK
  <2> QED BY <2>1, <2>2, TypedStore DEF EngineOK, LooseOK
<1>7. SafeInv'
  BY <1>2, <1>3, <1>4, <1>5, <1>6 DEF SafeInv
<1> QED BY <1>1, <1>2, <1>3, <1>4, <1>5, <1>7

LEMMA SafeInit == RInit => SafeInv
<1> SUFFICES ASSUME RInit PROVE SafeInv
  OBVIOUS
<1>1. /\ Init /\ db = [artifacts |-> {}, jobs |-> <<>>, runs |-> <<>>]
      /\ since = "start" /\ mishaps = [restart |-> 0, save |-> 0, delete |-> 0, early |-> 0]
  BY DEF RInit
<1>2. DOMAIN db.jobs = {} /\ DOMAIN db.runs = {}
  BY <1>1
<1>3. db.jobs \in [DOMAIN db.jobs -> JobRecords] /\ db.runs \in [DOMAIN db.runs -> RunStatus]
  BY <1>1, <1>2
<1>4. db \in [artifacts : {db.artifacts}, jobs : {db.jobs}, runs : {db.runs}]
  BY <1>1
<1>5. DbOK(db, eng)
  BY <1>2, <1>3, <1>4 DEF DbOK
<1>6. mishaps \in MishapCounts
  BY <1>1 DEF MishapCounts
<1>7. IInv
  BY <1>1, InitOK
<1>8. EngineOK(eng) /\ faults \in Faults
  BY <1>7, IInvParts DEF IInvByVariable, Faults
<1>9. LooseOK(eng)
  <2>1. SlotsOK(eng)
    BY <1>8, FiniteIds DEF EngineOK, SlotsOK
  <2> QED BY <1>8, <2>1, TypedStore DEF EngineOK, LooseOK
<1> QED BY <1>1, <1>5, <1>6, <1>7, <1>8, <1>9 DEF SafeInv

\* A cut-off write or an early cleanup is counted.
LEMMA CutOffCounts ==
  ASSUME mishaps \in MishapCounts, NEW op \in {"save", "delete"}, CutOff(op)
  PROVE  /\ mishaps' \in MishapCounts /\ mishaps'.early = mishaps.early
         /\ mishaps'[op] > 0
         /\ mishaps'.save >= mishaps.save /\ mishaps'.delete >= mishaps.delete
BY DEF CutOff, MishapCounts

LEMMA PersistCounts ==
  ASSUME mishaps \in MishapCounts, Persist
  PROVE  /\ mishaps' \in MishapCounts /\ mishaps'.early = mishaps.early
         /\ mishaps'.save >= mishaps.save /\ mishaps'.delete >= mishaps.delete
         /\ \/ db' = WrittenOut
            \/ db' \in TornPoints /\ unsaved.op = "save" /\ mishaps'.save > 0
            \/ db' \in TornPoints /\ unsaved.op = "delete" /\ mishaps'.delete > 0
<1>1. CASE UNCHANGED mishaps /\ db' = WrittenOut
  BY <1>1 DEF MishapCounts
<1>2. CASE db' \in TornPoints /\ CutOff(unsaved.op)
  <2>1. unsaved.op \notin {"save", "delete"} => TornPoints = {}
    BY DEF TornPoints, WrittenOut
  <2>2. unsaved.op \in {"save", "delete"}
    BY <1>2, <2>1
  <2> QED BY <1>2, <2>2, CutOffCounts
<1> QED BY <1>1, <1>2 DEF Persist

LEMMA StoreCounts ==
  ASSUME mishaps \in MishapCounts, NEW j, StoreArtifact(j)
  PROVE  /\ mishaps' \in MishapCounts /\ mishaps'.early = mishaps.early
         /\ mishaps'.save >= mishaps.save /\ mishaps'.delete = mishaps.delete
         /\ \/ db' = WriteArtifact(db, [job |-> j, run |-> RunOf(j)])
            \/ db' = db /\ mishaps'.save > 0
<1>1. CASE UNCHANGED mishaps /\ db' = WriteArtifact(db, [job |-> j, run |-> RunOf(j)])
  BY <1>1 DEF MishapCounts
<1>2. CASE CutOff("save") /\ db' = db
  <2>1. mishaps' = [mishaps EXCEPT !.save = @ + 1]
    BY <1>2 DEF CutOff
  <2> QED BY <1>2, <2>1 DEF MishapCounts
<1> QED BY <1>1, <1>2 DEF StoreArtifact

\* Cleanups of runs with work under way are counted and never forgotten.
LEMMA CleanupCounts ==
  ASSUME mishaps \in MishapCounts, NEW r, ExpireRun(r)
  PROVE  /\ mishaps' \in MishapCounts
         /\ mishaps'.save = mishaps.save /\ mishaps'.delete = mishaps.delete
         /\ mishaps'.early >= mishaps.early
         /\ \/ UnderWay(r) /\ since' = "cleanup" /\ mishaps'.early > 0
            \/ ~UnderWay(r) /\ UNCHANGED <<since, mishaps>>
BY DEF ExpireRun, MishapCounts

LEMMA WriteArtifactOK ==
  ASSUME NEW d, NEW s, DbOK(d, s), NEW a
  PROVE  LET e == WriteArtifact(d, a) IN
         DbOK(e, s) /\ e.jobs = d.jobs /\ e.runs = d.runs /\ e.artifacts = d.artifacts \cup {a}
<1> DEFINE e == WriteArtifact(d, a)
<1>1. d \in [artifacts : {d.artifacts}, jobs : {d.jobs}, runs : {d.runs}]
  BY DEF DbOK
<1>2. /\ e \in [artifacts : {e.artifacts}, jobs : {e.jobs}, runs : {e.runs}]
      /\ e.jobs = d.jobs /\ e.runs = d.runs /\ e.artifacts = d.artifacts \cup {a}
  BY <1>1 DEF WriteArtifact
<1> HIDE DEF e
<1>3. DbOK(e, s)
  BY <1>2 DEF DbOK
<1> QED BY <1>2, <1>3 DEF e

\* Scans and workers add to the counts of faults.
LEMMA UnrecordedFaults ==
  ASSUME LooseOK(eng), faults \in Faults, Unrecorded
  PROVE  faults' \in Faults /\ faults'.cancel = faults.cancel
<1>1. ASSUME NEW late \in SUBSET eng.active, CheckHeartbeats(late)
      PROVE  faults' \in Faults /\ faults'.cancel = faults.cancel
  <2> DEFINE wrong == {j \in late : ~Lost(j)}
  <2>1. Cardinality(wrong) \in Nat
    <3>1. wrong \subseteq eng.active /\ IsFiniteSet(eng.active)
      BY DEF LooseOK, SlotsOK
    <3>2. IsFiniteSet(wrong)
      BY <3>1, FS_Subset
    <3> QED BY <3>2, FS_CardinalityType
  <2>2. faults' = [faults EXCEPT !.timeout = @ + Cardinality(wrong)]
    BY <1>1 DEF CheckHeartbeats
  <2> HIDE DEF wrong
  <2> QED BY <2>1, <2>2 DEF Faults
<1>2. ASSUME NEW w \in workers, WorkerCrash(w)
      PROVE  faults' \in Faults /\ faults'.cancel = faults.cancel
  BY <1>2 DEF WorkerCrash, Faults
<1>3. ASSUME NEW w \in workers, BridgeClose(w) \/ \E o \in Outcomes : WorkerReport(w, o)
      PROVE  faults' \in Faults /\ faults'.cancel = faults.cancel
  BY <1>3 DEF BridgeClose, WorkerReport, Faults
<1> QED BY <1>1, <1>2, <1>3 DEF Unrecorded

\* The part that a cleanup does not disturb.
LEMMA LooseNext ==
  ASSUME SafeInv, [RNext]_rvars
  PROVE  /\ LooseOK(eng')
         /\ DbOK(db', eng')
         /\ faults' \in Faults
         /\ mishaps' \in MishapCounts
         /\ since' \in {"start", "handler", "cleanup"}
         /\ mishaps'.early = 0 => since' # "cleanup"
         /\ mishaps'.save >= mishaps.save /\ mishaps'.delete >= mishaps.delete
         /\ mishaps'.early >= mishaps.early
<1> DEFINE Goal ==
      /\ LooseOK(eng')
      /\ DbOK(db', eng')
      /\ faults' \in Faults
      /\ mishaps' \in MishapCounts
      /\ since' \in {"start", "handler", "cleanup"}
      /\ mishaps'.early = 0 => since' # "cleanup"
      /\ mishaps'.save >= mishaps.save /\ mishaps'.delete >= mishaps.delete
      /\ mishaps'.early >= mishaps.early
<1> HIDE DEF Goal
<1> SUFFICES Goal
  BY DEF Goal
<1>0. /\ LooseOK(eng) /\ DbOK(db, eng) /\ faults \in Faults /\ mishaps \in MishapCounts
      /\ since \in {"start", "handler", "cleanup"}
      /\ mishaps.early = 0 => since # "cleanup"
  BY DEF SafeInv
<1>00. /\ mishaps.save >= mishaps.save /\ mishaps.delete >= mishaps.delete
       /\ mishaps.early >= mishaps.early
  BY <1>0 DEF MishapCounts
<1>a. ASSUME LooseOK(eng'), Evolves(eng, eng'), db' = db PROVE DbOK(db', eng')
  BY <1>0, <1>a, EvolvesKeepsDb DEF LooseOK
<1>1. ASSUME NEW r, Saving(r), LooseOK(eng'), Evolves(eng, eng'), faults' \in Faults PROVE Goal
  <2>1. /\ db' = db /\ mishaps' = mishaps
        /\ since' = IF since = "cleanup" THEN "cleanup" ELSE "handler"
    BY <1>1 DEF Saving
  <2>2. DbOK(db', eng')
    BY <1>1, <1>a, <2>1
  <2> QED BY <1>0, <1>00, <1>1, <2>1, <2>2 DEF Goal
<1>2. CASE HandleCommand
  <2>1. LooseOK(eng') /\ Evolves(eng, eng')
    BY <1>0, <1>2, HandlerLoose
  <2>2. faults' \in Faults /\ \E r : Saving(r)
    BY <1>0, <1>2 DEF HandleCommand, SubmitRun, CancelRun, Faults
  <2>3. PICK r : Saving(r)
    BY <2>2
  <2> QED BY <1>1, <2>1, <2>2, <2>3
<1>3. CASE \E e \in events : HandleReport(e)
  <2>1. LooseOK(eng') /\ Evolves(eng, eng')
    BY <1>0, <1>3, HandlerLoose
  <2>2. faults' = faults /\ \E r : Saving(r)
    BY <1>3 DEF HandleReport, HandleCompleted, HandleFailed
  <2>3. PICK r : Saving(r)
    BY <2>2
  <2>4. faults' \in Faults
    BY <1>0, <2>2
  <2> QED BY <1>1, <2>1, <2>3, <2>4
<1>4. CASE \E j \in stale : ExpireAndSave(j)
  <2>1. LooseOK(eng') /\ Evolves(eng, eng')
    BY <1>0, <1>4, HandlerLoose
  <2>2. faults' = faults /\ \E r : Saving(r)
    BY <1>4 DEF ExpireAndSave, ExpireJob
  <2>3. PICK r : Saving(r)
    BY <2>2
  <2>4. faults' \in Faults
    BY <1>0, <2>2
  <2> QED BY <1>1, <2>1, <2>3, <2>4
<1>5. ASSUME NEW j \in JobIds, StoreArtifact(j) PROVE Goal
  <2>1. eng' = eng /\ faults' = faults /\ since' = since
    BY <1>5 DEF StoreArtifact, vars
  <2>2. DbOK(db', eng)
    <3>1. db' = WriteArtifact(db, [job |-> j, run |-> RunOf(j)]) \/ db' = db
      BY <1>5 DEF StoreArtifact
    <3>2. DbOK(WriteArtifact(db, [job |-> j, run |-> RunOf(j)]), eng)
      BY <1>0, WriteArtifactOK
    <3> QED BY <1>0, <3>1, <3>2
  <2>3. /\ mishaps' \in MishapCounts /\ mishaps'.early = mishaps.early
        /\ mishaps'.save >= mishaps.save /\ mishaps'.delete = mishaps.delete
    BY <1>0, <1>5, StoreCounts
  <2> QED BY <1>0, <1>00, <2>1, <2>2, <2>3 DEF Goal
<1>6. ASSUME NEW r \in RunIds, ExpireRun(r) PROVE Goal
  <2>1. LooseOK(eng') /\ Evolves(eng, eng')
    BY <1>0, <1>6, HandlerLoose
  <2>2. db' = db /\ faults' = faults
    BY <1>6 DEF ExpireRun
  <2>3. DbOK(db', eng')
    BY <1>a, <2>1, <2>2
  <2>4. /\ mishaps' \in MishapCounts
        /\ mishaps'.save = mishaps.save /\ mishaps'.delete = mishaps.delete
        /\ mishaps'.early >= mishaps.early
        /\ \/ since' = "cleanup" /\ mishaps'.early > 0
           \/ UNCHANGED <<since, mishaps>>
    BY <1>0, <1>6, CleanupCounts
  <2>5. mishaps'.early > 0 => mishaps'.early # 0
    BY <2>4 DEF MishapCounts
  <2> QED BY <1>0, <1>00, <2>1, <2>2, <2>3, <2>4, <2>5 DEF Goal
<1>7. CASE Persist
  <2>1. UNCHANGED <<vars, since>> /\ db' \in {db, WrittenOut} \cup TornPoints
    BY <1>7 DEF Persist
  <2>2. DbOK(db', eng)
    BY <1>0, <2>1, PersistOK DEF LooseOK
  <2>3. eng' = eng /\ faults' = faults /\ since' = since
    BY <2>1 DEF vars
  <2>4. /\ mishaps' \in MishapCounts /\ mishaps'.early = mishaps.early
        /\ mishaps'.save >= mishaps.save /\ mishaps'.delete >= mishaps.delete
    BY <1>0, <1>7, PersistCounts
  <2> QED BY <1>0, <1>00, <2>2, <2>3, <2>4 DEF Goal
<1>8. CASE Unrecorded
  <2>1. UNCHANGED <<db, since, mishaps, eng>>
    BY <1>8, UnrecordedStep
  <2>2. faults' \in Faults
    BY <1>0, <1>8, UnrecordedFaults
  <2> QED BY <1>0, <1>00, <2>1, <2>2 DEF Goal
<1>9. CASE CrashAndRestart \/ Shutdown
  <2>1. PICK d : RestartFrom(d)
    BY <1>9, RestartSteps
  <2>2. /\ SafeInv' /\ mishaps'.save = mishaps.save /\ mishaps'.delete = mishaps.delete
        /\ mishaps'.early = mishaps.early
    BY <2>1, RestartFromOK
  <2> QED BY <1>00, <2>2 DEF SafeInv, Goal
<1>10. CASE UNCHANGED rvars
  BY <1>0, <1>00, <1>10 DEF rvars, vars, Goal
<1>11. Goal
  <2>1. CASE \E j \in JobIds : StoreArtifact(j)
    BY <1>5, <2>1
  <2>2. CASE \E r \in RunIds : ExpireRun(r)
    BY <1>6, <2>2
  <2> QED BY Zenon, <1>2, <1>3, <1>4, <1>7, <1>8, <1>9, <1>10, <2>1, <2>2 DEF RNext
<1> QED BY <1>11

\* What holds until a cleanup removes a run with work under way.
LEMMA StrictNext ==
  ASSUME SafeInv, [RNext]_rvars, since' # "cleanup"
  PROVE  IInv' /\ (faults'.cancel = 0 => since' = "start" \/ Full(eng'))
<1> DEFINE Goal == IInv' /\ (faults'.cancel = 0 => since' = "start" \/ Full(eng'))
<1>1. CASE CrashAndRestart \/ Shutdown
  <2>1. PICK d : RestartFrom(d)
    BY <1>1, RestartSteps
  <2>2. SafeInv'
    BY <2>1, RestartFromOK
  <2> QED BY <2>2 DEF SafeInv
<1>2. CASE ~(CrashAndRestart \/ Shutdown)
  <2>0. since # "cleanup" /\ faults \in Faults /\ mishaps \in MishapCounts
    <3>1. faults \in Faults /\ mishaps \in MishapCounts
      BY DEF SafeInv
    <3>2. ASSUME NEW r, Saving(r) PROVE since # "cleanup"
      BY <3>2 DEF Saving
    <3>3. since # "cleanup"
      BY <1>2, <3>1, <3>2, CleanupCounts, UnrecordedStep
         DEF RNext, HandleCommand, HandleReport, ExpireAndSave, StoreArtifact, Persist, rvars
    <3> QED BY <3>1, <3>3
  <2>1. IInv /\ (faults.cancel = 0 => since = "start" \/ Full(eng))
    BY <2>0 DEF SafeInv
  <2>2. ASSUME NEW r, SaveStep(r) PROVE Goal
    BY <2>1, <2>2, SaveStepAdvances
  <2>3. ASSUME UNCHANGED <<vars, since>> PROVE Goal
    <3>1. [Next]_vars /\ eng' = eng /\ faults' = faults /\ since' = since
      BY <2>3 DEF vars
    <3> QED BY <2>1, <3>1, NextOK
  <2>4. ASSUME NEW j \in JobIds, StoreArtifact(j) PROVE Goal
    BY <2>3, <2>4 DEF StoreArtifact
  <2>5. ASSUME NEW r \in RunIds, ExpireRun(r) PROVE Goal
    <3>1. ~UnderWay(r) /\ UNCHANGED <<since, faults>> /\ eng' = Forget(eng, r)
      BY <2>0, <2>5, CleanupCounts DEF ExpireRun
    <3>2. IInv'
      BY <2>1, <2>5, <3>1, ExpireRunOK
    <3>3. eng'.queue = eng.queue /\ eng'.active = eng.active
      <4>1. StoreOK(eng)
        BY DEF SafeInv, LooseOK
      <4> QED BY <3>1, <4>1, ForgetAmends
    <3> QED BY <2>1, <3>1, <3>2, <3>3 DEF Full
  <2>6. CASE Persist
    BY <2>3, <2>6 DEF Persist
  <2>7. CASE Unrecorded
    <3>1. [Next]_vars /\ UNCHANGED <<since, eng>>
      BY <2>7, UnrecordedStep
    <3>2. IInv' /\ faults'.cancel = faults.cancel
      <4>1. LooseOK(eng)
        BY DEF SafeInv
      <4> QED BY <2>0, <2>1, <2>7, <3>1, <4>1, NextOK, UnrecordedFaults
    <3> QED BY <2>1, <3>1, <3>2
  <2>8. CASE UNCHANGED rvars
    BY <2>3, <2>8 DEF rvars
  <2> HIDE DEF Goal
  <2> QED BY <1>2, <2>1, <2>2, <2>4, <2>5, <2>6, <2>7, <2>8, Steps DEF Goal
<1> QED BY <1>1, <1>2

LEMMA SafeNext == SafeInv /\ [RNext]_rvars => SafeInv'
<1> SUFFICES ASSUME SafeInv, [RNext]_rvars PROVE SafeInv'
  OBVIOUS
<1>1. /\ LooseOK(eng') /\ DbOK(db', eng') /\ faults' \in Faults /\ mishaps' \in MishapCounts
      /\ since' \in {"start", "handler", "cleanup"}
      /\ mishaps'.early = 0 => since' # "cleanup"
  BY LooseNext
<1>2. since' # "cleanup" => IInv' /\ (faults'.cancel = 0 => since' = "start" \/ Full(eng'))
  BY StrictNext
<1> QED BY <1>1, <1>2 DEF SafeInv

LEMMA SafeInvariance == RSpec => []SafeInv
BY SafeInit, SafeNext, PTL DEF RSpec

\* Crashes, restarts from half-written tables and shutdowns leave the engine and
\* the daemon's maps as well-formed as handlers do: no id that hydration reads
\* refers to a job or run that is not stored.  Only a cleanup of a run that has
\* work under way leaves such ids behind, and they are gone at the next start.
THEOREM RecoveryTypeCorrect == RSpec => [](since # "cleanup" => TypeOK)
<1>1. SafeInv => (since # "cleanup" => TypeOK)
  BY DEF SafeInv, IInv
<1> QED BY <1>1, SafeInvariance, PTL

\* They leak no slot and no worker handle either, since what hydration revives
\* holds none.  The concurrency limit holds through every cleanup too.
THEOREM RecoverySlotAccounting ==
  RSpec => []((since # "cleanup" => SlotsMatchJobs /\ StaleHoldSlots) /\ SlotLimit)
<1>1. SafeInv => (since # "cleanup" => SlotsMatchJobs /\ StaleHoldSlots) /\ SlotLimit
  BY DEF SafeInv, IInv, LooseOK, SlotsOK, SlotLimit
<1> QED BY <1>1, SafeInvariance, PTL

\* After any number of restarts, wherever saves were cut off, each Ready job of a
\* run that was not cancelled is in the queue, up to a cleanup as above.
THEOREM RecoveryReadyJobsAreQueued == RSpec => [](since # "cleanup" => NoLostReady)
<1>1. SafeInv => (since # "cleanup" => NoLostReady)
  BY DEF SafeInv, IInv
<1> QED BY <1>1, SafeInvariance, PTL

\* As long as no run is cancelled, a slot is free beside a queued job only between
\* a start of the daemon and its first handler, and after a cleanup as above.
THEOREM SlotsIdleOnlyAtStartup == RSpec => []IdleOnlyAtStartup
<1>1. SafeInv => IdleOnlyAtStartup
  BY DEF SafeInv, IdleOnlyAtStartup, Full
<1> QED BY <1>1, SafeInvariance, PTL

-----------------------------------------------------------------------------
(* What holds until a save is cut off or a cleanup comes early.            *)

Saves(r) == unsaved.op = "save" /\ unsaved.run = r
Deletes(r) == unsaved.op = "delete" /\ unsaved.run = r

\* An artifact in the tables has its job there, of the same run.
ArtifactRows(d) == \A a \in d.artifacts : a.job \in DOMAIN d.jobs /\ d.jobs[a.job].run = a.run

\* So has each job in memory, but for those of the run that is to be saved; and what
\* is to be deleted has left memory.
RowsOK ==
  /\ ArtifactRows(db)
  /\ \A j \in DOMAIN eng.jobs : j \in DOMAIN db.jobs \/ Saves(eng.jobs[j].run)
  /\ unsaved.op = "delete" => unsaved.run \notin DOMAIN eng.runs

RowsInv == SafeInv /\ (mishaps.save = 0 /\ mishaps.early = 0 => RowsOK)

\* The strict part of the invariant as long as no cleanup comes early.
LEMMA StrictOK ==
  ASSUME SafeInv
  PROVE  /\ StoreOK(eng) /\ DbOK(db, eng) /\ faults \in Faults /\ mishaps \in MishapCounts
         /\ mishaps.early = 0 => /\ since # "cleanup" /\ IInv /\ EngineOK(eng)
                                 /\ workers \subseteq WorkerType(DOMAIN eng.jobs)
                                 /\ events \subseteq EventType(DOMAIN eng.jobs)
BY IInvParts DEF SafeInv, LooseOK, IInvByVariable

\* Mishaps are never forgotten.
LEMMA MishapsGrow ==
  ASSUME SafeInv, [RNext]_rvars
  PROVE  /\ SafeInv'
         /\ mishaps'.save = 0 => mishaps.save = 0
         /\ mishaps'.delete = 0 => mishaps.delete = 0
         /\ mishaps'.early = 0 => mishaps.early = 0
<1>1. SafeInv' /\ mishaps \in MishapCounts
  BY SafeNext DEF SafeInv
<1>2. mishaps.save \in Nat /\ mishaps.delete \in Nat /\ mishaps.early \in Nat
  BY <1>1 DEF MishapCounts
<1>3. /\ mishaps'.save >= mishaps.save /\ mishaps'.delete >= mishaps.delete
      /\ mishaps'.early >= mishaps.early
  BY LooseNext
<1>4. /\ mishaps'.save = 0 => mishaps.save = 0
      /\ mishaps'.delete = 0 => mishaps.delete = 0
      /\ mishaps'.early = 0 => mishaps.early = 0
  BY <1>2, <1>3
<1> QED BY <1>1, <1>4

\* A write leaves an artifact only with its job, unless it is a save that is cut off.
LEMMA WrittenRows ==
  ASSUME SafeInv, RowsOK,
         NEW e, e = WrittenOut \/ (e \in TornPoints /\ unsaved.op = "delete")
  PROVE  ArtifactRows(e) /\ DOMAIN eng.jobs \subseteq DOMAIN e.jobs
<1>0. StoreOK(eng) /\ DbOK(db, eng) /\ \A j \in DOMAIN eng.jobs : eng.jobs[j].run \in DOMAIN eng.runs
  BY StrictOK, StoreParts
<1>1. CASE e = WrittenOut /\ unsaved.op = "save" /\ unsaved.run \in DOMAIN eng.runs
  <2> DEFINE r == unsaved.run
             J == {j \in DOMAIN eng.jobs : eng.jobs[j].run \in {r}}
  <2>1. e = SaveRuns(db, eng, {r}) /\ {r} \in SUBSET DOMAIN eng.runs
    BY <1>1 DEF WrittenOut, SaveRun
  <2>2. Written(db, e, eng, {r}, J)
    BY <1>0, <2>1, SaveRunsOK
  <2>3. \A j \in DOMAIN eng.jobs : j \in J <=> Saves(eng.jobs[j].run)
    BY <1>1 DEF Saves
  <2>4. J \subseteq DOMAIN eng.jobs
    OBVIOUS
  <2> HIDE DEF J, r
  <2>5. DOMAIN eng.jobs \subseteq DOMAIN e.jobs
    BY <2>2, <2>3 DEF Written, RowsOK
  <2>6. ASSUME NEW a \in e.artifacts PROVE a.job \in DOMAIN e.jobs /\ e.jobs[a.job].run = a.run
    <3>1. a.job \in DOMAIN db.jobs /\ db.jobs[a.job].run = a.run
      BY <2>2 DEF Written, RowsOK, ArtifactRows
    <3>2. a.job \in DOMAIN eng.jobs => eng.jobs[a.job].run = db.jobs[a.job].run
      BY <1>0, <3>1 DEF DbOK
    <3> QED BY <2>2, <2>4, <3>1, <3>2 DEF Written
  <2> QED BY <2>5, <2>6 DEF ArtifactRows
<1>2. CASE unsaved.op = "delete"
  <2> DEFINE r == unsaved.run
  <2>1. \E n \in 0..3 : e = DeletePoint(db, r, n)
    BY <1>2 DEF WrittenOut, TornPoints
  <2>2. Deleted(db, e, r)
    BY <1>0, <2>1, DeleteOK
  <2>3. r \notin DOMAIN eng.runs /\ \A j \in DOMAIN eng.jobs : j \in DOMAIN db.jobs
    BY <1>2 DEF RowsOK, Saves
  <2>4. \A j \in DOMAIN eng.jobs : db.jobs[j].run # r
    BY <1>0, <2>3 DEF DbOK
  <2> HIDE DEF r
  <2>5. DOMAIN eng.jobs \subseteq DOMAIN e.jobs
    BY <2>2, <2>3, <2>4 DEF Deleted
  <2>6. ArtifactRows(e)
    BY <2>2 DEF Deleted, RowsOK, ArtifactRows
  <2> QED BY <2>5, <2>6
<1>3. CASE e = WrittenOut /\ ~(unsaved.op = "save" /\ unsaved.run \in DOMAIN eng.runs)
           /\ unsaved.op # "delete"
  <2>1. e = db
    BY <1>3 DEF WrittenOut, SaveRun
  <2>2. DOMAIN eng.jobs \subseteq DOMAIN db.jobs
    BY <1>0, <1>3 DEF RowsOK, Saves
  <2> QED BY <2>1, <2>2 DEF RowsOK
<1> QED BY <1>1, <1>2, <1>3

\* A shutdown saves whole runs.
LEMMA ShutdownRows ==
  ASSUME SafeInv, RowsOK
  PROVE  ArtifactRows(SaveRuns(db, AllCancelled, RunsInProgress))
<1> DEFINE t == AllCancelled
           e == SaveRuns(db, t, RunsInProgress)
           J == {j \in DOMAIN eng.jobs : eng.jobs[j].run \in RunsInProgress}
<1>1. StoreOK(eng) /\ DbOK(db, eng)
  BY StrictOK
<1>2. CancelledInto(eng, t) /\ Written(db, e, t, RunsInProgress, J)
  BY <1>1, AllCancelledOK, ShutdownSavesOK
<1>3. J \subseteq DOMAIN eng.jobs
  OBVIOUS
<1> HIDE DEF e, t, J
<1>4. ASSUME NEW a \in e.artifacts PROVE a.job \in DOMAIN e.jobs /\ e.jobs[a.job].run = a.run
  <2>1. a.job \in DOMAIN db.jobs /\ db.jobs[a.job].run = a.run
    BY <1>2 DEF Written, RowsOK, ArtifactRows
  <2>2. a.job \in DOMAIN eng.jobs => t.jobs[a.job].run = db.jobs[a.job].run
    BY <1>1, <1>2, <2>1 DEF DbOK, CancelledInto, SameJob
  <2> QED BY <1>2, <1>3, <2>1, <2>2 DEF Written
<1> QED BY <1>4 DEF ArtifactRows, e, t

LEMMA RowsInit == RInit => RowsInv
<1> SUFFICES ASSUME RInit PROVE RowsInv
  OBVIOUS
<1>1. /\ unsaved = Nothing /\ eng = EmptyEngine
      /\ db = [artifacts |-> {}, jobs |-> <<>>, runs |-> <<>>]
  BY DEF RInit, Init
<1>2. db.artifacts = {} /\ DOMAIN eng.jobs = {}
  BY <1>1 DEF EmptyEngine
<1> QED BY <1>1, <1>2, SafeInit DEF RowsInv, RowsOK, ArtifactRows, Nothing

LEMMA RowsNext == RowsInv /\ [RNext]_rvars => RowsInv'
<1> SUFFICES ASSUME RowsInv, [RNext]_rvars, mishaps'.save = 0, mishaps'.early = 0 PROVE RowsOK'
  BY SafeNext DEF RowsInv
<1>0. /\ SafeInv /\ RowsOK /\ mishaps.save = 0 /\ mishaps.early = 0
      /\ mishaps \in MishapCounts /\ IInv /\ EngineOK(eng) /\ DbOK(db, eng) /\ StoreOK(eng)
      /\ events \subseteq EventType(DOMAIN eng.jobs)
  BY MishapsGrow, StrictOK DEF RowsInv
<1>1. ASSUME NEW r, SaveStep(r) PROVE RowsOK'
  <2>1. /\ unsaved' = [op |-> "save", run |-> r] /\ unsaved = Nothing /\ db' = db
        /\ \E t, P, J, S : Within(eng, t, r, J, S) /\ Begins(t, eng', P)
    BY <1>0, <1>1, SaveStepAdvances
  <2>2. PICK t, P, J, S : Within(eng, t, r, J, S) /\ Begins(t, eng', P)
    BY <2>1
  <2>3. \A j \in DOMAIN eng'.jobs : j \in DOMAIN eng.jobs \/ eng'.jobs[j].run = r
    <3>1. /\ DOMAIN eng'.jobs = DOMAIN t.jobs
          /\ \A j \in DOMAIN t.jobs : eng'.jobs[j].run = t.jobs[j].run
      BY <2>2 DEF Begins
    <3> QED BY <2>2, <3>1 DEF Within, Newcomers
  <2>4. \A j \in DOMAIN eng.jobs : j \in DOMAIN db.jobs
    BY <1>0, <2>1 DEF RowsOK, Saves, Nothing
  <2>5. unsaved'.op = "save" /\ unsaved'.run = r
    BY <2>1
  <2> QED BY <1>0, <2>1, <2>3, <2>4, <2>5 DEF RowsOK, ArtifactRows, Saves
<1>2. ASSUME NEW j \in JobIds, StoreArtifact(j) PROVE RowsOK'
  <2> DEFINE artifact == [job |-> j, run |-> RunOf(j)]
  <2>1. UNCHANGED <<eng, unsaved>> /\ unsaved = Nothing /\ \E e \in events : e.job = j
        /\ db' \in {db, WriteArtifact(db, artifact)}
    BY <1>2 DEF StoreArtifact, vars
  <2>2. db'.jobs = db.jobs /\ db'.artifacts \subseteq db.artifacts \cup {artifact}
    BY <1>0, <2>1, WriteArtifactOK
  <2>3. j \in DOMAIN eng.jobs
    BY <1>0, <2>1 DEF EventType
  <2>4. j \in DOMAIN db.jobs
    BY <1>0, <2>1, <2>3 DEF RowsOK, Saves, Nothing
  <2>5. artifact.job = j /\ artifact.run = db.jobs[j].run
    BY <1>0, <2>3, <2>4 DEF RunOf, DbOK
  <2> HIDE DEF artifact
  <2>6. ArtifactRows(db')
    BY <1>0, <2>2, <2>4, <2>5 DEF RowsOK, ArtifactRows
  <2> QED BY <1>0, <2>1, <2>2, <2>6 DEF RowsOK, ArtifactRows, Saves
<1>3. ASSUME NEW r \in RunIds, ExpireRun(r) PROVE RowsOK'
  <2>1. /\ db' = db /\ unsaved = Nothing /\ unsaved' = [op |-> "delete", run |-> r]
        /\ eng' = Forget(eng, r)
    BY <1>3 DEF ExpireRun
  <2>2. /\ DOMAIN eng'.jobs \subseteq DOMAIN eng.jobs
        /\ r \notin DOMAIN eng'.runs
    <3>1. HasFields(eng)
      BY <1>0, StoreParts
    <3>2. /\ eng'.jobs = [j \in DOMAIN eng.jobs \ JobsOf(eng, r) |-> eng.jobs[j]]
          /\ eng'.runs = [q \in DOMAIN eng.runs \ {r} |-> eng.runs[q]]
      BY <2>1, <3>1 DEF Forget, HasFields
    <3> QED BY <3>2
  <2>3. unsaved'.op = "delete" /\ unsaved'.run = r
    BY <2>1
  <2>4. \A j \in DOMAIN eng.jobs : j \in DOMAIN db.jobs
    BY <1>0, <2>1 DEF RowsOK, Saves, Nothing
  <2> QED BY <1>0, <2>1, <2>2, <2>3, <2>4 DEF RowsOK, ArtifactRows
<1>4. CASE Persist
  <2>1. UNCHANGED eng /\ unsaved' = Nothing
    BY <1>4 DEF Persist, vars
  <2>2. db' = WrittenOut \/ (db' \in TornPoints /\ unsaved.op = "delete")
    BY <1>0, <1>4, PersistCounts
  <2>3. ArtifactRows(db') /\ DOMAIN eng.jobs \subseteq DOMAIN db'.jobs
    BY <1>0, <2>2, WrittenRows
  <2> QED BY <2>1, <2>3 DEF RowsOK, ArtifactRows, Nothing
<1>5. CASE Unrecorded
  <2>1. UNCHANGED <<db, unsaved, eng>>
    BY <1>5, UnrecordedStep
  <2> QED BY <1>0, <2>1 DEF RowsOK, ArtifactRows, Saves
<1>6. CASE CrashAndRestart \/ Shutdown
  <2>1. PICK d : RestartFrom(d)
    BY <1>6, RestartSteps
  <2>2. db' = d /\ unsaved' = Nothing /\ DOMAIN eng'.jobs = DOMAIN d.jobs
    BY <1>0, <2>1, RestartFromOK DEF Restored
  <2>3. ArtifactRows(d)
    <3>1. CASE d = db
      BY <1>0, <3>1 DEF RowsOK
    <3>2. CASE d = WrittenOut
      BY <1>0, <3>2, WrittenRows
    <3>3. CASE d = SaveRuns(db, AllCancelled, RunsInProgress)
      BY <1>0, <3>3, ShutdownRows
    <3> QED BY <2>1, <3>1, <3>2, <3>3 DEF RestartFrom
  <2> QED BY <2>2, <2>3 DEF RowsOK, ArtifactRows, Nothing
<1>7. CASE UNCHANGED rvars
  <2>1. UNCHANGED <<db, unsaved, eng>>
    BY <1>7 DEF rvars, vars
  <2> QED BY <1>0, <2>1 DEF RowsOK, ArtifactRows, Saves
<1> QED BY <1>0, <1>1, <1>2, <1>3, <1>4, <1>5, <1>6, <1>7, Steps

LEMMA RowsInvariance == RSpec => []RowsInv
BY RowsInit, RowsNext, PTL DEF RSpec

\* Wherever saves and cleanups were cut off, no job is left, in the tables or in
\* memory, whose run is gone.  As long as no save was cut off and no run with work
\* under way was cleaned up, no artifact is left in the tables whose job is gone,
\* so that a cleanup that was cut off can be done again.
THEOREM NoRowIsOrphaned == RSpec => []NoOrphanRows
<1>1. RowsInv => NoOrphanRows
  <2> SUFFICES ASSUME RowsInv PROVE NoOrphanRows
    OBVIOUS
  <2>1. \A j \in DOMAIN db.jobs : db.jobs[j].run \in DOMAIN db.runs
    BY StrictOK DEF RowsInv, DbOK
  <2>2. \A j \in DOMAIN eng.jobs : eng.jobs[j].run \in DOMAIN eng.runs
    BY StrictOK, StoreParts DEF RowsInv
  <2> QED BY <2>1, <2>2 DEF RowsInv, RowsOK, ArtifactRows, NoOrphanRows
<1> QED BY <1>1, RowsInvariance, PTL

-----------------------------------------------------------------------------
(* What holds until a save or a cleanup is cut off, or a cleanup is early. *)

Whole == NothingCutOff /\ mishaps.early = 0

\* Tables and memory hold the same jobs and runs, but for those of the run that
\* the last handler has yet to save or to delete.
DomainsOK ==
  /\ unsaved.op \in {"none", "save", "delete"}
  /\ unsaved.op = "save" => unsaved.run \in DOMAIN eng.runs
  /\ unsaved.op = "delete" => unsaved.run \notin DOMAIN eng.runs
  /\ \A j \in DOMAIN db.jobs : j \in DOMAIN eng.jobs \/ Deletes(db.jobs[j].run)
  /\ \A j \in DOMAIN eng.jobs : j \in DOMAIN db.jobs \/ Saves(eng.jobs[j].run)
  /\ \A r \in DOMAIN db.runs : r \in DOMAIN eng.runs \/ Deletes(r)
  /\ \A r \in DOMAIN eng.runs : r \in DOMAIN db.runs \/ Saves(r)

\* A job of the tables that is Completed has an artifact, and artifacts have jobs.
TableOutputs(d) ==
  /\ ArtifactRows(d)
  /\ \A j \in DOMAIN d.jobs : d.jobs[j].status = "Completed" => j \in Authors(d.artifacts)

\* The same of memory, whose artifacts are in the tables already.
OutputsOK ==
  /\ TableOutputs(db)
  /\ artifacts \subseteq db.artifacts
  /\ \A a \in artifacts : a.job \in DOMAIN eng.jobs /\ eng.jobs[a.job].run = a.run
  /\ \A j \in DOMAIN eng.jobs : eng.jobs[j].status = "Completed" => j \in Authors(artifacts)

OutputInv == SafeInv /\ (Whole => DomainsOK /\ OutputsOK)

LEMMA AuthorsOf == ASSUME NEW A, NEW a \in A PROVE a.job \in Authors(A)
BY DEF Authors

LEMMA AuthorsGrow ==
  ASSUME NEW A, NEW B, A \subseteq B
  PROVE  Authors(A) \subseteq Authors(B)
BY DEF Authors

\* The end of a save or a cleanup that was not cut off.
LEMMA WrittenOutOK ==
  ASSUME SafeInv, DomainsOK, OutputsOK
  PROVE  /\ DbOK(WrittenOut, eng)
         /\ DOMAIN WrittenOut.jobs = DOMAIN eng.jobs
         /\ DOMAIN WrittenOut.runs = DOMAIN eng.runs
         /\ artifacts \subseteq WrittenOut.artifacts
         /\ TableOutputs(WrittenOut)
         /\ \A j \in DOMAIN eng.jobs :
              WrittenOut.jobs[j] = IF Saves(eng.jobs[j].run) THEN eng.jobs[j] ELSE db.jobs[j]
         /\ \A r \in DOMAIN eng.runs :
              WrittenOut.runs[r] = IF Saves(r) THEN eng.runs[r] ELSE db.runs[r]
<1> DEFINE e == WrittenOut
<1>0. StoreOK(eng) /\ DbOK(db, eng)
      /\ \A j \in DOMAIN eng.jobs : eng.jobs[j].run \in DOMAIN eng.runs
  BY StrictOK, StoreParts
<1>a. RowsOK
  BY DEF DomainsOK, OutputsOK, TableOutputs, RowsOK
<1>b. ArtifactRows(e)
  BY <1>a, WrittenRows
<1>1. DbOK(e, eng)
  BY <1>0, PersistOK
<1>2. CASE unsaved.op = "save"
  <2> DEFINE r == unsaved.run
             J == {j \in DOMAIN eng.jobs : eng.jobs[j].run \in {r}}
  <2>1. r \in DOMAIN eng.runs
    BY <1>2 DEF DomainsOK
  <2>2. e = SaveRuns(db, eng, {r})
    BY <1>2, <2>1 DEF WrittenOut, SaveRun
  <2>3. Written(db, e, eng, {r}, J)
    BY <1>0, <2>1, <2>2, SaveRunsOK
  <2> HIDE DEF e
  <2>4. \A j \in DOMAIN eng.jobs : j \in J <=> Saves(eng.jobs[j].run)
    BY <1>2 DEF Saves
  <2>5. \A q : Saves(q) <=> q \in {r}
    BY <1>2 DEF Saves
  <2>6. /\ J \subseteq DOMAIN eng.jobs
        /\ \A j \in DOMAIN db.jobs : j \in DOMAIN eng.jobs
        /\ \A q \in DOMAIN db.runs : q \in DOMAIN eng.runs
    BY <1>2 DEF DomainsOK, Deletes
  <2> HIDE DEF J, r
  <2>7. DOMAIN e.jobs = DOMAIN eng.jobs
    BY <2>3, <2>4, <2>6 DEF Written, DomainsOK
  <2>8. DOMAIN e.runs = DOMAIN eng.runs
    BY <2>1, <2>3, <2>5, <2>6 DEF Written, DomainsOK
  <2>9. /\ \A j \in DOMAIN eng.jobs :
             e.jobs[j] = IF Saves(eng.jobs[j].run) THEN eng.jobs[j] ELSE db.jobs[j]
        /\ \A q \in DOMAIN eng.runs : e.runs[q] = IF Saves(q) THEN eng.runs[q] ELSE db.runs[q]
    BY <2>3, <2>4, <2>5, <2>7, <2>8 DEF Written
  <2>10. TableOutputs(e)
    <3>1. e.artifacts = db.artifacts /\ DOMAIN db.jobs \subseteq DOMAIN e.jobs
      BY <2>3 DEF Written
    <3>2. ASSUME NEW j \in DOMAIN e.jobs, e.jobs[j].status = "Completed"
          PROVE  j \in Authors(db.artifacts)
      <4>1. CASE j \in J
        BY <2>3, <2>6, <3>2, <4>1, AuthorsGrow DEF Written, OutputsOK
      <4>2. CASE j \notin J
        BY <2>3, <3>2, <4>2 DEF Written, OutputsOK, TableOutputs
      <4> QED BY <4>1, <4>2
    <3> QED BY <1>b, <3>1, <3>2 DEF TableOutputs, e
  <2>11. artifacts \subseteq e.artifacts
    BY <2>3 DEF Written, OutputsOK
  <2> QED BY <1>1, <2>7, <2>8, <2>9, <2>10, <2>11 DEF e
<1>3. CASE unsaved.op = "delete"
  <2> DEFINE r == unsaved.run
  <2>1. e = DeletePoint(db, r, 3) /\ r \notin DOMAIN eng.runs
    BY <1>3 DEF WrittenOut, DomainsOK
  <2>2. /\ Deleted(db, e, r) /\ r \notin DOMAIN e.runs
        /\ \A j \in DOMAIN e.jobs : db.jobs[j].run # r
    <3>1. 3 \in 0..3
      OBVIOUS
    <3> HIDE DEF e, r
    <3>2. DbOK(db, eng)
      BY <1>0
    <3> DEFINE f == DeletePoint(db, r, 3)
    <3>3. /\ Deleted(db, f, r) /\ r \notin DOMAIN f.runs
          /\ \A j \in DOMAIN f.jobs : db.jobs[j].run # r
      BY <3>1, <3>2, DeleteOK
    <3> QED BY <2>1, <3>3
  <2> HIDE DEF e
  <2>3. (\A q : ~Saves(q)) /\ \A q : Deletes(q) <=> q = r
    BY <1>3 DEF Saves, Deletes
  <2>4. \A j \in DOMAIN eng.jobs : j \in DOMAIN db.jobs /\ eng.jobs[j].run # r
                                   /\ db.jobs[j].run = eng.jobs[j].run
    BY <1>0, <2>1, <2>3 DEF DomainsOK, DbOK
  <2> HIDE DEF r
  <2>5. DOMAIN e.jobs = DOMAIN eng.jobs
    <3>1. ASSUME NEW j \in DOMAIN e.jobs PROVE j \in DOMAIN eng.jobs
      <4>1. j \in DOMAIN db.jobs /\ db.jobs[j].run # r
        BY <2>2 DEF Deleted
      <4> QED BY <2>3, <4>1 DEF DomainsOK
    <3>2. ASSUME NEW j \in DOMAIN eng.jobs PROVE j \in DOMAIN e.jobs
      BY <2>2, <2>4 DEF Deleted
    <3> QED BY <3>1, <3>2
  <2>6. DOMAIN e.runs = DOMAIN eng.runs
    <3>1. ASSUME NEW q \in DOMAIN e.runs PROVE q \in DOMAIN eng.runs
      <4>1. q \in DOMAIN db.runs /\ q # r
        BY <2>2 DEF Deleted
      <4> QED BY <2>3, <4>1 DEF DomainsOK
    <3>2. ASSUME NEW q \in DOMAIN eng.runs PROVE q \in DOMAIN e.runs
      <4>1. q \in DOMAIN db.runs /\ q # r
        BY <2>1, <2>3 DEF DomainsOK
      <4> QED BY <2>2, <4>1 DEF Deleted
    <3> QED BY <3>1, <3>2
  <2>7. TableOutputs(e)
    <3>1. ASSUME NEW j \in DOMAIN e.jobs, e.jobs[j].status = "Completed"
          PROVE  j \in Authors(e.artifacts)
      <4>1. j \in DOMAIN db.jobs /\ db.jobs[j] = e.jobs[j] /\ db.jobs[j].run # r
        BY <2>2 DEF Deleted
      <4>2. PICK a \in db.artifacts : a.job = j
        BY <3>1, <4>1 DEF OutputsOK, TableOutputs, Authors
      <4>3. a.run = db.jobs[j].run
        BY <4>2 DEF OutputsOK, TableOutputs, ArtifactRows
      <4>4. a \in e.artifacts
        BY <2>2, <4>1, <4>3 DEF Deleted
      <4> QED BY <4>2, <4>4, AuthorsOf
    <3> QED BY <1>b, <3>1 DEF TableOutputs, e
  <2>8. artifacts \subseteq e.artifacts
    <3>1. ASSUME NEW a \in artifacts PROVE a \in e.artifacts
      <4>1. a \in db.artifacts /\ a.job \in DOMAIN eng.jobs /\ eng.jobs[a.job].run = a.run
        BY DEF OutputsOK
      <4> QED BY <2>2, <2>4, <4>1 DEF Deleted
    <3> QED BY <3>1
  <2>9. /\ \A j \in DOMAIN eng.jobs : e.jobs[j] = db.jobs[j]
        /\ \A q \in DOMAIN eng.runs : e.runs[q] = db.runs[q]
    BY <2>2, <2>5, <2>6 DEF Deleted
  <2> QED BY <1>1, <2>3, <2>5, <2>6, <2>7, <2>8, <2>9 DEF e
<1>4. CASE unsaved.op = "none"
  <2>1. e = db /\ (\A q : ~Saves(q)) /\ \A q : ~Deletes(q)
    BY <1>4 DEF WrittenOut, Saves, Deletes
  <2> HIDE DEF e
  <2>2. DOMAIN db.jobs = DOMAIN eng.jobs /\ DOMAIN db.runs = DOMAIN eng.runs
    BY <2>1 DEF DomainsOK
  <2> QED BY <1>1, <2>1, <2>2 DEF OutputsOK, e
<1> QED BY <1>2, <1>3, <1>4 DEF DomainsOK

\* Between two handlers nothing is left to write.
LEMMA NothingUnsaved ==
  ASSUME DomainsOK, unsaved = Nothing
  PROVE  /\ DOMAIN db.jobs = DOMAIN eng.jobs /\ DOMAIN db.runs = DOMAIN eng.runs
         /\ \A r : ~Saves(r) /\ ~Deletes(r)
BY DEF DomainsOK, Nothing, Saves, Deletes

\* The tables a shutdown starts the daemon from.
LEMMA ShutdownOutputs ==
  ASSUME SafeInv, DomainsOK, OutputsOK, unsaved = Nothing
  PROVE  LET e == SaveRuns(db, AllCancelled, RunsInProgress) IN
         /\ DOMAIN e.jobs = DOMAIN eng.jobs /\ DOMAIN e.runs = DOMAIN eng.runs
         /\ TableOutputs(e)
<1> DEFINE t == AllCancelled
           e == SaveRuns(db, t, RunsInProgress)
           J == {j \in DOMAIN eng.jobs : eng.jobs[j].run \in RunsInProgress}
<1>1. StoreOK(eng) /\ DbOK(db, eng)
  BY StrictOK
<1>2. CancelledInto(eng, t) /\ Written(db, e, t, RunsInProgress, J)
  BY <1>1, AllCancelledOK, ShutdownSavesOK
<1>a. ArtifactRows(e)
  BY ShutdownRows DEF DomainsOK, OutputsOK, TableOutputs, RowsOK
<1> HIDE DEF e, t
<1>3. DOMAIN db.jobs = DOMAIN eng.jobs /\ DOMAIN db.runs = DOMAIN eng.runs
  BY NothingUnsaved
<1>4. J \subseteq DOMAIN eng.jobs /\ RunsInProgress \subseteq DOMAIN eng.runs
  BY DEF RunsInProgress
<1> HIDE DEF J
<1>5. DOMAIN e.jobs = DOMAIN eng.jobs /\ DOMAIN e.runs = DOMAIN eng.runs
  BY <1>2, <1>3, <1>4 DEF Written
<1>6. ASSUME NEW j \in DOMAIN e.jobs, e.jobs[j].status = "Completed"
      PROVE  j \in Authors(db.artifacts)
  <2>1. CASE j \in J
    <3>1. e.jobs[j] = t.jobs[j] /\ j \in DOMAIN eng.jobs
      BY <1>2, <1>5, <2>1 DEF Written
    <3>2. t.jobs[j] = eng.jobs[j]
      BY <1>2, <1>6, <3>1 DEF CancelledInto
    <3> QED BY <1>6, <3>1, <3>2, AuthorsGrow DEF OutputsOK
  <2>2. CASE j \notin J
    BY <1>2, <1>3, <1>5, <1>6, <2>2 DEF Written, OutputsOK, TableOutputs
  <2> QED BY <2>1, <2>2
<1>7. TableOutputs(e)
  <2>1. e.artifacts = db.artifacts
    BY <1>2 DEF Written
  <2> QED BY <1>a, <1>6, <2>1 DEF TableOutputs
<1> QED BY <1>5, <1>7 DEF e, t

LEMMA OutputInit == RInit => OutputInv
<1> SUFFICES ASSUME RInit PROVE OutputInv
  OBVIOUS
<1>1. SafeInv
  BY SafeInit
<1>2. /\ artifacts = {} /\ unsaved = Nothing /\ eng = EmptyEngine
      /\ db = [artifacts |-> {}, jobs |-> <<>>, runs |-> <<>>]
  BY DEF RInit, Init
<1>3. /\ DOMAIN db.jobs = {} /\ DOMAIN db.runs = {} /\ db.artifacts = {}
      /\ DOMAIN eng.jobs = {} /\ DOMAIN eng.runs = {}
  BY <1>2 DEF EmptyEngine
<1>4. DomainsOK
  BY <1>2, <1>3 DEF DomainsOK, Nothing
<1>5. OutputsOK
  BY <1>2, <1>3 DEF OutputsOK, TableOutputs, ArtifactRows
<1> QED BY <1>1, <1>4, <1>5 DEF OutputInv

LEMMA OutputNext == OutputInv /\ [RNext]_rvars => OutputInv'
<1> SUFFICES ASSUME OutputInv, [RNext]_rvars, Whole' PROVE DomainsOK' /\ OutputsOK'
  BY SafeNext DEF OutputInv
<1>0. /\ SafeInv /\ Whole /\ DomainsOK /\ OutputsOK
      /\ mishaps'.save = 0 /\ mishaps'.delete = 0 /\ mishaps'.early = 0
  BY MishapsGrow DEF OutputInv, Whole, NothingCutOff
<1>00. /\ IInv /\ EngineOK(eng) /\ StoreOK(eng) /\ DbOK(db, eng) /\ mishaps \in MishapCounts
       /\ events \subseteq EventType(DOMAIN eng.jobs)
  BY <1>0, StrictOK DEF Whole
<1>1. ASSUME NEW r, SaveStep(r) PROVE DomainsOK' /\ OutputsOK'
  <2>1. /\ unsaved = Nothing /\ unsaved' = [op |-> "save", run |-> r]
        /\ UNCHANGED <<artifacts, db, mishaps>>
        /\ r \in DOMAIN eng'.runs
        /\ \E t, P, J, S :
             /\ EngineOK(t) /\ Within(eng, t, r, J, S) /\ Begins(t, eng', P)
             /\ \A j \in J : "Completed" \in S => j \in Authors(artifacts)
    BY <1>00, <1>1, SaveStepAdvances
  <2>2. PICK t, P, J, S :
             /\ Within(eng, t, r, J, S) /\ Begins(t, eng', P)
             /\ \A j \in J : "Completed" \in S => j \in Authors(artifacts)
    BY <2>1
  <2>4. DOMAIN db.jobs = DOMAIN eng.jobs /\ DOMAIN db.runs = DOMAIN eng.runs
    BY <1>0, <2>1, NothingUnsaved
  <2>5. /\ DOMAIN eng.jobs \subseteq DOMAIN eng'.jobs /\ DOMAIN eng.runs \subseteq DOMAIN eng'.runs
        /\ \A j \in DOMAIN eng'.jobs \ DOMAIN eng.jobs : eng'.jobs[j].run = r
        /\ \A q \in DOMAIN eng'.runs \ DOMAIN eng.runs : q = r
    <3>1. /\ DOMAIN eng.jobs \subseteq DOMAIN t.jobs /\ DOMAIN eng.runs \subseteq DOMAIN t.runs
          /\ DOMAIN t.runs \subseteq DOMAIN eng.runs \cup {r}
          /\ \A j \in DOMAIN t.jobs \ DOMAIN eng.jobs : t.jobs[j].run = r
      BY <2>2 DEF Within, Newcomers
    <3>2. /\ DOMAIN eng'.jobs = DOMAIN t.jobs /\ DOMAIN eng'.runs = DOMAIN t.runs
          /\ \A j \in DOMAIN t.jobs : eng'.jobs[j].run = t.jobs[j].run
      BY <2>2 DEF Begins
    <3> QED BY <3>1, <3>2
  <2>6. unsaved'.op = "save" /\ unsaved'.run = r
    BY <2>1
  <2>7. DomainsOK'
    BY <2>1, <2>4, <2>5, <2>6 DEF DomainsOK, Saves, Deletes
  <2>8. ASSUME NEW j \in DOMAIN eng'.jobs, eng'.jobs[j].status = "Completed"
        PROVE  j \in Authors(artifacts)
    <3>1. j \in DOMAIN t.jobs /\ t.jobs[j].status = "Completed"
      BY <2>2, <2>8 DEF Begins
    <3>2. j \in DOMAIN eng.jobs
      BY <2>2, <3>1 DEF Within, Newcomers
    <3>3. \/ t.jobs[j].status = eng.jobs[j].status
          \/ j \in J /\ t.jobs[j].status \in S
      BY <2>2, <3>1, <3>2 DEF Within
    <3> QED BY <1>0, <2>2, <3>1, <3>2, <3>3 DEF OutputsOK
  <2>9. \A j \in DOMAIN eng.jobs : eng'.jobs[j].run = eng.jobs[j].run
    <3>1. \A j \in DOMAIN t.jobs : eng'.jobs[j].run = t.jobs[j].run
      BY <2>2 DEF Begins
    <3> QED BY <2>2, <3>1 DEF Within, SameJob
  <2>10. OutputsOK'
    BY <1>0, <2>1, <2>5, <2>8, <2>9 DEF OutputsOK, TableOutputs, ArtifactRows
  <2> QED BY <2>7, <2>10
<1>2. ASSUME NEW j \in JobIds, StoreArtifact(j) PROVE DomainsOK' /\ OutputsOK'
  <2> DEFINE artifact == [job |-> j, run |-> RunOf(j)]
  <2>1. /\ UNCHANGED <<eng, unsaved>> /\ unsaved = Nothing
        /\ artifacts' = artifacts \cup {artifact}
        /\ \E e \in events : e.job = j
    BY <1>2 DEF StoreArtifact, vars
  <2>2. db' = WriteArtifact(db, artifact)
    BY <1>0, <1>00, <1>2, StoreCounts
  <2>3. db'.jobs = db.jobs /\ db'.runs = db.runs /\ db'.artifacts = db.artifacts \cup {artifact}
    BY <1>00, <2>2, WriteArtifactOK
  <2>4. j \in DOMAIN eng.jobs /\ j \in DOMAIN db.jobs /\ db.jobs[j].run = eng.jobs[j].run
    BY <1>0, <1>00, <2>1, NothingUnsaved DEF EventType, DbOK
  <2>5. artifact.job = j /\ artifact.run = eng.jobs[j].run
    BY <2>4 DEF RunOf
  <2> HIDE DEF artifact
  <2>6. DomainsOK'
    BY <1>0, <2>1, <2>3 DEF DomainsOK, Saves, Deletes
  <2>7. /\ Authors(artifacts) \subseteq Authors(artifacts')
        /\ Authors(db.artifacts) \subseteq Authors(db'.artifacts)
    BY <2>1, <2>3, AuthorsGrow
  <2>8. TableOutputs(db')
    BY <1>0, <2>3, <2>4, <2>5, <2>7 DEF OutputsOK, TableOutputs, ArtifactRows
  <2>9. OutputsOK'
    BY <1>0, <2>1, <2>3, <2>4, <2>5, <2>7, <2>8 DEF OutputsOK
  <2> QED BY <2>6, <2>9
<1>3. ASSUME NEW r \in RunIds, ExpireRun(r) PROVE DomainsOK' /\ OutputsOK'
  <2>1. /\ db' = db /\ unsaved = Nothing /\ unsaved' = [op |-> "delete", run |-> r]
        /\ artifacts' = artifacts \ ArtifactsOf(artifacts, r)
        /\ eng' = Forget(eng, r)
    BY <1>3 DEF ExpireRun
  <2>2. JobsOf(eng, r) \cap (eng.active \cup Entries(eng.queue)) = {}
    <3>1. mishaps'.early = 0
      BY <1>0
    <3>2. ~UnderWay(r)
      BY <1>00, <1>3, <3>1, CleanupCounts DEF MishapCounts
    <3> QED BY <3>2 DEF UnderWay
  <2>3. DOMAIN db.jobs = DOMAIN eng.jobs /\ DOMAIN db.runs = DOMAIN eng.runs
    BY <1>0, <2>1, NothingUnsaved
  <2>4. /\ DOMAIN eng'.jobs = DOMAIN eng.jobs \ JobsOf(eng, r)
        /\ \A j \in DOMAIN eng'.jobs : eng'.jobs[j] = eng.jobs[j]
        /\ DOMAIN eng'.runs = DOMAIN eng.runs \ {r}
    BY <1>00, <2>1, <2>2, ForgetOK
  <2>5. unsaved'.op = "delete" /\ unsaved'.run = r
    BY <2>1
  <2>6. \A j \in DOMAIN eng.jobs : j \in JobsOf(eng, r) => db.jobs[j].run = r
    BY <1>00, <2>3 DEF JobsOf, DbOK
  <2>7. DomainsOK'
    BY <2>1, <2>3, <2>4, <2>5, <2>6 DEF DomainsOK, Saves, Deletes
  <2>8. ASSUME NEW j \in DOMAIN eng'.jobs, eng'.jobs[j].status = "Completed"
        PROVE  j \in Authors(artifacts')
    <3>1. j \in DOMAIN eng.jobs /\ eng.jobs[j].status = "Completed" /\ eng.jobs[j].run # r
      BY <2>4, <2>8 DEF JobsOf
    <3>2. PICK a \in artifacts : a.job = j
      BY <1>0, <3>1 DEF OutputsOK, Authors
    <3>3. a \in artifacts'
      BY <1>0, <2>1, <3>1, <3>2 DEF OutputsOK, ArtifactsOf
    <3> QED BY <3>2, <3>3, AuthorsOf
  <2>9. ASSUME NEW a \in artifacts'
        PROVE  a \in db.artifacts /\ a.job \in DOMAIN eng'.jobs /\ eng'.jobs[a.job].run = a.run
    <3>1. a \in artifacts /\ a.run # r
      BY <2>1 DEF ArtifactsOf
    <3> QED BY <1>0, <2>4, <3>1 DEF OutputsOK, JobsOf
  <2>10. OutputsOK'
    BY <1>0, <2>1, <2>8, <2>9 DEF OutputsOK, TableOutputs, ArtifactRows
  <2> QED BY <2>7, <2>10
<1>4. ASSUME NEW d, UNCHANGED <<eng, artifacts>>, unsaved' = Nothing, db' = WrittenOut
      PROVE  DomainsOK' /\ OutputsOK'
  <2>2. /\ DOMAIN db'.jobs = DOMAIN eng.jobs /\ DOMAIN db'.runs = DOMAIN eng.runs
        /\ artifacts \subseteq db'.artifacts /\ TableOutputs(db')
    BY <1>0, <1>4, WrittenOutOK
  <2>3. DomainsOK'
    BY <1>4, <2>2 DEF DomainsOK, Nothing
  <2>4. OutputsOK'
    BY <1>0, <1>4, <2>2 DEF OutputsOK, TableOutputs, ArtifactRows
  <2> QED BY <2>3, <2>4
<1>5. CASE Persist
  <2>1. UNCHANGED <<eng, artifacts>> /\ unsaved' = Nothing
    BY <1>5 DEF Persist, vars
  <2>2. db' = WrittenOut
    BY <1>0, <1>00, <1>5, PersistCounts
  <2> QED BY <1>4, <2>1, <2>2
<1>6. CASE Unrecorded
  <2>1. UNCHANGED <<artifacts, db, unsaved, mishaps, eng>>
    BY <1>6, UnrecordedStep
  <2> QED BY <1>0, <2>1 DEF DomainsOK, OutputsOK, TableOutputs, ArtifactRows, Saves, Deletes
<1>7. CASE CrashAndRestart \/ Shutdown
  <2>1. PICK d : RestartFrom(d)
    BY <1>7, RestartSteps
  <2>2. /\ DbOK(d, eng) /\ Restored(d, eng, eng')
        /\ db' = d /\ artifacts' = d.artifacts /\ unsaved' = Nothing
    BY <1>0, <2>1, RestartFromOK
  <2>3. \/ d \in {db, WrittenOut}
        \/ d = SaveRuns(db, AllCancelled, RunsInProgress) /\ unsaved = Nothing
    BY <2>1 DEF RestartFrom
  <2>5. TableOutputs(d)
    BY <1>0, <2>3, WrittenOutOK, ShutdownOutputs DEF OutputsOK
  <2>6. DOMAIN eng'.jobs = DOMAIN d.jobs /\ DOMAIN eng'.runs = DOMAIN d.runs
    BY <2>2 DEF Restored
  <2>7. \A j \in DOMAIN eng'.jobs : eng'.jobs[j].status = "Completed" => d.jobs[j].status = "Completed"
    BY <2>2, RevivedOK DEF Restored
  <2>8. DomainsOK'
    BY <2>2, <2>6 DEF DomainsOK, Nothing
  <2>9. \A j \in DOMAIN d.jobs : eng'.jobs[j].run = d.jobs[j].run
    BY <2>2, RevivedOK DEF Restored
  <2>10. OutputsOK'
    BY <2>2, <2>5, <2>6, <2>7, <2>9 DEF OutputsOK, TableOutputs, ArtifactRows
  <2> QED BY <2>8, <2>10
<1>8. CASE UNCHANGED rvars
  <2>1. UNCHANGED <<artifacts, db, unsaved, mishaps, eng>>
    BY <1>8 DEF rvars, vars
  <2> QED BY <1>0, <2>1 DEF DomainsOK, OutputsOK, TableOutputs, ArtifactRows, Saves, Deletes
<1> QED BY <1>00, <1>1, <1>2, <1>3, <1>5, <1>6, <1>7, <1>8, Steps

LEMMA OutputInvariance == RSpec => []OutputInv
BY OutputInit, OutputNext, PTL DEF RSpec

\* Until a save is cut off or a cleanup comes early, each job that the tables hold
\* as Completed has its output there, through any crashes, timeouts, cancellations,
\* late reports and cleanups: a completion is only handled when its artifact is
\* stored.
THEOREM NoOutputIsLost == RSpec => [](mishaps.early = 0 => OutputsAreSaved)
<1>1. OutputInv => (mishaps.early = 0 => OutputsAreSaved)
  BY DEF OutputInv, OutputsOK, TableOutputs, OutputsAreSaved, Whole
<1> QED BY <1>1, OutputInvariance, PTL

-----------------------------------------------------------------------------
(* A daemon that times out no live worker.                                 *)

\* No timeout has hit a live worker's job, and no cleanup a run with work under way.
Unbroken == faults.timeout = 0 /\ mishaps.early = 0

-----------------------------------------------------------------------------
(* Reports.                                                                *)

\* The reports in W are about the attempt in hand of a job that is under way or
\* was cancelled, and not in the queue; there is one for each such job at most.
Steady(s, W) ==
  \A w \in W :
    /\ w.job \in DOMAIN s.jobs
    /\ w.attempt = s.jobs[w.job].attempt
    /\ s.jobs[w.job].status \in {"Ready", "Running", "Failed"}
    /\ w.job \notin Entries(s.queue)
    /\ \A v \in W : v.job = w.job => v = w

\* The spawn loop starts jobs that nothing was heard of, and launches each of
\* them once.
LEMMA DispatchSteady ==
  ASSUME NEW s, EngineOK(s), QueueOK(s), NEW m, NEW ev, Steady(s, workers \cup ev), Dispatch(s, m, ev)
  PROVE  /\ QueueOK(eng') /\ Steady(eng', workers' \cup events')
         /\ \E P : /\ Begins(s, eng', P)
                   /\ \A w \in workers' \cup events' : w \in workers \cup ev \/ w.job \in P
<1>1. PICK n \in 0..Len(s.queue) :
        /\ PopsExactly(s, n)
        /\ eng' = StartPopped(s, n)
        /\ workers' = workers \cup {w \in Launched(s, n) : HasProfile(s, w.job)}
        /\ events' = ev \cup {[job |-> w.job, attempt |-> w.attempt, outcome |-> "failed"] :
                                w \in {v \in Launched(s, n) : ~HasProfile(s, v.job)}}
  BY DEF Dispatch
<1> DEFINE P == Popped(s, n)
<1>2. EngineOK(eng') /\ Starts(s, eng', P) /\ Begins(s, eng', P)
  BY <1>1, StartPoppedOK, StartPoppedStarts, StartPoppedBegins DEF EngineOK
<1> HIDE DEF P
<1>3. P \subseteq Entries(s.queue) /\ Entries(s.queue) \subseteq DOMAIN s.jobs
      /\ \A j \in Entries(s.queue) : s.jobs[j].status = "Ready"
  BY <1>2, TypeParts, EntriesOfSeq DEF Begins, EngineOK, QueueOK
<1>4. QueueOK(eng') /\ Entries(eng'.queue) = Entries(s.queue) \ P
  <2>1. Distinct(eng'.queue) /\ Entries(eng'.queue) = Entries(s.queue) \ P
    BY <1>2, <1>3 DEF Starts, QueueOK
  <2> QED BY <1>2, <1>3, <2>1 DEF QueueOK, Starts
<1>5. ASSUME NEW w \in workers' \cup events'
      PROVE  w \in workers \cup ev \/ (w.job \in P /\ w = ReportOf(s, w.job))
  <2>1. CASE w \in Launched(s, n) /\ HasProfile(s, w.job)
    BY <2>1, LaunchedOnce DEF ReportOf, P
  <2>2. ASSUME NEW v \in Launched(s, n), ~HasProfile(s, v.job),
               w = [job |-> v.job, attempt |-> v.attempt, outcome |-> "failed"]
        PROVE  w.job \in P /\ w = ReportOf(s, w.job)
    <3>1. v.job \in P /\ v = [job |-> v.job, attempt |-> s.jobs[v.job].attempt + 1]
      BY LaunchedOnce DEF P
    <3>2. v.attempt = s.jobs[v.job].attempt + 1
      BY <3>1
    <3>3. w.job = v.job
      BY <2>2
    <3> QED BY <2>2, <3>1, <3>2, <3>3 DEF ReportOf
  <2> QED BY <1>1, <2>1, <2>2
<1>6. /\ \A j \in P : eng'.jobs[j].status = "Running" /\ eng'.jobs[j].attempt = s.jobs[j].attempt + 1
      /\ \A j \in DOMAIN s.jobs \ P : eng'.jobs[j] = s.jobs[j]
      /\ DOMAIN eng'.jobs = DOMAIN s.jobs /\ P \subseteq DOMAIN s.jobs
  BY <1>2 DEF Starts, Begins
<1>7. \A v \in workers \cup ev : v.job \notin P
  BY <1>3 DEF Steady
<1>8. Steady(eng', workers' \cup events')
  <2> SUFFICES ASSUME NEW w \in workers' \cup events'
               PROVE  /\ w.job \in DOMAIN s.jobs
                      /\ w.attempt = eng'.jobs[w.job].attempt
                      /\ eng'.jobs[w.job].status \in {"Ready", "Running", "Failed"}
                      /\ w.job \notin Entries(eng'.queue)
                      /\ \A v \in workers' \cup events' : v.job = w.job => v = w
    BY <1>6 DEF Steady
  <2>1. CASE w \in workers \cup ev
    <3>1. w.job \in DOMAIN s.jobs /\ w.job \notin P /\ eng'.jobs[w.job] = s.jobs[w.job]
      BY <1>6, <1>7, <2>1 DEF Steady
    <3>2. \A v \in workers' \cup events' : v.job = w.job => v = w
      BY <1>5, <2>1, <3>1 DEF Steady
    <3> QED BY <1>4, <2>1, <3>1, <3>2 DEF Steady
  <2>2. CASE w.job \in P /\ w = ReportOf(s, w.job)
    <3>1. w.attempt = s.jobs[w.job].attempt + 1
      <4>1. ReportOf(s, w.job).attempt = s.jobs[w.job].attempt + 1
        BY DEF ReportOf
      <4> QED BY <2>2, <4>1
    <3>2. \A v \in workers' \cup events' : v.job = w.job => v = w
      BY <1>5, <1>7, <2>2
    <3> QED BY <1>4, <1>6, <2>2, <3>1, <3>2
  <2> QED BY <1>5, <2>1, <2>2
<1> QED BY <1>2, <1>4, <1>5, <1>8

\* A handler that settles a job of which nothing more is to be heard.
LEMMA LeadsSteady ==
  ASSUME IInv, IInv', QueueOK(eng), Steady(eng, workers \cup events), Silent,
         NEW r, NEW j, NEW S, NEW ev \in SUBSET events, Leads(r, j, S, ev),
         j \notin Entries(eng.queue), \A w \in workers \cup ev : w.job # j,
         stale' \subseteq stale \ {j}
  PROVE  /\ QueueOK(eng') /\ Steady(eng', workers' \cup events') /\ Silent'
         /\ \E t, P : /\ EngineOK(t) /\ QueueOK(t) /\ DepsKept(eng, t, j)
                      /\ Within(eng, t, r, {j}, S) /\ Begins(t, eng', P)
<1>1. PICK t : /\ EngineOK(t) /\ r \in DOMAIN t.runs
               /\ Within(eng, t, r, {j}, S)
               /\ QueueKept(eng, t, j) /\ DepsKept(eng, t, j)
               /\ Dispatch(t, managed \ {j}, ev)
  BY DEF Leads
<1>2. /\ QueueOK(t)
      /\ \A i \in Entries(t.queue) \cap DOMAIN eng.jobs :
           i \in Entries(eng.queue) \/ i = j \/ eng.jobs[i].status = "Pending"
  BY <1>1 DEF QueueKept
<1>3. Steady(t, workers \cup ev)
  <2> SUFFICES ASSUME NEW w \in workers \cup ev
               PROVE  /\ w.job \in DOMAIN t.jobs
                      /\ w.attempt = t.jobs[w.job].attempt
                      /\ t.jobs[w.job].status \in {"Ready", "Running", "Failed"}
                      /\ w.job \notin Entries(t.queue)
                      /\ \A v \in workers \cup ev : v.job = w.job => v = w
    BY DEF Steady
  <2>1. /\ w.job \in DOMAIN eng.jobs /\ w.attempt = eng.jobs[w.job].attempt
        /\ eng.jobs[w.job].status \in {"Ready", "Running", "Failed"}
        /\ w.job \notin Entries(eng.queue) /\ w.job # j
        /\ \A v \in workers \cup ev : v.job = w.job => v = w
    BY DEF Steady
  <2>2. w.job \in DOMAIN t.jobs /\ t.jobs[w.job].attempt = eng.jobs[w.job].attempt
        /\ (t.jobs[w.job].status = eng.jobs[w.job].status \/ t.jobs[w.job].status = "Ready")
    BY <1>1, <2>1 DEF Within, SameJob
  <2> QED BY <1>2, <2>1, <2>2
<1>4. QueueOK(eng') /\ Steady(eng', workers' \cup events')
  BY <1>1, <1>2, <1>3, DispatchSteady
<1>5. PICK P : /\ Begins(t, eng', P)
               /\ \A w \in workers' \cup events' : w \in workers \cup ev \/ w.job \in P
  BY <1>1, <1>2, <1>3, DispatchSteady
<1>6. Silent'
  <2>1. stale \subseteq DOMAIN eng.jobs /\ \A i \in stale : eng.jobs[i].status = "Running"
    BY IInvParts, TypeParts DEF IInvByVariable, EngineOK, RunningHoldSlots
  <2>2. \A i \in stale' : i \in DOMAIN t.jobs /\ t.jobs[i].status = "Running"
    BY <1>1, <2>1 DEF Within
  <2>3. \A i \in P : t.jobs[i].status = "Ready"
    BY <1>2, <1>5 DEF Begins, QueueOK
  <2>4. ASSUME NEW w \in workers' \cup events' PROVE w.job \notin stale'
    BY <1>5, <2>2, <2>3 DEF Silent
  <2> QED BY <2>4 DEF Silent
<1> QED BY <1>1, <1>2, <1>4, <1>5, <1>6

-----------------------------------------------------------------------------
(* What a handler leaves behind for the run it saves.                      *)

\* Reports, queue and stale list as they are while no timeout was wrong.
InOrder == QueueOK(eng) /\ Steady(eng, workers \cup events) /\ Silent

\* t is s but for run r, and no finished work of that run was touched.
Keeps(s, t, r) ==
  /\ \A i \in DOMAIN s.jobs :
       /\ i \in DOMAIN t.jobs /\ t.jobs[i].run = s.jobs[i].run
       /\ t.jobs[i] = s.jobs[i] \/ (s.jobs[i].run = r /\ s.jobs[i].status # "Completed")
  /\ \A i \in Newcomers(s, t) : i >= s.nextJob
  /\ DOMAIN t.runs \subseteq DOMAIN s.runs \cup {r}
  /\ \A q \in DOMAIN s.runs \ {r} : t.runs[q] = s.runs[q]

\* The handler's work on run r, and then the jobs P that it starts.
Moves(r) ==
  \E t, P : /\ EngineOK(t) /\ QueueOK(t)
            /\ Keeps(eng, t, r) /\ Begins(t, eng', P)
            /\ (BadPlans => Plain) /\ faults'.cancel = 0 /\ DepsDone(eng.jobs) => DepsDone(t.jobs)

LEMMA SameJobEqual ==
  ASSUME NEW a \in JobRecords, NEW b \in JobRecords, SameJob(a, b), a.status = b.status
  PROVE  a = b
BY DEF SameJob, JobRecords

LEMMA WithinKeeps ==
  ASSUME NEW s, NEW t, EngineOK(s), EngineOK(t), NEW r, NEW J, NEW S, Within(s, t, r, J, S),
         \A i \in J \cap DOMAIN s.jobs : s.jobs[i].status # "Completed"
  PROVE  Keeps(s, t, r)
<1>1. ASSUME NEW i \in DOMAIN s.jobs
      PROVE  /\ i \in DOMAIN t.jobs /\ t.jobs[i].run = s.jobs[i].run
             /\ t.jobs[i] = s.jobs[i] \/ (s.jobs[i].run = r /\ s.jobs[i].status # "Completed")
  <2>1. i \in DOMAIN t.jobs /\ SameJob(t.jobs[i], s.jobs[i])
    BY DEF Within
  <2>2. t.jobs[i] \in JobRecords /\ s.jobs[i] \in JobRecords
    BY <2>1, TypeParts DEF EngineOK
  <2>3. \/ t.jobs[i].status = s.jobs[i].status
        \/ s.jobs[i].run = r /\ i \in J
        \/ s.jobs[i].run = r /\ s.jobs[i].status = "Pending"
    BY DEF Within
  <2>4. t.jobs[i].status = s.jobs[i].status => t.jobs[i] = s.jobs[i]
    BY <2>1, <2>2, SameJobEqual
  <2> QED BY <2>1, <2>3, <2>4 DEF SameJob
<1> QED BY <1>1 DEF Keeps, Within

\* A handler that settles a job that was under way, or none.
LEMMA LeadsMoves ==
  ASSUME IInv, IInv', InOrder, NEW r, NEW j, NEW S, NEW ev \in SUBSET events, Leads(r, j, S, ev),
         j \notin Entries(eng.queue), \A w \in workers \cup ev : w.job # j,
         stale' \subseteq stale \ {j},
         j \in DOMAIN eng.jobs => eng.jobs[j].status \in {"Ready", "Running", "Failed"}
  PROVE  InOrder' /\ Moves(r)
<1>1. QueueOK(eng') /\ Steady(eng', workers' \cup events') /\ Silent'
  BY LeadsSteady DEF InOrder
<1>2. PICK t, P : /\ EngineOK(t) /\ QueueOK(t) /\ DepsKept(eng, t, j)
                  /\ Within(eng, t, r, {j}, S) /\ Begins(t, eng', P)
  BY LeadsSteady DEF InOrder
<1>3. EngineOK(eng)
  BY IInvParts DEF IInvByVariable
<1>4. Keeps(eng, t, r)
  BY <1>2, <1>3, WithinKeeps
<1>5. (BadPlans => Plain) /\ DepsDone(eng.jobs) => DepsDone(t.jobs)
  BY <1>2 DEF DepsKept
<1> QED BY <1>1, <1>2, <1>4, <1>5 DEF InOrder, Moves

\* Nothing else is heard of the job that a report is about.
LEMMA ReportAlone ==
  ASSUME IInv, InOrder, NEW e \in events
  PROVE  /\ e.job \in DOMAIN eng.jobs /\ e.job \notin Entries(eng.queue)
         /\ eng.jobs[e.job].status \in {"Ready", "Running", "Failed"}
         /\ \A w \in workers \cup (events \ {e}) : w.job # e.job
<1>1. /\ e.job \in DOMAIN eng.jobs /\ e.job \notin Entries(eng.queue)
      /\ eng.jobs[e.job].status \in {"Ready", "Running", "Failed"}
      /\ \A v \in workers \cup events : v.job = e.job => v = e
  BY DEF InOrder, Steady
<1>2. e \notin workers
  <2>1. workers \subseteq WorkerType(DOMAIN eng.jobs) /\ events \subseteq EventType(DOMAIN eng.jobs)
    BY IInvParts DEF IInvByVariable
  <2>2. ASSUME e \in workers PROVE FALSE
    <3>1. DOMAIN e = {"job", "attempt"}
      BY <2>1, <2>2 DEF WorkerType
    <3>2. DOMAIN e = {"job", "attempt", "outcome"}
      BY <2>1 DEF EventType
    <3>3. "outcome" \notin {"job", "attempt"}
      OBVIOUS
    <3> QED BY <3>1, <3>2, <3>3
  <2> QED BY <2>2
<1> QED BY <1>1, <1>2

LEMMA CancelMoves ==
  ASSUME IInv, InOrder, NEW r, CancelRun(r)
  PROVE  InOrder' /\ Moves(r)
<1>1. /\ r \in DOMAIN eng.runs /\ UNCHANGED <<workers, events, stale>>
      /\ faults' = [faults EXCEPT !.cancel = @ + 1] /\ stale = {}
      /\ \E kept \in Listings(KeptEntries(eng, r)) : eng' = Cancel(eng, r, kept)
  BY DEF CancelRun, Selecting
<1>2. EngineOK(eng) /\ faults \in [crash : Nat, timeout : Nat, cancel : Nat, reload : Nat]
  BY IInvParts DEF IInvByVariable
<1>3. /\ EngineOK(eng') /\ DOMAIN eng'.jobs = DOMAIN eng.jobs
      /\ Within(eng, eng', r, CancelledJobs(eng, r), {"Ready", "Failed"})
      /\ QueueOK(eng') /\ Entries(eng'.queue) \subseteq Entries(eng.queue)
  BY <1>1, <1>2, CancelWithin DEF InOrder
<1>4. Keeps(eng, eng', r)
  <2>1. \A i \in CancelledJobs(eng, r) : eng.jobs[i].status # "Completed"
    BY DEF CancelledJobs, Unfinished
  <2> QED BY <1>2, <1>3, <2>1, WithinKeeps
<1>5. Begins(eng', eng', {})
  BY BeginsNothing
<1>6. faults'.cancel # 0
  BY <1>1, <1>2
<1>7. Moves(r)
  BY <1>3, <1>4, <1>5, <1>6 DEF Moves
<1>8. Steady(eng', workers \cup events)
  <2> SUFFICES ASSUME NEW w \in workers \cup events
               PROVE  /\ w.job \in DOMAIN eng'.jobs
                      /\ w.attempt = eng'.jobs[w.job].attempt
                      /\ eng'.jobs[w.job].status \in {"Ready", "Running", "Failed"}
                      /\ w.job \notin Entries(eng'.queue)
                      /\ \A v \in workers \cup events : v.job = w.job => v = w
    BY DEF Steady
  <2>1. /\ w.job \in DOMAIN eng.jobs /\ w.attempt = eng.jobs[w.job].attempt
        /\ eng.jobs[w.job].status \in {"Ready", "Running", "Failed"}
        /\ w.job \notin Entries(eng.queue)
        /\ \A v \in workers \cup events : v.job = w.job => v = w
    BY DEF InOrder, Steady
  <2>2. eng'.jobs[w.job].attempt = eng.jobs[w.job].attempt
        /\ eng'.jobs[w.job].status \in {eng.jobs[w.job].status, "Ready", "Failed"}
    BY <1>3, <2>1 DEF Within, SameJob
  <2> QED BY <1>3, <2>1, <2>2
<1>9. InOrder'
  BY <1>1, <1>3, <1>8 DEF InOrder, Silent
<1> QED BY <1>7, <1>9

LEMMA SaveStepMoves ==
  ASSUME IInv, IInv', InOrder, NEW r, SaveStep(r)
  PROVE  InOrder' /\ Moves(r) /\ faults'.timeout = faults.timeout
<1>0. /\ EngineOK(eng) /\ stale \subseteq eng.active
      /\ faults \in [crash : Nat, timeout : Nat, cancel : Nat, reload : Nat]
  BY IInvParts DEF IInvByVariable
<1>1. CASE Leads(r, 0, Failing, events) /\ Selecting /\ UNCHANGED <<stale, faults>>
  <2>1. 0 \notin DOMAIN eng.jobs /\ 0 \notin Entries(eng.queue)
    <3>1. eng.queue \in Seq(DOMAIN eng.jobs) /\ DOMAIN eng.jobs \subseteq 1..eng.nextJob - 1
      BY <1>0, TypeParts DEF EngineOK
    <3>2. 0 \notin DOMAIN eng.jobs
      BY <3>1
    <3> DEFINE ids == DOMAIN eng.jobs
    <3>3. eng.queue \in Seq(ids)
      BY <3>1
    <3> HIDE DEF ids
    <3>4. Entries(eng.queue) \subseteq ids
      BY <3>3, EntriesOfSeq
    <3> QED BY <3>2, <3>4 DEF ids
  <2>2. \A w \in workers \cup events : w.job # 0
    BY <2>1 DEF InOrder, Steady
  <2>3. stale' \subseteq stale \ {0}
    BY <1>1 DEF Selecting
  <2> QED BY <1>1, <2>1, <2>2, <2>3, LeadsMoves
<1>2. ASSUME NEW e \in events, NEW S, Leads(r, e.job, S, events \ {e}), Selecting,
             UNCHANGED <<stale, faults>>
      PROVE  InOrder' /\ Moves(r) /\ faults'.timeout = faults.timeout
  <2>1. /\ e.job \notin Entries(eng.queue)
        /\ eng.jobs[e.job].status \in {"Ready", "Running", "Failed"}
        /\ \A w \in workers \cup (events \ {e}) : w.job # e.job
    BY ReportAlone
  <2>2. stale' \subseteq stale \ {e.job} /\ events \ {e} \in SUBSET events
    BY <1>2 DEF Selecting
  <2>3. InOrder' /\ Moves(r)
    BY <1>2, <2>1, <2>2, LeadsMoves
  <2> QED BY <1>2, <2>3
<1>3. ASSUME NEW j \in stale, Leads(r, j, Failing, events), stale' = stale \ {j}, UNCHANGED faults
      PROVE  InOrder' /\ Moves(r) /\ faults'.timeout = faults.timeout
  <2>1. j \in DOMAIN eng.jobs /\ eng.jobs[j].status = "Running"
    BY <1>0, TypeParts DEF EngineOK, RunningHoldSlots
  <2>2. j \notin Entries(eng.queue)
    BY <2>1 DEF InOrder, QueueOK
  <2>3. \A w \in workers \cup events : w.job # j
    BY DEF InOrder, Silent
  <2>4. InOrder' /\ Moves(r)
    BY <1>3, <2>1, <2>2, <2>3, LeadsMoves
  <2> QED BY <1>3, <2>4
<1>4. CASE CancelRun(r)
  <2>1. faults' = [faults EXCEPT !.cancel = @ + 1]
    BY <1>4 DEF CancelRun
  <2>2. InOrder' /\ Moves(r)
    BY <1>4, CancelMoves
  <2> QED BY <1>0, <2>1, <2>2
<1> QED BY <1>1, <1>2, <1>3, <1>4 DEF SaveStep

-----------------------------------------------------------------------------
(* Tables and memory.                                                      *)

\* What the tables hold as Completed, memory holds as Completed.
Kept ==
  \A j \in DOMAIN db.jobs \cap DOMAIN eng.jobs :
    db.jobs[j].status = "Completed" => eng.jobs[j].status = "Completed"

\* Memory is ahead of the tables by starts only, but for the run that the last
\* handler has yet to save.
InStep ==
  /\ \A j \in DOMAIN db.jobs \cap DOMAIN eng.jobs :
       Saves(eng.jobs[j].run) \/ SameButStarted(db.jobs[j], eng.jobs[j])
  /\ \A r \in DOMAIN db.runs \cap DOMAIN eng.runs :
       \/ Saves(r) \/ db.runs[r] = eng.runs[r]
       \/ db.runs[r] = "Pending" /\ eng.runs[r] = "Running"

\* A start of a job that memory holds as the tables do, or revived.
LEMMA StartedSame ==
  ASSUME NEW saved \in JobRecords, NEW job \in JobRecords, NEW new,
         SameButStarted(saved, job), job.status = "Ready",
         new = [job EXCEPT !.status = "Running", !.attempt = new.attempt]
  PROVE  SameButStarted(saved, new)
<1>1. job \in {saved, Revived(saved)}
  BY DEF SameButStarted
<1>2. \/ job = saved
      \/ saved.status = "Running" /\ job = [saved EXCEPT !.status = job.status]
  <2>1. CASE job = saved
    BY <2>1
  <2>2. CASE job # saved
    <3>1. saved.status = "Running"
      BY <1>1, <2>2 DEF Revived
    <3>2. job = [saved EXCEPT !.status = "Ready"]
      BY <1>1, <2>2, <3>1 DEF Revived, JobRecords
    <3> QED BY <3>1, <3>2
  <2> QED BY <2>1, <2>2
<1>3. new.status = "Running"
  BY DEF JobRecords
<1>4. new = [saved EXCEPT !.status = "Running", !.attempt = new.attempt]
  BY <1>2 DEF JobRecords
<1>5. saved.status \in {"Ready", "Running"}
  BY <1>2
<1> QED BY <1>3, <1>4, <1>5 DEF SameButStarted

\* A handler that saves run r touches no job that the tables hold as Completed.
LEMMA MovesKept ==
  ASSUME DbOK(db, eng), IInv, NEW r, Moves(r), Kept, db' = db
  PROVE  Kept'
<1>1. PICK t, P : EngineOK(t) /\ QueueOK(t) /\ Keeps(eng, t, r) /\ Begins(t, eng', P)
  BY DEF Moves
<1>2. SUFFICES ASSUME NEW j \in DOMAIN db.jobs, j \in DOMAIN eng'.jobs, db.jobs[j].status = "Completed"
               PROVE  eng'.jobs[j].status = "Completed"
  BY DEF Kept
<1>3. j \in DOMAIN t.jobs
  BY <1>1, <1>2 DEF Begins
<1>4. j \in DOMAIN eng.jobs
  <2>1. j \in 1..eng.nextJob - 1 /\ eng.nextJob \in Nat
    BY IInvParts, TypeParts DEF IInvByVariable, EngineOK, DbOK
  <2> QED BY <1>1, <1>3, <2>1 DEF Keeps, Newcomers
<1>5. eng.jobs[j].status = "Completed"
  BY <1>2, <1>4 DEF Kept
<1>6. t.jobs[j] = eng.jobs[j]
  BY <1>1, <1>4, <1>5 DEF Keeps
<1>7. j \notin P
  BY <1>1, <1>5, <1>6 DEF Begins, QueueOK
<1> QED BY <1>1, <1>3, <1>5, <1>6, <1>7 DEF Begins

\* It leaves memory ahead of the tables by starts, but for that run.
LEMMA MovesInStep ==
  ASSUME DbOK(db, eng), IInv, IInv', NEW r, Moves(r), InStep, db' = db,
         unsaved = Nothing, unsaved' = [op |-> "save", run |-> r]
  PROVE  InStep'
<1>1. PICK t, P : EngineOK(t) /\ QueueOK(t) /\ Keeps(eng, t, r) /\ Begins(t, eng', P)
  BY DEF Moves
<1>2. EngineOK(eng) /\ EngineOK(eng') /\ eng.nextJob \in Nat /\ eng.nextRun \in Nat
  <2>1. EngineOK(eng)
    BY IInvParts DEF IInvByVariable
  <2>2. IInvByVariable'
    BY IInvParts, PTL
  <2>3. EngineOK(eng')
    BY <2>2 DEF IInvByVariable
  <2> QED BY <2>1, <2>3, TypeParts DEF EngineOK
<1>3. (\A q : ~Saves(q)) /\ unsaved'.op = "save" /\ unsaved'.run = r
  BY DEF Saves, Nothing
<1>4. ASSUME NEW j \in DOMAIN db.jobs, j \in DOMAIN eng'.jobs, eng'.jobs[j].run # r
      PROVE  SameButStarted(db.jobs[j], eng'.jobs[j])
  <2>1. j \in DOMAIN t.jobs
    BY <1>1, <1>4 DEF Begins
  <2>2. j \in DOMAIN eng.jobs
    <3>1. j \in 1..eng.nextJob - 1
      BY DEF DbOK
    <3> QED BY <1>1, <1>2, <2>1, <3>1 DEF Keeps, Newcomers
  <2>3. t.jobs[j].run # r
    BY <1>1, <1>4, <2>1 DEF Begins
  <2>4. t.jobs[j] = eng.jobs[j]
    BY <1>1, <2>2, <2>3 DEF Keeps
  <2>5. SameButStarted(db.jobs[j], eng.jobs[j])
    BY <1>3, <2>2 DEF InStep
  <2>6. CASE j \notin P
    BY <1>1, <2>1, <2>4, <2>5, <2>6 DEF Begins
  <2>7. CASE j \in P
    <3>1. t.jobs[j].status = "Ready"
      BY <1>1, <2>7 DEF Begins, QueueOK
    <3>2. eng'.jobs[j] = [t.jobs[j] EXCEPT !.status = "Running", !.attempt = eng'.jobs[j].attempt]
      BY <1>1, <2>7 DEF Begins
    <3>3. db.jobs[j] \in JobRecords /\ t.jobs[j] \in JobRecords
      BY <1>1, <2>1, TypeParts DEF DbOK, EngineOK
    <3>4. SameButStarted(db.jobs[j], t.jobs[j])
      BY <2>4, <2>5
    <3> QED BY <3>1, <3>2, <3>3, <3>4, StartedSame
  <2> QED BY <2>6, <2>7
<1>5. ASSUME NEW q \in DOMAIN db.runs, q \in DOMAIN eng'.runs, q # r
      PROVE  db.runs[q] = eng'.runs[q] \/ (db.runs[q] = "Pending" /\ eng'.runs[q] = "Running")
  <2>1. q \in DOMAIN t.runs /\ q \in DOMAIN eng.runs
    BY <1>1, <1>5 DEF Begins, Keeps
  <2>2. t.runs[q] = eng.runs[q]
    BY <1>1, <1>5, <2>1 DEF Keeps
  <2>3. db.runs[q] = eng.runs[q] \/ (db.runs[q] = "Pending" /\ eng.runs[q] = "Running")
    BY <1>3, <2>1 DEF InStep
  <2>4. eng'.runs[q] = t.runs[q] \/ (t.runs[q] = "Pending" /\ eng'.runs[q] = "Running")
    BY <1>1, <2>1 DEF Begins
  <2> QED BY <2>2, <2>3, <2>4
<1>6. \A j \in DOMAIN db.jobs \cap DOMAIN eng'.jobs :
        eng'.jobs[j].run = r \/ SameButStarted(db.jobs[j], eng'.jobs[j])
  BY <1>4
<1>7. \A q \in DOMAIN db.runs \cap DOMAIN eng'.runs :
        \/ q = r \/ db.runs[q] = eng'.runs[q]
        \/ db.runs[q] = "Pending" /\ eng'.runs[q] = "Running"
  BY <1>5
<1> QED BY <1>3, <1>6, <1>7 DEF InStep, Saves

\* The starts are of jobs that had nothing to wait for.
LEMMA MovesDeps ==
  ASSUME NEW r, Moves(r), BadPlans => Plain, faults'.cancel = 0, DepsDone(eng.jobs)
  PROVE  DepsDone(eng'.jobs)
<1>1. PICK t, P : QueueOK(t) /\ Begins(t, eng', P) /\ DepsDone(t.jobs)
  BY DEF Moves
<1>2. \A i \in P : i \in DOMAIN t.jobs /\ t.jobs[i].status = "Ready"
  BY <1>1 DEF Begins, QueueOK
<1>3. \A i \in DOMAIN t.jobs :
        /\ eng'.jobs[i].run = t.jobs[i].run /\ eng'.jobs[i].role = t.jobs[i].role
        /\ eng'.jobs[i].deps = t.jobs[i].deps
        /\ eng'.jobs[i].status # "Pending" => t.jobs[i].status # "Pending"
        /\ t.jobs[i].status = "Completed" => eng'.jobs[i].status = "Completed"
  BY <1>1, <1>2 DEF Begins
<1>4. DOMAIN eng'.jobs = DOMAIN t.jobs
  BY <1>1 DEF Begins
<1> QED BY <1>1, <1>3, <1>4 DEF DepsDone

-----------------------------------------------------------------------------
(* The steps that save nothing.                                            *)

\* The heartbeat scan finds jobs only that nothing is to be heard of.
LEMMA UnrecordedOrder ==
  ASSUME IInv, InOrder, Unrecorded, faults.timeout = 0, faults'.timeout = 0
  PROVE  InOrder'
<1>0. /\ EngineOK(eng) /\ eng' = eng
      /\ workers \subseteq WorkerType(DOMAIN eng.jobs) /\ events \subseteq EventType(DOMAIN eng.jobs)
      /\ faults \in [crash : Nat, timeout : Nat, cancel : Nat, reload : Nat]
  BY IInvParts, UnrecordedStep DEF IInvByVariable
<1>1. ASSUME NEW late \in SUBSET eng.active, CheckHeartbeats(late) PROVE InOrder'
  <2> DEFINE alive == {j \in late : ~Lost(j)}
  <2>1. IsFiniteSet(alive) /\ Cardinality(alive) \in Nat
    BY <1>0, FiniteIds, FS_Subset, FS_CardinalityType DEF EngineOK
  <2>2. faults'.timeout = faults.timeout + Cardinality(alive)
    BY <1>0, <1>1 DEF CheckHeartbeats
  <2>3. Cardinality(alive) = 0
    <3> HIDE DEF alive
    <3> QED BY <2>1, <2>2
  <2>4. alive = {}
    <3> HIDE DEF alive
    <3> QED BY <2>1, <2>3, FS_EmptySet
  <2>5. \A w \in workers \cup events : w.job \notin late
    BY <2>4 DEF Lost, InOrder, Steady
  <2> QED BY <1>0, <1>1, <2>5 DEF CheckHeartbeats, InOrder, Silent
<1>2. ASSUME NEW w \in workers, WorkerCrash(w) \/ BridgeClose(w) PROVE InOrder'
  BY <1>0, <1>2 DEF WorkerCrash, BridgeClose, InOrder, Steady, Silent
<1>3. ASSUME NEW w \in workers, NEW o \in Outcomes, WorkerReport(w, o) PROVE InOrder'
  <2> DEFINE e == [job |-> w.job, attempt |-> w.attempt, outcome |-> o]
  <2>1. workers' \cup events' = ((workers \ {w}) \cup events) \cup {e}
        /\ UNCHANGED <<eng, stale>>
    BY <1>3 DEF WorkerReport
  <2>2. e.job = w.job /\ e.attempt = w.attempt
    OBVIOUS
  <2>3. \A v \in (workers \ {w}) \cup events : v # w
    <3>1. ASSUME NEW v \in events PROVE v # w
      <4>1. DOMAIN w = {"job", "attempt"} /\ DOMAIN v = {"job", "attempt", "outcome"}
        BY <1>0 DEF WorkerType, EventType
      <4> QED BY <4>1
    <3> QED BY <3>1
  <2>4. \A v \in (workers \ {w}) \cup events : v.job # w.job
    BY <2>3 DEF InOrder, Steady
  <2> HIDE DEF e
  <2>5. Steady(eng, workers' \cup events')
    BY <2>1, <2>2, <2>4 DEF InOrder, Steady
  <2>6. \A v \in workers' \cup events' : v.job \notin stale
    BY <2>1, <2>2 DEF InOrder, Silent
  <2> QED BY <2>1, <2>5, <2>6 DEF InOrder, Silent
<1> QED BY <1>1, <1>2, <1>3 DEF Unrecorded

\* A run that is cleaned up is one that nothing is to be heard of.
LEMMA ExpireRunOrder ==
  ASSUME IInv, InOrder, NEW r, ExpireRun(r), ~UnderWay(r)
  PROVE  /\ InOrder'
         /\ DOMAIN eng'.jobs = DOMAIN eng.jobs \ JobsOf(eng, r)
         /\ \A j \in DOMAIN eng'.jobs : eng'.jobs[j] = eng.jobs[j]
         /\ DOMAIN eng'.runs = DOMAIN eng.runs \ {r}
         /\ \A q \in DOMAIN eng'.runs : eng'.runs[q] = eng.runs[q]
<1>1. /\ eng' = Forget(eng, r) /\ UNCHANGED <<workers, events, stale>>
      /\ JobsOf(eng, r) \cap (eng.active \cup Entries(eng.queue)) = {}
      /\ JobsOf(eng, r) \cap {w.job : w \in workers \cup events} = {}
  BY DEF ExpireRun, UnderWay
<1>2. EngineOK(eng)
  BY IInvParts DEF IInvByVariable
<1>3. /\ DOMAIN eng'.jobs = DOMAIN eng.jobs \ JobsOf(eng, r)
      /\ \A j \in DOMAIN eng'.jobs : eng'.jobs[j] = eng.jobs[j]
      /\ DOMAIN eng'.runs = DOMAIN eng.runs \ {r}
      /\ \A q \in DOMAIN eng'.runs : eng'.runs[q] = eng.runs[q]
      /\ eng'.queue = eng.queue
  BY <1>1, <1>2, ForgetOK
<1>4. \A j \in Entries(eng.queue) : j \in DOMAIN eng'.jobs
  <2> DEFINE ids == DOMAIN eng.jobs
  <2>1. eng.queue \in Seq(ids)
    BY <1>2, TypeParts DEF EngineOK
  <2> HIDE DEF ids
  <2>2. Entries(eng.queue) \subseteq ids
    BY <2>1, EntriesOfSeq
  <2> QED BY <1>1, <1>3, <2>2 DEF ids
<1>5. QueueOK(eng')
  BY <1>3, <1>4 DEF InOrder, QueueOK
<1>6. \A w \in workers \cup events : w.job \notin JobsOf(eng, r)
  BY <1>1
<1>7. Steady(eng', workers \cup events)
  BY <1>3, <1>6 DEF InOrder, Steady
<1> QED BY <1>1, <1>3, <1>5, <1>7 DEF InOrder, Silent

\* Each job of d is as the tables or as memory have it.
Drawn(d) ==
  \A j \in DOMAIN d.jobs :
    \/ j \in DOMAIN db.jobs /\ d.jobs[j] = db.jobs[j]
    \/ j \in DOMAIN eng.jobs /\ d.jobs[j] = eng.jobs[j]

LEMMA PersistDraws ==
  ASSUME StoreOK(eng), DbOK(db, eng), NEW e \in {db, WrittenOut} \cup TornPoints
  PROVE  Drawn(e)
<1>1. ASSUME NEW R, NEW J \in SUBSET DOMAIN eng.jobs, NEW f, Written(db, f, eng, R, J) PROVE Drawn(f)
  BY <1>1 DEF Written, Drawn
<1>2. Drawn(db)
  BY DEF Drawn
<1>3. CASE unsaved.op = "save"
  <2> DEFINE q == unsaved.run
  <2>1. e = db \/ e = SaveRun(db, eng, q) \/ e \in SavePoints(db, eng, q)
    BY <1>3 DEF WrittenOut, TornPoints
  <2>2. CASE e \in SavePoints(db, eng, q)
    <3>1. e = db \/ \E J \in SUBSET JobsOf(eng, q) : Written(db, e, eng, {q}, J)
      BY <2>2, SavePointsOK
    <3>2. JobsOf(eng, q) \subseteq DOMAIN eng.jobs
      BY DEF JobsOf
    <3> QED BY <1>1, <1>2, <3>1, <3>2
  <2>3. CASE e = SaveRun(db, eng, q) /\ q \in DOMAIN eng.runs
    <3> DEFINE J == {j \in DOMAIN eng.jobs : eng.jobs[j].run \in {q}}
    <3>1. {q} \in SUBSET DOMAIN eng.runs /\ e = SaveRuns(db, eng, {q})
      BY <2>3 DEF SaveRun
    <3> HIDE DEF q
    <3>2. Written(db, e, eng, {q}, J)
      BY <3>1, SaveRunsOK
    <3>3. J \in SUBSET DOMAIN eng.jobs
      OBVIOUS
    <3> HIDE DEF J
    <3> QED BY <1>1, <3>2, <3>3
  <2>4. CASE e = SaveRun(db, eng, q) /\ q \notin DOMAIN eng.runs
    BY <1>2, <2>4 DEF SaveRun
  <2> QED BY <1>2, <2>1, <2>2, <2>3, <2>4
<1>4. CASE unsaved.op = "delete"
  <2>1. e = db \/ \E n \in 0..3 : e = DeletePoint(db, unsaved.run, n)
    BY <1>4 DEF WrittenOut, TornPoints
  <2>2. ASSUME NEW n \in 0..3, e = DeletePoint(db, unsaved.run, n) PROVE Drawn(e)
    <3>1. Deleted(db, e, unsaved.run)
      BY <2>2, DeleteOK
    <3> QED BY <3>1 DEF Deleted, Drawn
  <2> QED BY <1>2, <2>1, <2>2
<1>5. CASE unsaved.op \notin {"save", "delete"}
  <2>1. e = db
    BY <1>5 DEF WrittenOut, TornPoints
  <2> QED BY <1>2, <2>1
<1> QED BY <1>3, <1>4, <1>5

\* No start of the daemon undoes what the tables hold as Completed.
LEMMA RestartKeeps ==
  ASSUME SafeInv, Kept, NEW d, RestartFrom(d), NEW j \in DOMAIN db.jobs, j \in DOMAIN eng'.jobs,
         db.jobs[j].status = "Completed"
  PROVE  eng'.jobs[j].status = "Completed"
<1>1. /\ DOMAIN eng'.jobs = DOMAIN d.jobs /\ d.jobs[j] \in JobRecords
      /\ eng'.jobs[j] = Revived(d.jobs[j])
  BY RestartFromOK DEF Restored
<1>2. StoreOK(eng) /\ DbOK(db, eng)
  BY StrictOK
<1>3. ASSUME j \in DOMAIN eng.jobs PROVE eng.jobs[j].status = "Completed"
  BY <1>3 DEF Kept
<1>4. d.jobs[j].status = "Completed"
  <2>1. CASE d \in {db, WrittenOut} \cup TornPoints
    BY <1>1, <1>2, <1>3, <2>1, PersistDraws DEF Drawn
  <2>2. CASE d = SaveRuns(db, AllCancelled, RunsInProgress)
    <3> DEFINE t == AllCancelled
               J == {i \in DOMAIN eng.jobs : eng.jobs[i].run \in RunsInProgress}
    <3>1. CancelledInto(eng, t) /\ Written(db, d, t, RunsInProgress, J)
      BY <1>2, <2>2, AllCancelledOK, ShutdownSavesOK
    <3> HIDE DEF t
    <3>2. CASE j \in J
      <4>1. d.jobs[j] = t.jobs[j] /\ j \in DOMAIN eng.jobs
        BY <1>1, <3>1, <3>2 DEF Written
      <4>2. t.jobs[j] = eng.jobs[j]
        BY <1>3, <3>1, <4>1 DEF CancelledInto, Unfinished
      <4> QED BY <1>3, <4>1, <4>2
    <3> HIDE DEF J
    <3>3. CASE j \notin J
      BY <1>1, <3>1, <3>3 DEF Written
    <3> QED BY <3>2, <3>3
  <2> QED BY <2>1, <2>2 DEF RestartFrom
<1> QED BY <1>1, <1>4, RevivedOK

-----------------------------------------------------------------------------
(* Saves and starts that are not cut off.                                  *)

\* The write of a handler brings the tables in step with memory.
LEMMA WrittenInStep ==
  ASSUME SafeInv, DomainsOK, OutputsOK, InStep
  PROVE  /\ \A j \in DOMAIN WrittenOut.jobs \cap DOMAIN eng.jobs :
              SameButStarted(WrittenOut.jobs[j], eng.jobs[j])
         /\ \A r \in DOMAIN WrittenOut.runs \cap DOMAIN eng.runs :
              \/ WrittenOut.runs[r] = eng.runs[r]
              \/ WrittenOut.runs[r] = "Pending" /\ eng.runs[r] = "Running"
<1> DEFINE e == WrittenOut
<1>1. /\ \A j \in DOMAIN eng.jobs :
           e.jobs[j] = IF Saves(eng.jobs[j].run) THEN eng.jobs[j] ELSE db.jobs[j]
      /\ \A r \in DOMAIN eng.runs : e.runs[r] = IF Saves(r) THEN eng.runs[r] ELSE db.runs[r]
  BY WrittenOutOK
<1> HIDE DEF e
<1>2. ASSUME NEW j \in DOMAIN eng.jobs
      PROVE  SameButStarted(e.jobs[j], eng.jobs[j])
  <2>1. CASE Saves(eng.jobs[j].run)
    <3>1. e.jobs[j] = eng.jobs[j]
      BY <1>1, <2>1
    <3> QED BY <3>1 DEF SameButStarted
  <2>2. CASE ~Saves(eng.jobs[j].run)
    <3>1. j \in DOMAIN db.jobs /\ e.jobs[j] = db.jobs[j]
      BY <1>1, <2>2 DEF DomainsOK
    <3> QED BY <2>2, <3>1 DEF InStep
  <2> QED BY <2>1, <2>2
<1>3. \A r \in DOMAIN eng.runs :
        e.runs[r] = eng.runs[r] \/ (e.runs[r] = "Pending" /\ eng.runs[r] = "Running")
  BY <1>1 DEF DomainsOK, InStep
<1> QED BY <1>2, <1>3 DEF e

\* It saves a run as a whole, with all that its jobs depend on.
LEMMA WrittenDeps ==
  ASSUME SafeInv, DomainsOK, OutputsOK, DepsDone(eng.jobs), DepsDone(db.jobs)
  PROVE  DepsDone(WrittenOut.jobs)
<1> DEFINE e == WrittenOut
<1>1. /\ DOMAIN e.jobs = DOMAIN eng.jobs
      /\ \A j \in DOMAIN eng.jobs :
           e.jobs[j] = IF Saves(eng.jobs[j].run) THEN eng.jobs[j] ELSE db.jobs[j]
  BY WrittenOutOK
<1> HIDE DEF e
<1>2. SUFFICES ASSUME NEW i \in DOMAIN eng.jobs, NEW d \in Entries(e.jobs[i].deps)
               PROVE  /\ d \in DOMAIN eng.jobs /\ e.jobs[d].run = e.jobs[i].run
                      /\ e.jobs[i].status # "Pending" => e.jobs[d].status = "Completed"
                      /\ BadPlans => e.jobs[d].role # "planner"
  BY <1>1 DEF DepsDone, e
<1>3. CASE Saves(eng.jobs[i].run)
  <2>1. e.jobs[i] = eng.jobs[i]
    BY <1>1, <1>3
  <2>2. /\ d \in DOMAIN eng.jobs /\ eng.jobs[d].run = eng.jobs[i].run
        /\ eng.jobs[i].status # "Pending" => eng.jobs[d].status = "Completed"
        /\ BadPlans => eng.jobs[d].role # "planner"
    BY <1>2, <2>1 DEF DepsDone
  <2>3. e.jobs[d] = eng.jobs[d]
    BY <1>1, <1>3, <2>2
  <2> QED BY <2>1, <2>2, <2>3
<1>4. CASE ~Saves(eng.jobs[i].run)
  <2>1. e.jobs[i] = db.jobs[i] /\ i \in DOMAIN db.jobs
    BY <1>1, <1>4 DEF DomainsOK
  <2>2. /\ d \in DOMAIN db.jobs /\ db.jobs[d].run = db.jobs[i].run
        /\ db.jobs[i].status # "Pending" => db.jobs[d].status = "Completed"
        /\ BadPlans => db.jobs[d].role # "planner"
    BY <1>2, <2>1 DEF DepsDone
  <2>3. db.jobs[i].deps = eng.jobs[i].deps
    BY <2>1 DEF SafeInv, DbOK
  <2>4. d \in DOMAIN eng.jobs /\ eng.jobs[d].run = eng.jobs[i].run
    BY <1>2, <2>1, <2>3 DEF DepsDone
  <2>5. e.jobs[d] = db.jobs[d]
    BY <1>1, <1>4, <2>4
  <2> QED BY <2>1, <2>2, <2>4, <2>5
<1> QED BY <1>3, <1>4

\* Reviving jobs changes neither what is Pending nor what is Completed.
LEMMA RestoredDeps ==
  ASSUME NEW d, NEW s, NEW t, Restored(d, s, t), DepsDone(d.jobs)
  PROVE  DepsDone(t.jobs)
<1>1. ASSUME NEW j \in DOMAIN d.jobs
      PROVE  /\ t.jobs[j].run = d.jobs[j].run /\ t.jobs[j].role = d.jobs[j].role
             /\ t.jobs[j].deps = d.jobs[j].deps
             /\ t.jobs[j].status # "Pending" => d.jobs[j].status # "Pending"
             /\ d.jobs[j].status = "Completed" => t.jobs[j].status = "Completed"
  <2>1. d.jobs[j] \in JobRecords /\ t.jobs[j] = Revived(d.jobs[j])
    BY DEF Restored
  <2> QED BY <2>1, RevivedOK
<1>2. DOMAIN t.jobs = DOMAIN d.jobs
  BY DEF Restored
<1> QED BY <1>1, <1>2 DEF DepsDone

-----------------------------------------------------------------------------
(* The inductive invariant.                                                *)

\* What holds besides until a save or a cleanup is cut off; dependencies until a
\* run is cancelled.
UncutOK ==
  /\ InStep
  /\ faults.cancel = 0 /\ (BadPlans => Plain) => DepsDone(eng.jobs) /\ DepsDone(db.jobs)

CrashInv ==
  /\ OutputInv
  /\ mishaps.early <= MaxEarly
  /\ mishaps.early = 0 => faults.timeout <= MaxFalseTimeouts
  /\ Unbroken => InOrder /\ Kept /\ (NothingCutOff => UncutOK)

LEMMA CrashInit == RInit => CrashInv
<1> SUFFICES ASSUME RInit PROVE CrashInv
  OBVIOUS
<1>1. OutputInv
  BY OutputInit
<1>2. /\ eng = EmptyEngine /\ workers = {} /\ events = {} /\ stale = {}
      /\ faults = [crash |-> 0, timeout |-> 0, cancel |-> 0, reload |-> 0]
      /\ db = [artifacts |-> {}, jobs |-> <<>>, runs |-> <<>>]
      /\ mishaps = [restart |-> 0, save |-> 0, delete |-> 0, early |-> 0]
  BY DEF RInit, Init
<1>3. /\ DOMAIN db.jobs = {} /\ DOMAIN db.runs = {}
      /\ DOMAIN eng.jobs = {} /\ eng.queue = <<>>
  BY <1>2 DEF EmptyEngine
<1>4. faults.timeout <= MaxFalseTimeouts /\ mishaps.early <= MaxEarly
  BY <1>2, OrchestratorAssumption, RecoveryAssumption
<1>5. Entries(eng.queue) = {} /\ DOMAIN eng.queue = {}
  BY <1>3, EntriesOfEmpty
<1>6. InOrder
  BY <1>2, <1>5 DEF InOrder, QueueOK, Distinct, Steady, Silent
<1>7. Kept /\ UncutOK
  BY <1>3 DEF Kept, UncutOK, InStep, DepsDone
<1> QED BY <1>1, <1>4, <1>6, <1>7 DEF CrashInv

\* The bound on timeouts of live workers' jobs, and that faults are not undone.
LEMMA TimeoutsBounded ==
  ASSUME SafeInv, [RNext]_rvars, mishaps.early = 0, faults.timeout <= MaxFalseTimeouts
  PROVE  /\ faults'.timeout <= MaxFalseTimeouts
         /\ faults'.timeout = 0 => faults.timeout = 0
         /\ faults'.cancel = 0 => faults.cancel = 0
<1>0. IInv /\ faults \in [crash : Nat, timeout : Nat, cancel : Nat, reload : Nat]
  BY StrictOK DEF Faults
<1>1. ASSUME [Next]_vars
      PROVE  /\ faults'.timeout <= MaxFalseTimeouts
             /\ faults'.timeout >= faults.timeout /\ faults'.cancel >= faults.cancel
  <2>1. faults'.timeout >= faults.timeout /\ faults'.cancel >= faults.cancel
    BY <1>0, <1>1, FaultsGrow
  <2>2. faults'.timeout = faults.timeout \/ \E late \in SUBSET eng.active : CheckHeartbeats(late)
    BY <1>0, <1>1 DEF Next, SubmitRun, CancelRun, HandleCompleted, HandleFailed, ExpireJob,
                      ReloadConfig, WorkerCrash, BridgeClose, WorkerReport, vars
  <2>3. faults'.timeout <= MaxFalseTimeouts
    BY <2>2 DEF CheckHeartbeats
  <2> QED BY <2>1, <2>3
<1>2. ASSUME NEW d, RestartFrom(d)
      PROVE  faults'.timeout = faults.timeout /\ faults'.cancel >= faults.cancel
  BY <1>2, RestartFromOK
<1>3. [Next]_vars \/ UNCHANGED faults \/ \E d : RestartFrom(d)
  <2>1. ASSUME NEW r, SaveStep(r) PROVE [Next]_vars
    BY <2>1 DEF SaveStep
  <2>2. ASSUME NEW r \in RunIds, ExpireRun(r) PROVE UNCHANGED faults
    BY <2>2 DEF ExpireRun
  <2>3. ASSUME (\E j \in JobIds : StoreArtifact(j)) \/ Persist \/ UNCHANGED rvars
        PROVE  UNCHANGED faults
    BY <2>3 DEF StoreArtifact, Persist, rvars, vars
  <2> QED BY <1>0, <2>1, <2>2, <2>3, Steps, UnrecordedStep, RestartSteps
<1> QED BY <1>0, <1>1, <1>2, <1>3

\* The bound on early cleanups.
LEMMA EarlyBounded ==
  ASSUME SafeInv, [RNext]_rvars, mishaps.early <= MaxEarly
  PROVE  mishaps'.early <= MaxEarly
<1>0. mishaps \in MishapCounts /\ MaxEarly \in Nat
  BY RecoveryAssumption DEF SafeInv
<1>1. ASSUME NEW r \in RunIds, ExpireRun(r) PROVE mishaps'.early <= MaxEarly
  <2>1. CASE UNCHANGED mishaps
    BY <2>1
  <2>2. CASE mishaps.early < MaxEarly /\ mishaps' = [mishaps EXCEPT !.early = @ + 1]
    BY <1>0, <2>2 DEF MishapCounts
  <2> QED BY <1>1, <2>1, <2>2 DEF ExpireRun
<1>2. ASSUME NEW j \in JobIds, StoreArtifact(j) PROVE mishaps'.early = mishaps.early
  BY <1>0, <1>2, StoreCounts
<1>3. ASSUME CrashAndRestart \/ Shutdown PROVE mishaps'.early = mishaps.early
  BY <1>3, RestartSteps, RestartFromOK
<1>4. ASSUME Persist PROVE mishaps'.early = mishaps.early
  BY <1>0, <1>4, PersistCounts
<1>5. ASSUME Unrecorded \/ UNCHANGED rvars PROVE UNCHANGED mishaps
  BY <1>5, UnrecordedStep DEF rvars
<1>6. ASSUME NEW r, Saving(r) PROVE UNCHANGED mishaps
  BY <1>6 DEF Saving
<1> QED BY <1>1, <1>2, <1>3, <1>4, <1>5, <1>6
        DEF RNext, HandleCommand, HandleReport, ExpireAndSave

LEMMA CrashNext == CrashInv /\ [RNext]_rvars => CrashInv'
<1> SUFFICES ASSUME CrashInv, [RNext]_rvars PROVE CrashInv'
  OBVIOUS
<1>a. OutputInv /\ OutputInv' /\ SafeInv /\ mishaps'.early <= MaxEarly
  BY OutputNext, EarlyBounded DEF CrashInv, OutputInv
<1>b. SafeInv' /\ (mishaps'.early = 0 => mishaps.early = 0)
      /\ (mishaps'.save = 0 => mishaps.save = 0) /\ (mishaps'.delete = 0 => mishaps.delete = 0)
  BY <1>a, MishapsGrow
<1>c. mishaps'.early = 0 =>
        /\ faults'.timeout <= MaxFalseTimeouts
        /\ faults'.timeout = 0 => faults.timeout = 0
        /\ faults'.cancel = 0 => faults.cancel = 0
  BY <1>a, <1>b, TimeoutsBounded DEF CrashInv
<1> SUFFICES ASSUME faults'.timeout = 0, mishaps'.early = 0
             PROVE  InOrder' /\ Kept' /\ (NothingCutOff' => UncutOK')
  BY <1>a, <1>c DEF CrashInv, Unbroken
<1>0. /\ OutputInv /\ OutputInv' /\ SafeInv /\ SafeInv' /\ mishaps.early = 0
      /\ IInv /\ EngineOK(eng) /\ StoreOK(eng) /\ DbOK(db, eng) /\ mishaps \in MishapCounts
  BY <1>a, <1>b, StrictOK
<1>1. IInv'
  BY <1>0 DEF SafeInv
<1>2. /\ faults.timeout = 0
      /\ faults'.cancel = 0 => faults.cancel = 0
      /\ NothingCutOff' => NothingCutOff
      /\ InOrder /\ Kept /\ (NothingCutOff => UncutOK /\ DomainsOK /\ OutputsOK)
  BY <1>0, <1>b, <1>c DEF CrashInv, Unbroken, OutputInv, Whole, NothingCutOff
<1>3. ASSUME NEW r, SaveStep(r) PROVE InOrder' /\ Kept' /\ (NothingCutOff' => UncutOK')
  <2>1. unsaved = Nothing /\ unsaved' = [op |-> "save", run |-> r] /\ UNCHANGED <<db, mishaps>>
    BY <1>0, <1>3, SaveStepAdvances
  <2>2. InOrder' /\ Moves(r)
    BY <1>0, <1>1, <1>2, <1>3, SaveStepMoves
  <2>3. Kept'
    BY <1>0, <1>2, <2>1, <2>2, MovesKept
  <2>4. ASSUME NothingCutOff' PROVE UncutOK'
    <3>1. UncutOK
      BY <1>2, <2>1, <2>4
    <3>2. InStep'
      BY <1>0, <1>1, <2>1, <2>2, <3>1, MovesInStep DEF UncutOK
    <3>3. ASSUME faults'.cancel = 0, BadPlans => Plain PROVE DepsDone(eng'.jobs) /\ DepsDone(db'.jobs)
      <4>1. DepsDone(eng.jobs) /\ DepsDone(db.jobs)
        BY <1>2, <3>1, <3>3 DEF UncutOK
      <4> QED BY <2>1, <2>2, <3>3, <4>1, MovesDeps
    <3> QED BY <3>2, <3>3 DEF UncutOK
  <2> QED BY <2>2, <2>3, <2>4
<1>4. ASSUME UNCHANGED <<eng, workers, events, stale, unsaved>>,
             db'.jobs = db.jobs, db'.runs = db.runs
      PROVE  InOrder' /\ Kept' /\ (NothingCutOff' => UncutOK')
  <2>1. InOrder'
    BY <1>4, <1>2 DEF InOrder, Silent
  <2>2. Kept'
    BY <1>4, <1>2 DEF Kept
  <2>3. ASSUME NothingCutOff' PROVE UncutOK'
    <3>1. UncutOK
      BY <1>4, <1>2, <2>3
    <3>2. InStep'
      BY <1>4, <3>1 DEF UncutOK, InStep, Saves
    <3> QED BY <1>2, <1>4, <3>1, <3>2 DEF UncutOK
  <2> QED BY <2>1, <2>2, <2>3
<1>5. ASSUME NEW j \in JobIds, StoreArtifact(j)
      PROVE  InOrder' /\ Kept' /\ (NothingCutOff' => UncutOK')
  <2>1. UNCHANGED <<eng, workers, events, stale, unsaved>>
        /\ db' \in {db, WriteArtifact(db, [job |-> j, run |-> RunOf(j)])}
    BY <1>5 DEF StoreArtifact, vars
  <2>2. db'.jobs = db.jobs /\ db'.runs = db.runs
    BY <1>0, <2>1, WriteArtifactOK
  <2> QED BY <1>4, <2>1, <2>2
<1>6. ASSUME NEW r \in RunIds, ExpireRun(r)
      PROVE  InOrder' /\ Kept' /\ (NothingCutOff' => UncutOK')
  <2>1. unsaved = Nothing /\ UNCHANGED <<db, faults>>
    BY <1>6 DEF ExpireRun
  <2>a. ~UnderWay(r)
    BY <1>0, <1>6, CleanupCounts DEF MishapCounts
  <2>2. /\ InOrder'
        /\ DOMAIN eng'.jobs = DOMAIN eng.jobs \ JobsOf(eng, r)
        /\ \A j \in DOMAIN eng'.jobs : eng'.jobs[j] = eng.jobs[j]
        /\ DOMAIN eng'.runs = DOMAIN eng.runs \ {r}
        /\ \A q \in DOMAIN eng'.runs : eng'.runs[q] = eng.runs[q]
    BY <1>0, <1>2, <1>6, <2>a, ExpireRunOrder
  <2>3. Kept'
    BY <1>2, <2>1, <2>2 DEF Kept
  <2>4. ASSUME NothingCutOff' PROVE UncutOK'
    <3>1. UncutOK
      BY <1>2, <2>1, <2>4
    <3>2. \A q : ~Saves(q)
      BY <2>1 DEF Saves, Nothing
    <3>3. InStep'
      BY <2>1, <2>2, <3>1, <3>2 DEF UncutOK, InStep
    <3>4. DepsDone(eng.jobs) => DepsDone(eng'.jobs)
      BY <2>2 DEF DepsDone, JobsOf
    <3> QED BY <2>1, <3>1, <3>3, <3>4 DEF UncutOK
  <2> QED BY <2>2, <2>3, <2>4
<1>7. CASE Persist
  <2>1. /\ UNCHANGED <<eng, workers, events, stale, faults>> /\ unsaved' = Nothing
        /\ db' \in {db, WrittenOut} \cup TornPoints
    BY <1>7 DEF Persist, vars
  <2>a. NothingCutOff' => db' = WrittenOut
    BY <1>0, <1>7, PersistCounts DEF NothingCutOff
  <2>2. InOrder'
    BY <1>2, <2>1 DEF InOrder, Silent
  <2>3. Kept'
    <3>1. Drawn(db')
      BY <1>0, <2>1, PersistDraws
    <3> QED BY <1>2, <2>1, <3>1 DEF Drawn, Kept
  <2>4. ASSUME NothingCutOff' PROVE UncutOK'
    <3>1. UncutOK /\ DomainsOK /\ OutputsOK /\ db' = WrittenOut
      BY <1>2, <2>a, <2>4
    <3>2. InStep'
      <4>1. /\ \A j \in DOMAIN WrittenOut.jobs \cap DOMAIN eng.jobs :
                 SameButStarted(WrittenOut.jobs[j], eng.jobs[j])
            /\ \A r \in DOMAIN WrittenOut.runs \cap DOMAIN eng.runs :
                 \/ WrittenOut.runs[r] = eng.runs[r]
                 \/ WrittenOut.runs[r] = "Pending" /\ eng.runs[r] = "Running"
        BY <1>0, <3>1, WrittenInStep DEF UncutOK
      <4> QED BY <2>1, <3>1, <4>1 DEF InStep
    <3>3. DepsDone(eng.jobs) /\ DepsDone(db.jobs) => DepsDone(eng'.jobs) /\ DepsDone(db'.jobs)
      BY <1>0, <2>1, <3>1, WrittenDeps
    <3> QED BY <2>1, <3>1, <3>2, <3>3 DEF UncutOK
  <2> QED BY <2>2, <2>3, <2>4
<1>8. CASE Unrecorded
  <2>1. UNCHANGED <<db, unsaved, mishaps, eng>>
    BY <1>8, UnrecordedStep
  <2>2. InOrder'
    BY <1>0, <1>2, <1>8, UnrecordedOrder
  <2>3. Kept'
    BY <1>2, <2>1 DEF Kept
  <2>4. ASSUME NothingCutOff' PROVE UncutOK'
    <3>1. UncutOK
      BY <1>2, <2>1, <2>4
    <3>2. InStep'
      BY <2>1, <3>1 DEF UncutOK, InStep, Saves
    <3> QED BY <1>2, <2>1, <3>1, <3>2 DEF UncutOK
  <2> QED BY <2>2, <2>3, <2>4
<1>9. CASE CrashAndRestart \/ Shutdown
  <2>1. PICK d : RestartFrom(d)
    BY <1>9, RestartSteps
  <2>2. /\ Restored(d, eng, eng') /\ db' = d
        /\ workers' = {} /\ events' = {} /\ stale' = {}
    BY <1>0, <2>1, RestartFromOK
  <2>3. InOrder'
    BY <2>2 DEF InOrder, Restored, Steady, Silent
  <2>4. /\ DOMAIN eng'.jobs = DOMAIN d.jobs /\ eng'.runs = d.runs
        /\ \A j \in DOMAIN d.jobs : d.jobs[j] \in JobRecords /\ eng'.jobs[j] = Revived(d.jobs[j])
    BY <2>2 DEF Restored
  <2>5. Kept'
    BY <2>2, <2>4, RevivedOK DEF Kept
  <2>6. ASSUME NothingCutOff' PROVE UncutOK'
    <3>1. InStep'
      BY <2>2, <2>4 DEF InStep, SameButStarted
    <3>2. ASSUME faults'.cancel = 0, BadPlans => Plain PROVE DepsDone(eng'.jobs) /\ DepsDone(db'.jobs)
      <4>1. d \in {db, WrittenOut}
        <5>1. faults \in Faults
          BY <1>0 DEF SafeInv
        <5> QED BY <2>1, <3>2, <5>1 DEF RestartFrom, Faults
      <4>2. UncutOK /\ DomainsOK /\ OutputsOK
        BY <1>2, <2>6
      <4>3. DepsDone(eng.jobs) /\ DepsDone(db.jobs)
        BY <1>2, <3>2, <4>2 DEF UncutOK
      <4>4. DepsDone(d.jobs)
        BY <1>0, <4>1, <4>2, <4>3, WrittenDeps
      <4> QED BY <2>2, <4>4, RestoredDeps
    <3> QED BY <3>1, <3>2 DEF UncutOK
  <2> QED BY <2>3, <2>5, <2>6
<1>10. CASE UNCHANGED rvars
  <2>1. UNCHANGED <<eng, workers, events, stale, unsaved, db>>
    BY <1>10 DEF rvars, vars
  <2> QED BY <1>4, <2>1
<1> QED BY <1>0, <1>3, <1>5, <1>6, <1>7, <1>8, <1>9, <1>10, Steps

LEMMA CrashInvariance == RSpec => []CrashInv
BY CrashInit, CrashNext, PTL DEF RSpec

-----------------------------------------------------------------------------

\* As long as no timeout hits a live worker's job, no cleanup a run with work under
\* way and no save was cut off, a crash between two handlers costs starts only,
\* whatever was cancelled, shut down, cleaned up or crashed before: each handler
\* saves the run of its event alone, and of the other runs it only started queued
\* jobs.
THEOREM CrashesCostStarts == RSpec => [](Unbroken => CrashLosesOnlyStarts)
<1>1. CrashInv => (Unbroken => CrashLosesOnlyStarts)
  <2> SUFFICES ASSUME CrashInv, Unbroken, NothingCutOff, unsaved = Nothing
               PROVE  /\ DOMAIN db.jobs = DOMAIN eng.jobs
                      /\ DOMAIN db.runs = DOMAIN eng.runs
                      /\ \A j \in DOMAIN db.jobs : SameButStarted(db.jobs[j], eng.jobs[j])
                      /\ \A r \in DOMAIN db.runs :
                           db.runs[r] # eng.runs[r] =>
                             db.runs[r] = "Pending" /\ eng.runs[r] = "Running"
    BY DEF CrashLosesOnlyStarts
  <2>1. DomainsOK /\ InStep
    BY DEF CrashInv, OutputInv, UncutOK, Unbroken, Whole
  <2>2. /\ DOMAIN db.jobs = DOMAIN eng.jobs /\ DOMAIN db.runs = DOMAIN eng.runs
        /\ \A r : ~Saves(r)
    BY <2>1, NothingUnsaved
  <2> QED BY <2>1, <2>2 DEF InStep
<1> QED BY <1>1, CrashInvariance, PTL

\* If there are no timeouts that hit a live worker's job and no cleanups of runs with
\* work under way, work that was saved as completed is never done again: not after
\* crashes, shutdowns and saves that were cut off, whichever row each of them got to.
THEOREM SavedWorkStaysDone ==
  MaxFalseTimeouts = 0 /\ MaxEarly = 0 => (RSpec => SavedWorkIsKept)
<1> SUFFICES ASSUME MaxFalseTimeouts = 0, MaxEarly = 0 PROVE RSpec => SavedWorkIsKept
  OBVIOUS
<1>1. ASSUME CrashInv, CrashInv', [RNext]_rvars
      PROVE  \A j \in DOMAIN db.jobs \cap DOMAIN eng'.jobs :
               db.jobs[j].status = "Completed" => eng'.jobs[j].status = "Completed"
  <2>0. /\ SafeInv /\ SafeInv' /\ mishaps.early = 0 /\ mishaps'.early = 0
        /\ faults \in Faults /\ faults' \in Faults
    <3>1. SafeInv /\ SafeInv'
      BY <1>1 DEF CrashInv, OutputInv
    <3>2. /\ mishaps \in MishapCounts /\ mishaps' \in MishapCounts
          /\ faults \in Faults /\ faults' \in Faults
      BY <3>1 DEF SafeInv
    <3>3. mishaps.early \in Nat /\ mishaps'.early \in Nat
      BY <3>2 DEF MishapCounts
    <3>4. mishaps.early <= MaxEarly /\ mishaps'.early <= MaxEarly
      BY <1>1 DEF CrashInv
    <3> QED BY <3>1, <3>2, <3>3, <3>4
  <2>1. SafeInv /\ IInv
    BY <2>0, StrictOK
  <2>2. Kept /\ Kept'
    <3>1. faults.timeout \in Nat /\ faults'.timeout \in Nat
      BY <2>0 DEF Faults
    <3>2. faults.timeout = 0 /\ faults'.timeout = 0
      BY <1>1, <2>0, <3>1 DEF CrashInv
    <3> QED BY <1>1, <2>0, <3>2 DEF CrashInv, Unbroken
  <2>3. CASE UNCHANGED db
    BY <2>2, <2>3 DEF Kept
  <2>4. CASE UNCHANGED eng
    BY <2>2, <2>4 DEF Kept
  <2>5. ASSUME NEW d, RestartFrom(d)
        PROVE  \A j \in DOMAIN db.jobs \cap DOMAIN eng'.jobs :
                 db.jobs[j].status = "Completed" => eng'.jobs[j].status = "Completed"
    BY <2>1, <2>2, <2>5, RestartKeeps
  <2>6. UNCHANGED db \/ UNCHANGED eng \/ \E d : RestartFrom(d)
    <3>1. ASSUME NEW r, SaveStep(r) PROVE UNCHANGED db
      BY <3>1 DEF SaveStep, Saving
    <3>2. ASSUME NEW r \in RunIds, ExpireRun(r) PROVE UNCHANGED db
      BY <3>2 DEF ExpireRun
    <3>3. ASSUME (\E j \in JobIds : StoreArtifact(j)) \/ Persist \/ UNCHANGED rvars
          PROVE  UNCHANGED eng
      BY <3>3 DEF StoreArtifact, Persist, rvars, vars
    <3> QED BY <1>1, <2>1, <3>1, <3>2, <3>3, Steps, UnrecordedStep, RestartSteps
  <2> QED BY <2>3, <2>4, <2>5, <2>6
<1> QED BY <1>1, CrashInvariance, PTL DEF RSpec, SavedWorkIsKept

\* As long as no timeout hits a live worker's job and no cleanup a run with work
\* under way, a job is started only after all it depends on has completed, through
\* crashes and restarts between handlers; a planner that is set back for its unusable
\* plan must not have jobs waiting for it.
THEOREM CrashesKeepDependencies ==
  (BadPlans => Plain) => (RSpec => [](Unbroken => DependenciesSurvive))
<1> SUFFICES ASSUME BadPlans => Plain PROVE RSpec => [](Unbroken => DependenciesSurvive)
  OBVIOUS
<1>1. CrashInv => (Unbroken => DependenciesSurvive)
  BY DEF CrashInv, UncutOK, DepsDone, DependenciesSurvive
<1> QED BY <1>1, CrashInvariance, PTL

=============================================================================
