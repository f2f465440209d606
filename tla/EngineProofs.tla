---------------------------- MODULE EngineProofs ----------------------------
(***************************************************************************)
(* Lemmas about the operators of module Engine, for every value of its     *)
(* constants.                                                              *)
(*                                                                         *)
(* Every engine operation gets a lemma that says it keeps EngineOK and     *)
(* which slots it frees (Freed).  Operations that only change jobs go      *)
(* through Changes, those that add jobs through Grows.                     *)
(***************************************************************************)
EXTENDS Engine, FiniteSetTheorems, SequenceTheorems, TLAPS

-----------------------------------------------------------------------------
(* Sequences and sets.                                                     *)

LEMMA EntriesOfAppend ==
  ASSUME NEW S, NEW q \in Seq(S), NEW x \in S
  PROVE  Append(q, x) \in Seq(S) /\ Entries(Append(q, x)) = Entries(q) \cup {x}
<1>1. /\ Append(q, x) \in Seq(S)
      /\ Len(Append(q, x)) = Len(q) + 1
      /\ \A i \in 1..Len(q) : Append(q, x)[i] = q[i]
      /\ Append(q, x)[Len(q) + 1] = x
  BY AppendProperties
<1>2. DOMAIN q = 1..Len(q) /\ DOMAIN Append(q, x) = 1..Len(q) + 1 /\ Len(q) \in Nat
  BY <1>1, LenProperties
<1>3. Entries(Append(q, x)) \subseteq Entries(q) \cup {x}
  BY <1>1, <1>2 DEF Entries
<1>4. Entries(q) \cup {x} \subseteq Entries(Append(q, x))
  BY <1>1, <1>2 DEF Entries
<1> QED BY <1>1, <1>3, <1>4

LEMMA EntriesOfSeq ==
  ASSUME NEW S, NEW q \in Seq(S)
  PROVE  Entries(q) \subseteq S
<1>1. DOMAIN q = 1..Len(q) /\ \A i \in 1..Len(q) : q[i] \in S
  BY LenProperties, ElementOfSeq
<1> QED BY <1>1 DEF Entries

LEMMA EntriesOfEmpty == Entries(<<>>) = {}
BY DEF Entries

LEMMA EntriesOfConcat ==
  ASSUME NEW S, NEW p \in Seq(S), NEW q \in Seq(S)
  PROVE  p \o q \in Seq(S) /\ Entries(p \o q) = Entries(p) \cup Entries(q)
<1>1. /\ p \o q \in Seq(S)
      /\ Len(p \o q) = Len(p) + Len(q)
      /\ \A i \in 1 .. Len(p) + Len(q) : (p \o q)[i] = IF i <= Len(p) THEN p[i] ELSE q[i - Len(p)]
  BY ConcatProperties
<1>2. /\ DOMAIN p = 1..Len(p) /\ DOMAIN q = 1..Len(q) /\ DOMAIN (p \o q) = 1 .. Len(p) + Len(q)
      /\ Len(p) \in Nat /\ Len(q) \in Nat
  BY <1>1, LenProperties
<1>3. Entries(p \o q) \subseteq Entries(p) \cup Entries(q)
  BY <1>1, <1>2 DEF Entries
<1>4. Entries(p) \subseteq Entries(p \o q)
  BY <1>1, <1>2 DEF Entries
<1>5. Entries(q) \subseteq Entries(p \o q)
  <2> SUFFICES ASSUME NEW i \in DOMAIN q
               PROVE  q[i] \in Entries(p \o q)
    BY DEF Entries
  <2>1. i + Len(p) \in DOMAIN (p \o q) /\ (p \o q)[i + Len(p)] = q[i]
    BY <1>1, <1>2
  <2> QED BY <2>1 DEF Entries
<1> QED BY <1>1, <1>3, <1>4, <1>5

LEMMA EntriesOfOrdering ==
  ASSUME NEW S, NEW f \in Orderings(S), IsFiniteSet(S)
  PROVE  f \in Seq(S) /\ Entries(f) = S /\ DOMAIN f = 1..Cardinality(S)
<1>1. Cardinality(S) \in Nat
  BY FS_CardinalityType
<1>2. f \in [1..Cardinality(S) -> S] /\ \A x \in S : \E i \in DOMAIN f : f[i] = x
  BY DEF Orderings
<1>3. f \in Seq(S)
  BY <1>1, <1>2, IsASeq
<1>4. Entries(f) = S
  BY <1>2 DEF Entries
<1> QED BY <1>2, <1>3, <1>4

LEMMA AppendDistinct ==
  ASSUME NEW S, NEW q \in Seq(S), NEW x \in S, x \notin Entries(q), Distinct(q)
  PROVE  Distinct(Append(q, x))
<1>1. /\ Append(q, x) \in Seq(S)
      /\ Len(Append(q, x)) = Len(q) + 1
      /\ \A i \in 1..Len(q) : Append(q, x)[i] = q[i]
      /\ Append(q, x)[Len(q) + 1] = x
  BY AppendProperties
<1>2. DOMAIN q = 1..Len(q) /\ DOMAIN Append(q, x) = 1..Len(q) + 1 /\ Len(q) \in Nat
  BY <1>1, LenProperties
<1>3. \A i \in 1..Len(q) : q[i] # x
  BY <1>2 DEF Entries
<1>4. \A i \in 1..Len(q) + 1 : i \in 1..Len(q) \/ i = Len(q) + 1
  BY <1>2
<1> QED BY <1>1, <1>2, <1>3, <1>4 DEF Distinct

LEMMA ConcatDistinct ==
  ASSUME NEW S, NEW p \in Seq(S), NEW q \in Seq(S), Distinct(p), Distinct(q),
         Entries(p) \cap Entries(q) = {}
  PROVE  Distinct(p \o q)
<1> DEFINE m == Len(p)
           n == Len(q)
           r == p \o q
<1>1. /\ r \in Seq(S) /\ Len(r) = m + n
      /\ \A i \in 1..m + n : r[i] = IF i <= m THEN p[i] ELSE q[i - m]
  BY ConcatProperties
<1>2. DOMAIN p = 1..m /\ DOMAIN q = 1..n /\ DOMAIN r = 1..m + n /\ m \in Nat /\ n \in Nat
  BY <1>1, LenProperties
<1> HIDE DEF m, n, r
<1>3. ASSUME NEW i \in DOMAIN r
      PROVE  \/ i \in DOMAIN p /\ r[i] = p[i]
             \/ i \notin DOMAIN p /\ i - m \in DOMAIN q /\ r[i] = q[i - m]
  BY <1>1, <1>2
<1>4. \A i \in DOMAIN p, k \in DOMAIN q : p[i] # q[k]
  BY DEF Entries
<1>5. ASSUME NEW i \in DOMAIN r, NEW k \in DOMAIN r, r[i] = r[k]
      PROVE  i = k
  <2>1. CASE i \in DOMAIN p
    <3>1. k \in DOMAIN p /\ r[i] = p[i] /\ r[k] = p[k]
      BY <1>3, <1>4, <1>5, <2>1
    <3> QED BY <1>5, <2>1, <3>1 DEF Distinct
  <2>2. CASE i \notin DOMAIN p
    <3>1. /\ i - m \in DOMAIN q /\ k - m \in DOMAIN q
          /\ r[i] = q[i - m] /\ r[k] = q[k - m]
      BY <1>3, <1>4, <1>5, <2>2
    <3>2. i - m = k - m
      BY <1>5, <3>1 DEF Distinct
    <3> QED BY <1>2, <3>2
  <2> QED BY <2>1, <2>2
<1> QED BY <1>5 DEF Distinct, r

LEMMA OrderingDistinct ==
  ASSUME NEW S, NEW f \in Orderings(S), IsFiniteSet(S)
  PROVE  Distinct(f)
<1> DEFINE n == Cardinality(S)
<1>1. n \in Nat
  BY FS_CardinalityType
<1>2. f \in [1..n -> S] /\ \A x \in S : \E i \in 1..n : f[i] = x
  BY DEF Orderings
<1>3. IsFiniteSet(1..n) /\ Cardinality(1..n) = n
  BY <1>1, FS_Interval
<1>4. f \in Surjection(1..n, S)
  BY <1>2 DEF Surjection
<1>5. f \in Injection(1..n, S)
  BY <1>3, <1>4, FS_SurjSameCardinalityImpliesInj
<1> QED BY <1>2, <1>5 DEF Injection, Distinct, IsInjective

-----------------------------------------------------------------------------
(* Engine states.                                                          *)

\* The part of the inductive invariant that is about the engine alone.
EngineOK(s) ==
  /\ EngineType(s)
  /\ RunningHoldSlots(s)
  /\ ReadyAreQueued(s)
  /\ Cardinality(s.active) <= MaxConcurrency

\* A record with the fields of an engine state.
HasFields(t) ==
  t \in [jobs : {t.jobs}, runs : {t.runs}, queue : {t.queue}, active : {t.active},
         nextJob : {t.nextJob}, nextRun : {t.nextRun}]

LEMMA TypeParts ==
  ASSUME NEW s, EngineType(s)
  PROVE  /\ HasFields(s)
         /\ s.nextJob \in Nat /\ s.nextJob - 1 \in Nat
         /\ s.nextRun \in Nat /\ s.nextRun - 1 \in Nat
         /\ s.jobs \in [DOMAIN s.jobs -> JobRecords]
         /\ DOMAIN s.jobs \subseteq 1..s.nextJob - 1
         /\ s.runs \in [DOMAIN s.runs -> RunStatus]
         /\ DOMAIN s.runs \subseteq 1..s.nextRun - 1
         /\ s.queue \in Seq(DOMAIN s.jobs)
         /\ s.active \in SUBSET DOMAIN s.jobs
         /\ \A j \in DOMAIN s.jobs : s.jobs[j] \in JobRecords
         /\ \A j \in DOMAIN s.jobs : s.jobs[j].run \in DOMAIN s.runs
<1>1. /\ s.nextJob \in Nat /\ s.nextJob - 1 \in Nat
      /\ s.nextRun \in Nat /\ s.nextRun - 1 \in Nat
      /\ s.jobs \in [DOMAIN s.jobs -> JobRecords]
      /\ s.runs \in [DOMAIN s.runs -> RunStatus]
      /\ DOMAIN s.jobs \subseteq 1..s.nextJob - 1
      /\ DOMAIN s.runs \subseteq 1..s.nextRun - 1
      /\ s.queue \in Seq(DOMAIN s.jobs)
      /\ s.active \subseteq DOMAIN s.jobs
      /\ \A j \in DOMAIN s.jobs : s.jobs[j].run \in DOMAIN s.runs
  BY DEF EngineType
<1>2. HasFields(s)
  BY DEF EngineType, HasFields
<1> QED BY <1>1, <1>2

LEMMA JobUpdate ==
  ASSUME NEW rec \in JobRecords, NEW status \in JobStatus
  PROVE  /\ [rec EXCEPT !.status = status] \in JobRecords
         /\ [rec EXCEPT !.status = status].status = status
         /\ [rec EXCEPT !.status = status].run = rec.run
         /\ [rec EXCEPT !.status = status].profile = rec.profile
         /\ [rec EXCEPT !.status = status].role = rec.role
         /\ [rec EXCEPT !.status = status].deps = rec.deps
         /\ [rec EXCEPT !.status = status].attempt = rec.attempt
         /\ [rec EXCEPT !.status = status].round = rec.round
BY DEF JobRecords

\* new is the job map of s with a new status for the jobs in J.
Restatused(s, new, J, status) ==
  /\ new \in [DOMAIN s.jobs -> JobRecords]
  /\ \A i \in DOMAIN s.jobs :
       /\ new[i].run = s.jobs[i].run
       /\ new[i].profile = s.jobs[i].profile
       /\ new[i].role = s.jobs[i].role
       /\ new[i].deps = s.jobs[i].deps
       /\ new[i].attempt = s.jobs[i].attempt
       /\ new[i].round = s.jobs[i].round
       /\ new[i].status = IF i \in J THEN status ELSE s.jobs[i].status

LEMMA SetStatusOK ==
  ASSUME NEW s, EngineType(s), NEW J, NEW status \in JobStatus
  PROVE  Restatused(s, SetStatus(s.jobs, J, status), J, status)
<1> DEFINE new == SetStatus(s.jobs, J, status)
<1>1. ASSUME NEW i \in DOMAIN s.jobs
      PROVE  /\ new[i] \in JobRecords
             /\ new[i].run = s.jobs[i].run
             /\ new[i].profile = s.jobs[i].profile
             /\ new[i].role = s.jobs[i].role
             /\ new[i].deps = s.jobs[i].deps
             /\ new[i].attempt = s.jobs[i].attempt
             /\ new[i].round = s.jobs[i].round
             /\ new[i].status = IF i \in J THEN status ELSE s.jobs[i].status
  <2>1. s.jobs[i] \in JobRecords
    BY TypeParts
  <2>2. new[i] = IF i \in J THEN [s.jobs[i] EXCEPT !.status = status] ELSE s.jobs[i]
    BY DEF SetStatus
  <2> QED BY <2>1, <2>2, JobUpdate
<1>2. new = [i \in DOMAIN s.jobs |-> new[i]]
  BY DEF SetStatus
<1> QED BY <1>1, <1>2 DEF Restatused

LEMMA FiniteIds ==
  ASSUME NEW s, EngineType(s)
  PROVE  IsFiniteSet(DOMAIN s.jobs) /\ IsFiniteSet(s.active) /\ Cardinality(s.active) \in Nat
<1>1. /\ DOMAIN s.jobs \subseteq 1..s.nextJob - 1 /\ s.nextJob - 1 \in Nat
      /\ s.active \subseteq DOMAIN s.jobs
  BY TypeParts
<1>2. IsFiniteSet(DOMAIN s.jobs)
  <2>1. IsFiniteSet(1..s.nextJob - 1)
    <3>1. 1 \in Int /\ s.nextJob - 1 \in Int
      BY <1>1
    <3> QED BY <3>1, FS_Interval, Zenon
  <2> QED BY <1>1, <2>1, FS_Subset
<1>3. IsFiniteSet(s.active)
  BY <1>1, <1>2, FS_Subset
<1> QED BY <1>2, <1>3, FS_CardinalityType

\* t has the jobs, runs, queue and slots of an engine state over the ids of s.
Changes(s, t) ==
  /\ HasFields(t)
  /\ t.nextJob = s.nextJob /\ t.nextRun = s.nextRun
  /\ t.jobs \in [DOMAIN s.jobs -> JobRecords]
  /\ \A j \in DOMAIN s.jobs : /\ t.jobs[j].run = s.jobs[j].run
                              /\ t.jobs[j].profile = s.jobs[j].profile
  /\ t.runs \in [DOMAIN s.runs -> RunStatus]
  /\ t.queue \in Seq(DOMAIN s.jobs)
  /\ t.active \subseteq DOMAIN s.jobs

LEMMA ChangesType ==
  ASSUME NEW s, NEW t, EngineType(s), Changes(s, t)
  PROVE  EngineType(t) /\ DOMAIN t.jobs = DOMAIN s.jobs /\ DOMAIN t.runs = DOMAIN s.runs
<1>1. /\ DOMAIN s.jobs \subseteq 1..s.nextJob - 1 /\ DOMAIN s.runs \subseteq 1..s.nextRun - 1
      /\ s.nextJob \in Nat \ {0} /\ s.nextRun \in Nat \ {0}
      /\ \A j \in DOMAIN s.jobs : s.jobs[j].run \in DOMAIN s.runs
  BY TypeParts DEF EngineType
<1>2. EngineType(t)
  BY <1>1 DEF Changes, EngineType, HasFields
<1> QED BY <1>2 DEF Changes

-----------------------------------------------------------------------------
(* The engine's operations, one lemma each.  Freed(s, t, J): t has all of  *)
(* s's jobs, with the same profiles, and the slots of J are free.          *)

Freed(s, t, J) ==
  /\ DOMAIN s.jobs \subseteq DOMAIN t.jobs
  /\ \A j \in DOMAIN s.jobs : t.jobs[j].profile = s.jobs[j].profile
  /\ t.active = s.active \ J

\* Freeing slots keeps within the limit.
LEMMA FewerSlots ==
  ASSUME NEW s, NEW J, EngineOK(s)
  PROVE  Cardinality(s.active \ J) <= MaxConcurrency
<1>1. /\ IsFiniteSet(s.active) /\ Cardinality(s.active) \in Nat
      /\ Cardinality(s.active) <= MaxConcurrency
  BY FiniteIds DEF EngineOK
<1>2. IsFiniteSet(s.active \ J) /\ Cardinality(s.active \ J) <= Cardinality(s.active)
  BY <1>1, FS_Subset
<1>3. Cardinality(s.active \ J) \in Nat
  BY <1>2, FS_CardinalityType
<1> QED BY <1>1, <1>2, <1>3, EngineAssumption

LEMMA CheckRunCompletionOK ==
  ASSUME NEW s, EngineOK(s), NEW r \in DOMAIN s.runs
  PROVE  /\ EngineOK(CheckRunCompletion(s, r))
         /\ CheckRunCompletion(s, r).jobs = s.jobs
         /\ CheckRunCompletion(s, r).active = s.active
<1> DEFINE t == CheckRunCompletion(s, r)
<1>1. EngineType(t)
  BY DEF EngineOK, EngineType, CheckRunCompletion, RunStatus
<1>2. t.jobs = s.jobs /\ t.active = s.active
  BY DEF EngineOK, EngineType, CheckRunCompletion
<1>3. RunningHoldSlots(t)
  BY <1>2 DEF EngineOK, RunningHoldSlots
<1>4. ReadyAreQueued(t)
  BY DEF EngineOK, EngineType, CheckRunCompletion, ReadyAreQueued, JobsOf, Unfinished
<1> QED BY <1>1, <1>2, <1>3, <1>4 DEF EngineOK

LEMMA MarkFailedOK ==
  ASSUME NEW s, EngineOK(s), NEW j \in DOMAIN s.jobs
  PROVE  EngineOK(MarkFailed(s, j)) /\ Freed(s, MarkFailed(s, j), {j})
<1> DEFINE retry == s.jobs[j].attempt < MaxAttempts
           status == IF retry THEN "Ready" ELSE "Failed"
           queue == IF retry THEN Append(s.queue, j) ELSE s.queue
           failed == [s EXCEPT !.jobs = SetStatus(@, {j}, status),
                               !.queue = IF retry THEN Append(@, j) ELSE @,
                               !.active = @ \ {j}]
<1>0. EngineType(s)
  BY DEF EngineOK
<1>1. status \in JobStatus /\ status # "Running" /\ (status = "Ready" => retry)
  BY DEF JobStatus
<1>2. /\ failed.jobs = SetStatus(s.jobs, {j}, status)
      /\ failed.runs = s.runs /\ failed.queue = queue /\ failed.active = s.active \ {j}
      /\ failed.nextJob = s.nextJob /\ failed.nextRun = s.nextRun
      /\ HasFields(failed)
  BY <1>0 DEF EngineType, HasFields
<1> HIDE DEF failed
<1>3. /\ failed.jobs \in [DOMAIN s.jobs -> JobRecords]
      /\ \A i \in DOMAIN s.jobs :
           /\ failed.jobs[i].run = s.jobs[i].run
           /\ failed.jobs[i].profile = s.jobs[i].profile
           /\ failed.jobs[i].status = IF i = j THEN status ELSE s.jobs[i].status
  <2> HIDE DEF status
  <2>2. Restatused(s, failed.jobs, {j}, status)
    BY <1>0, <1>1, <1>2, SetStatusOK
  <2> QED BY <2>2 DEF Restatused
<1>4. /\ queue \in Seq(DOMAIN s.jobs)
      /\ Entries(s.queue) \subseteq Entries(queue)
      /\ retry => j \in Entries(queue)
  <2> DEFINE ids == DOMAIN s.jobs
  <2>1. s.queue \in Seq(ids) /\ j \in ids
    BY <1>0, TypeParts
  <2> HIDE DEF ids
  <2>2. /\ Append(s.queue, j) \in Seq(ids)
        /\ Entries(Append(s.queue, j)) = Entries(s.queue) \cup {j}
    BY <2>1, EntriesOfAppend
  <2> QED BY <2>1, <2>2 DEF ids
<1> HIDE DEF retry, status, queue
<1>5. Changes(s, failed)
  BY <1>0, <1>2, <1>3, <1>4, TypeParts DEF Changes
<1>6. EngineType(failed) /\ DOMAIN failed.jobs = DOMAIN s.jobs /\ DOMAIN failed.runs = DOMAIN s.runs
  BY <1>0, <1>5, ChangesType
<1>7. RunningHoldSlots(failed)
  BY <1>1, <1>2, <1>3, <1>6 DEF EngineOK, RunningHoldSlots
<1>8. ReadyAreQueued(failed)
  BY <1>1, <1>2, <1>3, <1>4, <1>6 DEF EngineOK, ReadyAreQueued
<1>9. EngineOK(failed) /\ Freed(s, failed, {j}) /\ s.jobs[j].run \in DOMAIN failed.runs
  BY <1>0, <1>2, <1>3, <1>6, <1>7, <1>8, TypeParts, FewerSlots DEF EngineOK, Freed
<1>10. MarkFailed(s, j) = IF j \in s.active THEN CheckRunCompletion(failed, s.jobs[j].run) ELSE failed
  BY DEF MarkFailed, failed, retry, status
<1> QED BY <1>9, <1>10, CheckRunCompletionOK DEF Freed

LEMMA CompletedOK ==
  ASSUME NEW s, EngineOK(s), NEW j \in DOMAIN s.jobs
  PROVE  LET t == Completed(s, j) IN
         /\ EngineOK(t) /\ Freed(s, t, {j})
         /\ DOMAIN t.jobs = DOMAIN s.jobs /\ t.runs = s.runs
         /\ \A i \in DOMAIN s.jobs : t.jobs[i].run = s.jobs[i].run
<1> DEFINE t == Completed(s, j)
<1>0. EngineType(s)
  BY DEF EngineOK
<1>1. /\ t.jobs = SetStatus(s.jobs, {j}, "Completed")
      /\ t.runs = s.runs /\ t.queue = s.queue /\ t.active = s.active \ {j}
      /\ t.nextJob = s.nextJob /\ t.nextRun = s.nextRun
      /\ HasFields(t)
  BY <1>0 DEF EngineType, HasFields, Completed
<1> HIDE DEF t
<1>2. /\ t.jobs \in [DOMAIN s.jobs -> JobRecords]
      /\ \A i \in DOMAIN s.jobs :
           /\ t.jobs[i].run = s.jobs[i].run
           /\ t.jobs[i].profile = s.jobs[i].profile
           /\ t.jobs[i].status = IF i = j THEN "Completed" ELSE s.jobs[i].status
  <2>1. "Completed" \in JobStatus
    BY DEF JobStatus
  <2>2. Restatused(s, t.jobs, {j}, "Completed")
    BY <1>0, <1>1, <2>1, SetStatusOK
  <2> QED BY <2>2 DEF Restatused
<1>3. Changes(s, t)
  BY <1>0, <1>1, <1>2, TypeParts DEF Changes
<1>4. EngineType(t) /\ DOMAIN t.jobs = DOMAIN s.jobs /\ DOMAIN t.runs = DOMAIN s.runs
  BY <1>0, <1>3, ChangesType
<1>5. RunningHoldSlots(t) /\ ReadyAreQueued(t)
  BY <1>1, <1>2, <1>4 DEF EngineOK, RunningHoldSlots, ReadyAreQueued
<1>6. EngineOK(t) /\ Freed(s, t, {j})
  BY <1>1, <1>2, <1>4, <1>5, FewerSlots DEF EngineOK, Freed
<1> QED BY <1>1, <1>2, <1>4, <1>6 DEF t

\* Promotion keeps the invariant when the promoted jobs were Pending.
LEMMA PromoteOK ==
  ASSUME NEW s, EngineOK(s), NEW order \in Seq(DOMAIN s.jobs),
         \A j \in Entries(order) : s.jobs[j].status = "Pending"
  PROVE  LET t == PromoteUnblocked(s, order) IN
         EngineOK(t) /\ Freed(s, t, {}) /\ t.runs = s.runs
<1> DEFINE t == PromoteUnblocked(s, order)
<1>0. EngineType(s)
  BY DEF EngineOK
<1>1. /\ t.jobs = SetStatus(s.jobs, Entries(order), "Ready")
      /\ t.runs = s.runs /\ t.queue = s.queue \o order /\ t.active = s.active
      /\ t.nextJob = s.nextJob /\ t.nextRun = s.nextRun
      /\ HasFields(t)
  BY <1>0 DEF EngineType, HasFields, PromoteUnblocked
<1> HIDE DEF t
<1>2. /\ t.jobs \in [DOMAIN s.jobs -> JobRecords]
      /\ \A i \in DOMAIN s.jobs :
           /\ t.jobs[i].run = s.jobs[i].run
           /\ t.jobs[i].profile = s.jobs[i].profile
           /\ t.jobs[i].status = IF i \in Entries(order) THEN "Ready" ELSE s.jobs[i].status
  <2>1. "Ready" \in JobStatus
    BY DEF JobStatus
  <2>2. Restatused(s, t.jobs, Entries(order), "Ready")
    BY <1>0, <1>1, <2>1, SetStatusOK
  <2> QED BY <2>2 DEF Restatused
<1>3. /\ t.queue \in Seq(DOMAIN s.jobs)
      /\ Entries(t.queue) = Entries(s.queue) \cup Entries(order)
  <2> DEFINE ids == DOMAIN s.jobs
  <2>1. s.queue \in Seq(ids) /\ order \in Seq(ids)
    BY <1>0, TypeParts
  <2> HIDE DEF ids
  <2>2. /\ s.queue \o order \in Seq(ids)
        /\ Entries(s.queue \o order) = Entries(s.queue) \cup Entries(order)
    BY <2>1, EntriesOfConcat
  <2> QED BY <1>1, <2>2 DEF ids
<1>4. Changes(s, t)
  BY <1>0, <1>1, <1>2, <1>3, TypeParts DEF Changes
<1>5. EngineType(t) /\ DOMAIN t.jobs = DOMAIN s.jobs /\ DOMAIN t.runs = DOMAIN s.runs
  BY <1>0, <1>4, ChangesType
<1>6. RunningHoldSlots(t)
  BY <1>1, <1>2, <1>5 DEF EngineOK, RunningHoldSlots
<1>7. ReadyAreQueued(t)
  BY <1>1, <1>2, <1>3, <1>5 DEF EngineOK, ReadyAreQueued
<1> QED BY <1>1, <1>2, <1>5, <1>6, <1>7 DEF EngineOK, Freed, t

LEMMA MarkCompletedOK ==
  ASSUME NEW s, EngineOK(s), NEW j \in DOMAIN s.jobs,
         NEW order \in Orderings(PromotedBy(s, j))
  PROVE  /\ EngineOK(MarkCompleted(s, j, order))
         /\ Freed(s, MarkCompleted(s, j, order), {j})
<1> DEFINE done == Completed(s, j)
           promoted == PromotedBy(s, j)
<1>1. /\ EngineOK(done) /\ Freed(s, done, {j})
      /\ DOMAIN done.jobs = DOMAIN s.jobs /\ done.runs = s.runs
  BY CompletedOK
<1>2. CASE j \in s.active
  <2>1. promoted = Promotable(done, s.jobs[j].run)
    BY <1>2 DEF PromotedBy
  <2>2. /\ promoted \subseteq DOMAIN done.jobs
        /\ \A i \in promoted : done.jobs[i].status = "Pending"
    BY <2>1 DEF Promotable, JobsOf
  <2>3. IsFiniteSet(promoted)
    BY <1>1, <2>2, FiniteIds, FS_Subset DEF EngineOK
  <2>4. order \in Seq(promoted) /\ Entries(order) = promoted
    BY <2>3, EntriesOfOrdering
  <2>5. order \in Seq(DOMAIN done.jobs)
    BY <2>2, <2>4, SeqMonotonic
  <2> DEFINE next == PromoteUnblocked(done, order)
  <2>6. EngineOK(next) /\ Freed(done, next, {}) /\ next.runs = s.runs
    BY <1>1, <2>2, <2>4, <2>5, PromoteOK
  <2>7. s.jobs[j].run \in DOMAIN next.runs
    BY <2>6, TypeParts DEF EngineOK
  <2>8. MarkCompleted(s, j, order) = CheckRunCompletion(next, s.jobs[j].run)
    BY <1>2 DEF MarkCompleted
  <2> HIDE DEF next, done
  <2> QED BY <1>1, <2>6, <2>7, <2>8, CheckRunCompletionOK DEF Freed
<1>3. CASE j \notin s.active
  BY <1>1, <1>3 DEF MarkCompleted
<1> QED BY <1>2, <1>3

-----------------------------------------------------------------------------
(* What mark_failed and mark_completed do to the jobs and the runs.        *)

\* A job record that differs in its status only.
SameJob(a, b) ==
  /\ a.run = b.run /\ a.role = b.role /\ a.profile = b.profile
  /\ a.deps = b.deps /\ a.attempt = b.attempt /\ a.round = b.round

\* t is s but for job j, which has the status, and the jobs in new, which
\* became Ready; what became Ready was queued.
Settles(s, t, j, status, new) ==
  /\ DOMAIN t.jobs = DOMAIN s.jobs
  /\ \A i \in DOMAIN s.jobs :
       /\ SameJob(t.jobs[i], s.jobs[i])
       /\ t.jobs[i].status = IF i = j THEN status
                             ELSE IF i \in new THEN "Ready" ELSE s.jobs[i].status
  /\ Entries(t.queue) = Entries(s.queue) \cup new \cup (IF status = "Ready" THEN {j} ELSE {})
  /\ Distinct(s.queue) /\ j \notin Entries(s.queue) /\ new \cap Entries(s.queue) = {}
       => Distinct(t.queue)

\* The runs of t are those of s but for run r, which has been checked.
Concludes(s, t, r) ==
  /\ DOMAIN t.runs = DOMAIN s.runs
  /\ \A q \in DOMAIN s.runs \ {r} : t.runs[q] = s.runs[q]
  /\ (\E i \in JobsOf(t, r) : t.jobs[i].status \in Unfinished) => t.runs[r] = s.runs[r]
  /\ (\A i \in JobsOf(t, r) : t.jobs[i].status \notin Unfinished)
       => t.runs[r] = IF \E i \in JobsOf(t, r) : t.jobs[i].status = "Failed"
                      THEN "Failed" ELSE "Completed"

LEMMA SettlesJobs ==
  ASSUME NEW s, NEW t, NEW j \in DOMAIN s.jobs, NEW status, NEW new, Settles(s, t, j, status, new)
  PROVE  \A r : JobsOf(t, r) = JobsOf(s, r)
BY DEF Settles, SameJob, JobsOf

\* What check_run_completion leaves behind.
LEMMA CheckRunConcludes ==
  ASSUME NEW s, EngineType(s), NEW r \in DOMAIN s.runs, JobsOf(s, r) # {}
  PROVE  LET t == CheckRunCompletion(s, r) IN
         t.jobs = s.jobs /\ t.queue = s.queue /\ Concludes(s, t, r)
<1> DEFINE t == CheckRunCompletion(s, r)
           over == \A j \in JobsOf(s, r) : s.jobs[j].status \notin Unfinished
           verdict == IF \E j \in JobsOf(s, r) : s.jobs[j].status = "Failed"
                      THEN "Failed" ELSE "Completed"
<1>1. /\ t.jobs = s.jobs /\ t.queue = s.queue
      /\ t.runs = IF over THEN [s.runs EXCEPT ![r] = verdict] ELSE s.runs
  BY DEF EngineType, CheckRunCompletion
<1>2. JobsOf(t, r) = JobsOf(s, r)
  BY <1>1 DEF JobsOf
<1> QED BY <1>1, <1>2 DEF Concludes

\* The status mark_failed gives a job.
AfterFailure(job) == IF job.attempt < MaxAttempts THEN "Ready" ELSE "Failed"

LEMMA MarkFailedEffect ==
  ASSUME NEW s, EngineType(s), NEW j \in DOMAIN s.jobs
  PROVE  LET t == MarkFailed(s, j)
             status == AfterFailure(s.jobs[j])
         IN  /\ Settles(s, t, j, status, {})
             /\ j \in s.active => Concludes(s, t, s.jobs[j].run)
             /\ j \notin s.active => t.runs = s.runs
<1> DEFINE retry == s.jobs[j].attempt < MaxAttempts
           status == AfterFailure(s.jobs[j])
           r == s.jobs[j].run
           t == MarkFailed(s, j)
           failed == [s EXCEPT !.jobs = SetStatus(@, {j}, IF retry THEN "Ready" ELSE "Failed"),
                               !.queue = IF retry THEN Append(@, j) ELSE @,
                               !.active = @ \ {j}]
<1>0. EngineType(s) /\ s.queue \in Seq(DOMAIN s.jobs) /\ r \in DOMAIN s.runs
  BY TypeParts
<1>1. /\ failed.jobs = SetStatus(s.jobs, {j}, status)
      /\ failed.queue = IF status = "Ready" THEN Append(s.queue, j) ELSE s.queue
      /\ failed.runs = s.runs
  BY <1>0 DEF EngineType, AfterFailure
<1>3. t = IF j \in s.active THEN CheckRunCompletion(failed, r) ELSE failed
  BY DEF MarkFailed
<1>4. EngineType(failed) /\ DOMAIN failed.jobs = DOMAIN s.jobs /\ DOMAIN failed.runs = DOMAIN s.runs
      /\ \A i \in DOMAIN s.jobs :
           /\ SameJob(failed.jobs[i], s.jobs[i])
           /\ failed.jobs[i].status = IF i = j THEN status ELSE s.jobs[i].status
  <2>1. status \in JobStatus
    BY DEF AfterFailure, JobStatus
  <2> HIDE DEF failed, status
  <2>2. Restatused(s, failed.jobs, {j}, status)
    BY <1>0, <1>1, <2>1, SetStatusOK
  <2>3. /\ DOMAIN failed.jobs = DOMAIN s.jobs
        /\ \A i \in DOMAIN s.jobs :
             /\ SameJob(failed.jobs[i], s.jobs[i])
             /\ failed.jobs[i].status = IF i = j THEN status ELSE s.jobs[i].status
    BY <2>2 DEF Restatused, SameJob
  <2>4. /\ HasFields(failed) /\ failed.active = s.active \ {j}
        /\ failed.nextJob = s.nextJob /\ failed.nextRun = s.nextRun
    BY <1>0 DEF failed, EngineType, HasFields
  <2>5. failed.queue \in Seq(DOMAIN s.jobs)
    <3> DEFINE ids == DOMAIN s.jobs
    <3>1. s.queue \in Seq(ids) /\ j \in ids
      BY <1>0
    <3> HIDE DEF ids
    <3>2. Append(s.queue, j) \in Seq(ids)
      BY <3>1, AppendProperties
    <3> QED BY <1>1, <3>1, <3>2 DEF ids
  <2>6. Changes(s, failed)
    BY <1>0, <1>1, <2>2, <2>4, <2>5, TypeParts DEF Changes, Restatused
  <2> QED BY <1>0, <1>1, <2>3, <2>6, ChangesType
<1>5. Settles(s, failed, j, status, {})
  <2>1. CASE status = "Ready"
    <3>1. Entries(failed.queue) = Entries(s.queue) \cup {j}
      BY <1>0, <1>1, <2>1, EntriesOfAppend
    <3>2. Distinct(s.queue) /\ j \notin Entries(s.queue) => Distinct(failed.queue)
      BY <1>0, <1>1, <2>1, AppendDistinct
    <3> HIDE DEF failed, status
    <3> QED BY <1>4, <2>1, <3>1, <3>2 DEF Settles
  <2>2. CASE status # "Ready"
    <3>1. failed.queue = s.queue
      BY <1>1, <2>2
    <3> HIDE DEF failed, status
    <3> QED BY <1>4, <2>2, <3>1 DEF Settles
  <2> QED BY <2>1, <2>2
<1> HIDE DEF failed, status
<1>6. \A q : JobsOf(failed, q) = JobsOf(s, q)
  BY <1>5, SettlesJobs
<1>7. CASE j \in s.active
  <2>1. JobsOf(failed, r) # {}
    BY <1>6 DEF JobsOf
  <2>2. t.jobs = failed.jobs /\ t.queue = failed.queue /\ Concludes(failed, t, r)
    BY <1>0, <1>3, <1>4, <1>7, <2>1, CheckRunConcludes
  <2> HIDE DEF t
  <2>3. Concludes(s, t, r)
    BY <1>1, <2>2 DEF Concludes
  <2>4. Settles(s, t, j, status, {})
    BY <1>5, <2>2 DEF Settles
  <2> QED BY <1>7, <2>3, <2>4 DEF status, t
<1>8. CASE j \notin s.active
  BY <1>1, <1>3, <1>5, <1>8 DEF status
<1> QED BY <1>7, <1>8

\* What mark_completed promotes was Pending and is of the run of j.
LEMMA PromotedPending ==
  ASSUME NEW s, EngineOK(s), NEW j \in DOMAIN s.jobs
  PROVE  PromotedBy(s, j) \subseteq
           {i \in JobsOf(s, s.jobs[j].run) : i # j /\ s.jobs[i].status = "Pending"}
<1> DEFINE done == Completed(s, j)
<1>1. /\ DOMAIN done.jobs = DOMAIN s.jobs
      /\ \A i \in DOMAIN s.jobs :
           /\ SameJob(done.jobs[i], s.jobs[i])
           /\ done.jobs[i].status = IF i = j THEN "Completed" ELSE s.jobs[i].status
  <2>1. EngineType(s) /\ done.jobs = SetStatus(s.jobs, {j}, "Completed")
    BY DEF EngineOK, EngineType, Completed
  <2> HIDE DEF done
  <2>2. Restatused(s, done.jobs, {j}, "Completed")
    BY <2>1, SetStatusOK DEF JobStatus
  <2> QED BY <2>2 DEF Restatused, SameJob
<1> HIDE DEF done
<1>2. PromotedBy(s, j) \subseteq Promotable(done, s.jobs[j].run)
  BY DEF PromotedBy, done
<1> QED BY <1>1, <1>2 DEF Promotable, JobsOf, SameJob

LEMMA MarkCompletedEffect ==
  ASSUME NEW s, EngineOK(s), NEW j \in DOMAIN s.jobs, NEW order \in Orderings(PromotedBy(s, j))
  PROVE  LET t == MarkCompleted(s, j, order) IN
         /\ Settles(s, t, j, "Completed", PromotedBy(s, j))
         /\ j \in s.active => Concludes(s, t, s.jobs[j].run)
         /\ j \notin s.active => t.runs = s.runs
<1> DEFINE r == s.jobs[j].run
           done == Completed(s, j)
           next == PromoteUnblocked(done, order)
           new == PromotedBy(s, j)
           t == MarkCompleted(s, j, order)
<1>0. /\ EngineOK(s) /\ EngineType(s)
      /\ s.queue \in Seq(DOMAIN s.jobs) /\ r \in DOMAIN s.runs
  BY TypeParts DEF EngineOK
<1>1. /\ EngineOK(done) /\ EngineType(done)
      /\ done.runs = s.runs /\ DOMAIN done.jobs = DOMAIN s.jobs
  BY <1>0, CompletedOK DEF EngineOK
<1>2. done.queue = s.queue
      /\ \A i \in DOMAIN s.jobs :
           /\ SameJob(done.jobs[i], s.jobs[i])
           /\ done.jobs[i].status = IF i = j THEN "Completed" ELSE s.jobs[i].status
  <2>1. /\ done.queue = s.queue /\ done.jobs = SetStatus(s.jobs, {j}, "Completed")
    BY <1>0 DEF EngineType, Completed
  <2> HIDE DEF done
  <2>2. EngineType(s) /\ "Completed" \in JobStatus
    BY <1>0 DEF JobStatus
  <2>3. Restatused(s, done.jobs, {j}, "Completed")
    BY <2>1, <2>2, SetStatusOK
  <2> QED BY <2>1, <2>3 DEF Restatused, SameJob
<1> HIDE DEF done
<1>3. new \subseteq {i \in JobsOf(s, r) : i # j /\ s.jobs[i].status = "Pending"}
  BY <1>0, PromotedPending
<1>4. /\ order \in Seq(DOMAIN s.jobs) /\ Entries(order) = new /\ Distinct(order)
      /\ new \subseteq DOMAIN s.jobs
      /\ \A i \in new : s.jobs[i].status = "Pending"
  <2>1. new \subseteq DOMAIN s.jobs /\ \A i \in new : s.jobs[i].status = "Pending"
    BY <1>3 DEF JobsOf
  <2>2. IsFiniteSet(new)
    BY <1>0, <2>1, FiniteIds, FS_Subset
  <2> HIDE DEF new
  <2>3. order \in Seq(new) /\ Entries(order) = new /\ Distinct(order)
    BY <2>2, EntriesOfOrdering, OrderingDistinct DEF new
  <2>4. order \in Seq(DOMAIN s.jobs)
    BY <2>1, <2>3, SeqMonotonic
  <2> QED BY <2>1, <2>3, <2>4
<1>5. /\ next.queue = s.queue \o order /\ next.runs = s.runs
      /\ DOMAIN next.jobs = DOMAIN s.jobs
      /\ \A i \in DOMAIN s.jobs :
           /\ SameJob(next.jobs[i], s.jobs[i])
           /\ next.jobs[i].status = IF i \in new THEN "Ready"
                                    ELSE IF i = j THEN "Completed" ELSE s.jobs[i].status
  <2>1. /\ next.queue = done.queue \o order /\ next.runs = done.runs
        /\ next.jobs = SetStatus(done.jobs, new, "Ready")
    BY <1>1, <1>4 DEF EngineType, PromoteUnblocked
  <2>2. Restatused(done, SetStatus(done.jobs, new, "Ready"), new, "Ready")
    BY <1>1, SetStatusOK DEF JobStatus
  <2> HIDE DEF next, new
  <2> QED BY <1>1, <1>2, <2>1, <2>2 DEF Restatused, SameJob
<1>6. EngineType(next)
  <2>1. \A i \in Entries(order) : done.jobs[i].status = "Pending"
    BY <1>2, <1>3, <1>4
  <2> QED BY <1>1, <1>4, <2>1, PromoteOK DEF EngineOK
<1> HIDE DEF next, new
<1>7. Settles(s, next, j, "Completed", new)
  <2>1. Entries(next.queue) = Entries(s.queue) \cup new
    BY <1>0, <1>4, <1>5, EntriesOfConcat
  <2>2. Distinct(s.queue) /\ new \cap Entries(s.queue) = {} => Distinct(next.queue)
    BY <1>0, <1>4, <1>5, ConcatDistinct
  <2>3. j \notin new
    BY <1>3
  <2> QED BY <1>5, <2>1, <2>2, <2>3 DEF Settles
<1>8. CASE j \in s.active
  <2>1. JobsOf(next, r) # {}
    <3>1. JobsOf(next, r) = JobsOf(s, r)
      BY <1>7, SettlesJobs
    <3> QED BY <3>1 DEF JobsOf
  <2>2. t = CheckRunCompletion(next, r)
    BY <1>8 DEF MarkCompleted, next, done
  <2>3. t.jobs = next.jobs /\ t.queue = next.queue /\ Concludes(next, t, r)
    BY <1>0, <1>5, <1>6, <2>1, <2>2, CheckRunConcludes
  <2> HIDE DEF t
  <2>4. Settles(s, t, j, "Completed", new) /\ Concludes(s, t, r)
    BY <1>5, <1>7, <2>3 DEF Settles, Concludes
  <2> QED BY <1>8, <2>4 DEF t, new
<1>9. CASE j \notin s.active
  <2>1. t = done /\ new = {}
    BY <1>9 DEF MarkCompleted, PromotedBy, done, new
  <2> HIDE DEF t
  <2>2. Settles(s, t, j, "Completed", {})
    BY <1>1, <1>2, <2>1 DEF Settles
  <2> QED BY <1>1, <1>9, <2>1, <2>2 DEF t, new
<1> QED BY <1>8, <1>9

-----------------------------------------------------------------------------
(* Operations that add jobs.                                               *)

\* t is s with the jobs recs of one run added, perhaps with more runs, and with
\* the new Ready jobs queued: those that depend on nothing.  The others depend
\* on each other and on these.
Grows(s, t, run, recs) ==
  /\ HasFields(t)
  /\ recs \in Seq(JobRecords)
  /\ t.nextJob = s.nextJob + Len(recs)
  /\ t.jobs = [j \in DOMAIN s.jobs \cup (s.nextJob .. s.nextJob + Len(recs) - 1) |->
                 IF j \in DOMAIN s.jobs THEN s.jobs[j] ELSE recs[j - s.nextJob + 1]]
  /\ t.nextRun \in Nat \ {0} /\ t.nextRun >= s.nextRun
  /\ t.runs \in [DOMAIN t.runs -> RunStatus]
  /\ DOMAIN s.runs \subseteq DOMAIN t.runs /\ DOMAIN t.runs \subseteq 1..t.nextRun - 1
  /\ \A r \in DOMAIN s.runs : t.runs[r] = s.runs[r]
  /\ run \in DOMAIN t.runs
  /\ \A i \in 1..Len(recs) :
       /\ recs[i].run = run
       /\ recs[i].attempt = 0
       /\ recs[i].status = IF recs[i].deps = <<>> THEN "Ready" ELSE "Pending"
       /\ recs[i].status = "Ready" => s.nextJob + i - 1 \in Entries(t.queue)
       /\ \A d \in Entries(recs[i].deps) : d \in s.nextJob .. s.nextJob + Len(recs) - 1
  /\ t.queue \in Seq(DOMAIN t.jobs)
  /\ Entries(s.queue) \subseteq Entries(t.queue)
  /\ \A x \in Entries(t.queue) \ Entries(s.queue) :
       \E i \in 1..Len(recs) : x = s.nextJob + i - 1 /\ recs[i].status = "Ready"
  /\ Distinct(s.queue) => Distinct(t.queue)
  /\ t.active = s.active

LEMMA GrowsType ==
  ASSUME NEW s, NEW t, NEW run, NEW recs, EngineType(s), Grows(s, t, run, recs)
  PROVE  /\ EngineType(t)
         /\ \A j \in DOMAIN s.jobs : j \in DOMAIN t.jobs /\ t.jobs[j] = s.jobs[j]
         /\ \A j \in DOMAIN t.jobs \ DOMAIN s.jobs :
              \E i \in 1..Len(recs) : j = s.nextJob + i - 1 /\ t.jobs[j] = recs[i]
<1> DEFINE n == s.nextJob - 1
           m == Len(recs)
           new == n + 1 .. n + m
<1>1. /\ s.nextJob = n + 1 /\ n \in Nat /\ m \in Nat
      /\ DOMAIN s.jobs \subseteq 1..n
      /\ \A j \in DOMAIN s.jobs : s.jobs[j] \in JobRecords /\ s.jobs[j].run \in DOMAIN s.runs
      /\ s.active \subseteq DOMAIN s.jobs
  <2>1. EngineType(s) /\ recs \in Seq(JobRecords)
    BY DEF Grows
  <2>2. m \in Nat
    BY <2>1, LenProperties
  <2>3. s.nextJob \in Nat /\ n \in Nat /\ s.nextJob = n + 1
    <3>1. s.nextJob \in Nat \ {0}
      BY <2>1 DEF EngineType
    <3> QED BY <3>1
  <2> QED BY <2>1, <2>2, <2>3, TypeParts
<1>2. t.nextJob = n + m + 1 /\ DOMAIN t.jobs = DOMAIN s.jobs \cup new
  <2>1. s.nextJob .. s.nextJob + m - 1 = new
    BY <1>1
  <2>2. DOMAIN t.jobs = DOMAIN s.jobs \cup (s.nextJob .. s.nextJob + m - 1)
    BY DEF Grows
  <2>3. t.nextJob = n + m + 1
    BY <1>1 DEF Grows
  <2> QED BY <2>1, <2>2, <2>3
<1>a. \A r \in DOMAIN s.runs : r \in DOMAIN t.runs /\ t.runs[r] = s.runs[r]
  BY DEF Grows
<1>3. \A j \in DOMAIN s.jobs : t.jobs[j] = s.jobs[j]
  BY DEF Grows
<1>4. ASSUME NEW j \in DOMAIN t.jobs, j \notin DOMAIN s.jobs
      PROVE  j \in new /\ j - n \in 1..m /\ t.jobs[j] = recs[j - n]
  <2>1. j \in new
    BY <1>2, <1>4
  <2>2. j - s.nextJob + 1 = j - n /\ j - n \in 1..m
    BY <1>1, <2>1
  <2>3. t.jobs[j] = recs[j - s.nextJob + 1]
    <3>1. j \in DOMAIN s.jobs \cup (s.nextJob .. s.nextJob + Len(recs) - 1)
      BY <1>4 DEF Grows
    <3> QED BY <1>4, <3>1 DEF Grows
  <2> QED BY <2>1, <2>2, <2>3
<1> HIDE DEF n, m, new
<1>5. \A j \in DOMAIN t.jobs : t.jobs[j] \in JobRecords /\ t.jobs[j].run \in DOMAIN t.runs
  <2> SUFFICES ASSUME NEW j \in DOMAIN t.jobs
               PROVE  t.jobs[j] \in JobRecords /\ t.jobs[j].run \in DOMAIN t.runs
    OBVIOUS
  <2>1. CASE j \in DOMAIN s.jobs
    <3>1. t.jobs[j] = s.jobs[j] /\ s.jobs[j] \in JobRecords /\ s.jobs[j].run \in DOMAIN s.runs
      BY <1>1, <1>3, <2>1
    <3> QED BY <1>a, <3>1
  <2>2. CASE j \notin DOMAIN s.jobs
    <3>1. j - n \in 1..m /\ t.jobs[j] = recs[j - n]
      BY <1>4, <2>2
    <3>2. recs[j - n] \in JobRecords
      BY <3>1, ElementOfSeq DEF Grows, m
    <3> QED BY <3>1, <3>2 DEF Grows, m
  <2> QED BY <2>1, <2>2
<1>6. t.jobs \in [DOMAIN t.jobs -> JobRecords]
  <2>1. t.jobs = [j \in DOMAIN t.jobs |-> t.jobs[j]]
    BY DEF Grows
  <2> QED BY <1>5, <2>1
<1>7. EngineType(t)
  <2>1. t.active \in SUBSET DOMAIN t.jobs
    BY <1>1, <1>2 DEF Grows
  <2>2. t.nextJob \in Nat \ {0}
    BY <1>1, <1>2
  <2>3. DOMAIN t.jobs \subseteq 1..t.nextJob - 1
    BY <1>1, <1>2 DEF new
  <2> QED BY <1>5, <1>6, <2>1, <2>2, <2>3 DEF EngineType, Grows, HasFields
<1>8. ASSUME NEW j \in DOMAIN t.jobs \ DOMAIN s.jobs
      PROVE  \E i \in 1..m : j = s.nextJob + i - 1 /\ t.jobs[j] = recs[i]
  <2>1. j \in new /\ j - n \in 1..m /\ t.jobs[j] = recs[j - n]
    BY <1>4
  <2>2. s.nextJob + (j - n) - 1 = j
    BY <1>1, <2>1 DEF new
  <2> QED BY <2>1, <2>2
<1> QED BY <1>2, <1>3, <1>7, <1>8 DEF m

LEMMA GrowsOK ==
  ASSUME NEW s, NEW t, NEW run, NEW recs, EngineOK(s), Grows(s, t, run, recs)
  PROVE  EngineOK(t) /\ Freed(s, t, {})
<1>1. /\ EngineType(t)
      /\ \A j \in DOMAIN s.jobs : j \in DOMAIN t.jobs /\ t.jobs[j] = s.jobs[j]
      /\ \A j \in DOMAIN t.jobs \ DOMAIN s.jobs :
           \E i \in 1..Len(recs) : j = s.nextJob + i - 1 /\ t.jobs[j] = recs[i]
  BY GrowsType DEF EngineOK
<1>2. /\ s.active \subseteq DOMAIN s.jobs
      /\ \A j \in DOMAIN s.jobs : s.jobs[j].run \in DOMAIN s.runs
  BY TypeParts DEF EngineOK
<1>3. RunningHoldSlots(t)
  <2> SUFFICES ASSUME NEW j \in DOMAIN t.jobs
               PROVE  j \in t.active <=> t.jobs[j].status = "Running"
    BY DEF RunningHoldSlots
  <2>1. CASE j \in DOMAIN s.jobs
    BY <1>1, <2>1 DEF Grows, EngineOK, RunningHoldSlots
  <2>2. CASE j \notin DOMAIN s.jobs
    <3>1. PICK i \in 1..Len(recs) : t.jobs[j] = recs[i]
      BY <1>1, <2>2
    <3>2. recs[i].status # "Running"
      BY DEF Grows
    <3> QED BY <1>2, <2>2, <3>1, <3>2 DEF Grows
  <2> QED BY <2>1, <2>2
<1>4. ReadyAreQueued(t)
  <2> SUFFICES ASSUME NEW j \in DOMAIN t.jobs, t.jobs[j].status = "Ready",
                      t.runs[t.jobs[j].run] # "Cancelled"
               PROVE  j \in Entries(t.queue)
    BY DEF ReadyAreQueued
  <2>1. CASE j \in DOMAIN s.jobs
    <3>1. s.jobs[j].status = "Ready" /\ s.runs[s.jobs[j].run] # "Cancelled"
      <4>1. t.jobs[j] = s.jobs[j] /\ s.jobs[j].run \in DOMAIN s.runs
        BY <1>1, <1>2, <2>1
      <4> QED BY <4>1 DEF Grows
    <3>2. j \in Entries(s.queue)
      BY <2>1, <3>1 DEF EngineOK, ReadyAreQueued
    <3> QED BY <3>2 DEF Grows
  <2>2. CASE j \notin DOMAIN s.jobs
    <3>1. PICK i \in 1..Len(recs) : j = s.nextJob + i - 1 /\ t.jobs[j] = recs[i]
      BY <1>1, <2>2
    <3> QED BY <3>1 DEF Grows
  <2> QED BY <2>1, <2>2
<1> QED BY <1>1, <1>3, <1>4 DEF EngineOK, Freed, Grows

LEMMA AddJobsFields ==
  ASSUME NEW s, EngineType(s), NEW recs
  PROVE  /\ HasFields(AddJobs(s, recs))
         /\ AddJobs(s, recs).nextJob = s.nextJob + Len(recs)
         /\ AddJobs(s, recs).runs = s.runs /\ AddJobs(s, recs).nextRun = s.nextRun
         /\ AddJobs(s, recs).queue = s.queue /\ AddJobs(s, recs).active = s.active
BY DEF AddJobs, EngineType, HasFields

LEMMA AddedJobs ==
  ASSUME NEW s, EngineType(s), NEW recs \in Seq(JobRecords)
  PROVE  AddJobs(s, recs).jobs =
           [j \in DOMAIN s.jobs \cup (s.nextJob .. s.nextJob + Len(recs) - 1) |->
              IF j \in DOMAIN s.jobs THEN s.jobs[j] ELSE recs[j - s.nextJob + 1]]
BY DEF AddJobs, EngineType

\* What NewJob(run, role, profile, status, deps, round) is.
IsNewJob(rec, run, role, status, deps, round) ==
  /\ rec \in JobRecords
  /\ rec.run = run /\ rec.role = role /\ rec.status = status
  /\ rec.deps = deps /\ rec.round = round /\ rec.attempt = 0

LEMMA NewJobOK ==
  ASSUME NEW run \in Nat, NEW role \in Roles, NEW profile \in ProfileNames,
         NEW status \in JobStatus, NEW deps \in Seq(Nat), NEW round \in Nat
  PROVE  IsNewJob(NewJob(run, role, profile, status, deps, round), run, role, status, deps, round)
BY DEF NewJob, JobRecords, IsNewJob

\* A submitted run is Pending and has its planner.
LEMMA SubmitGrows ==
  ASSUME NEW s, EngineType(s)
  PROVE  LET t == Submit(s) IN
         /\ t.nextRun = s.nextRun + 1
         /\ DOMAIN t.runs = DOMAIN s.runs \cup {s.nextRun}
         /\ t.runs[s.nextRun] = "Pending"
         /\ \E recs : /\ Grows(s, t, s.nextRun, recs)
                      /\ Len(recs) = 1
                      /\ recs[1].role = "planner" /\ recs[1].deps = <<>>
<1> DEFINE job == NewJob(s.nextRun, "planner", "planner", "Ready", <<>>, 0)
           recs == <<job>>
           t == Submit(s)
<1>0. /\ EngineType(s)
      /\ s.nextJob \in Nat \ {0} /\ s.nextRun \in Nat \ {0}
      /\ DOMAIN s.jobs \subseteq 1..s.nextJob - 1 /\ DOMAIN s.runs \subseteq 1..s.nextRun - 1
      /\ s.queue \in Seq(DOMAIN s.jobs)
      /\ s.runs \in [DOMAIN s.runs -> RunStatus]
  BY TypeParts DEF EngineType
<1>1. IsNewJob(job, s.nextRun, "planner", "Ready", <<>>, 0)
  <2>1. /\ "planner" \in Roles /\ "Ready" \in JobStatus /\ "planner" \in ProfileNames
        /\ <<>> \in Seq(Nat) /\ s.nextRun \in Nat /\ 0 \in Nat
    BY <1>0, EngineAssumption DEF Roles, JobStatus
  <2> QED BY <2>1, NewJobOK
<1> HIDE DEF job
<1>2. recs \in Seq(JobRecords) /\ Len(recs) = 1 /\ recs[1] = job
  BY <1>1 DEF IsNewJob
<1> HIDE DEF recs
<1>3. /\ HasFields(t)
      /\ t.nextJob = s.nextJob + 1 /\ t.nextRun = s.nextRun + 1
      /\ t.jobs = AddJobs(s, recs).jobs
      /\ t.runs = [r \in DOMAIN s.runs \cup {s.nextRun} |->
                     IF r \in DOMAIN s.runs THEN s.runs[r] ELSE "Pending"]
      /\ t.queue = Append(s.queue, s.nextJob)
      /\ t.active = s.active
  <2> DEFINE added == AddJobs(s, recs)
  <2>1. /\ HasFields(added)
        /\ added.nextJob = s.nextJob + 1
        /\ added.runs = s.runs /\ added.nextRun = s.nextRun
        /\ added.queue = s.queue /\ added.active = s.active
    <3>1. EngineType(s) /\ recs \in Seq(JobRecords) /\ Len(recs) = 1
      BY <1>0, <1>2
    <3> QED BY <3>1, AddJobsFields
  <2>2. t = [added EXCEPT
              !.runs = [r \in DOMAIN s.runs \cup {s.nextRun} |->
                          IF r \in DOMAIN s.runs THEN s.runs[r] ELSE "Pending"],
              !.nextRun = @ + 1,
              !.queue = Append(@, s.nextJob)]
    BY DEF Submit, recs, job
  <2> HIDE DEF added, t
  <2>3. t.jobs = added.jobs
    BY <2>1, <2>2 DEF HasFields
  <2>4. t.runs = [r \in DOMAIN s.runs \cup {s.nextRun} |->
                    IF r \in DOMAIN s.runs THEN s.runs[r] ELSE "Pending"]
    BY <2>1, <2>2 DEF HasFields
  <2>5. /\ HasFields(t) /\ t.nextJob = s.nextJob + 1 /\ t.nextRun = s.nextRun + 1
        /\ t.queue = Append(s.queue, s.nextJob) /\ t.active = s.active
    BY <2>1, <2>2 DEF HasFields
  <2> QED BY <2>3, <2>4, <2>5 DEF added
<1> HIDE DEF t
<1>4. /\ t.runs \in [DOMAIN t.runs -> RunStatus]
      /\ DOMAIN t.runs = DOMAIN s.runs \cup {s.nextRun}
      /\ DOMAIN t.runs \subseteq 1..t.nextRun - 1
      /\ \A r \in DOMAIN s.runs : t.runs[r] = s.runs[r]
  <2>1. DOMAIN s.runs \cup {s.nextRun} \subseteq 1..t.nextRun - 1
    BY <1>0, <1>3
  <2>2. "Pending" \in RunStatus
    BY DEF RunStatus
  <2> QED BY <1>0, <1>3, <2>1, <2>2
<1>7. t.jobs = [j \in DOMAIN s.jobs \cup (s.nextJob .. s.nextJob + Len(recs) - 1) |->
                  IF j \in DOMAIN s.jobs THEN s.jobs[j] ELSE recs[j - s.nextJob + 1]]
  <2>1. EngineType(s) /\ recs \in Seq(JobRecords) /\ t.jobs = AddJobs(s, recs).jobs
    BY <1>0, <1>2, <1>3
  <2> QED BY <2>1, AddedJobs, Zenon
<1>5. /\ t.queue \in Seq(DOMAIN t.jobs)
      /\ Entries(t.queue) = Entries(s.queue) \cup {s.nextJob}
  <2> DEFINE ids == DOMAIN t.jobs
  <2>1. DOMAIN s.jobs \subseteq ids /\ s.nextJob \in ids
    BY <1>0, <1>2, <1>7
  <2> HIDE DEF ids
  <2>2. s.queue \in Seq(ids)
    <3>1. s.queue \in Seq(DOMAIN s.jobs)
      BY <1>0
    <3> QED BY <2>1, <3>1, SeqMonotonic
  <2>3. /\ Append(s.queue, s.nextJob) \in Seq(ids)
        /\ Entries(Append(s.queue, s.nextJob)) = Entries(s.queue) \cup {s.nextJob}
    BY <2>1, <2>2, EntriesOfAppend
  <2> QED BY <1>3, <2>3 DEF ids
<1>6. /\ s.nextRun \in DOMAIN t.runs
      /\ \A i \in 1..Len(recs) :
           /\ recs[i].run = s.nextRun
           /\ recs[i].attempt = 0
           /\ recs[i].status = IF recs[i].deps = <<>> THEN "Ready" ELSE "Pending"
           /\ recs[i].status = "Ready" => s.nextJob + i - 1 \in Entries(t.queue)
           /\ \A d \in Entries(recs[i].deps) : d \in s.nextJob .. s.nextJob + Len(recs) - 1
  BY <1>0, <1>1, <1>2, <1>3, <1>4, <1>5, EntriesOfEmpty DEF IsNewJob
<1>a. /\ \A x \in Entries(t.queue) \ Entries(s.queue) :
           \E i \in 1..Len(recs) : x = s.nextJob + i - 1 /\ recs[i].status = "Ready"
      /\ Distinct(s.queue) => Distinct(t.queue)
  <2>1. s.nextJob = s.nextJob + 1 - 1 /\ 1 \in 1..Len(recs) /\ recs[1].status = "Ready"
    BY <1>0, <1>1, <1>2 DEF IsNewJob
  <2>2. s.nextJob \notin Entries(s.queue)
    BY <1>0, EntriesOfSeq
  <2>3. Distinct(s.queue) => Distinct(t.queue)
    <3>1. s.queue \in Seq(Nat) /\ s.nextJob \in Nat
      <4>1. DOMAIN s.jobs \subseteq Nat
        BY <1>0
      <4> QED BY <1>0, <4>1, SeqMonotonic
    <3> QED BY <1>3, <2>2, <3>1, AppendDistinct
  <2>4. \A x \in Entries(t.queue) \ Entries(s.queue) : x = s.nextJob
    BY <1>5
  <2> QED BY <2>1, <2>3, <2>4
<1>8. t.nextRun \in Nat \ {0} /\ t.nextRun >= s.nextRun
  BY <1>0, <1>3
<1>9. Grows(s, t, s.nextRun, recs)
  BY <1>a, <1>2, <1>3, <1>4, <1>5, <1>6, <1>7, <1>8 DEF Grows
<1>10. t.nextRun = s.nextRun + 1 /\ t.runs[s.nextRun] = "Pending"
  <2>1. s.nextRun \notin DOMAIN s.runs
    BY <1>0
  <2> QED BY <1>3, <2>1
<1>11. Len(recs) = 1 /\ recs[1].role = "planner" /\ recs[1].deps = <<>>
  BY <1>1, <1>2 DEF IsNewJob
<1> QED BY <1>4, <1>9, <1>10, <1>11 DEF t

LEMMA SubmitOK ==
  ASSUME NEW s, EngineOK(s)
  PROVE  EngineOK(Submit(s)) /\ Freed(s, Submit(s), {})
BY SubmitGrows, GrowsOK DEF EngineOK

\* A revision is a new coder and a new reviewer of the next round.
LEMMA ReviseGrows ==
  ASSUME NEW s, EngineType(s), NEW j \in DOMAIN s.jobs, CanRevise(s, j)
  PROVE  LET t == Revise(s, j) IN
         /\ t.nextRun = s.nextRun /\ t.runs = s.runs
         /\ \E recs : /\ Grows(s, t, s.jobs[j].run, recs)
                      /\ Len(recs) = 2
                      /\ recs[1].role = s.jobs[Head(s.jobs[j].deps)].role
                      /\ recs[2].role = s.jobs[j].role
                      /\ \A i \in 1..2 : recs[i].round = s.jobs[j].round + 1
<1> DEFINE reviewer == s.jobs[j]
           coder == s.jobs[Head(reviewer.deps)]
           round == reviewer.round + 1
           newCoder == NewJob(reviewer.run, coder.role, coder.profile, "Ready", <<>>, round)
           newReviewer == NewJob(reviewer.run, reviewer.role, reviewer.profile, "Pending",
                                 <<s.nextJob>>, round)
           recs == <<newCoder, newReviewer>>
           t == Revise(s, j)
<1>0. /\ EngineType(s)
      /\ s.nextJob \in Nat \ {0} /\ s.nextRun \in Nat \ {0}
      /\ DOMAIN s.jobs \subseteq 1..s.nextJob - 1 /\ DOMAIN s.runs \subseteq 1..s.nextRun - 1
      /\ s.queue \in Seq(DOMAIN s.jobs)
      /\ s.runs \in [DOMAIN s.runs -> RunStatus]
  BY TypeParts DEF EngineType
<1>1. reviewer \in JobRecords /\ coder \in JobRecords /\ reviewer.run \in DOMAIN s.runs
  BY <1>0, TypeParts DEF CanRevise
<1>2. /\ IsNewJob(newCoder, reviewer.run, coder.role, "Ready", <<>>, round)
      /\ IsNewJob(newReviewer, reviewer.run, reviewer.role, "Pending", <<s.nextJob>>, round)
  <2>1. /\ "Ready" \in JobStatus /\ "Pending" \in JobStatus
        /\ <<>> \in Seq(Nat) /\ <<s.nextJob>> \in Seq(Nat)
    BY <1>0 DEF JobStatus
  <2>2. /\ reviewer.run \in Nat /\ round \in Nat
        /\ reviewer.role \in Roles /\ coder.role \in Roles
        /\ reviewer.profile \in ProfileNames /\ coder.profile \in ProfileNames
    <3> HIDE DEF reviewer, coder
    <3>1. coder.role \in Roles /\ coder.profile \in ProfileNames
      BY <1>1 DEF JobRecords
    <3>2. reviewer.run \in Nat /\ reviewer.role \in Roles /\ reviewer.profile \in ProfileNames
          /\ reviewer.round \in Nat
      BY <1>1 DEF JobRecords
    <3>3. round \in Nat
      BY <3>2
    <3> QED BY <3>1, <3>2, <3>3
  <2> HIDE DEF reviewer, coder, round
  <2> QED BY <2>1, <2>2, NewJobOK
<1> HIDE DEF newCoder, newReviewer
<1>3. recs \in Seq(JobRecords) /\ Len(recs) = 2 /\ recs[1] = newCoder /\ recs[2] = newReviewer
  BY <1>2 DEF IsNewJob
<1> HIDE DEF recs
<1>4. /\ HasFields(t)
      /\ t.nextJob = s.nextJob + 2 /\ t.nextRun = s.nextRun
      /\ t.jobs = AddJobs(s, recs).jobs /\ t.runs = s.runs
      /\ t.queue = Append(s.queue, s.nextJob)
      /\ t.active = s.active
  <2> DEFINE added == AddJobs(s, recs)
  <2>1. /\ HasFields(added)
        /\ added.nextJob = s.nextJob + 2
        /\ added.runs = s.runs /\ added.nextRun = s.nextRun
        /\ added.queue = s.queue /\ added.active = s.active
    <3>1. EngineType(s) /\ recs \in Seq(JobRecords) /\ Len(recs) = 2
      BY <1>0, <1>3
    <3> HIDE DEF reviewer
    <3> QED BY <3>1, AddJobsFields
  <2>2. t = [added EXCEPT !.queue = Append(@, s.nextJob)]
    BY DEF Revise, recs, newCoder, newReviewer
  <2> HIDE DEF added, t
  <2>3. /\ HasFields(t) /\ t.jobs = added.jobs /\ t.runs = s.runs
        /\ t.nextJob = s.nextJob + 2 /\ t.nextRun = s.nextRun
        /\ t.queue = Append(s.queue, s.nextJob) /\ t.active = s.active
    BY <2>1, <2>2 DEF HasFields
  <2> QED BY <2>3 DEF added
<1> HIDE DEF t, reviewer
<1>7. t.jobs = [k \in DOMAIN s.jobs \cup (s.nextJob .. s.nextJob + Len(recs) - 1) |->
                  IF k \in DOMAIN s.jobs THEN s.jobs[k] ELSE recs[k - s.nextJob + 1]]
  <2>1. EngineType(s) /\ recs \in Seq(JobRecords) /\ t.jobs = AddJobs(s, recs).jobs
    BY <1>0, <1>3, <1>4
  <2> QED BY <2>1, AddedJobs, Zenon
<1>5. /\ t.queue \in Seq(DOMAIN t.jobs)
      /\ Entries(t.queue) = Entries(s.queue) \cup {s.nextJob}
  <2> DEFINE ids == DOMAIN t.jobs
  <2>1. DOMAIN s.jobs \subseteq ids /\ s.nextJob \in ids
    BY <1>0, <1>3, <1>7
  <2> HIDE DEF ids
  <2>2. s.queue \in Seq(ids)
    <3>1. s.queue \in Seq(DOMAIN s.jobs)
      BY <1>0
    <3> QED BY <2>1, <3>1, SeqMonotonic
  <2>3. /\ Append(s.queue, s.nextJob) \in Seq(ids)
        /\ Entries(Append(s.queue, s.nextJob)) = Entries(s.queue) \cup {s.nextJob}
    BY <2>1, <2>2, EntriesOfAppend
  <2> QED BY <1>4, <2>3 DEF ids
<1>6. \A i \in 1..Len(recs) :
        /\ recs[i].run = s.jobs[j].run
        /\ recs[i].attempt = 0
        /\ recs[i].status = IF recs[i].deps = <<>> THEN "Ready" ELSE "Pending"
        /\ recs[i].status = "Ready" => s.nextJob + i - 1 \in Entries(t.queue)
        /\ \A d \in Entries(recs[i].deps) : d \in s.nextJob .. s.nextJob + Len(recs) - 1
  <2> SUFFICES ASSUME NEW i \in 1..Len(recs)
               PROVE  /\ recs[i].run = s.jobs[j].run
                      /\ recs[i].attempt = 0
                      /\ recs[i].status = IF recs[i].deps = <<>> THEN "Ready" ELSE "Pending"
                      /\ recs[i].status = "Ready" => s.nextJob + i - 1 \in Entries(t.queue)
                      /\ \A d \in Entries(recs[i].deps) :
                           d \in s.nextJob .. s.nextJob + Len(recs) - 1
    OBVIOUS
  <2>1. i = 1 \/ i = 2
    BY <1>3
  <2>2. /\ <<s.nextJob>> # <<>> /\ Entries(<<s.nextJob>>) = {s.nextJob}
        /\ s.nextJob \in s.nextJob .. s.nextJob + Len(recs) - 1
    BY <1>0, <1>3 DEF Entries
  <2>3. CASE i = 1
    BY <1>0, <1>2, <1>3, <1>5, <2>3, EntriesOfEmpty DEF IsNewJob, reviewer
  <2>4. CASE i = 2
    BY <1>2, <1>3, <2>2, <2>4 DEF IsNewJob, reviewer
  <2> QED BY <2>1, <2>3, <2>4
<1>a. /\ \A x \in Entries(t.queue) \ Entries(s.queue) :
           \E i \in 1..Len(recs) : x = s.nextJob + i - 1 /\ recs[i].status = "Ready"
      /\ Distinct(s.queue) => Distinct(t.queue)
  <2>1. s.nextJob = s.nextJob + 1 - 1 /\ 1 \in 1..Len(recs) /\ recs[1].status = "Ready"
    BY <1>0, <1>2, <1>3 DEF IsNewJob
  <2>2. s.nextJob \notin Entries(s.queue)
    BY <1>0, EntriesOfSeq
  <2>3. Distinct(s.queue) => Distinct(t.queue)
    <3>1. s.queue \in Seq(Nat) /\ s.nextJob \in Nat
      <4>1. DOMAIN s.jobs \subseteq Nat
        BY <1>0
      <4> QED BY <1>0, <4>1, SeqMonotonic
    <3> QED BY <1>4, <2>2, <3>1, AppendDistinct
  <2>4. \A x \in Entries(t.queue) \ Entries(s.queue) : x = s.nextJob
    BY <1>5
  <2> QED BY <2>1, <2>3, <2>4
<1>8. t.nextRun \in Nat \ {0} /\ t.nextRun >= s.nextRun
  BY <1>0, <1>4
<1>b. s.jobs[j].run \in DOMAIN t.runs
  BY <1>0, <1>1, <1>4 DEF reviewer
<1>9. Grows(s, t, s.jobs[j].run, recs)
  BY <1>a, <1>b, <1>0, <1>3, <1>4, <1>5, <1>6, <1>7, <1>8 DEF Grows
<1>10. /\ Len(recs) = 2
       /\ recs[1].role = s.jobs[Head(s.jobs[j].deps)].role
       /\ recs[2].role = s.jobs[j].role
       /\ \A i \in 1..2 : recs[i].round = s.jobs[j].round + 1
  <2>1. recs[1].role = coder.role /\ recs[1].round = round
        /\ recs[2].role = reviewer.role /\ recs[2].round = round
    BY <1>2, <1>3 DEF IsNewJob
  <2>2. \A i \in 1..2 : i = 1 \/ i = 2
    OBVIOUS
  <2> QED BY <1>3, <2>1, <2>2 DEF reviewer
<1> QED BY <1>4, <1>9, <1>10 DEF t

LEMMA ReviseOK ==
  ASSUME NEW s, EngineOK(s), NEW j \in DOMAIN s.jobs, CanRevise(s, j)
  PROVE  EngineOK(Revise(s, j)) /\ Freed(s, Revise(s, j), {})
BY ReviseGrows, GrowsOK DEF EngineOK

PlanSteps == Seq([role : Roles, profile : ProfileNames, deps : Seq(Nat)])

\* A plan becomes one job for each of its steps, in round 0.
LEMMA MaterializePlanGrows ==
  ASSUME NEW s, EngineType(s), NEW run \in DOMAIN s.runs, NEW plan \in PlanSteps,
         ValidPlan(plan), NEW roots \in Listings(PlanRoots(s, plan))
  PROVE  LET t == MaterializePlan(s, run, plan, roots) IN
         /\ t.nextRun = s.nextRun /\ t.runs = s.runs
         /\ \E recs : /\ Grows(s, t, run, recs)
                      /\ Len(recs) = Len(plan)
                      /\ \A i \in 1..Len(recs) : recs[i].role = plan[i].role /\ recs[i].round = 0
<1> DEFINE recs == PlannedJobs(s, run, plan)
           t == MaterializePlan(s, run, plan, roots)
           n == Len(plan)
           StatusOf(i) == IF plan[i].deps = <<>> THEN "Ready" ELSE "Pending"
           DepsOf(i) == [k \in DOMAIN plan[i].deps |-> s.nextJob + plan[i].deps[k] - 1]
<1>0. /\ EngineType(s)
      /\ s.nextJob \in Nat \ {0} /\ s.nextRun \in Nat \ {0}
      /\ DOMAIN s.jobs \subseteq 1..s.nextJob - 1 /\ DOMAIN s.runs \subseteq 1..s.nextRun - 1
      /\ s.queue \in Seq(DOMAIN s.jobs)
      /\ s.runs \in [DOMAIN s.runs -> RunStatus]
  BY TypeParts DEF EngineType
<1>1. /\ n \in Nat /\ DOMAIN plan = 1..n
      /\ \A i \in 1..n : plan[i] \in [role : Roles, profile : ProfileNames, deps : Seq(Nat)]
      /\ \A i \in 1..n : Entries(plan[i].deps) \subseteq 1..n
  <2>1. plan \in Seq([role : Roles, profile : ProfileNames, deps : Seq(Nat)])
    BY DEF PlanSteps
  <2>2. n \in Nat /\ DOMAIN plan = 1..n
        /\ \A i \in 1..n : plan[i] \in [role : Roles, profile : ProfileNames, deps : Seq(Nat)]
    BY <2>1, LenProperties, ElementOfSeq
  <2>3. \A i \in DOMAIN plan : Entries(plan[i].deps) \subseteq DOMAIN plan
    BY DEF ValidPlan
  <2> QED BY <2>2, <2>3
<1>2. ASSUME NEW i \in 1..n
      PROVE  IsNewJob(recs[i], run, plan[i].role, StatusOf(i), DepsOf(i), 0)
  <2>1. recs[i] = NewJob(run, plan[i].role, plan[i].profile, StatusOf(i), DepsOf(i), 0)
    BY <1>1 DEF PlannedJobs
  <2>2. plan[i].role \in Roles /\ plan[i].profile \in ProfileNames /\ plan[i].deps \in Seq(Nat)
    BY <1>1
  <2>3. DepsOf(i) \in Seq(Nat)
    <3> DEFINE deps == plan[i].deps
    <3>1. deps \in Seq(Nat) /\ Len(deps) \in Nat /\ DOMAIN deps = 1..Len(deps)
          /\ \A k \in 1..Len(deps) : deps[k] \in Nat
      BY <2>2, LenProperties, ElementOfSeq
    <3> HIDE DEF deps
    <3>2. \A k \in 1..Len(deps) : s.nextJob + deps[k] - 1 \in Nat
      <4> DEFINE first == s.nextJob
      <4>1. first \in Nat \ {0}
        BY <1>0
      <4> HIDE DEF first
      <4>2. \A d \in Nat : first + d - 1 \in Nat
        BY <4>1
      <4> QED BY <3>1, <4>2 DEF first
    <3>3. [k \in DOMAIN deps |-> s.nextJob + deps[k] - 1] \in Seq(Nat)
      BY <3>1, <3>2, IsASeq
    <3> QED BY <3>3 DEF deps
  <2>4. StatusOf(i) \in JobStatus /\ run \in Nat /\ 0 \in Nat
    BY <1>0 DEF JobStatus
  <2> HIDE DEF StatusOf, DepsOf
  <2> QED BY <2>1, <2>2, <2>3, <2>4, NewJobOK
<1>3. recs \in Seq(JobRecords) /\ Len(recs) = n
  <2>1. recs = [i \in 1..n |-> recs[i]]
    BY <1>1 DEF PlannedJobs
  <2> HIDE DEF recs, StatusOf, DepsOf
  <2>2. recs \in [1..n -> JobRecords]
    BY <1>2, <2>1 DEF IsNewJob
  <2> HIDE DEF n
  <2>3. recs \in Seq(JobRecords)
    BY <1>1, <2>2, IsASeq
  <2>4. Len(recs) \in Nat /\ 1..Len(recs) = 1..n
    BY <2>2, <2>3, LenProperties
  <2>5. ~(Len(recs) < n)
    <3>1. SUFFICES ASSUME Len(recs) < n PROVE FALSE
      OBVIOUS
    <3>2. n \in 1..n /\ n \notin 1..Len(recs)
      BY <1>1, <2>4, <3>1
    <3> QED BY <2>4, <3>2
  <2>6. ~(n < Len(recs))
    <3>1. SUFFICES ASSUME n < Len(recs) PROVE FALSE
      OBVIOUS
    <3>2. Len(recs) \in 1..Len(recs) /\ Len(recs) \notin 1..n
      BY <1>1, <2>4, <3>1
    <3> QED BY <2>4, <3>2
  <2> QED BY <1>1, <2>3, <2>4, <2>5, <2>6
<1>4. /\ PlanRoots(s, plan) \subseteq s.nextJob .. s.nextJob + n - 1
      /\ roots \in Seq(PlanRoots(s, plan)) /\ Entries(roots) = PlanRoots(s, plan)
  <2>1. PlanRoots(s, plan) \subseteq s.nextJob .. s.nextJob + n - 1
    BY <1>0, <1>1 DEF PlanRoots
  <2>2. IsFiniteSet(s.nextJob .. s.nextJob + n - 1)
    <3>1. s.nextJob \in Int /\ s.nextJob + n - 1 \in Int
      BY <1>0, <1>1
    <3> HIDE DEF n
    <3> QED BY <3>1, FS_Interval
  <2>3. IsFiniteSet(PlanRoots(s, plan))
    BY <2>1, <2>2, FS_Subset
  <2> QED BY <2>1, <2>3, EntriesOfOrdering DEF Listings
<1>5. \A i \in 1..n : plan[i].deps = <<>> => s.nextJob + i - 1 \in Entries(roots)
  BY <1>1, <1>4 DEF PlanRoots
<1>a. Distinct(roots)
  <2>1. PlanRoots(s, plan) \subseteq s.nextJob .. s.nextJob + n - 1
    BY <1>4
  <2>2. IsFiniteSet(s.nextJob .. s.nextJob + n - 1)
    <3>1. s.nextJob \in Int /\ s.nextJob + n - 1 \in Int
      BY <1>0, <1>1
    <3> HIDE DEF n
    <3> QED BY <3>1, FS_Interval
  <2>3. IsFiniteSet(PlanRoots(s, plan))
    BY <2>1, <2>2, FS_Subset
  <2> QED BY <2>3, OrderingDistinct DEF Listings
<1>b. ASSUME NEW i \in 1..n
      PROVE  /\ DepsOf(i) = <<>> <=> plan[i].deps = <<>>
             /\ \A d \in Entries(DepsOf(i)) : d \in s.nextJob .. s.nextJob + n - 1
  <2> DEFINE deps == plan[i].deps
             first == s.nextJob
  <2>1. /\ deps \in Seq(Nat) /\ DOMAIN deps = 1..Len(deps) /\ Len(deps) \in Nat
        /\ first \in Nat \ {0}
        /\ \A k \in DOMAIN deps : deps[k] \in 1..n
    BY <1>0, <1>1, LenProperties DEF Entries
  <2>2. DepsOf(i) = [k \in DOMAIN deps |-> first + deps[k] - 1]
    OBVIOUS
  <2> HIDE DEF deps, first, n, DepsOf
  <2>3. \A d \in Entries(DepsOf(i)) : d \in first .. first + n - 1
    BY <1>1, <2>1, <2>2 DEF Entries
  <2>4. DepsOf(i) = <<>> <=> deps = <<>>
    <3>1. DOMAIN DepsOf(i) = DOMAIN deps
      BY <2>2
    <3>2. ASSUME deps = <<>> PROVE DepsOf(i) = <<>>
      <4>1. DOMAIN deps = {}
        BY <3>2
      <4>2. DepsOf(i) = [k \in {} |-> k]
        BY <2>2, <4>1
      <4> QED BY <4>2
    <3>3. ASSUME DepsOf(i) = <<>> PROVE deps = <<>>
      <4>1. DOMAIN deps = {}
        BY <3>1, <3>3
      <4>2. Len(deps) = 0
        BY <2>1, <4>1
      <4> QED BY <2>1, <4>2
    <3> QED BY <3>2, <3>3
  <2> QED BY <2>3, <2>4 DEF deps, first
<1> HIDE DEF recs, DepsOf
<1>6. /\ HasFields(t)
      /\ t.nextJob = s.nextJob + n /\ t.nextRun = s.nextRun
      /\ t.jobs = AddJobs(s, recs).jobs /\ t.runs = s.runs
      /\ t.queue = s.queue \o roots
      /\ t.active = s.active
  <2> DEFINE added == AddJobs(s, recs)
  <2>1. /\ HasFields(added)
        /\ added.nextJob = s.nextJob + n
        /\ added.runs = s.runs /\ added.nextRun = s.nextRun
        /\ added.queue = s.queue /\ added.active = s.active
    <3> HIDE DEF n
    <3>1. EngineType(s) /\ recs \in Seq(JobRecords) /\ Len(recs) = n
      BY <1>0, <1>3
    <3> QED BY <3>1, AddJobsFields
  <2>2. t = [added EXCEPT !.queue = @ \o roots]
    BY DEF MaterializePlan, recs
  <2> HIDE DEF added, t
  <2>3. /\ HasFields(t) /\ t.jobs = added.jobs /\ t.runs = s.runs
        /\ t.nextJob = s.nextJob + n /\ t.nextRun = s.nextRun
        /\ t.queue = s.queue \o roots /\ t.active = s.active
    BY <2>1, <2>2 DEF HasFields
  <2> QED BY <2>3 DEF added
<1> HIDE DEF t
<1>9. t.jobs = [k \in DOMAIN s.jobs \cup (s.nextJob .. s.nextJob + Len(recs) - 1) |->
                  IF k \in DOMAIN s.jobs THEN s.jobs[k] ELSE recs[k - s.nextJob + 1]]
  <2>1. EngineType(s) /\ recs \in Seq(JobRecords) /\ t.jobs = AddJobs(s, recs).jobs
    BY <1>0, <1>3, <1>6
  <2> QED BY <2>1, AddedJobs, Zenon
<1>7. /\ t.queue \in Seq(DOMAIN t.jobs)
      /\ Entries(t.queue) = Entries(s.queue) \cup Entries(roots)
  <2> DEFINE ids == DOMAIN t.jobs
  <2>1. DOMAIN s.jobs \subseteq ids /\ PlanRoots(s, plan) \subseteq ids
    <3> HIDE DEF n
    <3>1. ids = DOMAIN s.jobs \cup (s.nextJob .. s.nextJob + n - 1)
      BY <1>3, <1>9
    <3> QED BY <1>4, <3>1
  <2> HIDE DEF ids
  <2>2. s.queue \in Seq(ids) /\ roots \in Seq(ids)
    <3>1. s.queue \in Seq(DOMAIN s.jobs) /\ roots \in Seq(PlanRoots(s, plan))
      BY <1>0, <1>4
    <3> QED BY <2>1, <3>1, SeqMonotonic
  <2>3. /\ s.queue \o roots \in Seq(ids)
        /\ Entries(s.queue \o roots) = Entries(s.queue) \cup Entries(roots)
    BY <2>2, EntriesOfConcat
  <2> QED BY <1>6, <2>3 DEF ids
<1>8. \A i \in 1..Len(recs) :
        /\ recs[i].run = run
        /\ recs[i].attempt = 0
        /\ recs[i].status = IF recs[i].deps = <<>> THEN "Ready" ELSE "Pending"
        /\ recs[i].status = "Ready" => s.nextJob + i - 1 \in Entries(t.queue)
        /\ \A d \in Entries(recs[i].deps) : d \in s.nextJob .. s.nextJob + Len(recs) - 1
  BY <1>b, <1>2, <1>3, <1>5, <1>7 DEF IsNewJob
<1>c. /\ \A x \in Entries(t.queue) \ Entries(s.queue) :
           \E i \in 1..Len(recs) : x = s.nextJob + i - 1 /\ recs[i].status = "Ready"
      /\ Distinct(s.queue) => Distinct(t.queue)
  <2>1. \A x \in PlanRoots(s, plan) :
          \E i \in 1..Len(recs) : x = s.nextJob + i - 1 /\ recs[i].status = "Ready"
    BY <1>1, <1>2, <1>3 DEF PlanRoots, IsNewJob
  <2>2. Entries(s.queue) \cap Entries(roots) = {}
    <3>1. Entries(s.queue) \subseteq 1..s.nextJob - 1
      BY <1>0, EntriesOfSeq
    <3>2. Entries(roots) \subseteq s.nextJob .. s.nextJob + n - 1
      BY <1>4
    <3> HIDE DEF n
    <3>3. 1..s.nextJob - 1 \cap s.nextJob .. s.nextJob + n - 1 = {}
      BY <1>0, <1>1
    <3> QED BY <3>1, <3>2, <3>3
  <2>3. s.queue \in Seq(Nat) /\ roots \in Seq(Nat)
    <3>1. DOMAIN s.jobs \subseteq Nat /\ PlanRoots(s, plan) \subseteq Nat
      BY <1>0, <1>1, <1>4
    <3> QED BY <1>0, <1>4, <3>1, SeqMonotonic
  <2>4. ASSUME Distinct(s.queue) PROVE Distinct(t.queue)
    <3>1. Distinct(s.queue \o roots)
      BY <1>a, <2>2, <2>3, <2>4, ConcatDistinct
    <3> QED BY <1>6, <3>1
  <2>5. ASSUME NEW x \in Entries(t.queue) \ Entries(s.queue)
        PROVE  x \in PlanRoots(s, plan)
    BY <1>4, <1>7, <2>5
  <2> QED BY <2>1, <2>4, <2>5
<1> HIDE DEF StatusOf
<1>10. t.nextRun \in Nat \ {0} /\ t.nextRun >= s.nextRun
  BY <1>0, <1>6
<1>11. Grows(s, t, run, recs)
  BY <1>c, <1>0, <1>3, <1>6, <1>7, <1>8, <1>9, <1>10 DEF Grows
<1>12. \A i \in 1..Len(recs) : recs[i].role = plan[i].role /\ recs[i].round = 0
  BY <1>2, <1>3 DEF IsNewJob
<1> QED BY <1>3, <1>6, <1>11, <1>12 DEF t

LEMMA MaterializePlanOK ==
  ASSUME NEW s, EngineOK(s), NEW run \in DOMAIN s.runs, NEW plan \in PlanSteps,
         ValidPlan(plan), NEW roots \in Listings(PlanRoots(s, plan))
  PROVE  EngineOK(MaterializePlan(s, run, plan, roots))
         /\ Freed(s, MaterializePlan(s, run, plan, roots), {})
BY MaterializePlanGrows, GrowsOK DEF EngineOK

\* OrchestratorEngine::new.
LEMMA EmptyEngineOK ==
  /\ EngineOK(EmptyEngine)
  /\ EmptyEngine.jobs = <<>> /\ EmptyEngine.runs = <<>> /\ EmptyEngine.queue = <<>>
  /\ EmptyEngine.active = {} /\ EmptyEngine.nextJob = 1 /\ EmptyEngine.nextRun = 1
<1> DEFINE s == EmptyEngine
<1>1. /\ s.jobs = <<>> /\ s.runs = <<>> /\ s.queue = <<>> /\ s.active = {}
      /\ s.nextJob = 1 /\ s.nextRun = 1 /\ HasFields(s)
  BY DEF EmptyEngine, HasFields
<1> HIDE DEF s
<1>2. DOMAIN s.jobs = {} /\ DOMAIN s.runs = {}
  BY <1>1
<1>3. s.jobs \in [DOMAIN s.jobs -> JobRecords] /\ s.runs \in [DOMAIN s.runs -> RunStatus]
  BY <1>1, <1>2
<1>4. EngineType(s)
  <2>1. s.queue \in Seq(DOMAIN s.jobs)
    BY <1>1
  <2>2. s.active \in SUBSET DOMAIN s.jobs /\ s.nextJob \in Nat \ {0} /\ s.nextRun \in Nat \ {0}
    BY <1>1
  <2>3. /\ \A j \in DOMAIN s.jobs : s.jobs[j].run \in DOMAIN s.runs
        /\ DOMAIN s.jobs \subseteq 1..s.nextJob - 1 /\ DOMAIN s.runs \subseteq 1..s.nextRun - 1
    BY <1>2
  <2>4. HasFields(s)
    BY <1>1
  <2> QED BY <1>3, <2>1, <2>2, <2>3, <2>4 DEF EngineType, HasFields
<1>5. Cardinality(s.active) <= MaxConcurrency
  BY <1>1, FS_EmptySet, EngineAssumption
<1>6. EngineOK(s)
  BY <1>1, <1>2, <1>4, <1>5 DEF EngineOK, RunningHoldSlots, ReadyAreQueued
<1> QED BY <1>1, <1>6 DEF s

-----------------------------------------------------------------------------
(* Handing out jobs and cancelling a run.                                  *)

\* The queue of a typed state names stored jobs only: next_job drops no entry.
LEMMA EveryPopCounts ==
  ASSUME NEW s, EngineType(s), NEW n \in 0..Len(s.queue)
  PROVE  Popped(s, n) = {s.queue[i] : i \in 1..n}
<1>1. s.queue \in Seq(DOMAIN s.jobs)
  BY TypeParts
<1>2. Len(s.queue) \in Nat /\ \A i \in 1..Len(s.queue) : s.queue[i] \in DOMAIN s.jobs
  BY <1>1, LenProperties, ElementOfSeq
<1>3. 1..n \subseteq 1..Len(s.queue)
  BY <1>2
<1> QED BY <1>2, <1>3 DEF Popped

LEMMA PoppedJobs ==
  ASSUME NEW s, EngineType(s), NEW n \in 0..Len(s.queue)
  PROVE  /\ Popped(s, n) \subseteq DOMAIN s.jobs
         /\ \A j : TimesPopped(s, n, j) \in Nat
<1>1. s.queue \in Seq(DOMAIN s.jobs)
  BY TypeParts
<1>2. Len(s.queue) \in Nat /\ \A i \in 1..Len(s.queue) : s.queue[i] \in DOMAIN s.jobs
  BY <1>1, LenProperties, ElementOfSeq
<1>3. Popped(s, n) \subseteq DOMAIN s.jobs
  BY <1>2 DEF Popped
<1>4. ASSUME NEW j PROVE TimesPopped(s, n, j) \in Nat
  <2>1. IsFiniteSet(1..n)
    BY <1>2, FS_Interval
  <2>2. IsFiniteSet({i \in 1..n : s.queue[i] = j})
    BY <2>1, FS_Subset
  <2> QED BY <2>2, FS_CardinalityType DEF TimesPopped
<1> QED BY <1>3, <1>4

\* What is left of the queue.
LEMMA RestOfQueue ==
  ASSUME NEW s, EngineType(s), NEW n \in 0..Len(s.queue)
  PROVE  LET rest == SubSeq(s.queue, n + 1, Len(s.queue)) IN
         /\ rest \in Seq(DOMAIN s.jobs)
         /\ Entries(s.queue) \subseteq Popped(s, n) \cup Entries(rest)
<1> DEFINE ids == DOMAIN s.jobs
           q == s.queue
           rest == SubSeq(q, n + 1, Len(q))
<1>1. q \in Seq(ids)
  BY TypeParts
<1>2. Len(q) \in Nat /\ DOMAIN q = 1..Len(q) /\ n \in Nat /\ n <= Len(q)
  BY <1>1, LenProperties
<1> HIDE DEF ids, q
<1>3. /\ rest \in Seq(ids)
      /\ \A i \in 1 .. Len(q) - n : i \in DOMAIN rest /\ rest[i] = q[n + i]
  <2>1. n + 1 \in 1..Len(q) + 1 /\ Len(q) \in (n + 1) - 1 .. Len(q)
    BY <1>2
  <2>2. /\ rest \in Seq(ids)
        /\ Len(rest) = Len(q) - (n + 1) + 1
        /\ \A i \in 1..Len(q) - (n + 1) + 1 : rest[i] = q[(n + 1) + i - 1]
    BY <1>1, <2>1, SubSeqProperties
  <2>3. DOMAIN rest = 1..Len(rest)
    BY <2>2, LenProperties
  <2>4. Len(q) - (n + 1) + 1 = Len(q) - n
    BY <1>2
  <2>5. ASSUME NEW i \in 1 .. Len(q) - n PROVE (n + 1) + i - 1 = n + i
    BY <1>2
  <2> HIDE DEF rest
  <2> QED BY <2>2, <2>3, <2>4, <2>5
<1> HIDE DEF rest
<1>4. ASSUME NEW i \in DOMAIN q, i > n
      PROVE  q[i] \in Entries(rest)
  <2>1. i - n \in 1 .. Len(q) - n /\ n + (i - n) = i
    BY <1>2, <1>4
  <2> QED BY <1>3, <2>1 DEF Entries
<1>5. ASSUME NEW i \in DOMAIN q, ~(i > n)
      PROVE  q[i] \in Popped(s, n)
  <2>1. i \in 1..n
    BY <1>2, <1>5
  <2>2. Popped(s, n) = {s.queue[k] : k \in 1..n}
    BY EveryPopCounts
  <2> QED BY <2>1, <2>2 DEF q
<1>6. Entries(q) \subseteq Popped(s, n) \cup Entries(rest)
  BY <1>4, <1>5 DEF Entries
<1> QED BY <1>3, <1>6 DEF ids, q, rest

\* The concurrency limit holds after a loop that checks it before every pop.
LEMMA PopsWithinLimit ==
  ASSUME NEW s, EngineOK(s), NEW n \in 0..Len(s.queue), PopsExactly(s, n)
  PROVE  Cardinality(s.active \cup Popped(s, n)) <= MaxConcurrency
<1>1. Len(s.queue) \in Nat
  <2>1. s.queue \in Seq(DOMAIN s.jobs)
    BY TypeParts DEF EngineOK
  <2> QED BY <2>1, LenProperties
<1>2. CASE n = 0
  <2>1. s.active \cup Popped(s, n) = s.active
    BY <1>2 DEF Popped
  <2> QED BY <2>1 DEF EngineOK
<1>3. CASE n > 0
  <2> DEFINE before == s.active \cup Popped(s, n - 1)
  <2>1. n - 1 \in 0..n - 1 /\ n - 1 \in 0..Len(s.queue)
    BY <1>1, <1>3
  <2>2. Cardinality(before) < MaxConcurrency
    BY <2>1 DEF PopsExactly
  <2>3. IsFiniteSet(before)
    <3>1. before \subseteq DOMAIN s.jobs
      BY <2>1, PoppedJobs, TypeParts DEF EngineOK
    <3> QED BY <3>1, FiniteIds, FS_Subset DEF EngineOK
  <2>4. s.active \cup Popped(s, n) = before \cup {s.queue[n]}
    <3>1. 1..n = (1..n - 1) \cup {n}
      BY <1>1, <1>3
    <3>2. /\ Popped(s, n) = {s.queue[k] : k \in 1..n}
          /\ Popped(s, n - 1) = {s.queue[k] : k \in 1..n - 1}
      BY <2>1, EveryPopCounts DEF EngineOK
    <3> QED BY <3>1, <3>2
  <2> HIDE DEF before
  <2>5. Cardinality(before) \in Nat
    BY <2>3, FS_CardinalityType
  <2>6. \/ Cardinality(before \cup {s.queue[n]}) = Cardinality(before)
        \/ Cardinality(before \cup {s.queue[n]}) = Cardinality(before) + 1
    BY <2>3, FS_AddElement
  <2>7. MaxConcurrency \in Nat
    BY EngineAssumption
  <2>8. Cardinality(before \cup {s.queue[n]}) <= MaxConcurrency
    <3> DEFINE c == Cardinality(before)
               d == Cardinality(before \cup {s.queue[n]})
    <3>1. c \in Nat /\ c < MaxConcurrency /\ (d = c \/ d = c + 1)
      BY <2>2, <2>5, <2>6
    <3> HIDE DEF c, d
    <3>2. d <= MaxConcurrency
      BY <2>7, <3>1
    <3> QED BY <3>2 DEF d
  <2> QED BY <2>4, <2>8
<1> QED BY <1>1, <1>2, <1>3

LEMMA StartPoppedOK ==
  ASSUME NEW s, EngineOK(s), NEW n \in 0..Len(s.queue), PopsExactly(s, n)
  PROVE  LET t == StartPopped(s, n) IN
         /\ EngineOK(t)
         /\ DOMAIN t.jobs = DOMAIN s.jobs
         /\ \A j \in DOMAIN s.jobs : t.jobs[j].profile = s.jobs[j].profile
         /\ t.active = s.active \cup Popped(s, n)
<1> DEFINE t == StartPopped(s, n)
           rest == SubSeq(s.queue, n + 1, Len(s.queue))
           Started(j) == [s.jobs[j] EXCEPT !.status = "Running",
                                           !.attempt = @ + TimesPopped(s, n, j)]
<1>0. EngineType(s) /\ HasFields(s)
  BY TypeParts DEF EngineOK
<1>1. /\ HasFields(t)
      /\ t.jobs = [j \in DOMAIN s.jobs |-> IF j \in Popped(s, n) THEN Started(j) ELSE s.jobs[j]]
      /\ t.runs = [r \in DOMAIN s.runs |->
                     IF s.runs[r] = "Pending" /\ \E j \in Popped(s, n) : s.jobs[j].run = r
                     THEN "Running" ELSE s.runs[r]]
      /\ t.queue = rest
      /\ t.active = s.active \cup Popped(s, n)
      /\ t.nextJob = s.nextJob /\ t.nextRun = s.nextRun
  BY <1>0 DEF StartPopped, HasFields
<1> HIDE DEF t
<1>2. ASSUME NEW j \in DOMAIN s.jobs
      PROVE  /\ t.jobs[j] \in JobRecords
             /\ t.jobs[j].run = s.jobs[j].run
             /\ t.jobs[j].profile = s.jobs[j].profile
             /\ t.jobs[j].status = IF j \in Popped(s, n) THEN "Running" ELSE s.jobs[j].status
  <2>1. s.jobs[j] \in JobRecords
    BY <1>0, TypeParts
  <2>2. s.jobs[j].attempt + TimesPopped(s, n, j) \in Nat
    <3>1. s.jobs[j].attempt \in Nat
      BY <2>1 DEF JobRecords
    <3> QED BY <1>0, <3>1, PoppedJobs
  <2>3. /\ Started(j) \in JobRecords /\ Started(j).status = "Running"
        /\ Started(j).run = s.jobs[j].run /\ Started(j).profile = s.jobs[j].profile
    BY <2>1, <2>2 DEF JobRecords, JobStatus
  <2> HIDE DEF Started
  <2> QED BY <1>1, <2>1, <2>3
<1>3. t.jobs \in [DOMAIN s.jobs -> JobRecords]
  <2> HIDE DEF Started
  <2>1. t.jobs = [j \in DOMAIN s.jobs |-> t.jobs[j]]
    BY <1>1
  <2> QED BY <1>2, <2>1
<1>4. /\ t.runs \in [DOMAIN s.runs -> RunStatus]
      /\ \A r \in DOMAIN s.runs : t.runs[r] # "Cancelled" => s.runs[r] # "Cancelled"
  <2>1. \A r \in DOMAIN s.runs : s.runs[r] \in RunStatus
    BY <1>0, TypeParts
  <2> HIDE DEF Started
  <2> QED BY <1>1, <2>1 DEF RunStatus
<1>5. t.queue \in Seq(DOMAIN s.jobs) /\ Entries(s.queue) \subseteq Popped(s, n) \cup Entries(t.queue)
  <2>1. rest \in Seq(DOMAIN s.jobs) /\ Entries(s.queue) \subseteq Popped(s, n) \cup Entries(rest)
    BY <1>0, RestOfQueue
  <2>2. t.queue = rest
    BY <1>1
  <2> HIDE DEF rest
  <2> QED BY <2>1, <2>2
<1>6. Popped(s, n) \subseteq DOMAIN s.jobs /\ s.active \subseteq DOMAIN s.jobs
  BY <1>0, PoppedJobs, TypeParts
<1> HIDE DEF Started, rest
<1>7. Changes(s, t)
  BY <1>1, <1>2, <1>3, <1>4, <1>5, <1>6 DEF Changes
<1>8. EngineType(t) /\ DOMAIN t.jobs = DOMAIN s.jobs /\ DOMAIN t.runs = DOMAIN s.runs
  BY <1>0, <1>7, ChangesType
<1>9. RunningHoldSlots(t)
  BY <1>1, <1>2, <1>6, <1>8 DEF EngineOK, RunningHoldSlots
<1>10. ReadyAreQueued(t)
  <2> SUFFICES ASSUME NEW j \in DOMAIN s.jobs, t.jobs[j].status = "Ready",
                      t.runs[t.jobs[j].run] # "Cancelled"
               PROVE  j \in Entries(t.queue)
    BY <1>8 DEF ReadyAreQueued
  <2>1. j \notin Popped(s, n) /\ s.jobs[j].status = "Ready"
    BY <1>2
  <2>2. s.runs[s.jobs[j].run] # "Cancelled"
    BY <1>0, <1>2, <1>4, TypeParts
  <2> QED BY <1>5, <2>1, <2>2 DEF EngineOK, ReadyAreQueued
<1>11. Cardinality(t.active) <= MaxConcurrency
  BY <1>1, PopsWithinLimit
<1> QED BY <1>1, <1>2, <1>8, <1>9, <1>10, <1>11 DEF EngineOK, t

LEMMA CancelOK ==
  ASSUME NEW s, EngineOK(s), NEW r \in DOMAIN s.runs,
         NEW kept \in Listings(KeptEntries(s, r))
  PROVE  EngineOK(Cancel(s, r, kept)) /\ Freed(s, Cancel(s, r, kept), CancelledJobs(s, r))
<1> DEFINE t == Cancel(s, r, kept)
           cancelled == CancelledJobs(s, r)
           Status(j) == IF s.jobs[j].attempt < MaxAttempts THEN "Ready" ELSE "Failed"
<1>0. EngineType(s) /\ HasFields(s)
  BY TypeParts DEF EngineOK
<1>1. /\ HasFields(t)
      /\ t.jobs = [j \in DOMAIN s.jobs |->
                     IF j \in cancelled THEN [s.jobs[j] EXCEPT !.status = Status(j)] ELSE s.jobs[j]]
      /\ t.runs = [s.runs EXCEPT ![r] = "Cancelled"]
      /\ t.queue = [i \in DOMAIN kept |-> s.queue[kept[i]]]
      /\ t.active = s.active \ cancelled
      /\ t.nextJob = s.nextJob /\ t.nextRun = s.nextRun
  BY <1>0 DEF Cancel, HasFields
<1> HIDE DEF t
<1>2. /\ cancelled \subseteq DOMAIN s.jobs
      /\ \A j \in DOMAIN s.jobs :
           j \in cancelled <=> s.jobs[j].run = r /\ s.jobs[j].status \in Unfinished
  BY DEF CancelledJobs, JobsOf
<1> HIDE DEF cancelled
<1>3. ASSUME NEW j \in DOMAIN s.jobs
      PROVE  /\ t.jobs[j] \in JobRecords
             /\ t.jobs[j].run = s.jobs[j].run
             /\ t.jobs[j].profile = s.jobs[j].profile
             /\ t.jobs[j].status = IF j \in cancelled THEN Status(j) ELSE s.jobs[j].status
  <2>1. s.jobs[j] \in JobRecords /\ Status(j) \in JobStatus
    BY <1>0, TypeParts DEF JobStatus
  <2> HIDE DEF Status
  <2> QED BY <1>1, <2>1, JobUpdate
<1>4. t.jobs \in [DOMAIN s.jobs -> JobRecords]
  <2> HIDE DEF Status
  <2>1. t.jobs = [j \in DOMAIN s.jobs |-> t.jobs[j]]
    BY <1>1
  <2> QED BY <1>3, <2>1
<1>5. t.runs \in [DOMAIN s.runs -> RunStatus]
      /\ \A q \in DOMAIN s.runs : t.runs[q] = IF q = r THEN "Cancelled" ELSE s.runs[q]
  <2>1. s.runs \in [DOMAIN s.runs -> RunStatus] /\ "Cancelled" \in RunStatus
    BY <1>0, TypeParts DEF RunStatus
  <2> HIDE DEF Status
  <2> QED BY <1>1, <2>1
<1>6. /\ t.queue \in Seq(DOMAIN s.jobs)
      /\ \A j \in Entries(s.queue) : s.jobs[j].run # r => j \in Entries(t.queue)
  <2> DEFINE ids == DOMAIN s.jobs
             q == s.queue
             positions == KeptEntries(s, r)
  <2>1. q \in Seq(ids)
    BY <1>0, TypeParts
  <2>2. Len(q) \in Nat /\ DOMAIN q = 1..Len(q) /\ \A i \in DOMAIN q : q[i] \in ids
    <3> HIDE DEF ids, q
    <3> QED BY <2>1, LenProperties, ElementOfSeq
  <2>3. positions = {i \in DOMAIN q : q[i] \notin JobsOf(s, r)}
    BY DEF KeptEntries
  <2>4. IsFiniteSet(positions)
    <3> HIDE DEF q, positions, ids
    <3>1. IsFiniteSet(1..Len(q))
      BY <2>2, FS_Interval
    <3>2. positions \subseteq 1..Len(q)
      BY <2>2, <2>3
    <3> QED BY <3>1, <3>2, FS_Subset
  <2>5. /\ kept \in Seq(positions) /\ Entries(kept) = positions
        /\ DOMAIN kept = 1..Cardinality(positions) /\ Cardinality(positions) \in Nat
    BY <2>4, EntriesOfOrdering, FS_CardinalityType DEF Listings
  <2>6. \A i \in DOMAIN kept : kept[i] \in DOMAIN q
    BY <2>3, <2>5 DEF Entries
  <2>7. t.queue = [i \in DOMAIN kept |-> q[kept[i]]]
    BY <1>1
  <2>8. \A j \in ids : s.jobs[j].run # r => j \notin JobsOf(s, r)
    BY DEF JobsOf
  <2> HIDE DEF ids, q, positions, Status
  <2>9. t.queue \in Seq(ids)
    BY <2>2, <2>5, <2>6, <2>7, IsASeq
  <2>10. ASSUME NEW i \in DOMAIN q, q[i] \notin JobsOf(s, r)
         PROVE  q[i] \in Entries(t.queue)
    <3>1. i \in Entries(kept)
      BY <2>3, <2>5, <2>10
    <3>2. PICK k \in DOMAIN kept : kept[k] = i
      BY <3>1 DEF Entries
    <3>3. k \in DOMAIN t.queue /\ t.queue[k] = q[i]
      BY <2>7, <3>2
    <3> QED BY <3>3 DEF Entries
  <2>11. \A j \in Entries(q) : s.jobs[j].run # r => j \in Entries(t.queue)
    BY <2>2, <2>8, <2>10 DEF Entries
  <2> QED BY <2>9, <2>11 DEF ids, q
<1>7. s.active \subseteq DOMAIN s.jobs
  BY <1>0, TypeParts
<1>8. Changes(s, t)
  <2> HIDE DEF Status
  <2> QED BY <1>1, <1>3, <1>4, <1>5, <1>6, <1>7 DEF Changes
<1>9. EngineType(t) /\ DOMAIN t.jobs = DOMAIN s.jobs /\ DOMAIN t.runs = DOMAIN s.runs
  BY <1>0, <1>8, ChangesType
<1>10. RunningHoldSlots(t)
  BY <1>1, <1>3, <1>9 DEF EngineOK, RunningHoldSlots
<1>11. ReadyAreQueued(t)
  <2> SUFFICES ASSUME NEW j \in DOMAIN s.jobs, t.jobs[j].status = "Ready",
                      t.runs[t.jobs[j].run] # "Cancelled"
               PROVE  j \in Entries(t.queue)
    BY <1>9 DEF ReadyAreQueued
  <2> HIDE DEF Status
  <2>1. s.jobs[j].run # r /\ s.runs[s.jobs[j].run] # "Cancelled"
    BY <1>0, <1>3, <1>5, TypeParts
  <2>2. s.jobs[j].status = "Ready"
    BY <1>2, <1>3, <2>1
  <2> QED BY <1>6, <2>1, <2>2 DEF EngineOK, ReadyAreQueued
<1> HIDE DEF Status
<1>12. EngineOK(t)
  BY <1>1, <1>9, <1>10, <1>11, FewerSlots DEF EngineOK
<1> QED BY <1>1, <1>3, <1>9, <1>12 DEF Freed, t, cancelled

=============================================================================
