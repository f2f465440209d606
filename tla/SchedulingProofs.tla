-------------------------- MODULE SchedulingProofs --------------------------
(***************************************************************************)
(* What the abstract scheduler guarantees, for any number of slots, tries  *)
(* and jobs.  A step is one change to a job (or an arrival) followed by    *)
(* FillSlots: every change keeps the jobs Sound, and FillSlots turns sound *)
(* jobs into sound jobs with full slots.                                   *)
(***************************************************************************)
EXTENDS Scheduling, FiniteSetTheorems, TLAPS

Sane == {Slots, Tries} \subseteq Nat \ {0}

States == {"waiting", "running", "completed", "failed"}

\* No job is started before everything it depends on has completed.
DependenciesFirst(f) ==
  \A j \in DOMAIN f : f[j].state # "waiting" => f[j].deps \subseteq In(f, "completed")

\* No job is started more than Tries times; one that waits has a try left, and
\* one that failed had them all.
TriesBounded(f) ==
  \A j \in DOMAIN f :
    /\ f[j].tries \in 0..Tries
    /\ f[j].state = "waiting" => f[j].tries < Tries
    /\ f[j].state = "failed" => f[j].tries = Tries

Sound(f) == DependenciesFirst(f) /\ TriesBounded(f)

\* No slot is free while a job could use it, and none is used twice.
SlotsInUse ==
  /\ Cardinality(In(jobs, "running")) <= Slots
  /\ Startable(jobs) # {} => Cardinality(In(jobs, "running")) = Slots

-----------------------------------------------------------------------------
(* Starting jobs.                                                          *)

\* Starting some of the startable jobs changes these and nothing else.
LEMMA StartedJobs ==
  ASSUME Sane, NEW f, Sound(f), NEW S \in SUBSET Startable(f)
  PROVE  /\ Sound(Started(f, S))
         /\ In(Started(f, S), "running") = In(f, "running") \cup S
         /\ Startable(Started(f, S)) = Startable(f) \ S
<1> DEFINE g == Started(f, S)
<1>1. /\ DOMAIN g = DOMAIN f
      /\ \A j \in DOMAIN f \ S : g[j] = f[j]
      /\ \A j \in S : /\ j \in DOMAIN f /\ f[j].state = "waiting"
                      /\ g[j].deps = f[j].deps
                      /\ g[j].state = "running"
                      /\ g[j].tries = f[j].tries + 1
  BY DEF Started, Startable, In
<1> HIDE DEF g
<1>4. In(g, "completed") = In(f, "completed")
  BY <1>1 DEF In
<1>5. In(g, "running") = In(f, "running") \cup S
  BY <1>1 DEF In
<1>6. In(g, "waiting") = In(f, "waiting") \ S
  BY <1>1 DEF In
<1>7. DependenciesFirst(g)
  BY <1>1, <1>4 DEF Sound, DependenciesFirst, Startable
<1>8. TriesBounded(g)
  BY <1>1 DEF Sane, Sound, TriesBounded
<1>9. Startable(g) = Startable(f) \ S
  <2>1. \A j \in DOMAIN f : g[j].deps = f[j].deps
    BY <1>1
  <2> QED BY <1>1, <1>4, <1>6, <2>1 DEF Startable, In
<1> QED BY <1>5, <1>7, <1>8, <1>9 DEF Sound, g

\* A step that comes to its end leaves the jobs sound and the slots in use.
LEMMA SlotsFilled ==
  ASSUME Sane, NEW f, Sound(f), FillSlots(f)
  PROVE  /\ Sound(jobs)'
         /\ SlotsInUse'
         /\ In(f, "completed") \subseteq In(jobs, "completed")'
<1> DEFINE chosen == In(jobs', "running") \ In(f, "running")
<1>1. /\ chosen \in SUBSET Startable(f)
      /\ jobs' = Started(f, chosen)
      /\ Cardinality(In(f, "running") \cup chosen) <= Slots
      /\ chosen = Startable(f) \/ Cardinality(In(f, "running") \cup chosen) = Slots
  BY DEF FillSlots
<1> HIDE DEF chosen
<1>2. /\ Sound(jobs')
      /\ In(jobs', "running") = In(f, "running") \cup chosen
      /\ Startable(jobs') = Startable(f) \ chosen
  BY <1>1, StartedJobs
<1>3. In(f, "completed") \subseteq In(jobs', "completed")
  BY <1>1 DEF Started, Startable, In
<1> QED BY <1>1, <1>2, <1>3 DEF SlotsInUse

-----------------------------------------------------------------------------
(* The change that a step begins with.                                     *)

LEMMA Extension ==
  ASSUME Sane, NEW f, Sound(f), NEW deps
  PROVE  /\ Sound(Extended(f, deps))
         /\ In(f, "completed") \subseteq In(Extended(f, deps), "completed")
<1> DEFINE g == Extended(f, deps)
<1>1. /\ DOMAIN g = DOMAIN f \cup DOMAIN deps
      /\ \A j \in DOMAIN f : g[j] = f[j]
      /\ \A j \in DOMAIN g \ DOMAIN f : g[j].state = "waiting" /\ g[j].tries = 0
  BY DEF Extended
<1> HIDE DEF g
<1>4. In(f, "completed") \subseteq In(g, "completed")
  BY <1>1 DEF In
<1>5. DependenciesFirst(g)
  BY <1>1, <1>4 DEF Sound, DependenciesFirst
<1>6. TriesBounded(g)
  BY <1>1 DEF Sane, Sound, TriesBounded
<1> QED BY <1>4, <1>5, <1>6 DEF Sound, g

\* A running job may complete, wait again while it has tries, or fail without.
LEMMA Release ==
  ASSUME Sane, NEW f, Sound(f), NEW j \in In(f, "running"), NEW state \in States \ {"running"},
         state = "waiting" => f[j].tries < Tries,
         state = "failed" => f[j].tries = Tries
  PROVE  /\ Sound(Released(f, j, state))
         /\ In(f, "completed") \subseteq In(Released(f, j, state), "completed")
<1> DEFINE g == Released(f, j, state)
<1>1. /\ j \in DOMAIN f
      /\ f[j].state = "running"
  BY DEF In
<1>2. /\ DOMAIN g = DOMAIN f
      /\ \A k \in DOMAIN f \ {j} : g[k] = f[k]
      /\ g[j].deps = f[j].deps
      /\ g[j].state = state
      /\ g[j].tries = f[j].tries
  BY <1>1 DEF Released
<1> HIDE DEF g
<1>5. In(f, "completed") \subseteq In(g, "completed")
  BY <1>1, <1>2 DEF In
<1>6. DependenciesFirst(g)
  BY <1>1, <1>2, <1>5 DEF Sound, DependenciesFirst
<1>7. TriesBounded(g)
  BY <1>1, <1>2 DEF Sound, TriesBounded
<1> QED BY <1>5, <1>6, <1>7 DEF Sound, g

-----------------------------------------------------------------------------

Inv == Sound(jobs) /\ SlotsInUse

LEMMA InitInv ==
  ASSUME Sane, Init
  PROVE  Inv
<1>1. DOMAIN jobs = {}
  BY DEF Init
<1>2. Sound(jobs)
  BY <1>1 DEF Sound, DependenciesFirst, TriesBounded
<1>3. In(jobs, "running") = {} /\ Startable(jobs) = {}
  BY <1>1 DEF In, Startable
<1> QED BY <1>2, <1>3, FS_EmptySet DEF Inv, SlotsInUse, Sane

\* Every step leads from some sound jobs, which hold what has completed, to the
\* end of FillSlots.
LEMMA StepInv ==
  ASSUME Sane, Inv, Next
  PROVE  Inv' /\ In(jobs, "completed") \subseteq In(jobs, "completed")'
<1>0. Sound(jobs)
  BY DEF Inv
<1>1. ASSUME NEW f, Sound(f), In(jobs, "completed") \subseteq In(f, "completed"), FillSlots(f)
      PROVE  Inv' /\ In(jobs, "completed") \subseteq In(jobs, "completed")'
  BY <1>1, SlotsFilled DEF Inv
<1>2. CASE Arrive
  BY <1>0, <1>1, <1>2, Extension DEF Arrive
<1>3. ASSUME NEW j \in In(jobs, "running"), Complete(j)
      PROVE  Inv' /\ In(jobs, "completed") \subseteq In(jobs, "completed")'
  <2> DEFINE f == Released(jobs, j, "completed")
  <2>1. Sound(f) /\ In(jobs, "completed") \subseteq In(f, "completed")
    BY <1>0, Release DEF States
  <2> HIDE DEF f
  <2>2. Sound(Extended(f, Arrivals)) /\ In(f, "completed") \subseteq In(Extended(f, Arrivals), "completed")
    BY <2>1, Extension
  <2>3. FillSlots(Extended(f, Arrivals))
    BY <1>3 DEF Complete, f
  <2> QED BY <1>1, <2>1, <2>2, <2>3
<1>4. ASSUME NEW j \in In(jobs, "running"), Retry(j)
      PROVE  Inv' /\ In(jobs, "completed") \subseteq In(jobs, "completed")'
  BY <1>0, <1>1, <1>4, Release DEF Retry, States
<1>5. ASSUME NEW j \in In(jobs, "running"), Fail(j)
      PROVE  Inv' /\ In(jobs, "completed") \subseteq In(jobs, "completed")'
  BY <1>0, <1>1, <1>5, Release DEF Fail, States
<1> QED BY <1>2, <1>3, <1>4, <1>5 DEF Next

LEMMA Stutter ==
  ASSUME Inv, UNCHANGED jobs
  PROVE  Inv' /\ In(jobs, "completed") \subseteq In(jobs, "completed")'
BY DEF Inv, Sound, DependenciesFirst, TriesBounded, SlotsInUse, Startable, In

LEMMA Invariance ==
  ASSUME Sane
  PROVE  Spec => []Inv
<1>1. Init => Inv
  BY InitInv
<1>2. Inv /\ [Next]_jobs => Inv'
  BY StepInv, Stutter
<1> QED BY <1>1, <1>2, PTL DEF Spec

-----------------------------------------------------------------------------

\* Whatever fails and is tried again, nothing is started before what it depends
\* on has completed (promote_unblocked_jobs).
THEOREM NothingStartsEarly ==
  ASSUME Sane
  PROVE  Spec => []DependenciesFirst(jobs)
<1>1. Inv => DependenciesFirst(jobs)
  BY DEF Inv, Sound
<1> QED BY <1>1, Invariance, PTL

\* Nothing is started more often than it may be, and nothing is given up before
\* (mark_failed against max_attempts).
THEOREM TriesAreUsed ==
  ASSUME Sane
  PROVE  Spec => []TriesBounded(jobs)
<1>1. Inv => TriesBounded(jobs)
  BY DEF Inv, Sound
<1> QED BY <1>1, Invariance, PTL

\* Slots are neither exceeded nor idle while a job could start (next_job in the
\* `while let' loops of the handlers).
THEOREM SlotsAreUsed ==
  ASSUME Sane
  PROVE  Spec => []SlotsInUse
<1>1. Inv => SlotsInUse
  BY DEF Inv
<1> QED BY <1>1, Invariance, PTL

\* A completed job stays completed: its dependents can rely on it for good.
THEOREM CompletedIsFinal ==
  ASSUME Sane
  PROVE  Spec => [][In(jobs, "completed") \subseteq In(jobs, "completed")']_jobs
<1>1. Inv /\ [Next]_jobs => [In(jobs, "completed") \subseteq In(jobs, "completed")']_jobs
  BY StepInv
<1> QED BY <1>1, Invariance, PTL DEF Spec
=============================================================================
