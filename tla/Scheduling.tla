----------------------------- MODULE Scheduling -----------------------------
(***************************************************************************)
(* What the orchestrator promises of its jobs, without queue, workers,     *)
(* reports, runs and heartbeats: jobs that arrive in batches, depend on    *)
(* each other, run in a limited number of slots and are tried a limited    *)
(* number of times.  Slots are given out at once: none stays free while a  *)
(* job could use it.                                                       *)
(***************************************************************************)
EXTENDS Naturals, FiniteSets

CONSTANTS
  Slots,   \* jobs that may run at a time
  Tries    \* times a job may be started

VARIABLE jobs   \* job -> [deps, state, tries]

In(f, state) == {j \in DOMAIN f : f[j].state = state}

\* The waiting jobs that depend on nothing that is yet to complete.
Startable(f) == {j \in In(f, "waiting") : f[j].deps \subseteq In(f, "completed")}

\* f with more jobs, of which `deps' gives the dependencies.
Extended(f, deps) ==
  [j \in DOMAIN f \cup DOMAIN deps |->
     IF j \in DOMAIN f THEN f[j] ELSE [deps |-> deps[j], state |-> "waiting", tries |-> 0]]

Started(f, S) ==
  [j \in DOMAIN f |->
     IF j \in S THEN [deps |-> f[j].deps, state |-> "running", tries |-> f[j].tries + 1]
     ELSE f[j]]

\* f when job j has left its slot.
Released(f, j, state) ==
  [f EXCEPT ![j] = [deps |-> f[j].deps, state |-> state, tries |-> f[j].tries]]

\* A step that leads from f ends with as many startable jobs started as there
\* are slots for.  (The bound names make TLC evaluate each side once.)
FillSlots(f) ==
  \E from \in {f}, to \in {jobs'} :
    LET chosen == In(to, "running") \ In(from, "running")
        taken  == Cardinality(In(from, "running") \cup chosen)
    IN  /\ chosen \subseteq Startable(from)
        /\ to = Started(from, chosen)
        /\ taken <= Slots
        /\ chosen = Startable(from) \/ taken = Slots

\* The dependencies of the jobs that come with a step.
Arrivals ==
  LET after == jobs' IN [j \in DOMAIN after \ DOMAIN jobs |-> after[j].deps]

Init == jobs = [j \in {} |-> [deps |-> {}, state |-> "waiting", tries |-> 0]]

Arrive ==
  /\ Arrivals # << >>
  /\ FillSlots(Extended(jobs, Arrivals))

\* A job that completes may bring others with it: a plan, or a revision.
Complete(j) == FillSlots(Extended(Released(jobs, j, "completed"), Arrivals))

Retry(j) ==
  /\ jobs[j].tries < Tries
  /\ FillSlots(Released(jobs, j, "waiting"))

Fail(j) ==
  /\ jobs[j].tries = Tries
  /\ FillSlots(Released(jobs, j, "failed"))

Next == Arrive \/ \E j \in In(jobs, "running") : Complete(j) \/ Retry(j) \/ Fail(j)

Spec == Init /\ [][Next]_jobs
=============================================================================
