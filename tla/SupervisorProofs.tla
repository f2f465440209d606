-------------------------- MODULE SupervisorProofs --------------------------
(***************************************************************************)
(* The two maps of handles and the budget of restarts, for any budget, any *)
(* queue and any number of processes, commands and reloads.                *)
(*                                                                         *)
(* That a restart stays within the budget is decided when an update is     *)
(* handled, and done when the backoff is over: in between, the entry keeps *)
(* the promise that it has a restart left (PendingHasBudget).              *)
(***************************************************************************)
EXTENDS Supervisor, SequenceTheorems, TLAPS

PendingHasBudget ==
  Exists(managed) /\ managed.status = "RestartPending" => managed.count < MaxRestarts

Inv == TypeOK /\ HandlesAgree /\ RestartBudget /\ PendingHasBudget

\* The fields of an entry that is there.
LEMMA Fields ==
  ASSUME TypeOK
  PROVE  /\ Exists(managed) <=> managed # None
         /\ Exists(shared) <=> shared # None
         /\ managed.inst \in Nat /\ shared.inst \in Nat
         /\ Exists(managed) => managed \in [status : Words \cup {"RestartPending"}, count : Nat,
                                            due : BOOLEAN, inst : Nat \ {0}]
         /\ Exists(shared) => shared \in [status : Words, inst : Nat \ {0}]
BY DEF TypeOK, Exists, None

LEMMA NewInstance == [phase |-> "starting", told |-> FALSE] \in Instance
BY DEF Instance, Phases

LEMMA InitInv ==
  ASSUME Init
  PROVE  Inv
<1>1. 0 \in 0..MaxRestarts
  BY SupervisorAssumption
<1>2. CASE config = "auto"
  <2>1. /\ managed = [status |-> "Starting", count |-> 0, due |-> FALSE, inst |-> 1]
        /\ shared = [status |-> "Starting", inst |-> 1]
        /\ instances = <<[phase |-> "starting", told |-> FALSE]>>
        /\ updates = <<>> /\ commands = <<>> /\ stopping = 0
    BY <1>2 DEF Init
  <2>2. instances \in Seq(Instance) /\ Len(instances) = 1
    BY <2>1, NewInstance
  <2>3. TypeOK
    BY <1>2, <2>1, <2>2 DEF TypeOK, Words, Configs
  <2> QED BY <1>1, <2>1, <2>3 DEF Inv, HandlesAgree, RestartBudget, PendingHasBudget
<1>3. CASE config # "auto"
  <2>1. /\ managed = None /\ shared = None
        /\ instances = <<>> /\ updates = <<>> /\ commands = <<>> /\ stopping = 0
    BY <1>3 DEF Init
  <2>2. TypeOK
    BY <2>1 DEF Init, TypeOK, Configs, None
  <2> QED BY <2>1, <2>2 DEF Inv, HandlesAgree, RestartBudget, PendingHasBudget, Exists, None
<1> QED BY <1>2, <1>3

\* A process that is started gets both entries.
LEMMA Spawning ==
  ASSUME Inv, NEW count \in 0..MaxRestarts, NEW others \in Seq(Instance),
         Len(others) = Len(instances), SpawnInto(count, others),
         config' \in Configs, updates' \in Seq(Words), commands' \in Seq({"start", "restart"}),
         UNCHANGED stopping
  PROVE  Inv'
<1>1. /\ Len(instances) \in Nat
      /\ Len(instances') = Len(instances) + 1
      /\ instances' \in Seq(Instance)
  BY NewInstance, AppendProperties DEF SpawnInto
<1>2. /\ managed' \in [status : Words \cup {"RestartPending"}, count : Nat,
                       due : BOOLEAN, inst : Nat \ {0}]
      /\ managed'.inst = Len(instances) + 1
      /\ managed'.count = count
      /\ managed'.status = "Starting"
  BY <1>1, SupervisorAssumption DEF SpawnInto, Fresh, Words
<1>3. /\ shared' \in [status : Words, inst : Nat \ {0}]
      /\ shared'.inst = Len(instances) + 1
  BY <1>1 DEF SpawnInto, Fresh, Ref, Words
<1>4. TypeOK'
  BY <1>1, <1>2, <1>3 DEF Inv, TypeOK
<1> QED BY <1>2, <1>3, <1>4, SupervisorAssumption
        DEF Inv, HandlesAgree, RestartBudget, PendingHasBudget

\* Telling a process to stop, or letting it go on, starts none.
LEMMA Instances ==
  ASSUME Inv, NEW i, NEW phase \in Phases
  PROVE  /\ Told(i) \in Seq(Instance) /\ Len(Told(i)) = Len(instances)
         /\ i \in DOMAIN instances =>
              /\ [instances EXCEPT ![i].phase = phase] \in Seq(Instance)
              /\ Len([instances EXCEPT ![i].phase = phase]) = Len(instances)
<1>1. instances \in Seq(Instance)
  BY DEF Inv, TypeOK
<1>2. ASSUME i \in DOMAIN instances
      PROVE  /\ i \in 1..Len(instances)
             /\ instances[i] \in Instance
             /\ [instances[i] EXCEPT !.told = TRUE] \in Instance
             /\ [instances[i] EXCEPT !.phase = phase] \in Instance
  <2>1. i \in 1..Len(instances) /\ instances[i] \in Instance
    BY <1>1, <1>2
  <2> QED BY <2>1 DEF Instance
<1>3. CASE i \notin DOMAIN instances
  BY <1>1, <1>3 DEF Told
<1>4. CASE i \in DOMAIN instances
  <2> DEFINE told == [instances[i] EXCEPT !.told = TRUE]
             entered == [instances[i] EXCEPT !.phase = phase]
  <2>1. Told(i) = [instances EXCEPT ![i] = told]
    BY <1>4 DEF Told
  <2>2. [instances EXCEPT ![i].phase = phase] = [instances EXCEPT ![i] = entered]
    OBVIOUS
  <2>3. i \in 1..Len(instances) /\ told \in Instance /\ entered \in Instance
    BY <1>2, <1>4
  <2> HIDE DEF told, entered
  <2>4. /\ [instances EXCEPT ![i] = told] \in Seq(Instance)
        /\ Len([instances EXCEPT ![i] = told]) = Len(instances)
    BY <1>1, <2>3, ExceptSeq
  <2>5. /\ [instances EXCEPT ![i] = entered] \in Seq(Instance)
        /\ Len([instances EXCEPT ![i] = entered]) = Len(instances)
    BY <1>1, <2>3, ExceptSeq
  <2> QED BY <2>1, <2>2, <2>4, <2>5
<1> QED BY <1>3, <1>4

\* What an instance does leaves the maps alone.
LEMMA InstanceSteps ==
  ASSUME Inv, UNCHANGED <<config, managed, shared, commands, stopping>>,
         instances' \in Seq(Instance), Len(instances') = Len(instances),
         updates' \in Seq(Words)
  PROVE  Inv'
BY DEF Inv, TypeOK, HandlesAgree, RestartBudget, PendingHasBudget, Exists, None

LEMMA Saying ==
  ASSUME Inv, NEW words \in Seq(Words), Says(words)
  PROVE  updates' \in Seq(Words)
BY DEF Says, Inv, TypeOK

\* Taking the entry out of both maps.
LEMMA Removal ==
  ASSUME Inv, managed' = None, shared' = None \/ (UNCHANGED shared /\ shared.inst = 0),
         instances' \in Seq(Instance), Len(instances') = Len(instances),
         config' \in Configs, UNCHANGED <<updates, stopping>>, commands' \in Seq({"start", "restart"})
  PROVE  Inv'
BY DEF Inv, TypeOK, HandlesAgree, RestartBudget, PendingHasBudget, Exists, None

LEMMA StepInv ==
  ASSUME Inv, Next
  PROVE  Inv'
<1> USE DEF Inv
<1>0. 0 \in 0..MaxRestarts
  BY SupervisorAssumption
<1>1. CASE HandleUpdate
  <2>1. /\ Head(updates) \in Words
        /\ updates' \in Seq(Words)
    BY <1>1 DEF HandleUpdate, TypeOK
  <2>2. CASE ~Exists(managed)
    BY <1>1, <2>1, <2>2
       DEF HandleUpdate, TypeOK, HandlesAgree, RestartBudget, PendingHasBudget, Exists
  <2>3. CASE Exists(managed)
    <3>1. managed \in [status : Words \cup {"RestartPending"}, count : Nat,
                       due : BOOLEAN, inst : Nat \ {0}]
      BY <2>3, Fields
    <3>2. /\ managed' \in [status : Words \cup {"RestartPending"}, count : Nat,
                           due : BOOLEAN, inst : Nat \ {0}]
          /\ managed'.inst = managed.inst
          /\ managed'.count = managed.count
          /\ managed'.status = "RestartPending" => managed.count < MaxRestarts
      BY <1>1, <2>1, <2>3, <3>1 DEF HandleUpdate, WithinBudget, Words
    <3>3. /\ shared' \in {None} \cup [status : Words, inst : Nat \ {0}]
          /\ shared'.inst = shared.inst
      BY <1>1, <2>1, <2>3, Fields DEF HandleUpdate, TypeOK, None
    <3>4. TypeOK'
      BY <1>1, <2>1, <3>2, <3>3 DEF HandleUpdate, TypeOK
    <3> QED BY <2>3, <3>2, <3>3, <3>4
            DEF HandlesAgree, RestartBudget, PendingHasBudget, Exists
  <2> QED BY <2>2, <2>3
<1>2. CASE BackoffPasses
  <2>1. managed \in [status : Words \cup {"RestartPending"}, count : Nat,
                     due : BOOLEAN, inst : Nat \ {0}]
    BY <1>2, Fields DEF BackoffPasses
  <2>2. /\ managed' \in [status : Words \cup {"RestartPending"}, count : Nat,
                         due : BOOLEAN, inst : Nat \ {0}]
        /\ managed'.inst = managed.inst
        /\ managed'.count = managed.count
        /\ managed'.status = managed.status
    BY <1>2, <2>1 DEF BackoffPasses
  <2>3. TypeOK'
    BY <1>2, <2>2 DEF BackoffPasses, TypeOK
  <2> QED BY <1>2, <2>2, <2>3
          DEF BackoffPasses, HandlesAgree, RestartBudget, PendingHasBudget, Exists
<1>3. CASE RestartDue
  <2>1. managed.count + 1 \in 0..MaxRestarts
    BY <1>3, Fields, SupervisorAssumption DEF RestartDue, Due, PendingHasBudget
  <2> QED BY <1>3, <2>1, Spawning DEF RestartDue, TypeOK
<1>4. CASE HandleStart
  <2>1. commands' \in Seq({"start", "restart"})
    BY <1>4 DEF HandleStart, TypeOK
  <2>2. CASE Exists(managed) /\ managed.status \notin Ends
    BY <1>4, <2>1, <2>2
       DEF HandleStart, TypeOK, HandlesAgree, RestartBudget, PendingHasBudget, Exists
  <2>3. CASE ~(Exists(managed) /\ managed.status \notin Ends) /\ config # "absent"
    <3>1. SpawnInto(0, instances) /\ UNCHANGED <<config, updates, stopping>>
      BY <1>4, <2>3 DEF HandleStart
    <3> QED BY <2>1, <1>0, <3>1, Spawning DEF TypeOK
  <2>4. CASE ~(Exists(managed) /\ managed.status \notin Ends) /\ config = "absent"
    <3>1. /\ managed' = None
          /\ shared' = IF Exists(managed) THEN None ELSE shared
          /\ UNCHANGED <<instances, config, updates, stopping>>
      BY <1>4, <2>4 DEF HandleStart
    <3>2. shared' = None \/ (UNCHANGED shared /\ shared.inst = 0)
      BY <3>1 DEF Exists, HandlesAgree
    <3> QED BY <2>1, <3>1, <3>2, Removal DEF TypeOK
  <2> QED BY <2>2, <2>3, <2>4
<1>5. CASE HandleRestart
  <2>1. commands' \in Seq({"start", "restart"})
    BY <1>5 DEF HandleRestart, TypeOK
  <2>2. Told(managed.inst) \in Seq(Instance) /\ Len(Told(managed.inst)) = Len(instances)
    BY Instances DEF Phases
  <2>3. CASE config # "absent"
    BY <1>5, <2>1, <2>2, <1>0, <2>3, Spawning DEF HandleRestart, TypeOK
  <2>4. CASE config = "absent"
    <3>1. /\ managed' = None
          /\ shared' = IF Exists(managed) THEN None ELSE shared
          /\ instances' = Told(managed.inst)
          /\ UNCHANGED <<config, updates, stopping>>
      BY <1>5, <2>4 DEF HandleRestart
    <3>2. shared' = None \/ (UNCHANGED shared /\ shared.inst = 0)
      BY <3>1 DEF Exists, HandlesAgree
    <3> QED BY <2>1, <2>2, <3>1, <3>2, Removal DEF TypeOK
  <2> QED BY <2>3, <2>4
<1>6. CASE Reload
  <2>1. config' \in Configs /\ UNCHANGED <<updates, commands, stopping>>
    BY <1>6 DEF Reload
  <2>2. CASE config' = "auto" /\ ~Exists(managed)
    <3>1. SpawnInto(0, instances)
      BY <1>6, <2>2 DEF Reload
    <3> QED BY <2>1, <1>0, <3>1, Spawning DEF TypeOK
  <2>3. CASE config' # "auto" /\ Exists(managed)
    <3>1. managed' = None /\ shared' = None /\ instances' = Told(managed.inst)
      BY <1>6, <2>3 DEF Reload
    <3>2. Told(managed.inst) \in Seq(Instance) /\ Len(Told(managed.inst)) = Len(instances)
      BY Instances DEF Phases
    <3> QED BY <2>1, <3>1, <3>2, Removal DEF TypeOK
  <2>4. CASE ~(config' = "auto" /\ ~Exists(managed)) /\ ~(config' # "auto" /\ Exists(managed))
    <3>1. UNCHANGED <<managed, shared, instances>>
      BY <1>6, <2>4 DEF Reload
    <3> QED BY <2>1, <3>1 DEF TypeOK, HandlesAgree, RestartBudget, PendingHasBudget, Exists
  <2> QED BY <2>2, <2>3, <2>4
<1>7. CASE PostStart \/ PostRestart
  <2>1. commands' \in Seq({"start", "restart"})
    <3>1. PICK c \in {"start", "restart"} : commands' = Append(commands, c)
      BY <1>7 DEF PostStart, PostRestart
    <3>2. commands \in Seq({"start", "restart"})
      BY DEF TypeOK
    <3> QED BY <3>1, <3>2, AppendProperties
  <2> QED BY <1>7, <2>1
          DEF PostStart, PostRestart, TypeOK, HandlesAgree, RestartBudget, PendingHasBudget, Exists
<1>8. CASE PostStop
  <2>1. Told(shared.inst) \in Seq(Instance) /\ Len(Told(shared.inst)) = Len(instances)
    BY Instances DEF Phases
  <2>2. shared.inst \in 0..Len(instances)
    BY DEF TypeOK
  <2> QED BY <1>8, <2>1, <2>2
          DEF PostStop, TypeOK, HandlesAgree, RestartBudget, PendingHasBudget, Exists
<1>9. CASE MarkStopped
  <2>1. /\ shared' \in {None} \cup [status : Words, inst : Nat \ {0}]
        /\ shared'.inst = shared.inst
    BY <1>9, Fields DEF MarkStopped, Words, TypeOK
  <2>2. stopping' \in 0..Len(instances')
    BY <1>9 DEF MarkStopped, TypeOK
  <2> QED BY <1>9, <2>1, <2>2
          DEF MarkStopped, TypeOK, HandlesAgree, RestartBudget, PendingHasBudget, Exists
<1>10. ASSUME NEW i \in DOMAIN instances,
              FailToSpawn(i) \/ ComeUp(i) \/ Chatter(i) \/ Announce(i) \/ End(i)
       PROVE  Inv'
  <2>1. /\ instances' \in Seq(Instance)
        /\ Len(instances') = Len(instances)
    <3>1. instances \in Seq(Instance)
      BY DEF TypeOK
    <3>2. CASE UNCHANGED instances
      BY <3>1, <3>2
    <3>3. CASE \E phase \in Phases : Enters(i, phase)
      <4>1. PICK phase \in Phases : Enters(i, phase)
        BY <3>3
      <4> QED BY <4>1, Instances, Zenon DEF Enters
    <3> QED BY <1>10, <3>2, <3>3 DEF FailToSpawn, ComeUp, Chatter, Announce, End, Phases
  <2>2. \E words \in Seq(Words) : Says(words)
    <3>1. {<<"Error">>, <<"Starting">>, <<"Idle">>, <<"Stopped">>, <<"Error", "Stopped">>}
            \subseteq Seq(Words)
      BY DEF Words
    <3> QED BY <1>10, <3>1 DEF FailToSpawn, ComeUp, Chatter, Announce, End
  <2>3. UNCHANGED <<config, managed, shared, commands, stopping>>
    BY <1>10 DEF FailToSpawn, ComeUp, Chatter, Announce, End, Unmanaged
  <2> QED BY <2>1, <2>2, <2>3, Saying, InstanceSteps
<1>11. CASE JobWord
  <2>1. UNCHANGED <<config, managed, shared, commands, stopping, instances>>
    BY <1>11 DEF JobWord, Unmanaged
  <2>2. PICK word \in Words : Says(<<word>>)
    BY <1>11 DEF JobWord, Words
  <2>3. <<word>> \in Seq(Words)
    OBVIOUS
  <2>4. instances \in Seq(Instance)
    BY DEF TypeOK
  <2> QED BY <2>1, <2>2, <2>3, <2>4, Saying, InstanceSteps
<1> QED BY <1>1, <1>2, <1>3, <1>4, <1>5, <1>6, <1>7, <1>8, <1>9, <1>10, <1>11 DEF Next

LEMMA Stutter ==
  ASSUME Inv, UNCHANGED vars
  PROVE  Inv'
BY DEF Inv, vars, TypeOK, HandlesAgree, RestartBudget, PendingHasBudget, Exists

LEMMA Invariance == Spec => []Inv
<1>1. Init => Inv
  BY InitInv
<1>2. Inv /\ [Next]_vars => Inv'
  BY StepInv, Stutter
<1> QED BY <1>1, <1>2, PTL DEF Spec

\* The state of the supervisor is always well-formed, and both maps know the
\* process that was started last or none.
THEOREM SupervisorTypes == Spec => []TypeOK
<1>1. Inv => TypeOK
  BY DEF Inv
<1> QED BY <1>1, Invariance, PTL

\* The server's map has the handle of the daemon's (sync_agent_to_shared), so a
\* chat or a stop reaches the process that the daemon supervises.
THEOREM HandlesAgreeAlways == Spec => []HandlesAgree
<1>1. Inv => HandlesAgree
  BY DEF Inv
<1> QED BY <1>1, Invariance, PTL

\* An agent is restarted on its own max_restarts times at most after a start,
\* whatever its processes and job workers of its name report meanwhile.
THEOREM RestartsStayWithinBudget == Spec => []RestartBudget
<1>1. Inv => RestartBudget
  BY DEF Inv
<1> QED BY <1>1, Invariance, PTL

-----------------------------------------------------------------------------
(* Last words.  As long as no job worker speaks under the agent's name, the*)
(* last to go of all its processes has said so, and nothing comes after it *)
(* in the queue.                                                           *)

AllGone == \A i \in DOMAIN instances : instances[i].phase = "gone"

Counts == [command : Nat, reload : Nat, chatter : Nat, job : Nat]

LastWords ==
  used.job = 0 /\ Exists(managed) /\ AllGone =>
    IF updates = <<>>
    THEN managed.status \in Ends \cup {"RestartPending"}
    ELSE updates[Len(updates)] \in Ends

Closure == used \in Counts /\ LastWords

LEMMA Using ==
  ASSUME used \in Counts, NEW what \in {"command", "reload", "chatter", "job"}, Use(what)
  PROVE  used' \in Counts /\ (used'.job = 0 => used.job = 0 /\ what # "job")
BY DEF Use, Counts

\* A word of its own end that comes last.
LEMMA SayingLast ==
  ASSUME Inv, NEW words \in Seq(Words), words # <<>>, Says(words)
  PROVE  updates' # <<>> /\ updates'[Len(updates')] = words[Len(words)]
<1>1. updates \in Seq(Words) /\ updates' = updates \o words
  BY DEF Says, Inv, TypeOK
<1>2. Len(updates) \in Nat /\ Len(words) \in Nat /\ Len(words) > 0
  BY <1>1, LenProperties, EmptySeq
<1>3. Len(updates') = Len(updates) + Len(words) /\ updates' \in Seq(Words)
  BY <1>1, ConcatProperties
<1>4. \A i \in 1..Len(updates) + Len(words) :
        updates'[i] = IF i <= Len(updates) THEN updates[i] ELSE words[i - Len(updates)]
  BY <1>1, ConcatProperties
<1>5. Len(updates) + Len(words) \in 1..Len(updates) + Len(words)
      /\ ~(Len(updates) + Len(words) <= Len(updates))
      /\ (Len(updates) + Len(words)) - Len(updates) = Len(words)
  BY <1>2
<1>6. updates'[Len(updates')] = words[Len(words)]
  BY <1>3, <1>4, <1>5
<1>7. Len(<<>>) = 0
  OBVIOUS
<1> QED BY <1>2, <1>3, <1>6, <1>7

LEMMA SpawnedLives ==
  ASSUME NEW count, NEW others, others \in Seq(Instance), SpawnInto(count, others)
  PROVE  ~AllGone'
<1> DEFINE new == [phase |-> "starting", told |-> FALSE]
<1>1. instances' = Append(others, new) /\ new.phase = "starting"
  BY DEF SpawnInto
<1>2. new \in Instance
  BY NewInstance
<1> HIDE DEF new
<1>3. /\ Len(others) + 1 \in DOMAIN instances'
      /\ instances'[Len(others) + 1] = new
  BY <1>1, <1>2, AppendProperties, LenProperties
<1> QED BY <1>1, <1>3 DEF AllGone

LEMMA ToldPhases ==
  ASSUME Inv, NEW i
  PROVE  /\ DOMAIN Told(i) = DOMAIN instances
         /\ \A k \in DOMAIN instances : Told(i)[k].phase = instances[k].phase
<1>1. \A k \in DOMAIN instances : instances[k] \in Instance
  BY DEF Inv, TypeOK
<1> QED BY <1>1 DEF Told, Instance

LEMMA ClosureStep ==
  ASSUME Inv, Closure, Next
  PROVE  Closure'
<1>1. instances \in Seq(Instance) /\ updates \in Seq(Words) /\ used \in Counts
  BY DEF Inv, TypeOK, Closure
<1>2. CASE HandleUpdate
  <2>1. UNCHANGED <<instances, used>> /\ updates # <<>> /\ updates' = Tail(updates)
    BY <1>2 DEF HandleUpdate
  <2>2. /\ Len(updates) \in Nat \ {0}
        /\ Len(updates') = Len(updates) - 1
        /\ \A i \in 1..Len(updates') : updates'[i] = updates[i + 1]
        /\ Head(updates) = updates[1]
        /\ updates' \in Seq(Words)
    BY <1>1, <2>1, HeadTailProperties, LenProperties, EmptySeq
  <2>3. Exists(managed') => Exists(managed)
    BY <1>2, Fields DEF HandleUpdate, Exists, Inv
  <2>4. CASE updates' # <<>>
    <3>1. Len(updates') \in 1..Len(updates') /\ Len(updates') + 1 = Len(updates)
      BY <2>2, <2>4, LenProperties, EmptySeq
    <3>2. updates'[Len(updates')] = updates[Len(updates)]
      BY <2>2, <3>1
    <3> QED BY <2>1, <2>3, <2>4, <3>2 DEF Closure, LastWords, AllGone
  <2>5. CASE updates' = <<>>
    <3>1. Len(updates) = 1
      BY <2>2, <2>5
    <3>2. ASSUME Exists(managed), Head(updates) \in Ends
          PROVE  managed'.status \in Ends \cup {"RestartPending"}
      <4>1. managed \in [status : Words \cup {"RestartPending"}, count : Nat,
                         due : BOOLEAN, inst : Nat \ {0}]
        BY <3>2, Fields DEF Inv
      <4> QED BY <1>2, <3>2, <4>1 DEF HandleUpdate
    <3> QED BY <2>1, <2>2, <2>3, <2>5, <3>1, <3>2 DEF Closure, LastWords, AllGone
  <2> QED BY <2>4, <2>5
<1>3. CASE BackoffPasses
  <2>1. /\ UNCHANGED <<instances, used, updates>>
        /\ Exists(managed) /\ managed' = [managed EXCEPT !.due = TRUE]
    BY <1>3 DEF BackoffPasses
  <2>2. managed'.status = managed.status
    BY <2>1, Fields DEF Inv
  <2> QED BY <2>1, <2>2 DEF Closure, LastWords, AllGone
<1>4. CASE RestartDue
  <2>1. ~AllGone' /\ UNCHANGED used
    BY <1>1, <1>4, SpawnedLives DEF RestartDue
  <2> QED BY <2>1 DEF Closure, LastWords
<1>5. CASE HandleStart
  <2>1. UNCHANGED <<used, updates>>
    BY <1>5 DEF HandleStart
  <2>2. UNCHANGED <<managed, instances>> \/ managed' = None \/ SpawnInto(0, instances)
    BY <1>5 DEF HandleStart
  <2> QED BY <1>1, <2>1, <2>2, SpawnedLives DEF Closure, LastWords, AllGone, Exists, None
<1>6. CASE HandleRestart
  <2>1. UNCHANGED <<used, updates>>
    BY <1>6 DEF HandleRestart
  <2>2. managed' = None \/ SpawnInto(0, Told(managed.inst))
    BY <1>6 DEF HandleRestart
  <2>3. Told(managed.inst) \in Seq(Instance)
    BY Instances DEF Phases
  <2> QED BY <2>1, <2>2, <2>3, SpawnedLives DEF Closure, LastWords, Exists, None
<1>7. CASE Reload
  <2>1. used' \in Counts /\ (used'.job = 0 => used.job = 0) /\ UNCHANGED updates
    BY <1>1, <1>7, Using DEF Reload
  <2>2. UNCHANGED <<managed, instances>> \/ managed' = None \/ SpawnInto(0, instances)
    BY <1>7 DEF Reload
  <2> QED BY <1>1, <2>1, <2>2, SpawnedLives DEF Closure, LastWords, AllGone, Exists, None
<1>8. CASE PostStart \/ PostRestart
  <2>1. used' \in Counts /\ (used'.job = 0 => used.job = 0)
    BY <1>1, <1>8, Using DEF PostStart, PostRestart
  <2>2. UNCHANGED <<updates, managed, instances>>
    BY <1>8 DEF PostStart, PostRestart
  <2> QED BY <2>1, <2>2 DEF Closure, LastWords, AllGone
<1>9. CASE PostStop
  <2>1. used' \in Counts /\ (used'.job = 0 => used.job = 0)
    BY <1>1, <1>9, Using DEF PostStop
  <2>2. UNCHANGED <<updates, managed>> /\ instances' = Told(shared.inst)
    BY <1>9 DEF PostStop
  <2>3. AllGone' => AllGone
    BY <2>2, ToldPhases DEF AllGone
  <2> QED BY <2>1, <2>2, <2>3 DEF Closure, LastWords
<1>10. CASE MarkStopped
  <2>1. UNCHANGED <<used, updates, managed, instances>>
    BY <1>10 DEF MarkStopped
  <2> QED BY <2>1 DEF Closure, LastWords, AllGone
<1>11. ASSUME NEW i \in DOMAIN instances, FailToSpawn(i) \/ End(i)
       PROVE  Closure'
  <2>1. PICK words \in {<<"Error">>, <<"Error", "Stopped">>, <<"Stopped">>} : Says(words)
    BY <1>11 DEF FailToSpawn, End
  <2>2. words \in Seq(Words) /\ words # <<>> /\ words[Len(words)] \in Ends
    <3>1. CASE words \in {<<"Error">>, <<"Stopped">>}
      BY <3>1 DEF Words, Ends
    <3>2. CASE words = <<"Error", "Stopped">>
      BY <3>2 DEF Words, Ends
    <3> QED BY <3>1, <3>2
  <2>3. updates' # <<>> /\ updates'[Len(updates')] \in Ends
    BY <2>1, <2>2, SayingLast
  <2>4. UNCHANGED used
    BY <1>11 DEF FailToSpawn, End
  <2> QED BY <2>3, <2>4 DEF Closure, LastWords
<1>12. ASSUME NEW i \in DOMAIN instances, ComeUp(i) \/ Chatter(i) \/ Announce(i)
       PROVE  Closure'
  <2>1. used' \in Counts /\ (used'.job = 0 => used.job = 0)
    BY <1>1, <1>12, Using DEF ComeUp, Chatter, Announce
  <2>2. ~AllGone'
    <3>1. i \in DOMAIN instances' /\ instances'[i].phase # "gone"
      <4>1. instances[i] \in Instance
        BY <1>1
      <4>2. \/ UNCHANGED instances /\ instances[i].phase = "up"
            \/ Enters(i, "up") \/ Enters(i, "ending")
        BY <1>12 DEF ComeUp, Chatter, Announce
      <4> QED BY <4>1, <4>2 DEF Enters, Instance
    <3> QED BY <3>1 DEF AllGone
  <2> QED BY <2>1, <2>2 DEF Closure, LastWords
<1>13. CASE JobWord
  <2>1. used' \in Counts /\ used'.job # 0
    BY <1>1, <1>13, Using DEF JobWord
  <2> QED BY <2>1 DEF Closure, LastWords
<1> QED BY <1>2, <1>3, <1>4, <1>5, <1>6, <1>7, <1>8, <1>9, <1>10, <1>11, <1>12, <1>13 DEF Next

LEMMA ClosureInvariance == Spec => []Closure
<1>1. Init => Closure
  <2> SUFFICES ASSUME Init PROVE Closure
    OBVIOUS
  <2>1. used \in Counts
    BY DEF Init, Counts
  <2>2. CASE config = "auto"
    <3>1. 1 \in DOMAIN instances /\ instances[1].phase = "starting"
      BY <2>2 DEF Init
    <3> QED BY <2>1, <3>1 DEF Closure, LastWords, AllGone
  <2>3. CASE config # "auto"
    BY <2>1, <2>3 DEF Init, Closure, LastWords, Exists, None
  <2> QED BY <2>2, <2>3
<1>2. Inv /\ Closure /\ [Next]_vars => Closure'
  BY ClosureStep DEF Closure, LastWords, AllGone, vars
<1> QED BY <1>1, <1>2, Invariance, PTL DEF Spec

\* An agent whose process is gone is listed as ended or about to be restarted as
\* soon as its words are handled, unless another of its processes still lives
\* or a job worker has spoken under its name (the state updates of daemon.rs).
THEOREM NoDeathIsSilent == Spec => []NoSilentDeath
<1>1. Inv /\ Closure => NoSilentDeath
  <2> SUFFICES ASSUME Inv, Closure, Dead, updates = <<>>, NoStrangers, ~AllGone
               PROVE  \E i \in DOMAIN instances : i < managed.inst /\ instances[i].phase # "gone"
    BY DEF NoSilentDeath, Closure, LastWords, NoStrangers, Dead
  <2>1. PICK i \in DOMAIN instances : instances[i].phase # "gone"
    BY DEF AllGone
  <2>2. managed.inst = Len(instances) /\ i \in 1..Len(instances)
    BY <2>1, LenProperties DEF Inv, TypeOK, Dead, Exists
  <2>3. i # managed.inst
    BY <2>1 DEF Dead
  <2> QED BY <2>1, <2>2, <2>3
<1> QED BY <1>1, Invariance, ClosureInvariance, PTL
=============================================================================
