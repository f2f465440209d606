------------------------------ MODULE Channels ------------------------------
(***************************************************************************)
(* Channels between the jobs of a run: the channel methods of              *)
(* OrchestratorEngine (src/orchestrator/engine.rs), the daemon's handlers  *)
(* around them (src/daemon.rs), and the workers that answer the routed     *)
(* messages through their bridges (src/agent.rs).                          *)
(*                                                                         *)
(* With isolation "none" a participant of a channel is never told to       *)
(* execute its job.  It gets a setup prompt, then a chat message whenever  *)
(* it is its turn, and the daemon completes it when the last of its        *)
(* channels closes.  With any other isolation every job runs in a capsule  *)
(* (src/capsule.rs), which executes it and ignores all messages, so that a *)
(* participant completes when its job does and nothing is discussed.       *)
(*                                                                         *)
(* The module follows one run from the moment its plan is materialised;    *)
(* the jobs of the plan are workers, so that the planner and reviewer      *)
(* branches of job_completed do not apply, and all of them have a profile. *)
(* The configuration is not edited while the run goes on.                  *)
(***************************************************************************)
EXTENDS Engine

CONSTANTS
  ChannelPlans,   \* plans: [jobs |-> a plan of module Engine, channels |-> ...]
  Sandboxes,      \* what sandbox_requested may say: TRUE unless isolation is "none"
  IdleTimeouts,   \* TRUE: a participant may wait for its turn for 120 s or more
  MaxCrashes,     \* bound: workers that die without a word
  MaxErrors       \* bound: LLM calls that fail

Modes == {"TurnBased", "Stream"}
Policies == {"KillAll", "Continue"}
NoLimit == 0      \* max_rounds is None; plans of zero rounds are left out

PlannedChannel ==
  [members : Seq(Nat), mode : Modes, limit : Nat, policy : Policies, initial : BOOLEAN]

ASSUME ChannelAssumption ==
  /\ \A p \in ChannelPlans :
       /\ p \in [jobs : Seq([role : {"worker"}, profile : Profiles, deps : Seq(Nat)]),
                 channels : Seq(PlannedChannel)]
       /\ ValidPlan(p.jobs)
       /\ \A i \in DOMAIN p.channels :
            /\ Entries(p.channels[i].members) \subseteq DOMAIN p.jobs
            /\ Len(p.channels[i].members) >=
                 IF p.channels[i].mode = "TurnBased" THEN 2 ELSE 1
  /\ Sandboxes \subseteq BOOLEAN
  /\ IdleTimeouts \in BOOLEAN
  /\ {MaxCrashes, MaxErrors} \subseteq Nat

VARIABLES
  eng,       \* the OrchestratorEngine
  managed,   \* job ids with a "__job_<id>" entry in the daemon's managed map
  inbox,     \* live worker <<job, attempt>> -> commands it has not answered
  chans,     \* the channels of the run
  events,    \* the orchestrator event queue: [type, job, channel]
  stale,     \* rest of the poll tick's list of stale jobs, as <<job, attempt>>
  sandbox,   \* what sandbox_requested says
  faults     \* crashes and failed LLM calls so far

vars == <<eng, managed, inbox, chans, events, stale, sandbox, faults>>

Setup == [cmd |-> "setup", channel |-> 0]
Execute == [cmd |-> "execute", channel |-> 0]
Notice == [cmd |-> "notice", channel |-> 0]
Message(i) == [cmd |-> "message", channel |-> i]

Event(type, j, i) == [type |-> type, job |-> j, channel |-> i]

-----------------------------------------------------------------------------
(* What a handler works on: d = [eng, managed, inbox, chans].              *)

Daemon == [eng |-> eng, managed |-> managed, inbox |-> inbox, chans |-> chans]

\* The worker whose handle the daemon holds for job j.
Current(d, j) == <<j, d.eng.jobs[j].attempt>>

Linked(d, w) == w[1] \in d.managed /\ w = Current(d, w[1])

\* The places in K that are the job's of worker w, if what is sent there reaches w.
Heard(d, members, K, w) == {k \in K : ~sandbox /\ Linked(d, w) /\ members[k] = w[1]}

\* A command sent to the participants at the places K, once for each place.  It is
\* lost where the worker is dead, and a capsule ignores it.
Send(d, members, K, command) ==
  [d EXCEPT !.inbox = [w \in DOMAIN d.inbox |->
                         d.inbox[w] \o [k \in 1..Cardinality(Heard(d, members, K, w)) |-> command]]]

ChannelsOf(c, j) == {i \in DOMAIN c : j \in Entries(c[i].members)}
Others(channel, j) == Entries(channel.members) \ {j}
OtherPlaces(channel, j) == {k \in DOMAIN channel.members : channel.members[k] # j}
Closed(channel) == [channel EXCEPT !.active = FALSE, !.closed = TRUE]

-----------------------------------------------------------------------------
(* The end of every handler: the spawn loop, then activate_channels.       *)

Launch(d, n) ==
  LET fresh == UNION {{<<j, d.eng.jobs[j].attempt + k>> : k \in 1..TimesPopped(d.eng, n, j)} :
                        j \in Popped(d.eng, n)}
  IN  [d EXCEPT
        !.eng = StartPopped(@, n),
        !.managed = @ \cup Popped(d.eng, n),
        !.inbox = [w \in DOMAIN d.inbox \cup fresh |->
                     IF w \in DOMAIN d.inbox THEN d.inbox[w]
                     ELSE IF ~sandbox /\ ChannelsOf(d.chans, w[1]) # {} THEN <<Setup>>
                     ELSE <<Execute>>]]

\* Faulty: a channel that is open already is opened again.
AnyActivatable(d) ==
  {i \in DOMAIN d.chans :
     /\ ~d.chans[i].closed
     /\ \A j \in Entries(d.chans[i].members) : d.eng.jobs[j].status = "Running"}

Activatable(d) ==
  {i \in DOMAIN d.chans :
     /\ ~d.chans[i].active /\ ~d.chans[i].closed
     /\ \A j \in Entries(d.chans[i].members) : d.eng.jobs[j].status = "Running"}

\* A channel is opened and its initial message goes to its first participant.
\* A channel has no history before it is opened.
Open(d, i) ==
  Send([d EXCEPT !.chans[i].active = TRUE], d.chans[i].members,
       IF d.chans[i].initial THEN {1} ELSE {}, Message(i))

\* d with the first k channels of `order' opened.
Opened(d, order) ==
  LET after[k \in 0..Len(order)] ==
        IF k = 0 THEN d ELSE Open(after[k - 1], order[k])
  IN  after

Activate(d, order) == Opened(d, order)[Len(order)]

Dispatch(d) ==
  \E n \in 0..Len(d.eng.queue) :
    /\ PopsExactly(d.eng, n)
    /\ \E order \in Orderings(Activatable(Launch(d, n))) :
         LET left == Activate(Launch(d, n), order)
         IN  /\ eng' = left.eng
             /\ managed' = left.managed
             /\ inbox' = left.inbox
             /\ chans' = left.chans

-----------------------------------------------------------------------------
(* The engine's channel methods.                                           *)

\* route_channel_message answers NoOp unless the channel is open and, in a
\* turn-based one, the sender is the current speaker.
Accepts(channel, j) ==
  /\ channel.active
  /\ channel.mode = "TurnBased" => channel.members[channel.speaker] = j

\* Faulty: the rounds are not counted.
RoundsUncounted(channel) ==
  [channel EXCEPT !.speaker = (@ % Len(channel.members)) + 1]

NextTurn(channel) ==
  LET next == (channel.speaker % Len(channel.members)) + 1
  IN  [channel EXCEPT !.speaker = next, !.round = IF next = 1 THEN @ + 1 ELSE @]

LimitReached(channel) == channel.limit # NoLimit /\ channel.round >= channel.limit

\* The places a message of participant j goes to, once the turn was passed on.
Addressees(channel, j) ==
  IF channel.mode = "TurnBased" THEN {channel.speaker} ELSE OtherPlaces(channel, j)

\* Faulty: other channels of a participant are not looked at.
FinishesAnyway(d, i, j) == d.eng.jobs[j].status = "Running"

\* The participants complete_closed_channel_participants completes.
Finishes(d, i, j) ==
  /\ d.eng.jobs[j].status = "Running"
  /\ \A k \in ChannelsOf(d.chans, j) \ {i} : d.chans[k].closed

\* It asks each of them for a final answer, waiting up to 45 s, stops its
\* worker and completes its job, whatever came of the question.
CompleteOne(d, j) ==
  {[d EXCEPT !.managed = @ \ {j}, !.eng = MarkCompleted(@, j, order)] :
     order \in Orderings(PromotedBy(d.eng, j))}

\* The states participant j of channel i may leave behind in one of S.
CompleteNext(S, i, j) ==
  UNION {IF Finishes(d, i, j) THEN CompleteOne(d, j) ELSE {d} : d \in S}

\* What the first k participants of channel i may leave behind, from a state of S.
Completions(S, i, members) ==
  LET after[k \in 0..Len(members)] ==
        IF k = 0 THEN S ELSE CompleteNext(after[k - 1], i, members[k])
  IN  after

CompleteAll(d, i) ==
  LET members == d.chans[i].members
  IN  Completions({d}, i, members)[Len(members)]

-----------------------------------------------------------------------------
(* handle_channel_peer_failures for job j, which failed: every open        *)
(* channel of it is closed, in HashMap order.                              *)

FailPeer(s, j, p) == IF p = j THEN s ELSE MarkFailed(s, p)

\* The engine after mark_failed of the peers of j among the first k participants.
PeersFailed(s, members, j) ==
  LET after[k \in 0..Len(members)] ==
        IF k = 0 THEN s ELSE FailPeer(after[k - 1], j, members[k])
  IN  after

\* Faulty: the peers' jobs are written without mark_failed.
KillOutright(d, i, j) ==
  [d EXCEPT !.managed = @ \ Others(d.chans[i], j),
            !.eng.jobs = SetStatus(@, Others(d.chans[i], j), "Failed")]

Kill(d, i, j) ==
  LET members == d.chans[i].members
  IN  [d EXCEPT !.managed = @ \ Others(d.chans[i], j),
                !.eng = PeersFailed(@, members, j)[Len(members)]]

PeerFailure(d, i, j) ==
  LET closed == [d EXCEPT !.chans[i] = Closed(@)]
  IN  IF d.chans[i].policy = "KillAll" THEN Kill(closed, i, j)
      ELSE Send(closed, d.chans[i].members, OtherPlaces(d.chans[i], j), Notice)

\* d after j has failed its peers in the first k channels of `order'.
PeerFailures(d, j, order) ==
  LET after[k \in 0..Len(order)] ==
        IF k = 0 THEN d ELSE PeerFailure(after[k - 1], order[k], j)
  IN  after

OpenChannelsOf(c, j) == {i \in ChannelsOf(c, j) : c[i].active}

\* The end of a job: forget its worker, deal with its peers, mark_failed.
FailJob(d, j) ==
  {LET after == PeerFailures([d EXCEPT !.managed = @ \ {j}], j, order)[Len(order)]
   IN  [after EXCEPT !.eng = MarkFailed(@, j)] :
     order \in Orderings(OpenChannelsOf(d.chans, j))}

-----------------------------------------------------------------------------
(* The run's start: submit_run has started its planner.                    *)

Init ==
  /\ eng = StartPopped(Submit(EmptyEngine), 1)
  /\ managed = {1}
  /\ inbox = [w \in {<<1, 1>>} |-> <<Execute>>]
  /\ chans = <<>>
  /\ events = <<>>
  /\ stale = {}
  /\ sandbox \in Sandboxes
  /\ faults = [crash |-> 0, error |-> 0]

Selecting == stale = {}

Receives(type) == Selecting /\ events # <<>> /\ Head(events).type = type

\* The channels of a plan, with the ids its jobs will get.
MaterializedChannels(s, planned) ==
  [i \in DOMAIN planned |->
    [members |-> [k \in DOMAIN planned[i].members |-> s.nextJob + planned[i].members[k] - 1],
     mode |-> planned[i].mode, limit |-> planned[i].limit, policy |-> planned[i].policy,
     initial |-> planned[i].initial, round |-> 0, speaker |-> 1,
     active |-> FALSE, closed |-> FALSE]]

Materialized(d, plan) ==
  {[d EXCEPT !.eng = MaterializePlan(@, 1, plan.jobs, roots),
             !.chans = @ \o MaterializedChannels(d.eng, plan.channels)] :
     roots \in Listings(PlanRoots(d.eng, plan.jobs))}

HandleCompleted ==
  /\ Receives("completed")
  /\ LET j == Head(events).job IN
     \E d \in CompleteOne(Daemon, j) :
       IF eng.jobs[j].role = "planner"
       THEN \E plan \in ChannelPlans : \E m \in Materialized(d, plan) : Dispatch(m)
       ELSE Dispatch(d)
  /\ events' = Tail(events)
  /\ UNCHANGED <<stale, sandbox, faults>>

HandleFailed ==
  /\ Receives("failed")
  /\ \E d \in FailJob(Daemon, Head(events).job) : Dispatch(d)
  /\ events' = Tail(events)
  /\ UNCHANGED <<stale, sandbox, faults>>

\* channel_message: routed, or the last one of its channel, or ignored.
HandleMessage ==
  /\ Receives("message")
  /\ LET j == Head(events).job
         i == Head(events).channel
         next == NextTurn(chans[i])
     IN  \/ /\ ~Accepts(chans[i], j)
            /\ Dispatch(Daemon)
         \/ /\ Accepts(chans[i], j) /\ ~LimitReached(next)
            /\ Dispatch(Send([Daemon EXCEPT !.chans[i] = next], next.members,
                                Addressees(next, j), Message(i)))
         \/ /\ Accepts(chans[i], j) /\ LimitReached(next)
            /\ LET d == [Daemon EXCEPT !.chans[i] = Closed(next)]
               IN  \E e \in CompleteAll(d, i) : Dispatch(e)
  /\ events' = Tail(events)
  /\ UNCHANGED <<stale, sandbox, faults>>

-----------------------------------------------------------------------------
(* The poll tick.  A worker sends heartbeats only while it answers, so a   *)
(* job whose worker is dead or has nothing to answer falls silent.  That   *)
(* an event waits in the queue for 120 s is left out.                      *)

Silent(j) ==
  /\ Current(Daemon, j) \in DOMAIN inbox => inbox[Current(Daemon, j)] = <<>>
  /\ \A k \in DOMAIN events : events[k].job # j

Lost(j) == Current(Daemon, j) \notin DOMAIN inbox

\* How many messages of channel i are being answered or on their way back.
UnderWay(i) ==
  Cardinality(UNION {{<<w, k>> : k \in {n \in DOMAIN inbox[w] : inbox[w][n] = Message(i)}} :
                       w \in DOMAIN inbox})
  + Cardinality({k \in DOMAIN events : events[k].type = "message" /\ events[k].channel = i})

\* Job j may yet be spoken to: a channel of it is going to open, or in use.
WaitsItsTurn(j) ==
  \E i \in ChannelsOf(chans, j) :
    ~chans[i].closed /\ (chans[i].active => UnderWay(i) > 0)

\* The status in the managed entry of a job, set to Running when the worker is
\* spawned.  State updates look up the name the bridge was given, which is the
\* profile's and never "__job_<id>", so that none of them reaches the entry.
EntryStatus(j) == "Running"

\* The refresh of heartbeats that goes before the scan.
Refreshed(j) ==
  /\ j \in managed
  /\ EntryStatus(j) = "Idle"
  /\ \E i \in ChannelsOf(chans, j) : ~chans[i].closed

CheckHeartbeats(late) ==
  /\ Selecting
  /\ late # {}
  /\ late \subseteq eng.active
  /\ \A j \in late : Silent(j) /\ ~Refreshed(j)
                       /\ (WaitsItsTurn(j) /\ ~Lost(j) => IdleTimeouts)
  /\ stale' = {Current(Daemon, j) : j \in late}
  /\ UNCHANGED <<eng, managed, inbox, chans, events, sandbox, faults>>

\* Faulty: the worker is stopped but its job is not failed.
ExpireWorkerOnly(w) ==
  /\ w \in stale
  /\ stale' = stale \ {w}
  /\ managed' = managed \ {w[1]}
  /\ UNCHANGED <<eng, inbox, chans, events, sandbox, faults>>

\* One round of the loop over the list, which holds job ids: the attempt only
\* says which worker was stale when the list was made.
ExpireJob(w) ==
  /\ w \in stale
  /\ stale' = stale \ {w}
  /\ \E d \in FailJob(Daemon, w[1]) : Dispatch(d)
  /\ UNCHANGED <<events, sandbox, faults>>

-----------------------------------------------------------------------------
(* Workers and their bridges.                                              *)

\* What the bridge makes of the answer: the answer to a setup prompt or a
\* notice has nobody waiting for it and is dropped.
Report(w, command, ok) ==
  CASE command.cmd = "execute" ->
         <<Event(IF ok THEN "completed" ELSE "failed", w[1], 0)>>
    [] command.cmd = "message" ->
         <<Event(IF ok THEN "message" ELSE "failed", w[1], command.channel)>>
    [] OTHER -> <<>>

Answer(w, ok) ==
  /\ w \in DOMAIN inbox
  /\ inbox[w] # <<>>
  /\ faults' = IF ok THEN faults ELSE [faults EXCEPT !.error = @ + 1]
  /\ faults'.error <= MaxErrors
  /\ inbox' = [inbox EXCEPT ![w] = Tail(@)]
  /\ events' = events \o Report(w, Head(inbox[w]), ok)
  /\ UNCHANGED <<eng, managed, chans, stale, sandbox>>

Gone(w) == inbox' = [v \in DOMAIN inbox \ {w} |-> inbox[v]]

\* A capsule does not die without a word: the end of its pipe is reported as the
\* failure of its job, which is Answer.
WorkerCrash(w) ==
  /\ ~sandbox
  /\ w \in DOMAIN inbox
  /\ Linked(Daemon, w)
  /\ faults.crash < MaxCrashes
  /\ faults' = [faults EXCEPT !.crash = @ + 1]
  /\ Gone(w)
  /\ UNCHANGED <<eng, managed, chans, events, stale, sandbox>>

\* The handle was dropped; answers may still slip out before the bridge ends.
BridgeClose(w) ==
  /\ w \in DOMAIN inbox
  /\ ~Linked(Daemon, w)
  /\ Gone(w)
  /\ UNCHANGED <<eng, managed, chans, events, stale, sandbox, faults>>

-----------------------------------------------------------------------------

Next ==
  \/ HandleCompleted
  \/ HandleFailed
  \/ HandleMessage
  \/ \E late \in SUBSET eng.active : CheckHeartbeats(late)
  \/ \E w \in stale : ExpireJob(w)
  \/ \E w \in DOMAIN inbox :
       \/ \E ok \in BOOLEAN : Answer(w, ok)
       \/ WorkerCrash(w)
       \/ BridgeClose(w)

Spec == Init /\ [][Next]_vars

MaxJobs == 1 + CHOOSE n \in {Len(p.jobs) : p \in ChannelPlans} :
                 \A p \in ChannelPlans : Len(p.jobs) <= n
JobIds == 1..MaxJobs

\* As in Orchestrator: the select loop keeps receiving, the poll tick gets to
\* the end of its list and finds every job that stays silent, a worker whose
\* handle is held answers, the bridge of another one ends.
Fairness ==
  /\ WF_vars(HandleCompleted \/ HandleFailed \/ HandleMessage)
  /\ WF_vars(\E w \in stale : ExpireJob(w))
  /\ WF_vars(\E w \in DOMAIN inbox : BridgeClose(w))
  /\ \A j \in JobIds :
       /\ WF_vars(\E w \in DOMAIN inbox : /\ w[1] = j /\ Linked(Daemon, w)
                                          /\ \E ok \in BOOLEAN : Answer(w, ok))
       /\ WF_vars(CheckHeartbeats({j}))

FairSpec == Spec /\ Fairness

-----------------------------------------------------------------------------
(* Properties.                                                             *)

\* Whatever peers do to each other, every job is Running exactly while it holds
\* a slot, the slots are bounded and no Ready job is forgotten, although one
\* failure may send several jobs, or one job twice, through mark_failed.
EngineConsistent ==
  /\ EngineType(eng)
  /\ RunningHoldSlots(eng)
  /\ ReadyAreQueued(eng)
  /\ Cardinality(eng.active) <= MaxConcurrency

\* In an open turn-based channel there is at most one message under way, so the
\* order in which answers arrive cannot matter and no turn is taken twice.
OneVoice ==
  \A i \in DOMAIN chans :
    chans[i].active /\ chans[i].mode = "TurnBased" => UnderWay(i) <= 1

\* With isolation "none", a participant completes only when the last of its
\* channels has closed, in whichever order they close.  (A participant in a capsule
\* completes with its channels open.)
ChannelsBeforeCompletion ==
  ~sandbox =>
    \A i \in DOMAIN chans : \A j \in Entries(chans[i].members) :
      eng.jobs[j].status = "Completed" => chans[i].closed

\* A run with channels comes to rest, through failing peers, closed channels and
\* participants that nobody talks to any more.
RunSettles ==
  <>[](\A j \in DOMAIN eng.jobs : eng.jobs[j].status \notin {"Ready", "Running"})

\* With isolation "none", if no worker dies, no call fails and nobody is kept
\* waiting too long, every discussion ends at its limit and everybody completes,
\* jobs that wait for a participant included.  (With capsules no discussion takes
\* place: the jobs complete and the channels stay open.)
DiscussionsEnd ==
  ~sandbox /\ [](faults = [crash |-> 0, error |-> 0] /\ ~IdleTimeouts) =>
    <>[](/\ chans # <<>>
         /\ \A i \in DOMAIN chans : chans[i].closed
         /\ \A j \in DOMAIN eng.jobs : eng.jobs[j].status = "Completed")
=============================================================================
