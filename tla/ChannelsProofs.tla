--------------------------- MODULE ChannelsProofs ---------------------------
(***************************************************************************)
(* Proofs about module Channels, for every value of its constants: any     *)
(* plans with channels, any number of slots, attempts and faults, with     *)
(* isolation "none" or with capsules.                                      *)
(*                                                                         *)
(* DaemonOK is the part of the inductive invariant that every step of a    *)
(* handler keeps.  Each operation on what a handler works on has a lemma   *)
(* of its own; the loops (Opened, PeersFailed, PeerFailures, Completions)  *)
(* are recursive functions, whose equations are derived by induction on    *)
(* the number of rounds (FromZero) and then carry DaemonOK from round to   *)
(* round, again by FromZero.                                               *)
(***************************************************************************)
EXTENDS Channels, EngineProofs, WellFoundedInduction

-----------------------------------------------------------------------------
(* Induction and sequences.                                                *)

\* What holds of 0 and passes from each number to the next one holds up to n.
LEMMA FromZero ==
  ASSUME NEW n \in Nat, NEW T, 0 \in T, \A k \in 1..n : k - 1 \in T => k \in T
  PROVE  \A k \in 0..n : k \in T
<1> DEFINE Bad == {k \in 0..n : k \notin T}
<1>1. SUFFICES ASSUME Bad # {} PROVE FALSE
  OBVIOUS
<1>2. Bad \subseteq Nat
  BY SMT
<1>3. PICK k \in Bad : \A m \in Bad : ~(m < k)
  <2> HIDE DEF Bad
  <2>1. PICK k \in Bad : \A m \in Bad : ~(<<m, k>> \in OpToRel(<, Nat))
    BY <1>1, <1>2, NatLessThanWellFounded, WFMin, Zenon
  <2>2. \A m \in Bad : ~(m < k)
    BY <1>2, <2>1 DEF OpToRel
  <2> QED BY <2>2
<1>4. k \in 1..n
  OBVIOUS
<1>5. k - 1 \in Bad
  BY <1>4
<1> QED BY <1>3, <1>4, <1>5

LEMMA PlacesOfTail ==
  ASSUME NEW S, NEW q \in Seq(S), q # <<>>
  PROVE  /\ Tail(q) \in Seq(S)
         /\ Head(q) = q[1] /\ Head(q) \in S /\ 1 \in DOMAIN q
         /\ \A k \in DOMAIN Tail(q) : /\ k \in Nat \ {0}
                                      /\ k + 1 \in DOMAIN q
                                      /\ Tail(q)[k] = q[k + 1]
<1>1. /\ Tail(q) \in Seq(S) /\ Head(q) = q[1] /\ Head(q) \in S
      /\ Len(Tail(q)) = Len(q) - 1
      /\ \A k \in 1..Len(Tail(q)) : Tail(q)[k] = q[k + 1]
  BY HeadTailProperties
<1>2. /\ Len(q) \in Nat /\ DOMAIN q = 1..Len(q) /\ Len(q) # 0
      /\ DOMAIN Tail(q) = 1..Len(Tail(q))
  BY <1>1, LenProperties, EmptySeq
<1> QED BY <1>1, <1>2

\* A set without two different elements has at most one.
LEMMA AtMostOne ==
  ASSUME NEW S, \A x, y \in S : x = y
  PROVE  Cardinality(S) \in 0..1 /\ (S # {} => Cardinality(S) = 1)
<1>1. CASE S = {}
  BY <1>1, FS_EmptySet
<1>2. CASE S # {}
  <2>1. PICK x : S = {x}
    BY <1>2
  <2> QED BY <2>1, FS_Singleton
<1> QED BY <1>1, <1>2

LEMMA FinitePlaces ==
  ASSUME NEW S, NEW q \in Seq(S)
  PROVE  IsFiniteSet(DOMAIN q)
BY LenProperties, FS_Interval

\* A sequence with one element changed.
LEMMA ChangedEntry ==
  ASSUME NEW S, NEW q \in Seq(S), NEW i \in DOMAIN q, NEW x \in S
  PROVE  /\ [q EXCEPT ![i] = x] \in Seq(S)
         /\ DOMAIN [q EXCEPT ![i] = x] = DOMAIN q
<1>1. Len(q) \in Nat /\ q \in [1..Len(q) -> S] /\ DOMAIN q = 1..Len(q)
  BY LenProperties
<1>2. [q EXCEPT ![i] = x] \in [1..Len(q) -> S]
  BY <1>1
<1>3. [q EXCEPT ![i] = x] \in Seq(S)
  BY <1>1, <1>2, IsASeq
<1> QED BY <1>1, <1>2, <1>3

-----------------------------------------------------------------------------
(* The invariant.                                                          *)

\* Channels between jobs of J.
ChannelType(J) ==
  [members : Seq(J), mode : Modes, limit : Nat, policy : Policies, initial : BOOLEAN,
   round : Nat, speaker : Nat, active : BOOLEAN, closed : BOOLEAN]

\* A channel between jobs of the store.
ChannelOK(c, jobs) ==
  /\ c \in ChannelType(DOMAIN jobs)
  /\ c.members # <<>>
  /\ c.speaker \in DOMAIN c.members
  /\ c.active => ~c.closed
  /\ ~sandbox => \A j \in Entries(c.members) : jobs[j].status = "Completed" => c.closed

ChannelsOK(c, jobs) ==
  /\ c \in Seq(ChannelType(DOMAIN jobs))
  /\ \A i \in DOMAIN c : ChannelOK(c[i], jobs)

\* Job j is executed: it runs in a capsule or takes part in no channel.
Executed(c, j) == ~sandbox => ChannelsOf(c, j) = {}

\* What a worker of job j may be asked.
Commands(c, j) ==
  {Setup, Notice} \cup {Message(i) : i \in DOMAIN c} \cup {x \in {Execute} : Executed(c, j)}

InboxOK(box, c, J) ==
  /\ box = [w \in DOMAIN box |-> box[w]]
  /\ DOMAIN box \subseteq J \X Nat
  /\ \A w \in DOMAIN box : box[w] \in Seq(Commands(c, w[1]))

\* What the workers of the jobs J may report.
Failures(c, J) == {Event("failed", j, i) : j \in J, i \in {0} \cup DOMAIN c}
Replies(c, J) == {Event("message", j, i) : j \in J, i \in DOMAIN c}
Reports(c, J) ==
  Failures(c, J) \cup Replies(c, J)
  \cup {Event("completed", j, 0) : j \in {k \in J : Executed(c, k)}}

\* The places of messages of channel i in an inbox and in the event queue.
Spoken(q, i) == {k \in DOMAIN q : q[k] = Message(i)}
Said(ev, i) == {k \in DOMAIN ev : ev[k].type = "message" /\ ev[k].channel = i}

\* Nothing, or one thing at most, is under way in channel i.
Quiet(box, ev, i) ==
  /\ \A w \in DOMAIN box : Spoken(box[w], i) = {}
  /\ Said(ev, i) = {}

Single(box, ev, i) ==
  /\ \A w, v \in DOMAIN box : \A k \in Spoken(box[w], i) : \A l \in Spoken(box[v], i) :
       w = v /\ k = l
  /\ \A k, l \in Said(ev, i) : k = l
  /\ (\E w \in DOMAIN box : Spoken(box[w], i) # {}) => Said(ev, i) = {}

\* A channel that was not opened yet is quiet, and turns are not taken twice.
Voices(box, ev, c) ==
  \A i \in DOMAIN c :
    /\ ~c[i].active /\ ~c[i].closed => Quiet(box, ev, i)
    /\ c[i].mode = "TurnBased" => Single(box, ev, i)

\* What a handler works on is a record of these fields.
IsDaemon(d) ==
  d = [eng |-> d.eng, managed |-> d.managed, inbox |-> d.inbox, chans |-> d.chans]

\* The part of the inductive invariant that a handler keeps, ev being the events
\* it leaves in the queue.
DaemonOK(d, ev) ==
  /\ IsDaemon(d)
  /\ EngineOK(d.eng)
  /\ 1 \in DOMAIN d.eng.runs
  /\ ChannelsOK(d.chans, d.eng.jobs)
  /\ InboxOK(d.inbox, d.chans, DOMAIN d.eng.jobs)
  /\ ev \in Seq(Reports(d.chans, DOMAIN d.eng.jobs))
  /\ Voices(d.inbox, ev, d.chans)

IInv ==
  /\ DaemonOK(Daemon, events)
  /\ stale \subseteq (DOMAIN eng.jobs) \X Nat

-----------------------------------------------------------------------------
(* Messages under way.                                                     *)

\* q and then x, n times.
Told(q, n, x) == q \o [k \in 1..n |-> x]

\* t is q and then x, n times.
Prolongs(t, q, n, x) ==
  /\ Len(q) \in Nat /\ DOMAIN q = 1..Len(q) /\ DOMAIN t = 1..Len(q) + n
  /\ \A k \in 1..Len(q) : t[k] = q[k]
  /\ \A k \in Len(q) + 1 .. Len(q) + n : t[k] = x

LEMMA PlacesOfTold ==
  ASSUME NEW S, NEW q \in Seq(S), NEW x \in S, NEW n \in Nat
  PROVE  Told(q, n, x) \in Seq(S) /\ Prolongs(Told(q, n, x), q, n, x)
<1> DEFINE r == [k \in 1..n |-> x]
           t == q \o r
<1>1. r \in Seq(S) /\ Len(r) = n /\ \A k \in 1..n : r[k] = x
  <2>1. r \in [1..n -> S] /\ DOMAIN r = 1..n /\ \A k \in 1..n : r[k] = x
    OBVIOUS
  <2> HIDE DEF r
  <2>2. r \in Seq(S)
    BY <2>1, IsASeq
  <2>3. Len(r) = n
    BY <2>1, <2>2, LenProperties
  <2> QED BY <2>1, <2>2, <2>3
<1> HIDE DEF r
<1>2. /\ t \in Seq(S) /\ Len(t) = Len(q) + n
      /\ \A k \in 1..Len(q) + n : t[k] = IF k <= Len(q) THEN q[k] ELSE r[k - Len(q)]
  BY <1>1, ConcatProperties
<1>3. Len(q) \in Nat /\ DOMAIN q = 1..Len(q) /\ DOMAIN t = 1..Len(q) + n
  BY <1>2, LenProperties
<1> HIDE DEF t
<1>4. \A k \in 1..Len(q) : t[k] = q[k]
  BY <1>2, <1>3
<1>5. ASSUME NEW k \in Len(q) + 1 .. Len(q) + n PROVE t[k] = x
  <2>1. k \in 1..Len(q) + n /\ ~(k <= Len(q)) /\ k - Len(q) \in 1..n
    BY <1>3
  <2> QED BY <1>1, <1>2, <2>1
<1> QED BY <1>2, <1>3, <1>4, <1>5 DEF t, r, Told, Prolongs

LEMMA SpokenInTold ==
  ASSUME NEW S, NEW q \in Seq(S), NEW x \in S, NEW n \in Nat, NEW i
  PROVE  LET t == Told(q, n, x) IN
         /\ Spoken(t, i) \subseteq Spoken(q, i) \cup (Len(q) + 1 .. Len(q) + n)
         /\ x # Message(i) => Spoken(t, i) = Spoken(q, i)
<1> DEFINE t == Told(q, n, x)
<1>1. Prolongs(t, q, n, x)
  BY PlacesOfTold
<1> HIDE DEF t
<1>2. \A k \in DOMAIN t : k \in DOMAIN q \/ k \in Len(q) + 1 .. Len(q) + n
  BY <1>1 DEF Prolongs
<1>3. \A k \in DOMAIN q : k \in DOMAIN t
  BY <1>1 DEF Prolongs
<1> QED BY <1>1, <1>2, <1>3 DEF Spoken, Prolongs, t

LEMMA SpokenInTail ==
  ASSUME NEW S, NEW q \in Seq(S), q # <<>>, NEW i
  PROVE  /\ \A k \in Spoken(Tail(q), i) : k \in Nat \ {0} /\ k + 1 \in Spoken(q, i)
         /\ Head(q) = Message(i) => 1 \in Spoken(q, i)
BY PlacesOfTail DEF Spoken

LEMMA SaidInTail ==
  ASSUME NEW S, NEW ev \in Seq(S), ev # <<>>, NEW i
  PROVE  /\ \A k \in Said(Tail(ev), i) : k \in Nat \ {0} /\ k + 1 \in Said(ev, i)
         /\ Head(ev).type = "message" /\ Head(ev).channel = i => 1 \in Said(ev, i)
BY PlacesOfTail DEF Said

LEMMA QuietIsSingle ==
  ASSUME NEW box, NEW ev, NEW i, Quiet(box, ev, i)
  PROVE  Single(box, ev, i)
BY DEF Quiet, Single

\* Fewer messages: those of the new inboxes and queue are in the old ones, if
\* only at other places.
LEMMA FewerVoices ==
  ASSUME NEW box, NEW ev, NEW new, NEW left, NEW i,
         DOMAIN new \subseteq DOMAIN box,
         \A w \in DOMAIN new : Spoken(new[w], i) \subseteq Spoken(box[w], i),
         \A k \in Said(left, i) : k \in Nat /\ k + 1 \in Said(ev, i)
  PROVE  /\ Quiet(box, ev, i) => Quiet(new, left, i)
         /\ Single(box, ev, i) => Single(new, left, i)
<1>1. Quiet(box, ev, i) => Quiet(new, left, i)
  BY DEF Quiet
<1>2. ASSUME Single(box, ev, i) PROVE Single(new, left, i)
  <2>1. ASSUME NEW k \in Said(left, i), NEW l \in Said(left, i) PROVE k = l
    <3>1. k + 1 = l + 1 /\ k \in Nat /\ l \in Nat
      BY <1>2 DEF Single
    <3> QED BY <3>1
  <2> QED BY <1>2, <2>1 DEF Single
<1> QED BY <1>1, <1>2

LEMMA SameVoices ==
  ASSUME NEW box, NEW ev, NEW new, NEW i, DOMAIN box \subseteq DOMAIN new,
         \A w \in DOMAIN box : Spoken(new[w], i) = Spoken(box[w], i),
         \A w \in DOMAIN new \ DOMAIN box : Spoken(new[w], i) = {}
  PROVE  /\ Quiet(box, ev, i) => Quiet(new, ev, i)
         /\ Single(box, ev, i) => Single(new, ev, i)
<1>1. \A w \in DOMAIN new : Spoken(new[w], i) # {} => w \in DOMAIN box /\ Spoken(new[w], i) = Spoken(box[w], i)
  OBVIOUS
<1>2. Quiet(box, ev, i) => Quiet(new, ev, i)
  BY <1>1 DEF Quiet
<1>3. Single(box, ev, i) => Single(new, ev, i)
  BY <1>1 DEF Single
<1> QED BY <1>2, <1>3

-----------------------------------------------------------------------------
(* Sending a command.                                                      *)

\* How many copies of what is sent to the places K reach the worker w.
Copies(d, members, K, w) == Cardinality(Heard(d, members, K, w))

LEMMA CopiesCounted ==
  ASSUME NEW d, NEW members, NEW K, IsFiniteSet(K), NEW w
  PROVE  /\ Copies(d, members, K, w) \in Nat
         /\ Copies(d, members, K, w) # 0 => \E k \in K : members[k] = w[1] /\ Linked(d, w)
         /\ (\A j, k \in K : j = k) => Copies(d, members, K, w) <= 1
<1> DEFINE H == Heard(d, members, K, w)
<1>1. H \subseteq K /\ \A k \in H : members[k] = w[1] /\ Linked(d, w)
  BY DEF Heard
<1> HIDE DEF H
<1>2. IsFiniteSet(H) /\ Cardinality(H) \in Nat
  BY <1>1, FS_Subset, FS_CardinalityType
<1>3. Cardinality(H) # 0 => H # {}
  BY FS_EmptySet
<1>4. ASSUME \A j, k \in K : j = k PROVE Cardinality(H) <= 1
  BY <1>1, <1>4, AtMostOne
<1> QED BY <1>1, <1>2, <1>3, <1>4 DEF Copies, H

LEMMA SendTyped ==
  ASSUME NEW d, NEW ev, DaemonOK(d, ev), NEW members, NEW K, IsFiniteSet(K), NEW x,
         \A w \in DOMAIN d.inbox : x \in Commands(d.chans, w[1])
  PROVE  LET t == Send(d, members, K, x) IN
         /\ t = [eng |-> d.eng, managed |-> d.managed, inbox |-> t.inbox, chans |-> d.chans]
         /\ DOMAIN t.inbox = DOMAIN d.inbox
         /\ \A w \in DOMAIN d.inbox :
              t.inbox[w] = Told(d.inbox[w], Copies(d, members, K, w), x)
         /\ InboxOK(t.inbox, d.chans, DOMAIN d.eng.jobs)
<1> DEFINE t == Send(d, members, K, x)
           box == [w \in DOMAIN d.inbox |-> Told(d.inbox[w], Copies(d, members, K, w), x)]
<1>1. d = [eng |-> d.eng, managed |-> d.managed, inbox |-> d.inbox, chans |-> d.chans]
      /\ InboxOK(d.inbox, d.chans, DOMAIN d.eng.jobs)
  BY DEF DaemonOK, IsDaemon
<1>2. t = [eng |-> d.eng, managed |-> d.managed, inbox |-> box, chans |-> d.chans]
  <2> DEFINE b == box
  <2>1. t = [d EXCEPT !.inbox = b]
    BY DEF Send, Copies, Told
  <2> HIDE DEF b, t
  <2> QED BY <1>1, <2>1 DEF b
<1>3. ASSUME NEW w \in DOMAIN d.inbox PROVE box[w] \in Seq(Commands(d.chans, w[1]))
  <2> DEFINE S == Commands(d.chans, w[1])
             n == Copies(d, members, K, w)
  <2>1. d.inbox[w] \in Seq(S) /\ x \in S /\ n \in Nat
    BY <1>1, CopiesCounted DEF InboxOK
  <2>2. box[w] = Told(d.inbox[w], n, x)
    OBVIOUS
  <2> HIDE DEF S, n, box
  <2>3. Told(d.inbox[w], n, x) \in Seq(S)
    BY <2>1, PlacesOfTold
  <2> QED BY <2>2, <2>3 DEF S
<1>4. DOMAIN box = DOMAIN d.inbox /\ box = [w \in DOMAIN box |-> box[w]]
      /\ \A w \in DOMAIN d.inbox : box[w] = Told(d.inbox[w], Copies(d, members, K, w), x)
  OBVIOUS
<1> HIDE DEF box
<1>5. InboxOK(box, d.chans, DOMAIN d.eng.jobs)
  BY <1>1, <1>3, <1>4 DEF InboxOK
<1> HIDE DEF t
<1>6. t.inbox = box
  BY <1>2
<1> QED BY <1>2, <1>4, <1>5, <1>6 DEF t

\* The parts of DaemonOK that are about engine, channels and events are those of
\* the state the command was sent in.
LEMMA SentOK ==
  ASSUME NEW d, NEW ev, DaemonOK(d, ev), NEW members, NEW K, IsFiniteSet(K), NEW x,
         \A w \in DOMAIN d.inbox : x \in Commands(d.chans, w[1]),
         Voices(Send(d, members, K, x).inbox, ev, d.chans)
  PROVE  DaemonOK(Send(d, members, K, x), ev)
<1> DEFINE t == Send(d, members, K, x)
<1>1. /\ t = [eng |-> d.eng, managed |-> d.managed, inbox |-> t.inbox, chans |-> d.chans]
      /\ InboxOK(t.inbox, d.chans, DOMAIN d.eng.jobs)
      /\ Voices(t.inbox, ev, d.chans)
  BY SendTyped
<1> HIDE DEF t
<1>2. t.eng = d.eng /\ t.managed = d.managed /\ t.chans = d.chans
  BY <1>1
<1>3. DaemonOK(t, ev)
  BY <1>1, <1>2 DEF DaemonOK, IsDaemon
<1> QED BY <1>3 DEF t

LEMMA SendNoticeOK ==
  ASSUME NEW d, NEW ev, DaemonOK(d, ev), NEW members, NEW K, IsFiniteSet(K)
  PROVE  DaemonOK(Send(d, members, K, Notice), ev)
<1> DEFINE t == Send(d, members, K, Notice)
<1>1. \A w \in DOMAIN d.inbox : Notice \in Commands(d.chans, w[1])
  BY DEF Commands
<1>2. /\ DOMAIN t.inbox = DOMAIN d.inbox
      /\ \A w \in DOMAIN d.inbox :
           t.inbox[w] = Told(d.inbox[w], Copies(d, members, K, w), Notice)
  BY <1>1, SendTyped
<1> HIDE DEF t
<1>3. ASSUME NEW i, NEW w \in DOMAIN d.inbox
      PROVE  Spoken(t.inbox[w], i) = Spoken(d.inbox[w], i)
  <2> DEFINE S == Commands(d.chans, w[1])
             n == Copies(d, members, K, w)
             q == d.inbox[w]
  <2>1. q \in Seq(S) /\ Notice \in S /\ n \in Nat
    BY <1>1, CopiesCounted DEF DaemonOK, InboxOK
  <2>2. Notice # Message(i)
    BY DEF Notice, Message
  <2>3. t.inbox[w] = Told(q, n, Notice)
    BY <1>2
  <2> HIDE DEF S, n, q
  <2>4. Spoken(Told(q, n, Notice), i) = Spoken(q, i)
    BY <2>1, <2>2, SpokenInTold
  <2> QED BY <2>3, <2>4 DEF q
<1>4. Voices(t.inbox, ev, d.chans)
  <2>1. Voices(d.inbox, ev, d.chans)
    BY DEF DaemonOK
  <2>2. ASSUME NEW i \in DOMAIN d.chans
        PROVE  /\ Quiet(d.inbox, ev, i) => Quiet(t.inbox, ev, i)
               /\ Single(d.inbox, ev, i) => Single(t.inbox, ev, i)
    BY <1>2, <1>3, SameVoices
  <2> QED BY <2>1, <2>2 DEF Voices
<1> QED BY <1>1, <1>4, SentOK DEF t

\* A message goes out in an open channel, in which nobody else has the turn.
LEMMA SendMessageOK ==
  ASSUME NEW d, NEW ev, DaemonOK(d, ev), NEW members, NEW K, IsFiniteSet(K),
         NEW i \in DOMAIN d.chans,
         d.chans[i].active \/ d.chans[i].closed,
         d.chans[i].mode = "TurnBased" => Quiet(d.inbox, ev, i) /\ \A j, k \in K : j = k
  PROVE  DaemonOK(Send(d, members, K, Message(i)), ev)
<1> DEFINE t == Send(d, members, K, Message(i))
           n(w) == Copies(d, members, K, w)
           end(w) == Len(d.inbox[w])
<1>1. \A w \in DOMAIN d.inbox : Message(i) \in Commands(d.chans, w[1])
  BY DEF Commands
<1>2. /\ DOMAIN t.inbox = DOMAIN d.inbox
      /\ \A w \in DOMAIN d.inbox : t.inbox[w] = Told(d.inbox[w], n(w), Message(i))
  BY <1>1, SendTyped
<1> HIDE DEF t
<1>3. ASSUME NEW w
      PROVE  /\ n(w) \in Nat
             /\ n(w) # 0 => \E k \in K : members[k] = w[1] /\ Linked(d, w)
             /\ (\A j, k \in K : j = k) => n(w) <= 1
  BY CopiesCounted
<1> HIDE DEF n
<1>4. ASSUME NEW w \in DOMAIN d.inbox, NEW m
      PROVE  /\ m # i => Spoken(t.inbox[w], m) = Spoken(d.inbox[w], m)
             /\ Spoken(t.inbox[w], m) \subseteq
                  Spoken(d.inbox[w], m) \cup (end(w) + 1 .. end(w) + n(w))
             /\ end(w) \in Nat
  <2> DEFINE S == Commands(d.chans, w[1])
             q == d.inbox[w]
             l == n(w)
  <2>1. q \in Seq(S) /\ Message(i) \in S /\ l \in Nat
    BY <1>1, <1>3 DEF DaemonOK, InboxOK
  <2>2. m # i => Message(i) # Message(m)
    BY DEF Message
  <2>3. t.inbox[w] = Told(q, l, Message(i)) /\ end(w) = Len(q)
    BY <1>2
  <2> HIDE DEF S, q, l, end
  <2>4. /\ Spoken(Told(q, l, Message(i)), m) \subseteq Spoken(q, m) \cup (Len(q) + 1 .. Len(q) + l)
        /\ m # i => Spoken(Told(q, l, Message(i)), m) = Spoken(q, m)
    BY <2>1, <2>2, SpokenInTold
  <2>5. Len(q) \in Nat
    BY <2>1, LenProperties
  <2> QED BY <2>3, <2>4, <2>5 DEF q, l
<1> HIDE DEF end
<1>5. ASSUME NEW m \in DOMAIN d.chans, m # i
      PROVE  /\ Quiet(d.inbox, ev, m) => Quiet(t.inbox, ev, m)
             /\ Single(d.inbox, ev, m) => Single(t.inbox, ev, m)
  BY <1>2, <1>4, <1>5, SameVoices
<1>6. ASSUME d.chans[i].mode = "TurnBased" PROVE Single(t.inbox, ev, i)
  <2>1. /\ Said(ev, i) = {} /\ \A w \in DOMAIN d.inbox : Spoken(d.inbox[w], i) = {}
        /\ \A j, k \in K : j = k
    BY <1>6 DEF Quiet
  <2>2. ASSUME NEW w \in DOMAIN t.inbox, NEW k \in Spoken(t.inbox[w], i)
        PROVE  /\ k = end(w) + 1
               /\ \E p \in K : members[p] = w[1] /\ Linked(d, w)
    <3>1. k \in end(w) + 1 .. end(w) + n(w) /\ end(w) \in Nat
      BY <1>2, <1>4, <2>1
    <3>2. n(w) \in Nat /\ n(w) <= 1
      BY <1>3, <2>1
    <3>3. n(w) = 1 /\ k = end(w) + 1
      BY <3>1, <3>2
    <3> QED BY <1>3, <3>3
  <2>3. ASSUME NEW w \in DOMAIN t.inbox, NEW v \in DOMAIN t.inbox,
               NEW k \in Spoken(t.inbox[w], i), NEW l \in Spoken(t.inbox[v], i)
        PROVE  w = v /\ k = l
    <3>1. k = end(w) + 1 /\ l = end(v) + 1
      BY <2>2
    <3>2. PICK p \in K : members[p] = w[1] /\ Linked(d, w)
      BY <2>2
    <3>3. PICK r \in K : members[r] = v[1] /\ Linked(d, v)
      BY <2>2
    <3>4. w[1] = v[1]
      BY <2>1, <3>2, <3>3
    <3>5. w = v
      BY <3>2, <3>3, <3>4 DEF Linked, Current
    <3> QED BY <3>1, <3>5
  <2> QED BY <2>1, <2>3 DEF Single
<1>7. Voices(t.inbox, ev, d.chans)
  <2>1. Voices(d.inbox, ev, d.chans)
    BY DEF DaemonOK
  <2> QED BY <1>5, <1>6, <2>1 DEF Voices
<1> QED BY <1>1, <1>7, SentOK DEF t

-----------------------------------------------------------------------------
(* Changing the engine, or one channel.                                    *)

\* Only jobs of J are Completed in t that were not in s.
OnlyCompletes(s, t, J) ==
  /\ DOMAIN t.jobs = DOMAIN s.jobs
  /\ DOMAIN s.runs \subseteq DOMAIN t.runs
  /\ \A j \in DOMAIN s.jobs \ J :
       t.jobs[j].status = "Completed" => s.jobs[j].status = "Completed"

WithEngine(d, m, t) ==
  [eng |-> t, managed |-> m, inbox |-> d.inbox, chans |-> d.chans]

LEMMA EngineChangeOK ==
  ASSUME NEW d, NEW ev, DaemonOK(d, ev), NEW m, NEW t, EngineOK(t), NEW J,
         OnlyCompletes(d.eng, t, J),
         ~sandbox => \A j \in J : \A i \in ChannelsOf(d.chans, j) : d.chans[i].closed
  PROVE  DaemonOK(WithEngine(d, m, t), ev)
<1> DEFINE e == WithEngine(d, m, t)
<1>1. e = [eng |-> t, managed |-> m, inbox |-> d.inbox, chans |-> d.chans]
  BY DEF WithEngine
<1> HIDE DEF e
<1>2. e.eng = t /\ e.managed = m /\ e.inbox = d.inbox /\ e.chans = d.chans
  BY <1>1
<1>3. DOMAIN t.jobs = DOMAIN d.eng.jobs /\ 1 \in DOMAIN t.runs
  BY DEF DaemonOK, OnlyCompletes
<1>4. ChannelsOK(d.chans, t.jobs)
  <2>1. ASSUME NEW i \in DOMAIN d.chans PROVE ChannelOK(d.chans[i], t.jobs)
    <3>1. ChannelOK(d.chans[i], d.eng.jobs)
      BY DEF DaemonOK, ChannelsOK
    <3>2. Entries(d.chans[i].members) \subseteq DOMAIN d.eng.jobs
      <4>1. d.chans[i].members \in Seq(DOMAIN d.eng.jobs)
        BY <3>1 DEF ChannelOK, ChannelType
      <4> QED BY <4>1, EntriesOfSeq
    <3>3. ASSUME ~sandbox, NEW j \in Entries(d.chans[i].members), t.jobs[j].status = "Completed"
          PROVE  d.chans[i].closed
      <4>1. j \in DOMAIN d.eng.jobs /\ i \in ChannelsOf(d.chans, j)
        BY <3>2 DEF ChannelsOf
      <4> QED BY <3>1, <3>3, <4>1 DEF OnlyCompletes, ChannelOK
    <3> QED BY <1>3, <3>1, <3>3 DEF ChannelOK
  <2> QED BY <1>3, <2>1 DEF DaemonOK, ChannelsOK
<1>5. DaemonOK(e, ev)
  BY <1>1, <1>2, <1>3, <1>4 DEF DaemonOK, IsDaemon
<1> QED BY <1>5 DEF e

LEMMA SameMembers ==
  ASSUME NEW c, NEW b, DOMAIN b = DOMAIN c, \A i \in DOMAIN c : b[i].members = c[i].members
  PROVE  /\ \A j : ChannelsOf(b, j) = ChannelsOf(c, j)
         /\ \A j : Commands(b, j) = Commands(c, j)
         /\ \A J : Reports(b, J) = Reports(c, J)
<1>1. \A j : ChannelsOf(b, j) = ChannelsOf(c, j)
  BY DEF ChannelsOf
<1> QED BY <1>1 DEF Commands, Reports, Failures, Replies, Executed

WithChannel(d, i, x) ==
  [eng |-> d.eng, managed |-> d.managed, inbox |-> d.inbox, chans |-> [d.chans EXCEPT ![i] = x]]

\* One channel changes in what is not its participants or its mode.
LEMMA ChannelChangeOK ==
  ASSUME NEW d, NEW ev, DaemonOK(d, ev), NEW i \in DOMAIN d.chans, NEW x,
         ChannelOK(x, d.eng.jobs),
         x.members = d.chans[i].members, x.mode = d.chans[i].mode,
         x.active \/ x.closed
  PROVE  LET t == WithChannel(d, i, x) IN
         /\ DaemonOK(t, ev)
         /\ t.eng = d.eng /\ t.managed = d.managed /\ t.inbox = d.inbox
         /\ DOMAIN t.chans = DOMAIN d.chans
         /\ \A k \in DOMAIN d.chans : t.chans[k] = IF k = i THEN x ELSE d.chans[k]
<1> DEFINE t == WithChannel(d, i, x)
           c == [d.chans EXCEPT ![i] = x]
           S == ChannelType(DOMAIN d.eng.jobs)
<1>1. t = [eng |-> d.eng, managed |-> d.managed, inbox |-> d.inbox, chans |-> c]
  BY DEF WithChannel
<1> HIDE DEF t
<1>2. t.eng = d.eng /\ t.managed = d.managed /\ t.inbox = d.inbox /\ t.chans = c
  BY <1>1
<1>3. c \in Seq(S) /\ DOMAIN c = DOMAIN d.chans
  <2>1. d.chans \in Seq(S) /\ x \in S
    BY DEF DaemonOK, ChannelsOK, ChannelOK
  <2> HIDE DEF S
  <2> QED BY <2>1, ChangedEntry
<1>4. \A k \in DOMAIN d.chans : c[k] = IF k = i THEN x ELSE d.chans[k]
  BY <1>3
<1> HIDE DEF c
<1>5. ChannelsOK(c, d.eng.jobs)
  BY <1>3, <1>4 DEF DaemonOK, ChannelsOK
<1>6. /\ \A j : Commands(c, j) = Commands(d.chans, j)
      /\ \A J : Reports(c, J) = Reports(d.chans, J)
  BY <1>3, <1>4, SameMembers
<1>7. InboxOK(d.inbox, c, DOMAIN d.eng.jobs)
  BY <1>6 DEF DaemonOK, InboxOK
<1>8. ev \in Seq(Reports(c, DOMAIN d.eng.jobs))
  BY <1>6 DEF DaemonOK
<1>9. Voices(d.inbox, ev, c)
  BY <1>3, <1>4 DEF DaemonOK, Voices
<1>10. DaemonOK(t, ev)
  BY <1>1, <1>2, <1>5, <1>7, <1>8, <1>9 DEF DaemonOK, IsDaemon
<1> QED BY <1>2, <1>3, <1>4, <1>10 DEF t

LEMMA CloseOK ==
  ASSUME NEW d, NEW ev, DaemonOK(d, ev), NEW i \in DOMAIN d.chans, NEW x,
         ChannelOK(x, d.eng.jobs), x.members = d.chans[i].members, x.mode = d.chans[i].mode
  PROVE  LET t == WithChannel(d, i, Closed(x)) IN
         /\ DaemonOK(t, ev)
         /\ t.eng = d.eng /\ t.managed = d.managed /\ t.inbox = d.inbox
         /\ DOMAIN t.chans = DOMAIN d.chans
         /\ \A k \in DOMAIN d.chans : t.chans[k] = IF k = i THEN Closed(x) ELSE d.chans[k]
<1>1. /\ ChannelOK(Closed(x), d.eng.jobs) /\ Closed(x).closed
      /\ Closed(x).members = x.members /\ Closed(x).mode = x.mode
  BY DEF ChannelOK, ChannelType, Closed
<1> QED BY <1>1, ChannelChangeOK

-----------------------------------------------------------------------------
(* The spawn loop and the channels it opens.                               *)

LEMMA InboxChangeOK ==
  ASSUME NEW d, NEW ev, DaemonOK(d, ev), NEW box,
         InboxOK(box, d.chans, DOMAIN d.eng.jobs), Voices(box, ev, d.chans)
  PROVE  DaemonOK([eng |-> d.eng, managed |-> d.managed, inbox |-> box, chans |-> d.chans], ev)
<1> DEFINE t == [eng |-> d.eng, managed |-> d.managed, inbox |-> box, chans |-> d.chans]
<1>1. t.eng = d.eng /\ t.managed = d.managed /\ t.inbox = box /\ t.chans = d.chans
  OBVIOUS
<1>2. IsDaemon(t)
  BY DEF IsDaemon
<1> HIDE DEF t
<1>3. DaemonOK(t, ev)
  BY <1>1, <1>2 DEF DaemonOK
<1> QED BY <1>3 DEF t

LEMMA StartPoppedCompletes ==
  ASSUME NEW s, EngineOK(s), NEW n \in 0..Len(s.queue)
  PROVE  OnlyCompletes(s, StartPopped(s, n), {})
<1> DEFINE t == StartPopped(s, n)
           Started(j) == [s.jobs[j] EXCEPT !.status = "Running",
                                           !.attempt = @ + TimesPopped(s, n, j)]
<1>1. HasFields(s) /\ s.jobs \in [DOMAIN s.jobs -> JobRecords]
  BY TypeParts DEF EngineOK
<1>2. /\ t.jobs = [j \in DOMAIN s.jobs |-> IF j \in Popped(s, n) THEN Started(j) ELSE s.jobs[j]]
      /\ DOMAIN t.runs = DOMAIN s.runs
  BY <1>1 DEF StartPopped, HasFields
<1>3. ASSUME NEW j \in DOMAIN s.jobs PROVE Started(j).status = "Running"
  BY <1>1 DEF JobRecords
<1> HIDE DEF t, Started
<1>4. OnlyCompletes(s, t, {})
  BY <1>2, <1>3 DEF OnlyCompletes
<1> QED BY <1>4 DEF t

LEMMA OneCommand ==
  ASSUME NEW S, NEW x \in S, \A i : x # Message(i)
  PROVE  <<x>> \in Seq(S) /\ \A i : Spoken(<<x>>, i) = {}
<1>1. <<x>> \in Seq(S)
  OBVIOUS
<1>2. \A k \in DOMAIN <<x>> : <<x>>[k] = x
  OBVIOUS
<1> QED BY <1>1, <1>2 DEF Spoken

LEMMA LaunchOK ==
  ASSUME NEW d, NEW ev, DaemonOK(d, ev),
         NEW n \in 0..Len(d.eng.queue), PopsExactly(d.eng, n)
  PROVE  DaemonOK(Launch(d, n), ev) /\ DOMAIN Launch(d, n).eng.jobs = DOMAIN d.eng.jobs
<1> DEFINE s == d.eng
           t == StartPopped(s, n)
           m == d.managed \cup Popped(s, n)
           fresh == UNION {{<<j, s.jobs[j].attempt + k>> : k \in 1..TimesPopped(s, n, j)} :
                             j \in Popped(s, n)}
           box == [w \in DOMAIN d.inbox \cup fresh |->
                     IF w \in DOMAIN d.inbox THEN d.inbox[w]
                     ELSE IF ~sandbox /\ ChannelsOf(d.chans, w[1]) # {} THEN <<Setup>>
                     ELSE <<Execute>>]
           e == WithEngine(d, m, t)
<1>1. EngineOK(s) /\ EngineOK(t) /\ DOMAIN t.jobs = DOMAIN s.jobs /\ OnlyCompletes(s, t, {})
  BY StartPoppedOK, StartPoppedCompletes DEF DaemonOK
<1>2. DaemonOK(e, ev)
  <2>1. \A j \in {} : \A i \in ChannelsOf(d.chans, j) : d.chans[i].closed
    OBVIOUS
  <2> HIDE DEF t, m
  <2> QED BY <1>1, <2>1, EngineChangeOK
<1>3. e.eng = t /\ e.managed = m /\ e.inbox = d.inbox /\ e.chans = d.chans
  <2> HIDE DEF t, m
  <2> QED BY DEF WithEngine
<1> HIDE DEF e
<1>4. fresh \subseteq (DOMAIN s.jobs) \X Nat
  <2>1. ASSUME NEW j \in Popped(s, n), NEW k \in 1..TimesPopped(s, n, j)
        PROVE  <<j, s.jobs[j].attempt + k>> \in (DOMAIN s.jobs) \X Nat
    <3>1. j \in DOMAIN s.jobs /\ TimesPopped(s, n, j) \in Nat
      BY <1>1, PoppedJobs DEF EngineOK
    <3>2. s.jobs[j] \in JobRecords
      BY <1>1, <3>1, TypeParts DEF EngineOK
    <3>3. s.jobs[j].attempt + k \in Nat
      BY <3>1, <3>2 DEF JobRecords
    <3> QED BY <3>1, <3>3
  <2> QED BY <2>1
<1> HIDE DEF fresh
<1>5. ASSUME NEW w \in DOMAIN box \ DOMAIN d.inbox
      PROVE  /\ box[w] \in Seq(Commands(d.chans, w[1]))
             /\ \A i : Spoken(box[w], i) = {}
  <2>1. CASE ~Executed(d.chans, w[1])
    <3>1. box[w] = <<Setup>>
      BY <2>1 DEF Executed
    <3>2. Setup \in Commands(d.chans, w[1])
      BY DEF Commands
    <3>3. \A i : Setup # Message(i)
      BY DEF Setup, Message
    <3> QED BY <3>1, <3>2, <3>3, OneCommand
  <2>2. CASE Executed(d.chans, w[1])
    <3>1. box[w] = <<Execute>>
      BY <2>2 DEF Executed
    <3>2. Execute \in Commands(d.chans, w[1])
      BY <2>2 DEF Commands
    <3>3. \A i : Execute # Message(i)
      BY DEF Execute, Message
    <3> QED BY <3>1, <3>2, <3>3, OneCommand
  <2> QED BY <2>1, <2>2
<1>6. /\ DOMAIN box = DOMAIN d.inbox \cup fresh
      /\ box = [w \in DOMAIN box |-> box[w]]
      /\ \A w \in DOMAIN d.inbox : box[w] = d.inbox[w]
  OBVIOUS
<1>7. Launch(d, n) = [eng |-> e.eng, managed |-> e.managed, inbox |-> box, chans |-> e.chans]
  <2> DEFINE b == box
             u == t
             v == m
  <2>1. Launch(d, n) = [d EXCEPT !.eng = u, !.managed = v, !.inbox = b]
    BY DEF Launch, fresh
  <2>2. d = [eng |-> d.eng, managed |-> d.managed, inbox |-> d.inbox, chans |-> d.chans]
        /\ DOMAIN d = {"eng", "managed", "inbox", "chans"}
    BY DEF DaemonOK, IsDaemon
  <2>3. e.eng = u /\ e.managed = v /\ e.chans = d.chans
    BY <1>3
  <2> HIDE DEF b, u, v
  <2>4. [d EXCEPT !.eng = u, !.managed = v, !.inbox = b]
          = [eng |-> u, managed |-> v, inbox |-> b, chans |-> d.chans]
    <3>1. [d EXCEPT !.eng = u, !.managed = v, !.inbox = b]
            = [x \in DOMAIN d |-> IF x = "inbox" THEN b ELSE IF x = "managed" THEN v
                                  ELSE IF x = "eng" THEN u ELSE d[x]]
      OBVIOUS
    <3> QED BY <2>2, <3>1
  <2> QED BY <2>1, <2>3, <2>4 DEF b
<1> HIDE DEF box
<1>8. InboxOK(box, e.chans, DOMAIN e.eng.jobs)
  <2>1. InboxOK(d.inbox, d.chans, DOMAIN s.jobs)
    BY DEF DaemonOK
  <2> QED BY <1>1, <1>3, <1>4, <1>5, <1>6, <2>1 DEF InboxOK
<1>9. Voices(box, ev, e.chans)
  <2>1. Voices(d.inbox, ev, d.chans)
    BY DEF DaemonOK
  <2>2. ASSUME NEW i \in DOMAIN d.chans
        PROVE  /\ Quiet(d.inbox, ev, i) => Quiet(box, ev, i)
               /\ Single(d.inbox, ev, i) => Single(box, ev, i)
    BY <1>5, <1>6, SameVoices
  <2> QED BY <1>3, <2>1, <2>2 DEF Voices
<1> HIDE DEF t, m, s
<1>10. DaemonOK(Launch(d, n), ev)
  BY <1>2, <1>7, <1>8, <1>9, InboxChangeOK
<1>11. Launch(d, n).eng = t
  BY <1>3, <1>7
<1> QED BY <1>1, <1>10, <1>11 DEF s

-----------------------------------------------------------------------------
(* The rounds of the loops.                                                *)

LEMMA OpenedRounds ==
  ASSUME NEW d, NEW order, Len(order) \in Nat
  PROVE  /\ Opened(d, order)[0] = d
         /\ \A k \in 1..Len(order) : Opened(d, order)[k] = Open(Opened(d, order)[k - 1], order[k])
<1> DEFINE Round(f, k) == IF k = 0 THEN d ELSE Open(f[k - 1], order[k])
           Is(f, n) == f = [k \in 0..n |-> Round(f, k)]
           T == {n \in 0..Len(order) : \E f : Is(f, n)}
<1>1. 0 \in T
  <2>1. Is([k \in 0..0 |-> d], 0)
    OBVIOUS
  <2> HIDE DEF Is
  <2> QED BY <2>1
<1>2. ASSUME NEW n \in 1..Len(order), n - 1 \in T PROVE n \in T
  <2>1. PICK f : Is(f, n - 1)
    BY <1>2
  <2> DEFINE g == [k \in 0..n |-> IF k = n THEN Round(f, n) ELSE f[k]]
  <2>2. ASSUME NEW k \in 0..n PROVE g[k] = Round(g, k)
    <3>1. CASE k = n
      BY <3>1
    <3>2. CASE k \in 0..n - 1
      BY <2>1, <3>2
    <3> QED BY <3>1, <3>2
  <2>3. Is(g, n)
    <3>1. g = [k \in 0..n |-> g[k]]
      OBVIOUS
    <3> HIDE DEF g, Round
    <3> QED BY <2>2, <3>1
  <2> HIDE DEF Is
  <2> QED BY <2>3
<1>3. \E f : Is(f, Len(order))
  <2> HIDE DEF T
  <2>1. \A k \in 0..Len(order) : k \in T
    BY <1>1, <1>2, FromZero
  <2> QED BY <2>1 DEF T
<1>4. Is(Opened(d, order), Len(order))
  BY <1>3 DEF Opened
<1> QED BY <1>4

LEMMA PeersFailedRounds ==
  ASSUME NEW s, NEW members, NEW j, Len(members) \in Nat
  PROVE  /\ PeersFailed(s, members, j)[0] = s
         /\ \A k \in 1..Len(members) : PeersFailed(s, members, j)[k] = FailPeer(PeersFailed(s, members, j)[k - 1], j, members[k])
<1> DEFINE Round(f, k) == IF k = 0 THEN s ELSE FailPeer(f[k - 1], j, members[k])
           Is(f, n) == f = [k \in 0..n |-> Round(f, k)]
           T == {n \in 0..Len(members) : \E f : Is(f, n)}
<1>1. 0 \in T
  <2>1. Is([k \in 0..0 |-> s], 0)
    OBVIOUS
  <2> HIDE DEF Is
  <2> QED BY <2>1
<1>2. ASSUME NEW n \in 1..Len(members), n - 1 \in T PROVE n \in T
  <2>1. PICK f : Is(f, n - 1)
    BY <1>2
  <2> DEFINE g == [k \in 0..n |-> IF k = n THEN Round(f, n) ELSE f[k]]
  <2>2. ASSUME NEW k \in 0..n PROVE g[k] = Round(g, k)
    <3>1. CASE k = n
      BY <3>1
    <3>2. CASE k \in 0..n - 1
      BY <2>1, <3>2
    <3> QED BY <3>1, <3>2
  <2>3. Is(g, n)
    <3>1. g = [k \in 0..n |-> g[k]]
      OBVIOUS
    <3> HIDE DEF g, Round
    <3> QED BY <2>2, <3>1
  <2> HIDE DEF Is
  <2> QED BY <2>3
<1>3. \E f : Is(f, Len(members))
  <2> HIDE DEF T
  <2>1. \A k \in 0..Len(members) : k \in T
    BY <1>1, <1>2, FromZero
  <2> QED BY <2>1 DEF T
<1>4. Is(PeersFailed(s, members, j), Len(members))
  BY <1>3 DEF PeersFailed
<1> QED BY <1>4

LEMMA PeerFailuresRounds ==
  ASSUME NEW d, NEW j, NEW order, Len(order) \in Nat
  PROVE  /\ PeerFailures(d, j, order)[0] = d
         /\ \A k \in 1..Len(order) : PeerFailures(d, j, order)[k] = PeerFailure(PeerFailures(d, j, order)[k - 1], order[k], j)
<1> DEFINE Round(f, k) == IF k = 0 THEN d ELSE PeerFailure(f[k - 1], order[k], j)
           Is(f, n) == f = [k \in 0..n |-> Round(f, k)]
           T == {n \in 0..Len(order) : \E f : Is(f, n)}
<1>1. 0 \in T
  <2>1. Is([k \in 0..0 |-> d], 0)
    OBVIOUS
  <2> HIDE DEF Is
  <2> QED BY <2>1
<1>2. ASSUME NEW n \in 1..Len(order), n - 1 \in T PROVE n \in T
  <2>1. PICK f : Is(f, n - 1)
    BY <1>2
  <2> DEFINE g == [k \in 0..n |-> IF k = n THEN Round(f, n) ELSE f[k]]
  <2>2. ASSUME NEW k \in 0..n PROVE g[k] = Round(g, k)
    <3>1. CASE k = n
      BY <3>1
    <3>2. CASE k \in 0..n - 1
      BY <2>1, <3>2
    <3> QED BY <3>1, <3>2
  <2>3. Is(g, n)
    <3>1. g = [k \in 0..n |-> g[k]]
      OBVIOUS
    <3> HIDE DEF g, Round
    <3> QED BY <2>2, <3>1
  <2> HIDE DEF Is
  <2> QED BY <2>3
<1>3. \E f : Is(f, Len(order))
  <2> HIDE DEF T
  <2>1. \A k \in 0..Len(order) : k \in T
    BY <1>1, <1>2, FromZero
  <2> QED BY <2>1 DEF T
<1>4. Is(PeerFailures(d, j, order), Len(order))
  BY <1>3 DEF PeerFailures
<1> QED BY <1>4

LEMMA CompletionsRounds ==
  ASSUME NEW S, NEW i, NEW members, Len(members) \in Nat
  PROVE  /\ Completions(S, i, members)[0] = S
         /\ \A k \in 1..Len(members) : Completions(S, i, members)[k] = CompleteNext(Completions(S, i, members)[k - 1], i, members[k])
<1> DEFINE Round(f, k) == IF k = 0 THEN S ELSE CompleteNext(f[k - 1], i, members[k])
           Is(f, n) == f = [k \in 0..n |-> Round(f, k)]
           T == {n \in 0..Len(members) : \E f : Is(f, n)}
<1>1. 0 \in T
  <2>1. Is([k \in 0..0 |-> S], 0)
    OBVIOUS
  <2> HIDE DEF Is
  <2> QED BY <2>1
<1>2. ASSUME NEW n \in 1..Len(members), n - 1 \in T PROVE n \in T
  <2>1. PICK f : Is(f, n - 1)
    BY <1>2
  <2> DEFINE g == [k \in 0..n |-> IF k = n THEN Round(f, n) ELSE f[k]]
  <2>2. ASSUME NEW k \in 0..n PROVE g[k] = Round(g, k)
    <3>1. CASE k = n
      BY <3>1
    <3>2. CASE k \in 0..n - 1
      BY <2>1, <3>2
    <3> QED BY <3>1, <3>2
  <2>3. Is(g, n)
    <3>1. g = [k \in 0..n |-> g[k]]
      OBVIOUS
    <3> HIDE DEF g, Round
    <3> QED BY <2>2, <3>1
  <2> HIDE DEF Is
  <2> QED BY <2>3
<1>3. \E f : Is(f, Len(members))
  <2> HIDE DEF T
  <2>1. \A k \in 0..Len(members) : k \in T
    BY <1>1, <1>2, FromZero
  <2> QED BY <2>1 DEF T
<1>4. Is(Completions(S, i, members), Len(members))
  BY <1>3 DEF Completions
<1> QED BY <1>4

-----------------------------------------------------------------------------
(* Opening channels, and the end of every handler.                         *)

LEMMA SendKeeps ==
  ASSUME NEW d, IsDaemon(d), NEW members, NEW K, NEW x
  PROVE  LET t == Send(d, members, K, x) IN
         t.eng = d.eng /\ t.managed = d.managed /\ t.chans = d.chans
<1> DEFINE b == [w \in DOMAIN d.inbox |-> Told(d.inbox[w], Copies(d, members, K, w), x)]
           t == Send(d, members, K, x)
<1>1. t = [d EXCEPT !.inbox = b]
  BY DEF Send, Copies, Told
<1>2. d = [eng |-> d.eng, managed |-> d.managed, inbox |-> d.inbox, chans |-> d.chans]
  BY DEF IsDaemon
<1> HIDE DEF b, t
<1>3. t.eng = d.eng /\ t.managed = d.managed /\ t.chans = d.chans
  BY <1>1, <1>2
<1> QED BY <1>3 DEF t

LEMMA OpenOK ==
  ASSUME NEW d, NEW ev, DaemonOK(d, ev), NEW i \in DOMAIN d.chans,
         ~d.chans[i].active, ~d.chans[i].closed
  PROVE  LET t == Open(d, i) IN
         /\ DaemonOK(t, ev)
         /\ t.eng = d.eng
         /\ DOMAIN t.chans = DOMAIN d.chans
         /\ \A k \in DOMAIN d.chans \ {i} : t.chans[k] = d.chans[k]
<1> DEFINE x == [d.chans[i] EXCEPT !.active = TRUE]
           e == WithChannel(d, i, x)
           members == d.chans[i].members
           K == IF d.chans[i].initial THEN {1} ELSE {}
<1>1. /\ ChannelOK(x, d.eng.jobs) /\ x.active
      /\ x.members = d.chans[i].members /\ x.mode = d.chans[i].mode
  <2>1. ChannelOK(d.chans[i], d.eng.jobs)
    BY DEF DaemonOK, ChannelsOK
  <2> QED BY <2>1 DEF ChannelOK, ChannelType
<1> HIDE DEF x
<1>2. /\ DaemonOK(e, ev)
      /\ e.eng = d.eng /\ e.managed = d.managed /\ e.inbox = d.inbox
      /\ DOMAIN e.chans = DOMAIN d.chans
      /\ \A k \in DOMAIN d.chans : e.chans[k] = IF k = i THEN x ELSE d.chans[k]
  BY <1>1, ChannelChangeOK
<1>3. Open(d, i) = Send(e, members, K, Message(i))
  <2>1. d = [eng |-> d.eng, managed |-> d.managed, inbox |-> d.inbox, chans |-> d.chans]
    BY DEF DaemonOK, IsDaemon
  <2>2. [d EXCEPT !.chans[i].active = TRUE] = [d EXCEPT !.chans = [d.chans EXCEPT ![i] = x]]
    BY <2>1 DEF x
  <2>3. [d EXCEPT !.chans[i].active = TRUE] = e
    BY <2>1, <2>2 DEF WithChannel
  <2> QED BY <2>3 DEF Open
<1>4. Quiet(d.inbox, ev, i)
  BY DEF DaemonOK, Voices
<1>5. IsFiniteSet(K) /\ \A j, k \in K : j = k
  BY FS_EmptySet, FS_Singleton
<1> HIDE DEF e, members, K
<1>6. DaemonOK(Send(e, members, K, Message(i)), ev)
  BY <1>1, <1>2, <1>4, <1>5, SendMessageOK
<1>7. /\ Send(e, members, K, Message(i)).chans = e.chans
      /\ Send(e, members, K, Message(i)).eng = e.eng
  BY <1>2, SendKeeps DEF DaemonOK
<1> QED BY <1>2, <1>3, <1>6, <1>7

LEMMA ActivateOK ==
  ASSUME NEW d, NEW ev, DaemonOK(d, ev), NEW order \in Orderings(Activatable(d))
  PROVE  DaemonOK(Activate(d, order), ev) /\ Activate(d, order).eng = d.eng
<1> DEFINE n == Len(order)
           S == Activatable(d)
           After(k) == Opened(d, order)[k]
           T == {k \in 0..n :
                   /\ DaemonOK(After(k), ev)
                   /\ After(k).eng = d.eng
                   /\ DOMAIN After(k).chans = DOMAIN d.chans
                   /\ \A m \in k + 1 .. n : After(k).chans[order[m]] = d.chans[order[m]]}
<1>1. /\ S \subseteq DOMAIN d.chans
      /\ \A i \in S : ~d.chans[i].active /\ ~d.chans[i].closed
  BY DEF Activatable
<1>2. IsFiniteSet(S)
  <2>1. d.chans \in Seq(ChannelType(DOMAIN d.eng.jobs))
    BY DEF DaemonOK, ChannelsOK
  <2>2. IsFiniteSet(DOMAIN d.chans)
    BY <2>1, LenProperties, FS_Interval
  <2> HIDE DEF S
  <2> QED BY <1>1, <2>2, FS_Subset
<1> HIDE DEF S
<1>3. n \in Nat /\ Distinct(order) /\ DOMAIN order = 1..n /\ \A k \in 1..n : order[k] \in S
  <2>1. order \in Seq(S) /\ Distinct(order)
    BY <1>2, EntriesOfOrdering, OrderingDistinct DEF S
  <2> QED BY <2>1, LenProperties, ElementOfSeq
<1>4. /\ After(0) = d
      /\ \A k \in 1..n : After(k) = Open(After(k - 1), order[k])
  BY <1>3, OpenedRounds
<1> HIDE DEF After, n
<1>5. 0 \in T
  BY <1>3, <1>4
<1>6. ASSUME NEW k \in 1..n, k - 1 \in T PROVE k \in T
  <2> DEFINE e == After(k - 1)
             i == order[k]
  <2>1. /\ DaemonOK(e, ev) /\ e.eng = d.eng /\ DOMAIN e.chans = DOMAIN d.chans
        /\ \A m \in (k - 1) + 1 .. n : e.chans[order[m]] = d.chans[order[m]]
    BY <1>6
  <2>2. k \in (k - 1) + 1 .. n /\ i \in S
    BY <1>3
  <2> HIDE DEF e
  <2>3. i \in DOMAIN e.chans /\ ~e.chans[i].active /\ ~e.chans[i].closed
    BY <1>1, <2>1, <2>2
  <2>4. /\ DaemonOK(Open(e, i), ev)
        /\ Open(e, i).eng = e.eng
        /\ DOMAIN Open(e, i).chans = DOMAIN e.chans
        /\ \A m \in DOMAIN e.chans \ {i} : Open(e, i).chans[m] = e.chans[m]
    BY <2>1, <2>3, OpenOK
  <2>5. After(k) = Open(e, i)
    BY <1>4 DEF e
  <2>6. ASSUME NEW m \in k + 1 .. n PROVE After(k).chans[order[m]] = d.chans[order[m]]
    <3>1. m \in 1..n /\ m # k /\ m \in (k - 1) + 1 .. n
      BY <1>3
    <3>2. order[m] # i /\ order[m] \in DOMAIN e.chans
      BY <1>1, <1>3, <2>1, <3>1 DEF Distinct
    <3> QED BY <2>1, <2>4, <2>5, <3>1, <3>2
  <2>7. k \in 0..n
    BY <1>3
  <2> QED BY <2>1, <2>4, <2>5, <2>6, <2>7
<1>7. DaemonOK(After(n), ev) /\ After(n).eng = d.eng
  <2> HIDE DEF T
  <2>1. \A k \in 0..n : k \in T
    BY <1>3, <1>5, <1>6, FromZero
  <2>2. n \in 0..n
    BY <1>3
  <2> QED BY <2>1, <2>2 DEF T
<1> QED BY <1>7 DEF Activate, After, n

LEMMA DispatchOK ==
  ASSUME NEW d, NEW ev, DaemonOK(d, ev), Dispatch(d)
  PROVE  DaemonOK(Daemon', ev) /\ DOMAIN eng'.jobs = DOMAIN d.eng.jobs
<1>1. PICK n \in 0..Len(d.eng.queue) :
        /\ PopsExactly(d.eng, n)
        /\ \E order \in Orderings(Activatable(Launch(d, n))) :
             LET left == Activate(Launch(d, n), order)
             IN  eng' = left.eng /\ managed' = left.managed /\ inbox' = left.inbox /\ chans' = left.chans
  BY DEF Dispatch
<1>2. PICK order \in Orderings(Activatable(Launch(d, n))) :
        LET left == Activate(Launch(d, n), order)
        IN  eng' = left.eng /\ managed' = left.managed /\ inbox' = left.inbox /\ chans' = left.chans
  BY <1>1
<1> DEFINE e == Launch(d, n)
           left == Activate(e, order)
<1>3. DaemonOK(e, ev) /\ DOMAIN e.eng.jobs = DOMAIN d.eng.jobs
  BY <1>1, LaunchOK
<1>4. eng' = left.eng /\ managed' = left.managed /\ inbox' = left.inbox /\ chans' = left.chans
  BY <1>2
<1> HIDE DEF e
<1>5. DaemonOK(left, ev) /\ left.eng = e.eng
  BY <1>2, <1>3, ActivateOK DEF e
<1> HIDE DEF left
<1>6. left = [eng |-> left.eng, managed |-> left.managed, inbox |-> left.inbox, chans |-> left.chans]
  BY <1>5 DEF DaemonOK, IsDaemon
<1>7. Daemon' = left
  BY <1>4, <1>6 DEF Daemon
<1> QED BY <1>3, <1>4, <1>5, <1>7

-----------------------------------------------------------------------------
(* Jobs that fail.                                                         *)

LEMMA MarkFailedCompletes ==
  ASSUME NEW s, EngineOK(s), NEW j \in DOMAIN s.jobs
  PROVE  EngineOK(MarkFailed(s, j)) /\ OnlyCompletes(s, MarkFailed(s, j), {})
<1> DEFINE t == MarkFailed(s, j)
           status == AfterFailure(s.jobs[j])
<1>1. /\ Settles(s, t, j, status, {})
      /\ j \in s.active => Concludes(s, t, s.jobs[j].run)
      /\ j \notin s.active => t.runs = s.runs
  BY MarkFailedEffect DEF EngineOK
<1>2. status # "Completed"
  BY DEF AfterFailure
<1> HIDE DEF t, status
<1>3. OnlyCompletes(s, t, {})
  <2>1. DOMAIN t.runs = DOMAIN s.runs
    BY <1>1 DEF Concludes
  <2>2. /\ DOMAIN t.jobs = DOMAIN s.jobs
        /\ \A i \in DOMAIN s.jobs : t.jobs[i].status = IF i = j THEN status ELSE s.jobs[i].status
    BY <1>1 DEF Settles
  <2> QED BY <1>2, <2>1, <2>2 DEF OnlyCompletes
<1> QED BY <1>3, MarkFailedOK DEF t

\* The engine a handler leaves when it fails the members one after the other.
LEMMA PeersFailedOK ==
  ASSUME NEW s, EngineOK(s), NEW members \in Seq(DOMAIN s.jobs), NEW j
  PROVE  LET t == PeersFailed(s, members, j)[Len(members)] IN
         EngineOK(t) /\ OnlyCompletes(s, t, {})
<1> DEFINE n == Len(members)
           After(k) == PeersFailed(s, members, j)[k]
           T == {k \in 0..n : EngineOK(After(k)) /\ OnlyCompletes(s, After(k), {})}
<1>1. n \in Nat /\ \A k \in 1..n : members[k] \in DOMAIN s.jobs
  BY ElementOfSeq
<1>2. After(0) = s /\ \A k \in 1..n : After(k) = FailPeer(After(k - 1), j, members[k])
  BY <1>1, PeersFailedRounds
<1> HIDE DEF n, After
<1>3. 0 \in T
  BY <1>1, <1>2 DEF OnlyCompletes
<1>4. ASSUME NEW k \in 1..n, k - 1 \in T PROVE k \in T
  <2> DEFINE e == After(k - 1)
             t == After(k)
  <2>1. EngineOK(e) /\ OnlyCompletes(s, e, {}) /\ members[k] \in DOMAIN e.jobs
    BY <1>1, <1>4 DEF OnlyCompletes
  <2>2. t = FailPeer(e, j, members[k]) /\ k \in 0..n
    BY <1>1, <1>2
  <2> HIDE DEF e, t
  <2>3. EngineOK(t) /\ OnlyCompletes(e, t, {})
    <3>1. CASE members[k] = j
      BY <2>1, <2>2, <3>1 DEF FailPeer, OnlyCompletes
    <3>2. CASE members[k] # j
      BY <2>1, <2>2, <3>2, MarkFailedCompletes DEF FailPeer
    <3> QED BY <3>1, <3>2
  <2>4. OnlyCompletes(s, t, {})
    BY <2>1, <2>3 DEF OnlyCompletes
  <2> QED BY <2>2, <2>3, <2>4 DEF t
<1> HIDE DEF T
<1>5. \A k \in 0..n : k \in T
  BY <1>1, <1>3, <1>4, FromZero
<1>6. n \in 0..n
  BY <1>1
<1>7. EngineOK(After(n)) /\ OnlyCompletes(s, After(n), {})
  BY <1>5, <1>6 DEF T
<1> QED BY <1>7 DEF n, After

\* What a step that fails jobs leaves as it was.
Spares(d, t) ==
  /\ DOMAIN t.eng.jobs = DOMAIN d.eng.jobs
  /\ DOMAIN t.chans = DOMAIN d.chans

LEMMA KillOK ==
  ASSUME NEW d, NEW ev, DaemonOK(d, ev), NEW i \in DOMAIN d.chans, NEW j
  PROVE  DaemonOK(Kill(d, i, j), ev) /\ Spares(d, Kill(d, i, j))
<1> DEFINE members == d.chans[i].members
           t == PeersFailed(d.eng, members, j)[Len(members)]
           m == d.managed \ Others(d.chans[i], j)
<1>1. EngineOK(d.eng) /\ members \in Seq(DOMAIN d.eng.jobs)
  BY DEF DaemonOK, ChannelsOK, ChannelOK, ChannelType
<1>2. EngineOK(t) /\ OnlyCompletes(d.eng, t, {})
  <2> HIDE DEF members
  <2> QED BY <1>1, PeersFailedOK
<1>3. Kill(d, i, j) = [d EXCEPT !.managed = m, !.eng = t]
  BY DEF Kill
<1>4. d = [eng |-> d.eng, managed |-> d.managed, inbox |-> d.inbox, chans |-> d.chans]
  BY DEF DaemonOK, IsDaemon
<1> HIDE DEF t, m
<1>5. Kill(d, i, j) = WithEngine(d, m, t)
  BY <1>3, <1>4 DEF WithEngine
<1>6. \A k \in {} : \A l \in ChannelsOf(d.chans, k) : d.chans[l].closed
  OBVIOUS
<1>7. DaemonOK(WithEngine(d, m, t), ev)
  BY <1>2, <1>6, EngineChangeOK
<1>8. Spares(d, WithEngine(d, m, t))
  BY <1>2 DEF Spares, WithEngine, OnlyCompletes
<1> QED BY <1>5, <1>7, <1>8

LEMMA PeerFailureOK ==
  ASSUME NEW d, NEW ev, DaemonOK(d, ev), NEW i \in DOMAIN d.chans, NEW j
  PROVE  DaemonOK(PeerFailure(d, i, j), ev) /\ Spares(d, PeerFailure(d, i, j))
<1> DEFINE x == d.chans[i]
           e == WithChannel(d, i, Closed(x))
<1>1. ChannelOK(x, d.eng.jobs)
  BY DEF DaemonOK, ChannelsOK
<1>2. /\ DaemonOK(e, ev) /\ e.eng = d.eng
      /\ DOMAIN e.chans = DOMAIN d.chans
  <2> HIDE DEF e
  <2>1. /\ DaemonOK(WithChannel(d, i, Closed(x)), ev)
        /\ WithChannel(d, i, Closed(x)).eng = d.eng
        /\ DOMAIN WithChannel(d, i, Closed(x)).chans = DOMAIN d.chans
    BY <1>1, CloseOK
  <2> QED BY <2>1 DEF e
<1>3. [d EXCEPT !.chans[i] = Closed(@)] = e
  <2>1. d = [eng |-> d.eng, managed |-> d.managed, inbox |-> d.inbox, chans |-> d.chans]
    BY DEF DaemonOK, IsDaemon
  <2> QED BY <2>1 DEF WithChannel
<1> HIDE DEF e
<1>4. CASE x.policy = "KillAll"
  <2>1. PeerFailure(d, i, j) = Kill(e, i, j)
    BY <1>3, <1>4 DEF PeerFailure
  <2>2. DaemonOK(Kill(e, i, j), ev) /\ Spares(e, Kill(e, i, j))
    BY <1>2, KillOK
  <2> QED BY <1>2, <2>1, <2>2 DEF Spares
<1>5. CASE x.policy # "KillAll"
  <2> DEFINE K == OtherPlaces(x, j)
             members == x.members
  <2>1. PeerFailure(d, i, j) = Send(e, members, K, Notice)
    BY <1>3, <1>5 DEF PeerFailure
  <2>2. K \subseteq DOMAIN members /\ IsFiniteSet(DOMAIN members)
    <3>1. members \in Seq(DOMAIN d.eng.jobs)
      BY <1>1 DEF ChannelOK, ChannelType
    <3> QED BY <3>1, FinitePlaces DEF OtherPlaces
  <2> HIDE DEF K, members
  <2>3. IsFiniteSet(K)
    BY <2>2, FS_Subset
  <2>4. DaemonOK(Send(e, members, K, Notice), ev)
    BY <1>2, <2>3, SendNoticeOK
  <2>5. Send(e, members, K, Notice).eng = e.eng /\ Send(e, members, K, Notice).chans = e.chans
    BY <1>2, SendKeeps DEF DaemonOK
  <2> QED BY <1>2, <2>1, <2>4, <2>5 DEF Spares
<1> QED BY <1>4, <1>5

LEMMA FailJobOK ==
  ASSUME NEW d, NEW ev, DaemonOK(d, ev), NEW j \in DOMAIN d.eng.jobs, NEW t \in FailJob(d, j)
  PROVE  DaemonOK(t, ev) /\ Spares(d, t)
<1> DEFINE m == d.managed \ {j}
           e == WithEngine(d, m, d.eng)
           S == OpenChannelsOf(d.chans, j)
<1>1. [d EXCEPT !.managed = @ \ {j}] = e
  <2>1. d = [eng |-> d.eng, managed |-> d.managed, inbox |-> d.inbox, chans |-> d.chans]
    BY DEF DaemonOK, IsDaemon
  <2> QED BY <2>1 DEF WithEngine
<1>2. DaemonOK(e, ev)
  <2>1. EngineOK(d.eng) /\ OnlyCompletes(d.eng, d.eng, {})
    BY DEF DaemonOK, OnlyCompletes
  <2>2. \A k \in {} : \A l \in ChannelsOf(d.chans, k) : d.chans[l].closed
    OBVIOUS
  <2> HIDE DEF m
  <2> QED BY <2>1, <2>2, EngineChangeOK
<1>3. Spares(d, e)
  BY DEF Spares, WithEngine
<1>4. PICK order \in Orderings(S) :
        LET u == PeerFailures(e, j, order)[Len(order)]
        IN  t = [u EXCEPT !.eng = MarkFailed(@, j)]
  BY <1>1 DEF FailJob
<1> HIDE DEF e
<1>5. S \subseteq DOMAIN d.chans
  BY DEF OpenChannelsOf, ChannelsOf
<1>6. IsFiniteSet(S)
  <2>1. d.chans \in Seq(ChannelType(DOMAIN d.eng.jobs))
    BY DEF DaemonOK, ChannelsOK
  <2>2. IsFiniteSet(DOMAIN d.chans)
    BY <2>1, LenProperties, FS_Interval
  <2> HIDE DEF S
  <2> QED BY <1>5, <2>2, FS_Subset
<1> HIDE DEF S
<1> DEFINE n == Len(order)
           After(k) == PeerFailures(e, j, order)[k]
           T == {k \in 0..n : DaemonOK(After(k), ev) /\ Spares(d, After(k))}
<1>7. n \in Nat /\ \A k \in 1..n : order[k] \in DOMAIN d.chans
  <2>1. order \in Seq(S)
    BY <1>6, EntriesOfOrdering
  <2> QED BY <1>5, <2>1, ElementOfSeq
<1>8. After(0) = e /\ \A k \in 1..n : After(k) = PeerFailure(After(k - 1), order[k], j)
  BY <1>7, PeerFailuresRounds
<1>9. t = [After(n) EXCEPT !.eng = MarkFailed(@, j)]
  BY <1>4
<1> HIDE DEF n, After
<1>10. 0 \in T
  BY <1>2, <1>3, <1>7, <1>8
<1>11. ASSUME NEW k \in 1..n, k - 1 \in T PROVE k \in T
  <2> DEFINE a == After(k - 1)
  <2>1. DaemonOK(a, ev) /\ Spares(d, a) /\ order[k] \in DOMAIN a.chans
    BY <1>7, <1>11 DEF Spares
  <2>2. After(k) = PeerFailure(a, order[k], j) /\ k \in 0..n
    BY <1>7, <1>8
  <2> HIDE DEF a
  <2>3. DaemonOK(After(k), ev) /\ Spares(a, After(k))
    BY <2>1, <2>2, PeerFailureOK
  <2> QED BY <2>1, <2>2, <2>3 DEF Spares
<1>12. DaemonOK(After(n), ev) /\ Spares(d, After(n))
  <2> HIDE DEF T
  <2>1. \A k \in 0..n : k \in T
    BY <1>7, <1>10, <1>11, FromZero
  <2>2. n \in 0..n
    BY <1>7
  <2> QED BY <2>1, <2>2 DEF T
<1> DEFINE u == After(n)
           s == MarkFailed(u.eng, j)
<1>13. DaemonOK(u, ev) /\ Spares(d, u)
  BY <1>12
<1>14. t = [u EXCEPT !.eng = MarkFailed(@, j)]
  BY <1>9
<1> HIDE DEF u
<1>15. EngineOK(s) /\ OnlyCompletes(u.eng, s, {})
  BY <1>13, MarkFailedCompletes DEF DaemonOK, Spares
<1>16. u = [eng |-> u.eng, managed |-> u.managed, inbox |-> u.inbox, chans |-> u.chans]
  BY <1>13 DEF DaemonOK, IsDaemon
<1>17. t = WithEngine(u, u.managed, s)
  BY <1>14, <1>16 DEF WithEngine
<1> HIDE DEF s
<1>18. \A k \in {} : \A l \in ChannelsOf(u.chans, k) : u.chans[l].closed
  OBVIOUS
<1>19. DaemonOK(WithEngine(u, u.managed, s), ev)
  BY <1>13, <1>15, <1>18, EngineChangeOK
<1>20. Spares(u, WithEngine(u, u.managed, s))
  BY <1>15 DEF Spares, WithEngine, OnlyCompletes
<1> QED BY <1>13, <1>17, <1>19, <1>20 DEF Spares

-----------------------------------------------------------------------------
(* Jobs that complete.                                                     *)

LEMMA MarkCompletedCompletes ==
  ASSUME NEW s, EngineOK(s), NEW j \in DOMAIN s.jobs, NEW order \in Orderings(PromotedBy(s, j))
  PROVE  /\ EngineOK(MarkCompleted(s, j, order))
         /\ OnlyCompletes(s, MarkCompleted(s, j, order), {j})
<1> DEFINE t == MarkCompleted(s, j, order)
<1>1. /\ Settles(s, t, j, "Completed", PromotedBy(s, j))
      /\ j \in s.active => Concludes(s, t, s.jobs[j].run)
      /\ j \notin s.active => t.runs = s.runs
  BY MarkCompletedEffect
<1> HIDE DEF t
<1>2. OnlyCompletes(s, t, {j})
  <2>1. DOMAIN t.runs = DOMAIN s.runs
    BY <1>1 DEF Concludes
  <2>2. /\ DOMAIN t.jobs = DOMAIN s.jobs
        /\ \A i \in DOMAIN s.jobs \ {j} :
             t.jobs[i].status = "Completed" => s.jobs[i].status = "Completed"
    BY <1>1 DEF Settles
  <2> QED BY <2>1, <2>2 DEF OnlyCompletes
<1> QED BY <1>2, MarkCompletedOK DEF t

\* A job completes: one that ran in a capsule, or whose channels are all closed.
LEMMA CompleteOneOK ==
  ASSUME NEW d, NEW ev, DaemonOK(d, ev), NEW j \in DOMAIN d.eng.jobs,
         ~sandbox => \A i \in ChannelsOf(d.chans, j) : d.chans[i].closed,
         NEW t \in CompleteOne(d, j)
  PROVE  DaemonOK(t, ev) /\ DOMAIN t.eng.jobs = DOMAIN d.eng.jobs /\ t.chans = d.chans
<1>1. PICK order \in Orderings(PromotedBy(d.eng, j)) :
        t = [d EXCEPT !.managed = @ \ {j}, !.eng = MarkCompleted(@, j, order)]
  BY DEF CompleteOne
<1> DEFINE m == d.managed \ {j}
           s == MarkCompleted(d.eng, j, order)
<1>2. t = [d EXCEPT !.managed = m, !.eng = s]
  BY <1>1
<1>3. EngineOK(s) /\ OnlyCompletes(d.eng, s, {j})
  BY MarkCompletedCompletes DEF DaemonOK
<1>4. d = [eng |-> d.eng, managed |-> d.managed, inbox |-> d.inbox, chans |-> d.chans]
  BY DEF DaemonOK, IsDaemon
<1> HIDE DEF m, s
<1>5. t = WithEngine(d, m, s)
  BY <1>2, <1>4 DEF WithEngine
<1>6. DaemonOK(WithEngine(d, m, s), ev)
  BY <1>3, EngineChangeOK
<1> QED BY <1>3, <1>5, <1>6 DEF WithEngine, OnlyCompletes

\* The participants of a closed channel complete, those that have another open
\* channel apart.
LEMMA CompleteAllOK ==
  ASSUME NEW d, NEW ev, DaemonOK(d, ev), NEW i \in DOMAIN d.chans, d.chans[i].closed,
         NEW t \in CompleteAll(d, i)
  PROVE  DaemonOK(t, ev) /\ DOMAIN t.eng.jobs = DOMAIN d.eng.jobs /\ t.chans = d.chans
<1> DEFINE members == d.chans[i].members
           n == Len(members)
           After(k) == Completions({d}, i, members)[k]
           Like(e) == DaemonOK(e, ev) /\ DOMAIN e.eng.jobs = DOMAIN d.eng.jobs /\ e.chans = d.chans
           T == {k \in 0..n : \A e \in After(k) : Like(e)}
<1>1. n \in Nat /\ \A k \in 1..n : members[k] \in DOMAIN d.eng.jobs
  <2>1. members \in Seq(DOMAIN d.eng.jobs)
    BY DEF DaemonOK, ChannelsOK, ChannelOK, ChannelType
  <2> QED BY <2>1, ElementOfSeq
<1>2. /\ After(0) = {d}
      /\ \A k \in 1..n : After(k) = CompleteNext(After(k - 1), i, members[k])
  BY <1>1, CompletionsRounds
<1>3. t \in After(n)
  BY DEF CompleteAll
<1> HIDE DEF n, After, members
<1>4. 0 \in T
  <2>1. Like(d)
    OBVIOUS
  <2> QED BY <1>1, <1>2, <2>1
<1>5. ASSUME NEW k \in 1..n, k - 1 \in T PROVE k \in T
  <2> DEFINE j == members[k]
  <2>1. ASSUME NEW e \in After(k) PROVE Like(e)
    <3>1. PICK a \in After(k - 1) : e \in IF Finishes(a, i, j) THEN CompleteOne(a, j) ELSE {a}
      BY <1>2 DEF CompleteNext
    <3>2. Like(a)
      BY <1>5
    <3>3. CASE Finishes(a, i, j)
      <4>1. \A l \in ChannelsOf(a.chans, j) : a.chans[l].closed
        BY <3>2, <3>3 DEF Finishes
      <4>2. j \in DOMAIN a.eng.jobs
        BY <1>1, <3>2
      <4>3. e \in CompleteOne(a, j)
        BY <3>1, <3>3
      <4> HIDE DEF j
      <4>4. DaemonOK(e, ev) /\ DOMAIN e.eng.jobs = DOMAIN a.eng.jobs /\ e.chans = a.chans
        BY <3>2, <4>1, <4>2, <4>3, CompleteOneOK
      <4> QED BY <3>2, <4>4
    <3>4. CASE ~Finishes(a, i, j)
      BY <3>1, <3>2, <3>4
    <3> QED BY <3>3, <3>4
  <2>2. k \in 0..n
    BY <1>1
  <2> HIDE DEF Like
  <2> QED BY <2>1, <2>2
<1> HIDE DEF T
<1>6. \A k \in 0..n : k \in T
  BY <1>1, <1>4, <1>5, FromZero
<1>7. n \in T
  BY <1>1, <1>6
<1>8. Like(t)
  BY <1>3, <1>7 DEF T
<1> QED BY <1>8

-----------------------------------------------------------------------------
(* A plan with its channels.                                               *)

LEMMA PlacesOfConcat ==
  ASSUME NEW S, NEW p \in Seq(S), NEW q \in Seq(S)
  PROVE  /\ p \o q \in Seq(S)
         /\ DOMAIN p \subseteq DOMAIN (p \o q)
         /\ \A k \in DOMAIN p : (p \o q)[k] = p[k]
         /\ \A k \in DOMAIN (p \o q) \ DOMAIN p : k - Len(p) \in DOMAIN q /\ (p \o q)[k] = q[k - Len(p)]
<1>1. /\ p \o q \in Seq(S) /\ Len(p \o q) = Len(p) + Len(q)
      /\ \A k \in 1..Len(p) + Len(q) : (p \o q)[k] = IF k <= Len(p) THEN p[k] ELSE q[k - Len(p)]
  BY ConcatProperties
<1>2. /\ Len(p) \in Nat /\ DOMAIN p = 1..Len(p) /\ Len(q) \in Nat /\ DOMAIN q = 1..Len(q)
      /\ DOMAIN (p \o q) = 1..Len(p) + Len(q)
  BY <1>1, LenProperties
<1>3. \A k \in 1..Len(p) : k \in 1..Len(p) + Len(q) /\ k <= Len(p)
  BY <1>2
<1>4. \A k \in (1..Len(p) + Len(q)) \ (1..Len(p)) : ~(k <= Len(p)) /\ k - Len(p) \in 1..Len(q)
  BY <1>2
<1> QED BY <1>1, <1>2, <1>3, <1>4

\* New jobs, and channels between them.
WithChannels(d, s, new) ==
  [eng |-> s, managed |-> d.managed, inbox |-> d.inbox, chans |-> d.chans \o new]

LEMMA MoreChannelsOK ==
  ASSUME NEW d, NEW ev, DaemonOK(d, ev),
         NEW s, EngineOK(s), 1 \in DOMAIN s.runs,
         DOMAIN d.eng.jobs \subseteq DOMAIN s.jobs,
         \A j \in DOMAIN d.eng.jobs : s.jobs[j] = d.eng.jobs[j],
         NEW new \in Seq(ChannelType(DOMAIN s.jobs)),
         \A i \in DOMAIN new : /\ ChannelOK(new[i], s.jobs)
                               /\ Entries(new[i].members) \cap DOMAIN d.eng.jobs = {}
  PROVE  DaemonOK(WithChannels(d, s, new), ev)
<1> DEFINE J == DOMAIN d.eng.jobs
           c == d.chans \o new
           t == [eng |-> s, managed |-> d.managed, inbox |-> d.inbox, chans |-> c]
           S == ChannelType(DOMAIN s.jobs)
<1>1. ASSUME NEW i \in DOMAIN d.chans PROVE ChannelOK(d.chans[i], s.jobs)
  <2>1. ChannelOK(d.chans[i], d.eng.jobs)
    BY DEF DaemonOK, ChannelsOK
  <2>2. d.chans[i].members \in Seq(J)
    BY <2>1 DEF ChannelOK, ChannelType
  <2>3. d.chans[i].members \in Seq(DOMAIN s.jobs) /\ Entries(d.chans[i].members) \subseteq J
    BY <2>2, EntriesOfSeq, SeqDef
  <2> QED BY <2>1, <2>3 DEF ChannelOK, ChannelType
<1>2. d.chans \in Seq(S)
  <2>1. d.chans \in Seq(ChannelType(J))
    BY DEF DaemonOK, ChannelsOK
  <2>2. Len(d.chans) \in Nat /\ d.chans \in [1..Len(d.chans) -> ChannelType(J)] /\ DOMAIN d.chans = 1..Len(d.chans)
    BY <2>1, LenProperties
  <2>3. \A i \in 1..Len(d.chans) : d.chans[i] \in S
    BY <1>1, <2>2 DEF ChannelOK
  <2> HIDE DEF S
  <2>4. d.chans \in [1..Len(d.chans) -> S]
    BY <2>2, <2>3
  <2> QED BY <2>2, <2>4, IsASeq
<1>3. /\ c \in Seq(S)
      /\ DOMAIN d.chans \subseteq DOMAIN c
      /\ \A i \in DOMAIN d.chans : c[i] = d.chans[i]
      /\ \A i \in DOMAIN c \ DOMAIN d.chans : i - Len(d.chans) \in DOMAIN new /\ c[i] = new[i - Len(d.chans)]
  <2> HIDE DEF S
  <2> QED BY <1>2, PlacesOfConcat DEF S
<1> HIDE DEF c, J
<1>4. ChannelsOK(c, s.jobs)
  BY <1>1, <1>3 DEF ChannelsOK
<1>5. \A j \in J : ChannelsOf(c, j) = ChannelsOf(d.chans, j)
  BY <1>3 DEF ChannelsOf, J
<1>6. InboxOK(d.inbox, c, DOMAIN s.jobs)
  <2>1. InboxOK(d.inbox, d.chans, J)
    BY DEF DaemonOK, J
  <2>2. ASSUME NEW w \in DOMAIN d.inbox PROVE d.inbox[w] \in Seq(Commands(c, w[1]))
    <3> DEFINE A == Commands(d.chans, w[1])
               B == Commands(c, w[1])
    <3>1. w[1] \in J /\ d.inbox[w] \in Seq(A)
      BY <2>1 DEF InboxOK
    <3>2. A \subseteq B
      BY <1>3, <1>5, <3>1 DEF Commands, Executed
    <3> HIDE DEF A, B
    <3>3. d.inbox[w] \in Seq(B)
      BY <3>1, <3>2, SeqDef
    <3> QED BY <3>3 DEF B
  <2> QED BY <2>1, <2>2 DEF InboxOK, J
<1>7. ev \in Seq(Reports(c, DOMAIN s.jobs))
  <2> DEFINE A == Reports(d.chans, J)
             B == Reports(c, DOMAIN s.jobs)
  <2>1. ev \in Seq(A)
    BY DEF DaemonOK, J
  <2>2. A \subseteq B
    <3>1. J \subseteq DOMAIN s.jobs
      BY DEF J
    <3>2. \A j \in J : Executed(c, j) <=> Executed(d.chans, j)
      BY <1>5 DEF Executed
    <3> QED BY <1>3, <3>1, <3>2 DEF Reports, Failures, Replies
  <2> HIDE DEF A, B
  <2>3. ev \in Seq(B)
    BY <2>1, <2>2, SeqDef
  <2> QED BY <2>3 DEF B
<1>8. ASSUME NEW i, i \notin DOMAIN d.chans PROVE Quiet(d.inbox, ev, i)
  <2>1. ASSUME NEW w \in DOMAIN d.inbox PROVE Spoken(d.inbox[w], i) = {}
    <3>1. d.inbox[w] \in Seq(Commands(d.chans, w[1]))
      BY DEF DaemonOK, InboxOK
    <3>2. Message(i) \notin Commands(d.chans, w[1])
      BY <1>8 DEF Commands, Message, Setup, Notice, Execute
    <3> QED BY <3>1, <3>2, EntriesOfSeq DEF Spoken, Entries
  <2>2. Said(ev, i) = {}
    <3>1. ev \in Seq(Reports(d.chans, J))
      BY DEF DaemonOK, J
    <3>2. \A e \in Reports(d.chans, J) : e.type = "message" => e.channel \in DOMAIN d.chans
      BY DEF Reports, Failures, Replies, Event
    <3> QED BY <1>8, <3>1, <3>2, EntriesOfSeq DEF Said, Entries
  <2> QED BY <2>1, <2>2 DEF Quiet
<1>9. Voices(d.inbox, ev, c)
  <2>1. Voices(d.inbox, ev, d.chans)
    BY DEF DaemonOK
  <2> QED BY <1>3, <1>8, <2>1, QuietIsSingle DEF Voices
<1>10. t.eng = s /\ t.managed = d.managed /\ t.inbox = d.inbox /\ t.chans = c
  OBVIOUS
<1>11. IsDaemon(t)
  BY <1>10 DEF IsDaemon
<1> HIDE DEF t
<1>12. DaemonOK(t, ev)
  BY <1>4, <1>6, <1>7, <1>9, <1>10, <1>11 DEF DaemonOK
<1> QED BY <1>12 DEF t, c, WithChannels

\* The channels of a plan join the jobs the plan has become.
LEMMA NewChannelsOK ==
  ASSUME NEW s, EngineType(s), NEW jobs, NEW planned \in Seq(PlannedChannel), NEW n \in Nat,
         s.nextJob .. s.nextJob + n - 1 \subseteq DOMAIN jobs,
         \A j \in s.nextJob .. s.nextJob + n - 1 : jobs[j].status # "Completed",
         \A i \in DOMAIN planned : /\ Entries(planned[i].members) \subseteq 1..n
                                   /\ Len(planned[i].members) >= 1
  PROVE  LET new == MaterializedChannels(s, planned) IN
         /\ new \in Seq(ChannelType(DOMAIN jobs))
         /\ \A i \in DOMAIN new : /\ ChannelOK(new[i], jobs)
                                  /\ Entries(new[i].members) \cap DOMAIN s.jobs = {}
<1> DEFINE new == MaterializedChannels(s, planned)
           J == s.nextJob .. s.nextJob + n - 1
           members(i) == [k \in DOMAIN planned[i].members |-> s.nextJob + planned[i].members[k] - 1]
<1>1. s.nextJob \in Nat /\ DOMAIN s.jobs \subseteq 1 .. s.nextJob - 1
  BY TypeParts
<1>2. ASSUME NEW i \in DOMAIN planned
      PROVE  /\ planned[i] \in PlannedChannel
             /\ members(i) \in Seq(J) /\ members(i) # <<>> /\ 1 \in DOMAIN members(i)
  <2> DEFINE q == planned[i].members
  <2>1. planned[i] \in PlannedChannel
    BY ElementOfSeq, LenProperties
  <2>2. q \in Seq(Nat) /\ Len(q) >= 1 /\ Entries(q) \subseteq 1..n
    BY <2>1 DEF PlannedChannel
  <2> HIDE DEF q
  <2>3. Len(q) \in Nat /\ DOMAIN q = 1..Len(q) /\ \A k \in 1..Len(q) : q[k] \in 1..n
    BY <2>2, LenProperties DEF Entries
  <2>4. \A k \in 1..Len(q) : s.nextJob + q[k] - 1 \in J
    BY <1>1, <2>3
  <2>5. members(i) = [k \in 1..Len(q) |-> s.nextJob + q[k] - 1]
    BY <2>3 DEF q
  <2> HIDE DEF members, J
  <2>6. members(i) \in [1..Len(q) -> J]
    BY <2>4, <2>5
  <2>7. members(i) \in Seq(J)
    BY <2>3, <2>6, IsASeq
  <2>8. 1 \in DOMAIN members(i)
    BY <2>2, <2>3, <2>6
  <2> QED BY <2>1, <2>7, <2>8
<1>3. DOMAIN new = DOMAIN planned
  BY DEF MaterializedChannels
<1>4. ASSUME NEW i \in DOMAIN planned
      PROVE  /\ new[i].members = members(i)
             /\ new[i].speaker = 1 /\ ~new[i].active /\ ~new[i].closed
             /\ members(i) \in Seq(DOMAIN jobs) => new[i] \in ChannelType(DOMAIN jobs)
  BY <1>2 DEF MaterializedChannels, PlannedChannel, ChannelType
<1> HIDE DEF new, members
<1>5. ASSUME NEW i \in DOMAIN planned
      PROVE  /\ new[i] \in ChannelType(DOMAIN jobs)
             /\ ChannelOK(new[i], jobs)
             /\ Entries(new[i].members) \cap DOMAIN s.jobs = {}
  <2>1. members(i) \in Seq(DOMAIN jobs) /\ Entries(members(i)) \subseteq J
    <3> HIDE DEF J
    <3>1. J \subseteq DOMAIN jobs
      BY DEF J
    <3> QED BY <1>2, <3>1, EntriesOfSeq, SeqDef
  <2>2. J \cap DOMAIN s.jobs = {}
    BY <1>1
  <2>3. \A j \in J : jobs[j].status # "Completed"
    OBVIOUS
  <2> HIDE DEF J
  <2> QED BY <1>2, <1>4, <2>1, <2>2, <2>3 DEF ChannelOK
<1>6. new \in Seq(ChannelType(DOMAIN jobs))
  <2>1. Len(planned) \in Nat /\ DOMAIN planned = 1..Len(planned)
    BY LenProperties
  <2>2. new = [i \in 1..Len(planned) |-> new[i]]
    BY <1>3, <2>1 DEF new, MaterializedChannels
  <2> DEFINE S == ChannelType(DOMAIN jobs)
  <2>3. \A i \in 1..Len(planned) : new[i] \in S
    BY <1>5, <2>1
  <2> HIDE DEF S
  <2>4. new \in [1..Len(planned) -> S]
    BY <2>2, <2>3
  <2>5. new \in Seq(S)
    BY <2>1, <2>4, IsASeq
  <2> QED BY <2>5 DEF S
<1> QED BY <1>3, <1>5, <1>6 DEF new

LEMMA MaterializedOK ==
  ASSUME NEW d, NEW ev, DaemonOK(d, ev), NEW plan \in ChannelPlans, NEW t \in Materialized(d, plan)
  PROVE  DaemonOK(t, ev) /\ DOMAIN d.eng.jobs \subseteq DOMAIN t.eng.jobs
<1> DEFINE s == d.eng
           new == MaterializedChannels(s, plan.channels)
<1>1. PICK roots \in Listings(PlanRoots(s, plan.jobs)) :
        t = [d EXCEPT !.eng = MaterializePlan(@, 1, plan.jobs, roots), !.chans = @ \o new]
  BY DEF Materialized
<1> DEFINE u == MaterializePlan(s, 1, plan.jobs, roots)
<1>2. /\ plan.jobs \in PlanSteps /\ ValidPlan(plan.jobs)
      /\ plan.channels \in Seq(PlannedChannel)
      /\ \A i \in DOMAIN plan.channels :
           /\ Entries(plan.channels[i].members) \subseteq DOMAIN plan.jobs
           /\ Len(plan.channels[i].members) >= 1
  <2> DEFINE A == [role : {"worker"}, profile : Profiles, deps : Seq(Nat)]
             B == [role : Roles, profile : ProfileNames, deps : Seq(Nat)]
  <2>1. plan.jobs \in Seq(A) /\ plan.channels \in Seq(PlannedChannel) /\ ValidPlan(plan.jobs)
    BY ChannelAssumption
  <2>2. A \subseteq B
    BY EngineAssumption DEF Roles
  <2>3. plan.jobs \in Seq(B)
    <3> HIDE DEF A, B
    <3> QED BY <2>1, <2>2, SeqDef
  <2>4. ASSUME NEW i \in DOMAIN plan.channels
        PROVE  /\ Entries(plan.channels[i].members) \subseteq DOMAIN plan.jobs
               /\ Len(plan.channels[i].members) >= 1
    <3>1. /\ Entries(plan.channels[i].members) \subseteq DOMAIN plan.jobs
          /\ Len(plan.channels[i].members) >=
               IF plan.channels[i].mode = "TurnBased" THEN 2 ELSE 1
      BY ChannelAssumption
    <3>2. plan.channels[i].members \in Seq(Nat)
      <4>1. plan.channels[i] \in PlannedChannel
        <5> HIDE DEF A, B
        <5> QED BY <2>1, ElementOfSeq, LenProperties
      <4> QED BY <4>1 DEF PlannedChannel
    <3>3. Len(plan.channels[i].members) \in Nat
      BY <3>2, LenProperties
    <3> QED BY <3>1, <3>3
  <2> QED BY <2>1, <2>3, <2>4 DEF PlanSteps
<1>3. EngineOK(s) /\ 1 \in DOMAIN s.runs
  BY DEF DaemonOK
<1>4. EngineOK(u)
  BY <1>2, <1>3, MaterializePlanOK
<1>5. PICK recs : /\ Grows(s, u, 1, recs) /\ Len(recs) = Len(plan.jobs)
  <2>1. EngineType(s)
    BY <1>3 DEF EngineOK
  <2> QED BY <1>2, <1>3, <2>1, MaterializePlanGrows
<1> HIDE DEF u
<1> DEFINE n == Len(plan.jobs)
<1>6. n \in Nat /\ DOMAIN plan.jobs = 1..n
  BY <1>2, LenProperties DEF PlanSteps
<1>7. /\ s.nextJob \in Nat /\ DOMAIN s.jobs \subseteq 1 .. s.nextJob - 1
      /\ 1 \in DOMAIN u.runs
      /\ DOMAIN u.jobs = DOMAIN s.jobs \cup (s.nextJob .. s.nextJob + n - 1)
      /\ \A j \in DOMAIN s.jobs : u.jobs[j] = s.jobs[j]
      /\ \A j \in DOMAIN u.jobs \ DOMAIN s.jobs : u.jobs[j] = recs[j - s.nextJob + 1]
      /\ \A i \in 1..n : recs[i].status # "Completed"
  <2>1. s.nextJob \in Nat /\ DOMAIN s.jobs \subseteq 1 .. s.nextJob - 1
    BY <1>3, TypeParts DEF EngineOK
  <2> QED BY <1>5, <2>1 DEF Grows
<1>8. \A j \in s.nextJob .. s.nextJob + n - 1 : u.jobs[j].status # "Completed"
  <2>1. ASSUME NEW j \in s.nextJob .. s.nextJob + n - 1
        PROVE  j \in DOMAIN u.jobs \ DOMAIN s.jobs /\ j - s.nextJob + 1 \in 1..n
    BY <1>6, <1>7
  <2> QED BY <1>7, <2>1
<1>9. /\ new \in Seq(ChannelType(DOMAIN u.jobs))
      /\ \A i \in DOMAIN new : /\ ChannelOK(new[i], u.jobs)
                               /\ Entries(new[i].members) \cap DOMAIN s.jobs = {}
  <2>1. EngineType(s)
    BY <1>3 DEF EngineOK
  <2>2. s.nextJob .. s.nextJob + n - 1 \subseteq DOMAIN u.jobs
    BY <1>7
  <2>3. \A i \in DOMAIN plan.channels : /\ Entries(plan.channels[i].members) \subseteq 1..n
                                        /\ Len(plan.channels[i].members) >= 1
    BY <1>2, <1>6
  <2> DEFINE planned == plan.channels
             jobs == u.jobs
  <2>4. planned \in Seq(PlannedChannel)
    BY <1>2
  <2> HIDE DEF n, s, planned, jobs
  <2>5. LET added == MaterializedChannels(s, planned) IN
        /\ added \in Seq(ChannelType(DOMAIN jobs))
        /\ \A i \in DOMAIN added : /\ ChannelOK(added[i], jobs)
                                   /\ Entries(added[i].members) \cap DOMAIN s.jobs = {}
    BY <1>6, <1>8, <2>1, <2>2, <2>3, <2>4, NewChannelsOK DEF planned, jobs
  <2> QED BY <2>5 DEF planned, jobs
<1>10. t = [eng |-> u, managed |-> d.managed, inbox |-> d.inbox, chans |-> d.chans \o new]
  <2> DEFINE c == d.chans \o new
  <2>1. d = [eng |-> d.eng, managed |-> d.managed, inbox |-> d.inbox, chans |-> d.chans]
    BY DEF DaemonOK, IsDaemon
  <2>2. t = [d EXCEPT !.eng = u, !.chans = c]
    BY <1>1 DEF u
  <2> HIDE DEF c
  <2>3. t = [eng |-> u, managed |-> d.managed, inbox |-> d.inbox, chans |-> c]
    BY <2>1, <2>2
  <2> QED BY <2>3 DEF c
<1>11. DOMAIN d.eng.jobs \subseteq DOMAIN u.jobs /\ \A j \in DOMAIN d.eng.jobs : u.jobs[j] = d.eng.jobs[j]
  BY <1>7
<1> HIDE DEF new
<1>12. DaemonOK(t, ev)
  <2>1. DaemonOK(WithChannels(d, u, new), ev)
    <3> DEFINE S == ChannelType(DOMAIN u.jobs)
    <3>1. /\ new \in Seq(S)
          /\ \A i \in DOMAIN new : /\ ChannelOK(new[i], u.jobs)
                                   /\ Entries(new[i].members) \cap DOMAIN d.eng.jobs = {}
      BY <1>9
    <3>2. 1 \in DOMAIN u.runs
      BY <1>7
    <3> HIDE DEF S, s
    <3> QED BY <1>4, <1>11, <3>1, <3>2, MoreChannelsOK DEF S
  <2> QED BY <1>10, <2>1 DEF WithChannels
<1> QED BY <1>10, <1>11, <1>12

-----------------------------------------------------------------------------
(* The steps of the daemon.                                                *)

LEMMA DaemonFields ==
  /\ Daemon.eng = eng /\ Daemon.managed = managed
  /\ Daemon.inbox = inbox /\ Daemon.chans = chans
BY DEF Daemon

\* The invariant in the state after a step, which leaves the isolation alone.
LEMMA KeepsIInv ==
  ASSUME sandbox' = sandbox, DaemonOK(Daemon', events'), stale' \subseteq (DOMAIN eng'.jobs) \X Nat
  PROVE  IInv'
<1>1. \A c, j : Executed(c, j)' <=> Executed(c, j)
  BY DEF Executed
<1>2. \A c, j : Commands(c, j)' = Commands(c, j)
  BY <1>1 DEF Commands
<1>3. ASSUME NEW c, NEW J PROVE Reports(c, J)' = Reports(c, J)
  <2>1. {k \in J : Executed(c, k)}' = {k \in J : Executed(c, k)}
    BY <1>1
  <2> DEFINE completed(K) == {Event("completed", j, 0) : j \in K}
  <2>2. completed({k \in J : Executed(c, k)}') = completed({k \in J : Executed(c, k)})
    BY <2>1
  <2> QED BY <2>2 DEF Reports, Failures, Replies
<1>4. \A c, jobs : ChannelsOK(c, jobs)' <=> ChannelsOK(c, jobs)
  BY DEF ChannelsOK, ChannelOK
<1>5. \A box, c, J : InboxOK(box, c, J)' <=> InboxOK(box, c, J)
  BY <1>2 DEF InboxOK
<1>6. DaemonOK(Daemon, events)'
  BY <1>3, <1>4, <1>5 DEF DaemonOK
<1> QED BY <1>6 DEF IInv

\* The event at the head of the queue is taken.
LEMMA EventTaken ==
  ASSUME NEW d, NEW ev, DaemonOK(d, ev), ev # <<>>
  PROVE  DaemonOK(d, Tail(ev)) /\ Head(ev) \in Reports(d.chans, DOMAIN d.eng.jobs)
<1> DEFINE S == Reports(d.chans, DOMAIN d.eng.jobs)
<1>1. ev \in Seq(S)
  BY DEF DaemonOK
<1> HIDE DEF S
<1>2. Tail(ev) \in Seq(S) /\ Head(ev) \in S
  BY <1>1, PlacesOfTail
<1>3. ASSUME NEW i PROVE /\ Quiet(d.inbox, ev, i) => Quiet(d.inbox, Tail(ev), i)
                         /\ Single(d.inbox, ev, i) => Single(d.inbox, Tail(ev), i)
  <2>1. \A k \in Said(Tail(ev), i) : k \in Nat /\ k + 1 \in Said(ev, i)
    BY <1>1, SaidInTail
  <2> QED BY <2>1, FewerVoices
<1>4. Voices(d.inbox, Tail(ev), d.chans)
  BY <1>3 DEF DaemonOK, Voices
<1>5. DaemonOK(d, Tail(ev))
  BY <1>2, <1>4 DEF DaemonOK, S
<1> QED BY <1>2, <1>5 DEF S

\* What is said of a message makes its channel quiet when it is taken.
LEMMA TurnTaken ==
  ASSUME NEW S, NEW ev \in Seq(S), ev # <<>>, NEW box, NEW i, Single(box, ev, i),
         Head(ev).type = "message", Head(ev).channel = i
  PROVE  Quiet(box, Tail(ev), i)
<1>1. 1 \in Said(ev, i)
  BY SaidInTail
<1>2. \A w \in DOMAIN box : Spoken(box[w], i) = {}
  BY <1>1 DEF Single
<1>3. ASSUME NEW k \in Said(Tail(ev), i) PROVE FALSE
  <2>1. k \in Nat \ {0} /\ k + 1 \in Said(ev, i)
    BY SaidInTail
  <2>2. k + 1 = 1
    BY <1>1, <2>1 DEF Single
  <2> QED BY <2>1, <2>2
<1> QED BY <1>2, <1>3 DEF Quiet

LEMMA HandleCompletedOK ==
  ASSUME IInv, HandleCompleted
  PROVE  IInv'
<1> DEFINE j == Head(events).job
<1>1. DaemonOK(Daemon, events) /\ stale \subseteq (DOMAIN eng.jobs) \X Nat
  BY DEF IInv
<1>2. events # <<>> /\ Head(events).type = "completed" /\ events' = Tail(events) /\ stale' = stale
  BY DEF HandleCompleted, Receives
<1>3. DaemonOK(Daemon, Tail(events)) /\ Head(events) \in Reports(chans, DOMAIN eng.jobs)
  BY <1>1, <1>2, EventTaken, DaemonFields
<1>4. j \in DOMAIN eng.jobs /\ (~sandbox => ChannelsOf(chans, j) = {})
  BY <1>2, <1>3 DEF Reports, Failures, Replies, Event, Executed
<1>5. PICK d \in CompleteOne(Daemon, j) :
        IF eng.jobs[j].role = "planner"
        THEN \E plan \in ChannelPlans : \E m \in Materialized(d, plan) : Dispatch(m)
        ELSE Dispatch(d)
  BY DEF HandleCompleted
<1> HIDE DEF j
<1>6. DaemonOK(d, Tail(events)) /\ DOMAIN d.eng.jobs = DOMAIN eng.jobs
  BY <1>3, <1>4, <1>5, CompleteOneOK, DaemonFields
<1>7. PICK m : /\ Dispatch(m) /\ DaemonOK(m, Tail(events))
               /\ DOMAIN eng.jobs \subseteq DOMAIN m.eng.jobs
  <2>1. CASE eng.jobs[j].role = "planner"
    <3>1. PICK plan \in ChannelPlans, m \in UNION {Materialized(d, p) : p \in ChannelPlans} :
            m \in Materialized(d, plan) /\ Dispatch(m)
      BY <1>5, <2>1
    <3> QED BY <1>6, <3>1, MaterializedOK
  <2>2. CASE eng.jobs[j].role # "planner"
    BY <1>5, <1>6, <2>2
  <2> QED BY <2>1, <2>2
<1>8. DaemonOK(Daemon', Tail(events)) /\ DOMAIN eng'.jobs = DOMAIN m.eng.jobs
  BY <1>7, DispatchOK
<1> QED BY <1>1, <1>2, <1>7, <1>8, KeepsIInv DEF HandleCompleted

LEMMA HandleFailedOK ==
  ASSUME IInv, HandleFailed
  PROVE  IInv'
<1> DEFINE j == Head(events).job
<1>1. DaemonOK(Daemon, events) /\ stale \subseteq (DOMAIN eng.jobs) \X Nat
  BY DEF IInv
<1>2. events # <<>> /\ events' = Tail(events) /\ stale' = stale
  BY DEF HandleFailed, Receives
<1>3. DaemonOK(Daemon, Tail(events)) /\ Head(events) \in Reports(chans, DOMAIN eng.jobs)
  BY <1>1, <1>2, EventTaken, DaemonFields
<1>4. j \in DOMAIN eng.jobs
  BY <1>3 DEF Reports, Failures, Replies, Event
<1>5. PICK d \in FailJob(Daemon, j) : Dispatch(d)
  BY DEF HandleFailed
<1> HIDE DEF j
<1>6. DaemonOK(d, Tail(events)) /\ DOMAIN d.eng.jobs = DOMAIN eng.jobs
  BY <1>3, <1>4, <1>5, FailJobOK, DaemonFields DEF Spares
<1>7. DaemonOK(Daemon', Tail(events)) /\ DOMAIN eng'.jobs = DOMAIN d.eng.jobs
  BY <1>5, <1>6, DispatchOK
<1> QED BY <1>1, <1>2, <1>6, <1>7, KeepsIInv DEF HandleFailed

LEMMA NextTurnOK ==
  ASSUME NEW c, NEW jobs, ChannelOK(c, jobs)
  PROVE  LET next == NextTurn(c) IN
         /\ ChannelOK(next, jobs)
         /\ next.members = c.members /\ next.mode = c.mode
         /\ next.active = c.active /\ next.closed = c.closed
<1> DEFINE n == Len(c.members)
           turn == (c.speaker % n) + 1
           round == IF turn = 1 THEN c.round + 1 ELSE c.round
           next == NextTurn(c)
<1>1. c \in ChannelType(DOMAIN jobs) /\ c.members \in Seq(DOMAIN jobs) /\ c.members # <<>>
  BY DEF ChannelOK, ChannelType
<1>2. n \in Nat /\ n > 0 /\ DOMAIN c.members = 1..n
  BY <1>1, LenProperties, EmptySeq
<1>3. turn \in 1..n /\ round \in Nat
  <2>1. c.speaker \in Nat /\ c.round \in Nat
    BY <1>1 DEF ChannelType
  <2> HIDE DEF n
  <2> QED BY <1>2, <2>1
<1>4. next = [c EXCEPT !.speaker = turn, !.round = round]
  BY DEF NextTurn
<1> HIDE DEF turn, round, next, n
<1>5. /\ next \in ChannelType(DOMAIN jobs)
      /\ next.members = c.members /\ next.mode = c.mode
      /\ next.active = c.active /\ next.closed = c.closed
      /\ next.speaker = turn
  <2>1. turn \in Nat
    BY <1>2, <1>3
  <2> DEFINE S == Seq(DOMAIN jobs)
  <2>2. c \in [members : S, mode : Modes, limit : Nat, policy : Policies, initial : BOOLEAN,
               round : Nat, speaker : Nat, active : BOOLEAN, closed : BOOLEAN]
    BY <1>1 DEF ChannelType
  <2> HIDE DEF S
  <2>3. next \in [members : S, mode : Modes, limit : Nat, policy : Policies, initial : BOOLEAN,
                  round : Nat, speaker : Nat, active : BOOLEAN, closed : BOOLEAN]
    BY <1>3, <1>4, <2>1, <2>2
  <2>4. /\ next.members = c.members /\ next.mode = c.mode
        /\ next.active = c.active /\ next.closed = c.closed
        /\ next.speaker = turn
    BY <1>4, <2>2
  <2> QED BY <2>3, <2>4 DEF ChannelType, S
<1> QED BY <1>2, <1>3, <1>5 DEF ChannelOK, next

LEMMA HandleMessageOK ==
  ASSUME IInv, HandleMessage
  PROVE  IInv'
<1> DEFINE j == Head(events).job
           i == Head(events).channel
           next == NextTurn(chans[i])
           rest == Tail(events)
           routed == WithChannel(Daemon, i, next)
           ended == WithChannel(Daemon, i, Closed(next))
<1>1. DaemonOK(Daemon, events) /\ stale \subseteq (DOMAIN eng.jobs) \X Nat
  BY DEF IInv
<1>2. events # <<>> /\ Head(events).type = "message" /\ events' = rest /\ stale' = stale
  BY DEF HandleMessage, Receives
<1>3. DaemonOK(Daemon, rest) /\ Head(events) \in Reports(chans, DOMAIN eng.jobs)
  BY <1>1, <1>2, EventTaken, DaemonFields
<1>4. i \in DOMAIN chans
  BY <1>2, <1>3 DEF Reports, Failures, Replies, Event
<1>5. /\ ChannelOK(next, eng.jobs)
      /\ next.members = chans[i].members /\ next.mode = chans[i].mode
      /\ next.active = chans[i].active
      /\ IsFiniteSet(DOMAIN next.members) /\ next.speaker \in DOMAIN next.members
      /\ sandbox' = sandbox
  <2>1. ChannelOK(chans[i], eng.jobs)
    BY <1>1, <1>4, DaemonFields DEF DaemonOK, ChannelsOK
  <2>2. /\ ChannelOK(next, eng.jobs)
        /\ next.members = chans[i].members /\ next.mode = chans[i].mode
        /\ next.active = chans[i].active
    BY <2>1, NextTurnOK
  <2> HIDE DEF next
  <2>3. next.members \in Seq(DOMAIN eng.jobs) /\ next.speaker \in DOMAIN next.members
    BY <2>2 DEF ChannelOK, ChannelType
  <2> QED BY <2>2, <2>3, FinitePlaces DEF HandleMessage
<1>6. \/ Dispatch(Daemon)
      \/ /\ Accepts(chans[i], j)
         /\ Dispatch(Send(routed, next.members, Addressees(next, j), Message(i)))
      \/ \E e \in CompleteAll(ended, i) : Dispatch(e)
  <2>1. [Daemon EXCEPT !.chans[i] = next] = routed /\ [Daemon EXCEPT !.chans[i] = Closed(next)] = ended
    BY DEF Daemon, WithChannel
  <2> QED BY <2>1 DEF HandleMessage
<1> HIDE DEF i, j, next, rest
<1>7. CASE Dispatch(Daemon)
  <2>1. DaemonOK(Daemon', rest) /\ DOMAIN eng'.jobs = DOMAIN eng.jobs
    BY <1>3, <1>7, DispatchOK, DaemonFields
  <2> QED BY <1>1, <1>2, <1>5, <2>1, KeepsIInv
<1>8. CASE /\ Accepts(chans[i], j)
           /\ Dispatch(Send(routed, next.members, Addressees(next, j), Message(i)))
  <2> DEFINE K == Addressees(next, j)
             members == next.members
  <2>1. /\ DaemonOK(routed, rest) /\ routed.eng = eng /\ routed.inbox = inbox
        /\ DOMAIN routed.chans = DOMAIN chans /\ routed.chans[i] = next
    <3>1. next.active
      BY <1>5, <1>8 DEF Accepts
    <3> QED BY <1>3, <1>4, <1>5, <3>1, ChannelChangeOK, DaemonFields
  <2>2. next.mode = "TurnBased" => Quiet(inbox, rest, i) /\ \A k, l \in K : k = l
    <3>1. ASSUME next.mode = "TurnBased" PROVE Quiet(inbox, rest, i)
      <4>1. Single(inbox, events, i)
        BY <1>1, <1>4, <1>5, <3>1, DaemonFields DEF DaemonOK, Voices
      <4>2. events \in Seq(Reports(chans, DOMAIN eng.jobs))
        BY <1>1, DaemonFields DEF DaemonOK
      <4>3. Quiet(inbox, Tail(events), i)
        BY <1>2, <4>1, <4>2, TurnTaken DEF i
      <4> QED BY <4>3 DEF rest
    <3> QED BY <3>1 DEF Addressees
  <2>0. IsFiniteSet(K)
    BY <1>5, FS_Subset DEF Addressees, OtherPlaces
  <2> HIDE DEF routed, K, members
  <2>3. DaemonOK(Send(routed, members, K, Message(i)), rest)
    <3>1. routed.chans[i].active \/ routed.chans[i].closed
      BY <1>5, <1>8, <2>1 DEF Accepts
    <3>2. routed.chans[i].mode = "TurnBased" => Quiet(routed.inbox, rest, i) /\ \A k, l \in K : k = l
      BY <2>1, <2>2
    <3> QED BY <1>4, <2>0, <2>1, <3>1, <3>2, SendMessageOK
  <2>4. Send(routed, members, K, Message(i)).eng = eng
    BY <2>1, SendKeeps DEF DaemonOK
  <2>5. DaemonOK(Daemon', rest) /\ DOMAIN eng'.jobs = DOMAIN Send(routed, members, K, Message(i)).eng.jobs
    BY <1>8, <2>3, DispatchOK DEF K, members
  <2> QED BY <1>1, <1>2, <1>5, <2>4, <2>5, KeepsIInv
<1>9. ASSUME NEW e \in CompleteAll(ended, i), Dispatch(e) PROVE IInv'
  <2>1. /\ DaemonOK(ended, rest) /\ ended.eng = eng
        /\ DOMAIN ended.chans = DOMAIN chans /\ ended.chans[i] = Closed(next)
    BY <1>3, <1>4, <1>5, CloseOK, DaemonFields
  <2>2. Closed(next).closed
    BY <1>5 DEF Closed, ChannelOK, ChannelType
  <2> HIDE DEF ended
  <2>3. DaemonOK(e, rest) /\ DOMAIN e.eng.jobs = DOMAIN eng.jobs
    BY <1>4, <1>9, <2>1, <2>2, CompleteAllOK
  <2>4. DaemonOK(Daemon', rest) /\ DOMAIN eng'.jobs = DOMAIN e.eng.jobs
    BY <1>9, <2>3, DispatchOK
  <2> QED BY <1>1, <1>2, <1>5, <2>3, <2>4, KeepsIInv
<1> QED BY <1>6, <1>7, <1>8, <1>9

LEMMA CheckHeartbeatsOK ==
  ASSUME IInv, NEW late, CheckHeartbeats(late)
  PROVE  IInv'
<1>1. DaemonOK(Daemon, events) /\ EngineType(eng)
  BY DaemonFields DEF IInv, DaemonOK, EngineOK
<1>2. late \subseteq DOMAIN eng.jobs /\ \A j \in late : eng.jobs[j].attempt \in Nat
  BY <1>1, TypeParts DEF CheckHeartbeats, JobRecords
<1>3. \A j \in late : Current(Daemon, j) \in (DOMAIN eng.jobs) \X Nat
  BY <1>2, DaemonFields DEF Current
<1>4. stale' \subseteq (DOMAIN eng.jobs) \X Nat /\ Daemon' = Daemon /\ events' = events /\ eng' = eng
  BY <1>3 DEF CheckHeartbeats, Daemon
<1> QED BY <1>1, <1>4, KeepsIInv DEF CheckHeartbeats

LEMMA ExpireJobOK ==
  ASSUME IInv, NEW w, ExpireJob(w)
  PROVE  IInv'
<1>1. DaemonOK(Daemon, events) /\ stale \subseteq (DOMAIN eng.jobs) \X Nat
  BY DEF IInv
<1>2. w[1] \in DOMAIN eng.jobs /\ stale' \subseteq stale /\ events' = events
  BY <1>1 DEF ExpireJob
<1>3. PICK d \in FailJob(Daemon, w[1]) : Dispatch(d)
  BY DEF ExpireJob
<1>4. DaemonOK(d, events) /\ DOMAIN d.eng.jobs = DOMAIN eng.jobs
  BY <1>1, <1>2, <1>3, FailJobOK, DaemonFields DEF Spares
<1>5. DaemonOK(Daemon', events) /\ DOMAIN eng'.jobs = DOMAIN d.eng.jobs
  BY <1>3, <1>4, DispatchOK
<1> QED BY <1>1, <1>2, <1>4, <1>5, KeepsIInv DEF ExpireJob

-----------------------------------------------------------------------------
(* The steps of the workers.                                               *)

LEMMA SaidInConcat ==
  ASSUME NEW S, NEW p \in Seq(S), NEW x \in S, NEW i
  PROVE  /\ p \o <<x>> \in Seq(S)
         /\ Said(p \o <<x>>, i) \subseteq Said(p, i) \cup {Len(p) + 1}
         /\ ~(x.type = "message" /\ x.channel = i) => Said(p \o <<x>>, i) = Said(p, i)
<1> DEFINE q == <<x>>
<1>1. q \in Seq(S) /\ DOMAIN q = {1} /\ q[1] = x
  OBVIOUS
<1> HIDE DEF q
<1>2. /\ p \o q \in Seq(S)
      /\ DOMAIN p \subseteq DOMAIN (p \o q)
      /\ \A k \in DOMAIN p : (p \o q)[k] = p[k]
      /\ \A k \in DOMAIN (p \o q) \ DOMAIN p : k - Len(p) \in DOMAIN q /\ (p \o q)[k] = q[k - Len(p)]
  BY <1>1, PlacesOfConcat
<1>3. DOMAIN (p \o q) \subseteq Nat /\ Len(p) \in Nat
  BY <1>2, LenProperties
<1>4. ASSUME NEW k \in DOMAIN (p \o q) \ DOMAIN p PROVE k = Len(p) + 1 /\ (p \o q)[k] = x
  <2>1. k - Len(p) = 1 /\ k \in Nat
    BY <1>1, <1>2, <1>3
  <2>2. k = Len(p) + 1
    BY <1>3, <2>1
  <2> QED BY <1>1, <1>2, <2>1, <2>2
<1> DEFINE r == p \o q
<1>5. /\ r \in Seq(S) /\ DOMAIN p \subseteq DOMAIN r /\ \A k \in DOMAIN p : r[k] = p[k]
      /\ \A k \in DOMAIN r \ DOMAIN p : k = Len(p) + 1 /\ r[k] = x
  BY <1>2, <1>4
<1> HIDE DEF r
<1>6. Said(r, i) \subseteq Said(p, i) \cup {Len(p) + 1}
  BY <1>5 DEF Said
<1>7. ~(x.type = "message" /\ x.channel = i) => Said(r, i) = Said(p, i)
  BY <1>5 DEF Said
<1> QED BY <1>5, <1>6, <1>7 DEF r, q

\* What the worker of j reports of a command, if it reports anything.
LEMMA ReportOK ==
  ASSUME NEW w, NEW c, NEW J, w[1] \in J, NEW x \in Commands(c, w[1]), NEW ok
  PROVE  \/ Report(w, x, ok) = <<>>
         \/ \E e \in Reports(c, J) :
              /\ Report(w, x, ok) = <<e>>
              /\ e.type = "message" => x = Message(e.channel)
<1>1. CASE x = Setup \/ x = Notice
  BY <1>1 DEF Report, Setup, Notice
<1>2. CASE x = Execute /\ Executed(c, w[1])
  <2> DEFINE e == Event(IF ok THEN "completed" ELSE "failed", w[1], 0)
  <2>1. Report(w, x, ok) = <<e>>
    BY <1>2 DEF Report, Execute
  <2>2. e \in Reports(c, J)
    BY <1>2 DEF Reports, Failures, Replies
  <2>3. e.type # "message"
    BY DEF Event
  <2> QED BY <2>1, <2>2, <2>3
<1>3. ASSUME NEW i \in DOMAIN c, x = Message(i)
      PROVE  \E e \in Reports(c, J) :
               /\ Report(w, x, ok) = <<e>>
               /\ e.type = "message" => x = Message(e.channel)
  <2> DEFINE e == Event(IF ok THEN "message" ELSE "failed", w[1], i)
  <2>1. Report(w, x, ok) = <<e>>
    BY <1>3 DEF Report, Message
  <2>2. e \in Reports(c, J)
    BY DEF Reports, Failures, Replies
  <2>3. e.channel = i
    BY DEF Event
  <2> HIDE DEF e
  <2> QED BY <1>3, <2>1, <2>2, <2>3
<1> QED BY <1>1, <1>2, <1>3 DEF Commands

LEMMA AnswerOK ==
  ASSUME IInv, NEW w, NEW ok \in BOOLEAN, Answer(w, ok)
  PROVE  IInv'
<1> DEFINE S == Commands(chans, w[1])
           R == Reports(chans, DOMAIN eng.jobs)
           q == inbox[w]
           report == Report(w, Head(q), ok)
<1>1. DaemonOK(Daemon, events) /\ stale \subseteq (DOMAIN eng.jobs) \X Nat
  BY DEF IInv
<1>2. /\ InboxOK(inbox, chans, DOMAIN eng.jobs) /\ events \in Seq(R)
      /\ Voices(inbox, events, chans)
  BY <1>1, DaemonFields DEF DaemonOK
<1>3. /\ w \in DOMAIN inbox /\ q # <<>>
      /\ inbox' = [inbox EXCEPT ![w] = Tail(q)] /\ events' = events \o report
      /\ eng' = eng /\ managed' = managed /\ chans' = chans /\ stale' = stale
  BY DEF Answer
<1>4. w[1] \in DOMAIN eng.jobs /\ q \in Seq(S)
  BY <1>2, <1>3 DEF InboxOK
<1>5. Tail(q) \in Seq(S) /\ Head(q) \in S
  <2> HIDE DEF S, q
  <2> QED BY <1>3, <1>4, PlacesOfTail
<1>6. \/ report = <<>>
      \/ \E e \in R : /\ report = <<e>>
                      /\ e.type = "message" => Head(q) = Message(e.channel)
  <2> DEFINE x == Head(q)
  <2>1. x \in Commands(chans, w[1])
    BY <1>5
  <2>2. w[1] \in DOMAIN eng.jobs
    BY <1>4
  <2> HIDE DEF x, q, S, R, report
  <2>3. \/ Report(w, x, ok) = <<>>
        \/ \E e \in Reports(chans, DOMAIN eng.jobs) :
             /\ Report(w, x, ok) = <<e>>
             /\ e.type = "message" => x = Message(e.channel)
    BY <2>1, <2>2, ReportOK
  <2> QED BY <2>3 DEF x, report, R
<1> HIDE DEF S, R, q, report
<1>7. /\ DOMAIN inbox' = DOMAIN inbox
      /\ \A v \in DOMAIN inbox : inbox'[v] = IF v = w THEN Tail(q) ELSE inbox[v]
      /\ inbox' = [v \in DOMAIN inbox' |-> inbox'[v]]
  BY <1>3
<1>8. InboxOK(inbox', chans, DOMAIN eng.jobs)
  BY <1>2, <1>5, <1>7 DEF InboxOK, S
<1>9. events' \in Seq(R)
  <2>1. CASE report = <<>>
    BY <1>2, <1>3, <2>1
  <2>2. CASE report # <<>>
    <3>1. PICK e \in R : report = <<e>>
      BY <1>6, <2>2
    <3> QED BY <1>2, <1>3, <3>1, SaidInConcat
  <2> QED BY <2>1, <2>2
<1>10. ASSUME NEW i
       PROVE  /\ Said(events', i) \subseteq Said(events, i) \cup {Len(events) + 1}
              /\ Head(q) # Message(i) => Said(events', i) = Said(events, i)
  <2>1. CASE report = <<>>
    <3>1. events' = events
      BY <1>2, <1>3, <2>1
    <3> QED BY <3>1
  <2>2. CASE report # <<>>
    <3>1. PICK e \in R : /\ report = <<e>>
                         /\ e.type = "message" /\ e.channel = i => Head(q) = Message(i)
      BY <1>6, <2>2
    <3> QED BY <1>2, <1>3, <3>1, SaidInConcat
  <2> QED BY <2>1, <2>2
<1>11. ASSUME NEW i
       PROVE  /\ \A k \in Spoken(inbox'[w], i) : k \in Nat \ {0} /\ k + 1 \in Spoken(q, i)
              /\ Head(q) = Message(i) => 1 \in Spoken(q, i)
  BY <1>3, <1>4, <1>7, SpokenInTail
<1>12. ASSUME NEW i
       PROVE  /\ Quiet(inbox, events, i) => Quiet(inbox', events', i)
              /\ Single(inbox, events, i) => Single(inbox', events', i)
  <2>1. q = inbox[w]
    BY DEF q
  <2>2. CASE Head(q) = Message(i)
    <3>1. 1 \in Spoken(inbox[w], i)
      BY <1>11, <2>1, <2>2
    <3>2. ~Quiet(inbox, events, i)
      BY <1>3, <3>1 DEF Quiet
    <3>3. ASSUME Single(inbox, events, i) PROVE Single(inbox', events', i)
      <4>1. Said(events, i) = {}
        BY <1>3, <3>1, <3>3 DEF Single
      <4>2. \A v \in DOMAIN inbox : v # w => Spoken(inbox[v], i) = {}
        BY <1>3, <3>1, <3>3 DEF Single
      <4>3. Spoken(inbox'[w], i) = {}
        <5>1. ASSUME NEW k \in Spoken(inbox'[w], i) PROVE FALSE
          <6>1. k \in Nat \ {0} /\ k + 1 \in Spoken(inbox[w], i)
            BY <1>11, <2>1
          <6>2. k + 1 = 1
            BY <1>3, <3>1, <3>3, <6>1 DEF Single
          <6> QED BY <6>1, <6>2
        <5> QED BY <5>1
      <4>4. \A v \in DOMAIN inbox' : Spoken(inbox'[v], i) = {}
        BY <1>7, <4>2, <4>3
      <4>5. \A k, l \in Said(events', i) : k = l
        BY <1>10, <4>1
      <4> QED BY <4>4, <4>5 DEF Single
    <3> QED BY <3>2, <3>3
  <2>3. CASE Head(q) # Message(i)
    <3>1. Said(events', i) = Said(events, i)
      BY <1>10, <2>3
    <3>2. \A v \in DOMAIN inbox' : Spoken(inbox'[v], i) # {} => v \in DOMAIN inbox /\ Spoken(inbox[v], i) # {}
      BY <1>7, <1>11, <2>1
    <3>3. ASSUME Single(inbox, events, i), NEW v \in DOMAIN inbox', NEW u \in DOMAIN inbox',
                 NEW k \in Spoken(inbox'[v], i), NEW l \in Spoken(inbox'[u], i)
          PROVE  v = u /\ k = l
      <4>1. v = u
        BY <3>2, <3>3 DEF Single
      <4>2. CASE v = w
        <5>1. k \in Nat /\ l \in Nat /\ k + 1 \in Spoken(inbox[w], i) /\ l + 1 \in Spoken(inbox[w], i)
          BY <1>11, <2>1, <4>1, <4>2
        <5>2. k + 1 = l + 1
          BY <1>3, <3>3, <5>1 DEF Single
        <5> QED BY <4>1, <5>1, <5>2
      <4>3. CASE v # w
        BY <1>7, <3>3, <4>1, <4>3 DEF Single
      <4> QED BY <4>1, <4>2, <4>3
    <3>4. Single(inbox, events, i) => Single(inbox', events', i)
      BY <3>1, <3>2, <3>3 DEF Single
    <3>5. Quiet(inbox, events, i) => Quiet(inbox', events', i)
      BY <3>1, <3>2 DEF Quiet
    <3> QED BY <3>4, <3>5
  <2> QED BY <2>2, <2>3
<1>13. Voices(inbox', events', chans)
  BY <1>2, <1>12 DEF Voices
<1>14. Daemon' = [eng |-> eng, managed |-> managed, inbox |-> inbox', chans |-> chans]
  BY <1>3 DEF Daemon
<1>15. DaemonOK(Daemon', events')
  <2> DEFINE t == Daemon'
  <2>1. /\ t.eng = eng /\ t.managed = managed /\ t.inbox = inbox' /\ t.chans = chans
        /\ t = [eng |-> t.eng, managed |-> t.managed, inbox |-> t.inbox, chans |-> t.chans]
    BY <1>14
  <2> HIDE DEF t
  <2>2. DaemonOK(t, events')
    BY <1>1, <1>8, <1>9, <1>13, <2>1, DaemonFields DEF DaemonOK, IsDaemon, R
  <2> QED BY <2>2 DEF t
<1> QED BY <1>1, <1>3, <1>15, KeepsIInv DEF Answer

\* A worker is gone, with the messages it had not answered.
LEMMA GoneOK ==
  ASSUME IInv, NEW w, Gone(w), UNCHANGED <<eng, managed, chans, events, stale, sandbox>>
  PROVE  IInv'
<1>1. DaemonOK(Daemon, events) /\ stale \subseteq (DOMAIN eng.jobs) \X Nat
  BY DEF IInv
<1>2. InboxOK(inbox, chans, DOMAIN eng.jobs) /\ Voices(inbox, events, chans)
  BY <1>1, DaemonFields DEF DaemonOK
<1>3. /\ DOMAIN inbox' \subseteq DOMAIN inbox
      /\ \A v \in DOMAIN inbox' : inbox'[v] = inbox[v]
      /\ inbox' = [v \in DOMAIN inbox' |-> inbox'[v]]
  BY DEF Gone
<1> DEFINE box == inbox'
<1>4. InboxOK(box, chans, DOMAIN eng.jobs)
  BY <1>2, <1>3 DEF InboxOK
<1>5. ASSUME NEW i PROVE /\ Quiet(inbox, events, i) => Quiet(box, events, i)
                         /\ Single(inbox, events, i) => Single(box, events, i)
  <2> HIDE DEF box
  <2>1. DOMAIN box \subseteq DOMAIN inbox /\ \A v \in DOMAIN box : box[v] = inbox[v]
    BY <1>3 DEF box
  <2>2. Quiet(inbox, events, i) => Quiet(box, events, i)
    BY <2>1 DEF Quiet
  <2>3. Single(inbox, events, i) => Single(box, events, i)
    BY <2>1 DEF Single
  <2> QED BY <2>2, <2>3
<1>6. Voices(box, events, chans)
  BY <1>2, <1>5 DEF Voices
<1>7. DaemonOK([eng |-> eng, managed |-> managed, inbox |-> box, chans |-> chans], events)
  <2> HIDE DEF box
  <2>1. DaemonOK([eng |-> Daemon.eng, managed |-> Daemon.managed, inbox |-> box, chans |-> Daemon.chans], events)
    BY <1>1, <1>4, <1>6, InboxChangeOK, DaemonFields
  <2> QED BY <2>1, DaemonFields
<1>8. Daemon' = [eng |-> eng, managed |-> managed, inbox |-> box, chans |-> chans]
  BY DEF Daemon
<1> QED BY <1>1, <1>7, <1>8, KeepsIInv

-----------------------------------------------------------------------------
(* Every state.                                                            *)

LEMMA InitOK == Init => IInv
<1> SUFFICES ASSUME Init PROVE IInv
  OBVIOUS
<1> DEFINE s == Submit(EmptyEngine)
           t == StartPopped(s, 1)
<1>1. EngineOK(s) /\ s.active = {} /\ Len(s.queue) = 1 /\ 1 \in DOMAIN s.jobs /\ 1 \in DOMAIN s.runs
  <2> DEFINE e == EmptyEngine
  <2>1. EngineOK(e) /\ e.jobs = <<>> /\ e.runs = <<>> /\ e.queue = <<>> /\ e.active = {}
        /\ e.nextJob = 1 /\ e.nextRun = 1
    BY EmptyEngineOK
  <2>2. EngineOK(s) /\ DOMAIN s.runs = DOMAIN e.runs \cup {e.nextRun}
    <3> HIDE DEF e
    <3>1. EngineOK(Submit(e)) /\ DOMAIN Submit(e).runs = DOMAIN e.runs \cup {e.nextRun}
      BY <2>1, SubmitOK, SubmitGrows DEF EngineOK
    <3> QED BY <3>1 DEF e
  <2>3. PICK recs : Grows(e, s, e.nextRun, recs) /\ Len(recs) = 1
    <3> HIDE DEF e
    <3>1. \E recs : Grows(e, Submit(e), e.nextRun, recs) /\ Len(recs) = 1
      BY <2>1, SubmitGrows DEF EngineOK
    <3> QED BY <3>1 DEF e
  <2>4. s.queue = Append(e.queue, e.nextJob)
    BY <2>1 DEF Submit, AddJobs, EmptyEngine
  <2> HIDE DEF e, s
  <2>5. s.active = {} /\ DOMAIN s.jobs = {1}
    <3>1. DOMAIN s.jobs = DOMAIN e.jobs \cup (e.nextJob .. e.nextJob + 1 - 1) /\ s.active = e.active
      BY <2>3 DEF Grows
    <3>2. DOMAIN e.jobs = {}
      BY <2>1
    <3> QED BY <2>1, <3>1, <3>2
  <2>6. s.queue = <<1>>
    BY <2>1, <2>4
  <2> QED BY <2>1, <2>2, <2>5, <2>6
<1> HIDE DEF s
<1>2. 1 \in 0..Len(s.queue) /\ PopsExactly(s, 1)
  <2>1. Popped(s, 0) = {}
    BY DEF Popped
  <2>2. Cardinality(s.active \cup Popped(s, 0)) = 0
    BY <1>1, <2>1, FS_EmptySet
  <2>3. \A k \in 0..1 - 1 : k = 0
    OBVIOUS
  <2> QED BY <1>1, <2>2, <2>3, EngineAssumption DEF PopsExactly
<1>3. EngineOK(t) /\ DOMAIN t.jobs = DOMAIN s.jobs /\ DOMAIN s.runs \subseteq DOMAIN t.runs
  BY <1>1, <1>2, StartPoppedOK, StartPoppedCompletes DEF OnlyCompletes
<1>4. eng = t /\ chans = <<>> /\ events = <<>> /\ stale = {} /\ inbox = [w \in {<<1, 1>>} |-> <<Execute>>]
  BY DEF Init, s
<1> HIDE DEF t
<1>5. DOMAIN chans = {}
  BY <1>4
<1>6. ChannelsOK(chans, eng.jobs) /\ Voices(inbox, events, chans)
  BY <1>4, <1>5 DEF ChannelsOK, Voices
<1>7. InboxOK(inbox, chans, DOMAIN eng.jobs)
  <2>1. Execute \in Commands(chans, 1)
    BY <1>5 DEF Commands, Executed, ChannelsOf
  <2>2. <<Execute>> \in Seq(Commands(chans, 1))
    BY <2>1
  <2>3. DOMAIN inbox = {<<1, 1>>} /\ inbox[<<1, 1>>] = <<Execute>> /\ inbox = [w \in DOMAIN inbox |-> inbox[w]]
    BY <1>4
  <2>4. <<1, 1>>[1] = 1 /\ <<1, 1>> \in (DOMAIN eng.jobs) \X Nat
    BY <1>1, <1>3, <1>4
  <2> QED BY <2>2, <2>3, <2>4 DEF InboxOK
<1>8. events \in Seq(Reports(chans, DOMAIN eng.jobs))
  BY <1>4
<1>9. DaemonOK(Daemon, events)
  BY <1>1, <1>3, <1>4, <1>6, <1>7, <1>8, DaemonFields DEF DaemonOK, IsDaemon, Daemon
<1> QED BY <1>4, <1>9 DEF IInv

LEMMA Invariance == Spec => []IInv
<1>1. ASSUME IInv, [Next]_vars PROVE IInv'
  <2>1. CASE HandleCompleted
    BY <1>1, <2>1, HandleCompletedOK
  <2>2. CASE HandleFailed
    BY <1>1, <2>2, HandleFailedOK
  <2>3. CASE HandleMessage
    BY <1>1, <2>3, HandleMessageOK
  <2>4. ASSUME NEW late \in SUBSET eng.active, CheckHeartbeats(late) PROVE IInv'
    BY <1>1, <2>4, CheckHeartbeatsOK
  <2>5. ASSUME NEW w \in stale, ExpireJob(w) PROVE IInv'
    BY <1>1, <2>5, ExpireJobOK
  <2>6. ASSUME NEW w \in DOMAIN inbox, NEW ok \in BOOLEAN, Answer(w, ok) PROVE IInv'
    BY <1>1, <2>6, AnswerOK
  <2>7. ASSUME NEW w \in DOMAIN inbox, WorkerCrash(w) \/ BridgeClose(w) PROVE IInv'
    BY <1>1, <2>7, GoneOK DEF WorkerCrash, BridgeClose
  <2>8. CASE UNCHANGED vars
    <3>1. /\ Daemon' = Daemon /\ events' = events /\ stale' = stale /\ eng' = eng
          /\ sandbox' = sandbox
      BY <2>8 DEF vars, Daemon
    <3>2. DaemonOK(Daemon', events') /\ stale' \subseteq (DOMAIN eng'.jobs) \X Nat
      BY <1>1, <3>1 DEF IInv
    <3> QED BY <3>1, <3>2, KeepsIInv
  <2> QED BY <1>1, <2>1, <2>2, <2>3, <2>4, <2>5, <2>6, <2>7, <2>8 DEF Next
<1> QED BY <1>1, InitOK, PTL DEF Spec

-----------------------------------------------------------------------------
(* Theorems.                                                               *)

\* engine.rs: however peers fail each other's jobs, through mark_failed and more
\* than once, every job is Running exactly while it holds a slot, the slots are
\* bounded and no Ready job is forgotten; for all plans with channels, any number
\* of slots and attempts, and any crashes, failed calls and silent workers.
THEOREM EngineStaysConsistent == Spec => []EngineConsistent
<1>1. IInv => EngineConsistent
  BY DaemonFields DEF IInv, DaemonOK, EngineOK, EngineConsistent
<1> QED BY <1>1, Invariance, PTL

\* route_channel_message and activate_channels: a turn-based channel never has
\* more than one message being answered or on its way back, so that no turn is
\* taken twice, whatever its number of participants and however often one of them
\* is listed.
THEOREM TurnsDoNotOverlap == Spec => []OneVoice
<1>1. IInv => OneVoice
  <2> SUFFICES ASSUME IInv, NEW i \in DOMAIN chans, chans[i].mode = "TurnBased"
               PROVE  UnderWay(i) <= 1
    BY DEF OneVoice
  <2> DEFINE A == UNION {{<<w, k>> : k \in {n \in DOMAIN inbox[w] : inbox[w][n] = Message(i)}} :
                           w \in DOMAIN inbox}
             B == {k \in DOMAIN events : events[k].type = "message" /\ events[k].channel = i}
  <2>1. Single(inbox, events, i)
    BY DaemonFields DEF IInv, DaemonOK, Voices
  <2>2. \A a \in A : \E w \in DOMAIN inbox : \E k \in Spoken(inbox[w], i) : a = <<w, k>>
    BY DEF Spoken
  <2>3. \A a, b \in A : a = b
    BY <2>1, <2>2 DEF Single
  <2>4. \A k, l \in B : k = l
    BY <2>1 DEF Single, Said
  <2>5. A # {} => B = {}
    <3>1. A # {} => \E w \in DOMAIN inbox : Spoken(inbox[w], i) # {}
      BY <2>2
    <3> QED BY <2>1, <3>1 DEF Single, Said
  <2>6. UnderWay(i) = Cardinality(A) + Cardinality(B)
    BY DEF UnderWay
  <2> HIDE DEF A, B
  <2>7. Cardinality(A) \in 0..1 /\ Cardinality(B) \in 0..1
    BY <2>3, <2>4, AtMostOne
  <2>8. Cardinality(A) = 0 \/ Cardinality(B) = 0
    BY <2>5, FS_EmptySet
  <2> QED BY <2>6, <2>7, <2>8
<1> QED BY <1>1, Invariance, PTL

\* complete_closed_channel_participants: with isolation "none", which is the
\* property's premise, a participant of several channels is completed only when
\* the last of them has closed, in whichever order they close and whoever fails in
\* between.  (In a capsule it is completed by job_completed, its channels open.)
THEOREM CompletionAwaitsChannels == Spec => []ChannelsBeforeCompletion
<1>1. IInv => ChannelsBeforeCompletion
  <2> SUFFICES ASSUME IInv, NEW i \in DOMAIN chans PROVE ChannelOK(chans[i], eng.jobs)
    BY DEF ChannelsBeforeCompletion, ChannelOK
  <2> QED BY DaemonFields DEF IInv, DaemonOK, ChannelsOK
<1> QED BY <1>1, Invariance, PTL

=============================================================================
