---------------------------- MODULE BridgeProofs ----------------------------
(***************************************************************************)
(* Whose answer is whose, and the last word of a bridge, for any number of *)
(* chats, notices, routed messages and crashes.                            *)
(*                                                                         *)
(* OwnAnswers is about the end of a request; the invariant follows it on   *)
(* its way.  Ids grow (Numbered), so a line that is under way when a new   *)
(* request is numbered cannot be taken for it; and what comes back under   *)
(* the id of a request that still waits is what was sent for it (Matching).*)
(***************************************************************************)
EXTENDS WorkerBridge, SequenceTheorems, TLAPS

\* s is a sequence, whatever of.
IsSeq(s) == s \in Seq(Entries(s))

Shapes ==
  /\ DOMAIN reply = Requests
  /\ IsSeq(cmdq) /\ Entries(cmdq) \subseteq Requests
  /\ IsSeq(stdin) /\ IsSeq(stdout) /\ IsSeq(reports)

Outstanding == pending \cup routes

Numbered ==
  /\ counter \in Nat
  /\ \A p \in Outstanding : p.id \in 1..counter

\* Nobody who waits under the number of l asked for anything else.
Matches(l) == l.id \in 0..counter /\ \A p \in Outstanding : l.id = p.id => l.of = p.by

Matching ==
  /\ \A l \in Entries(stdin) :
       l.id \in 0..counter /\ (l.of \notin Jobs \cup Stops => Matches(l))
  /\ hand.id \in 0..counter /\ (hand.of \notin Jobs => Matches(hand))
  /\ \A m \in Entries(stdout) : m.type = "chat_response" => Matches(m)

\* The child writes no message of a channel: the bridge makes them.
Unrouted == \A m \in Entries(stdout) : m.type # "channel_message"

Inv == Shapes /\ Numbered /\ Matching /\ Unrouted /\ OwnAnswers /\ DeathIsReported

-----------------------------------------------------------------------------
(* Sequences.                                                              *)

LEMMA Empty == IsSeq(<<>>) /\ Entries(<<>>) = {}
BY DEF IsSeq, Entries

LEMMA Appended ==
  ASSUME NEW s, IsSeq(s), NEW e
  PROVE  IsSeq(Append(s, e)) /\ Entries(Append(s, e)) = Entries(s) \cup {e}
<1> DEFINE S == Entries(s) \cup {e}
<1>1. s \in Seq(S)
  BY DEF IsSeq
<1>2. Append(s, e) \in Seq(S)
  BY <1>1
<1>3. /\ DOMAIN s = 1..Len(s)
      /\ DOMAIN Append(s, e) = 1..Len(s) + 1
      /\ Len(s) \in Nat
      /\ \A i \in 1..Len(s) : Append(s, e)[i] = s[i]
      /\ Append(s, e)[Len(s) + 1] = e
  BY <1>1, AppendProperties, LenProperties
<1>4. Entries(Append(s, e)) = S
  BY <1>3 DEF Entries
<1> QED BY <1>2, <1>4 DEF IsSeq

LEMMA Concatenated ==
  ASSUME NEW s, NEW t, IsSeq(s), IsSeq(t)
  PROVE  IsSeq(s \o t) /\ Entries(s \o t) = Entries(s) \cup Entries(t)
<1> DEFINE S == Entries(s) \cup Entries(t)
<1>1. s \in Seq(S) /\ t \in Seq(S)
  BY DEF IsSeq
<1>2. /\ s \o t \in Seq(S)
      /\ Len(s \o t) = Len(s) + Len(t)
      /\ \A i \in 1..Len(s) + Len(t) :
           (s \o t)[i] = IF i <= Len(s) THEN s[i] ELSE t[i - Len(s)]
  BY <1>1, ConcatProperties
<1>3. /\ Len(s) \in Nat /\ Len(t) \in Nat
      /\ DOMAIN s = 1..Len(s) /\ DOMAIN t = 1..Len(t)
      /\ DOMAIN (s \o t) = 1..Len(s) + Len(t)
  BY <1>1, <1>2, LenProperties
<1>4. \A i \in DOMAIN s : i \in DOMAIN (s \o t) /\ (s \o t)[i] = s[i]
  BY <1>2, <1>3
<1>5. \A i \in DOMAIN t : Len(s) + i \in DOMAIN (s \o t) /\ (s \o t)[Len(s) + i] = t[i]
  BY <1>2, <1>3
<1>6. \A i \in DOMAIN (s \o t) : \/ i \in DOMAIN s /\ (s \o t)[i] = s[i]
                                 \/ i - Len(s) \in DOMAIN t /\ (s \o t)[i] = t[i - Len(s)]
  BY <1>2, <1>3
<1>7. Entries(s \o t) = S
  BY <1>4, <1>5, <1>6 DEF Entries
<1> QED BY <1>2, <1>7 DEF IsSeq

LEMMA Taken ==
  ASSUME NEW s, IsSeq(s), s # <<>>
  PROVE  /\ Head(s) \in Entries(s)
         /\ IsSeq(Tail(s)) /\ Entries(Tail(s)) \subseteq Entries(s)
<1> DEFINE S == Entries(s)
<1>1. s \in Seq(S)
  BY DEF IsSeq
<1> HIDE DEF S
<1>2. /\ Head(s) \in S
      /\ Tail(s) \in Seq(S)
      /\ Len(Tail(s)) = Len(s) - 1
      /\ \A i \in 1..Len(Tail(s)) : Tail(s)[i] = s[i + 1]
  BY <1>1, HeadTailProperties
<1>3. Tail(s) \in [1..Len(Tail(s)) -> S] /\ DOMAIN Tail(s) = 1..Len(Tail(s))
  BY <1>2, LenProperties
<1>4. Entries(Tail(s)) \subseteq S
  BY <1>3 DEF Entries
<1>5. IsSeq(Tail(s))
  <2>1. \A i \in 1..Len(Tail(s)) : s[i + 1] \in Entries(Tail(s))
    BY <1>2, <1>3 DEF Entries
  <2>2. \A i \in 2..Len(s) : s[i] \in Entries(Tail(s))
    <3>1. \A i \in 2..Len(s) : i - 1 \in 1..Len(Tail(s)) /\ (i - 1) + 1 = i
      BY <1>1, <1>2, LenProperties
    <3> QED BY <2>1, <3>1
  <2>3. Tail(s) = SubSeq(s, 2, Len(s)) /\ Len(s) \in Int
    BY <1>1, TailIsSubSeq, LenProperties
  <2>4. SubSeq(s, 2, Len(s)) \in Seq(Entries(Tail(s)))
    BY <2>2, <2>3, SubSeqProperties
  <2> QED BY <2>3, <2>4 DEF IsSeq
<1> QED BY <1>2, <1>4, <1>5 DEF S

-----------------------------------------------------------------------------
(* What most steps do.                                                     *)

\* A step that numbers no request and writes no line keeps what matches.
LEMMA NothingNew ==
  ASSUME Inv, UNCHANGED counter, pending' \subseteq pending, routes' \subseteq routes,
         Entries(stdin') \subseteq Entries(stdin), UNCHANGED hand,
         Entries(stdout') \subseteq Entries(stdout)
  PROVE  Numbered' /\ Matching' /\ Unrouted'
BY DEF Inv, Numbered, Matching, Matches, Unrouted, Outstanding

\* Requests whose channel is dropped fail, and no answer is changed.
LEMMA Failing ==
  ASSUME Inv, NEW R, reply' = FailChats(R), UNCHANGED reports
  PROVE  DOMAIN reply' = Requests /\ OwnAnswers'
<1>1. "error" \notin Requests /\ Chats \subseteq Requests
  BY BridgeAssumption DEF Requests
<1> QED BY <1>1 DEF Inv, OwnAnswers, FailChats

\* reply may also become one of the words that are no answers.
LEMMA NoAnswer ==
  ASSUME Inv, NEW r, NEW word \in {"asked", "gone", "error"},
         reply' = [reply EXCEPT ![r] = word], UNCHANGED reports
  PROVE  DOMAIN reply' = Requests /\ OwnAnswers'
<1>1. word \notin Requests /\ Chats \subseteq Requests
  BY BridgeAssumption DEF Requests
<1> QED BY <1>1 DEF Inv, OwnAnswers, Shapes

\* Reports that are not messages of a channel.
LEMMA Reporting ==
  ASSUME Inv, NEW more, IsSeq(more), \A e \in Entries(more) : e.type # "channel_message",
         reports' = reports \o more
  PROVE  /\ IsSeq(reports')
         /\ \A e \in Entries(reports') : e.type = "channel_message" => e.of = e.to
<1>1. IsSeq(reports') /\ Entries(reports') = Entries(reports) \cup Entries(more)
  BY Concatenated DEF Inv, Shapes
<1> QED BY <1>1 DEF Inv, OwnAnswers

\* The capsule task ends.
LEMMA CapsuleEnd ==
  ASSUME Inv, NEW told, IsSeq(told), \A e \in Entries(told) : e.type # "channel_message",
         kind = "capsule", End(told)
  PROVE  Inv'
<1>1. /\ reply' = FailChats(Entries(cmdq))
      /\ cmdq' = <<>> /\ stdout' = <<>> /\ hand' = Nobody
      /\ reports' = reports \o told
      /\ UNCHANGED <<kind, counter, pending, routes, stdin>>
  BY DEF End, daemonVars
<1>2. DOMAIN reply' = Requests /\ \A c \in Chats : reply'[c] \in Requests => reply'[c] = c
  <2>1. "error" \notin Requests /\ Chats \subseteq Requests
    BY BridgeAssumption DEF Requests
  <2> QED BY <1>1, <2>1 DEF Inv, OwnAnswers, FailChats
<1>3. /\ IsSeq(reports')
      /\ \A e \in Entries(reports') : e.type = "channel_message" => e.of = e.to
  BY <1>1, Reporting
<1>4. Shapes' /\ OwnAnswers'
  BY <1>1, <1>2, <1>3, Empty DEF Inv, Shapes, OwnAnswers
<1>5. Numbered' /\ Unrouted'
  BY <1>1, Empty DEF Inv, Numbered, Unrouted, Outstanding
<1>6. Matching'
  BY <1>1, Empty DEF Inv, Numbered, Matching, Matches, Outstanding, Nobody
<1>7. DeathIsReported'
  BY <1>1 DEF DeathIsReported
<1> QED BY <1>4, <1>5, <1>6, <1>7 DEF Inv

\* What the child writes matches and is nobody's message to a channel.
LEMMA Writing ==
  ASSUME Inv, NEW messages, IsSeq(messages), Writes(messages),
         \A m \in Entries(messages) :
           m.type # "channel_message" /\ (m.type = "chat_response" => Matches(m)),
         IsSeq(stdin'), Entries(stdin') \subseteq Entries(stdin),
         hand'.id \in 0..counter, hand'.of \notin Jobs => Matches(hand')
  PROVE  Inv'
<1>1. /\ IsSeq(stdout')
      /\ Entries(stdout') = Entries(stdout) \cup Entries(messages)
      /\ UNCHANGED <<kind, reply, cmdq, bridge, counter, pending, routes, status, reports>>
  BY Concatenated DEF Writes, daemonVars, taskVars, Inv, Shapes
<1>2. Shapes' /\ OwnAnswers' /\ DeathIsReported'
  BY <1>1 DEF Inv, Shapes, OwnAnswers, DeathIsReported
<1>3. Numbered' /\ Matching' /\ Unrouted'
  BY <1>1 DEF Inv, Numbered, Matching, Matches, Unrouted, Outstanding
<1> QED BY <1>2, <1>3 DEF Inv
-----------------------------------------------------------------------------
(* The steps.                                                              *)

LEMMA InitInv ==
  ASSUME Init
  PROVE  Inv
<1>1. "new" \notin Requests /\ Chats \subseteq Requests
  BY BridgeAssumption DEF Requests
<1>2. Shapes
  BY Empty DEF Init, Shapes
<1>3. Numbered /\ Matching /\ Unrouted
  BY Empty DEF Init, Numbered, Matching, Matches, Unrouted, Outstanding, Nobody
<1>4. OwnAnswers
  BY <1>1, Empty DEF Init, OwnAnswers
<1>5. DeathIsReported
  BY DEF Init, DeathIsReported
<1> QED BY <1>2, <1>3, <1>4, <1>5 DEF Inv

LEMMA HolderStep ==
  ASSUME Inv, (\E r \in Requests : Send(r)) \/ (\E c \in Chats : GiveUp(c)) \/ DropHandle
  PROVE  Inv'
<1>1. /\ UNCHANGED <<counter, pending, routes, hand, stdin, stdout, kind, bridge, status, reports>>
      /\ UNCHANGED reply \/ \E r, word : /\ word \in {"asked", "gone", "error"}
                                         /\ reply' = [reply EXCEPT ![r] = word]
      /\ UNCHANGED cmdq \/ \E r \in Requests : cmdq' = Append(cmdq, r)
  BY DEF Send, GiveUp, DropHandle, daemonVars, taskVars, childVars
<1>2. DOMAIN reply' = Requests /\ OwnAnswers'
  BY <1>1, NoAnswer DEF Inv, Shapes, OwnAnswers
<1>3. IsSeq(cmdq') /\ Entries(cmdq') \subseteq Requests
  <2>1. IsSeq(cmdq) /\ Entries(cmdq) \subseteq Requests
    BY DEF Inv, Shapes
  <2>2. ASSUME NEW r \in Requests, cmdq' = Append(cmdq, r)
        PROVE  IsSeq(cmdq') /\ Entries(cmdq') \subseteq Requests
    BY <2>1, <2>2, Appended
  <2> QED BY <1>1, <2>1, <2>2
<1>4. Shapes' /\ DeathIsReported'
  BY <1>1, <1>2, <1>3 DEF Inv, Shapes, DeathIsReported
<1> QED BY <1>1, <1>2, <1>4, NothingNew DEF Inv

\* A new number is higher than that of any line, and the line that bears it is
\* what its owner asked.
LEMMA ForwardStep ==
  ASSUME Inv, ForwardCommand
  PROVE  Inv'
<1> DEFINE r == Head(cmdq)
           n == RequestId(r)
           line == [of |-> r, id |-> n]
           waits == IF r \in Chats THEN {[id |-> n, by |-> r]} ELSE {}
           fresh == IF r \in Chats \cup Notices \cup Routed THEN {[id |-> n, by |-> r]} ELSE {}
<1>1. /\ r \in Requests
      /\ IsSeq(cmdq') /\ Entries(cmdq') \subseteq Requests
  BY Taken DEF ForwardCommand, Inv, Shapes
<1>2. /\ counter' = n
      /\ Outstanding' \subseteq Outstanding \cup fresh
      /\ stdin' \in {stdin, Append(stdin, line)}
      /\ UNCHANGED reply \/ \E R : reply' = FailChats(R)
      /\ bridge' \in {"running", "waiting"}
      /\ UNCHANGED <<kind, hand, stdout, status, reports>>
  BY DEF ForwardCommand, LeaveLoop, Outstanding, daemonVars, childVars
<1>3. /\ n \in {counter, counter + 1}
      /\ fresh # {} => n = counter + 1
      /\ fresh = {} => r \in Jobs \cup Stops
      /\ line.of = r /\ line.id = n
      /\ \A p \in fresh : p.id = n /\ p.by = r
  <2>1. CASE r \in Chats \cup Notices \cup Routed
    <3>1. n = counter + 1
      BY <2>1 DEF RequestId
    <3>2. fresh = {[id |-> n, by |-> r]}
      BY <2>1
    <3> HIDE DEF n, fresh, r
    <3>3. \A p \in fresh : p.id = n /\ p.by = r
      BY <3>2
    <3>4. line.of = r /\ line.id = n
      OBVIOUS
    <3> QED BY <3>1, <3>2, <3>3, <3>4
  <2>2. CASE r \notin Chats \cup Notices \cup Routed
    BY <1>1, <2>2 DEF RequestId, Requests
  <2> QED BY <2>1, <2>2
<1> HIDE DEF r, n, line, fresh, waits
<1>4. IsSeq(stdin') /\ Entries(stdin') \subseteq Entries(stdin) \cup {line}
  BY <1>2, Appended DEF Inv, Shapes
<1>5. DOMAIN reply' = Requests /\ OwnAnswers'
  BY <1>2, Failing DEF Inv, Shapes, OwnAnswers
<1>6. Shapes'
  BY <1>1, <1>2, <1>4, <1>5 DEF Inv, Shapes
<1>7. Numbered'
  BY <1>2, <1>3 DEF Inv, Numbered
<1>8. ASSUME NEW l, l.id \in 0..counter
      PROVE  l.id \in 0..counter' /\ (Matches(l) => Matches(l)')
  BY <1>2, <1>3, <1>8 DEF Inv, Numbered, Matches
<1>9. ASSUME NEW l, l = line
      PROVE  l.id \in 0..counter' /\ (l.of \notin Jobs \cup Stops => Matches(l)')
  <2>1. l.id = n /\ l.of = r
    BY <1>3, <1>9
  <2>2. l.id \in 0..counter'
    BY <1>2, <1>3, <2>1 DEF Inv, Numbered
  <2>3. ASSUME fresh # {}, NEW p \in Outstanding', l.id = p.id
        PROVE  l.of = p.by
    BY <1>2, <1>3, <2>1, <2>3 DEF Inv, Numbered
  <2> QED BY <1>3, <2>1, <2>2, <2>3 DEF Matches
<1>10. Matching'
  <2>1. \A m \in Entries(stdout) : m.type = "chat_response" => m.id \in 0..counter /\ Matches(m)
    BY DEF Inv, Matching, Matches
  <2>2. \A l \in Entries(stdin) : l.id \in 0..counter
    BY DEF Inv, Matching
  <2>3. ASSUME NEW l \in Entries(stdin')
        PROVE  l.id \in 0..counter' /\ (l.of \notin Jobs \cup Stops => Matches(l)')
    <3>1. CASE l \in Entries(stdin)
      BY <1>8, <2>2, <3>1 DEF Inv, Matching
    <3> QED BY <1>4, <1>9, <2>3, <3>1
  <2>4. hand'.id \in 0..counter' /\ (hand'.of \notin Jobs => Matches(hand)')
    <3>1. hand.id \in 0..counter /\ (hand.of \notin Jobs => Matches(hand))
      BY DEF Inv, Matching
    <3> DEFINE M(l) == \A p \in Outstanding' : l.id = p.id => l.of = p.by
    <3>2. hand.id \in 0..counter' /\ (Matches(hand) => M(hand))
      BY <1>2, <1>3, <3>1 DEF Inv, Numbered, Matches
    <3> QED BY <1>2, <3>1, <3>2 DEF Matches
  <2>5. ASSUME NEW m \in Entries(stdout'), m.type = "chat_response"
        PROVE  Matches(m)'
    BY <1>2, <1>8, <2>1, <2>5
  <2> QED BY <2>3, <2>4, <2>5 DEF Matching
<1>11. Unrouted' /\ DeathIsReported'
  BY <1>2 DEF Inv, Unrouted, DeathIsReported
<1> QED BY <1>5, <1>6, <1>7, <1>10, <1>11 DEF Inv

\* The only step that fills in an answer.
LEMMA ReadStep ==
  ASSUME Inv, ReadMessage
  PROVE  Inv'
<1> DEFINE m == Head(stdout)
<1>1. /\ m \in Entries(stdout)
      /\ IsSeq(stdout') /\ Entries(stdout') \subseteq Entries(stdout)
  BY Taken DEF ReadMessage, Inv, Shapes
<1>2. UNCHANGED <<kind, cmdq, counter, hand, stdin>>
  BY DEF ReadMessage, daemonVars, childVars
<1>3. /\ m.type # "channel_message"
      /\ m.type = "chat_response" => Matches(m)
  BY <1>1 DEF Inv, Unrouted, Matching
<1>4. SUFFICES /\ DOMAIN reply' = Requests /\ IsSeq(reports')
               /\ OwnAnswers'
               /\ pending' \subseteq pending /\ routes' \subseteq routes
               /\ bridge' \in {"running", "waiting"}
  <2>1. Shapes'
    BY <1>1, <1>2, <1>4 DEF Inv, Shapes
  <2>2. DeathIsReported'
    BY <1>4 DEF DeathIsReported
  <2> QED BY <1>1, <1>2, <1>4, <2>1, <2>2, NothingNew DEF Inv
<1>5. bridge = "running" /\ DOMAIN reply = Requests /\ IsSeq(reports)
  BY DEF ReadMessage, Inv, Shapes
<1> HIDE DEF m
<1>6. CASE m.type = "chat_response" /\ TakeAnswer(m)
  <2>1. ASSUME NEW p \in pending, p.id = m.id, pending' = pending \ {p},
               reply' = IF reply[p.by] = "asked"
                        THEN [reply EXCEPT ![p.by] = IF m.ok THEN m.of ELSE "error"]
                        ELSE reply,
               UNCHANGED <<bridge, routes, status, reports>>
        PROVE  DOMAIN reply' = Requests /\ OwnAnswers'
    <3>1. m.of = p.by
      BY <1>3, <1>6, <2>1 DEF Matches, Outstanding
    <3>2. "error" \notin Requests /\ Chats \subseteq Requests
      BY BridgeAssumption DEF Requests
    <3> QED BY <1>5, <2>1, <3>1, <3>2 DEF Inv, OwnAnswers
  <2>2. ASSUME NEW p \in routes, p.id = m.id, routes' = routes \ {p},
               reports' = Append(reports,
                 IF m.ok THEN [type |-> "channel_message", of |-> m.of, to |-> p.by]
                         ELSE [type |-> "job_failed", of |-> m.of]),
               UNCHANGED <<bridge, reply, pending, status>>
        PROVE  IsSeq(reports') /\ OwnAnswers'
    <3> DEFINE e == IF m.ok THEN [type |-> "channel_message", of |-> m.of, to |-> p.by]
                            ELSE [type |-> "job_failed", of |-> m.of]
    <3>1. m.of = p.by
      BY <1>3, <1>6, <2>2 DEF Matches, Outstanding
    <3>2. e.type = "channel_message" => e.of = e.to
      BY <3>1
    <3>3. IsSeq(reports') /\ Entries(reports') = Entries(reports) \cup {e}
      BY <1>5, <2>2, Appended
    <3> HIDE DEF e
    <3> QED BY <2>2, <3>2, <3>3 DEF Inv, OwnAnswers
  <2>3. CASE UNCHANGED <<bridge, reply, pending, routes, status, reports>>
    BY <1>5, <2>3 DEF Inv, OwnAnswers
  <2> QED BY <1>5, <1>6, <2>1, <2>2, <2>3 DEF TakeAnswer
<1>7. CASE m.type = "status" /\ TakeStatus(m)
  <2>1. /\ UNCHANGED <<routes, reports>>
        /\ \/ reply' = FailChats(Waiting) /\ pending' = {} /\ bridge' = "waiting"
           \/ UNCHANGED <<bridge, reply, pending>>
    BY <1>7 DEF TakeStatus, LeaveLoop
  <2>2. DOMAIN reply' = Requests /\ OwnAnswers'
    BY <1>5, <2>1, Failing DEF Inv, OwnAnswers
  <2> QED BY <1>5, <2>1, <2>2
<1>8. CASE Terminal(m) /\ TakeReport(m)
  <2>1. reports' = Append(reports, m) /\ UNCHANGED <<bridge, reply, pending, routes>>
    BY <1>8 DEF TakeReport
  <2>2. IsSeq(reports') /\ Entries(reports') = Entries(reports) \cup {m}
    BY <1>5, <2>1, Appended
  <2> QED BY <1>3, <1>5, <2>1, <2>2 DEF Inv, OwnAnswers
<1> QED BY <1>6, <1>7, <1>8 DEF ReadMessage, m

\* The steps of the bridge that end it, or begin it.
LEMMA BridgeStep ==
  ASSUME Inv, SpawnChild \/ SpawnFails \/ CommandsEnd \/ OutputEnds \/ Reap
  PROVE  Inv'
<1>1. /\ UNCHANGED <<counter, routes, hand, kind, reports>>
      /\ pending' \in {pending, {}}
      /\ cmdq' \in {cmdq, <<>>} /\ stdin' \in {stdin, <<>>} /\ stdout' \in {stdout, <<>>}
      /\ UNCHANGED reply \/ \E R : reply' = FailChats(R)
      /\ bridge' = "done" => status' \in {"Stopped", "Error"}
  BY DEF SpawnChild, SpawnFails, CommandsEnd, OutputEnds, Reap, LeaveLoop, LastUpdate,
         daemonVars, childVars
<1>2. DOMAIN reply' = Requests /\ OwnAnswers'
  BY <1>1, Failing DEF Inv, Shapes, OwnAnswers
<1>3. Shapes' /\ DeathIsReported'
  BY <1>1, <1>2, Empty DEF Inv, Shapes, DeathIsReported
<1>4. Numbered' /\ Matching' /\ Unrouted'
  BY <1>1, Empty, NothingNew
<1> QED BY <1>2, <1>3, <1>4 DEF Inv

LEMMA ChildStep ==
  ASSUME Inv, Child \/ ChildDies
  PROVE  Inv'
<1>1. IsSeq(stdin) /\ 0 \in 0..counter /\ Matches(Nobody) /\ Nobody.id = 0
  BY DEF Inv, Shapes, Numbered, Matches, Nobody
<1>2. hand.id \in 0..counter /\ (hand.of \notin Jobs => Matches(hand))
  BY DEF Inv, Matching
<1>3. CASE Build
  <2>1. \A s : IsSeq(<<Status(s)>>) /\ Entries(<<Status(s)>>) = {Status(s)} /\ Status(s).type = "status"
    BY DEF IsSeq, Entries, Status
  <2> QED BY <1>1, <1>2, <1>3, <2>1, Writing DEF Build, Log
<1>4. CASE TakeLine
  <2> DEFINE c == Head(stdin)
  <2>1. /\ c \in Entries(stdin)
        /\ IsSeq(stdin') /\ Entries(stdin') \subseteq Entries(stdin)
    BY <1>1, <1>4, Taken DEF TakeLine
  <2>2. CASE Quit(c)
    <3> DEFINE words == <<Log, Status("Stopped")>>
    <3>1. IsSeq(words) /\ \A w \in Entries(words) : w.type = "status"
      BY DEF IsSeq, Entries, Status, Log
    <3>2. Writes(words) /\ UNCHANGED hand
      BY <2>2 DEF Quit
    <3> HIDE DEF words
    <3> QED BY <1>2, <2>1, <3>1, <3>2, Writing
  <2>3. CASE c.of \notin Stops /\ hand' = c /\ Writes(<<>>)
    <3>1. c.id \in 0..counter /\ (c.of \notin Jobs => Matches(c))
      BY <2>1, <2>3 DEF Inv, Matching
    <3> HIDE DEF c
    <3> QED BY <2>1, <2>3, <3>1, Empty, Writing
  <2> QED BY <1>4, <2>2, <2>3 DEF TakeLine
<1>5. ASSUME NEW ok \in BOOLEAN, Finish(ok)
      PROVE  Inv'
  <2> DEFINE answer == IF hand.of \in Jobs
                       THEN [type |-> IF ok THEN "job_completed" ELSE "job_failed", of |-> hand.of]
                       ELSE [type |-> "chat_response", of |-> hand.of, id |-> hand.id, ok |-> ok]
  <2>1. /\ answer.type # "channel_message"
        /\ answer.type = "chat_response" =>
             hand.of \notin Jobs /\ answer.id = hand.id /\ answer.of = hand.of
    OBVIOUS
  <2>2. Log.type = "status"
    BY DEF Log, Status
  <2>3. hand' = Nobody /\ UNCHANGED stdin /\ Writes(<<answer, Log>>)
    BY <1>5 DEF Finish
  <2> HIDE DEF answer
  <2>4. answer.type = "chat_response" => Matches(answer)
    BY <1>2, <2>1 DEF Matches
  <2>5. IsSeq(<<answer, Log>>) /\ Entries(<<answer, Log>>) = {answer, Log}
    BY DEF IsSeq, Entries
  <2> QED BY <1>1, <2>1, <2>2, <2>3, <2>4, <2>5, Writing
<1>6. ASSUME NEW ok \in BOOLEAN, CapsuleFinish(ok)
      PROVE  Inv'
  <2> DEFINE report == [type |-> IF ok THEN "job_completed" ELSE "job_failed", of |-> hand.of]
  <2>1. report.type \notin {"channel_message", "chat_response"}
    OBVIOUS
  <2>2. UNCHANGED <<hand, stdin>> /\ Writes(<<report>>)
    BY <1>6 DEF CapsuleFinish
  <2> HIDE DEF report
  <2>3. IsSeq(<<report>>) /\ Entries(<<report>>) = {report}
    BY DEF IsSeq, Entries
  <2> QED BY <1>1, <1>2, <2>1, <2>2, <2>3, Writing
<1>7. CASE ChildDies
  <2>1. /\ hand' = Nobody
        /\ UNCHANGED <<kind, reply, cmdq, bridge, counter, pending, routes, stdin, stdout, status,
                       reports>>
    BY <1>7 DEF ChildDies, daemonVars, taskVars
  <2>2. Shapes' /\ OwnAnswers' /\ DeathIsReported'
    BY <2>1 DEF Inv, Shapes, OwnAnswers, DeathIsReported
  <2>3. Numbered' /\ Unrouted'
    BY <2>1 DEF Inv, Numbered, Unrouted, Outstanding
  <2>4. Matching'
    BY <1>1, <2>1 DEF Inv, Matching, Matches, Outstanding
  <2> QED BY <2>2, <2>3, <2>4 DEF Inv
<1> QED BY <1>3, <1>4, <1>5, <1>6, <1>7 DEF Child

LEMMA CapsuleStep ==
  ASSUME Inv, SpawnCapsule \/ CapsuleFails \/ CapsuleCommand \/ CapsuleRead \/ CapsulePipeBreaks
  PROVE  Inv'
<1>1. IsSeq(Failure) /\ \A e \in Entries(Failure) : e.type # "channel_message"
  <2> DEFINE e == [type |-> "job_failed", of |-> CHOOSE j \in Jobs : TRUE]
  <2>1. Failure = <<e>> /\ e.type # "channel_message"
    BY DEF Failure
  <2> HIDE DEF e
  <2>2. IsSeq(<<e>>) /\ Entries(<<e>>) = {e}
    BY DEF IsSeq, Entries
  <2> QED BY <2>1, <2>2
<1>2. CASE SpawnCapsule
  <2>1. /\ hand'.id = 0
        /\ bridge' = "running"
        /\ UNCHANGED <<kind, reply, cmdq, counter, pending, routes, stdin, stdout, status, reports>>
    BY <1>2 DEF SpawnCapsule, daemonVars
  <2>2. Shapes' /\ OwnAnswers' /\ DeathIsReported'
    BY <2>1 DEF Inv, Shapes, OwnAnswers, DeathIsReported
  <2>3. Numbered' /\ Unrouted'
    BY <2>1 DEF Inv, Numbered, Unrouted, Outstanding
  <2>4. Matching'
    BY <2>1 DEF Inv, Numbered, Matching, Matches, Outstanding
  <2> QED BY <2>2, <2>3, <2>4 DEF Inv
<1>3. CASE CapsuleFails \/ CapsulePipeBreaks
  BY <1>1, <1>3, CapsuleEnd DEF CapsuleFails, CapsulePipeBreaks
<1>4. CASE CapsuleCommand
  <2>1. CASE End(<<>>)
    BY <1>4, <2>1, Empty, CapsuleEnd DEF CapsuleCommand
  <2>2. CASE /\ cmdq # <<>>
             /\ cmdq' = Tail(cmdq)
             /\ UNCHANGED <<daemonVars, reply, taskVars, childVars, stdin, stdout, status, reports>>
    <3>1. IsSeq(cmdq') /\ Entries(cmdq') \subseteq Requests
      BY <2>2, Taken DEF Inv, Shapes
    <3>2. Shapes' /\ OwnAnswers' /\ DeathIsReported'
      BY <2>2, <3>1 DEF Inv, Shapes, OwnAnswers, DeathIsReported, daemonVars, taskVars
    <3>3. Numbered' /\ Matching' /\ Unrouted'
      BY <2>2, NothingNew DEF taskVars, childVars
    <3> QED BY <3>2, <3>3 DEF Inv
  <2> QED BY <1>4, <2>1, <2>2 DEF CapsuleCommand
<1>5. CASE CapsuleRead
  <2>1. CASE stdout # <<>> /\ End(<<Head(stdout)>>)
    <3>1. Head(stdout) \in Entries(stdout)
      BY <2>1, Taken DEF Inv, Shapes
    <3>2. IsSeq(<<Head(stdout)>>) /\ Entries(<<Head(stdout)>>) = {Head(stdout)}
      BY DEF IsSeq, Entries
    <3>3. Head(stdout).type # "channel_message"
      BY <3>1 DEF Inv, Unrouted
    <3> QED BY <1>5, <2>1, <3>2, <3>3, CapsuleEnd DEF CapsuleRead
  <2>2. CASE End(Failure)
    BY <1>1, <1>5, <2>2, CapsuleEnd DEF CapsuleRead
  <2> QED BY <1>5, <2>1, <2>2 DEF CapsuleRead
<1> QED BY <1>2, <1>3, <1>4, <1>5

LEMMA StepInv ==
  ASSUME Inv, Next
  PROVE  Inv'
BY HolderStep, ForwardStep, ReadStep, BridgeStep, ChildStep, CapsuleStep DEF Next, Task

LEMMA Stutter ==
  ASSUME Inv, UNCHANGED vars
  PROVE  Inv'
<1> USE DEF vars
<1>1. Shapes' /\ OwnAnswers' /\ DeathIsReported'
  BY DEF Inv, Shapes, OwnAnswers, DeathIsReported
<1>2. Numbered' /\ Matching' /\ Unrouted'
  BY NothingNew
<1> QED BY <1>1, <1>2 DEF Inv

LEMMA Invariance == Spec => []Inv
<1>1. Init => Inv
  BY InitInv
<1>2. Inv /\ [Next]_vars => Inv'
  BY StepInv, Stutter
<1> QED BY <1>1, <1>2, PTL DEF Spec

-----------------------------------------------------------------------------

\* Whoever waits for a chat gets the answer to his own question, and a channel
\* gets the words of the participant it asked (req_counter, pending and
\* pending_channel of worker_bridge).
THEOREM AnswersAreOwn == Spec => []OwnAnswers
<1>1. Inv => OwnAnswers
  BY DEF Inv
<1> QED BY <1>1, Invariance, PTL

\* A bridge that is gone has said so: its last update is Stopped or Error.
THEOREM DeathsAreReported == Spec => []DeathIsReported
<1>1. Inv => DeathIsReported
  BY DEF Inv
<1> QED BY <1>1, Invariance, PTL
-----------------------------------------------------------------------------
(* A request is in one place at a time: in the queue, in the child's stdin,*)
(* in its hands, among what it wrote, or reported; so no answer is         *)
(* reported twice.  A capsule's task speaks once and is done.              *)

Asked == {r \in Requests : reply[r] # "new"}
Queued == Entries(cmdq)
Written == {l.of : l \in Entries(stdin)}
AtChild == IF child = "busy" THEN {hand.of} ELSE {}
Answered == {m.of : m \in {l \in Entries(stdout) : l.type # "status"}}
Told == {e.of : e \in Entries(reports)}

QueuedOnce == \A i, k \in DOMAIN cmdq : cmdq[i] = cmdq[k] => i = k
WrittenOnce == \A i, k \in DOMAIN stdin : stdin[i].of = stdin[k].of => i = k
AnsweredOnce ==
  \A i, k \in DOMAIN stdout :
    stdout[i].type # "status" /\ stdout[k].type # "status" /\ stdout[i].of = stdout[k].of => i = k

OnePlace ==
  /\ QueuedOnce /\ WrittenOnce /\ AnsweredOnce /\ ReportedOnce
  /\ Queued \cup Written \cup AtChild \cup Answered \cup Told \subseteq Asked
  /\ Queued \cap (Written \cup AtChild \cup Answered \cup Told) = {}
  /\ Written \cap (AtChild \cup Answered \cup Told) = {}
  /\ AtChild \cap (Answered \cup Told) = {}
  /\ Answered \cap Told = {}

SpeaksOnce == Len(reports) <= 1 /\ (bridge # "done" => reports = <<>>)

Once == IF kind = "capsule" THEN SpeaksOnce ELSE OnePlace

LEMMA AppendedAt ==
  ASSUME NEW s, IsSeq(s), NEW e
  PROVE  \A i \in DOMAIN Append(s, e) :
           \/ i \in DOMAIN s /\ Append(s, e)[i] = s[i]
           \/ i = Len(s) + 1 /\ Append(s, e)[i] = e
<1>1. s \in Seq(Entries(s) \cup {e})
  BY DEF IsSeq
<1>2. /\ DOMAIN s = 1..Len(s) /\ Len(s) \in Nat
      /\ DOMAIN Append(s, e) = 1..Len(s) + 1
      /\ \A i \in 1..Len(s) : Append(s, e)[i] = s[i]
      /\ Append(s, e)[Len(s) + 1] = e
  BY <1>1, AppendProperties, LenProperties
<1>3. \A i \in 1..Len(s) + 1 : i \in 1..Len(s) \/ i = Len(s) + 1
  BY <1>2
<1> QED BY <1>2, <1>3

LEMMA ConcatenatedAt ==
  ASSUME NEW s, NEW t, IsSeq(s), IsSeq(t)
  PROVE  /\ Len(s) \in Nat
         /\ \A i \in DOMAIN (s \o t) :
              \/ i \in DOMAIN s /\ (s \o t)[i] = s[i]
              \/ i \in Nat /\ i - Len(s) \in DOMAIN t /\ (s \o t)[i] = t[i - Len(s)]
<1> DEFINE S == Entries(s) \cup Entries(t)
<1>1. s \in Seq(S) /\ t \in Seq(S)
  BY DEF IsSeq
<1>2. /\ s \o t \in Seq(S)
      /\ Len(s \o t) = Len(s) + Len(t)
      /\ \A i \in 1..Len(s) + Len(t) :
           (s \o t)[i] = IF i <= Len(s) THEN s[i] ELSE t[i - Len(s)]
  BY <1>1, ConcatProperties
<1>3. /\ Len(s) \in Nat /\ Len(t) \in Nat
      /\ DOMAIN s = 1..Len(s) /\ DOMAIN t = 1..Len(t)
      /\ DOMAIN (s \o t) = 1..Len(s) + Len(t)
  BY <1>1, <1>2, LenProperties
<1> QED BY <1>2, <1>3

LEMMA TakenAt ==
  ASSUME NEW s, IsSeq(s), s # <<>>
  PROVE  /\ 1 \in DOMAIN s /\ Head(s) = s[1]
         /\ \A i \in DOMAIN Tail(s) : /\ i \in Nat \ {0} /\ i + 1 \in DOMAIN s
                                      /\ Tail(s)[i] = s[i + 1]
<1> DEFINE S == Entries(s)
<1>1. s \in Seq(S)
  BY DEF IsSeq
<1> HIDE DEF S
<1>2. /\ Head(s) = s[1]
      /\ Tail(s) \in Seq(S)
      /\ Len(Tail(s)) = Len(s) - 1
      /\ \A i \in 1..Len(Tail(s)) : Tail(s)[i] = s[i + 1]
  BY <1>1, HeadTailProperties
<1>3. DOMAIN Tail(s) = 1..Len(Tail(s)) /\ DOMAIN s = 1..Len(s) /\ Len(s) \in Nat /\ Len(s) # 0
  BY <1>1, <1>2, LenProperties, EmptySeq
<1> QED BY <1>2, <1>3

\* What is taken from a queue is not in it any more.
LEMMA QueueHead ==
  ASSUME Shapes, OnePlace, cmdq # <<>>, cmdq' = Tail(cmdq)
  PROVE  QueuedOnce' /\ Head(cmdq) \in Queued /\ Queued' \subseteq Queued \ {Head(cmdq)}
<1>1. /\ 1 \in DOMAIN cmdq /\ Head(cmdq) = cmdq[1]
      /\ \A i \in DOMAIN cmdq' : /\ i \in Nat \ {0} /\ i + 1 \in DOMAIN cmdq
                                 /\ cmdq'[i] = cmdq[i + 1]
  BY TakenAt DEF Shapes
<1>2. \A i \in Nat \ {0} : i + 1 # 1
  OBVIOUS
<1>3. \A i, k \in Nat : i + 1 = k + 1 => i = k
  OBVIOUS
<1> QED BY <1>1, <1>2, <1>3 DEF OnePlace, QueuedOnce, Queued, Entries

LEMMA LineHead ==
  ASSUME Shapes, OnePlace, stdin # <<>>, stdin' = Tail(stdin)
  PROVE  WrittenOnce' /\ Head(stdin).of \in Written /\ Written' \subseteq Written \ {Head(stdin).of}
<1>1. /\ 1 \in DOMAIN stdin /\ Head(stdin) = stdin[1]
      /\ \A i \in DOMAIN stdin' : /\ i \in Nat \ {0} /\ i + 1 \in DOMAIN stdin
                                  /\ stdin'[i] = stdin[i + 1]
  BY TakenAt DEF Shapes
<1>2. \A i \in Nat \ {0} : i + 1 # 1
  OBVIOUS
<1>3. \A i, k \in Nat : i + 1 = k + 1 => i = k
  OBVIOUS
<1> QED BY <1>1, <1>2, <1>3 DEF OnePlace, WrittenOnce, Written, Entries

LEMMA MessageHead ==
  ASSUME Shapes, OnePlace, stdout # <<>>, stdout' = Tail(stdout)
  PROVE  /\ AnsweredOnce' /\ Answered' \subseteq Answered
         /\ Head(stdout).type # "status" => Head(stdout).of \in Answered \ Answered'
<1>1. /\ 1 \in DOMAIN stdout /\ Head(stdout) = stdout[1]
      /\ \A i \in DOMAIN stdout' : /\ i \in Nat \ {0} /\ i + 1 \in DOMAIN stdout
                                   /\ stdout'[i] = stdout[i + 1]
  BY TakenAt DEF Shapes
<1>2. \A i \in Nat \ {0} : i + 1 # 1
  OBVIOUS
<1>3. \A i, k \in Nat : i + 1 = k + 1 => i = k
  OBVIOUS
<1>4. AnsweredOnce'
  BY <1>1, <1>3 DEF OnePlace, AnsweredOnce
<1>5. Answered' \subseteq Answered
  BY <1>1 DEF Answered, Entries
<1>6. ASSUME Head(stdout).type # "status"
      PROVE  Head(stdout).of \in Answered \ Answered'
  <2>1. Head(stdout).of \in Answered
    BY <1>1, <1>6 DEF Answered, Entries
  <2>2. ASSUME NEW i \in DOMAIN stdout', stdout'[i].type # "status",
               stdout'[i].of = Head(stdout).of
        PROVE  FALSE
    BY <1>1, <1>2, <1>6, <2>2 DEF OnePlace, AnsweredOnce
  <2> QED BY <2>1, <2>2 DEF Answered, Entries
<1> QED BY <1>4, <1>5, <1>6

\* Requests are asked for good.
LEMMA StayAsked ==
  ASSUME Shapes, UNCHANGED reply \/ (\E R : reply' = FailChats(R))
  PROVE  Asked \subseteq Asked'
BY DEF Shapes, Asked, FailChats

\* A step that only drops what is under way.
LEMMA NoneMoves ==
  ASSUME Shapes, OnePlace, Asked \subseteq Asked', UNCHANGED reports,
         cmdq' \in {cmdq, <<>>}, stdin' \in {stdin, <<>>}, stdout' \in {stdout, <<>>},
         AtChild' \subseteq AtChild
  PROVE  OnePlace'
<1>1. QueuedOnce' /\ WrittenOnce' /\ AnsweredOnce' /\ ReportedOnce'
  BY DEF OnePlace, QueuedOnce, WrittenOnce, AnsweredOnce, ReportedOnce
<1>2. Queued' \subseteq Queued /\ Written' \subseteq Written /\ Answered' \subseteq Answered
  BY Empty DEF Queued, Written, Answered
<1>3. Told' = Told
  BY DEF Told
<1> QED BY <1>1, <1>2, <1>3 DEF OnePlace

LEMMA HolderOnce ==
  ASSUME Inv, OnePlace, (\E r \in Requests : Send(r)) \/ (\E c \in Chats : GiveUp(c)) \/ DropHandle
  PROVE  OnePlace'
<1>1. Shapes
  BY DEF Inv
<1>2. UNCHANGED <<child, hand, stdin, stdout, reports>>
  BY DEF Send, GiveUp, DropHandle, childVars
<1>3. AtChild' = AtChild
  BY <1>2 DEF AtChild
<1>4. CASE (\E c \in Chats : GiveUp(c)) \/ DropHandle
  <2>1. Asked \subseteq Asked' /\ UNCHANGED cmdq
    BY <1>1, <1>4 DEF GiveUp, DropHandle, Asked, Shapes
  <2> QED BY <1>1, <1>2, <1>3, <2>1, NoneMoves
<1>5. ASSUME NEW r \in Requests, Send(r)
      PROVE  OnePlace'
  <2>1. CASE bridge = "done"
    <3>1. Asked \subseteq Asked' /\ UNCHANGED cmdq
      BY <1>1, <1>5, <2>1 DEF Send, Asked, Shapes
    <3> QED BY <1>1, <1>2, <1>3, <3>1, NoneMoves
  <2>2. CASE bridge # "done"
    <3>1. reply[r] = "new" /\ reply' = [reply EXCEPT ![r] = "asked"] /\ cmdq' = Append(cmdq, r)
      BY <1>5, <2>2 DEF Send
    <3>2. r \notin Asked /\ Asked \cup {r} \subseteq Asked'
      BY <1>1, <3>1 DEF Asked, Shapes
    <3>3. Queued' = Queued \cup {r}
      BY <1>1, <3>1, Appended DEF Shapes, Queued
    <3>4. \A i \in DOMAIN cmdq' : \/ i \in DOMAIN cmdq /\ cmdq'[i] = cmdq[i]
                                  \/ i = Len(cmdq) + 1 /\ cmdq'[i] = r
      BY <1>1, <3>1, AppendedAt DEF Shapes
    <3>5. \A i \in DOMAIN cmdq : cmdq[i] # r
      BY <3>2 DEF OnePlace, Queued, Entries
    <3>6. QueuedOnce'
      BY <3>4, <3>5 DEF OnePlace, QueuedOnce
    <3>7. Written' = Written /\ Answered' = Answered /\ Told' = Told
      BY <1>2 DEF Written, Answered, Told
    <3>8. WrittenOnce' /\ AnsweredOnce' /\ ReportedOnce'
      BY <1>2 DEF OnePlace, WrittenOnce, AnsweredOnce, ReportedOnce
    <3> QED BY <1>3, <3>2, <3>3, <3>6, <3>7, <3>8 DEF OnePlace
  <2> QED BY <2>1, <2>2
<1> QED BY <1>4, <1>5

\* The head of the queue becomes the last line of stdin, or is lost.
LEMMA ForwardOnce ==
  ASSUME Inv, OnePlace, ForwardCommand
  PROVE  OnePlace'
<1> DEFINE r == Head(cmdq)
           line == [of |-> r, id |-> RequestId(r)]
<1>1. Shapes
  BY DEF Inv
<1>2. /\ cmdq # <<>> /\ cmdq' = Tail(cmdq)
      /\ stdin' \in {stdin, Append(stdin, line)}
      /\ UNCHANGED reply \/ \E R : reply' = FailChats(R)
      /\ UNCHANGED <<child, hand, stdout, reports>>
  BY DEF ForwardCommand, LeaveLoop, childVars
<1>3. QueuedOnce' /\ r \in Queued /\ Queued' \subseteq Queued \ {r}
  BY <1>1, <1>2, QueueHead
<1>4. line.of = r
  OBVIOUS
<1> HIDE DEF line, r
<1>5. Asked \subseteq Asked'
  BY <1>1, <1>2, StayAsked
<1>6. r \notin Written
  BY <1>3 DEF OnePlace
<1>7. WrittenOnce' /\ Written' \subseteq Written \cup {r}
  <2>1. CASE stdin' = stdin
    BY <2>1 DEF OnePlace, WrittenOnce, Written
  <2>2. CASE stdin' = Append(stdin, line)
    <3>1. Entries(stdin') = Entries(stdin) \cup {line}
      BY <1>1, <2>2, Appended DEF Shapes
    <3>2. \A i \in DOMAIN stdin' : \/ i \in DOMAIN stdin /\ stdin'[i] = stdin[i]
                                   \/ i = Len(stdin) + 1 /\ stdin'[i] = line
      BY <1>1, <2>2, AppendedAt DEF Shapes
    <3>3. \A i \in DOMAIN stdin : stdin[i].of # r
      BY <1>6 DEF Written, Entries
    <3> QED BY <1>4, <3>1, <3>2, <3>3 DEF OnePlace, WrittenOnce, Written
  <2> QED BY <1>2, <2>1, <2>2
<1>8. AtChild' = AtChild /\ Answered' = Answered /\ Told' = Told
  BY <1>2 DEF AtChild, Answered, Told
<1>9. AnsweredOnce' /\ ReportedOnce'
  BY <1>2 DEF OnePlace, AnsweredOnce, ReportedOnce
<1> QED BY <1>3, <1>5, <1>7, <1>8, <1>9 DEF OnePlace

\* The first message becomes the last report, is told to the chat, or is lost.
LEMMA ReadOnce ==
  ASSUME Inv, OnePlace, ReadMessage
  PROVE  OnePlace'
<1> DEFINE m == Head(stdout)
<1>1. Shapes
  BY DEF Inv
<1>2. stdout # <<>> /\ stdout' = Tail(stdout) /\ UNCHANGED <<cmdq, stdin, child, hand>>
  BY DEF ReadMessage, childVars
<1>3. /\ AnsweredOnce' /\ Answered' \subseteq Answered
      /\ m.type # "status" => m.of \in Answered \ Answered'
  BY <1>1, <1>2, MessageHead
<1>4. Queued' = Queued /\ Written' = Written /\ AtChild' = AtChild
  BY <1>2 DEF Queued, Written, AtChild
<1>5. QueuedOnce' /\ WrittenOnce'
  BY <1>2 DEF OnePlace, QueuedOnce, WrittenOnce
<1> HIDE DEF m
<1>6. SUFFICES /\ Asked \subseteq Asked'
               /\ \/ UNCHANGED reports
                  \/ m.type # "status" /\ \E e : e.of = m.of /\ reports' = Append(reports, e)
  <2>1. CASE UNCHANGED reports
    <3>1. ReportedOnce' /\ Told' = Told
      BY <2>1 DEF OnePlace, ReportedOnce, Told
    <3> QED BY <1>3, <1>4, <1>5, <1>6, <3>1 DEF OnePlace
  <2>2. ASSUME m.type # "status", NEW e, e.of = m.of, reports' = Append(reports, e)
        PROVE  OnePlace'
    <3>1. m.of \in Answered \ Answered' /\ m.of \notin Told
      BY <1>3, <2>2 DEF OnePlace
    <3>2. Told' = Told \cup {m.of}
      BY <1>1, <2>2, Appended DEF Shapes, Told
    <3>3. \A i \in DOMAIN reports' : \/ i \in DOMAIN reports /\ reports'[i] = reports[i]
                                     \/ i = Len(reports) + 1 /\ reports'[i] = e
      BY <1>1, <2>2, AppendedAt DEF Shapes
    <3>4. \A i \in DOMAIN reports : reports[i].of # m.of
      BY <3>1 DEF Told, Entries
    <3>5. ReportedOnce'
      BY <2>2, <3>3, <3>4 DEF OnePlace, ReportedOnce
    <3> QED BY <1>3, <1>4, <1>5, <1>6, <3>1, <3>2, <3>5 DEF OnePlace
  <2> QED BY <1>6, <2>1, <2>2
<1>7. CASE m.type = "chat_response" /\ TakeAnswer(m)
  <2>1. m.of # "new"
    <3>1. m.of \in Asked
      BY <1>3, <1>7 DEF OnePlace
    <3> QED BY <3>1, BridgeAssumption DEF Asked, Requests
  <2>2. ASSUME NEW p, reply' = IF reply[p.by] = "asked"
                               THEN [reply EXCEPT ![p.by] = IF m.ok THEN m.of ELSE "error"]
                               ELSE reply
        PROVE  Asked \subseteq Asked'
    BY <1>1, <2>1, <2>2 DEF Asked, Shapes
  <2>3. UNCHANGED reply => Asked \subseteq Asked'
    BY DEF Asked
  <2>4. ASSUME NEW p, reports' = Append(reports,
                 IF m.ok THEN [type |-> "channel_message", of |-> m.of, to |-> p.by]
                         ELSE [type |-> "job_failed", of |-> m.of])
        PROVE  \E e : e.of = m.of /\ reports' = Append(reports, e)
    <3>1. CASE m.ok
      <4>1. reports' = Append(reports, [type |-> "channel_message", of |-> m.of, to |-> p.by])
        BY <2>4, <3>1
      <4> QED BY <4>1
    <3>2. CASE ~m.ok
      <4>1. reports' = Append(reports, [type |-> "job_failed", of |-> m.of])
        BY <2>4, <3>2
      <4> QED BY <4>1
    <3> QED BY <3>1, <3>2
  <2>5. \/ UNCHANGED reports /\ (UNCHANGED reply \/ \E p : reply' =
              IF reply[p.by] = "asked"
              THEN [reply EXCEPT ![p.by] = IF m.ok THEN m.of ELSE "error"]
              ELSE reply)
        \/ UNCHANGED reply /\ \E p : reports' = Append(reports,
              IF m.ok THEN [type |-> "channel_message", of |-> m.of, to |-> p.by]
                      ELSE [type |-> "job_failed", of |-> m.of])
    BY <1>7 DEF TakeAnswer
  <2> QED BY <1>7, <2>2, <2>3, <2>4, <2>5
<1>8. CASE m.type = "status" /\ TakeStatus(m)
  <2>1. UNCHANGED reports /\ (UNCHANGED reply \/ \E R : reply' = FailChats(R))
    BY <1>8 DEF TakeStatus, LeaveLoop
  <2> QED BY <1>1, <2>1, StayAsked
<1>9. CASE Terminal(m) /\ TakeReport(m)
  <2>1. reports' = Append(reports, m) /\ UNCHANGED reply /\ m.type # "status"
    BY <1>9 DEF TakeReport, Terminal
  <2> QED BY <1>1, <2>1, StayAsked
<1> QED BY <1>7, <1>8, <1>9 DEF ReadMessage, m

LEMMA BridgeOnce ==
  ASSUME Inv, OnePlace, SpawnChild \/ SpawnFails \/ CommandsEnd \/ OutputEnds \/ Reap
  PROVE  OnePlace'
<1>1. Shapes
  BY DEF Inv
<1>2. /\ UNCHANGED reports
      /\ cmdq' \in {cmdq, <<>>} /\ stdin' \in {stdin, <<>>} /\ stdout' \in {stdout, <<>>}
      /\ UNCHANGED reply \/ \E R : reply' = FailChats(R)
  BY DEF SpawnChild, SpawnFails, CommandsEnd, OutputEnds, Reap, LeaveLoop
<1>3. AtChild' \subseteq AtChild
  BY DEF SpawnChild, SpawnFails, CommandsEnd, OutputEnds, Reap, childVars, AtChild
<1> QED BY <1>1, <1>2, <1>3, StayAsked, NoneMoves

\* What the child writes, at most one answer among it.
LEMMA WritingOnce ==
  ASSUME Shapes, OnePlace, NEW r, NEW messages, IsSeq(messages), stdout' = stdout \o messages,
         \A i \in DOMAIN messages : messages[i].type # "status" => i = 1 /\ messages[i].of = r,
         r \in Answered => \A i \in DOMAIN messages : messages[i].type = "status"
  PROVE  /\ AnsweredOnce'
         /\ Answered' \subseteq Answered \cup {r}
         /\ (\A i \in DOMAIN messages : messages[i].type = "status") => Answered' \subseteq Answered
<1>1. IsSeq(stdout) /\ Entries(stdout') = Entries(stdout) \cup Entries(messages)
  BY Concatenated DEF Shapes
<1>2. /\ Len(stdout) \in Nat
      /\ \A i \in DOMAIN stdout' :
           \/ i \in DOMAIN stdout /\ stdout'[i] = stdout[i]
           \/ /\ i \in Nat /\ i - Len(stdout) \in DOMAIN messages
              /\ stdout'[i] = messages[i - Len(stdout)]
  BY <1>1, ConcatenatedAt
<1>3. \A i \in DOMAIN stdout : stdout[i].type # "status" => stdout[i].of \in Answered
  BY DEF Answered, Entries
<1>4. \A i, k \in Nat : i - Len(stdout) = 1 /\ k - Len(stdout) = 1 => i = k
  BY <1>2
<1>5. AnsweredOnce'
  <2> SUFFICES ASSUME NEW i \in DOMAIN stdout', NEW k \in DOMAIN stdout',
                      stdout'[i].type # "status", stdout'[k].type # "status",
                      stdout'[i].of = stdout'[k].of
               PROVE  i = k
    BY DEF AnsweredOnce
  <2> DEFINE old(j) == j \in DOMAIN stdout /\ stdout'[j] = stdout[j]
             new(j) == /\ j \in Nat /\ j - Len(stdout) \in DOMAIN messages
                       /\ stdout'[j] = messages[j - Len(stdout)]
  <2>1. CASE old(i) /\ old(k)
    BY <2>1 DEF OnePlace, AnsweredOnce
  <2>2. CASE new(i) /\ new(k)
    BY <1>4, <2>2
  <2>3. CASE (old(i) /\ new(k)) \/ (new(i) /\ old(k))
    BY <1>3, <2>3
  <2> QED BY <1>2, <2>1, <2>2, <2>3
<1>6. \A e \in Entries(messages) : e.type # "status" => e.of = r
  BY DEF Entries
<1>7. (\A i \in DOMAIN messages : messages[i].type = "status") =>
        \A e \in Entries(messages) : e.type = "status"
  BY DEF Entries
<1> QED BY <1>1, <1>5, <1>6, <1>7 DEF Answered

LEMMA ChildOnce ==
  ASSUME Inv, OnePlace, kind # "capsule", Child \/ ChildDies
  PROVE  OnePlace'
<1>1. Shapes
  BY DEF Inv
<1>2. UNCHANGED <<reply, cmdq, reports>>
  BY DEF Child, Build, TakeLine, Quit, Finish, CapsuleFinish, ChildDies, Writes
<1>3. /\ Asked' = Asked /\ Queued' = Queued /\ Told' = Told
      /\ QueuedOnce' /\ ReportedOnce'
  BY <1>2 DEF Asked, Queued, Told, OnePlace, QueuedOnce, ReportedOnce
<1>4. \A s : Status(s).type = "status"
  BY DEF Status
<1>5. CASE Build
  <2>1. PICK s : stdout' = stdout \o <<Status(s)>>
    BY <1>5 DEF Build, Writes, Log
  <2>2. UNCHANGED stdin /\ child = "building" /\ child' # "busy"
    BY <1>5 DEF Build
  <2> DEFINE messages == <<Status(s)>>
  <2>3. IsSeq(messages) /\ \A i \in DOMAIN messages : messages[i].type = "status"
    BY <1>4 DEF IsSeq, Entries
  <2>4. stdout' = stdout \o messages
    BY <2>1
  <2> HIDE DEF messages
  <2>5. AnsweredOnce' /\ Answered' \subseteq Answered
    BY <1>1, <2>3, <2>4, WritingOnce
  <2>6. WrittenOnce' /\ Written' = Written /\ AtChild' = AtChild
    BY <2>2 DEF OnePlace, WrittenOnce, Written, AtChild
  <2> QED BY <1>3, <2>5, <2>6 DEF OnePlace
<1>6. CASE TakeLine
  <2> DEFINE c == Head(stdin)
  <2>1. WrittenOnce' /\ c.of \in Written /\ Written' \subseteq Written \ {c.of}
    BY <1>1, <1>6, LineHead DEF TakeLine
  <2> HIDE DEF c
  <2>2. CASE Quit(c)
    <3> DEFINE messages == <<Log, Status("Stopped")>>
    <3>1. IsSeq(messages) /\ \A i \in DOMAIN messages : messages[i].type = "status"
      BY <1>4 DEF IsSeq, Entries, Log
    <3>2. stdout' = stdout \o messages /\ child' = "ended"
      BY <2>2 DEF Quit, Writes
    <3> HIDE DEF messages
    <3>3. AnsweredOnce' /\ Answered' \subseteq Answered
      BY <1>1, <3>1, <3>2, WritingOnce
    <3>4. AtChild' = {}
      BY <3>2 DEF AtChild
    <3> QED BY <1>3, <2>1, <3>3, <3>4 DEF OnePlace
  <2>3. CASE child' = "busy" /\ hand' = c /\ Writes(<<>>)
    <3>1. stdout' = stdout
      BY <1>1, <2>3, ConcatEmptySeq DEF Writes, Shapes, IsSeq
    <3>2. AnsweredOnce' /\ Answered' = Answered
      BY <3>1 DEF OnePlace, AnsweredOnce, Answered
    <3>3. AtChild' = {c.of}
      BY <2>3 DEF AtChild
    <3> QED BY <1>3, <2>1, <3>2, <3>3 DEF OnePlace
  <2> QED BY <1>6, <2>2, <2>3 DEF TakeLine, c
<1>7. ASSUME NEW ok \in BOOLEAN, Finish(ok)
      PROVE  OnePlace'
  <2> DEFINE answer == IF hand.of \in Jobs
                       THEN [type |-> IF ok THEN "job_completed" ELSE "job_failed", of |-> hand.of]
                       ELSE [type |-> "chat_response", of |-> hand.of, id |-> hand.id, ok |-> ok]
             messages == <<answer, Log>>
  <2>1. answer.of = hand.of
    OBVIOUS
  <2>2. /\ child = "busy" /\ child' = "idle" /\ UNCHANGED stdin
        /\ stdout' = stdout \o messages
    BY <1>7 DEF Finish, Writes
  <2> HIDE DEF answer
  <2>3. IsSeq(messages) /\ \A i \in DOMAIN messages : messages[i].type # "status" =>
                                                      i = 1 /\ messages[i].of = hand.of
    BY <1>4, <2>1 DEF IsSeq, Entries, Log
  <2> HIDE DEF messages
  <2>4. hand.of \in AtChild /\ hand.of \notin Answered
    BY <2>2 DEF AtChild, OnePlace
  <2>5. AnsweredOnce' /\ Answered' \subseteq Answered \cup {hand.of}
    BY <1>1, <2>2, <2>3, <2>4, WritingOnce
  <2>6. WrittenOnce' /\ Written' = Written /\ AtChild' = {}
    BY <2>2 DEF OnePlace, WrittenOnce, Written, AtChild
  <2> QED BY <1>3, <2>4, <2>5, <2>6 DEF OnePlace
<1>8. CASE ChildDies
  <2>1. child' = "dead" /\ UNCHANGED <<stdin, stdout>>
    BY <1>8 DEF ChildDies
  <2>2. /\ WrittenOnce' /\ AnsweredOnce' /\ Written' = Written /\ Answered' = Answered
        /\ AtChild' = {}
    BY <2>1 DEF OnePlace, WrittenOnce, AnsweredOnce, Written, Answered, AtChild
  <2> QED BY <1>3, <2>2 DEF OnePlace
<1> QED BY <1>5, <1>6, <1>7, <1>8 DEF Child, CapsuleFinish

\* The task of a capsule says something only as it ends.
LEMMA CapsuleOnce ==
  ASSUME Inv, SpeaksOnce, kind = "capsule", Next
  PROVE  SpeaksOnce'
<1>1. ASSUME UNCHANGED <<reports, bridge>> \/ (UNCHANGED reports /\ bridge # "done")
      PROVE  SpeaksOnce'
  BY <1>1 DEF SpeaksOnce
<1>2. ASSUME NEW told, Len(told) <= 1, IsSeq(told), bridge # "done", End(told)
      PROVE  SpeaksOnce'
  <2>1. reports = <<>> /\ reports' = reports \o told /\ bridge' = "done"
    BY <1>2 DEF SpeaksOnce, End
  <2>2. reports' = told
    BY <1>2, <2>1, ConcatEmptySeq DEF IsSeq
  <2> QED BY <1>2, <2>1, <2>2 DEF SpeaksOnce
<1>3. \A e : Len(<<e>>) <= 1 /\ IsSeq(<<e>>)
  BY DEF IsSeq, Entries
<1>4. Len(Failure) <= 1 /\ IsSeq(Failure)
  BY <1>3 DEF Failure
<1>5. CASE CapsuleFails \/ CapsulePipeBreaks
  BY <1>2, <1>4, <1>5 DEF CapsuleFails, CapsulePipeBreaks
<1>6. CASE CapsuleCommand
  <2>1. bridge = "running" /\ Len(<<>>) <= 1 /\ IsSeq(<<>>)
    BY <1>6, Empty DEF CapsuleCommand
  <2>2. End(<<>>) \/ UNCHANGED <<bridge, reports>>
    BY <1>6 DEF CapsuleCommand, taskVars
  <2> QED BY <1>1, <1>2, <2>1, <2>2
<1>7. CASE CapsuleRead
  <2>1. bridge = "running" /\ (End(Failure) \/ \E e : End(<<e>>))
    BY <1>7 DEF CapsuleRead
  <2> QED BY <1>2, <1>3, <1>4, <2>1
<1>8. CASE Child \/ ChildDies
  <2>1. UNCHANGED <<reports, bridge>>
    BY <1>8 DEF Child, Build, TakeLine, Quit, Finish, CapsuleFinish, ChildDies, Writes, taskVars
  <2> QED BY <1>1, <2>1
<1>9. CASE Reap \/ SpawnCapsule
  <2>1. UNCHANGED reports /\ bridge \in {"starting", "waiting"}
    BY <1>9 DEF Reap, SpawnCapsule
  <2> QED BY <1>1, <2>1
<1>10. CASE (\E r \in Requests : Send(r)) \/ (\E c \in Chats : GiveUp(c)) \/ DropHandle
  <2>1. UNCHANGED <<reports, bridge>>
    BY <1>10 DEF Send, GiveUp, DropHandle, taskVars
  <2> QED BY <1>1, <2>1
<1> QED BY <1>5, <1>6, <1>7, <1>8, <1>9, <1>10
        DEF Next, Task, SpawnChild, SpawnFails, ForwardCommand, CommandsEnd, ReadMessage, OutputEnds

LEMMA OnceInvariance == Spec => []Once
<1>1. Init => Once
  <2> SUFFICES ASSUME Init PROVE Once
    OBVIOUS
  <2>1. OnePlace
    BY Empty DEF Init, OnePlace, QueuedOnce, WrittenOnce, AnsweredOnce, ReportedOnce, Queued,
                 Written, AtChild, Answered, Told
  <2>2. SpeaksOnce
    BY DEF Init, SpeaksOnce
  <2> QED BY <2>1, <2>2 DEF Once
<1>2. Inv /\ Once /\ [Next]_vars => Once'
  <2> SUFFICES ASSUME Inv, Once, [Next]_vars PROVE Once'
    OBVIOUS
  <2>1. UNCHANGED kind
    BY DEF Next, Task, Child, Send, GiveUp, DropHandle, SpawnChild, SpawnFails, ForwardCommand,
           CommandsEnd, ReadMessage, OutputEnds, Reap, Build, TakeLine, Quit, Finish, ChildDies,
           Writes, SpawnCapsule, CapsuleFails, CapsuleCommand, CapsuleFinish, CapsuleRead,
           CapsulePipeBreaks, End, daemonVars, vars
  <2>2. CASE UNCHANGED vars
    <3>1. Shapes /\ Asked' = Asked /\ AtChild' = AtChild
      BY <2>2 DEF Inv, vars, Asked, AtChild
    <3>2. UNCHANGED <<bridge, reports, cmdq, stdin, stdout>>
      BY <2>2 DEF vars
    <3>3. OnePlace => OnePlace'
      BY <3>1, <3>2, NoneMoves
    <3>4. SpeaksOnce => SpeaksOnce'
      BY <3>2 DEF SpeaksOnce
    <3> QED BY <2>1, <3>3, <3>4 DEF Once
  <2>3. CASE Next /\ kind = "capsule"
    BY <2>1, <2>3, CapsuleOnce DEF Once
  <2>4. CASE Next /\ kind # "capsule"
    <3>1. OnePlace
      BY <2>4 DEF Once
    <3>2. OnePlace'
      BY <2>4, <3>1, HolderOnce, ForwardOnce, ReadOnce, BridgeOnce, ChildOnce
         DEF Next, Task, SpawnCapsule, CapsuleFails, CapsuleCommand, CapsuleRead, CapsulePipeBreaks
    <3> QED BY <2>1, <2>4, <3>2 DEF Once
  <2> QED BY <2>2, <2>3, <2>4
<1> QED BY <1>1, <1>2, Invariance, PTL DEF Spec

\* No answer of a worker is reported twice, and a capsule that has passed on its
\* child's report says nothing about the end of its output (saw_terminal_event of
\* capsule.rs, the JobCompleted and JobFailed branches of worker_bridge).
THEOREM AnswersAreReportedOnce == Spec => []ReportedOnce
<1>1. Inv /\ Once => ReportedOnce
  <2> SUFFICES ASSUME Inv, Once PROVE ReportedOnce
    OBVIOUS
  <2>1. CASE kind = "capsule"
    <3>1. DOMAIN reports = 1..Len(reports) /\ Len(reports) \in Nat /\ Len(reports) <= 1
      BY <2>1, LenProperties DEF Inv, Shapes, IsSeq, Once, SpeaksOnce
    <3> QED BY <3>1 DEF ReportedOnce
  <2>2. CASE kind # "capsule"
    BY <2>2 DEF Once, OnePlace
  <2> QED BY <2>1, <2>2
<1> QED BY <1>1, Invariance, OnceInvariance, PTL
=============================================================================
