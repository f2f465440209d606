------------------------------- MODULE Intake -------------------------------
(***************************************************************************)
(* What the daemon and its workers make of what they are given: the plan   *)
(* of a planner (validate_plan and materialize_plan of planner.rs), the    *)
(* text of a reviewer (review.rs) or planner (extract_json of daemon.rs),  *)
(* and the history of a conversation (truncate_history of worker.rs).      *)
(* Pure functions: one input arrives and is worked out.                    *)
(***************************************************************************)
EXTENDS Integers, Sequences, FiniteSets, FiniteSetsExt

-----------------------------------------------------------------------------
(* planner.rs.  A plan has jobs [id, deps, blank] and channels             *)
(* [id, members, turns]; blank means that a field is empty, turns that the *)
(* mode is TurnBased.                                                      *)

LocalIds(plan) == {plan.jobs[i].id : i \in DOMAIN plan.jobs}

HasRepeats(q) == \E i, k \in DOMAIN q : i < k /\ q[i].id = q[k].id

\* The checks of validate_plan but the one for local ids that are used twice.
OtherErrors(plan) ==
  LET jobs == Range(plan.jobs)
      channels == Range(plan.channels)
  IN  IF plan.jobs = <<>> THEN {"no_jobs"}
      ELSE {e \in {"empty_field", "unknown_dependency", "self_dependency", "repeated_channel",
                   "no_participants", "one_speaker", "unknown_participant"} :
              CASE e = "empty_field" -> \E j \in jobs : j.blank
                [] e = "unknown_dependency" ->
                     \E j \in jobs : ~(Range(j.deps) \subseteq LocalIds(plan))
                [] e = "self_dependency" -> \E j \in jobs : j.id \in Range(j.deps)
                [] e = "repeated_channel" -> HasRepeats(plan.channels)
                [] e = "no_participants" -> \E c \in channels : c.members = <<>>
                [] e = "one_speaker" -> \E c \in channels : c.turns /\ Len(c.members) < 2
                [] e = "unknown_participant" ->
                     \E c \in channels : ~(Range(c.members) \subseteq LocalIds(plan))}

\* validate_plan, one error of each sort.
Errors(plan) ==
  IF plan.jobs # <<>> /\ HasRepeats(plan.jobs)
  THEN OtherErrors(plan) \cup {"repeated_job"} ELSE OtherErrors(plan)

\* The id_map: of two jobs of one name the later one's id is left.
RealId(plan, name) == Max({i \in DOMAIN plan.jobs : plan.jobs[i].id = name})

\* The ids of the first k names; a name without an id is filtered out.
ResolvedUpTo(plan, names) ==
  LET found[k \in 0..Len(names)] ==
        IF k = 0 THEN <<>>
        ELSE IF names[k] \in LocalIds(plan) THEN Append(found[k - 1], RealId(plan, names[k]))
        ELSE found[k - 1]
  IN  found

Resolved(plan, names) == ResolvedUpTo(plan, names)[Len(names)]

\* The store keeps the last one of the channels of a name.
LastChannel(plan, name) == Max({i \in DOMAIN plan.channels : plan.channels[i].id = name})

\* The jobs and channels materialize_plan puts into the store, by their ids.
Materialized(plan) ==
  [jobs |-> [j \in {RealId(plan, n) : n \in LocalIds(plan)} |->
               Resolved(plan, plan.jobs[j].deps)],
   channels |-> [n \in {plan.channels[i].id : i \in DOMAIN plan.channels} |->
                   Resolved(plan, plan.channels[LastChannel(plan, n)].members)]]

-----------------------------------------------------------------------------
(* Texts are sequences of tokens, with a blank between them: words, braces *)
(* ("open" and "close") and the two marks that open a code block.  The     *)
(* object <<"open", w, "close">> stands for {"decision": "w"}.             *)

Words == {"lgtm", "revise", "revision", "rejected", "reject", "perhaps"}
Tokens == Words \cup {"open", "close", "mark", "json_mark"}

\* A search for the shorter mark stops at both.
JsonMark == {"json_mark"}
Marks == {"mark", "json_mark"}

Nowhere == 0
FirstAt(text, from, T) ==
  LET at == {i \in from..Len(text) : text[i] \in T}
  IN  IF at = {} THEN Nowhere ELSE Min(at)
LastAt(text, T) ==
  LET at == {i \in 1..Len(text) : text[i] \in T}
  IN  IF at = {} THEN Nowhere ELSE Max(at)

NoText == <<"nothing">>
Panic == <<"panic">>

\* What stands between the first of the marks `opening' and the next mark.
Fenced(text, opening) ==
  LET from == FirstAt(text, 1, opening)
      to == FirstAt(text, from + 1, Marks)
  IN  IF from = Nowhere \/ to = Nowhere THEN NoText ELSE SubSeq(text, from + 1, to - 1)

\* From the first brace to the last; a slice that ends before it begins panics.
Braced(text) ==
  LET from == FirstAt(text, 1, {"open"})
      to == LastAt(text, {"close"})
  IN  CASE Nowhere \in {from, to}           -> NoText
        [] Nowhere < to /\ to < from        -> Panic
        [] Nowhere < from /\ from <= to     -> SubSeq(text, from, to)

\* The tokens from_str takes for an object.
Objects == {<<"open", w, "close">> : w \in Words} \cup {<<"open", "close">>}

\* review.rs: what looks like raw JSON has to be JSON.
ExtractJsonBlock(text) ==
  CASE Fenced(text, JsonMark) # NoText -> Fenced(text, JsonMark)
    [] OTHER -> IF Braced(text) \in Objects \cup {Panic} THEN Braced(text) ELSE NoText

\* daemon.rs, for plans: any mark will do, and anything in braces.
ExtractJson(text) ==
  CASE Fenced(text, JsonMark) # NoText -> Fenced(text, JsonMark)
    [] Fenced(text, JsonMark) = NoText /\ Fenced(text, Marks) # NoText -> Fenced(text, Marks)
    [] OTHER -> IF Braced(text) # NoText THEN Braced(text) ELSE text

\* The words that are a decision in JSON.
Meaning ==
  [w \in Words |-> CASE w = "lgtm" -> "approved"
                     [] w \in {"revise", "revision"} -> "revise"
                     [] w \in {"rejected", "reject"} -> "rejected"
                     [] OTHER -> "none"]

\* Faulty: the softer word is looked for first.
ScanSofterFirst(text) ==
  CASE "revise" \in Range(text) -> "revise"
    [] "rejected" \in Range(text) /\ "revise" \notin Range(text) -> "rejected"
    [] OTHER -> "approved"

\* keyword_scan knows fewer words than the JSON, and takes what is unclear for
\* approval.
KeywordScan(text) ==
  CASE "rejected" \in Range(text) -> "rejected"
    [] "revise" \in Range(text) /\ "rejected" \notin Range(text) -> "revise"
    [] OTHER -> "approved"

ParseReviewDecision(text) ==
  LET block == ExtractJsonBlock(text)
  IN  CASE block = Panic -> "panic"
        [] \E w \in Words : block = <<"open", w, "close">> /\ Meaning[w] # "none" ->
             Meaning[block[2]]
        [] OTHER -> KeywordScan(text)

-----------------------------------------------------------------------------
(* worker.rs.                                                              *)

NoMaximum == -1

\* Faulty: the maximum is not made even.
KeepLast(history, max) ==
  IF max = NoMaximum \/ Len(history) <= max THEN history
  ELSE SubSeq(history, Len(history) - max + 1, Len(history))

\* The last messages, an even number of them if any have to go.
TruncateHistory(history, max) ==
  IF max = NoMaximum \/ Len(history) <= max THEN history
  ELSE SubSeq(history, Len(history) - 2 * (max \div 2) + 1, Len(history))

-----------------------------------------------------------------------------

VARIABLES
  input,   \* what has arrived
  output   \* what was made of it, or Unknown

ivars == <<input, output>>

Unknown == [errors |-> {"not_read"}]

PlannedJob == [id : STRING, deps : Seq(STRING), blank : BOOLEAN]
PlannedChannel == [id : STRING, members : Seq(STRING), turns : BOOLEAN]

ExecutionPlan == [jobs : Seq(PlannedJob), channels : Seq(PlannedChannel)]

\* Any plan that is JSON of the right shape.
Plans == [kind : {"plan"}, plan : ExecutionPlan]

\* The ways to write an object, or none, into a text.
Blocks(object) ==
  IF object = <<>> THEN {<<>>}
  ELSE {object} \cup {<<mark>> \o object \o <<"mark">> : mark \in Marks}

\* Any text, divided into what surrounds an object and the object.
Texts ==
  {t \in [kind : {"text"}, before : Seq(Tokens), object : Objects \cup {<<>>},
          block : Seq(Tokens), after : Seq(Tokens)] : t.block \in Blocks(t.object)}

\* The agent's history after chats that were answered: user and model take turns.
Conversations ==
  {h \in [kind : {"history"}, history : Seq({"question", "answer"}), max : Nat \cup {NoMaximum}] :
     \A i \in DOMAIN h.history : h.history[i] = IF i % 2 = 1 THEN "question" ELSE "answer"}

IInit == output = Unknown /\ input \in Plans \cup Texts \cup Conversations

\* One function of the code, applied to what has arrived.
ReadPlan ==
  /\ input.kind = "plan" /\ output = Unknown
  /\ output' = [errors |-> Errors(input.plan), store |-> Materialized(input.plan)]
  /\ UNCHANGED input

ReadText ==
  /\ input.kind = "text" /\ output = Unknown
  /\ LET text == input.before \o input.block \o input.after
     IN  output' = [decision |-> ParseReviewDecision(text), json |-> ExtractJson(text)]
  /\ UNCHANGED input

SaveHistory ==
  /\ input.kind = "history" /\ output = Unknown
  /\ output' = [saved |-> TruncateHistory(input.history, input.max)]
  /\ UNCHANGED input

Read == ReadPlan \/ ReadText \/ SaveHistory

ISpec == IInit /\ [][Read]_ivars

Done(kind) == input.kind = kind /\ output # Unknown

-----------------------------------------------------------------------------
(* Properties.                                                             *)

\* The local ids of the jobs with these ids.
NamesOf(plan, ids) == [k \in DOMAIN ids |-> plan.jobs[ids[k]].id]

\* A plan is accepted exactly if the store gets all of it: every job and channel
\* an entry of its own, every dependency and participant, in order, the job of
\* that name, no job that waits for itself, no channel without a participant.
\* A turn-based channel has two entries in its list, which may name one job: see
\* DiscussionsHavePartners.
ValidPlansMaterialize ==
  Done("plan") =>
    LET plan == input.plan
        jobs == output.store.jobs
        channels == output.store.channels
    IN  output.errors = {} <=>
          /\ jobs # <<>> /\ Cardinality(DOMAIN jobs) = Len(plan.jobs)
          /\ \A j \in DOMAIN jobs :
               /\ ~plan.jobs[j].blank
               /\ NamesOf(plan, jobs[j]) = plan.jobs[j].deps /\ j \notin Range(jobs[j])
          /\ Cardinality(DOMAIN channels) = Len(plan.channels)
          /\ \A i \in DOMAIN plan.channels :
               LET members == channels[plan.channels[i].id]
               IN  /\ NamesOf(plan, members) = plan.channels[i].members
                   /\ Len(members) >= IF plan.channels[i].turns THEN 2 ELSE 1

\* "TurnBased requires at least 2 participants" (validate_plan of planner.rs):
\* whoever takes turns in a plan that is accepted takes them with somebody else.
DiscussionsHavePartners ==
  Done("plan") /\ output.errors = {} =>
    \A c \in Range(input.plan.channels) :
      c.turns => Cardinality(Range(output.store.channels[c.id])) >= 2

Plain(text) == Range(text) \subseteq Words

Word(block) ==
  LET w == {i \in DOMAIN block : block[i] \in Words}
  IN  IF w = {} THEN "perhaps" ELSE block[CHOOSE i \in w : TRUE]

\* The one object of a text decides, fenced or not, whatever is said around it;
\* if it is no decision, or there is none, the gravest word of the whole text
\* does.  And nothing that says "rejected" or "revise" passes for approval unless
\* an object in it approves.
VerdictIsRead ==
  Done("text") =>
    LET text == input.before \o input.block \o input.after
        gravest == IF "rejected" \in Range(text) THEN "rejected"
                   ELSE IF "revise" \in Range(text) THEN "revise" ELSE "approved"
        approves == \E i \in 1..Len(text) - 2 : SubSeq(text, i, i + 2) = <<"open", "lgtm", "close">>
    IN  /\ Plain(input.before \o input.after) =>
             /\ output.decision = IF Meaning[Word(input.block)] # "none"
                                  THEN Meaning[Word(input.block)] ELSE gravest
             /\ input.block # <<>> => output.json = input.object
        /\ output.decision = "approved" => gravest = "approved" \/ approves

\* What is saved of a conversation is its end, no longer than the maximum, as
\* much of it as fits, and begins with a question if the conversation does.
HistoryKeepsPairs ==
  Done("history") =>
    LET h == input.history
        s == output.saved
    IN  /\ s = SubSeq(h, Len(h) - Len(s) + 1, Len(h))
        /\ input.max # NoMaximum => Len(s) <= input.max /\ (s = h \/ Len(s) >= input.max - 1)
        /\ Len(h) % 2 = 0 /\ s # <<>> => s[1] = "question"

\* "Default: approved (includes APPROVED, LGTM, LOOKS GOOD, or unclear)"
\* (review.rs): whatever a reviewer writes, there is a decision.
EveryTextHasVerdict ==
  Done("text") => output.decision \in {"approved", "revise", "rejected"}
=============================================================================
