------------------------------ MODULE MCIntake ------------------------------
(***************************************************************************)
(* Gateway and Intake side by side: either requests come to the gateway,   *)
(* or one plan, text or history is read.                                   *)
(***************************************************************************)
EXTENDS Gateway, Intake

Upto(S, n) == UNION {[1..k -> S] : k \in 0..n}

Names == {"a", "b"}
JobSpecs == [id : Names, deps : Upto(Names \cup {"x"}, 1), blank : BOOLEAN]
ChannelSpecs == [id : {"c", "d"}, members : Upto({"a", "x"}, 2), turns : BOOLEAN]
PlanInputs ==
  [kind : {"plan"}, plan : [jobs : Upto(JobSpecs, 2), channels : Upto(ChannelSpecs, 1)]]
  \cup [kind : {"plan"},
        plan : [jobs : {<<[id |-> "a", deps |-> <<>>, blank |-> FALSE]>>},
                channels : Upto(ChannelSpecs, 2)]]

TextInputs ==
  UNION {[kind : {"text"}, before : Upto(Tokens, 1), object : {o}, block : Blocks(o),
          after : Upto(Tokens, IF o = <<>> THEN 3 ELSE 2)] : o \in Objects \cup {<<>>}}

HistoryInputs ==
  {[kind |-> "history", max |-> m,
    history |-> [i \in 1..n |-> IF i % 2 = 1 THEN "question" ELSE "answer"]] :
       n \in 0..6, m \in {NoMaximum} \cup 0..5}

MCInputs == PlanInputs \cup TextInputs \cup HistoryInputs

ASSUME InputsAreGeneral == MCInputs \subseteq Plans \cup Texts \cup Conversations

MCInit ==
  /\ GInit
  /\ output = Unknown
  /\ \/ input = [kind |-> "requests"]
     \/ entry = NoEntry /\ input \in MCInputs

MCNext ==
  \/ input.kind = "requests" /\ GNext /\ UNCHANGED ivars
  \/ Read /\ UNCHANGED gvars

MCSpec == MCInit /\ [][MCNext]_<<gvars, ivars>>
=============================================================================
