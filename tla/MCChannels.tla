----------------------------- MODULE MCChannels -----------------------------
(***************************************************************************)
(* Plans with channels for model-checking Channels.                        *)
(***************************************************************************)
EXTENDS Channels

Worker(deps) == [role |-> "worker", profile |-> "worker", deps |-> deps]

Channel(members, mode, limit, policy) ==
  [members |-> members, mode |-> mode, limit |-> limit, policy |-> policy, initial |-> TRUE]

\* Two participants, and a job that waits for the first of them.
Debate == [jobs |-> <<Worker(<<>>), Worker(<<>>), Worker(<<1>>)>>,
           channels |-> <<Channel(<<1, 2>>, "TurnBased", 2, "KillAll")>>]

\* Three participants in turn.
Circle == [jobs |-> <<Worker(<<>>), Worker(<<>>), Worker(<<>>)>>,
           channels |-> <<Channel(<<1, 2, 3>>, "TurnBased", 1, "Continue")>>]

\* Every message goes to the two others.
Broadcast == [jobs |-> <<Worker(<<>>), Worker(<<>>), Worker(<<>>)>>,
              channels |-> <<Channel(<<1, 2, 3>>, "Stream", 1, "KillAll")>>]

\* One job in two channels.
Chain == [jobs |-> <<Worker(<<>>), Worker(<<>>), Worker(<<>>)>>,
          channels |-> <<Channel(<<1, 2>>, "TurnBased", 1, "KillAll"),
                         Channel(<<2, 3>>, "TurnBased", 1, "KillAll")>>]

\* A job that talks to itself, and one that is named twice beside another: a plan
\* may list a participant more than once.
Monologue == [jobs |-> <<Worker(<<>>)>>,
              channels |-> <<Channel(<<1, 1>>, "TurnBased", 1, "KillAll")>>]
Echo == [jobs |-> <<Worker(<<>>), Worker(<<>>)>>,
         channels |-> <<Channel(<<1, 2, 2>>, "Stream", 1, "Continue")>>]

MCPlans == {Debate, Circle, Broadcast, Chain, Monologue, Echo}
PeerPlans == {Debate, Circle, Chain}
MCProfiles == {"planner", "worker"}
=============================================================================
