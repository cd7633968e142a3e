---------------------------- MODULE MCScenarios ----------------------------
(***************************************************************************)
(* Node a is the primary seed, c is the node that things happen to, and b  *)
(* is the third one that passes gossip on.  A variable, chosen once, says  *)
(* what may happen; each scenario keeps to a part of the bounds:           *)
(*   pair        without b, c leaves, crashes, restarts, and its           *)
(*               application goes up and down; both detect failures        *)
(*   suspicion   c stays up with its application, and one network fault    *)
(*               makes it suspected                                        *)
(*   leave       c leaves, restarts and stays, while b still spreads its   *)
(*               leave                                                     *)
(***************************************************************************)
EXTENDS MCMembership

VARIABLE scenario

mcVars == <<scenario, vars>>

MCInit == Init /\ scenario \in {"pair", "suspicion", "leave"}

\* With three nodes queues are shorter, and only a detects.
Trio ==
    /\ \A n \in Node : Cardinality(gossipQueue'[n]) <= 1
    /\ \A p \in pulls' : p.kind = "ping" => p.from = a

\* What a step of the scenario may bring about.
Allowed ==
    \/ /\ scenario = "pair"
       /\ uid'[b] = NoUid /\ faults' = 0
       /\ Cardinality(gossipQueue'[a]) <= 1
    \/ /\ scenario = "suspicion" /\ Trio
       /\ \A n \in Node : up[n] => up'[n]
       /\ selfActorSystemUp[c] => selfActorSystemUp'[c]
    \/ /\ scenario = "leave" /\ Trio
       /\ faults' = 0
       /\ ~selfActorSystemUp'[c]
       /\ ~Crash(c)
       /\ uid[c] = 2 => up'[c]

MCNext == Next /\ Allowed /\ UNCHANGED scenario

MCSpec == MCInit /\ [][MCNext]_mcVars
=============================================================================
