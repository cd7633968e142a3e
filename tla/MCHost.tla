------------------------------ MODULE MCHost ------------------------------
(***************************************************************************)
(* What runs on a host: the host with its daemon, node keeper and          *)
(* application beside one other node, where the budget goes to a change of *)
(* the membership, or to quit signals and the pull from a seed, while the  *)
(* keeper has nothing to tell, and an application's end is one to the      *)
(* daemon whether a signal caused it or not; without the daemon, the       *)
(* notification path with two nodes, of which one stays once it has come,  *)
(* more changes and one application; and the parts of an application, each *)
(* alone: actor union, actor guard, and demonstration, whose second job is *)
(* about another triangle than the first, where a worker crashes, if it    *)
(* does.                                                                   *)
(***************************************************************************)
EXTENDS Host, ActorUnion, ActorGuard, Yanghui

CONSTANT HostNode   \* the nodes that change in the parts with the daemon

VARIABLE part       \* chosen once: the part that runs

MCRun == 1 .. MaxForks

MCTriangle == <<<<1>>, <<2, 3>>, <<9, 5, 1>>>>

MCTriangles == {MCTriangle, <<<<4>>, <<1, 6>>, <<7, 2, 8>>>>}

mcVars == <<part, hostVars, unionVars, guardVars, yanghuiVars>>

Budget ==
    \/ part = "changes" /\ changes = MaxChanges - 1 /\ signals = MaxSignals
    \/ /\ part = "signals" /\ changes = MaxChanges
       /\ signals = IF pull = "sent" THEN 1 ELSE 0
    \/ part = "notification" /\ changes = 0 /\ signals = MaxSignals
    \/ part \in {"union", "guard", "yanghui"} /\ changes = MaxChanges /\ signals = MaxSignals

MCInit ==
    /\ part \in {"changes", "signals", "notification", "union", "guard", "yanghui"}
    /\ HostInit /\ UnionInit /\ GuardInit /\ YanghuiInit
    /\ pull = "sent" => part = "signals"
    /\ Budget

HostPart ==
    /\ part \in {"changes", "signals"}
    /\ HostNext
    /\ changes' # changes => \E n \in HostNode : MembersChange(n)
    /\ part = "signals" => UNCHANGED keeper
    /\ \A k \in Process : process'[k] # "signaled"
    /\ UNCHANGED <<unionVars, guardVars, yanghuiVars>>

NotificationPart ==
    /\ part = "notification"
    /\ NotificationNext
    /\ \A r \in Run \ {1} : client'[r] = "off"
    /\ changes' # changes => nodes \ nodes' \subseteq HostNode
    /\ UNCHANGED <<daemonVars, statusVars, unionVars, guardVars, yanghuiVars>>

UnionPart ==
    /\ part = "union"
    /\ UnionNext
    /\ UNCHANGED <<hostVars, guardVars, yanghuiVars>>

GuardPart ==
    /\ part = "guard"
    /\ GuardNext
    /\ UNCHANGED <<hostVars, unionVars, yanghuiVars>>

YanghuiPart ==
    /\ part = "yanghui"
    /\ YanghuiNext
    /\ jobs' # jobs => (jobs = 0 <=> jobClient'.triangle = MCTriangle)
    /\ crashes' # crashes => jobs < MaxJobs
    /\ UNCHANGED <<hostVars, unionVars, guardVars>>

MCNext ==
    /\ HostPart \/ NotificationPart \/ UnionPart \/ GuardPart \/ YanghuiPart
    /\ UNCHANGED part

MCSpec == MCInit /\ [][MCNext]_mcVars

\* The types of the state of the host, of its components and of the application's.
HostTypesOK ==
    /\ DaemonTypeOK /\ NotificationTypeOK /\ HostTypeOK
    /\ part = "union" => UnionTypeOK
    /\ part = "guard" => GuardTypeOK
    /\ part = "yanghui" => YanghuiTypeOK
=============================================================================
