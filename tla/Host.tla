-------------------------------- MODULE Host --------------------------------
(***************************************************************************)
(* One host of the cluster: the node keeper process with its daemon, and   *)
(* the application that the daemon runs and that is told of the cluster    *)
(* through the node keeper's gRPC service.  The daemon starts and buries   *)
(* the application's ClusterImpl; the application announces its actor      *)
(* system with a call that a server thread handles, the callback of the    *)
(* pull from a seed announces it again on the io thread, and the daemon    *)
(* takes the announcement back when the application has exited.  None of   *)
(* the three holds a lock over what it reads and what it then sends.       *)
(*                                                                         *)
(* The table member_actor_system_, the node's own entry included, is also  *)
(* written by every merge and every reply: it is in the Membership module. *)
(***************************************************************************)
EXTENDS Daemon, Notification

ASSUME HostAssumption == Run = Process

VARIABLES
    isSelfUp,       \* is_self_actor_system_up_
    announced,      \* what the gossip with the highest incarnation says of it
    ready,          \* ActorSystemUp calls: run -> "none", "sent", "set" or "done"
    pull,           \* the pull from a seed: "sent", "announce" (its callback saw
                    \* the flag set and is to gossip) or "done"
    racing          \* history: what a thread was still to write, at its own pace,
                    \* when the last exit was handled: "flag", "gossip"

statusVars == <<isSelfUp, announced, ready, pull, racing>>
hostVars == <<daemonVars, notificationVars, statusVars>>

\* A primary seed has nobody to pull from.
HostInit ==
    /\ DaemonInit
    /\ NotificationInit
    /\ isSelfUp = FALSE
    /\ announced = FALSE
    /\ ready = [r \in Run |-> "none"]
    /\ pull \in {"sent", "done"}
    /\ racing = {}

\* Cluster::NotifyReady, once the constructor has returned.
NotifyReady(r) ==
    /\ client[r] \in {"fetched", "refetched", "reading"}
    /\ ready[r] = "none"
    /\ ready' = [ready EXCEPT ![r] = "sent"]
    /\ UNCHANGED <<daemonVars, notificationVars, isSelfUp, announced, pull, racing>>

\* GRPCImpl::ActorSystemUp: SetSelfActorSystemUp, then the gossip under a new
\* incarnation; the handler runs on when its caller dies.
SetSelfActorSystemUp(r) ==
    /\ ready[r] = "sent"
    /\ ready' = [ready EXCEPT ![r] = "set"]
    /\ isSelfUp' = TRUE
    /\ UNCHANGED <<daemonVars, notificationVars, announced, pull, racing>>

SendSelfActorSystemUpGossip(r) ==
    /\ ready[r] = "set"
    /\ ready' = [ready EXCEPT ![r] = "done"]
    /\ announced' = TRUE
    /\ UNCHANGED <<daemonVars, notificationVars, isSelfUp, pull, racing>>

\* HandleDidPull up to its test of the flag.  The seed may reject the node, and
\* a pull that failed is sent again.
HandleDidPull ==
    /\ pull = "sent"
    /\ pull' \in {"done", IF isSelfUp THEN "announce" ELSE "done"}
    /\ UNCHANGED <<daemonVars, notificationVars, isSelfUp, announced, ready, racing>>

\* and the gossip that follows the test.
AnnounceAfterPull ==
    /\ pull = "announce"
    /\ pull' = "done"
    /\ announced' = TRUE
    /\ UNCHANGED <<daemonVars, notificationVars, isSelfUp, ready, racing>>

\* The server thread of a call, the io thread, or an application that is still
\* there may come after the daemon's thread with a write of its own.
MayStillSet ==
    {p \in {"flag", "gossip"} :
        \/ Alive # {}
        \/ \E r \in Run : ready[r] = "sent"
        \/ p = "gossip" /\ (pull = "announce" \/ \E r \in Run : ready[r] = "set")}

\* Membership::NotifyActorSystemDown in the daemon's thread: the flag, then the
\* gossip under a new incarnation.
AppDownHandle ==
    /\ AppDown
    /\ isSelfUp' = FALSE
    /\ racing' = MayStillSet
    /\ UNCHANGED <<notificationVars, announced, ready, pull>>

\* Mutant of AppDownGossip: the cluster is not told.
AppDownWithoutGossip ==
    /\ ExitIfProcessNotStable
    /\ UNCHANGED <<notificationVars, statusVars>>

AppDownGossip ==
    /\ ExitIfProcessNotStable
    /\ announced' = FALSE
    /\ UNCHANGED <<notificationVars, isSelfUp, ready, pull, racing>>

\* The application asks for its Cluster some time after its execv.
AppConnects(r) ==
    /\ process[r] \in {"running", "asked"}
    /\ StartClient(r)
    /\ UNCHANGED <<daemonVars, statusVars>>

AppExits(r) ==
    /\ ProcessExits(r)
    /\ StopClient(r)
    /\ UNCHANGED statusVars

\* The daemon's steps that touch nothing else.
DaemonAlone ==
    /\ \/ CheckGuard \/ Fork \/ StorePid \/ Reap \/ CleanUp \/ ExitZero
       \/ StableTimeElapses \/ SignalElsewhere \/ HandlerKills \/ SignalHere
       \/ \E k \in Process : Exec(k)
    /\ UNCHANGED <<notificationVars, statusVars>>

NotificationAlone ==
    /\ \/ MembershipStep \/ KeeperStep \/ SpuriousWakeup
       \/ \E r \in Run : ClientStep(r)
    /\ UNCHANGED <<daemonVars, statusVars>>

\* When the node keeper's process has ended nothing of this is left.
HostNext ==
    /\ ~Ended
    /\ \/ DaemonAlone
       \/ NotificationAlone
       \/ HandleDidPull \/ AnnounceAfterPull
       \/ AppDownHandle \/ AppDownGossip
       \/ \E r \in Run :
             \/ AppConnects(r) \/ AppExits(r)
             \/ NotifyReady(r)
             \/ SetSelfActorSystemUp(r) \/ SendSelfActorSystemUpGossip(r)

HostSpec == HostInit /\ [][HostNext]_hostVars

-----------------------------------------------------------------------------

\* The types of the host's own state.
HostTypeOK ==
    /\ isSelfUp \in BOOLEAN
    /\ announced \in BOOLEAN
    /\ ready \in [Run -> {"none", "sent", "set", "done"}]
    /\ pull \in {"sent", "announce", "done"}
    /\ racing \subseteq {"flag", "gossip"}

\* Once an exit of the application has been handled, and until the next one is
\* there, the node takes its actor system for up or announces it as up only if
\* the writer was already under way when the exit was handled: a call that a
\* server thread was late with, the io thread between its test of the flag and
\* its gossip, or an application that a signal let outlive the wait.
DeadAppIsDown ==
    daemon \in {"loop", "create", "leave", "exit"} =>
        /\ isSelfUp => "flag" \in racing
        /\ announced => "gossip" \in racing
=============================================================================
