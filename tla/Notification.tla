---------------------------- MODULE Notification ----------------------------
(***************************************************************************)
(* How a change of the membership reaches the application on the same      *)
(* host.  Four threads take part, each modelled one lock at a time:        *)
(*                                                                         *)
(*   membership   changes members_, then member_actor_system_ under        *)
(*                another lock, then calls Subscriber::Update              *)
(*   keeper       NodeKeeper::Run: two snapshots, the events by which they *)
(*                differ from the last ones, GRPCImpl::Notify for each,    *)
(*                and a wait for Update                                    *)
(*   server       GRPCImpl's handlers: GetMembers, Subscribe with a        *)
(*                channel per call, ActorSystemUp                          *)
(*   client       ClusterImpl in the application: Fetch, again Fetch, then *)
(*                Subscribe and the reading of events                      *)
(*                                                                         *)
(* The node itself is always a member, and Notify withholds its events     *)
(* from the channels: Node is the set of the other nodes, each with an IP  *)
(* address of its own (a node keeper listens on one fixed gRPC port, so    *)
(* there is one to a host).  Applications are numbered by their runs; a    *)
(* channel whose application is gone stays, as the server never looks at   *)
(* what Write returns.                                                     *)
(***************************************************************************)
EXTENDS Naturals, Sequences, SequencesExt

CONSTANTS
    Node,           \* the other nodes of the cluster
    Run,            \* the runs of the application
    MaxChanges      \* bound on the changes of the membership

ASSUME NotificationAssumption == IsFiniteSet(Node) /\ MaxChanges \in Nat

VARIABLES
    nodes,          \* keys of Membership::members_
    systems,        \* member_actor_system_, FALSE where it has no entry
    change,         \* the membership's change under way
    changes,        \* bounded count of changes; it starts anywhere below the bound
    keeper,         \* where NodeKeeper::Run is
    snapshot,       \* its arguments to the generator, as far as they are read
    seen,           \* the generator's members_ and member_actor_systems_
    events,         \* the events left to notify
    service,        \* GRPCImpl::members_
    channels,       \* channels_: run -> queue, for the runs that subscribed
    client,         \* where the ClusterImpl of a run is
    listed,         \* its members_: how often a node is in the vector
    lastEvent,      \* history: the last event of each kind the run was told
    lost,           \* history: Update was called while the keeper did not wait
    unseen,         \* history: the nodes whose event fell between fetch and subscribe
    fresh           \* history: the nodes whose event was inserted since the fetch

membershipVars == <<nodes, systems, change, changes>>
keeperVars == <<keeper, snapshot, seen, events, service, lost>>
clientVars == <<client, listed, lastEvent, unseen, fresh>>
notificationVars == <<membershipVars, keeperVars, channels, clientVars>>

\* The function f with the value v for x.
With(f, x, v) == [y \in DOMAIN f \cup {x} |-> IF y = x THEN v ELSE f[y]]

Quiet == [step |-> "none"]

NoSystems == [n \in Node |-> FALSE]

Type == {"memberUp", "memberDown", "systemUp", "systemDown"}

Kind(type) == IF type \in {"memberUp", "memberDown"} THEN "member" ELSE "system"

\* Mutant of Event: the arguments of the event's constructor are swapped.
EventSwapped(type, n) == [type |-> n, member |-> type]

Event(type, n) == [type |-> type, member |-> n]

NotificationInit ==
    /\ nodes = {}
    /\ systems = NoSystems
    /\ change = Quiet
    /\ changes \in 0 .. MaxChanges
    /\ keeper = "snapshot"
    /\ snapshot = <<>>
    /\ seen = [members |-> {}, systems |-> NoSystems]
    /\ events = <<>>
    /\ service = {}
    /\ channels = <<>>
    /\ client = [r \in Run |-> "off"]
    /\ listed = [r \in Run |-> [n \in Node |-> 0]]
    /\ lastEvent = [r \in Run |-> <<>>]
    /\ lost = FALSE
    /\ unseen = [r \in Run |-> {}]
    /\ fresh = [r \in Run |-> {}]

-----------------------------------------------------------------------------
(* The membership: a node comes up, goes down or is suspected, or its      *)
(* actor system changes, in the order of MergeActorSystemUp and Suspect.   *)

MembersChange(n) ==
    /\ change = Quiet
    /\ changes < MaxChanges
    /\ changes' = changes + 1
    /\ \/ \* UP: the statuses are left alone
          /\ nodes' = nodes \cup {n}
          /\ change' = [step |-> "notify"]
       \/ \* ACTOR_SYSTEM_UP, ACTOR_SYSTEM_DOWN
          \E up \in BOOLEAN :
             /\ nodes' = nodes \cup {n}
             /\ change' = [step |-> "systems", member |-> n, up |-> up]
       \/ \* DOWN, SUSPECT
          /\ nodes' = nodes \ {n}
          /\ change' = [step |-> "systems", member |-> n, up |-> FALSE]
    /\ UNCHANGED <<systems, keeperVars, channels, clientVars>>

SystemsChange ==
    /\ change.step = "systems"
    /\ systems' = [systems EXCEPT ![change.member] = change.up]
    /\ change' = [step |-> "notify"]
    /\ UNCHANGED <<nodes, changes, keeperVars, channels, clientVars>>

\* Subscriber::Update wakes the keeper if it is asleep, and leaves no trace
\* otherwise.
SubscriberUpdate ==
    /\ change.step = "notify"
    /\ change' = Quiet
    /\ keeper' = IF keeper = "wait" THEN "snapshot" ELSE keeper
    /\ lost' = (keeper # "wait")
    /\ UNCHANGED <<nodes, systems, changes, snapshot, seen, events, service,
                   channels, clientVars>>

-----------------------------------------------------------------------------
(* The keeper.                                                             *)

\* generator.Update(GetMembers(), GetActorSystems()): two calls, two locks, in
\* the order the compiler likes.
TakeSnapshot ==
    /\ keeper = "snapshot"
    /\ \/ "members" \notin DOMAIN snapshot
          /\ snapshot' = With(snapshot, "members", nodes)
       \/ "systems" \notin DOMAIN snapshot
          /\ snapshot' = With(snapshot, "systems", systems)
    /\ keeper' = IF DOMAIN snapshot = {} THEN "snapshot" ELSE "generate"
    /\ lost' = (lost /\ DOMAIN snapshot # {})
    /\ UNCHANGED <<membershipVars, seen, events, service, channels, clientVars>>

\* A run that has fetched and has no channel yet.
Fetching(r) == client[r] \in {"fetched", "refetched"}

Events(type, S) == SetToSeq({Event(type, n) : n \in S})

\* Mutant of Generate: the statuses of the last round are not kept.
GenerateKeepingStatuses ==
    /\ keeper = "generate"
    /\ LET changed == {n \in Node : snapshot.systems[n] # seen.systems[n]}
           up == {n \in changed : snapshot.systems[n]}
       IN  events' = Events("memberUp", snapshot.members \ seen.members)
                     \o Events("memberDown", seen.members \ snapshot.members)
                     \o Events("systemUp", up) \o Events("systemDown", changed \ up)
    /\ seen' = [snapshot EXCEPT !.systems = seen.systems]
    /\ snapshot' = <<>>
    /\ keeper' = "insert"
    /\ UNCHANGED <<membershipVars, service, lost, channels, clientVars>>

\* Mutant of Generate: the round is not kept when a member went down in it.
GenerateForgettingDowns ==
    /\ keeper = "generate"
    /\ LET changed == {n \in Node : snapshot.systems[n] # seen.systems[n]}
           up == {n \in changed : snapshot.systems[n]}
       IN  events' = Events("memberUp", snapshot.members \ seen.members)
                     \o Events("memberDown", seen.members \ snapshot.members)
                     \o Events("systemUp", up) \o Events("systemDown", changed \ up)
    /\ seen' = IF seen.members \subseteq snapshot.members THEN snapshot ELSE seen
    /\ snapshot' = <<>>
    /\ keeper' = "insert"
    /\ UNCHANGED <<membershipVars, service, lost, channels, clientVars>>

\* MemberEventGenerator::Update.
Generate ==
    /\ keeper = "generate"
    /\ LET changed == {n \in Node : snapshot.systems[n] # seen.systems[n]}
           up == {n \in changed : snapshot.systems[n]}
       IN  events' = Events("memberUp", snapshot.members \ seen.members)
                     \o Events("memberDown", seen.members \ snapshot.members)
                     \o Events("systemUp", up) \o Events("systemDown", changed \ up)
    /\ seen' = snapshot
    /\ snapshot' = <<>>
    /\ keeper' = "insert"
    /\ UNCHANGED <<membershipVars, service, lost, channels, clientVars>>

\* GRPCImpl::Notify first updates members_, without a lock ...
NotifyInsert ==
    /\ keeper = "insert"
    /\ events # <<>>
    /\ LET e == Head(events)
       IN  /\ service' = CASE e.type = "memberUp"   -> service \cup {e.member}
                           [] e.type = "memberDown" -> service \ {e.member}
                           [] OTHER                 -> service
           /\ fresh' = [r \in Run |-> IF Fetching(r) /\ Kind(e.type) = "member"
                                     THEN fresh[r] \cup {e.member} ELSE fresh[r]]
    /\ keeper' = "put"
    /\ UNCHANGED <<membershipVars, snapshot, seen, events, lost, channels,
                   client, listed, lastEvent, unseen>>

\* ... and then, under mutex_, puts the event to every channel there is.  A
\* run that fetched before the insert and has no channel yet does not hear of
\* the node until its next event.
NotifyPut ==
    /\ keeper = "put"
    /\ LET e == Head(events)
           subscribed == DOMAIN channels
       IN  /\ channels' = [r \in subscribed |-> Append(channels[r], e)]
           /\ unseen' = [r \in Run |->
                 IF Kind(e.type) # "member" THEN unseen[r]
                 ELSE IF r \in subscribed THEN unseen[r] \ {e.member}
                 ELSE IF e.member \in fresh[r] THEN unseen[r] \cup {e.member}
                 ELSE unseen[r]]
    /\ events' = Tail(events)
    /\ keeper' = "insert"
    /\ UNCHANGED <<membershipVars, snapshot, seen, service, lost,
                   client, listed, lastEvent, fresh>>

\* Subscriber::Wait has no predicate: it sleeps whatever has happened since the
\* snapshots.
KeeperWaits ==
    /\ keeper = "insert"
    /\ events = <<>>
    /\ keeper' = "wait"
    /\ UNCHANGED <<membershipVars, snapshot, seen, events, service, lost, channels,
                   clientVars>>

\* condition_variable::wait may return without a notification.
SpuriousWakeup ==
    /\ keeper = "wait"
    /\ keeper' = "snapshot"
    /\ UNCHANGED <<membershipVars, snapshot, seen, events, service, lost, channels,
                   clientVars>>

-----------------------------------------------------------------------------
(* The application's ClusterImpl and the server's side of its calls.       *)

\* A run of the application asks for its Cluster.
StartClient(r) ==
    /\ client[r] = "off"
    /\ client' = [client EXCEPT ![r] = "connected"]
    /\ UNCHANGED <<membershipVars, keeperVars, channels, listed, lastEvent,
                   unseen, fresh>>

\* Fetch, in the constructor and again in Routine: GetMembers reads members_
\* and the reply replaces the list.  A call that fails leaves the list as it is
\* and is not repeated.
Fetch(r) ==
    /\ client[r] \in {"connected", "fetched"}
    /\ client' = [client EXCEPT ![r] = IF @ = "connected" THEN "fetched" ELSE "refetched"]
    /\ \/ /\ listed' = [listed EXCEPT ![r] = [n \in Node |-> IF n \in service THEN 1 ELSE 0]]
          /\ fresh' = [fresh EXCEPT ![r] = {}]
          /\ unseen' = [unseen EXCEPT ![r] = {}]
       \/ /\ unseen' = [unseen EXCEPT ![r] = IF client[r] = "connected" THEN service ELSE @]
          /\ UNCHANGED <<listed, fresh>>
    /\ UNCHANGED <<membershipVars, keeperVars, channels, lastEvent>>

\* AddChannel at the server; the client reads from then on.
Subscribe(r) ==
    /\ client[r] = "refetched"
    /\ client' = [client EXCEPT ![r] = "reading"]
    /\ channels' = With(channels, r, <<>>)
    /\ fresh' = [fresh EXCEPT ![r] = {}]
    /\ UNCHANGED <<membershipVars, keeperVars, listed, lastEvent, unseen>>

\* Mutant of Deliver: a DOWN removes the first entry it finds.
DeliverRemovingOne(r) ==
    /\ r \in DOMAIN channels
    /\ channels[r] # <<>>
    /\ channels' = [channels EXCEPT ![r] = Tail(@)]
    /\ LET e == Head(channels[r])
       IN  IF client[r] # "reading"
           THEN UNCHANGED <<listed, lastEvent>>
           ELSE /\ listed' = [listed EXCEPT ![r][e.member] =
                                CASE e.type = "memberUp"             -> @ + 1
                                  [] e.type = "memberDown" /\ @ > 0  -> @ - 1
                                  [] OTHER                           -> @]
                /\ lastEvent' = [lastEvent EXCEPT ![r] =
                                   With(@, <<Kind(e.type), e.member>>, e.type)]
    /\ UNCHANGED <<membershipVars, keeperVars, client, unseen, fresh>>

\* ClusterImpl::Update: an UP adds an entry, a DOWN removes all there are.
Update(entries, type) ==
    CASE type = "memberUp"   -> entries + 1
      [] type = "memberDown" -> 0
      [] OTHER               -> entries

\* Channel::Get, Write and the client's Read and Update: an event for the list,
\* then the observers; the events of a run that is gone are read and dropped.
Deliver(r) ==
    /\ r \in DOMAIN channels
    /\ channels[r] # <<>>
    /\ channels' = [channels EXCEPT ![r] = Tail(@)]
    /\ LET e == Head(channels[r])
       IN  IF client[r] # "reading"
           THEN UNCHANGED <<listed, lastEvent>>
           ELSE /\ listed' = [listed EXCEPT ![r][e.member] = Update(@, e.type)]
                /\ lastEvent' = [lastEvent EXCEPT ![r] =
                                   With(@, <<Kind(e.type), e.member>>, e.type)]
    /\ UNCHANGED <<membershipVars, keeperVars, client, unseen, fresh>>

\* The process of a run ends; its channel is not removed.
StopClient(r) ==
    /\ client[r] # "gone"
    /\ client' = [client EXCEPT ![r] = "gone"]
    /\ listed' = [listed EXCEPT ![r] = [n \in Node |-> 0]]
    /\ lastEvent' = [lastEvent EXCEPT ![r] = <<>>]
    /\ unseen' = [unseen EXCEPT ![r] = {}]
    /\ fresh' = [fresh EXCEPT ![r] = {}]
    /\ UNCHANGED <<membershipVars, keeperVars, channels>>

MembershipStep ==
    (\E n \in Node : MembersChange(n)) \/ SystemsChange \/ SubscriberUpdate

KeeperStep ==
    TakeSnapshot \/ Generate \/ NotifyInsert \/ NotifyPut \/ KeeperWaits

ClientStep(r) == Fetch(r) \/ Subscribe(r) \/ Deliver(r)

NotificationNext ==
    \/ MembershipStep
    \/ KeeperStep
    \/ SpuriousWakeup
    \/ \E r \in Run : StartClient(r) \/ ClientStep(r) \/ StopClient(r)

NotificationSpec == NotificationInit /\ [][NotificationNext]_notificationVars

-----------------------------------------------------------------------------

\* The types of the state on the way of a notification.
NotificationTypeOK ==
    /\ nodes \subseteq Node /\ service \subseteq Node
    /\ systems \in [Node -> BOOLEAN]
    /\ change.step \in {"none", "systems", "notify"}
    /\ changes \in 0 .. MaxChanges
    /\ keeper \in {"snapshot", "generate", "insert", "put", "wait"}
    /\ DOMAIN snapshot \subseteq {"members", "systems"}
    /\ seen \in [members : SUBSET Node, systems : [Node -> BOOLEAN]]
    /\ events \in Seq([type : Type, member : Node])
    /\ DOMAIN channels \subseteq Run
    /\ \A r \in DOMAIN channels : channels[r] \in Seq([type : Type, member : Node])
    /\ client \in [Run -> {"off", "connected", "fetched", "refetched", "reading", "gone"}]
    /\ listed \in [Run -> [Node -> Nat]]
    /\ lost \in BOOLEAN
    /\ unseen \in [Run -> SUBSET Node]
    /\ fresh \in [Run -> SUBSET Node]

Settled == keeper = "wait" /\ change = Quiet /\ ~lost

\* A keeper that sleeps has told the service of everything the membership holds,
\* unless Update came while it was not asleep; what a lost wakeup withheld comes
\* with the next one, as the generator compares whole states.
SettledKeeperIsCurrent ==
    Settled => /\ seen = [members |-> nodes, systems |-> systems]
               /\ service = nodes

\* An application that has read all its events lists exactly the nodes of the
\* cluster, except those that a failed Fetch did not bring and those whose event
\* fell between its Fetch and its channel:
\* an event that both tell of makes at most a duplicate, which a DOWN removes.
AppSeesCluster ==
    Settled => \A r \in DOMAIN channels :
        client[r] = "reading" /\ channels[r] = <<>> =>
            \A n \in Node \ unseen[r] : (listed[r][n] > 0) = (n \in nodes)

Concerns(e, n, k) == e.member = n /\ Kind(e.type) = k

\* The places in a channel of the events about a node's membership or its system.
About(r, n, k) == {j \in DOMAIN channels[r] : Concerns(channels[r][j], n, k)}

\* An application hears of a node's ups and downs in turn, and of its actor
\* system's: observers that add a worker at each up and remove it at each down
\* rely on it.
EventsAlternate ==
    /\ \A r \in DOMAIN channels, n \in Node, k \in {"member", "system"} :
          client[r] = "reading" =>
             \A i, j \in About(r, n, k) :
                i < j /\ About(r, n, k) \cap (i + 1 .. j - 1) = {}
                   => channels[r][i].type # channels[r][j].type
    /\ \A r \in DOMAIN channels, n \in Node, k \in {"member", "system"} :
          client[r] = "reading" /\ <<k, n>> \in DOMAIN lastEvent[r] =>
             \A j \in About(r, n, k) :
                About(r, n, k) \cap (1 .. j - 1) = {}
                   => lastEvent[r][<<k, n>>] # channels[r][j].type
=============================================================================
