----------------------------- MODULE Membership -----------------------------
(***************************************************************************)
(* The membership protocol of the node keeper                              *)
(* (node_keeper/src/membership.cc, membership_message.cc).                 *)
(*                                                                         *)
(* Every node keeper keeps two maps from member to incarnation, members_   *)
(* and suspects_, and the set of members whose actor system it believes to *)
(* be up.  It joins by pulling the full state of a seed, spreads changes   *)
(* with UDP gossip, and detects failures by pulling ("pinging") a random   *)
(* member; the ping carries its own view, which the target merges.         *)
(*                                                                         *)
(* Handlers (gossip, pull, and the callbacks of a pull) all run on the one *)
(* io thread of the transport, so each is one action.  A node that stops   *)
(* and starts again is the same address with a new uid and incarnation 0.  *)
(***************************************************************************)
EXTENDS Integers, FiniteSets

CONSTANTS
    Node,                  \* addresses (ip and port) of the node keepers
    Seeds,                 \* Seeds[n]: seed_members_ of n, n left out
    Managed,               \* node keepers that run a daemon (config.app_ set)
    Hosting,               \* node keepers whose application reports ready
    Detecting,             \* node keepers whose failure detector is not off
    RetransmitMultiplier,  \* retransmit_multiplier_
    Mortal,                \* bound: node keepers that may crash
    MaxLives,              \* bound: MaxLives[n] starts of n
    MaxIncarnation,        \* bound: MaxIncarnation[n] incarnations in a life of n
    MaxPulls,              \* bound: pulls under way when a ping starts
    MaxGossip,             \* bound: datagrams in flight when one is sent
    MaxQueue,              \* bound: payloads in a gossip queue
    MaxFaults              \* bound: failed pulls to live nodes, duplicates

ASSUME SeedsAssumption == Seeds \in [Node -> SUBSET Node]
ASSUME NodeAssumption == IsFiniteSet(Node)
ASSUME MultiplierAssumption == RetransmitMultiplier \in Nat

VARIABLES
    up,                    \* up[n]: the node keeper of n is running
    uid,                   \* uid[n]: the uid of n's current or last life
    incarnation,           \* incarnation_
    members,               \* members_
    suspects,              \* suspects_
    actorSystems,          \* the members that map to true in member_actor_system_
    selfActorSystemUp,     \* is_self_actor_system_up_
    gossipQueue,           \* gossip_queue_: payloads with the sends left
    gossip,                \* datagrams in flight
    pulls,                 \* pulls whose callback has not run
    faults,                \* network faults so far
    issued,                \* history: highest incarnation n ever issued
    left                   \* history: nodes that announced their leave

localVars == <<members, suspects, actorSystems, gossipQueue>>
selfVars == <<up, uid, incarnation, selfActorSystemUp, issued, left>>
vars == <<localVars, selfVars, gossip, pulls, faults>>

-----------------------------------------------------------------------------
(* Data.  A member is keyed by its address alone; the uid is part of the   *)
(* key object, so assigning to a key that exists keeps the uid it had.     *)
(* Members learnt from a ping or from a full state carry no uid.           *)

NoUid == 0

Entry == [inc : Nat, uid : Nat]

\* A std::map from members to elements of S.
IsMap(f, S) == DOMAIN f \subseteq Node /\ f \in [DOMAIN f -> S]

Put(map, m, v) == [x \in DOMAIN map \cup {m} |-> IF x = m THEN v ELSE map[x]]

Erase(map, m) == [x \in DOMAIN map \ {m} |-> map[x]]

Empty == [x \in {} |-> [inc |-> 0, uid |-> NoUid]]

Assign(map, m, inc, u) ==
    Put(map, m, [inc |-> inc,
                 uid |-> IF m \in DOMAIN map THEN map[m].uid ELSE u])

Status == {"UP", "DOWN", "SUSPECT", "RECOVERY",
           "ACTOR_SYSTEM_UP", "ACTOR_SYSTEM_DOWN"}

UpdateMessage == [status : Status, member : Node, inc : Nat, uid : Nat]

Update(status, m, inc, u) ==
    [status |-> status, member |-> m, inc |-> inc, uid |-> u]

\* The number of e with 10^e < k is log10(k) rounded up, and 0 for k <= 1.
CeilLog10(k) == Cardinality({e \in 0..k : 10^e < k})

GetRetransmitLimit(map) ==
    RetransmitMultiplier * CeilLog10(Cardinality(DOMAIN map))

\* Mutant of Pushed: the check for times < 1 is missing.
PushedUnchecked(queue, msg, times) == queue \cup {[msg |-> msg, times |-> times]}

\* TimedFunctorQueue::Push ignores a functor that is to run less than once.
Pushed(queue, msg, times) ==
    IF times < 1 THEN queue ELSE queue \cup {[msg |-> msg, times |-> times]}

\* Queue a payload, as often as the size of the given member map asks for.
Push(n, msg, map) ==
    /\ gossipQueue' = [gossipQueue EXCEPT ![n] =
                         Pushed(@, msg, GetRetransmitLimit(map))]
    /\ Cardinality(gossipQueue'[n]) <= MaxQueue

\* A pull is a "ping" or a "full" state request.  A ping request carries the
\* view and the actor systems of the node that pings; the reply to a full
\* state request carries those of the node that was asked.
Pull(view) ==
        [kind : {"ping", "full"}, from : Node, life : Nat, to : Node, key : Nat,
         phase : {"request", "ok", "error"}, view : {view}, systems : SUBSET Node]

NoView == [x \in {} |-> 0]

IsAlive(n, life) == up[n] /\ uid[n] = life

\* The answer to a pull reaches a node that still runs the life that asked.
Answered(p, answer) ==
    (pulls \ {p}) \cup (IF IsAlive(p.from, p.life) THEN {answer} ELSE {})

SeedPull(n, life, s) ==
    [kind |-> "full", from |-> n, life |-> life, to |-> s, key |-> NoUid,
     phase |-> "request", view |-> NoView, systems |-> {}]

-----------------------------------------------------------------------------
Init ==
    /\ up = [n \in Node |-> FALSE]
    /\ uid = [n \in Node |-> NoUid]
    /\ incarnation = [n \in Node |-> 0]
    /\ members = [n \in Node |-> Empty]
    /\ suspects = [n \in Node |-> Empty]
    /\ actorSystems = [n \in Node |-> {}]
    /\ selfActorSystemUp = [n \in Node |-> FALSE]
    /\ gossipQueue = [n \in Node |-> {}]
    /\ gossip = {}
    /\ pulls = {}
    /\ faults = 0
    /\ issued = [n \in Node |-> 0]
    /\ left = {}

\* Membership::Init: a new uid, a fresh state that holds only the node itself,
\* and a pull from a random seed when there is one.
Start(n) ==
    /\ ~up[n]
    /\ uid[n] < MaxLives[n]
    /\ up' = [up EXCEPT ![n] = TRUE]
    /\ uid' = [uid EXCEPT ![n] = @ + 1]
    /\ incarnation' = [incarnation EXCEPT ![n] = 0]
    /\ members' = [members EXCEPT ![n] = Assign(Empty, n, 0, uid[n] + 1)]
    /\ suspects' = [suspects EXCEPT ![n] = Empty]
    /\ actorSystems' = [actorSystems EXCEPT ![n] = {}]
    /\ selfActorSystemUp' = [selfActorSystemUp EXCEPT ![n] = FALSE]
    /\ gossipQueue' = [gossipQueue EXCEPT ![n] = {}]
    /\ IF Seeds[n] = {}
         THEN pulls' = pulls
         ELSE \E s \in Seeds[n] :
                 pulls' = pulls \cup {SeedPull(n, uid[n] + 1, s)}
    /\ UNCHANGED <<gossip, faults, issued, left>>

\* What a process loses when it stops: its state, its queue and the answers
\* that were under way to it.  A request it sent may still be served.
Stop(n) ==
    /\ up' = [up EXCEPT ![n] = FALSE]
    /\ members' = [members EXCEPT ![n] = Empty]
    /\ suspects' = [suspects EXCEPT ![n] = Empty]
    /\ actorSystems' = [actorSystems EXCEPT ![n] = {}]
    /\ selfActorSystemUp' = [selfActorSystemUp EXCEPT ![n] = FALSE]
    /\ gossipQueue' = [gossipQueue EXCEPT ![n] = {}]
    /\ pulls' = {p \in pulls : p.from # n \/ p.phase = "request"}

Crash(n) ==
    /\ up[n]
    /\ n \in Mortal
    /\ Stop(n)
    /\ UNCHANGED <<uid, incarnation, gossip, faults, issued, left>>

Raised(n, inc) ==
    [issued EXCEPT ![n] = IF inc > @ THEN inc ELSE @]

\* NotifyLeave, called by the daemon just before the process exits: the DOWN
\* message goes to every member at once, not through the queue.
NotifyLeave(n) ==
    /\ up[n]
    /\ n \in Managed
    /\ IF Cardinality(DOMAIN members[n]) > 1
         THEN /\ incarnation[n] < MaxIncarnation[n]
              /\ incarnation' = [incarnation EXCEPT ![n] = @ + 1]
              /\ issued' = Raised(n, incarnation[n] + 1)
              /\ left' = left \cup {n}
              /\ LET down == Update("DOWN", n, incarnation[n] + 1, uid[n]) IN
                 gossip' = IF GetRetransmitLimit(members[n]) < 1 THEN gossip
                           ELSE gossip \cup
                                  {[to |-> m, msg |-> down] :
                                     m \in DOMAIN members[n] \ {n}}
         ELSE UNCHANGED <<incarnation, issued, left, gossip>>
    /\ Stop(n)
    /\ UNCHANGED <<uid, faults>>

-----------------------------------------------------------------------------
(* The application of the node: GRPCImpl::ActorSystemUp when it reports    *)
(* ready, NotifyActorSystemDown when the daemon sees it exit.              *)

ActorSystemUp(n) ==
    /\ up[n]
    /\ n \in Hosting
    /\ incarnation[n] < MaxIncarnation[n]
    /\ selfActorSystemUp' = [selfActorSystemUp EXCEPT ![n] = TRUE]
    /\ actorSystems' = [actorSystems EXCEPT ![n] = @ \cup {n}]
    /\ incarnation' = [incarnation EXCEPT ![n] = @ + 1]
    /\ issued' = Raised(n, incarnation[n] + 1)
    /\ Push(n, Update("ACTOR_SYSTEM_UP", n, incarnation[n] + 1, uid[n]),
            members[n])
    /\ UNCHANGED <<up, uid, members, suspects, gossip, pulls, faults, left>>

NotifyActorSystemDown(n) ==
    /\ up[n]
    /\ n \in Managed
    /\ incarnation[n] < MaxIncarnation[n]
    /\ selfActorSystemUp' = [selfActorSystemUp EXCEPT ![n] = FALSE]
    /\ actorSystems' = [actorSystems EXCEPT ![n] = @ \ {n}]
    /\ incarnation' = [incarnation EXCEPT ![n] = @ + 1]
    /\ issued' = Raised(n, incarnation[n] + 1)
    /\ Push(n, Update("ACTOR_SYSTEM_DOWN", n, incarnation[n] + 1, uid[n]),
            members[n])
    /\ UNCHANGED <<up, uid, members, suspects, gossip, pulls, faults, left>>

-----------------------------------------------------------------------------
(* Suspicion, shared by gossip and failure detection.                      *)

\* Mutant of Suspect: member_actor_system_ is not reset.
SuspectKeepsActorSystem(n, m, inc, u) ==
    LET remaining == Erase(members[n], m) IN
    /\ suspects' = [suspects EXCEPT ![n] = Assign(@, m, inc, u)]
    /\ members' = [members EXCEPT ![n] = remaining]
    /\ Push(n, Update("SUSPECT", m, inc, u), remaining)
    /\ UNCHANGED actorSystems

Suspect(n, m, inc, u) ==
    LET remaining == Erase(members[n], m) IN
    /\ suspects' = [suspects EXCEPT ![n] = Assign(@, m, inc, u)]
    /\ members' = [members EXCEPT ![n] = remaining]
    /\ actorSystems' = [actorSystems EXCEPT ![n] = @ \ {m}]
    /\ Push(n, Update("SUSPECT", m, inc, u), remaining)

\* Mutant of RecoverySuspect: the recovering node bumps the incarnation itself.
RecoverySuspectBumps(n, m, u) ==
    LET inc == suspects[n][m].inc + 1
        recovered == Assign(members[n], m, inc, u)
    IN
    /\ members' = [members EXCEPT ![n] = recovered]
    /\ suspects' = [suspects EXCEPT ![n] = Erase(@, m)]
    /\ Push(n, Update("RECOVERY", m, inc, u), recovered)
    /\ UNCHANGED actorSystems

RecoverySuspect(n, m, u) ==
    LET inc == suspects[n][m].inc
        recovered == Assign(members[n], m, inc, u)
    IN
    /\ members' = [members EXCEPT ![n] = recovered]
    /\ suspects' = [suspects EXCEPT ![n] = Erase(@, m)]
    /\ Push(n, Update("RECOVERY", m, inc, u), recovered)
    /\ UNCHANGED actorSystems

-----------------------------------------------------------------------------
(* HandleGossip, one operator per kind of message.                         *)

HoldsAtLeast(map, m, inc) == m \in DOMAIN map /\ map[m].inc >= inc

EraseExpired(map, m, u) ==
    IF m \in DOMAIN map /\ map[m].uid # u THEN Erase(map, m) ELSE map

\* Mutant of HandleUp: staleness is decided before the earlier life is erased.
HandleUpStaleFirst(n, msg) ==
    LET m == msg.member
        mem == EraseExpired(members[n], m, msg.uid)
        sus == EraseExpired(suspects[n], m, msg.uid)
        stale == HoldsAtLeast(suspects[n], m, msg.inc)
                   \/ HoldsAtLeast(members[n], m, msg.inc)
    IN
    /\ msg.status = "UP"
    /\ IF m = n
         THEN UNCHANGED localVars
         ELSE /\ suspects' = [suspects EXCEPT ![n] = sus]
              /\ actorSystems' = [actorSystems EXCEPT ![n] = @ \ {m}]
              /\ members' = [members EXCEPT ![n] =
                               IF stale THEN mem
                               ELSE Assign(mem, m, msg.inc, msg.uid)]
              /\ IF stale THEN UNCHANGED gossipQueue ELSE Push(n, msg, mem)

\* EraseExpiredMember drops what was known of an earlier life of the member,
\* whatever the rest of the handler then makes of the message.
HandleUp(n, msg) ==
    LET m == msg.member
        mem == EraseExpired(members[n], m, msg.uid)
        sus == EraseExpired(suspects[n], m, msg.uid)
        expired == mem # members[n] \/ sus # suspects[n]
        stale == HoldsAtLeast(sus, m, msg.inc) \/ HoldsAtLeast(mem, m, msg.inc)
    IN
    /\ msg.status = "UP"
    /\ IF m = n
         THEN UNCHANGED localVars
         ELSE /\ suspects' = [suspects EXCEPT ![n] = sus]
              /\ actorSystems' = [actorSystems EXCEPT ![n] =
                                    IF expired THEN @ \ {m} ELSE @]
              /\ members' = [members EXCEPT ![n] =
                               IF stale THEN mem
                               ELSE Assign(mem, m, msg.inc, msg.uid)]
              /\ IF stale THEN UNCHANGED gossipQueue ELSE Push(n, msg, mem)

\* Mutant of HandleDown: MergeDownUpdate does not spare the node itself.
HandleDownAppliesToSelf(n, msg) ==
    LET m == msg.member IN
    /\ msg.status = "DOWN"
    /\ IF m \notin DOMAIN members[n] \cup DOMAIN suspects[n]
         THEN UNCHANGED localVars
         ELSE /\ Push(n, msg, members[n])
              /\ members' = [members EXCEPT ![n] = Erase(@, m)]
              /\ suspects' = [suspects EXCEPT ![n] = Erase(@, m)]
              /\ actorSystems' = [actorSystems EXCEPT ![n] = @ \ {m}]

\* A DOWN message is applied whatever its incarnation; a node forwards one
\* about itself but does not apply it.
HandleDown(n, msg) ==
    LET m == msg.member IN
    /\ msg.status = "DOWN"
    /\ IF m \notin DOMAIN members[n] \cup DOMAIN suspects[n]
         THEN UNCHANGED localVars
         ELSE /\ Push(n, msg, members[n])
              /\ IF m = n
                   THEN UNCHANGED <<members, suspects, actorSystems>>
                   ELSE /\ members' = [members EXCEPT ![n] = Erase(@, m)]
                        /\ suspects' = [suspects EXCEPT ![n] = Erase(@, m)]
                        /\ actorSystems' = [actorSystems EXCEPT ![n] = @ \ {m}]

HandleSuspect(n, msg) ==
    LET m == msg.member IN
    /\ msg.status = "SUSPECT"
    /\ CASE m \in DOMAIN suspects[n] ->
              /\ suspects' = [suspects EXCEPT ![n] =
                                IF HoldsAtLeast(@, m, msg.inc) THEN @
                                ELSE Assign(@, m, msg.inc, msg.uid)]
              /\ UNCHANGED <<members, actorSystems, gossipQueue>>
         [] m \notin DOMAIN suspects[n] /\ m \in DOMAIN members[n]
            /\ msg.inc >= members[n][m].inc ->
              Suspect(n, m, msg.inc, msg.uid)
         [] OTHER -> UNCHANGED localVars

HandleRecovery(n, msg) ==
    LET m == msg.member IN
    /\ msg.status = "RECOVERY"
    /\ IF m \in DOMAIN suspects[n] /\ msg.inc >= suspects[n][m].inc
         THEN RecoverySuspect(n, m, msg.uid)
         ELSE UNCHANGED localVars

\* SendGossip, then MergeActorSystemUp or MergeActorSystemDown.
HandleActorSystem(n, msg) ==
    LET m == msg.member IN
    /\ msg.status \in {"ACTOR_SYSTEM_UP", "ACTOR_SYSTEM_DOWN"}
    /\ IF m \notin DOMAIN members[n] \/ HoldsAtLeast(members[n], m, msg.inc)
         THEN UNCHANGED localVars
         ELSE /\ Push(n, msg, members[n])
              /\ members' = [members EXCEPT ![n] =
                               Assign(@, m, msg.inc, msg.uid)]
              /\ actorSystems' = [actorSystems EXCEPT ![n] =
                                    IF msg.status = "ACTOR_SYSTEM_UP"
                                      THEN @ \cup {m} ELSE @ \ {m}]
              /\ UNCHANGED suspects

\* A datagram is handled by whatever life runs at its address, once or, when
\* the network duplicates it, again later.
HandleGossip(d) ==
    /\ up[d.to]
    /\ \/ gossip' = gossip \ {d} /\ UNCHANGED faults
       \/ faults < MaxFaults /\ faults' = faults + 1 /\ UNCHANGED gossip
    /\ \/ HandleUp(d.to, d.msg)
       \/ HandleDown(d.to, d.msg)
       \/ HandleSuspect(d.to, d.msg)
       \/ HandleRecovery(d.to, d.msg)
       \/ HandleActorSystem(d.to, d.msg)
    /\ UNCHANGED <<selfVars, pulls>>

LoseGossip(d) ==
    /\ gossip' = gossip \ {d}
    /\ UNCHANGED <<localVars, selfVars, pulls, faults>>

\* One run of a queued functor: the payload goes to a random other member, if
\* the node knows of any.
DisseminateGossip(n, item) ==
    /\ up[n]
    /\ Cardinality(gossip) < MaxGossip
    /\ LET targets == DOMAIN members[n] \ {n} IN
       IF Cardinality(DOMAIN members[n]) > 1
         THEN \E m \in targets : gossip' = gossip \cup {[to |-> m, msg |-> item.msg]}
         ELSE UNCHANGED gossip
    /\ gossipQueue' = [gossipQueue EXCEPT ![n] =
           Pushed(@ \ {item}, item.msg, item.times - 1)]
    /\ UNCHANGED <<members, suspects, actorSystems, selfVars, pulls, faults>>

-----------------------------------------------------------------------------
(* Pulls: joining and failure detection.                                   *)

Incarnations(map) == [m \in DOMAIN map |-> map[m].inc]

\* Mutant of PingTargets: suspects are not pinged.
PingTargetsMembersOnly(n) == DOMAIN members[n] \ {n}

PingTargets(n) == (DOMAIN members[n] \ {n}) \cup DOMAIN suspects[n]

\* The uids under which n's maps hold a ping target.
KeysOf(n, m) ==
    {members[n][x].uid : x \in DOMAIN members[n] \cap ({m} \ {n})}
      \cup {suspects[n][x].uid : x \in DOMAIN suspects[n] \cap {m}}

\* The functor of the failure detector: pull a random member or suspect, with
\* the node's view at that moment in the request.  MaxPulls bounds the pulls
\* that wait for an answer; the code, which has no timeout, does not.
Ping(n, target) ==
    /\ up[n]
    /\ n \in Detecting
    /\ Cardinality(pulls) < MaxPulls
    /\ Cardinality(DOMAIN members[n]) + Cardinality(DOMAIN suspects[n]) > 1
    /\ target \in PingTargets(n)
    /\ \E u \in KeysOf(n, target) :
         pulls' = pulls \cup
           {[kind |-> "ping", from |-> n, life |-> uid[n], to |-> target, key |-> u,
             phase |-> "request", view |-> Incarnations(members[n]),
             systems |-> actorSystems[n] \cap DOMAIN members[n]]}
    /\ UNCHANGED <<localVars, selfVars, gossip, faults>>

\* Mutant of Newer: any other incarnation is adopted, a lower one too.
NewerOrOlder(map, view) ==
    {m \in DOMAIN view : m \notin DOMAIN map \/ view[m] # map[m].inc}

\* The members of a view that MergeMembers adopts: the unknown ones and those
\* with a higher incarnation.  It looks neither at suspects_ nor at self_.
Newer(map, view) ==
    {m \in DOMAIN view : m \notin DOMAIN map \/ view[m] > map[m].inc}

MergeMembers(n, view, systems) ==
    LET newer == Newer(members[n], view) IN
    /\ members' = [members EXCEPT ![n] =
         [m \in DOMAIN @ \cup newer |->
            IF m \in newer
              THEN [inc |-> view[m],
                    uid |-> IF m \in DOMAIN @ THEN @[m].uid ELSE NoUid]
              ELSE @[m]]]
    /\ actorSystems' = [actorSystems EXCEPT ![n] =
         (@ \ newer) \cup (systems \cap newer)]

\* HandlePull of a ping: answer, and merge the view that came with it.
HandlePing(p) ==
    /\ p.kind = "ping" /\ p.phase = "request"
    /\ up[p.to]
    /\ MergeMembers(p.to, p.view, p.systems)
    /\ pulls' = Answered(p, [p EXCEPT !.phase = "ok", !.view = NoView,
                                      !.systems = {}])
    /\ UNCHANGED <<suspects, gossipQueue, selfVars, gossip, faults>>

\* HandlePull of a full state request: GetMembersWithStatus.
HandleFullState(p) ==
    /\ p.kind = "full" /\ p.phase = "request"
    /\ up[p.to]
    /\ pulls' = Answered(p, [p EXCEPT !.phase = "ok",
                               !.view = [m \in DOMAIN members[p.to] |-> 0],
                               !.systems = actorSystems[p.to]
                                             \cap DOMAIN members[p.to]])
    /\ UNCHANGED <<localVars, selfVars, gossip, faults>>

\* A pull fails when the node it goes to is down, or when the network fails
\* before the request or the reply is through.
PullError(p) ==
    /\ \/ p.phase = "request" /\ ~up[p.to] /\ UNCHANGED faults
       \/ p.phase # "error" /\ faults < MaxFaults /\ faults' = faults + 1
    /\ pulls' = Answered(p, [p EXCEPT !.phase = "error", !.view = NoView,
                                      !.systems = {}])
    /\ UNCHANGED <<localVars, selfVars, gossip>>

\* The callback of a ping.
DidPing(p) ==
    LET n == p.from
        m == p.to
    IN
    /\ p.kind = "ping" /\ p.phase # "request"
    /\ IsAlive(n, p.life)
    /\ pulls' = pulls \ {p}
    /\ CASE p.phase = "ok" /\ m \in DOMAIN suspects[n] ->
              RecoverySuspect(n, m, p.key)
         [] p.phase = "error" /\ m \in DOMAIN members[n] ->
              Suspect(n, m, members[n][m].inc, p.key)
         [] OTHER -> UNCHANGED localVars
    /\ UNCHANGED <<selfVars, gossip, faults>>

\* UpdateActorSystemStatus: members that n lacks come in with incarnation 0;
\* the actor system of each listed member is set from the reply, n's own too.
UpdateActorSystemStatus(n, view, systems) ==
    /\ members' = [members EXCEPT ![n] =
         [m \in DOMAIN @ \cup DOMAIN view |->
            IF m \in DOMAIN @ THEN @[m] ELSE [inc |-> 0, uid |-> NoUid]]]
    /\ actorSystems' = [actorSystems EXCEPT ![n] =
         (@ \ DOMAIN view) \cup systems]

\* The callback of the pull from a seed: HandleDidPull on success, otherwise
\* PullFromSeedMember again, with a random seed.
DidPullSeed(p) ==
    LET n == p.from
        inc == incarnation[n] + 1
        last == IF selfActorSystemUp[n] THEN inc + 1 ELSE inc
        limit == GetRetransmitLimit(members'[n])
        announced == Pushed(gossipQueue[n], Update("UP", n, inc, uid[n]), limit)
    IN
    /\ p.kind = "full" /\ p.phase = "ok"
    /\ IsAlive(n, p.life)
    /\ last <= MaxIncarnation[n]
    /\ UpdateActorSystemStatus(n, p.view, p.systems)
    /\ incarnation' = [incarnation EXCEPT ![n] = last]
    /\ issued' = Raised(n, last)
    /\ gossipQueue' = [gossipQueue EXCEPT ![n] =
         IF selfActorSystemUp[n]
           THEN Pushed(announced, Update("ACTOR_SYSTEM_UP", n, last, uid[n]), limit)
           ELSE announced]
    /\ Cardinality(gossipQueue'[n]) <= MaxQueue
    /\ pulls' = pulls \ {p}
    /\ UNCHANGED <<up, uid, selfActorSystemUp, left, suspects, gossip, faults>>

PullFromSeedAgain(p) ==
    /\ p.kind = "full" /\ p.phase = "error"
    /\ IsAlive(p.from, p.life)
    /\ \E s \in Seeds[p.from] :
         pulls' = (pulls \ {p}) \cup {SeedPull(p.from, p.life, s)}
    /\ UNCHANGED <<localVars, selfVars, gossip, faults>>

-----------------------------------------------------------------------------
NodeStep(n) ==
    \/ Start(n)
    \/ Crash(n)
    \/ NotifyLeave(n)
    \/ ActorSystemUp(n)
    \/ NotifyActorSystemDown(n)
    \/ \E item \in gossipQueue[n] : DisseminateGossip(n, item)
    \/ \E m \in Node : Ping(n, m)

PullStep(p) ==
    \/ HandlePing(p)
    \/ HandleFullState(p)
    \/ PullError(p)
    \/ DidPing(p)
    \/ DidPullSeed(p)
    \/ PullFromSeedAgain(p)

Next ==
    \/ \E n \in Node : NodeStep(n)
    \/ \E d \in gossip : HandleGossip(d) \/ LoseGossip(d)
    \/ \E p \in pulls : PullStep(p)

Spec == Init /\ [][Next]_vars

\* The io thread of a running node serves its sockets and callbacks, a pull to
\* a dead node is refused, the queue threads run, and the random choice of a
\* ping target picks each candidate again and again.  Nothing is assumed of
\* datagrams (one may be lost), of crashes or of the application.
Fairness ==
    /\ \A n \in Node : WF_vars(\E p \in pulls : p.from = n /\ PullStep(p))
    /\ \A n \in Node : WF_vars(\E item \in gossipQueue[n] : DisseminateGossip(n, item))
    /\ \A n, m \in Node : SF_vars(Ping(n, m))
    /\ WF_vars(\E d \in gossip : HandleGossip(d) \/ LoseGossip(d))

FairSpec == Spec /\ Fairness

-----------------------------------------------------------------------------
\* Types.  A queued payload always has at least one send left, as Push and the
\* loop of CallFunctors see to.
TypeOK ==
    /\ up \in [Node -> BOOLEAN]
    /\ uid \in [Node -> Nat]
    /\ incarnation \in [Node -> Nat]
    /\ DOMAIN members = Node /\ DOMAIN suspects = Node
    /\ \A n \in Node : IsMap(members[n], Entry) /\ IsMap(suspects[n], Entry)
    /\ actorSystems \in [Node -> SUBSET Node]
    /\ selfActorSystemUp \in [Node -> BOOLEAN]
    /\ gossipQueue \in [Node -> SUBSET [msg : UpdateMessage, times : Nat \ {0}]]
    /\ gossip \in SUBSET [to : Node, msg : UpdateMessage]
    /\ \A p \in pulls : IsMap(p.view, Nat) /\ p \in Pull(p.view)
    /\ faults \in Nat
    /\ issued \in [Node -> Nat]
    /\ left \in SUBSET Node

\* A node's actor system is reported up only while the node is a member: a
\* suspect, a node that left and a forgotten one are never offered to the
\* application as running an actor system.  (Every handler that erases from
\* members_ must also reset member_actor_system_.)
ActorSystemsAreMembers ==
    \A n \in Node : actorSystems[n] \ {n} \subseteq DOMAIN members[n]

\* No incarnation is ever made up: whatever a node stores, queues or sends
\* about a member, in members_, suspects_, a datagram or a ping, was issued by
\* that member itself in this or an earlier life.
IncarnationsWereIssued ==
    /\ \A n \in Node :
         /\ incarnation[n] <= issued[n]
         /\ \A m \in DOMAIN members[n] : members[n][m].inc <= issued[m]
         /\ \A m \in DOMAIN suspects[n] : suspects[n][m].inc <= issued[m]
         /\ \A item \in gossipQueue[n] : item.msg.inc <= issued[item.msg.member]
    /\ \A d \in gossip : d.msg.inc <= issued[d.msg.member]
    /\ \A p \in pulls : \A m \in DOMAIN p.view : p.view[m] <= issued[m]

\* A running node is always in its own members_ or suspects_, even when stale
\* gossip that it is down or suspected comes back to it.
SelfIsKnown ==
    \A n \in Node : up[n] => n \in DOMAIN members[n] \cup DOMAIN suspects[n]

\* Only a leave makes a running node forget another: failed pings, suspicion,
\* recovery and the expiry of an earlier life move a member between the two
\* maps but never drop it from both, so that it is still pinged.
StillKnown ==
    \A n, m \in Node :
       up[n] /\ up'[n] /\ m \in DOMAIN members[n] \cup DOMAIN suspects[n]
         => m \in DOMAIN members'[n] \cup DOMAIN suspects'[n] \cup left
OnlyLeaveForgets == [][StillKnown]_vars

\* While a running node keeps a member that it does not also suspect, under the
\* same uid, the incarnation it holds for it only grows, so that an old message
\* cannot undo a newer one.
NoOlderIncarnation ==
    \A n, m \in Node :
       (/\ up[n] /\ up'[n]
        /\ m \in DOMAIN members[n] \cap DOMAIN members'[n]
        /\ m \notin DOMAIN suspects[n]
        /\ members[n][m].uid = members'[n][m].uid)
          => members'[n][m].inc >= members[n][m].inc
MemberIncarnationGrows == [][NoOlderIncarnation]_vars

\* A node that lists a member at the incarnation with which that member
\* announced its actor system up also lists that actor system as up.
UpAnnouncementIsKept ==
    \A n, m \in Node :
       (/\ up[n] /\ up[m] /\ selfActorSystemUp[m] /\ n # m
        /\ m \in DOMAIN members[n] /\ members[n][m].inc = incarnation[m])
          => m \in actorSystems[n]

\* Once every node keeper is running for good, they all end up in one cluster:
\* each lists all of them as members.
OneCluster == \A n \in Node : DOMAIN members[n] = Node

\* Restarts and failed pulls never split the cluster for good: a node whose seed
\* was down pulls again, and suspects go on being pinged.
JoinInOneCluster == <>[](\A n \in Node : up[n]) => <>[]OneCluster

=============================================================================
