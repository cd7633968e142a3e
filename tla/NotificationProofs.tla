------------------------- MODULE NotificationProofs -------------------------
(***************************************************************************)
(* Proofs about the notification path, for any number of nodes, of runs of *)
(* the application and of changes of the membership, however the four      *)
(* threads interleave.                                                     *)
(***************************************************************************)
EXTENDS Notification, FiniteSetTheorems, SequenceTheorems, TLAPS

Step == {"snapshot", "generate", "insert", "put", "wait"}

Stage == {"off", "connected", "fetched", "refetched", "reading", "gone"}

AnEvent == [type : Type, member : Node]

Up(type) == type \in {"memberUp", "systemUp"}

\* What the generator holds of a node's membership and of its actor system.
Held(n, k) == IF k = "member" THEN n \in seen.members ELSE seen.systems[n]

\* An event about it is still to be put to the channels.
Pending(n, k) == \E i \in DOMAIN events : Concerns(events[i], n, k)

\* What the channels have been told of it.
PutUp(n, k) == ~(Held(n, k) <=> Pending(n, k))

\* The event at hand has changed the service's list and is not in the channels.
Headed(n) == keeper = "put" /\ Concerns(Head(events), n, "member")

-----------------------------------------------------------------------------

\* The two snapshots, as far as they are read; what was read is what there is,
\* unless a change is under way or Update has come since.
Current(yes) == change = Quiet /\ ~lost => yes

SnapshotInv ==
    \/ /\ keeper \in {"snapshot", "insert", "put", "wait"}
       /\ snapshot = <<>>
    \/ /\ keeper = "snapshot"
       /\ \E m \in SUBSET Node : snapshot = [members |-> m] /\ Current(m = nodes)
    \/ /\ keeper = "snapshot"
       /\ \E s \in [Node -> BOOLEAN] : snapshot = [systems |-> s] /\ Current(s = systems)
    \/ /\ keeper = "generate"
       /\ \E m \in SUBSET Node, s \in [Node -> BOOLEAN] :
             /\ snapshot = [members |-> m, systems |-> s]
             /\ Current(m = nodes /\ s = systems)

SeenInv ==
    keeper \in {"insert", "put", "wait"} =>
        Current(seen = [members |-> nodes, systems |-> systems])

MembershipTypes ==
    /\ nodes \subseteq Node
    /\ systems \in [Node -> BOOLEAN]
    /\ \/ change \in {Quiet, [step |-> "notify"]}
       \/ change \in [step : {"systems"}, member : Node, up : BOOLEAN]
    /\ changes \in 0 .. MaxChanges

KeeperTypes ==
    /\ keeper \in Step
    /\ seen \in [members : SUBSET Node, systems : [Node -> BOOLEAN]]
    /\ events \in Seq(AnEvent)
    /\ service \subseteq Node
    /\ lost \in BOOLEAN

\* The events left tell what the generator holds, each matter once.
EventsInv ==
    /\ keeper \in {"snapshot", "generate", "wait"} => events = <<>>
    /\ keeper = "put" => events # <<>>
    /\ \A i \in DOMAIN events :
          Up(events[i].type) <=> Held(events[i].member, Kind(events[i].type))
    /\ \A i, j \in DOMAIN events :
          i # j => ~Concerns(events[i], events[j].member, Kind(events[j].type))

\* The service is one event ahead of the channels while that one is put.
ServiceInv ==
    \A n \in Node : n \in service <=> ~(PutUp(n, "member") <=> Headed(n))

KeeperInv ==
    MembershipTypes /\ KeeperTypes /\ SnapshotInv /\ SeenInv /\ EventsInv /\ ServiceInv

-----------------------------------------------------------------------------

ClientTypes ==
    /\ DOMAIN channels \subseteq Run
    /\ \A r \in DOMAIN channels : channels[r] \in Seq(AnEvent)
    /\ client \in [Run -> Stage]
    /\ listed \in [Run -> [Node -> Nat]]
    /\ unseen \in [Run -> SUBSET Node]
    /\ fresh \in [Run -> SUBSET Node]
    /\ DOMAIN lastEvent = Run

\* What a run has at each stage of its life.
StageInv ==
    \A r \in Run :
        /\ r \in DOMAIN channels => client[r] \in {"reading", "gone"}
        /\ client[r] # "reading" => lastEvent[r] = <<>>
        /\ client[r] \in {"off", "connected"} =>
              listed[r] = [n \in Node |-> 0] /\ fresh[r] = {}

\* The last that a channel holds of a matter is what the channels have been told.
ToldInv ==
    \A r \in DOMAIN channels, n \in Node, k \in {"member", "system"} :
        client[r] = "reading" =>
            \A j \in About(r, n, k) :
                (\A i \in About(r, n, k) : i <= j) => (Up(channels[r][j].type) <=> PutUp(n, k))

\* So is the last that a run has heard of it, if its channel holds no more.
HeardInv ==
    \A r \in DOMAIN channels, n \in Node, k \in {"member", "system"} :
        client[r] = "reading" /\ <<k, n>> \in DOMAIN lastEvent[r] =>
            /\ lastEvent[r][<<k, n>>] \in Type
            /\ Kind(lastEvent[r][<<k, n>>]) = k
            /\ About(r, n, k) = {} => (Up(lastEvent[r][<<k, n>>]) <=> PutUp(n, k))

\* The list of a run that has no channel yet is the service's, but for the nodes
\* it may have missed and those whose event it will have missed.
FetchInv ==
    \A r \in Run, n \in Node :
        Fetching(r) /\ n \notin unseen[r] =>
            \/ Headed(n) /\ n \in fresh[r]
            \/ listed[r][n] > 0 <=> n \in service

\* The list of a run that reads is what the channels were told, as soon as no
\* event about the node is on its way.
ListInv ==
    \A r \in DOMAIN channels, n \in Node :
        client[r] = "reading" /\ n \notin unseen[r] /\ About(r, n, "member") = {} =>
            \/ Headed(n)
            \/ listed[r][n] > 0 <=> PutUp(n, "member")

ClientInv ==
    /\ ClientTypes /\ StageInv /\ ToldInv /\ HeardInv
    /\ EventsAlternate /\ FetchInv /\ ListInv

NotificationInv == KeeperInv /\ ClientInv

-----------------------------------------------------------------------------
(* The events of a round.                                                  *)

\* A sequence has the elements of a set, each once.
Enumerates(q, E) ==
    /\ q \in Seq(E)
    /\ \A e \in E : \E i \in DOMAIN q : q[i] = e
    /\ \A i, j \in DOMAIN q : i # j => q[i] # q[j]

LEMMA SetToSeqEnumerates ==
  ASSUME NEW E, IsFiniteSet(E)
  PROVE  Enumerates(SetToSeq(E), E)
<1> DEFINE size == Cardinality(E)
           q == SetToSeq(E)
<1>1. size \in Nat /\ ExistsBijection(1 .. size, E)
  BY FS_CardinalityType
<1>2. \E f \in [1 .. size -> E] : IsInjective(f)
  BY <1>1 DEF ExistsBijection, Bijection, Injection
<1>3. q \in [1 .. size -> E] /\ IsInjective(q)
  BY <1>2 DEF SetToSeq
<1>4. q \in Injection(1 .. size, E)
  BY <1>3 DEF Injection
<1>5. IsFiniteSet(1 .. size) /\ Cardinality(1 .. size) = size
  BY <1>1, FS_Interval
<1>6. q \in Surjection(1 .. size, E)
  BY <1>4, <1>5, FS_Injection
<1>7. q \in Seq(E) /\ DOMAIN q = 1 .. size
  BY <1>1, <1>3
<1>8. QED
  BY <1>3, <1>6, <1>7 DEF Enumerates, Surjection, IsInjective

LEMMA ConcatEnumerates ==
  ASSUME NEW p, NEW q, NEW A, NEW B, Enumerates(p, A), Enumerates(q, B), A \cap B = {}
  PROVE  Enumerates(p \o q, A \cup B)
<1> DEFINE pq == p \o q
<1>1. p \in Seq(A \cup B) /\ q \in Seq(A \cup B)
  BY SeqMonotonic DEF Enumerates
<1>2. /\ pq \in Seq(A \cup B)
      /\ Len(pq) = Len(p) + Len(q)
      /\ \A i \in 1 .. Len(p) + Len(q) : pq[i] = IF i <= Len(p) THEN p[i] ELSE q[i - Len(p)]
  BY <1>1, ConcatProperties
<1>3. /\ Len(p) \in Nat /\ DOMAIN p = 1 .. Len(p)
      /\ Len(q) \in Nat /\ DOMAIN q = 1 .. Len(q)
      /\ DOMAIN pq = 1 .. Len(p) + Len(q)
  BY <1>1, <1>2, LenProperties
<1>4. \A i \in DOMAIN p : p[i] \in A
  BY <1>3, ElementOfSeq DEF Enumerates
<1>5. \A i \in DOMAIN q : q[i] \in B
  BY <1>3, ElementOfSeq DEF Enumerates
<1> HIDE DEF pq
<1>6. ASSUME NEW e \in A \cup B
      PROVE  \E i \in DOMAIN pq : pq[i] = e
  <2>1. CASE e \in A
    <3>1. PICK i \in 1 .. Len(p) : p[i] = e
      BY <2>1, <1>3 DEF Enumerates
    <3>2. i \in DOMAIN pq /\ pq[i] = e
      BY <3>1, <1>2, <1>3
    <3>3. QED
      BY <3>2
  <2>2. CASE e \in B
    <3>1. PICK i \in 1 .. Len(q) : q[i] = e
      BY <2>2, <1>3 DEF Enumerates
    <3>2. i + Len(p) \in 1 .. Len(p) + Len(q) /\ ~(i + Len(p) <= Len(p))
          /\ (i + Len(p)) - Len(p) = i
      BY <3>1, <1>3
    <3>3. i + Len(p) \in DOMAIN pq /\ pq[i + Len(p)] = e
      BY <3>1, <3>2, <1>2, <1>3
    <3>4. QED
      BY <3>3
  <2>3. QED
    BY <2>1, <2>2
<1>7. ASSUME NEW i \in DOMAIN pq, NEW j \in DOMAIN pq, i # j
      PROVE  pq[i] # pq[j]
  <2>0. i \in 1 .. Len(p) + Len(q) /\ j \in 1 .. Len(p) + Len(q)
    BY <1>3
  <2>1. /\ (i <= Len(p) => i \in 1 .. Len(p)) /\ (j <= Len(p) => j \in 1 .. Len(p))
        /\ (~(i <= Len(p)) => i - Len(p) \in 1 .. Len(q))
        /\ (~(j <= Len(p)) => j - Len(p) \in 1 .. Len(q))
        /\ i - Len(p) # j - Len(p)
    BY <2>0, <1>3, <1>7
  <2>2. /\ \A a, b \in DOMAIN p : a # b => p[a] # p[b]
        /\ \A a, b \in DOMAIN q : a # b => q[a] # q[b]
    BY DEF Enumerates
  <2>3. \A a \in DOMAIN p, b \in DOMAIN q : p[a] # q[b]
    BY <1>4, <1>5
  <2>4. QED
    BY <2>0, <2>1, <2>2, <2>3, <1>2, <1>3
<1>8. QED
  BY <1>2, <1>6, <1>7 DEF Enumerates, pq

LEMMA EventsEnumerate ==
  ASSUME NEW type, NEW S \in SUBSET Node
  PROVE  Enumerates(Events(type, S), {Event(type, n) : n \in S})
<1> DEFINE E == {Event(type, n) : n \in S}
           f == [n \in S |-> Event(type, n)]
<1>1. IsFiniteSet(S)
  BY NotificationAssumption, FS_Subset
<1>2. f \in Surjection(S, E)
  BY DEF Surjection
<1>3. IsFiniteSet(E)
  BY <1>1, <1>2, FS_Surjection
<1>4. QED
  BY <1>3, SetToSeqEnumerates DEF Events

-----------------------------------------------------------------------------
(* The membership and the keeper.                                          *)

LEMMA KeeperInitInv == NotificationInit => KeeperInv
<1> SUFFICES ASSUME NotificationInit PROVE KeeperInv
  OBVIOUS
<1>1. MembershipTypes
  BY DEF NotificationInit, MembershipTypes, NoSystems
<1>2. <<>> \in Seq(AnEvent) /\ DOMAIN events = {}
  BY EmptySeq DEF NotificationInit
<1>3. KeeperTypes
  BY <1>2 DEF NotificationInit, KeeperTypes, NoSystems, Step
<1>4. SnapshotInv /\ SeenInv
  BY DEF NotificationInit, SnapshotInv, SeenInv
<1>5. EventsInv
  BY <1>2 DEF NotificationInit, EventsInv
<1>6. ServiceInv
  BY <1>2 DEF NotificationInit, ServiceInv, PutUp, Held, Pending, Headed
<1>7. QED
  BY <1>1, <1>3, <1>4, <1>5, <1>6 DEF KeeperInv

\* A change under way is not quiet, whatever step it is at.
LEMMA ChangeSteps ==
  /\ \A n, up : [step |-> "systems", member |-> n, up |-> up] # Quiet
  /\ [step |-> "notify"] # Quiet
  /\ Quiet.step = "none"
<1>1. \A n, up : [step |-> "systems", member |-> n, up |-> up].step # Quiet.step
  BY DEF Quiet
<1>2. QED
  BY <1>1 DEF Quiet

LEMMA SameKeeper ==
  ASSUME EventsInv, ServiceInv, UNCHANGED <<keeper, seen, events, service>>
  PROVE  EventsInv' /\ ServiceInv'
BY DEF EventsInv, ServiceInv, PutUp, Pending, Held, Headed

LEMMA MembersChangeInv ==
  ASSUME KeeperInv, NEW n \in Node, MembersChange(n)
  PROVE  KeeperInv'
<1> USE DEF KeeperInv
<1>1. /\ UNCHANGED keeperVars /\ UNCHANGED systems
      /\ nodes' = nodes \cup {n} \/ nodes' = nodes \ {n}
      /\ changes < MaxChanges /\ changes' = changes + 1
      /\ \/ change' = [step |-> "notify"]
         \/ \E up \in BOOLEAN : change' = [step |-> "systems", member |-> n, up |-> up]
  BY DEF MembersChange
<1>2. change' # Quiet
  BY <1>1, ChangeSteps
<1>3. MembershipTypes'
  BY <1>1, NotificationAssumption DEF MembershipTypes
<1>4. SnapshotInv' /\ SeenInv'
  BY <1>1, <1>2 DEF SnapshotInv, SeenInv, Current, keeperVars
<1>5. KeeperTypes' /\ EventsInv' /\ ServiceInv'
  BY <1>1, SameKeeper DEF KeeperTypes, keeperVars
<1>6. QED
  BY <1>3, <1>4, <1>5

LEMMA SystemsChangeInv ==
  ASSUME KeeperInv, SystemsChange
  PROVE  KeeperInv'
<1> USE DEF KeeperInv
<1>1. /\ UNCHANGED keeperVars /\ UNCHANGED <<nodes, changes>>
      /\ change.step = "systems" /\ change' = [step |-> "notify"]
      /\ systems' = [systems EXCEPT ![change.member] = change.up]
  BY DEF SystemsChange
<1>2. change' # Quiet
  BY <1>1, ChangeSteps
<1>3. change.member \in Node /\ change.up \in BOOLEAN
  BY <1>1, ChangeSteps DEF MembershipTypes
<1>4. MembershipTypes'
  BY <1>1, <1>3 DEF MembershipTypes
<1>5. SnapshotInv' /\ SeenInv'
  BY <1>1, <1>2 DEF SnapshotInv, SeenInv, Current, keeperVars
<1>6. KeeperTypes' /\ EventsInv' /\ ServiceInv'
  BY <1>1, SameKeeper DEF KeeperTypes, keeperVars
<1>7. QED
  BY <1>4, <1>5, <1>6

LEMMA SubscriberUpdateInv ==
  ASSUME KeeperInv, SubscriberUpdate
  PROVE  KeeperInv'
<1> USE DEF KeeperInv
<1>1. /\ UNCHANGED <<nodes, systems, changes, snapshot, seen, events, service>>
      /\ change' = Quiet /\ lost' = (keeper # "wait")
      /\ keeper' = IF keeper = "wait" THEN "snapshot" ELSE keeper
  BY DEF SubscriberUpdate
<1>2. MembershipTypes' /\ KeeperTypes'
  BY <1>1 DEF MembershipTypes, KeeperTypes, Step
<1>3. CASE keeper = "wait"
  <2>1. SnapshotInv' /\ SeenInv'
    BY <1>1, <1>3 DEF SnapshotInv, SeenInv
  <2>2. EventsInv' /\ ServiceInv'
    BY <1>1, <1>3 DEF EventsInv, ServiceInv, PutUp, Pending, Held, Headed
  <2>3. QED
    BY <1>2, <2>1, <2>2
<1>4. CASE keeper # "wait"
  <2>1. lost' /\ keeper' = keeper
    BY <1>1, <1>4
  <2>2. SnapshotInv' /\ SeenInv'
    BY <1>1, <2>1 DEF SnapshotInv, SeenInv, Current
  <2>3. EventsInv' /\ ServiceInv'
    BY <1>1, <2>1, SameKeeper
  <2>4. QED
    BY <1>2, <2>2, <2>3
<1>5. QED
  BY <1>3, <1>4

\* What the snapshots become as they are read, in either order.
LEMMA SnapshotMerges ==
  ASSUME NEW m, NEW s
  PROVE  /\ With(<<>>, "members", m) = [members |-> m]
         /\ With(<<>>, "systems", s) = [systems |-> s]
         /\ With([members |-> m], "systems", s) = [members |-> m, systems |-> s]
         /\ With([systems |-> s], "members", m) = [members |-> m, systems |-> s]
         /\ DOMAIN <<>> = {} /\ DOMAIN [members |-> m] = {"members"}
         /\ DOMAIN [systems |-> s] = {"systems"}
         /\ DOMAIN [members |-> m, systems |-> s] = {"members", "systems"}
BY DEF With

LEMMA TakeSnapshotInv ==
  ASSUME KeeperInv, TakeSnapshot
  PROVE  KeeperInv'
<1> USE DEF KeeperInv
<1>1. /\ UNCHANGED <<nodes, systems, change, changes, seen, events, service>>
      /\ keeper = "snapshot"
      /\ keeper' = IF DOMAIN snapshot = {} THEN "snapshot" ELSE "generate"
      /\ lost' = (lost /\ DOMAIN snapshot # {})
      /\ \/ /\ "members" \notin DOMAIN snapshot
            /\ snapshot' = With(snapshot, "members", nodes)
         \/ /\ "systems" \notin DOMAIN snapshot
            /\ snapshot' = With(snapshot, "systems", systems)
  BY DEF TakeSnapshot, membershipVars
<1>2. MembershipTypes' /\ KeeperTypes'
  BY <1>1 DEF MembershipTypes, KeeperTypes, Step
<1>3. EventsInv' /\ ServiceInv' /\ SeenInv'
  BY <1>1 DEF EventsInv, ServiceInv, PutUp, Pending, Held, Headed, SeenInv
<1>4. nodes \in SUBSET Node /\ systems \in [Node -> BOOLEAN]
  BY DEF MembershipTypes
<1>5. CASE snapshot = <<>>
  <2>1. keeper' = "snapshot"
    BY <1>1, <1>5, SnapshotMerges
  <2>2. snapshot' = [members |-> nodes] \/ snapshot' = [systems |-> systems]
    BY <1>1, <1>5, SnapshotMerges
  <2>3. SnapshotInv'
    BY <1>1, <1>4, <2>1, <2>2 DEF SnapshotInv, Current
  <2>4. QED
    BY <1>2, <1>3, <2>3
<1>6. ASSUME NEW m \in SUBSET Node, snapshot = [members |-> m], Current(m = nodes)
      PROVE  KeeperInv'
  <2>1. snapshot' = [members |-> m, systems |-> systems]
    BY <1>1, <1>6, SnapshotMerges
  <2>2. keeper' = "generate" /\ lost' = lost
    BY <1>1, <1>6, SnapshotMerges DEF KeeperTypes
  <2>3. SnapshotInv'
    BY <1>1, <1>4, <1>6, <2>1, <2>2 DEF SnapshotInv, Current
  <2>4. QED
    BY <1>2, <1>3, <2>3
<1>7. ASSUME NEW s \in [Node -> BOOLEAN], snapshot = [systems |-> s], Current(s = systems)
      PROVE  KeeperInv'
  <2>1. snapshot' = [members |-> nodes, systems |-> s]
    BY <1>1, <1>7, SnapshotMerges
  <2>2. keeper' = "generate" /\ lost' = lost
    BY <1>1, <1>7, SnapshotMerges DEF KeeperTypes
  <2>3. SnapshotInv'
    BY <1>1, <1>4, <1>7, <2>1, <2>2 DEF SnapshotInv, Current
  <2>4. QED
    BY <1>2, <1>3, <2>3
<1>8. QED
  BY <1>1, <1>5, <1>6, <1>7 DEF SnapshotInv

\* The events of a round are those by which the generator changes its mind.
Changed == {n \in Node : snapshot.systems[n] # seen.systems[n]}

RoundEvents ==
    (({Event("memberUp", n) : n \in snapshot.members \ seen.members}
      \cup {Event("memberDown", n) : n \in seen.members \ snapshot.members})
     \cup {Event("systemUp", n) : n \in {m \in Changed : snapshot.systems[m]}})
    \cup {Event("systemDown", n) : n \in Changed \ {m \in Changed : snapshot.systems[m]}}

LEMMA Kinds ==
  /\ Kind("memberUp") = "member" /\ Kind("memberDown") = "member"
  /\ Kind("systemUp") = "system" /\ Kind("systemDown") = "system"
  /\ Up("memberUp") /\ Up("systemUp") /\ ~Up("memberDown") /\ ~Up("systemDown")
  /\ \A t \in Type : Kind(t) \in {"member", "system"}
  /\ \A t, u \in Type : Kind(t) = Kind(u) /\ (Up(t) <=> Up(u)) => t = u
BY DEF Kind, Up, Type

LEMMA GenerateEvents ==
  ASSUME KeeperTypes, Generate,
         snapshot \in [members : SUBSET Node, systems : [Node -> BOOLEAN]]
  PROVE  /\ events' \in Seq(AnEvent)
         /\ \A i \in DOMAIN events' : events'[i] \in RoundEvents
         /\ \A e \in RoundEvents : \E i \in DOMAIN events' : events'[i] = e
         /\ \A i, j \in DOMAIN events' : i # j => events'[i] # events'[j]
<1> DEFINE up == {n \in Changed : snapshot.systems[n]}
           q1 == Events("memberUp", snapshot.members \ seen.members)
           q2 == Events("memberDown", seen.members \ snapshot.members)
           q3 == Events("systemUp", up)
           q4 == Events("systemDown", Changed \ up)
           E1 == {Event("memberUp", n) : n \in snapshot.members \ seen.members}
           E2 == {Event("memberDown", n) : n \in seen.members \ snapshot.members}
           E3 == {Event("systemUp", n) : n \in up}
           E4 == {Event("systemDown", n) : n \in Changed \ up}
<1>1. /\ snapshot.members \ seen.members \in SUBSET Node
      /\ seen.members \ snapshot.members \in SUBSET Node
      /\ up \in SUBSET Node /\ Changed \ up \in SUBSET Node
  BY DEF KeeperTypes, Changed
<1>2. Enumerates(q1, E1) /\ Enumerates(q2, E2) /\ Enumerates(q3, E3) /\ Enumerates(q4, E4)
  BY <1>1, EventsEnumerate
<1>3. /\ \A e \in E1 : e.type = "memberUp"
      /\ \A e \in E2 : e.type = "memberDown"
      /\ \A e \in E3 : e.type = "systemUp"
      /\ \A e \in E4 : e.type = "systemDown"
  BY DEF Event
<1>4. /\ E1 \cap E2 = {} /\ (E1 \cup E2) \cap E3 = {}
      /\ ((E1 \cup E2) \cup E3) \cap E4 = {}
  BY <1>3
<1>5. events' = ((q1 \o q2) \o q3) \o q4
  BY DEF Generate, Changed
<1>6. RoundEvents = ((E1 \cup E2) \cup E3) \cup E4
  BY DEF RoundEvents
<1>7. \A e \in RoundEvents : e \in AnEvent
  BY <1>1, <1>6 DEF AnEvent, Event, Type
<1> HIDE DEF up, q1, q2, q3, q4, E1, E2, E3, E4
<1>8. Enumerates(q1 \o q2, E1 \cup E2)
  BY <1>2, <1>4, ConcatEnumerates
<1>9. Enumerates((q1 \o q2) \o q3, (E1 \cup E2) \cup E3)
  BY <1>2, <1>4, <1>8, ConcatEnumerates
<1>10. Enumerates(events', RoundEvents)
  BY <1>2, <1>4, <1>5, <1>6, <1>9, ConcatEnumerates
<1>11. events' \in Seq(RoundEvents) /\ events' \in Seq(AnEvent)
  BY <1>7, <1>10, SeqMonotonic DEF Enumerates
<1>12. \A i \in DOMAIN events' : events'[i] \in RoundEvents
  BY <1>11, ElementOfSeq, LenProperties
<1>13. QED
  BY <1>10, <1>11, <1>12 DEF Enumerates

\* What an event of the round tells is what the snapshots say and what the
\* generator did not hold, and there is one for every such difference.
LEMMA RoundEventsTell ==
  ASSUME KeeperTypes,
         snapshot \in [members : SUBSET Node, systems : [Node -> BOOLEAN]],
         seen' = snapshot
  PROVE  /\ \A e \in RoundEvents :
               /\ Kind(e.type) \in {"member", "system"} /\ e.member \in Node
               /\ Up(e.type) <=> Held(e.member, Kind(e.type))'
               /\ ~(Up(e.type) <=> Held(e.member, Kind(e.type)))
         /\ \A n \in Node, k \in {"member", "system"} :
               ~(Held(n, k)' <=> Held(n, k)) => \E e \in RoundEvents : Concerns(e, n, k)
         /\ \A e, f \in RoundEvents : Concerns(e, f.member, Kind(f.type)) => e = f
<1>1. ASSUME NEW e \in RoundEvents
      PROVE  /\ e = Event(e.type, e.member) /\ e.member \in Node /\ e.type \in Type
             /\ e.type = "memberUp" => e.member \in snapshot.members \ seen.members
             /\ e.type = "memberDown" => e.member \in seen.members \ snapshot.members
             /\ e.type = "systemUp" => snapshot.systems[e.member] /\ ~seen.systems[e.member]
             /\ e.type = "systemDown" => ~snapshot.systems[e.member] /\ seen.systems[e.member]
  BY DEF RoundEvents, Event, Changed, KeeperTypes, Type
<1>2. ASSUME NEW e \in RoundEvents
      PROVE  /\ Kind(e.type) \in {"member", "system"} /\ e.member \in Node
             /\ Up(e.type) <=> Held(e.member, Kind(e.type))'
             /\ ~(Up(e.type) <=> Held(e.member, Kind(e.type)))
  <2>1. e.type \in {"memberUp", "memberDown", "systemUp", "systemDown"}
    BY <1>1 DEF Type
  <2>2. QED
    BY <1>1, <2>1, Kinds DEF Held
<1>3. ASSUME NEW n \in Node, NEW k \in {"member", "system"}, ~(Held(n, k)' <=> Held(n, k))
      PROVE  \E e \in RoundEvents : Concerns(e, n, k)
  <2>1. CASE k = "member"
    <3>1. \/ n \in snapshot.members \ seen.members
          \/ n \in seen.members \ snapshot.members
      BY <1>3, <2>1 DEF Held
    <3>2. Event("memberUp", n) \in RoundEvents \/ Event("memberDown", n) \in RoundEvents
      BY <3>1 DEF RoundEvents
    <3>3. QED
      BY <2>1, <3>2, Kinds DEF Concerns, Event
  <2>2. CASE k = "system"
    <3>1. n \in Changed
      BY <1>3, <2>2 DEF Held, Changed
    <3>2. Event("systemUp", n) \in RoundEvents \/ Event("systemDown", n) \in RoundEvents
      BY <3>1 DEF RoundEvents
    <3>3. QED
      BY <2>2, <3>2, Kinds DEF Concerns, Event
  <2>3. QED
    BY <2>1, <2>2
<1>4. ASSUME NEW e \in RoundEvents, NEW f \in RoundEvents, Concerns(e, f.member, Kind(f.type))
      PROVE  e = f
  <2>1. e.member = f.member /\ Kind(e.type) = Kind(f.type)
    BY <1>4 DEF Concerns
  <2>2. Up(e.type) <=> Up(f.type)
    BY <1>2, <2>1
  <2>3. e.type = f.type
    BY <1>1, <2>1, <2>2, Kinds
  <2>4. QED
    BY <1>1, <2>1, <2>3
<1>5. QED
  BY <1>2, <1>3, <1>4

LEMMA GenerateInv ==
  ASSUME KeeperInv, Generate
  PROVE  /\ KeeperInv'
         /\ \A n \in Node, k \in {"member", "system"} : PutUp(n, k)' <=> PutUp(n, k)
<1> USE DEF KeeperInv
<1>1. /\ UNCHANGED membershipVars /\ UNCHANGED <<service, lost>>
      /\ keeper = "generate" /\ keeper' = "insert"
      /\ seen' = snapshot /\ snapshot' = <<>>
  BY DEF Generate
<1>2. PICK m \in SUBSET Node, s \in [Node -> BOOLEAN] :
         snapshot = [members |-> m, systems |-> s] /\ Current(m = nodes /\ s = systems)
  BY <1>1 DEF SnapshotInv
<1>3. snapshot \in [members : SUBSET Node, systems : [Node -> BOOLEAN]]
  BY <1>2
<1>4. /\ events' \in Seq(AnEvent)
      /\ \A i \in DOMAIN events' : events'[i] \in RoundEvents
      /\ \A e \in RoundEvents : \E i \in DOMAIN events' : events'[i] = e
      /\ \A i, j \in DOMAIN events' : i # j => events'[i] # events'[j]
  BY <1>3, GenerateEvents
<1>5. MembershipTypes' /\ KeeperTypes'
  BY <1>1, <1>3, <1>4 DEF MembershipTypes, KeeperTypes, membershipVars, Step
<1>6. SnapshotInv' /\ SeenInv'
  BY <1>1, <1>2 DEF SnapshotInv, SeenInv, Current, membershipVars
<1>7. EventsInv'
  <2>1. (\A i \in DOMAIN events :
           Up(events[i].type) <=> Held(events[i].member, Kind(events[i].type)))'
    BY <1>1, <1>3, <1>4, RoundEventsTell DEF Held
  <2>2. \A i, j \in DOMAIN events' :
           i # j => ~Concerns(events'[i], events'[j].member, Kind(events'[j].type))
    BY <1>1, <1>3, <1>4, RoundEventsTell
  <2>3. QED
    BY <1>1, <2>1, <2>2 DEF EventsInv
<1>8. ASSUME NEW n \in Node, NEW k \in {"member", "system"}
      PROVE  /\ Pending(n, k)' <=> ~(Held(n, k)' <=> Held(n, k))
             /\ ~Pending(n, k)
  <2>1. events = <<>>
    BY <1>1 DEF EventsInv
  <2>2. ~Pending(n, k)
    BY <2>1 DEF Pending
  <2>3. ASSUME NEW i \in DOMAIN events', Concerns(events'[i], n, k)
        PROVE  ~(Held(n, k)' <=> Held(n, k))
    <3>1. events'[i] \in RoundEvents /\ events'[i].member = n /\ Kind(events'[i].type) = k
      BY <1>4, <2>3 DEF Concerns
    <3>2. QED
      BY <1>1, <1>3, <3>1, RoundEventsTell
  <2>4. ASSUME ~(Held(n, k)' <=> Held(n, k))
        PROVE  \E i \in DOMAIN events' : Concerns(events'[i], n, k)
    BY <1>1, <1>3, <1>4, <2>4, RoundEventsTell
  <2>5. QED
    BY <2>2, <2>3, <2>4 DEF Pending
<1>9. ASSUME NEW n \in Node, NEW k \in {"member", "system"}
      PROVE  PutUp(n, k)' <=> PutUp(n, k)
  BY <1>8 DEF PutUp
<1>10. ServiceInv'
  BY <1>1, <1>9 DEF ServiceInv, Headed
<1>11. QED
  BY <1>5, <1>6, <1>7, <1>9, <1>10

LEMMA HeadEvent ==
  ASSUME KeeperInv, events # <<>>
  PROVE  /\ Head(events) \in AnEvent /\ Head(events) = events[1] /\ 1 \in DOMAIN events
         /\ Head(events).member \in Node
         /\ Kind(Head(events).type) \in {"member", "system"}
         /\ Up(Head(events).type) <=> Held(Head(events).member, Kind(Head(events).type))
         /\ Up(Head(events).type) <=> ~PutUp(Head(events).member, Kind(Head(events).type))
<1>1. events \in Seq(AnEvent)
  BY DEF KeeperInv, KeeperTypes
<1>2. Head(events) \in AnEvent /\ Head(events) = events[1] /\ 1 \in DOMAIN events
  BY <1>1, HeadTailProperties, EmptySeq, LenProperties
<1>3. Up(Head(events).type) <=> Held(Head(events).member, Kind(Head(events).type))
  BY <1>2 DEF KeeperInv, EventsInv
<1>4. Pending(Head(events).member, Kind(Head(events).type))
  BY <1>2 DEF Pending, Concerns
<1>5. QED
  BY <1>2, <1>3, <1>4, Kinds DEF PutUp, AnEvent

LEMMA NotifyInsertInv ==
  ASSUME KeeperInv, NotifyInsert
  PROVE  KeeperInv'
<1> DEFINE e == Head(events)
<1>1. /\ UNCHANGED membershipVars /\ UNCHANGED <<snapshot, seen, events, lost>>
      /\ keeper = "insert" /\ keeper' = "put" /\ events # <<>>
      /\ service' = CASE e.type = "memberUp"   -> service \cup {e.member}
                      [] e.type = "memberDown" -> service \ {e.member}
                      [] OTHER                 -> service
  BY DEF NotifyInsert
<1>2. /\ e \in AnEvent /\ e.member \in Node /\ e.type \in Type
      /\ Up(e.type) <=> ~PutUp(e.member, Kind(e.type))
  BY <1>1, HeadEvent DEF AnEvent
<1>3. e.type \in {"memberUp", "memberDown", "systemUp", "systemDown"}
  BY <1>2 DEF Type
<1> HIDE DEF e
<1> USE DEF KeeperInv
<1>4. MembershipTypes'
  BY <1>1 DEF MembershipTypes, membershipVars
<1>5. KeeperTypes'
  BY <1>1, <1>2, <1>3 DEF KeeperTypes, Step
<1>6. SnapshotInv' /\ SeenInv'
  BY <1>1 DEF SnapshotInv, SeenInv, Current, membershipVars
<1>7. EventsInv'
  BY <1>1 DEF EventsInv, Held
<1>8. ASSUME NEW n \in Node
      PROVE  n \in service' <=> ~(PutUp(n, "member")' <=> Headed(n)')
  <2>1. PutUp(n, "member")' <=> PutUp(n, "member")
    BY <1>1 DEF PutUp, Held, Pending
  <2>2. n \in service <=> PutUp(n, "member")
    BY <1>1 DEF ServiceInv, Headed
  <2>3. Headed(n)' <=> Concerns(e, n, "member")
    BY <1>1 DEF Headed, e
  <2>4. CASE Concerns(e, n, "member")
    <3>1. e.member = n /\ Kind(e.type) = "member"
      BY <2>4 DEF Concerns
    <3>2. e.type \in {"memberUp", "memberDown"}
      BY <3>1, <1>3, Kinds
    <3>3. n \in service' <=> Up(e.type)
      BY <3>1, <3>2, <1>1, Kinds
    <3>4. QED
      BY <1>2, <2>1, <2>3, <2>4, <3>1, <3>3
  <2>5. CASE ~Concerns(e, n, "member")
    <3>1. n \in service' <=> n \in service
      BY <2>5, <1>1, <1>3, Kinds DEF Concerns
    <3>2. QED
      BY <2>1, <2>2, <2>3, <2>5, <3>1
  <2>6. QED
    BY <2>4, <2>5
<1>9. ServiceInv'
  BY <1>8 DEF ServiceInv
<1>10. QED
  BY <1>4, <1>5, <1>6, <1>7, <1>9

\* The event that is put is no longer pending, and what it says is put.
LEMMA NotifyPutTells ==
  ASSUME KeeperInv, NotifyPut
  PROVE  /\ events # <<>> /\ events' = Tail(events) /\ events' \in Seq(AnEvent)
         /\ \A i \in DOMAIN events' : i + 1 \in DOMAIN events /\ events'[i] = events[i + 1]
         /\ \A n, k : Held(n, k)' = Held(n, k)
         /\ \A n \in Node, k \in {"member", "system"} :
               /\ Pending(n, k)' <=> Pending(n, k) /\ ~Concerns(Head(events), n, k)
               /\ Concerns(Head(events), n, k) =>
                     /\ PutUp(n, k)' <=> Up(Head(events).type)
                     /\ ~(PutUp(n, k)' <=> PutUp(n, k))
               /\ ~Concerns(Head(events), n, k) => (PutUp(n, k)' <=> PutUp(n, k))
<1>1. keeper = "put" /\ events' = Tail(events) /\ seen' = seen
  BY DEF NotifyPut
<1>2. events # <<>> /\ events \in Seq(AnEvent)
  BY <1>1 DEF KeeperInv, EventsInv, KeeperTypes
<1>3. /\ events' \in Seq(AnEvent) /\ Len(events') = Len(events) - 1
      /\ \A i \in 1 .. Len(events') : events'[i] = events[i + 1]
      /\ Len(events) \in Nat \ {0} /\ DOMAIN events = 1 .. Len(events)
      /\ DOMAIN events' = 1 .. Len(events')
  BY <1>1, <1>2, HeadTailProperties, EmptySeq, LenProperties
<1>4. \A i \in DOMAIN events' : i + 1 \in DOMAIN events /\ events'[i] = events[i + 1]
  BY <1>3
<1>5. \A n, k : Held(n, k)' = Held(n, k)
  BY <1>1 DEF Held
<1>6. Head(events) = events[1] /\ 1 \in DOMAIN events
  BY <1>2, HeadEvent
<1>7. ASSUME NEW n \in Node, NEW k \in {"member", "system"}
      PROVE  Pending(n, k)' <=> Pending(n, k) /\ ~Concerns(Head(events), n, k)
  <2>1. ASSUME NEW i \in DOMAIN events', Concerns(events'[i], n, k)
        PROVE  Pending(n, k) /\ ~Concerns(Head(events), n, k)
    <3>1. i + 1 \in DOMAIN events /\ i + 1 # 1 /\ Concerns(events[i + 1], n, k)
      BY <2>1, <1>3, <1>4
    <3>2. ~Concerns(events[1], events[i + 1].member, Kind(events[i + 1].type))
      BY <3>1, <1>6 DEF KeeperInv, EventsInv
    <3>3. QED
      BY <3>1, <3>2, <1>6 DEF Pending, Concerns
  <2>2. ASSUME NEW j \in DOMAIN events, Concerns(events[j], n, k),
               ~Concerns(Head(events), n, k)
        PROVE  \E i \in DOMAIN events' : Concerns(events'[i], n, k)
    <3>1. j # 1
      BY <2>2, <1>6
    <3>2. j - 1 \in DOMAIN events' /\ (j - 1) + 1 = j
      BY <3>1, <1>3
    <3>3. QED
      BY <2>2, <3>2, <1>4
  <2>3. QED
    BY <2>1, <2>2 DEF Pending
<1>8. ASSUME NEW n \in Node, NEW k \in {"member", "system"}
      PROVE  /\ Concerns(Head(events), n, k) =>
                   /\ PutUp(n, k)' <=> Up(Head(events).type)
                   /\ ~(PutUp(n, k)' <=> PutUp(n, k))
             /\ ~Concerns(Head(events), n, k) => (PutUp(n, k)' <=> PutUp(n, k))
  <2>1. CASE Concerns(Head(events), n, k)
    <3>1. Head(events).member = n /\ Kind(Head(events).type) = k
      BY <2>1 DEF Concerns
    <3>2. /\ Up(Head(events).type) <=> Held(n, k)
          /\ Up(Head(events).type) <=> ~PutUp(n, k)
      BY <3>1, <1>2, HeadEvent
    <3>3. PutUp(n, k)' <=> Held(n, k)
      BY <1>5, <1>7, <2>1 DEF PutUp
    <3>4. QED
      BY <2>1, <3>2, <3>3
  <2>2. CASE ~Concerns(Head(events), n, k)
    <3>1. Pending(n, k)' <=> Pending(n, k)
      BY <1>7, <2>2
    <3>2. QED
      BY <2>2, <3>1, <1>5 DEF PutUp
  <2>3. QED
    BY <2>1, <2>2
<1>9. QED
  BY <1>1, <1>2, <1>3, <1>4, <1>5, <1>7, <1>8

LEMMA NotifyPutInv ==
  ASSUME KeeperInv, NotifyPut
  PROVE  KeeperInv'
<1>1. /\ UNCHANGED membershipVars /\ UNCHANGED <<snapshot, seen, service, lost>>
      /\ keeper = "put" /\ keeper' = "insert" /\ events' = Tail(events)
  BY DEF NotifyPut
<1>2. /\ events # <<>> /\ events' \in Seq(AnEvent)
      /\ \A i \in DOMAIN events' : i + 1 \in DOMAIN events /\ events'[i] = events[i + 1]
  BY NotifyPutTells
<1> USE DEF KeeperInv
<1>3. MembershipTypes' /\ KeeperTypes'
  BY <1>1, <1>2 DEF MembershipTypes, membershipVars, KeeperTypes, Step
<1>4. SnapshotInv' /\ SeenInv'
  BY <1>1 DEF SnapshotInv, SeenInv, Current, membershipVars
<1>5. EventsInv'
  <2>1. (\A i \in DOMAIN events :
           Up(events[i].type) <=> Held(events[i].member, Kind(events[i].type)))'
    BY <1>1, <1>2 DEF EventsInv, Held
  <2>2. \A i, j \in DOMAIN events' : i # j => i + 1 # j + 1
    BY <1>2, LenProperties
  <2>3. \A i, j \in DOMAIN events' :
           i # j => ~Concerns(events'[i], events'[j].member, Kind(events'[j].type))
    BY <1>2, <2>2 DEF EventsInv
  <2>4. QED
    BY <1>1, <2>1, <2>3 DEF EventsInv
<1>6. ASSUME NEW n \in Node
      PROVE  n \in service' <=> ~(PutUp(n, "member")' <=> Headed(n)')
  <2>1. Headed(n) <=> Concerns(Head(events), n, "member")
    BY <1>1 DEF Headed
  <2>2. ~Headed(n)'
    BY <1>1 DEF Headed
  <2>3. n \in service <=> ~(PutUp(n, "member") <=> Headed(n))
    BY DEF ServiceInv
  <2>4. PutUp(n, "member")' <=> ~(PutUp(n, "member") <=> Concerns(Head(events), n, "member"))
    BY NotifyPutTells
  <2>5. QED
    BY <1>1, <2>1, <2>2, <2>3, <2>4
<1>7. ServiceInv'
  BY <1>6 DEF ServiceInv
<1>8. QED
  BY <1>3, <1>4, <1>5, <1>7

LEMMA KeeperSleepsInv ==
  ASSUME KeeperInv, KeeperWaits \/ SpuriousWakeup
  PROVE  KeeperInv'
<1>1. /\ UNCHANGED membershipVars /\ UNCHANGED <<snapshot, seen, events, service, lost>>
      /\ \/ keeper = "insert" /\ events = <<>> /\ keeper' = "wait"
         \/ keeper = "wait" /\ keeper' = "snapshot"
  BY DEF KeeperWaits, SpuriousWakeup
<1> USE DEF KeeperInv
<1>2. MembershipTypes' /\ KeeperTypes'
  BY <1>1 DEF MembershipTypes, membershipVars, KeeperTypes, Step
<1>3. SnapshotInv' /\ SeenInv'
  BY <1>1 DEF SnapshotInv, SeenInv, Current, membershipVars
<1>4. EventsInv' /\ ServiceInv'
  BY <1>1 DEF EventsInv, ServiceInv, PutUp, Pending, Held, Headed
<1>5. QED
  BY <1>2, <1>3, <1>4

LEMMA KeeperUnchangedInv ==
  ASSUME KeeperInv, UNCHANGED membershipVars, UNCHANGED keeperVars
  PROVE  KeeperInv'
BY SameKeeper DEF KeeperInv, MembershipTypes, KeeperTypes, SnapshotInv, SeenInv, Current,
   membershipVars, keeperVars

-----------------------------------------------------------------------------
(* The application and its channel.                                        *)

LEMMA ClientInitInv == NotificationInit => ClientInv
<1> SUFFICES ASSUME NotificationInit PROVE ClientInv
  OBVIOUS
<1>1. DOMAIN channels = {}
  BY DEF NotificationInit
<1>2. ClientTypes
  BY <1>1 DEF NotificationInit, ClientTypes, Stage
<1>3. StageInv
  BY <1>1 DEF NotificationInit, StageInv
<1>4. ToldInv /\ HeardInv /\ EventsAlternate /\ ListInv
  BY <1>1 DEF ToldInv, HeardInv, EventsAlternate, ListInv
<1>5. FetchInv
  BY DEF NotificationInit, FetchInv, Fetching
<1>6. QED
  BY <1>2, <1>3, <1>4, <1>5 DEF ClientInv

\* What a step does that leaves the channels and what was put to them alone.
LEMMA SameForClients ==
  ASSUME ClientInv, UNCHANGED <<channels, clientVars, service>>,
         \A n \in Node : Headed(n)' <=> Headed(n),
         \A n \in Node, k \in {"member", "system"} : PutUp(n, k)' <=> PutUp(n, k)
  PROVE  ClientInv'
<1>1. UNCHANGED <<channels, client, listed, lastEvent, unseen, fresh, service>>
  BY DEF clientVars
<1>2. ClientTypes' /\ StageInv' /\ EventsAlternate'
  BY <1>1 DEF ClientTypes, StageInv, EventsAlternate, About, ClientInv
<1>3. \A r, n, k : About(r, n, k)' = About(r, n, k)
  BY <1>1 DEF About
<1>4. ToldInv' /\ HeardInv'
  BY <1>1, <1>3 DEF ToldInv, HeardInv, ClientInv
<1>5. FetchInv'
  BY <1>1 DEF FetchInv, Fetching, ClientInv
<1>6. ListInv'
  BY <1>1, <1>3 DEF ListInv, ClientInv
<1>7. QED
  BY <1>2, <1>4, <1>5, <1>6 DEF ClientInv

\* The steps of the membership, and those of the keeper that put nothing.
LEMMA MembershipStepClientInv ==
  ASSUME KeeperInv, ClientInv,
         MembershipStep \/ TakeSnapshot \/ Generate \/ KeeperWaits \/ SpuriousWakeup
  PROVE  ClientInv'
<1>1. UNCHANGED <<channels, clientVars, service>>
  BY DEF MembershipStep, MembersChange, SystemsChange, SubscriberUpdate, TakeSnapshot,
     Generate, KeeperWaits, SpuriousWakeup, keeperVars
<1>2. \A n \in Node : Headed(n)' <=> Headed(n)
  BY DEF MembershipStep, MembersChange, SystemsChange, SubscriberUpdate, TakeSnapshot,
     Generate, KeeperWaits, SpuriousWakeup, keeperVars, Headed
<1>3. \A n \in Node, k \in {"member", "system"} : PutUp(n, k)' <=> PutUp(n, k)
  <2>1. CASE Generate
    BY <2>1, GenerateInv
  <2>2. CASE ~Generate
    BY <2>2 DEF MembershipStep, MembersChange, SystemsChange, SubscriberUpdate,
       TakeSnapshot, KeeperWaits, SpuriousWakeup, keeperVars, PutUp, Held, Pending
  <2>3. QED
    BY <2>1, <2>2
<1>4. QED
  BY <1>1, <1>2, <1>3, SameForClients

LEMMA NotifyInsertClientInv ==
  ASSUME KeeperInv, ClientInv, NotifyInsert
  PROVE  ClientInv'
<1> DEFINE e == Head(events)
<1>1. /\ UNCHANGED <<channels, client, listed, lastEvent, unseen, events, seen>>
      /\ keeper = "insert" /\ keeper' = "put" /\ events # <<>>
      /\ fresh' = [r \in Run |-> IF Fetching(r) /\ Kind(e.type) = "member"
                                 THEN fresh[r] \cup {e.member} ELSE fresh[r]]
  BY DEF NotifyInsert
<1>a. service' = CASE e.type = "memberUp"   -> service \cup {e.member}
                   [] e.type = "memberDown" -> service \ {e.member}
                   [] OTHER                 -> service
  BY DEF NotifyInsert
<1>2. e.type \in Type /\ e.member \in Node
  BY <1>1, HeadEvent DEF AnEvent
<1>3. e.type \in {"memberUp", "memberDown", "systemUp", "systemDown"}
  BY <1>2 DEF Type
<1>4. \A n : Headed(n)' <=> Concerns(e, n, "member")
  BY <1>1 DEF Headed
<1> HIDE DEF e
<1>5. \A r, n, k : (About(r, n, k)' = About(r, n, k)) /\ (PutUp(n, k)' <=> PutUp(n, k))
  BY <1>1 DEF About, PutUp, Held, Pending
<1>6. ClientTypes'
  BY <1>1, <1>2 DEF ClientTypes, ClientInv
<1>7. StageInv' /\ EventsAlternate'
  BY <1>1, <1>2 DEF StageInv, EventsAlternate, About, Fetching, ClientTypes, ClientInv
<1>8. ToldInv' /\ HeardInv'
  BY <1>1, <1>5 DEF ToldInv, HeardInv, ClientInv
<1>9. FetchInv'
  <2> SUFFICES ASSUME NEW r \in Run, NEW n \in Node, Fetching(r), n \notin unseen[r]
               PROVE  \/ Headed(n)' /\ n \in fresh'[r]
                      \/ listed[r][n] > 0 <=> n \in service'
    BY <1>1 DEF FetchInv, Fetching
  <2>1. CASE Concerns(e, n, "member")
    BY <2>1, <1>1, <1>4 DEF Concerns
  <2>2. CASE ~Concerns(e, n, "member")
    <3>1. n \in service' <=> n \in service
      BY <2>2, <1>a, <1>3, Kinds DEF Concerns
    <3>2. ~Headed(n)
      BY <1>1 DEF Headed
    <3>3. QED
      BY <3>1, <3>2 DEF FetchInv, ClientInv
  <2>3. QED
    BY <2>1, <2>2
<1>10. ListInv'
  BY <1>1, <1>5 DEF ListInv, Headed, ClientInv
<1>11. QED
  BY <1>6, <1>7, <1>8, <1>9, <1>10 DEF ClientInv

\* An event at the end of a channel.
LEMMA AppendedQueue ==
  ASSUME ClientInv, NEW e \in AnEvent, NEW r \in DOMAIN channels,
         channels'[r] = Append(channels[r], e)
  PROVE  LET last == Len(channels[r]) + 1
         IN  /\ channels'[r] \in Seq(AnEvent)
             /\ channels'[r][last] = e /\ last \in Nat
             /\ \A j \in DOMAIN channels[r] : j \in 1 .. last - 1 /\ channels'[r][j] = channels[r][j]
             /\ \A n, k : About(r, n, k)' =
                   IF Concerns(e, n, k) THEN About(r, n, k) \cup {last} ELSE About(r, n, k)
<1> DEFINE q == channels[r]
           last == Len(q) + 1
<1>1. q \in Seq(AnEvent)
  BY DEF ClientInv, ClientTypes
<1>2. Len(q) \in Nat /\ DOMAIN q = 1 .. Len(q)
  BY <1>1, LenProperties
<1>3. /\ Append(q, e) \in Seq(AnEvent) /\ DOMAIN Append(q, e) = 1 .. last
      /\ Append(q, e)[last] = e /\ \A j \in 1 .. Len(q) : Append(q, e)[j] = q[j]
  BY <1>1, <1>2
<1>4. ASSUME NEW n, NEW k
      PROVE  About(r, n, k)' =
                   IF Concerns(e, n, k) THEN About(r, n, k) \cup {last} ELSE About(r, n, k)
  <2>1. 1 .. last = (1 .. Len(q)) \cup {last}
    BY <1>2
  <2> HIDE DEF last, q
  <2>2. DOMAIN channels'[r] = (DOMAIN channels[r]) \cup {last}
    BY <1>2, <1>3, <2>1 DEF q
  <2>3. QED
    BY <1>2, <1>3, <2>2 DEF About, q
<1>5. QED
  BY <1>2, <1>3, <1>4

LEMMA NotifyPutClientInv ==
  ASSUME KeeperInv, ClientInv, NotifyPut
  PROVE  ClientInv'
<1> DEFINE e == Head(events)
<1>1. /\ UNCHANGED <<service, client, listed, lastEvent, fresh>>
      /\ keeper = "put" /\ keeper' = "insert"
      /\ channels' = [r \in DOMAIN channels |-> Append(channels[r], e)]
      /\ unseen' = [r \in Run |->
                 IF Kind(e.type) # "member" THEN unseen[r]
                 ELSE IF r \in DOMAIN channels THEN unseen[r] \ {e.member}
                 ELSE IF e.member \in fresh[r] THEN unseen[r] \cup {e.member}
                 ELSE unseen[r]]
  BY DEF NotifyPut
<1>2. /\ e \in AnEvent /\ e.member \in Node /\ e.type \in Type
      /\ Up(e.type) <=> ~PutUp(e.member, Kind(e.type))
  BY HeadEvent, NotifyPutTells DEF AnEvent
<1>3. \A n \in Node, k \in {"member", "system"} :
         /\ Concerns(e, n, k) => /\ Kind(e.type) = k
                                 /\ Up(e.type) <=> PutUp(n, k)'
                                 /\ ~(Up(e.type) <=> PutUp(n, k))
         /\ ~Concerns(e, n, k) => (PutUp(n, k)' <=> PutUp(n, k))
  BY NotifyPutTells DEF Concerns
<1>4. \A n : (Headed(n) <=> Concerns(e, n, "member")) /\ ~Headed(n)'
  BY <1>1 DEF Headed
<1> HIDE DEF e
<1>5. DOMAIN channels' = DOMAIN channels
      /\ \A r \in DOMAIN channels : channels'[r] = Append(channels[r], e)
  BY <1>1
<1>b. DOMAIN channels' = DOMAIN channels /\ client' = client /\ lastEvent' = lastEvent
  BY <1>1
<1>6. ASSUME NEW r \in DOMAIN channels
      PROVE  LET last == Len(channels[r]) + 1
             IN  /\ channels'[r] \in Seq(AnEvent)
                 /\ channels'[r][last] = e /\ last \in Nat
                 /\ \A j \in DOMAIN channels[r] :
                       j \in 1 .. last - 1 /\ channels'[r][j] = channels[r][j]
                 /\ \A n, k : About(r, n, k)' =
                       IF Concerns(e, n, k) THEN About(r, n, k) \cup {last} ELSE About(r, n, k)
  BY <1>2, <1>5, AppendedQueue
<1>7. ClientTypes' /\ StageInv'
  BY <1>1, <1>2, <1>5, <1>6 DEF ClientTypes, StageInv, ClientInv
<1>8. ASSUME NEW r \in DOMAIN channels, NEW n \in Node, NEW k \in {"member", "system"},
             client[r] = "reading"
      PROVE  /\ \A j \in About(r, n, k)' :
                  (\A i \in About(r, n, k)' : i <= j)
                     => (Up(channels'[r][j].type) <=> PutUp(n, k)')
             /\ <<k, n>> \in DOMAIN lastEvent[r] =>
                  /\ lastEvent[r][<<k, n>>] \in Type
                  /\ Kind(lastEvent[r][<<k, n>>]) = k
                  /\ About(r, n, k)' = {} => (Up(lastEvent[r][<<k, n>>]) <=> PutUp(n, k)')
  <2> DEFINE last == Len(channels[r]) + 1
  <2>1. /\ channels'[r][last] = e /\ last \in Nat
        /\ \A j \in About(r, n, k) : j \in 1 .. last - 1 /\ channels'[r][j] = channels[r][j]
        /\ About(r, n, k)' =
              IF Concerns(e, n, k) THEN About(r, n, k) \cup {last} ELSE About(r, n, k)
    BY <1>6 DEF About
  <2>2. /\ \A j \in About(r, n, k) :
              (\A i \in About(r, n, k) : i <= j)
                 => (Up(channels[r][j].type) <=> PutUp(n, k))
        /\ <<k, n>> \in DOMAIN lastEvent[r] =>
              /\ lastEvent[r][<<k, n>>] \in Type
              /\ Kind(lastEvent[r][<<k, n>>]) = k
              /\ About(r, n, k) = {} => (Up(lastEvent[r][<<k, n>>]) <=> PutUp(n, k))
    BY <1>8 DEF ToldInv, HeardInv, ClientInv
  <2> HIDE DEF last
  <2>3. CASE Concerns(e, n, k)
    <3>1. About(r, n, k)' = About(r, n, k) \cup {last}
      BY <2>1, <2>3
    <3>2. \A j \in About(r, n, k) : ~(last <= j)
      BY <2>1
    <3>3. \A j \in About(r, n, k)' : (\A i \in About(r, n, k)' : i <= j) => j = last
      BY <3>1, <3>2
    <3>4. Up(channels'[r][last].type) <=> PutUp(n, k)'
      BY <1>3, <2>1, <2>3
    <3>5. QED
      BY <2>2, <3>1, <3>3, <3>4
  <2>4. CASE ~Concerns(e, n, k)
    BY <1>3, <2>1, <2>2, <2>4
  <2>5. QED
    BY <2>3, <2>4
<1>9. ToldInv' /\ HeardInv'
  BY <1>b, <1>8 DEF ToldInv, HeardInv
<1>10. ASSUME NEW r \in DOMAIN channels, NEW n \in Node, NEW k \in {"member", "system"},
              client[r] = "reading", NEW j \in About(r, n, k)'
       PROVE  /\ \A i \in About(r, n, k)' :
                    i < j /\ About(r, n, k)' \cap (i + 1 .. j - 1) = {}
                       => channels'[r][i].type # channels'[r][j].type
              /\ About(r, n, k)' \cap (1 .. j - 1) = {} /\ <<k, n>> \in DOMAIN lastEvent[r]
                       => lastEvent[r][<<k, n>>] # channels'[r][j].type
  <2> DEFINE last == Len(channels[r]) + 1
  <2>0. \A i \in About(r, n, k) : i \in DOMAIN channels[r]
    BY DEF About
  <2>1. /\ channels'[r][last] = e /\ last \in Nat
        /\ \A i \in About(r, n, k) : i \in 1 .. last - 1 /\ channels'[r][i] = channels[r][i]
        /\ About(r, n, k)' =
              IF Concerns(e, n, k) THEN About(r, n, k) \cup {last} ELSE About(r, n, k)
    BY <1>6, <2>0
  <2>2. /\ \A i \in About(r, n, k) :
              (\A m \in About(r, n, k) : m <= i)
                 => (Up(channels[r][i].type) <=> PutUp(n, k))
        /\ <<k, n>> \in DOMAIN lastEvent[r] /\ About(r, n, k) = {}
              => (Up(lastEvent[r][<<k, n>>]) <=> PutUp(n, k))
    BY <1>10 DEF ToldInv, HeardInv, ClientInv
  <2> HIDE DEF last
  <2>3. CASE j \in About(r, n, k)
    <3>1. /\ \A i \in About(r, n, k) :
                i < j /\ About(r, n, k) \cap (i + 1 .. j - 1) = {}
                   => channels[r][i].type # channels[r][j].type
          /\ About(r, n, k) \cap (1 .. j - 1) = {} /\ <<k, n>> \in DOMAIN lastEvent[r]
                   => lastEvent[r][<<k, n>>] # channels[r][j].type
      BY <1>10, <2>3 DEF EventsAlternate, ClientInv
    <3>2. ~(last < j)
      BY <2>1, <2>3
    <3>3. \A i \in About(r, n, k)' : i < j => i \in About(r, n, k)
      BY <2>1, <3>2
    <3>4. About(r, n, k) \subseteq About(r, n, k)'
      BY <2>1
    <3>5. QED
      BY <2>1, <2>3, <3>1, <3>3, <3>4
  <2>4. CASE j \notin About(r, n, k)
    <3>1. Concerns(e, n, k) /\ j = last
      BY <2>1, <2>4, <1>10
    <3>2. channels'[r][j].type = e.type /\ ~(Up(e.type) <=> PutUp(n, k))
      BY <1>3, <2>1, <3>1
    <3>3. ASSUME NEW i \in About(r, n, k)', i < j, About(r, n, k)' \cap (i + 1 .. j - 1) = {}
          PROVE  channels'[r][i].type # e.type
      <4>1. i \in About(r, n, k)
        BY <2>1, <3>1, <3>3
      <4>2. \A m \in About(r, n, k) : m \in 1 .. j - 1 /\ m \in About(r, n, k)'
        BY <2>1, <3>1
      <4>3. \A m \in About(r, n, k) : m <= i
        BY <2>1, <3>1, <3>3, <4>1, <4>2
      <4>4. Up(channels[r][i].type) <=> PutUp(n, k)
        BY <2>2, <4>1, <4>3
      <4>5. QED
        BY <2>1, <3>2, <4>1, <4>4
    <3>4. ASSUME About(r, n, k)' \cap (1 .. j - 1) = {}, <<k, n>> \in DOMAIN lastEvent[r]
          PROVE  lastEvent[r][<<k, n>>] # e.type
      <4>1. About(r, n, k) = {}
        BY <2>1, <3>1, <3>4
      <4>2. QED
        BY <2>2, <3>2, <3>4, <4>1
    <3>5. QED
      BY <3>2, <3>3, <3>4
  <2>5. QED
    BY <2>3, <2>4
<1>11. EventsAlternate'
  <2>1. \A r \in DOMAIN channels, n \in Node, k \in {"member", "system"} :
           client[r] = "reading" =>
              \A i, j \in About(r, n, k)' :
                 i < j /\ About(r, n, k)' \cap (i + 1 .. j - 1) = {}
                    => channels'[r][i].type # channels'[r][j].type
    BY <1>10
  <2>2. \A r \in DOMAIN channels, n \in Node, k \in {"member", "system"} :
           client[r] = "reading" /\ <<k, n>> \in DOMAIN lastEvent[r] =>
              \A j \in About(r, n, k)' :
                 About(r, n, k)' \cap (1 .. j - 1) = {}
                    => lastEvent[r][<<k, n>>] # channels'[r][j].type
    BY <1>10
  <2>3. QED
    BY <1>b, <2>1, <2>2 DEF EventsAlternate
<1>12. FetchInv'
  <2> SUFFICES ASSUME NEW r \in Run, NEW n \in Node, Fetching(r), n \notin unseen'[r]
               PROVE  listed[r][n] > 0 <=> n \in service
    BY <1>1 DEF FetchInv, Fetching
  <2>1. r \notin DOMAIN channels
    BY DEF Fetching, StageInv, ClientInv
  <2>2. n \notin unseen[r]
    BY <1>1, <2>1
  <2>3. ~(Headed(n) /\ n \in fresh[r])
    BY <1>1, <1>4, <2>1 DEF Concerns
  <2>4. QED
    BY <2>2, <2>3 DEF FetchInv, ClientInv
<1>13. ListInv'
  <2> SUFFICES ASSUME NEW r \in DOMAIN channels, NEW n \in Node, client[r] = "reading",
                      n \notin unseen'[r], About(r, n, "member")' = {}
               PROVE  listed[r][n] > 0 <=> PutUp(n, "member")'
    BY <1>1, <1>5 DEF ListInv, ClientInv
  <2>1. ~Concerns(e, n, "member") /\ About(r, n, "member") = {}
    BY <1>6
  <2>2. n \notin unseen[r]
    BY <1>1, <2>1 DEF Concerns, ClientTypes, ClientInv
  <2>3. QED
    BY <1>3, <1>4, <2>1, <2>2 DEF ListInv, ClientInv
<1>14. QED
  BY <1>7, <1>9, <1>11, <1>12, <1>13 DEF ClientInv

LEMMA SamePuts ==
  ASSUME UNCHANGED keeperVars
  PROVE  /\ \A n, k : PutUp(n, k)' <=> PutUp(n, k)
         /\ \A n : Headed(n)' <=> Headed(n)
         /\ service' = service
BY DEF keeperVars, PutUp, Held, Pending, Headed

\* A run that does not read has nothing to be told of.
LEMMA NotReadingClientInv ==
  ASSUME ClientInv, NEW r \in Run, UNCHANGED keeperVars, UNCHANGED channels,
         client' = [client EXCEPT ![r] = client'[r]],
         client[r] = "reading" => client'[r] = "gone",
         client'[r] # "reading",
         \A x \in Run \ {r} : lastEvent'[x] = lastEvent[x]
  PROVE  ToldInv' /\ HeardInv' /\ EventsAlternate'
<1>1. \A x, n, k : About(x, n, k)' = About(x, n, k)
  BY DEF About
<1>2. \A n, k : PutUp(n, k)' <=> PutUp(n, k)
  BY SamePuts
<1>3. \A x \in DOMAIN channels : client'[x] = "reading" =>
         x \in Run \ {r} /\ client[x] = "reading" /\ lastEvent'[x] = lastEvent[x]
  BY DEF ClientInv, ClientTypes
<1>4. ToldInv'
  BY <1>1, <1>2, <1>3 DEF ToldInv, ClientInv
<1>5. HeardInv'
  <2> SUFFICES ASSUME NEW x \in DOMAIN channels, NEW n \in Node, NEW k \in {"member", "system"},
                      client'[x] = "reading", <<k, n>> \in DOMAIN lastEvent'[x]
               PROVE  /\ lastEvent'[x][<<k, n>>] \in Type
                      /\ Kind(lastEvent'[x][<<k, n>>]) = k
                      /\ About(x, n, k)' = {}
                            => (Up(lastEvent'[x][<<k, n>>]) <=> PutUp(n, k)')
    BY DEF HeardInv
  <2>1. client[x] = "reading" /\ lastEvent'[x] = lastEvent[x]
    BY <1>3
  <2>2. /\ lastEvent[x][<<k, n>>] \in Type
        /\ Kind(lastEvent[x][<<k, n>>]) = k
        /\ About(x, n, k) = {} => (Up(lastEvent[x][<<k, n>>]) <=> PutUp(n, k))
    BY <2>1 DEF HeardInv, ClientInv
  <2>3. QED
    BY <1>1, <1>2, <2>1, <2>2
<1>6. EventsAlternate'
  BY <1>1, <1>3 DEF EventsAlternate, ClientInv
<1>7. QED
  BY <1>4, <1>5, <1>6

LEMMA StartClientInv ==
  ASSUME ClientInv, NEW r \in Run, StartClient(r)
  PROVE  ClientInv'
<1>1. /\ UNCHANGED <<channels, listed, lastEvent, unseen, fresh>> /\ UNCHANGED keeperVars
      /\ client[r] = "off" /\ client' = [client EXCEPT ![r] = "connected"]
  BY DEF StartClient
<1>2. /\ client'[r] = "connected" /\ \A x \in Run \ {r} : client'[x] = client[x]
      /\ client' = [client EXCEPT ![r] = client'[r]]
  BY <1>1 DEF ClientInv, ClientTypes
<1>3. ClientTypes' /\ StageInv'
  BY <1>1, <1>2 DEF ClientInv, ClientTypes, StageInv, Stage
<1>4. ToldInv' /\ HeardInv' /\ EventsAlternate'
  BY <1>1, <1>2, NotReadingClientInv
<1>5. FetchInv'
  BY <1>1, <1>2, SamePuts DEF ClientInv, FetchInv, Fetching
<1>6. ListInv'
  <2>1. \A x, n, k : About(x, n, k)' = About(x, n, k)
    BY <1>1 DEF About
  <2>2. \A x \in DOMAIN channels : client'[x] = "reading" => client[x] = "reading"
    BY <1>1, <1>2 DEF ClientInv, ClientTypes
  <2>3. QED
    BY <1>1, <2>1, <2>2, SamePuts DEF ClientInv, ListInv
<1>7. QED
  BY <1>3, <1>4, <1>5, <1>6 DEF ClientInv

LEMMA StopClientInv ==
  ASSUME ClientInv, NEW r \in Run, StopClient(r)
  PROVE  ClientInv'
<1>1. /\ UNCHANGED channels /\ UNCHANGED keeperVars
      /\ client' = [client EXCEPT ![r] = "gone"]
      /\ listed' = [listed EXCEPT ![r] = [n \in Node |-> 0]]
      /\ lastEvent' = [lastEvent EXCEPT ![r] = <<>>]
      /\ unseen' = [unseen EXCEPT ![r] = {}]
      /\ fresh' = [fresh EXCEPT ![r] = {}]
  BY DEF StopClient
<1>2. /\ client'[r] = "gone" /\ \A x \in Run \ {r} : client'[x] = client[x]
      /\ client' = [client EXCEPT ![r] = client'[r]]
      /\ lastEvent'[r] = <<>>
      /\ \A x \in Run \ {r} : /\ lastEvent'[x] = lastEvent[x] /\ listed'[x] = listed[x]
                              /\ unseen'[x] = unseen[x] /\ fresh'[x] = fresh[x]
  BY <1>1 DEF ClientInv, ClientTypes
<1>3. ClientTypes'
  BY <1>1 DEF ClientInv, ClientTypes, Stage
<1>4. StageInv'
  BY <1>1, <1>2 DEF ClientInv, StageInv
<1>5. ToldInv' /\ HeardInv' /\ EventsAlternate'
  BY <1>1, <1>2, NotReadingClientInv
<1>6. FetchInv'
  <2>1. UNCHANGED keeperVars
    BY <1>1
  <2>2. \A x \in Run : Fetching(x)' =>
           /\ Fetching(x) /\ listed'[x] = listed[x]
           /\ unseen'[x] = unseen[x] /\ fresh'[x] = fresh[x]
    BY <1>2 DEF Fetching
  <2>3. QED
    BY <2>1, <2>2, SamePuts DEF ClientInv, FetchInv
<1>7. ListInv'
  <2>1. \A x, n, k : About(x, n, k)' = About(x, n, k)
    BY <1>1 DEF About
  <2>2. \A x \in DOMAIN channels : client'[x] = "reading" =>
           client[x] = "reading" /\ listed'[x] = listed[x] /\ unseen'[x] = unseen[x]
    BY <1>2 DEF ClientInv, ClientTypes
  <2>3. QED
    BY <1>1, <2>1, <2>2, SamePuts DEF ClientInv, ListInv
<1>8. QED
  BY <1>3, <1>4, <1>5, <1>6, <1>7 DEF ClientInv

LEMMA FetchClientInv ==
  ASSUME KeeperInv, ClientInv, NEW r \in Run, Fetch(r)
  PROVE  ClientInv'
<1>1. /\ UNCHANGED <<channels, lastEvent>> /\ UNCHANGED keeperVars
      /\ client[r] \in {"connected", "fetched"}
      /\ client' = [client EXCEPT ![r] = IF @ = "connected" THEN "fetched" ELSE "refetched"]
      /\ \/ /\ listed' = [listed EXCEPT ![r] = [n \in Node |-> IF n \in service THEN 1 ELSE 0]]
            /\ fresh' = [fresh EXCEPT ![r] = {}]
            /\ unseen' = [unseen EXCEPT ![r] = {}]
         \/ /\ unseen' = [unseen EXCEPT ![r] = IF client[r] = "connected" THEN service ELSE @]
            /\ UNCHANGED <<listed, fresh>>
  BY DEF Fetch
<1>2. /\ client'[r] \in {"fetched", "refetched"} /\ \A x \in Run \ {r} : client'[x] = client[x]
      /\ client' = [client EXCEPT ![r] = client'[r]]
      /\ \A x \in Run \ {r} : /\ listed'[x] = listed[x]
                              /\ unseen'[x] = unseen[x] /\ fresh'[x] = fresh[x]
  BY <1>1 DEF ClientInv, ClientTypes
<1>3. service \in SUBSET Node
  BY DEF KeeperInv, KeeperTypes
<1>4. ClientTypes'
  <2>1. [n \in Node |-> IF n \in service THEN 1 ELSE 0] \in [Node -> Nat]
    OBVIOUS
  <2>2. client' \in [Run -> Stage]
    BY <1>1 DEF ClientInv, ClientTypes, Stage
  <2>a. listed' \in [Run -> [Node -> Nat]]
    BY <1>1, <2>1 DEF ClientInv, ClientTypes
  <2>3. unseen' \in [Run -> SUBSET Node] /\ fresh' \in [Run -> SUBSET Node]
    BY <1>1, <1>3 DEF ClientInv, ClientTypes
  <2>4. QED
    BY <1>1, <2>2, <2>a, <2>3 DEF ClientInv, ClientTypes
<1>5. StageInv'
  BY <1>1, <1>2 DEF ClientInv, StageInv
<1>6. ToldInv' /\ HeardInv' /\ EventsAlternate'
  BY <1>1, <1>2, NotReadingClientInv
<1>7. FetchInv'
  <2>1. ASSUME NEW n \in Node, n \notin unseen'[r]
        PROVE  \/ Headed(n) /\ n \in fresh'[r]
               \/ listed'[r][n] > 0 <=> n \in service
    <3>1. CASE listed' = [listed EXCEPT ![r] = [m \in Node |-> IF m \in service THEN 1 ELSE 0]]
      <4>1. listed'[r] = [m \in Node |-> IF m \in service THEN 1 ELSE 0]
        BY <3>1 DEF ClientInv, ClientTypes
      <4>2. QED
        BY <4>1
    <3>2. CASE /\ unseen' = [unseen EXCEPT ![r] = IF client[r] = "connected" THEN service ELSE @]
               /\ UNCHANGED <<listed, fresh>>
      <4>1. CASE client[r] = "connected"
        <5>1. unseen'[r] = service /\ listed'[r] = [m \in Node |-> 0]
          BY <3>2, <4>1 DEF ClientInv, ClientTypes, StageInv
        <5>2. QED
          BY <2>1, <5>1
      <4>2. CASE client[r] = "fetched"
        <5>1. unseen'[r] = unseen[r] /\ Fetching(r)
          BY <3>2, <4>2 DEF ClientInv, ClientTypes, Fetching
        <5>2. QED
          BY <2>1, <3>2, <5>1 DEF ClientInv, FetchInv
      <4>3. QED
        BY <1>1, <4>1, <4>2
    <3>3. QED
      BY <1>1, <3>1, <3>2
  <2>2. ASSUME NEW x \in Run \ {r}, NEW n \in Node, Fetching(x)', n \notin unseen'[x]
        PROVE  \/ Headed(n) /\ n \in fresh'[x]
               \/ listed'[x][n] > 0 <=> n \in service
    <3>1. Fetching(x) /\ n \notin unseen[x] /\ listed'[x] = listed[x] /\ fresh'[x] = fresh[x]
      BY <1>2, <2>2 DEF Fetching
    <3>2. QED
      BY <3>1 DEF ClientInv, FetchInv
  <2>3. QED
    BY <2>1, <2>2, SamePuts, <1>1 DEF FetchInv
<1>8. ListInv'
  <2>1. \A x, n, k : About(x, n, k)' = About(x, n, k)
    BY <1>1 DEF About
  <2>2. \A x \in DOMAIN channels : client'[x] = "reading" =>
           client[x] = "reading" /\ listed'[x] = listed[x] /\ unseen'[x] = unseen[x]
    BY <1>2 DEF ClientInv, ClientTypes
  <2>3. QED
    BY <1>1, <2>1, <2>2, SamePuts DEF ClientInv, ListInv
<1>9. QED
  BY <1>4, <1>5, <1>6, <1>7, <1>8 DEF ClientInv

LEMMA SubscribeClientInv ==
  ASSUME KeeperInv, ClientInv, NEW r \in Run, Subscribe(r)
  PROVE  ClientInv'
<1>1. /\ UNCHANGED <<listed, lastEvent, unseen>> /\ UNCHANGED keeperVars
      /\ client[r] = "refetched"
      /\ client' = [client EXCEPT ![r] = "reading"]
      /\ channels' = With(channels, r, <<>>)
      /\ fresh' = [fresh EXCEPT ![r] = {}]
  BY DEF Subscribe
<1>2. /\ r \notin DOMAIN channels /\ lastEvent[r] = <<>> /\ Fetching(r)
  BY <1>1 DEF ClientInv, StageInv, Fetching
<1>3. /\ DOMAIN channels' = DOMAIN channels \cup {r} /\ channels'[r] = <<>>
      /\ \A x \in DOMAIN channels : x # r /\ channels'[x] = channels[x]
  BY <1>1, <1>2 DEF With
<1>4. /\ client'[r] = "reading" /\ \A x \in Run \ {r} : client'[x] = client[x]
      /\ \A x \in Run \ {r} : fresh'[x] = fresh[x]
  BY <1>1 DEF ClientInv, ClientTypes
<1>5. <<>> \in Seq(AnEvent) /\ DOMAIN <<>> = {}
  BY EmptySeq
<1>6. ClientTypes'
  <2>1. client' \in [Run -> Stage] /\ fresh' \in [Run -> SUBSET Node]
    BY <1>1 DEF ClientInv, ClientTypes, Stage
  <2>2. DOMAIN channels' \subseteq Run /\ \A x \in DOMAIN channels' : channels'[x] \in Seq(AnEvent)
    BY <1>3, <1>5 DEF ClientInv, ClientTypes
  <2>3. QED
    BY <1>1, <2>1, <2>2 DEF ClientInv, ClientTypes
<1>7. StageInv'
  BY <1>1, <1>3, <1>4 DEF ClientInv, StageInv
<1>8. \A n, k : About(r, n, k)' = {}
  BY <1>3, <1>5 DEF About
<1>9. \A x \in DOMAIN channels : \A n, k : About(x, n, k)' = About(x, n, k)
  BY <1>3 DEF About
<1>10. \A x \in DOMAIN channels : x \in Run /\ client'[x] = client[x]
  BY <1>3, <1>4 DEF ClientInv, ClientTypes
<1>11. DOMAIN lastEvent'[r] = {}
  BY <1>1, <1>2, <1>5
<1>12. ToldInv'
  BY <1>3, <1>8, <1>9, <1>10, <1>1, SamePuts DEF ClientInv, ToldInv
<1>13. HeardInv'
  <2> SUFFICES ASSUME NEW x \in DOMAIN channels', NEW n \in Node, NEW k \in {"member", "system"},
                      client'[x] = "reading", <<k, n>> \in DOMAIN lastEvent'[x]
               PROVE  /\ lastEvent'[x][<<k, n>>] \in Type
                      /\ Kind(lastEvent'[x][<<k, n>>]) = k
                      /\ About(x, n, k)' = {}
                            => (Up(lastEvent'[x][<<k, n>>]) <=> PutUp(n, k)')
    BY DEF HeardInv
  <2>1. x \in DOMAIN channels
    BY <1>3, <1>11
  <2>2. client[x] = "reading" /\ lastEvent'[x] = lastEvent[x] /\ About(x, n, k)' = About(x, n, k)
    BY <2>1, <1>1, <1>9, <1>10
  <2>3. /\ lastEvent[x][<<k, n>>] \in Type
        /\ Kind(lastEvent[x][<<k, n>>]) = k
        /\ About(x, n, k) = {} => (Up(lastEvent[x][<<k, n>>]) <=> PutUp(n, k))
    BY <2>1, <2>2 DEF HeardInv, ClientInv
  <2>4. PutUp(n, k)' <=> PutUp(n, k)
    BY <1>1, SamePuts
  <2>5. QED
    BY <2>2, <2>3, <2>4
<1>14. EventsAlternate'
  BY <1>1, <1>3, <1>8, <1>9, <1>10 DEF ClientInv, EventsAlternate
<1>15. FetchInv'
  <2>1. \A x \in Run : Fetching(x)' => x # r /\ Fetching(x) /\ fresh'[x] = fresh[x]
    BY <1>4 DEF Fetching
  <2>2. QED
    BY <1>1, <2>1, SamePuts DEF ClientInv, FetchInv
<1>16. ListInv'
  <2>1. ASSUME NEW n \in Node, n \notin unseen[r]
        PROVE  Headed(n) \/ (listed[r][n] > 0 <=> PutUp(n, "member"))
    <3>1. \/ Headed(n)
          \/ listed[r][n] > 0 <=> n \in service
      BY <1>2, <2>1 DEF ClientInv, FetchInv
    <3>2. n \in service <=> ~(PutUp(n, "member") <=> Headed(n))
      BY DEF KeeperInv, ServiceInv
    <3>3. QED
      BY <3>1, <3>2
  <2>2. ASSUME NEW x \in DOMAIN channels, NEW n \in Node, client'[x] = "reading",
               n \notin unseen[x], About(x, n, "member")' = {}
        PROVE  Headed(n) \/ (listed[x][n] > 0 <=> PutUp(n, "member"))
    BY <1>9, <1>10, <2>2 DEF ClientInv, ListInv
  <2>3. ASSUME NEW x \in DOMAIN channels', NEW n \in Node, client'[x] = "reading",
               n \notin unseen[x], About(x, n, "member")' = {}
        PROVE  Headed(n)' \/ (listed[x][n] > 0 <=> PutUp(n, "member")')
    BY <1>1, <1>3, <2>1, <2>2, <2>3, SamePuts
  <2>4. QED
    BY <1>1, <2>3 DEF ListInv
<1>17. QED
  BY <1>6, <1>7, <1>12, <1>13, <1>14, <1>15, <1>16 DEF ClientInv

\* What is left of a channel when its first event has been read.
LEMMA ShiftedQueue ==
  ASSUME ClientInv, NEW r \in DOMAIN channels, channels[r] # <<>>,
         channels'[r] = Tail(channels[r])
  PROVE  /\ channels'[r] \in Seq(AnEvent)
         /\ Head(channels[r]) \in AnEvent /\ channels[r][1] = Head(channels[r])
         /\ \A n, k : 1 \in About(r, n, k) <=> Concerns(Head(channels[r]), n, k)
         /\ \A n, k : \A j \in About(r, n, k)' :
               j \in Nat \ {0} /\ j + 1 \in About(r, n, k) /\ channels'[r][j] = channels[r][j + 1]
         /\ \A n, k : \A j \in About(r, n, k) :
               j \in Nat \ {0} /\ (j # 1 => j - 1 \in About(r, n, k)')
<1> DEFINE q == channels[r]
<1>1. q \in Seq(AnEvent)
  BY DEF ClientInv, ClientTypes
<1>2. /\ Tail(q) \in Seq(AnEvent) /\ Len(Tail(q)) = Len(q) - 1 /\ Head(q) \in AnEvent
      /\ \A i \in 1 .. Len(Tail(q)) : Tail(q)[i] = q[i + 1]
      /\ Len(q) \in Nat \ {0} /\ DOMAIN q = 1 .. Len(q) /\ DOMAIN Tail(q) = 1 .. Len(Tail(q))
      /\ Head(q) = q[1]
  BY <1>1, HeadTailProperties, EmptySeq, LenProperties
<1>3. /\ DOMAIN channels[r] = 1 .. Len(q)
      /\ DOMAIN channels'[r] = 1 .. Len(q) - 1
      /\ \A i \in 1 .. Len(q) - 1 : channels'[r][i] = channels[r][i + 1]
  BY <1>2
<1> HIDE DEF q
<1>4. ASSUME NEW n, NEW k, NEW j \in About(r, n, k)'
      PROVE  j \in Nat \ {0} /\ j + 1 \in About(r, n, k) /\ channels'[r][j] = channels[r][j + 1]
  <2>1. j \in DOMAIN channels'[r] /\ Concerns(channels'[r][j], n, k)
    BY DEF About
  <2>2. j \in Nat \ {0} /\ j + 1 \in 1 .. Len(q) /\ channels'[r][j] = channels[r][j + 1]
    BY <1>2, <1>3, <2>1
  <2>3. QED
    BY <1>3, <2>1, <2>2 DEF About
<1>5. ASSUME NEW n, NEW k, NEW j \in About(r, n, k)
      PROVE  j \in Nat \ {0} /\ (j # 1 => j - 1 \in About(r, n, k)')
  <2>1. j \in 1 .. Len(q) /\ Concerns(channels[r][j], n, k)
    BY <1>3 DEF About
  <2>2. ASSUME j # 1
        PROVE  j - 1 \in DOMAIN channels'[r] /\ channels'[r][j - 1] = channels[r][j]
    <3>1. j - 1 \in 1 .. Len(q) - 1 /\ (j - 1) + 1 = j
      BY <1>2, <2>1, <2>2
    <3>2. QED
      BY <1>3, <3>1
  <2>3. QED
    BY <1>2, <2>1, <2>2 DEF About
<1>6. \A n, k : 1 \in About(r, n, k) <=> Concerns(Head(channels[r]), n, k)
  BY <1>2, <1>3 DEF About, q
<1>7. QED
  BY <1>2, <1>4, <1>5, <1>6 DEF q

LEMMA UpdateTells ==
  ASSUME NEW count \in Nat, NEW type \in Type
  PROVE  /\ Update(count, type) \in Nat
         /\ Kind(type) = "member" => (Update(count, type) > 0 <=> Up(type))
         /\ Kind(type) # "member" => Update(count, type) = count
<1>1. type \in {"memberUp", "memberDown", "systemUp", "systemDown"}
  BY DEF Type
<1>2. CASE type = "memberUp"
  <2>1. Update(count, type) = count + 1
    BY <1>2 DEF Update
  <2>2. QED
    BY <1>2, <2>1, Kinds
<1>3. CASE type = "memberDown"
  <2>1. Update(count, type) = 0
    BY <1>3 DEF Update
  <2>2. QED
    BY <1>3, <2>1, Kinds
<1>4. CASE type \in {"systemUp", "systemDown"}
  <2>1. Update(count, type) = count
    BY <1>4 DEF Update
  <2>2. QED
    BY <1>4, <2>1, Kinds
<1>5. QED
  BY <1>1, <1>2, <1>3, <1>4

LEMMA DeliverClientInv ==
  ASSUME KeeperInv, ClientInv, NEW r \in Run, Deliver(r)
  PROVE  ClientInv'
<1> DEFINE e == Head(channels[r])
<1>1. /\ UNCHANGED <<client, unseen, fresh>> /\ UNCHANGED keeperVars
      /\ r \in DOMAIN channels /\ channels[r] # <<>>
      /\ channels' = [channels EXCEPT ![r] = Tail(@)]
  BY DEF Deliver
<1>2. /\ DOMAIN channels' = DOMAIN channels /\ channels'[r] = Tail(channels[r])
      /\ \A x \in DOMAIN channels : x # r => channels'[x] = channels[x]
  BY <1>1
<1>3. /\ channels'[r] \in Seq(AnEvent)
      /\ e \in AnEvent /\ channels[r][1] = e
      /\ \A n, k : 1 \in About(r, n, k) <=> Concerns(e, n, k)
      /\ \A n, k : \A j \in About(r, n, k)' :
            j \in Nat \ {0} /\ j + 1 \in About(r, n, k) /\ channels'[r][j] = channels[r][j + 1]
      /\ \A n, k : \A j \in About(r, n, k) :
            j \in Nat \ {0} /\ (j # 1 => j - 1 \in About(r, n, k)')
  BY <1>1, <1>2, ShiftedQueue
<1>4. /\ client[r] # "reading" => UNCHANGED <<listed, lastEvent>>
      /\ client[r] = "reading" =>
            /\ listed' = [listed EXCEPT ![r][e.member] = Update(@, e.type)]
            /\ lastEvent' = [lastEvent EXCEPT ![r] =
                                   With(@, <<Kind(e.type), e.member>>, e.type)]
  BY DEF Deliver
<1>5. e.type \in Type /\ e.member \in Node /\ r \in Run
  BY <1>3 DEF AnEvent
<1> HIDE DEF e
<1>6. \A x \in DOMAIN channels : \A n, k : x # r => About(x, n, k)' = About(x, n, k)
  BY <1>2 DEF About
<1>7. ASSUME NEW x \in DOMAIN channels, x # r, client[x] = "reading"
      PROVE  x \in Run /\ lastEvent'[x] = lastEvent[x] /\ listed'[x] = listed[x]
  <2>1. x \in Run
    BY DEF ClientInv, ClientTypes
  <2>2. lastEvent'[x] = lastEvent[x]
    BY <1>4, <1>7, <2>1 DEF ClientInv, ClientTypes
  <2>3. listed'[x] = listed[x]
    BY <1>4, <1>5, <1>7, <2>1 DEF ClientInv, ClientTypes
  <2>4. QED
    BY <2>1, <2>2, <2>3
<1>8. ASSUME client[r] = "reading"
      PROVE  /\ DOMAIN lastEvent' = Run
             /\ \A n, k : Concerns(e, n, k) =>
                   <<k, n>> \in DOMAIN lastEvent'[r] /\ lastEvent'[r][<<k, n>>] = e.type
             /\ \A n, k : ~Concerns(e, n, k) /\ <<k, n>> \in DOMAIN lastEvent'[r] =>
                   /\ <<k, n>> \in DOMAIN lastEvent[r]
                   /\ lastEvent'[r][<<k, n>>] = lastEvent[r][<<k, n>>]
  <2>1. lastEvent' = [lastEvent EXCEPT ![r] =
                        With(lastEvent[r], <<Kind(e.type), e.member>>, e.type)]
    BY <1>4, <1>8
  <2>2. lastEvent'[r] = With(lastEvent[r], <<Kind(e.type), e.member>>, e.type)
        /\ DOMAIN lastEvent' = Run
    BY <1>5, <2>1 DEF ClientInv, ClientTypes
  <2>3. \A n, k : Concerns(e, n, k) <=> <<k, n>> = <<Kind(e.type), e.member>>
    BY DEF Concerns
  <2>4. QED
    BY <2>2, <2>3 DEF With
<1>9. ASSUME client[r] = "reading"
      PROVE  /\ listed' \in [Run -> [Node -> Nat]]
             /\ \A n \in Node :
                   /\ Concerns(e, n, "member") => (listed'[r][n] > 0 <=> Up(e.type))
                   /\ ~Concerns(e, n, "member") => listed'[r][n] = listed[r][n]
  <2>1. listed' = [listed EXCEPT ![r][e.member] = Update(listed[r][e.member], e.type)]
    BY <1>4, <1>9
  <2>2. listed \in [Run -> [Node -> Nat]] /\ listed[r][e.member] \in Nat
    BY <1>5 DEF ClientInv, ClientTypes
  <2>3. /\ Update(listed[r][e.member], e.type) \in Nat
        /\ Kind(e.type) = "member" => (Update(listed[r][e.member], e.type) > 0 <=> Up(e.type))
        /\ Kind(e.type) # "member" =>
              Update(listed[r][e.member], e.type) = listed[r][e.member]
    BY <1>5, <2>2, UpdateTells
  <2>4. /\ listed' \in [Run -> [Node -> Nat]]
        /\ listed'[r][e.member] = Update(listed[r][e.member], e.type)
        /\ \A n \in Node \ {e.member} : listed'[r][n] = listed[r][n]
    BY <1>5, <2>1, <2>2, <2>3
  <2>5. QED
    BY <2>3, <2>4 DEF Concerns
<1>10. ClientTypes'
  <2>1. \A x \in DOMAIN channels' : channels'[x] \in Seq(AnEvent)
    BY <1>2, <1>3 DEF ClientInv, ClientTypes
  <2>2. listed' \in [Run -> [Node -> Nat]] /\ DOMAIN lastEvent' = Run
    BY <1>4, <1>8, <1>9 DEF ClientInv, ClientTypes
  <2>3. QED
    BY <1>1, <1>2, <2>1, <2>2 DEF ClientInv, ClientTypes
<1>11. StageInv'
  <2>1. \A x \in Run : client[x] # "reading" =>
           listed'[x] = listed[x] /\ lastEvent'[x] = lastEvent[x]
    <3>1. CASE client[r] # "reading"
      BY <3>1, <1>4
    <3>2. CASE client[r] = "reading"
      <4>1. SUFFICES ASSUME NEW x \in Run, x # r
                     PROVE  listed'[x] = listed[x] /\ lastEvent'[x] = lastEvent[x]
        BY <3>2
      <4>2. listed'[x] = listed[x]
        BY <3>2, <4>1, <1>4, <1>5 DEF ClientInv, ClientTypes
      <4>3. lastEvent'[x] = lastEvent[x]
        BY <3>2, <4>1, <1>4 DEF ClientInv, ClientTypes
      <4>4. QED
        BY <4>2, <4>3
    <3>3. QED
      BY <3>1, <3>2
  <2>2. QED
    BY <1>1, <1>2, <2>1 DEF ClientInv, StageInv
<1>12. ASSUME NEW n \in Node, NEW k \in {"member", "system"}, client[r] = "reading"
       PROVE  /\ \A j \in About(r, n, k)' :
                    (\A i \in About(r, n, k)' : i <= j)
                       => (Up(channels'[r][j].type) <=> PutUp(n, k))
              /\ <<k, n>> \in DOMAIN lastEvent'[r] =>
                    /\ lastEvent'[r][<<k, n>>] \in Type
                    /\ Kind(lastEvent'[r][<<k, n>>]) = k
                    /\ About(r, n, k)' = {} => (Up(lastEvent'[r][<<k, n>>]) <=> PutUp(n, k))
  <2>1. /\ \A j \in About(r, n, k) :
              (\A i \in About(r, n, k) : i <= j)
                 => (Up(channels[r][j].type) <=> PutUp(n, k))
        /\ <<k, n>> \in DOMAIN lastEvent[r] =>
              /\ lastEvent[r][<<k, n>>] \in Type
              /\ Kind(lastEvent[r][<<k, n>>]) = k
              /\ About(r, n, k) = {} => (Up(lastEvent[r][<<k, n>>]) <=> PutUp(n, k))
    BY <1>1, <1>12 DEF ClientInv, ToldInv, HeardInv
  <2>2. ASSUME NEW j \in About(r, n, k)', \A i \in About(r, n, k)' : i <= j
        PROVE  Up(channels'[r][j].type) <=> PutUp(n, k)
    <3>1. /\ j \in Nat \ {0} /\ j + 1 \in About(r, n, k)
          /\ channels'[r][j] = channels[r][j + 1]
      BY <1>3
    <3>2. ASSUME NEW i \in About(r, n, k)
          PROVE  i <= j + 1
      <4>1. i \in Nat \ {0} /\ (i # 1 => i - 1 \in About(r, n, k)')
        BY <1>3
      <4>2. i = 1 \/ i - 1 <= j
        BY <2>2, <4>1
      <4>3. QED
        BY <3>1, <4>1, <4>2
    <3>3. QED
      BY <2>1, <3>1, <3>2
  <2>3. CASE Concerns(e, n, k)
    <3>1. lastEvent'[r][<<k, n>>] = e.type /\ Kind(e.type) = k /\ 1 \in About(r, n, k)
      BY <1>3, <1>8, <1>12, <2>3 DEF Concerns
    <3>2. ASSUME About(r, n, k)' = {}
          PROVE  Up(e.type) <=> PutUp(n, k)
      <4>1. \A i \in About(r, n, k) : i <= 1
        BY <1>3, <3>2
      <4>2. QED
        BY <1>3, <2>1, <3>1, <4>1
    <3>3. QED
      BY <1>5, <2>2, <3>1, <3>2
  <2>4. CASE ~Concerns(e, n, k)
    <3>1. ASSUME <<k, n>> \in DOMAIN lastEvent'[r]
          PROVE  <<k, n>> \in DOMAIN lastEvent[r]
                 /\ lastEvent'[r][<<k, n>>] = lastEvent[r][<<k, n>>]
      BY <1>8, <1>12, <2>4, <3>1
    <3>2. About(r, n, k)' = {} => About(r, n, k) = {}
      BY <1>3, <2>4
    <3>3. QED
      BY <2>1, <2>2, <3>1, <3>2
  <2>5. QED
    BY <2>3, <2>4
<1>13. \A n, k : PutUp(n, k)' <=> PutUp(n, k)
  BY <1>1, SamePuts
<1>14. ToldInv'
  <2> SUFFICES ASSUME NEW x \in DOMAIN channels', NEW n \in Node, NEW k \in {"member", "system"},
                      client'[x] = "reading",
                      NEW j \in About(x, n, k)', \A i \in About(x, n, k)' : i <= j
               PROVE  Up(channels'[x][j].type) <=> PutUp(n, k)'
    BY DEF ToldInv
  <2> x \in DOMAIN channels /\ client[x] = "reading" /\ (PutUp(n, k)' <=> PutUp(n, k))
    BY <1>1, <1>2, <1>13
  <2>1. CASE x = r
    BY <2>1, <1>12
  <2>2. CASE x # r
    BY <2>2, <1>2, <1>6 DEF ClientInv, ToldInv
  <2>3. QED
    BY <2>1, <2>2
<1>15. HeardInv'
  <2> SUFFICES ASSUME NEW x \in DOMAIN channels', NEW n \in Node, NEW k \in {"member", "system"},
                      client'[x] = "reading", <<k, n>> \in DOMAIN lastEvent'[x]
               PROVE  /\ lastEvent'[x][<<k, n>>] \in Type
                      /\ Kind(lastEvent'[x][<<k, n>>]) = k
                      /\ About(x, n, k)' = {}
                            => (Up(lastEvent'[x][<<k, n>>]) <=> PutUp(n, k)')
    BY DEF HeardInv
  <2> x \in DOMAIN channels /\ client[x] = "reading" /\ (PutUp(n, k)' <=> PutUp(n, k))
    BY <1>1, <1>2, <1>13
  <2>1. CASE x = r
    BY <2>1, <1>12
  <2>2. CASE x # r
    <3>1. lastEvent'[x] = lastEvent[x] /\ About(x, n, k)' = About(x, n, k)
      BY <2>2, <1>6, <1>7
    <3>2. /\ lastEvent[x][<<k, n>>] \in Type
          /\ Kind(lastEvent[x][<<k, n>>]) = k
          /\ About(x, n, k) = {} => (Up(lastEvent[x][<<k, n>>]) <=> PutUp(n, k))
      BY <3>1 DEF ClientInv, HeardInv
    <3>3. QED
      BY <3>1, <3>2
  <2>3. QED
    BY <2>1, <2>2
<1>16. ASSUME NEW n \in Node, NEW k \in {"member", "system"}, client[r] = "reading",
              NEW i \in About(r, n, k)', NEW j \in About(r, n, k)', i < j,
              About(r, n, k)' \cap (i + 1 .. j - 1) = {}
       PROVE  channels'[r][i].type # channels'[r][j].type
  <2>1. /\ i \in Nat \ {0} /\ i + 1 \in About(r, n, k) /\ channels'[r][i] = channels[r][i + 1]
        /\ j \in Nat \ {0} /\ j + 1 \in About(r, n, k) /\ channels'[r][j] = channels[r][j + 1]
    BY <1>3
  <2>2. ASSUME NEW m \in About(r, n, k), m \in (i + 1) + 1 .. (j + 1) - 1
        PROVE  FALSE
    <3>1. m \in Nat \ {0} /\ (m # 1 => m - 1 \in About(r, n, k)')
      BY <1>3
    <3>2. m # 1 /\ m - 1 \in i + 1 .. j - 1
      BY <2>1, <2>2, <3>1
    <3>3. QED
      BY <1>16, <3>1, <3>2
  <2>3. i + 1 < j + 1 /\ About(r, n, k) \cap ((i + 1) + 1 .. (j + 1) - 1) = {}
    BY <1>16, <2>1, <2>2
  <2>4. channels[r][i + 1].type # channels[r][j + 1].type
    BY <1>1, <1>16, <2>1, <2>3 DEF ClientInv, EventsAlternate
  <2>5. QED
    BY <2>1, <2>4
<1>17. ASSUME NEW n \in Node, NEW k \in {"member", "system"}, client[r] = "reading",
              <<k, n>> \in DOMAIN lastEvent'[r],
              NEW j \in About(r, n, k)', About(r, n, k)' \cap (1 .. j - 1) = {}
       PROVE  lastEvent'[r][<<k, n>>] # channels'[r][j].type
  <2>1. j \in Nat \ {0} /\ j + 1 \in About(r, n, k) /\ channels'[r][j] = channels[r][j + 1]
    BY <1>3
  <2>2. ASSUME NEW m \in About(r, n, k), m \in 2 .. (j + 1) - 1
        PROVE  FALSE
    <3>1. m \in Nat \ {0} /\ (m # 1 => m - 1 \in About(r, n, k)')
      BY <1>3
    <3>2. m # 1 /\ m - 1 \in 1 .. j - 1
      BY <2>1, <2>2, <3>1
    <3>3. QED
      BY <1>17, <3>1, <3>2
  <2>3. CASE Concerns(e, n, k)
    <3>1. 1 \in About(r, n, k) /\ lastEvent'[r][<<k, n>>] = channels[r][1].type
      BY <1>3, <1>8, <1>17, <2>3
    <3>2. 1 < j + 1 /\ About(r, n, k) \cap (1 + 1 .. (j + 1) - 1) = {}
      BY <2>1, <2>2
    <3>3. channels[r][1].type # channels[r][j + 1].type
      BY <1>1, <1>17, <2>1, <3>1, <3>2 DEF ClientInv, EventsAlternate
    <3>4. QED
      BY <2>1, <3>1, <3>3
  <2>4. CASE ~Concerns(e, n, k)
    <3>1. <<k, n>> \in DOMAIN lastEvent[r] /\ lastEvent'[r][<<k, n>>] = lastEvent[r][<<k, n>>]
      BY <1>8, <1>17, <2>4
    <3>2. ASSUME NEW m \in About(r, n, k), m \in 1 .. (j + 1) - 1
          PROVE  FALSE
      <4>1. m # 1
        BY <1>3, <2>4, <3>2
      <4>2. m \in 2 .. (j + 1) - 1
        BY <2>1, <3>2, <4>1
      <4>3. QED
        BY <2>2, <4>2
    <3>3. About(r, n, k) \cap (1 .. (j + 1) - 1) = {}
      BY <3>2
    <3>4. lastEvent[r][<<k, n>>] # channels[r][j + 1].type
      BY <1>1, <1>17, <2>1, <3>1, <3>3 DEF ClientInv, EventsAlternate
    <3>5. QED
      BY <2>1, <3>1, <3>4
  <2>5. QED
    BY <2>3, <2>4
<1>18. EventsAlternate'
  <2>1. ASSUME NEW x \in DOMAIN channels, NEW n \in Node, NEW k \in {"member", "system"},
               client[x] = "reading",
               NEW i \in About(x, n, k)', NEW j \in About(x, n, k)', i < j,
               About(x, n, k)' \cap (i + 1 .. j - 1) = {}
        PROVE  channels'[x][i].type # channels'[x][j].type
    <3>1. CASE x = r
      BY <2>1, <3>1, <1>16
    <3>2. CASE x # r
      BY <2>1, <3>2, <1>2, <1>6 DEF ClientInv, EventsAlternate
    <3>3. QED
      BY <3>1, <3>2
  <2>2. ASSUME NEW x \in DOMAIN channels, NEW n \in Node, NEW k \in {"member", "system"},
               client[x] = "reading", <<k, n>> \in DOMAIN lastEvent'[x],
               NEW j \in About(x, n, k)', About(x, n, k)' \cap (1 .. j - 1) = {}
        PROVE  lastEvent'[x][<<k, n>>] # channels'[x][j].type
    <3>1. CASE x = r
      BY <2>2, <3>1, <1>17
    <3>2. CASE x # r
      <4>1. lastEvent'[x] = lastEvent[x] /\ About(x, n, k)' = About(x, n, k)
            /\ channels'[x] = channels[x]
        BY <2>2, <3>2, <1>2, <1>6, <1>7
      <4>2. QED
        BY <2>2, <4>1 DEF ClientInv, EventsAlternate
    <3>3. QED
      BY <3>1, <3>2
  <2>3. DOMAIN channels' = DOMAIN channels /\ client' = client
    BY <1>1, <1>2
  <2>4. QED
    BY <2>1, <2>2, <2>3 DEF EventsAlternate
<1>19. FetchInv'
  <2>1. \A x \in Run : Fetching(x)' => Fetching(x) /\ x # r
    BY <1>1 DEF Fetching, ClientInv, StageInv
  <2>2. \A x \in Run : Fetching(x) => listed'[x] = listed[x]
    <3>1. CASE client[r] # "reading"
      BY <3>1, <1>4
    <3>2. CASE client[r] = "reading"
      <4>1. listed' = [listed EXCEPT ![r][e.member] = Update(listed[r][e.member], e.type)]
        BY <1>4, <3>2
      <4>2. \A x \in Run : Fetching(x) => x # r
        BY <3>2 DEF Fetching
      <4>3. QED
        BY <4>1, <4>2, <1>5 DEF ClientInv, ClientTypes
    <3>3. QED
      BY <3>1, <3>2
  <2>3. QED
    BY <1>1, <2>1, <2>2, SamePuts DEF ClientInv, FetchInv
<1>20. ListInv'
  <2>1. ASSUME NEW x \in DOMAIN channels, NEW n \in Node, client[x] = "reading",
               n \notin unseen[x], About(x, n, "member")' = {}
        PROVE  Headed(n) \/ (listed'[x][n] > 0 <=> PutUp(n, "member"))
    <3>1. CASE x # r
      <4>1. listed'[x] = listed[x] /\ About(x, n, "member") = {}
        BY <2>1, <3>1, <1>6, <1>7
      <4>2. QED
        BY <2>1, <4>1 DEF ClientInv, ListInv
    <3>2. CASE x = r /\ Concerns(e, n, "member")
      <4>1. 1 \in About(r, n, "member") /\ \A i \in About(r, n, "member") : i <= 1
        BY <1>3, <2>1, <3>2
      <4>2. Up(channels[r][1].type) <=> PutUp(n, "member")
        BY <1>1, <2>1, <3>2, <4>1 DEF ClientInv, ToldInv
      <4>3. listed'[r][n] > 0 <=> Up(e.type)
        BY <1>9, <2>1, <3>2
      <4>4. QED
        BY <1>3, <3>2, <4>2, <4>3
    <3>3. CASE x = r /\ ~Concerns(e, n, "member")
      <4>1. listed'[r][n] = listed[r][n] /\ About(r, n, "member") = {}
        BY <1>3, <1>9, <2>1, <3>3
      <4>2. QED
        BY <1>1, <2>1, <3>3, <4>1 DEF ClientInv, ListInv
    <3>4. QED
      BY <3>1, <3>2, <3>3
  <2>2. QED
    BY <1>1, <1>2, <2>1, SamePuts DEF ListInv
<1>21. QED
  BY <1>10, <1>11, <1>14, <1>15, <1>18, <1>19, <1>20 DEF ClientInv

-----------------------------------------------------------------------------

\* Every step of the membership and of the keeper.
LEMMA ServerStepInv ==
  ASSUME NotificationInv, MembershipStep \/ KeeperStep \/ SpuriousWakeup
  PROVE  NotificationInv'
<1>1. KeeperInv'
  <2>1. CASE MembershipStep
    BY <2>1, MembersChangeInv, SystemsChangeInv, SubscriberUpdateInv
       DEF MembershipStep, NotificationInv
  <2>2. CASE KeeperStep
    BY <2>2, TakeSnapshotInv, GenerateInv, NotifyInsertInv, NotifyPutInv, KeeperSleepsInv
       DEF KeeperStep, NotificationInv
  <2>3. CASE SpuriousWakeup
    BY <2>3, KeeperSleepsInv DEF NotificationInv
  <2>4. QED
    BY <2>1, <2>2, <2>3
<1>2. ClientInv'
  BY MembershipStepClientInv, NotifyInsertClientInv, NotifyPutClientInv
     DEF KeeperStep, NotificationInv
<1>3. QED
  BY <1>1, <1>2 DEF NotificationInv

\* Every step of a run of the application.
LEMMA RunStepInv ==
  ASSUME NotificationInv, NEW r \in Run, StartClient(r) \/ ClientStep(r) \/ StopClient(r)
  PROVE  NotificationInv'
<1>1. UNCHANGED <<membershipVars, keeperVars>>
  BY DEF StartClient, ClientStep, Fetch, Subscribe, Deliver, StopClient
<1>2. KeeperInv'
  BY <1>1, KeeperUnchangedInv DEF NotificationInv
<1>3. ClientInv'
  BY StartClientInv, FetchClientInv, SubscribeClientInv, DeliverClientInv, StopClientInv
     DEF ClientStep, NotificationInv
<1>4. QED
  BY <1>2, <1>3 DEF NotificationInv

LEMMA NotificationInitInv == NotificationInit => NotificationInv
BY KeeperInitInv, ClientInitInv DEF NotificationInv

LEMMA NotificationUnchangedInv ==
  ASSUME NotificationInv, UNCHANGED notificationVars
  PROVE  NotificationInv'
<1>1. /\ UNCHANGED membershipVars /\ UNCHANGED keeperVars
      /\ UNCHANGED <<channels, clientVars, service>>
  BY DEF notificationVars, keeperVars
<1>2. KeeperInv'
  BY <1>1, KeeperUnchangedInv DEF NotificationInv
<1>3. ClientInv'
  BY <1>1, SameForClients, SamePuts DEF NotificationInv
<1>4. QED
  BY <1>2, <1>3 DEF NotificationInv

LEMMA NotificationNextInv ==
  ASSUME NotificationInv, [NotificationNext]_notificationVars
  PROVE  NotificationInv'
BY ServerStepInv, RunStepInv, NotificationUnchangedInv DEF NotificationNext

\* The inductive invariant: however the threads interleave, what the generator
\* holds and the events it has left determine what each channel was told, and
\* what a channel was told and still holds determines what its run has heard.
THEOREM NotificationKeepsInvariant == NotificationSpec => []NotificationInv
<1>1. NotificationInv /\ [NotificationNext]_notificationVars => NotificationInv'
  BY NotificationNextInv
<1>2. QED
  BY <1>1, NotificationInitInv, PTL DEF NotificationSpec

LEMMA InvTypes == NotificationInv => NotificationTypeOK
<1> SUFFICES ASSUME NotificationInv
             PROVE  NotificationTypeOK
  OBVIOUS
<1>1. change.step \in {"none", "systems", "notify"}
  BY ChangeSteps DEF NotificationInv, KeeperInv, MembershipTypes
<1>2. DOMAIN snapshot \subseteq {"members", "systems"}
  <2>1. \/ snapshot = <<>>
        \/ \E m : snapshot = [members |-> m]
        \/ \E s : snapshot = [systems |-> s]
        \/ \E m, s : snapshot = [members |-> m, systems |-> s]
    BY DEF NotificationInv, KeeperInv, SnapshotInv
  <2>2. DOMAIN <<>> = {}
    OBVIOUS
  <2>3. QED
    BY <2>1, <2>2
<1>3. QED
  BY <1>1, <1>2 DEF NotificationInv, KeeperInv, ClientInv, MembershipTypes, KeeperTypes, ClientTypes,
     NotificationTypeOK, Step, Stage, AnEvent

\* What the four threads keep on the way of a notification has its types, the
\* running change of the membership and the channels included.
THEOREM NotificationTypes == NotificationSpec => []NotificationTypeOK
BY NotificationKeepsInvariant, InvTypes, PTL

\* A keeper at rest has put everything the generator holds.
LEMMA SettledTold ==
  ASSUME NotificationInv, Settled
  PROVE  /\ seen = [members |-> nodes, systems |-> systems]
         /\ \A n \in Node : ~Headed(n) /\ (PutUp(n, "member") <=> n \in nodes)
         /\ service = nodes
<1>1. seen = [members |-> nodes, systems |-> systems]
  BY DEF NotificationInv, KeeperInv, SeenInv, Settled, Current
<1>2. events = <<>> /\ DOMAIN <<>> = {}
  BY DEF NotificationInv, KeeperInv, EventsInv, Settled
<1>3. \A n \in Node : ~Headed(n) /\ (PutUp(n, "member") <=> n \in nodes)
  BY <1>1, <1>2 DEF Headed, PutUp, Pending, Held, Settled
<1>4. service = nodes
  BY <1>3 DEF NotificationInv, KeeperInv, ServiceInv, KeeperTypes, MembershipTypes
<1>5. QED
  BY <1>1, <1>3, <1>4

LEMMA InvSettled == NotificationInv => SettledKeeperIsCurrent
BY SettledTold DEF SettledKeeperIsCurrent

\* A keeper that sleeps, and that no Update missed, has read the membership as it
\* is now and told the service of all of it.
THEOREM SettledKeeperKeepsUp == NotificationSpec => []SettledKeeperIsCurrent
BY NotificationKeepsInvariant, InvSettled, PTL

LEMMA InvAppSees == NotificationInv => AppSeesCluster
<1> SUFFICES ASSUME NotificationInv, Settled, NEW r \in DOMAIN channels, NEW n \in Node \ unseen[r],
                    client[r] = "reading", channels[r] = <<>>
             PROVE  (listed[r][n] > 0) = (n \in nodes)
  BY DEF AppSeesCluster
<1>1. About(r, n, "member") = {}
  BY DEF About
<1>2. Headed(n) \/ (listed[r][n] > 0 <=> PutUp(n, "member"))
  BY <1>1 DEF NotificationInv, ClientInv, ListInv
<1>3. ~Headed(n) /\ (PutUp(n, "member") <=> n \in nodes)
  BY SettledTold
<1>4. QED
  BY <1>2, <1>3

\* An application whose events are all read lists the members of the cluster, but
\* for those its Fetch failed on and those whose event fell before its channel.
THEOREM ApplicationsSeeTheCluster == NotificationSpec => []AppSeesCluster
BY NotificationKeepsInvariant, InvAppSees, PTL

LEMMA InvAlternate == NotificationInv => EventsAlternate
BY DEF NotificationInv, ClientInv

\* An application never hears twice in a row that a node is up, or down, nor that
\* its actor system is.
THEOREM EventsOfANodeAlternate == NotificationSpec => []EventsAlternate
BY NotificationKeepsInvariant, InvAlternate, PTL
=============================================================================
