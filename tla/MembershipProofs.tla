-------------------------- MODULE MembershipProofs --------------------------
(***************************************************************************)
(* Theorems about Membership, for any number of node keepers, any seeds    *)
(* and any bounds.                                                         *)
(***************************************************************************)
EXTENDS Membership, FiniteSetTheorems, TLAPS

(***************************************************************************)
(* The inductive invariant.  What it says of one node is stated of values, *)
(* not of variables, so that each handler can be treated as a computation  *)
(* on the maps of the node that runs it; iss stands for issued.            *)
(***************************************************************************)
Item == [msg : UpdateMessage, times : Nat \ {0}]

GoodMap(f, iss) ==
    IsMap(f, Entry) /\ \A m \in DOMAIN f : f[m].inc <= iss[m]

GoodMsg(msg, iss) == msg \in UpdateMessage /\ msg.inc <= iss[msg.member]

GoodQueue(q, iss) == \A item \in q : item \in Item /\ GoodMsg(item.msg, iss)

\* A node's maps are well typed and hold only issued incarnations, its actor
\* systems belong to members, and while it runs it knows itself.
GoodNode(n, alive, mem, sus, sys, q, iss) ==
    /\ GoodMap(mem, iss)
    /\ GoodMap(sus, iss)
    /\ sys \subseteq Node
    /\ sys \ {n} \subseteq DOMAIN mem
    /\ GoodQueue(q, iss)
    /\ alive => n \in DOMAIN mem \cup DOMAIN sus

\* The actor systems listed in a pull belong to the members listed in it.
GoodPull(p, iss) ==
    /\ IsMap(p.view, Nat) /\ p \in Pull(p.view)
    /\ \A m \in DOMAIN p.view : p.view[m] <= iss[m]
    /\ p.systems \subseteq DOMAIN p.view

SelfInv ==
    /\ up \in [Node -> BOOLEAN]
    /\ uid \in [Node -> Nat]
    /\ incarnation \in [Node -> Nat]
    /\ selfActorSystemUp \in [Node -> BOOLEAN]
    /\ issued \in [Node -> Nat]
    /\ left \in SUBSET Node
    /\ faults \in Nat
    /\ \A n \in Node : incarnation[n] <= issued[n]

LocalInv ==
    /\ DOMAIN members = Node /\ DOMAIN suspects = Node
    /\ actorSystems \in [Node -> SUBSET Node]
    /\ gossipQueue \in [Node -> SUBSET Item]
    /\ \A n \in Node : GoodNode(n, up[n], members[n], suspects[n],
                                 actorSystems[n], gossipQueue[n], issued)

GossipInv == \A d \in gossip : d \in [to : Node, msg : UpdateMessage]
                                  /\ GoodMsg(d.msg, issued)

PullInv == \A p \in pulls : GoodPull(p, issued)

IInv == SelfInv /\ LocalInv /\ GossipInv /\ PullInv

\* The invariant is as strong as the properties it is for.
LEMMA IInvImplies ==
    IInv => TypeOK /\ IncarnationsWereIssued /\ ActorSystemsAreMembers /\ SelfIsKnown
<1> SUFFICES ASSUME IInv
             PROVE  TypeOK /\ IncarnationsWereIssued /\ ActorSystemsAreMembers
                      /\ SelfIsKnown
  OBVIOUS
<1>1. TypeOK
  BY DEF IInv, SelfInv, LocalInv, GossipInv, PullInv, TypeOK, GoodNode, GoodMap,
         GoodPull, Item
<1>2. IncarnationsWereIssued
  BY DEF IInv, SelfInv, LocalInv, GossipInv, PullInv, IncarnationsWereIssued,
         GoodNode, GoodMap, GoodPull, GoodQueue, GoodMsg
<1>3. ActorSystemsAreMembers /\ SelfIsKnown
  BY DEF IInv, LocalInv, GoodNode, ActorSystemsAreMembers, SelfIsKnown
<1> QED
  BY <1>1, <1>2, <1>3

-----------------------------------------------------------------------------
(* Maps and the queue.                                                     *)

\* The keys after an assignment, whatever the map.
LEMMA AssignDomain ==
    ASSUME NEW f, NEW m, NEW inc, NEW u
    PROVE  DOMAIN Assign(f, m, inc, u) = DOMAIN f \cup {m}
BY DEF Assign, Put

\* Erasing a key yields a map without it and otherwise equal.
LEMMA EraseMap ==
    ASSUME NEW f, IsMap(f, Entry), NEW m
    PROVE  /\ IsMap(Erase(f, m), Entry)
           /\ DOMAIN Erase(f, m) = DOMAIN f \ {m}
           /\ \A x \in DOMAIN f \ {m} : Erase(f, m)[x] = f[x]
BY DEF IsMap, Erase

\* What a new process starts from.
LEMMA EmptyMap == IsMap(Empty, Entry) /\ DOMAIN Empty = {}
BY DEF IsMap, Empty

\* Erasing an expired entry leaves a map.
LEMMA EraseExpiredMap ==
    ASSUME NEW f, IsMap(f, Entry), NEW m, NEW u
    PROVE  /\ IsMap(EraseExpired(f, m, u), Entry)
           /\ DOMAIN EraseExpired(f, m, u) \subseteq DOMAIN f
           /\ DOMAIN f \ {m} \subseteq DOMAIN EraseExpired(f, m, u)
           /\ EraseExpired(f, m, u) # f => m \notin DOMAIN EraseExpired(f, m, u)
           /\ \A x \in DOMAIN EraseExpired(f, m, u) :
                 EraseExpired(f, m, u)[x] = f[x]
<1>1. /\ IsMap(Erase(f, m), Entry)
      /\ DOMAIN Erase(f, m) = DOMAIN f \ {m}
      /\ \A x \in DOMAIN f \ {m} : Erase(f, m)[x] = f[x]
  BY EraseMap
<1> QED
  BY <1>1 DEF EraseExpired

\* The retransmit limit is never negative.
LEMMA LimitType ==
    ASSUME NEW f, IsMap(f, Entry)
    PROVE  GetRetransmitLimit(f) \in Nat
<1> DEFINE k == Cardinality(DOMAIN f)
           E == {e \in 0..k : 10^e < k}
<1>1. k \in Nat
  BY NodeAssumption, FS_Subset, FS_CardinalityType DEF IsMap
<1>2. IsFiniteSet(0..k)
  BY <1>1, FS_Interval
<1>3. Cardinality(E) \in Nat
  BY <1>2, FS_Subset, FS_CardinalityType
<1>4. \A x, y \in Nat : x * y \in Nat
  OBVIOUS
<1> QED
  BY <1>3, <1>4, MultiplierAssumption DEF GetRetransmitLimit, CeilLog10

\* Assigning an issued incarnation keeps a map good.
LEMMA AssignGood ==
    ASSUME NEW iss \in [Node -> Nat], NEW f, GoodMap(f, iss),
           NEW m \in Node, NEW inc \in Nat, NEW u \in Nat, inc <= iss[m]
    PROVE  GoodMap(Assign(f, m, inc, u), iss)
<1>1. /\ IsMap(Assign(f, m, inc, u), Entry)
      /\ DOMAIN Assign(f, m, inc, u) = DOMAIN f \cup {m}
      /\ Assign(f, m, inc, u)[m].inc = inc
      /\ \A x \in DOMAIN f \ {m} : Assign(f, m, inc, u)[x] = f[x]
  BY DEF GoodMap, IsMap, Assign, Put, Entry
<1> QED
  BY <1>1 DEF GoodMap

\* Erasing a key keeps a map good.
LEMMA EraseGood ==
    ASSUME NEW iss, NEW f, GoodMap(f, iss), NEW m
    PROVE  GoodMap(Erase(f, m), iss) /\ DOMAIN Erase(f, m) = DOMAIN f \ {m}
<1>1. /\ IsMap(Erase(f, m), Entry)
      /\ DOMAIN Erase(f, m) = DOMAIN f \ {m}
      /\ \A x \in DOMAIN f \ {m} : Erase(f, m)[x] = f[x]
  BY EraseMap DEF GoodMap
<1> QED
  BY <1>1 DEF GoodMap

\* Pushing a good message keeps a queue good.
LEMMA PushedGood ==
    ASSUME NEW iss, NEW q, GoodQueue(q, iss), NEW msg, GoodMsg(msg, iss),
           NEW times \in Int
    PROVE  GoodQueue(Pushed(q, msg, times), iss)
BY DEF Pushed, GoodQueue, GoodMsg, Item

\* The same of the action that pushes, which touches no other queue.
LEMMA PushGood ==
    ASSUME LocalInv, NEW n \in Node, NEW msg, GoodMsg(msg, issued),
           NEW f, IsMap(f, Entry), Push(n, msg, f)
    PROVE  /\ GoodQueue(gossipQueue'[n], issued)
           /\ gossipQueue' = [gossipQueue EXCEPT ![n] = gossipQueue'[n]]
<1>1. GetRetransmitLimit(f) \in Int
  BY LimitType
<1>2. GoodQueue(Pushed(gossipQueue[n], msg, GetRetransmitLimit(f)), issued)
  BY <1>1, PushedGood DEF LocalInv, GoodNode
<1>3. gossipQueue'[n] = Pushed(gossipQueue[n], msg, GetRetransmitLimit(f))
  BY DEF Push, LocalInv
<1> QED
  BY <1>2, <1>3 DEF Push

-----------------------------------------------------------------------------
(* Handlers.                                                               *)

\* A step that changes the maps and the queue of node n only.
Touches(n) ==
    /\ DOMAIN members' = Node /\ DOMAIN suspects' = Node
    /\ actorSystems' = [x \in Node |-> actorSystems'[x]]
    /\ gossipQueue' = [x \in Node |-> gossipQueue'[x]]
    /\ \A x \in Node \ {n} :
          /\ members'[x] = members[x] /\ suspects'[x] = suspects[x]
          /\ actorSystems'[x] = actorSystems[x] /\ gossipQueue'[x] = gossipQueue[x]

\* What the invariant says of node n once its maps have changed.
GoodAfter(n) ==
    GoodNode(n, up[n], members'[n], suspects'[n], actorSystems'[n],
             gossipQueue'[n], issued)

\* A step of one node keeps LocalInv when it leaves that node good.
LEMMA LocalStep ==
    ASSUME LocalInv, NEW n \in Node, Touches(n), GoodAfter(n),
           up' = up, issued' = issued
    PROVE  LocalInv'
<1>1. \A x \in Node : GoodNode(x, up[x], members'[x], suspects'[x],
                               actorSystems'[x], gossipQueue'[x], issued)
  BY DEF LocalInv, Touches, GoodAfter
<1>2. \A x \in Node : actorSystems'[x] \in SUBSET Node
  BY <1>1 DEF GoodNode
<1>3. \A x \in Node : gossipQueue'[x] \in SUBSET Item
  BY <1>1 DEF GoodNode, GoodQueue
<1> QED
  BY <1>1, <1>2, <1>3 DEF LocalInv, Touches

\* A step that leaves all maps and queues alone keeps LocalInv.
LEMMA LocalStutter ==
    ASSUME LocalInv, UNCHANGED localVars, up' = up, issued' = issued
    PROVE  LocalInv'
BY DEF LocalInv, localVars

\* Suspecting a member at an issued incarnation.
LEMMA SuspectGood ==
    ASSUME SelfInv, LocalInv, NEW n \in Node, NEW m \in Node, NEW inc \in Nat,
           NEW u \in Nat, inc <= issued[m], Suspect(n, m, inc, u)
    PROVE  Touches(n) /\ GoodAfter(n)
<1> DEFINE mem == Erase(members[n], m)
           sus == Assign(suspects[n], m, inc, u)
<1>1. GoodNode(n, up[n], members[n], suspects[n], actorSystems[n],
               gossipQueue[n], issued)
  BY DEF LocalInv
<1>2. GoodMap(mem, issued) /\ DOMAIN mem = DOMAIN members[n] \ {m}
  BY <1>1, EraseGood DEF GoodNode
<1>3. GoodMap(sus, issued) /\ DOMAIN sus = DOMAIN suspects[n] \cup {m}
  <2>1. GoodMap(suspects[n], issued) /\ issued \in [Node -> Nat]
    BY <1>1 DEF GoodNode, SelfInv
  <2> QED
    BY <2>1, AssignGood, AssignDomain
<1>4. GoodMsg(Update("SUSPECT", m, inc, u), issued)
  BY DEF Update, GoodMsg, UpdateMessage, Status
<1>5. Push(n, Update("SUSPECT", m, inc, u), mem)
  BY DEF Suspect
<1>6. /\ GoodQueue(gossipQueue'[n], issued)
      /\ gossipQueue' = [gossipQueue EXCEPT ![n] = gossipQueue'[n]]
  BY <1>2, <1>4, <1>5, PushGood DEF GoodMap
<1>7. /\ members' = [members EXCEPT ![n] = mem]
      /\ suspects' = [suspects EXCEPT ![n] = sus]
      /\ actorSystems' = [actorSystems EXCEPT ![n] = actorSystems[n] \ {m}]
  BY DEF Suspect
<1> HIDE DEF mem, sus
<1>8. Touches(n)
  BY <1>6, <1>7 DEF Touches, LocalInv
<1>9. members'[n] = mem /\ suspects'[n] = sus /\ actorSystems'[n] = actorSystems[n] \ {m}
  BY <1>7 DEF LocalInv
<1>10. GoodAfter(n)
  BY <1>1, <1>2, <1>3, <1>6, <1>9 DEF GoodAfter, GoodNode
<1> QED
  BY <1>8, <1>10

\* Recovering a suspect at the incarnation at which it was suspected.
LEMMA RecoveryGood ==
    ASSUME SelfInv, LocalInv, NEW n \in Node, NEW m \in DOMAIN suspects[n],
           NEW u \in Nat, RecoverySuspect(n, m, u)
    PROVE  Touches(n) /\ GoodAfter(n)
<1> DEFINE inc == suspects[n][m].inc
           mem == Assign(members[n], m, inc, u)
           sus == Erase(suspects[n], m)
<1>1. GoodNode(n, up[n], members[n], suspects[n], actorSystems[n],
               gossipQueue[n], issued)
  BY DEF LocalInv
<1>2. m \in Node /\ inc \in Nat /\ inc <= issued[m]
  BY <1>1 DEF GoodNode, GoodMap, IsMap, Entry
<1>3. GoodMap(mem, issued) /\ DOMAIN mem = DOMAIN members[n] \cup {m}
  <2> HIDE DEF inc
  <2>1. GoodMap(members[n], issued) /\ issued \in [Node -> Nat]
    BY <1>1 DEF GoodNode, SelfInv
  <2> QED
    BY <1>2, <2>1, AssignGood, AssignDomain
<1>4. GoodMap(sus, issued) /\ DOMAIN sus = DOMAIN suspects[n] \ {m}
  BY <1>1, EraseGood DEF GoodNode
<1>5. GoodMsg(Update("RECOVERY", m, inc, u), issued)
  BY <1>2 DEF Update, GoodMsg, UpdateMessage, Status
<1>6. /\ Push(n, Update("RECOVERY", m, inc, u), mem)
      /\ members' = [members EXCEPT ![n] = mem]
      /\ suspects' = [suspects EXCEPT ![n] = sus]
      /\ actorSystems' = actorSystems
  BY DEF RecoverySuspect
<1> HIDE DEF mem, sus, inc
<1>7. /\ GoodQueue(gossipQueue'[n], issued)
      /\ gossipQueue' = [gossipQueue EXCEPT ![n] = gossipQueue'[n]]
  BY <1>3, <1>5, <1>6, PushGood DEF GoodMap
<1>8. Touches(n)
  BY <1>6, <1>7 DEF Touches, LocalInv
<1>9. members'[n] = mem /\ suspects'[n] = sus /\ actorSystems'[n] = actorSystems[n]
  BY <1>6 DEF LocalInv
<1>10. GoodAfter(n)
  BY <1>1, <1>3, <1>4, <1>7, <1>9 DEF GoodAfter, GoodNode
<1> QED
  BY <1>8, <1>10

\* A handler that returns early.
LEMMA UnchangedGood ==
    ASSUME LocalInv, NEW n \in Node, UNCHANGED localVars
    PROVE  Touches(n) /\ GoodAfter(n)
<1>1. Touches(n)
  BY DEF LocalInv, localVars, Touches
<1>2. GoodAfter(n)
  BY DEF LocalInv, localVars, GoodAfter
<1> QED
  BY <1>1, <1>2

\* An UP message.
LEMMA HandleUpGood ==
    ASSUME SelfInv, LocalInv, NEW n \in Node, NEW msg, GoodMsg(msg, issued),
           HandleUp(n, msg)
    PROVE  Touches(n) /\ GoodAfter(n)
<1> DEFINE m == msg.member
           mem == EraseExpired(members[n], m, msg.uid)
           sus == EraseExpired(suspects[n], m, msg.uid)
           expired == mem # members[n] \/ sus # suspects[n]
           stale == HoldsAtLeast(sus, m, msg.inc) \/ HoldsAtLeast(mem, m, msg.inc)
           new == Assign(mem, m, msg.inc, msg.uid)
<1>1. CASE m = n
  BY <1>1, UnchangedGood DEF HandleUp
<1>2. CASE m # n
  <2>1. GoodNode(n, up[n], members[n], suspects[n], actorSystems[n],
                 gossipQueue[n], issued)
    BY DEF LocalInv
  <2>2. m \in Node /\ msg.inc \in Nat /\ msg.uid \in Nat /\ msg.inc <= issued[m]
    BY DEF GoodMsg, UpdateMessage
  <2>3. /\ GoodMap(mem, issued)
        /\ DOMAIN mem \subseteq DOMAIN members[n]
        /\ DOMAIN members[n] \ {m} \subseteq DOMAIN mem
        /\ mem # members[n] => m \notin DOMAIN mem
    <3>1. IsMap(members[n], Entry)
      BY <2>1 DEF GoodNode, GoodMap
    <3>2. /\ IsMap(mem, Entry)
          /\ DOMAIN mem \subseteq DOMAIN members[n]
          /\ DOMAIN members[n] \ {m} \subseteq DOMAIN mem
          /\ mem # members[n] => m \notin DOMAIN mem
          /\ \A x \in DOMAIN mem : mem[x] = members[n][x]
      BY <3>1, EraseExpiredMap
    <3> QED
      BY <2>1, <3>2 DEF GoodNode, GoodMap
  <2>4. /\ GoodMap(sus, issued)
        /\ DOMAIN suspects[n] \ {m} \subseteq DOMAIN sus
    <3>1. IsMap(suspects[n], Entry)
      BY <2>1 DEF GoodNode, GoodMap
    <3>2. /\ IsMap(sus, Entry)
          /\ DOMAIN sus \subseteq DOMAIN suspects[n]
          /\ DOMAIN suspects[n] \ {m} \subseteq DOMAIN sus
          /\ \A x \in DOMAIN sus : sus[x] = suspects[n][x]
      BY <3>1, EraseExpiredMap
    <3> QED
      BY <2>1, <3>2 DEF GoodNode, GoodMap
  <2>5. GoodMap(new, issued) /\ DOMAIN new = DOMAIN mem \cup {m}
    <3>1. issued \in [Node -> Nat]
      BY DEF SelfInv
    <3> HIDE DEF mem
    <3> QED
      BY <2>2, <2>3, <3>1, AssignGood, AssignDomain
  <2>6. /\ suspects' = [suspects EXCEPT ![n] = sus]
        /\ actorSystems' = [actorSystems EXCEPT ![n] =
               IF expired THEN actorSystems[n] \ {m} ELSE actorSystems[n]]
        /\ members' = [members EXCEPT ![n] = IF stale THEN mem ELSE new]
        /\ IF stale THEN gossipQueue' = gossipQueue ELSE Push(n, msg, mem)
    BY <1>2 DEF HandleUp
  <2>7. /\ GoodQueue(gossipQueue'[n], issued)
        /\ gossipQueue' = [gossipQueue EXCEPT ![n] = gossipQueue'[n]]
    <3>1. CASE stale
      BY <2>1, <2>6, <3>1 DEF LocalInv, GoodNode
    <3>2. CASE ~stale
      <4>1. Push(n, msg, mem) /\ IsMap(mem, Entry)
        BY <2>3, <2>6, <3>2 DEF GoodMap
      <4> QED
        BY <4>1, PushGood
    <3> QED
      BY <3>1, <3>2
  <2> HIDE DEF mem, sus, new, stale, m
  <2>8. Touches(n)
    BY <2>6, <2>7 DEF Touches, LocalInv
  <2>9. /\ members'[n] = (IF stale THEN mem ELSE new)
        /\ suspects'[n] = sus
        /\ actorSystems'[n] = (IF expired THEN actorSystems[n] \ {m}
                                          ELSE actorSystems[n])
    BY <2>6 DEF LocalInv
  <2>10. mem = members[n] \/ expired
    OBVIOUS
  <2>11. actorSystems'[n] \ {n} \subseteq DOMAIN members'[n]
    <3> HIDE DEF expired
    <3> QED
      BY <2>1, <2>3, <2>5, <2>9, <2>10 DEF GoodNode
  <2>12. up[n] => n \in DOMAIN members'[n] \cup DOMAIN suspects'[n]
    BY <1>2, <2>1, <2>3, <2>4, <2>5, <2>9 DEF GoodNode, m
  <2>13. GoodAfter(n)
    BY <2>1, <2>3, <2>4, <2>5, <2>7, <2>9, <2>11, <2>12 DEF GoodAfter, GoodNode
  <2> QED
    BY <2>8, <2>13
<1> QED
  BY <1>1, <1>2

\* A DOWN message.
LEMMA HandleDownGood ==
    ASSUME SelfInv, LocalInv, NEW n \in Node, NEW msg, GoodMsg(msg, issued),
           HandleDown(n, msg)
    PROVE  Touches(n) /\ GoodAfter(n)
<1> DEFINE m == msg.member
           mem == Erase(members[n], m)
           sus == Erase(suspects[n], m)
<1>1. CASE m \notin DOMAIN members[n] \cup DOMAIN suspects[n]
  BY <1>1, UnchangedGood DEF HandleDown
<1>2. CASE m \in DOMAIN members[n] \cup DOMAIN suspects[n]
  <2>1. GoodNode(n, up[n], members[n], suspects[n], actorSystems[n],
                 gossipQueue[n], issued)
    BY DEF LocalInv
  <2>2. Push(n, msg, members[n]) /\ IsMap(members[n], Entry)
    BY <1>2, <2>1 DEF HandleDown, GoodNode, GoodMap
  <2>3. /\ GoodQueue(gossipQueue'[n], issued)
        /\ gossipQueue' = [gossipQueue EXCEPT ![n] = gossipQueue'[n]]
    BY <2>2, PushGood
  <2>4. CASE m = n
    <3>1. UNCHANGED <<members, suspects, actorSystems>>
      BY <1>2, <2>4 DEF HandleDown
    <3>2. Touches(n)
      BY <2>3, <3>1 DEF Touches, LocalInv
    <3>3. GoodAfter(n)
      BY <2>1, <2>3, <3>1 DEF GoodAfter, GoodNode
    <3> QED
      BY <3>2, <3>3
  <2>5. CASE m # n
    <3>1. GoodMap(mem, issued) /\ DOMAIN mem = DOMAIN members[n] \ {m}
      BY <2>1, EraseGood DEF GoodNode
    <3>2. GoodMap(sus, issued) /\ DOMAIN sus = DOMAIN suspects[n] \ {m}
      BY <2>1, EraseGood DEF GoodNode
    <3>3. /\ members' = [members EXCEPT ![n] = mem]
          /\ suspects' = [suspects EXCEPT ![n] = sus]
          /\ actorSystems' = [actorSystems EXCEPT ![n] = actorSystems[n] \ {m}]
      BY <1>2, <2>5 DEF HandleDown
    <3> HIDE DEF mem, sus
    <3>4. Touches(n)
      BY <2>3, <3>3 DEF Touches, LocalInv
    <3>5. /\ members'[n] = mem /\ suspects'[n] = sus
          /\ actorSystems'[n] = actorSystems[n] \ {m}
      BY <3>3 DEF LocalInv
    <3>6. GoodAfter(n)
      BY <2>1, <2>3, <2>5, <3>1, <3>2, <3>5 DEF GoodAfter, GoodNode
    <3> QED
      BY <3>4, <3>6
  <2> QED
    BY <2>4, <2>5
<1> QED
  BY <1>1, <1>2

\* A SUSPECT message.
LEMMA HandleSuspectGood ==
    ASSUME SelfInv, LocalInv, NEW n \in Node, NEW msg, GoodMsg(msg, issued),
           HandleSuspect(n, msg)
    PROVE  Touches(n) /\ GoodAfter(n)
<1> DEFINE m == msg.member
           sus == Assign(suspects[n], m, msg.inc, msg.uid)
<1>1. m \in Node /\ msg.inc \in Nat /\ msg.uid \in Nat /\ msg.inc <= issued[m]
  BY DEF GoodMsg, UpdateMessage
<1>2. GoodNode(n, up[n], members[n], suspects[n], actorSystems[n],
               gossipQueue[n], issued)
  BY DEF LocalInv
<1>3. CASE m \in DOMAIN suspects[n]
  <2>1. GoodMap(sus, issued) /\ DOMAIN sus = DOMAIN suspects[n] \cup {m}
    <3>1. GoodMap(suspects[n], issued) /\ issued \in [Node -> Nat]
      BY <1>2 DEF GoodNode, SelfInv
    <3> QED
      BY <1>1, <3>1, AssignGood, AssignDomain
  <2>2. /\ suspects' = [suspects EXCEPT ![n] =
              IF HoldsAtLeast(suspects[n], m, msg.inc) THEN suspects[n] ELSE sus]
        /\ UNCHANGED <<members, actorSystems, gossipQueue>>
    BY <1>3 DEF HandleSuspect
  <2> HIDE DEF sus
  <2>3. Touches(n)
    BY <2>2 DEF Touches, LocalInv
  <2>4. suspects'[n] = suspects[n] \/ suspects'[n] = sus
    BY <2>2 DEF LocalInv
  <2>5. GoodAfter(n)
    BY <1>2, <2>1, <2>2, <2>4 DEF GoodAfter, GoodNode
  <2> QED
    BY <2>3, <2>5
<1>4. CASE m \notin DOMAIN suspects[n] /\ m \in DOMAIN members[n]
           /\ msg.inc >= members[n][m].inc
  <2>1. Suspect(n, m, msg.inc, msg.uid)
    BY <1>4 DEF HandleSuspect
  <2> QED
    BY <1>1, <2>1, SuspectGood
<1>5. CASE m \notin DOMAIN suspects[n] /\ ~(m \in DOMAIN members[n]
           /\ msg.inc >= members[n][m].inc)
  BY <1>5, UnchangedGood DEF HandleSuspect
<1> QED
  BY <1>3, <1>4, <1>5

\* A RECOVERY message.
LEMMA HandleRecoveryGood ==
    ASSUME SelfInv, LocalInv, NEW n \in Node, NEW msg, GoodMsg(msg, issued),
           HandleRecovery(n, msg)
    PROVE  Touches(n) /\ GoodAfter(n)
<1> DEFINE m == msg.member
<1>1. CASE m \in DOMAIN suspects[n] /\ msg.inc >= suspects[n][m].inc
  <2>1. RecoverySuspect(n, m, msg.uid) /\ msg.uid \in Nat
    BY <1>1 DEF HandleRecovery, GoodMsg, UpdateMessage
  <2> QED
    BY <1>1, <2>1, RecoveryGood
<1>2. CASE ~(m \in DOMAIN suspects[n] /\ msg.inc >= suspects[n][m].inc)
  BY <1>2, UnchangedGood DEF HandleRecovery
<1> QED
  BY <1>1, <1>2

\* An ACTOR_SYSTEM_UP or ACTOR_SYSTEM_DOWN message.
LEMMA HandleActorSystemGood ==
    ASSUME SelfInv, LocalInv, NEW n \in Node, NEW msg, GoodMsg(msg, issued),
           HandleActorSystem(n, msg)
    PROVE  Touches(n) /\ GoodAfter(n)
<1> DEFINE m == msg.member
           mem == Assign(members[n], m, msg.inc, msg.uid)
<1>1. CASE m \notin DOMAIN members[n] \/ HoldsAtLeast(members[n], m, msg.inc)
  BY <1>1, UnchangedGood DEF HandleActorSystem
<1>2. CASE ~(m \notin DOMAIN members[n] \/ HoldsAtLeast(members[n], m, msg.inc))
  <2>1. GoodNode(n, up[n], members[n], suspects[n], actorSystems[n],
                 gossipQueue[n], issued)
    BY DEF LocalInv
  <2>2. m \in Node /\ msg.inc \in Nat /\ msg.uid \in Nat /\ msg.inc <= issued[m]
    BY DEF GoodMsg, UpdateMessage
  <2>3. GoodMap(mem, issued) /\ DOMAIN mem = DOMAIN members[n] \cup {m}
    <3>1. GoodMap(members[n], issued) /\ issued \in [Node -> Nat]
      BY <2>1 DEF GoodNode, SelfInv
    <3> QED
      BY <2>2, <3>1, AssignGood, AssignDomain
  <2>4. Push(n, msg, members[n]) /\ IsMap(members[n], Entry)
    BY <1>2, <2>1 DEF HandleActorSystem, GoodNode, GoodMap
  <2>5. /\ GoodQueue(gossipQueue'[n], issued)
        /\ gossipQueue' = [gossipQueue EXCEPT ![n] = gossipQueue'[n]]
    BY <2>4, PushGood
  <2>6. /\ members' = [members EXCEPT ![n] = mem]
        /\ actorSystems' = [actorSystems EXCEPT ![n] =
              IF msg.status = "ACTOR_SYSTEM_UP" THEN actorSystems[n] \cup {m}
                                                ELSE actorSystems[n] \ {m}]
        /\ suspects' = suspects
    BY <1>2 DEF HandleActorSystem
  <2> HIDE DEF mem
  <2>7. Touches(n)
    BY <2>5, <2>6 DEF Touches, LocalInv
  <2>8. /\ members'[n] = mem /\ suspects'[n] = suspects[n]
        /\ actorSystems'[n] \subseteq actorSystems[n] \cup {m}
    BY <2>6 DEF LocalInv
  <2>9. GoodAfter(n)
    BY <2>1, <2>2, <2>3, <2>5, <2>8 DEF GoodAfter, GoodNode
  <2> QED
    BY <2>7, <2>9
<1> QED
  BY <1>1, <1>2

-----------------------------------------------------------------------------
(* What a higher bound on the issued incarnations leaves true.             *)

Above(iss, high) ==
    /\ iss \in [Node -> Nat] /\ high \in [Node -> Nat]
    /\ \A m \in Node : iss[m] <= high[m]

\* A map stays good.
LEMMA MapAbove ==
    ASSUME NEW iss, NEW high, Above(iss, high), NEW f, GoodMap(f, iss)
    PROVE  GoodMap(f, high)
<1>1. \A m \in DOMAIN f : m \in Node /\ f[m].inc \in Nat
  BY DEF GoodMap, IsMap, Entry
<1> QED
  BY <1>1 DEF GoodMap, Above

\* A message stays good.
LEMMA MsgAbove ==
    ASSUME NEW iss, NEW high, Above(iss, high), NEW msg, GoodMsg(msg, iss)
    PROVE  GoodMsg(msg, high)
BY DEF GoodMsg, Above, UpdateMessage

\* A queue stays good.
LEMMA QueueAbove ==
    ASSUME NEW iss, NEW high, Above(iss, high), NEW q, GoodQueue(q, iss)
    PROVE  GoodQueue(q, high)
BY MsgAbove DEF GoodQueue

\* A node stays good.
LEMMA NodeAbove ==
    ASSUME NEW iss, NEW high, Above(iss, high), NEW n, NEW alive, NEW mem,
           NEW sus, NEW sys, NEW q, GoodNode(n, alive, mem, sus, sys, q, iss)
    PROVE  GoodNode(n, alive, mem, sus, sys, q, high)
<1>1. GoodMap(mem, high) /\ GoodMap(sus, high)
  BY MapAbove DEF GoodNode
<1>2. GoodQueue(q, high)
  BY QueueAbove DEF GoodNode
<1> QED
  BY <1>1, <1>2 DEF GoodNode

\* A pull stays good.
LEMMA PullAbove ==
    ASSUME NEW iss, NEW high, Above(iss, high), NEW p, GoodPull(p, iss)
    PROVE  GoodPull(p, high)
<1>1. \A m \in DOMAIN p.view : m \in Node /\ p.view[m] \in Nat
  BY DEF GoodPull, IsMap
<1> QED
  BY <1>1 DEF GoodPull, Above

\* Issuing an incarnation raises the bound and covers that incarnation.
LEMMA RaisedAbove ==
    ASSUME SelfInv, NEW n \in Node, NEW inc \in Nat
    PROVE  Above(issued, Raised(n, inc)) /\ inc <= Raised(n, inc)[n]
BY DEF SelfInv, Above, Raised

-----------------------------------------------------------------------------
(* Each action keeps the invariant.                                        *)

\* The network is not involved in a step that sends nothing.
LEMMA NetStutter ==
    ASSUME IInv, issued' = issued, gossip' = gossip, pulls' = pulls
    PROVE  GossipInv' /\ PullInv'
BY DEF IInv, GossipInv, PullInv

\* Handling a datagram.
LEMMA HandleGossipInv ==
    ASSUME IInv, NEW d \in gossip, HandleGossip(d)
    PROVE  IInv'
<1>1. d.to \in Node /\ GoodMsg(d.msg, issued)
  BY DEF IInv, GossipInv
<1>2. SelfInv /\ LocalInv
  BY DEF IInv
<1>3. Touches(d.to) /\ GoodAfter(d.to)
  <2>1. \/ HandleUp(d.to, d.msg)
        \/ HandleDown(d.to, d.msg)
        \/ HandleSuspect(d.to, d.msg)
        \/ HandleRecovery(d.to, d.msg)
        \/ HandleActorSystem(d.to, d.msg)
    BY DEF HandleGossip
  <2> QED
    BY <1>1, <1>2, <2>1, HandleUpGood, HandleDownGood, HandleSuspectGood,
       HandleRecoveryGood, HandleActorSystemGood
<1>4. up' = up /\ issued' = issued /\ pulls' = pulls
  BY DEF HandleGossip, selfVars
<1>5. LocalInv'
  BY <1>1, <1>2, <1>3, <1>4, LocalStep
<1>6. SelfInv'
  BY <1>2 DEF HandleGossip, selfVars, SelfInv
<1>7. gossip' \subseteq gossip
  BY DEF HandleGossip
<1>8. GossipInv' /\ PullInv'
  BY <1>4, <1>7 DEF IInv, GossipInv, PullInv
<1> QED
  BY <1>5, <1>6, <1>8 DEF IInv

\* Losing a datagram.
LEMMA LoseGossipInv ==
    ASSUME IInv, NEW d \in gossip, LoseGossip(d)
    PROVE  IInv'
<1>1. UNCHANGED <<localVars, selfVars, pulls, faults>> /\ gossip' \subseteq gossip
  BY DEF LoseGossip
<1>2. up' = up /\ issued' = issued
  BY <1>1 DEF selfVars
<1>3. LocalInv'
  BY <1>1, <1>2, LocalStutter DEF IInv
<1>4. SelfInv'
  BY <1>1 DEF IInv, SelfInv, selfVars
<1>5. GossipInv' /\ PullInv'
  BY <1>1, <1>2 DEF IInv, GossipInv, PullInv
<1> QED
  BY <1>3, <1>4, <1>5 DEF IInv

\* Sending a queued payload.
LEMMA DisseminateInv ==
    ASSUME IInv, NEW n \in Node, NEW item \in gossipQueue[n],
           DisseminateGossip(n, item)
    PROVE  IInv'
<1>1. GoodNode(n, up[n], members[n], suspects[n], actorSystems[n],
               gossipQueue[n], issued)
  BY DEF IInv, LocalInv
<1>2. item \in Item /\ GoodMsg(item.msg, issued)
  BY <1>1 DEF GoodNode, GoodQueue
<1>3. item.times - 1 \in Int
  BY <1>2 DEF Item
<1>4. GoodQueue(gossipQueue[n] \ {item}, issued)
  BY <1>1 DEF GoodNode, GoodQueue
<1>5. GoodQueue(Pushed(gossipQueue[n] \ {item}, item.msg, item.times - 1), issued)
  BY <1>2, <1>3, <1>4, PushedGood
<1>6. /\ gossipQueue' = [gossipQueue EXCEPT ![n] =
             Pushed(gossipQueue[n] \ {item}, item.msg, item.times - 1)]
      /\ UNCHANGED <<members, suspects, actorSystems, selfVars, pulls, faults>>
  BY DEF DisseminateGossip
<1>7. up' = up /\ issued' = issued
  BY <1>6 DEF selfVars
<1>8. Touches(n)
  BY <1>6 DEF Touches, IInv, LocalInv
<1>9. gossipQueue'[n] = Pushed(gossipQueue[n] \ {item}, item.msg, item.times - 1)
  BY <1>6 DEF IInv, LocalInv
<1>10. GoodAfter(n)
  BY <1>1, <1>5, <1>6, <1>9 DEF GoodAfter, GoodNode
<1>11. LocalInv'
  BY <1>7, <1>8, <1>10, LocalStep DEF IInv
<1>12. SelfInv'
  BY <1>6 DEF IInv, SelfInv, selfVars
<1>13. \A d \in gossip' : d \in gossip
          \/ \E m \in DOMAIN members[n] : d = [to |-> m, msg |-> item.msg]
  BY DEF DisseminateGossip
<1>14. \A m \in DOMAIN members[n] : m \in Node
  BY <1>1 DEF GoodNode, GoodMap, IsMap
<1>15. GossipInv'
  BY <1>2, <1>7, <1>13, <1>14 DEF IInv, GossipInv, GoodMsg
<1>16. PullInv'
  BY <1>6, <1>7 DEF IInv, PullInv
<1> QED
  BY <1>11, <1>12, <1>15, <1>16 DEF IInv

\* A step of one node that may start or stop it and may issue incarnations.
LEMMA LocalStepAbove ==
    ASSUME LocalInv, NEW n \in Node, Touches(n), Above(issued, issued'),
           \A x \in Node \ {n} : up'[x] = up[x],
           GoodNode(n, up'[n], members'[n], suspects'[n], actorSystems'[n],
                    gossipQueue'[n], issued')
    PROVE  LocalInv'
<1>1. ASSUME NEW x \in Node \ {n}
      PROVE  GoodNode(x, up'[x], members'[x], suspects'[x], actorSystems'[x],
                      gossipQueue'[x], issued')
  <2>1. GoodNode(x, up[x], members[x], suspects[x], actorSystems[x],
                 gossipQueue[x], issued)
    BY DEF LocalInv
  <2>2. GoodNode(x, up[x], members[x], suspects[x], actorSystems[x],
                 gossipQueue[x], issued')
    BY <2>1, NodeAbove
  <2> QED
    BY <2>2 DEF Touches
<1>2. \A x \in Node : GoodNode(x, up'[x], members'[x], suspects'[x],
                               actorSystems'[x], gossipQueue'[x], issued')
  BY <1>1
<1>3. \A x \in Node : actorSystems'[x] \in SUBSET Node
  BY <1>2 DEF GoodNode
<1>4. \A x \in Node : gossipQueue'[x] \in SUBSET Item
  BY <1>2 DEF GoodNode, GoodQueue
<1> QED
  BY <1>2, <1>3, <1>4 DEF LocalInv, Touches

\* Issuing an incarnation leaves the network good.
LEMMA NetAbove ==
    ASSUME IInv, Above(issued, issued')
    PROVE  /\ \A d \in gossip : d \in [to : Node, msg : UpdateMessage]
                                  /\ GoodMsg(d.msg, issued')
           /\ \A p \in pulls : GoodPull(p, issued')
<1>1. \A d \in gossip : GoodMsg(d.msg, issued')
  BY MsgAbove DEF IInv, GossipInv
<1>2. \A p \in pulls : GoodPull(p, issued')
  BY PullAbove DEF IInv, PullInv
<1> QED
  BY <1>1, <1>2 DEF IInv, GossipInv

\* An unchanged bound is a bound.
LEMMA AboveSame == ASSUME SelfInv, issued' = issued PROVE Above(issued, issued')
BY DEF SelfInv, Above

\* A request to a seed is a good pull.
LEMMA SeedPullGood ==
    ASSUME NEW n \in Node, NEW life \in Nat, NEW s \in Node, NEW iss
    PROVE  GoodPull(SeedPull(n, life, s), iss)
BY DEF GoodPull, SeedPull, NoView, IsMap, Pull, NoUid

\* Starting a node keeper.
LEMMA StartInv ==
    ASSUME IInv, NEW n \in Node, Start(n)
    PROVE  IInv'
<1> DEFINE mem == Assign(Empty, n, 0, uid[n] + 1)
<1>1. issued \in [Node -> Nat] /\ uid[n] + 1 \in Nat /\ 0 <= issued[n]
  BY DEF IInv, SelfInv
<1>2. GoodMap(Empty, issued)
  BY EmptyMap DEF GoodMap
<1>3. GoodMap(mem, issued) /\ DOMAIN mem = {n}
  <2> DEFINE life == uid[n] + 1
             zero == 0
  <2>1. life \in Nat /\ zero \in Nat /\ zero <= issued[n]
    BY <1>1
  <2> HIDE DEF life, zero
  <2>2. GoodMap(Assign(Empty, n, zero, life), issued)
    BY <1>1, <1>2, <2>1, AssignGood
  <2>3. DOMAIN Assign(Empty, n, zero, life) = {n}
    <3>1. DOMAIN Assign(Empty, n, zero, life) = DOMAIN Empty \cup {n}
      BY AssignDomain
    <3> QED
      BY <3>1, EmptyMap
  <2> QED
    BY <2>2, <2>3 DEF life, zero
<1>4. /\ members' = [members EXCEPT ![n] = mem]
      /\ suspects' = [suspects EXCEPT ![n] = Empty]
      /\ actorSystems' = [actorSystems EXCEPT ![n] = {}]
      /\ gossipQueue' = [gossipQueue EXCEPT ![n] = {}]
      /\ up' = [up EXCEPT ![n] = TRUE]
      /\ issued' = issued /\ gossip' = gossip /\ left' = left /\ faults' = faults
  BY DEF Start
<1> HIDE DEF mem
<1>5. Touches(n)
  BY <1>4 DEF Touches, IInv, LocalInv
<1>6. /\ members'[n] = mem /\ suspects'[n] = Empty /\ actorSystems'[n] = {}
      /\ gossipQueue'[n] = {}
  BY <1>4 DEF IInv, LocalInv
<1>7. GoodNode(n, up'[n], members'[n], suspects'[n], actorSystems'[n],
               gossipQueue'[n], issued')
  BY <1>2, <1>3, <1>4, <1>6 DEF GoodNode, GoodQueue
<1>8. \A x \in Node \ {n} : up'[x] = up[x]
  BY <1>4 DEF IInv, SelfInv
<1>9. Above(issued, issued')
  BY <1>4, AboveSame DEF IInv
<1>10. LocalInv'
  BY <1>5, <1>7, <1>8, <1>9, LocalStepAbove DEF IInv
<1>11. SelfInv'
  BY <1>1, <1>4 DEF IInv, SelfInv, Start
<1>12. GossipInv'
  BY <1>4 DEF IInv, GossipInv
<1>13. PullInv'
  <2>1. \A s \in Seeds[n] : GoodPull(SeedPull(n, uid[n] + 1, s), issued)
    BY <1>1, SeedPullGood, SeedsAssumption
  <2>2. \A p \in pulls' : p \in pulls
           \/ \E s \in Seeds[n] : p = SeedPull(n, uid[n] + 1, s)
    BY DEF Start
  <2> QED
    BY <1>4, <2>1, <2>2 DEF IInv, PullInv
<1> QED
  BY <1>10, <1>11, <1>12, <1>13 DEF IInv

\* What stopping does to the maps.
LEMMA StopLocal ==
    ASSUME IInv, NEW n \in Node, Stop(n), Above(issued, issued')
    PROVE  LocalInv'
<1>1. /\ members' = [members EXCEPT ![n] = Empty]
      /\ suspects' = [suspects EXCEPT ![n] = Empty]
      /\ actorSystems' = [actorSystems EXCEPT ![n] = {}]
      /\ gossipQueue' = [gossipQueue EXCEPT ![n] = {}]
      /\ up' = [up EXCEPT ![n] = FALSE]
  BY DEF Stop
<1>2. Touches(n)
  BY <1>1 DEF Touches, IInv, LocalInv
<1>3. /\ members'[n] = Empty /\ suspects'[n] = Empty /\ actorSystems'[n] = {}
      /\ gossipQueue'[n] = {} /\ up'[n] = FALSE
  BY <1>1 DEF IInv, LocalInv, SelfInv
<1>4. GoodMap(Empty, issued')
  BY EmptyMap DEF GoodMap
<1>5. GoodNode(n, up'[n], members'[n], suspects'[n], actorSystems'[n],
               gossipQueue'[n], issued')
  BY <1>3, <1>4 DEF GoodNode, GoodQueue
<1>6. \A x \in Node \ {n} : up'[x] = up[x]
  BY <1>1 DEF IInv, SelfInv
<1> QED
  BY <1>2, <1>5, <1>6, LocalStepAbove DEF IInv

\* A crash.
LEMMA CrashInv ==
    ASSUME IInv, NEW n \in Node, Crash(n)
    PROVE  IInv'
<1>1. Stop(n) /\ UNCHANGED <<uid, incarnation, gossip, faults, issued, left>>
  BY DEF Crash
<1>2. Above(issued, issued')
  BY <1>1, AboveSame DEF IInv
<1>3. LocalInv'
  BY <1>1, <1>2, StopLocal
<1>4. SelfInv'
  BY <1>1 DEF IInv, SelfInv, Stop
<1>5. GossipInv' /\ PullInv'
  BY <1>1 DEF IInv, GossipInv, PullInv, Stop
<1> QED
  BY <1>3, <1>4, <1>5 DEF IInv

\* Announcing the leave.
LEMMA NotifyLeaveInv ==
    ASSUME IInv, NEW n \in Node, NotifyLeave(n)
    PROVE  IInv'
<1> DEFINE inc == incarnation[n] + 1
           down == Update("DOWN", n, inc, uid[n])
<1>1. Stop(n) /\ uid' = uid /\ faults' = faults
  BY DEF NotifyLeave
<1>2. CASE Cardinality(DOMAIN members[n]) > 1
  <2>1. inc \in Nat /\ uid[n] \in Nat
    BY DEF IInv, SelfInv
  <2>2. /\ incarnation' = [incarnation EXCEPT ![n] = inc]
        /\ issued' = Raised(n, inc)
        /\ left' = left \cup {n}
        /\ \A d \in gossip' : d \in gossip
              \/ \E m \in DOMAIN members[n] : d = [to |-> m, msg |-> down]
    BY <1>2 DEF NotifyLeave
  <2> HIDE DEF inc
  <2>3. Above(issued, issued') /\ inc <= issued'[n]
    BY <2>1, <2>2, RaisedAbove DEF IInv
  <2>4. LocalInv'
    BY <1>1, <2>3, StopLocal
  <2>5. SelfInv'
    <3>1. selfActorSystemUp' \in [Node -> BOOLEAN] /\ up' \in [Node -> BOOLEAN]
      BY <1>1 DEF IInv, SelfInv, Stop
    <3>2. ASSUME NEW x \in Node
          PROVE  incarnation'[x] <= issued'[x]
      <4>1. incarnation[x] <= issued[x] /\ issued[x] <= issued'[x]
        BY <2>3 DEF IInv, SelfInv, Above
      <4>2. incarnation[x] \in Nat /\ issued[x] \in Nat /\ issued'[x] \in Nat
        BY <2>3 DEF IInv, SelfInv, Above
      <4>3. incarnation'[x] = IF x = n THEN inc ELSE incarnation[x]
        BY <2>2 DEF IInv, SelfInv
      <4> QED
        BY <2>3, <4>1, <4>2, <4>3
    <3> QED
      BY <1>1, <2>1, <2>2, <2>3, <3>1, <3>2 DEF IInv, SelfInv, Above
  <2>6. GoodMsg(down, issued')
    BY <2>1, <2>3 DEF GoodMsg, Update, UpdateMessage, Status
  <2>7. \A m \in DOMAIN members[n] : m \in Node
    BY DEF IInv, LocalInv, GoodNode, GoodMap, IsMap
  <2>8. /\ \A d \in gossip : d \in [to : Node, msg : UpdateMessage]
                                /\ GoodMsg(d.msg, issued')
        /\ \A p \in pulls : GoodPull(p, issued')
    BY <2>3, NetAbove
  <2> HIDE DEF down
  <2>9. GossipInv'
    BY <2>2, <2>6, <2>7, <2>8 DEF GossipInv, GoodMsg
  <2>10. PullInv'
    BY <1>1, <2>8 DEF PullInv, Stop
  <2> QED
    BY <2>4, <2>5, <2>9, <2>10 DEF IInv
<1>3. CASE ~(Cardinality(DOMAIN members[n]) > 1)
  <2>1. UNCHANGED <<incarnation, issued, left, gossip>>
    BY <1>3 DEF NotifyLeave
  <2>2. Above(issued, issued')
    BY <2>1, AboveSame DEF IInv
  <2>3. LocalInv'
    BY <1>1, <2>2, StopLocal
  <2>4. SelfInv'
    BY <1>1, <2>1 DEF IInv, SelfInv, Stop
  <2>5. GossipInv' /\ PullInv'
    BY <1>1, <2>1 DEF IInv, GossipInv, PullInv, Stop
  <2> QED
    BY <2>3, <2>4, <2>5 DEF IInv
<1> QED
  BY <1>2, <1>3

\* What the report of an actor system, up or down, does to the queue.
LEMMA AnnounceGood ==
    ASSUME IInv, NEW n \in Node, NEW s \in Status, NEW inc \in Nat,
           issued' = Raised(n, inc), up' = up,
           UNCHANGED <<members, suspects, gossip, pulls>>,
           actorSystems' = [actorSystems EXCEPT ![n] = actorSystems'[n]],
           actorSystems'[n] \subseteq actorSystems[n] \cup {n},
           Push(n, Update(s, n, inc, uid[n]), members[n])
    PROVE  LocalInv' /\ GossipInv' /\ PullInv' /\ Above(issued, issued')
             /\ inc <= issued'[n]
<1> DEFINE msg == Update(s, n, inc, uid[n])
           times == GetRetransmitLimit(members[n])
<1>1. Above(issued, issued') /\ inc <= issued'[n]
  BY RaisedAbove DEF IInv
<1>2. GoodNode(n, up[n], members[n], suspects[n], actorSystems[n],
               gossipQueue[n], issued)
  BY DEF IInv, LocalInv
<1>3. GoodNode(n, up[n], members[n], suspects[n], actorSystems[n],
               gossipQueue[n], issued')
  BY <1>1, <1>2, NodeAbove
<1>4. GoodMsg(msg, issued')
  BY <1>1 DEF GoodMsg, Update, UpdateMessage, IInv, SelfInv
<1>5. times \in Int
  BY <1>3, LimitType DEF GoodNode, GoodMap
<1>6. gossipQueue' = [gossipQueue EXCEPT ![n] = Pushed(gossipQueue[n], msg, times)]
  BY DEF Push
<1> HIDE DEF msg, times
<1>7. GoodQueue(Pushed(gossipQueue[n], msg, times), issued')
  BY <1>3, <1>4, <1>5, PushedGood DEF GoodNode
<1>8. gossipQueue'[n] = Pushed(gossipQueue[n], msg, times)
  BY <1>6 DEF IInv, LocalInv
<1>9. Touches(n)
  BY <1>6 DEF Touches, IInv, LocalInv
<1>10. GoodNode(n, up'[n], members'[n], suspects'[n], actorSystems'[n],
                gossipQueue'[n], issued')
  BY <1>3, <1>7, <1>8 DEF GoodNode
<1>11. LocalInv'
  BY <1>1, <1>9, <1>10, LocalStepAbove DEF IInv
<1>12. GossipInv' /\ PullInv'
  BY <1>1, NetAbove DEF GossipInv, PullInv
<1> QED
  BY <1>1, <1>11, <1>12

\* The application reports ready.
LEMMA ActorSystemUpInv ==
    ASSUME IInv, NEW n \in Node, ActorSystemUp(n)
    PROVE  IInv'
<1> DEFINE inc == incarnation[n] + 1
<1>1. inc \in Nat /\ "ACTOR_SYSTEM_UP" \in Status
  BY DEF IInv, SelfInv, Status
<1>2. /\ issued' = Raised(n, inc) /\ up' = up
      /\ UNCHANGED <<members, suspects, gossip, pulls>>
      /\ incarnation' = [incarnation EXCEPT ![n] = inc]
      /\ Push(n, Update("ACTOR_SYSTEM_UP", n, inc, uid[n]), members[n])
  BY DEF ActorSystemUp
<1>3. /\ actorSystems' = [actorSystems EXCEPT ![n] = actorSystems'[n]]
      /\ actorSystems'[n] \subseteq actorSystems[n] \cup {n}
  BY DEF ActorSystemUp, IInv, LocalInv
<1> HIDE DEF inc
<1>4. LocalInv' /\ GossipInv' /\ PullInv' /\ Above(issued, issued')
        /\ inc <= issued'[n]
  BY <1>1, <1>2, <1>3, AnnounceGood
<1>5. SelfInv'
  BY <1>1, <1>2, <1>4 DEF IInv, SelfInv, ActorSystemUp, Above
<1> QED
  BY <1>4, <1>5 DEF IInv

\* The daemon reports that the application exited.
LEMMA NotifyActorSystemDownInv ==
    ASSUME IInv, NEW n \in Node, NotifyActorSystemDown(n)
    PROVE  IInv'
<1> DEFINE inc == incarnation[n] + 1
<1>1. inc \in Nat /\ "ACTOR_SYSTEM_DOWN" \in Status
  BY DEF IInv, SelfInv, Status
<1>2. /\ issued' = Raised(n, inc) /\ up' = up
      /\ UNCHANGED <<members, suspects, gossip, pulls>>
      /\ incarnation' = [incarnation EXCEPT ![n] = inc]
      /\ Push(n, Update("ACTOR_SYSTEM_DOWN", n, inc, uid[n]), members[n])
  BY DEF NotifyActorSystemDown
<1>3. /\ actorSystems' = [actorSystems EXCEPT ![n] = actorSystems'[n]]
      /\ actorSystems'[n] \subseteq actorSystems[n] \cup {n}
  BY DEF NotifyActorSystemDown, IInv, LocalInv
<1> HIDE DEF inc
<1>4. LocalInv' /\ GossipInv' /\ PullInv' /\ Above(issued, issued')
        /\ inc <= issued'[n]
  BY <1>1, <1>2, <1>3, AnnounceGood
<1>5. SelfInv'
  BY <1>1, <1>2, <1>4 DEF IInv, SelfInv, NotifyActorSystemDown, Above
<1> QED
  BY <1>4, <1>5 DEF IInv

-----------------------------------------------------------------------------
(* Pulls.                                                                  *)

\* A step that changes only the pulls, and faults, keeps the rest.
LEMMA PullOnly ==
    ASSUME IInv, UNCHANGED <<localVars, selfVars, gossip>>, faults' \in Nat,
           \A p \in pulls' : GoodPull(p, issued)
    PROVE  IInv'
<1>1. up' = up /\ issued' = issued
  BY DEF selfVars
<1>2. LocalInv'
  BY <1>1, LocalStutter DEF IInv
<1>3. SelfInv'
  BY DEF IInv, SelfInv, selfVars
<1>4. GossipInv' /\ PullInv'
  BY <1>1 DEF IInv, GossipInv, PullInv
<1> QED
  BY <1>2, <1>3, <1>4 DEF IInv

\* Answering a pull: the other pulls stay, and the answer is good.
LEMMA AnsweredGood ==
    ASSUME IInv, NEW p, NEW answer, GoodPull(answer, issued)
    PROVE  \A q \in Answered(p, answer) : GoodPull(q, issued)
BY DEF Answered, IInv, PullInv

\* An answer without a view is good.
LEMMA BareAnswerGood ==
    ASSUME IInv, NEW p \in pulls, NEW phase \in {"ok", "error"}
    PROVE  GoodPull([p EXCEPT !.phase = phase, !.view = NoView, !.systems = {}],
                    issued)
<1>1. p \in Pull(p.view)
  BY DEF IInv, PullInv, GoodPull
<1> QED
  BY <1>1 DEF GoodPull, Pull, NoView, IsMap

\* A ping that starts.
LEMMA PingInv ==
    ASSUME IInv, NEW n \in Node, NEW target \in Node, Ping(n, target)
    PROVE  IInv'
<1> DEFINE view == Incarnations(members[n])
           ping(u) == [kind |-> "ping", from |-> n, life |-> uid[n], to |-> target,
                       key |-> u, phase |-> "request", view |-> view,
                       systems |-> actorSystems[n] \cap DOMAIN members[n]]
<1>1. GoodNode(n, up[n], members[n], suspects[n], actorSystems[n],
               gossipQueue[n], issued)
  BY DEF IInv, LocalInv
<1>2. IsMap(view, Nat) /\ DOMAIN view = DOMAIN members[n]
        /\ \A m \in DOMAIN view : view[m] <= issued[m]
  BY <1>1 DEF GoodNode, GoodMap, IsMap, Entry, Incarnations
<1>3. \A u \in KeysOf(n, target) : u \in Nat
  BY <1>1 DEF KeysOf, GoodNode, GoodMap, IsMap, Entry
<1>4. uid[n] \in Nat
  BY DEF IInv, SelfInv
<1>5. PICK u \in KeysOf(n, target) : pulls' = pulls \cup {ping(u)}
  BY DEF Ping
<1> HIDE DEF view
<1>6. GoodPull(ping(u), issued)
  BY <1>1, <1>2, <1>3, <1>4 DEF GoodPull, Pull, GoodNode
<1>7. \A p \in pulls' : GoodPull(p, issued)
  BY <1>5, <1>6 DEF IInv, PullInv
<1>8. UNCHANGED <<localVars, selfVars, gossip>> /\ faults' \in Nat
  BY DEF Ping, IInv, SelfInv
<1> QED
  BY <1>7, <1>8, PullOnly

\* A full state request that is served.
LEMMA HandleFullStateInv ==
    ASSUME IInv, NEW p \in pulls, HandleFullState(p)
    PROVE  IInv'
<1> DEFINE view == [m \in DOMAIN members[p.to] |-> 0]
           systems == actorSystems[p.to] \cap DOMAIN members[p.to]
           answer == [p EXCEPT !.phase = "ok", !.view = view, !.systems = systems]
<1>1. p \in Pull(p.view) /\ p.to \in Node
  BY DEF IInv, PullInv, GoodPull, Pull
<1>2. DOMAIN members[p.to] \subseteq Node
  BY <1>1 DEF IInv, LocalInv, GoodNode, GoodMap, IsMap
<1>3. IsMap(view, Nat) /\ DOMAIN view = DOMAIN members[p.to]
        /\ systems \subseteq Node
        /\ \A m \in DOMAIN view : view[m] <= issued[m]
  BY <1>2 DEF IsMap, IInv, SelfInv
<1>4. systems \subseteq DOMAIN view
  BY <1>3
<1> HIDE DEF view, systems
<1>5. GoodPull(answer, issued)
  BY <1>1, <1>3, <1>4 DEF GoodPull, Pull
<1>6. pulls' = Answered(p, answer)
  BY DEF HandleFullState, view, systems
<1> HIDE DEF answer
<1>7. \A q \in pulls' : GoodPull(q, issued)
  BY <1>5, <1>6, AnsweredGood
<1>8. UNCHANGED <<localVars, selfVars, gossip>> /\ faults' \in Nat
  BY DEF HandleFullState, IInv, SelfInv
<1> QED
  BY <1>7, <1>8, PullOnly

\* A pull that fails.
LEMMA PullErrorInv ==
    ASSUME IInv, NEW p \in pulls, PullError(p)
    PROVE  IInv'
<1> DEFINE answer == [p EXCEPT !.phase = "error", !.view = NoView, !.systems = {}]
<1>1. GoodPull(answer, issued)
  BY BareAnswerGood
<1>2. pulls' = Answered(p, answer)
  BY DEF PullError
<1> HIDE DEF answer
<1>3. \A q \in pulls' : GoodPull(q, issued)
  BY <1>1, <1>2, AnsweredGood
<1>4. UNCHANGED <<localVars, selfVars, gossip>> /\ faults' \in Nat
  BY DEF PullError, IInv, SelfInv
<1> QED
  BY <1>3, <1>4, PullOnly

\* A pull from a seed that is tried again.
LEMMA PullFromSeedAgainInv ==
    ASSUME IInv, NEW p \in pulls, PullFromSeedAgain(p)
    PROVE  IInv'
<1>1. p.from \in Node /\ p.life \in Nat
  BY DEF IInv, PullInv, GoodPull, Pull
<1>2. PICK s \in Seeds[p.from] :
         pulls' = (pulls \ {p}) \cup {SeedPull(p.from, p.life, s)}
  BY DEF PullFromSeedAgain
<1>3. GoodPull(SeedPull(p.from, p.life, s), issued)
  BY <1>1, SeedPullGood, SeedsAssumption
<1>4. \A q \in pulls' : GoodPull(q, issued)
  BY <1>2, <1>3 DEF IInv, PullInv
<1>5. UNCHANGED <<localVars, selfVars, gossip>> /\ faults' \in Nat
  BY DEF PullFromSeedAgain, IInv, SelfInv
<1> QED
  BY <1>4, <1>5, PullOnly

\* The callback of a ping.
LEMMA DidPingInv ==
    ASSUME IInv, NEW p \in pulls, DidPing(p)
    PROVE  IInv'
<1> DEFINE n == p.from
           m == p.to
<1>1. n \in Node /\ m \in Node /\ p.key \in Nat
  BY DEF IInv, PullInv, GoodPull, Pull
<1>2. SelfInv /\ LocalInv
  BY DEF IInv
<1>3. Touches(n) /\ GoodAfter(n)
  <2>1. CASE p.phase = "ok" /\ m \in DOMAIN suspects[n]
    <3>1. RecoverySuspect(n, m, p.key)
      BY <2>1 DEF DidPing
    <3> QED
      BY <1>1, <1>2, <2>1, <3>1, RecoveryGood
  <2>2. CASE p.phase = "error" /\ m \in DOMAIN members[n]
    <3> DEFINE inc == members[n][m].inc
    <3>1. Suspect(n, m, inc, p.key)
      BY <2>2 DEF DidPing
    <3>2. inc \in Nat /\ inc <= issued[m]
      BY <1>1, <1>2, <2>2 DEF LocalInv, GoodNode, GoodMap, IsMap, Entry
    <3> HIDE DEF inc
    <3> QED
      BY <1>1, <1>2, <3>1, <3>2, SuspectGood
  <2>3. CASE ~(p.phase = "ok" /\ m \in DOMAIN suspects[n])
             /\ ~(p.phase = "error" /\ m \in DOMAIN members[n])
    <3>1. UNCHANGED localVars
      BY <2>3 DEF DidPing
    <3> QED
      BY <1>1, <1>2, <3>1, UnchangedGood
  <2> QED
    BY <2>1, <2>2, <2>3
<1>4. UNCHANGED <<selfVars, gossip, faults>> /\ pulls' \subseteq pulls
  BY DEF DidPing
<1>5. up' = up /\ issued' = issued
  BY <1>4 DEF selfVars
<1>6. LocalInv'
  BY <1>1, <1>2, <1>3, <1>5, LocalStep
<1>7. SelfInv'
  BY <1>2, <1>4 DEF SelfInv, selfVars
<1>8. GossipInv' /\ PullInv'
  BY <1>4, <1>5 DEF IInv, GossipInv, PullInv
<1> QED
  BY <1>6, <1>7, <1>8 DEF IInv

\* A ping that is served.
LEMMA HandlePingInv ==
    ASSUME IInv, NEW p \in pulls, HandlePing(p)
    PROVE  IInv'
<1> DEFINE n == p.to
           old == members[n]
           newer == Newer(old, p.view)
           mem == [m \in DOMAIN old \cup newer |->
                     IF m \in newer
                       THEN [inc |-> p.view[m],
                             uid |-> IF m \in DOMAIN old THEN old[m].uid ELSE NoUid]
                       ELSE old[m]]
           sys == (actorSystems[n] \ newer) \cup (p.systems \cap newer)
           answer == [p EXCEPT !.phase = "ok", !.view = NoView, !.systems = {}]
<1>1. n \in Node /\ GoodPull(p, issued)
  BY DEF IInv, PullInv, GoodPull, Pull
<1>2. GoodNode(n, up[n], old, suspects[n], actorSystems[n], gossipQueue[n], issued)
  BY <1>1 DEF IInv, LocalInv
<1>3. newer \subseteq DOMAIN p.view /\ newer \subseteq Node
  BY <1>1 DEF Newer, GoodPull, IsMap
<1>4. GoodMap(mem, issued) /\ DOMAIN mem = DOMAIN old \cup newer
  <2>1. /\ \A m \in newer : m \in Node /\ p.view[m] \in Nat /\ p.view[m] <= issued[m]
        /\ \A m \in DOMAIN old : m \in Node /\ old[m] \in Entry
                                   /\ old[m].inc <= issued[m]
    BY <1>1, <1>2, <1>3 DEF GoodPull, IsMap, GoodNode, GoodMap
  <2> HIDE DEF newer, old
  <2>2. \A m \in DOMAIN mem : m \in Node /\ mem[m] \in Entry /\ mem[m].inc <= issued[m]
    BY <2>1 DEF Entry, NoUid
  <2>3. mem = [m \in DOMAIN mem |-> mem[m]]
    OBVIOUS
  <2>4. DOMAIN mem = DOMAIN old \cup newer
    OBVIOUS
  <2> HIDE DEF mem
  <2> QED
    BY <2>2, <2>3, <2>4 DEF GoodMap, IsMap
<1>5. sys \subseteq Node /\ sys \ {n} \subseteq DOMAIN old \cup newer
  BY <1>2, <1>3 DEF GoodNode
<1>6. /\ members' = [members EXCEPT ![n] = mem]
      /\ actorSystems' = [actorSystems EXCEPT ![n] = sys]
      /\ suspects' = suspects /\ gossipQueue' = gossipQueue
  <2>1. DOMAIN members = Node /\ DOMAIN actorSystems = Node
    BY DEF IInv, LocalInv
  <2> QED
    BY <1>1, <2>1 DEF HandlePing, MergeMembers
<1>7. GoodPull(answer, issued)
  BY BareAnswerGood
<1>8. pulls' = Answered(p, answer)
  BY DEF HandlePing
<1> HIDE DEF answer, mem, sys, newer
<1>9. \A q \in pulls' : GoodPull(q, issued)
  BY <1>7, <1>8, AnsweredGood
<1>10. Touches(n)
  BY <1>1, <1>6 DEF Touches, IInv, LocalInv
<1>11. members'[n] = mem /\ actorSystems'[n] = sys
  BY <1>1, <1>6 DEF IInv, LocalInv
<1>12. GoodAfter(n)
  BY <1>2, <1>4, <1>5, <1>6, <1>11 DEF GoodAfter, GoodNode
<1>13. UNCHANGED <<selfVars, gossip, faults>>
  BY DEF HandlePing
<1>14. up' = up /\ issued' = issued
  BY <1>13 DEF selfVars
<1>15. LocalInv'
  BY <1>1, <1>10, <1>12, <1>14, LocalStep DEF IInv
<1>16. SelfInv'
  BY <1>13 DEF IInv, SelfInv, selfVars
<1>17. GossipInv' /\ PullInv'
  BY <1>9, <1>13, <1>14 DEF IInv, GossipInv, PullInv
<1> QED
  BY <1>15, <1>16, <1>17 DEF IInv

\* The full state of a seed that arrives.
LEMMA DidPullSeedInv ==
    ASSUME IInv, NEW p \in pulls, DidPullSeed(p)
    PROVE  IInv'
<1> DEFINE n == p.from
           old == members[n]
           inc == incarnation[n] + 1
           last == IF selfActorSystemUp[n] THEN inc + 1 ELSE inc
           mem == [m \in DOMAIN old \cup DOMAIN p.view |->
                     IF m \in DOMAIN old THEN old[m] ELSE [inc |-> 0, uid |-> NoUid]]
           sys == (actorSystems[n] \ DOMAIN p.view) \cup p.systems
           limit == GetRetransmitLimit(members'[n])
           upMsg == Update("UP", n, inc, uid[n])
           asMsg == Update("ACTOR_SYSTEM_UP", n, last, uid[n])
           announced == Pushed(gossipQueue[n], upMsg, limit)
           both == Pushed(announced, asMsg, limit)
           queue == IF selfActorSystemUp[n] THEN both ELSE announced
<1>1. n \in Node /\ GoodPull(p, issued)
  BY DEF IInv, PullInv, GoodPull, Pull
<1>2. inc \in Nat /\ last \in Nat /\ inc <= last /\ uid[n] \in Nat
  BY <1>1 DEF IInv, SelfInv
<1>3. /\ members' = [members EXCEPT ![n] = mem]
      /\ actorSystems' = [actorSystems EXCEPT ![n] = sys]
      /\ suspects' = suspects
      /\ gossipQueue' = [gossipQueue EXCEPT ![n] = queue]
  <2>1. DOMAIN members = Node /\ DOMAIN actorSystems = Node
    BY DEF IInv, LocalInv
  <2> QED
    BY <1>1, <2>1 DEF DidPullSeed, UpdateActorSystemStatus
<1>4. /\ incarnation' = [incarnation EXCEPT ![n] = last]
      /\ issued' = Raised(n, last)
      /\ UNCHANGED <<up, uid, selfActorSystemUp, left, gossip, faults>>
      /\ pulls' \subseteq pulls
  BY DEF DidPullSeed
<1> HIDE DEF inc, last, mem, limit, announced, both, sys
<1>5. Above(issued, issued') /\ last <= issued'[n]
  BY <1>1, <1>2, <1>4, RaisedAbove DEF IInv
<1>6. GoodNode(n, up[n], old, suspects[n], actorSystems[n], gossipQueue[n], issued')
  <2>1. GoodNode(n, up[n], old, suspects[n], actorSystems[n], gossipQueue[n], issued)
    BY <1>1 DEF IInv, LocalInv
  <2> QED
    BY <1>5, <2>1, NodeAbove
<1>7. GoodMap(mem, issued') /\ DOMAIN mem = DOMAIN old \cup DOMAIN p.view
  <2>1. /\ \A m \in DOMAIN p.view : m \in Node
        /\ \A m \in DOMAIN old : m \in Node /\ old[m] \in Entry
                                   /\ old[m].inc <= issued'[m]
        /\ \A m \in Node : issued'[m] \in Nat
    BY <1>1, <1>5, <1>6 DEF GoodPull, IsMap, GoodNode, GoodMap, Above
  <2> HIDE DEF old
  <2>2. \A m \in DOMAIN mem : m \in Node /\ mem[m] \in Entry
                                /\ mem[m].inc <= issued'[m]
    BY <2>1 DEF Entry, NoUid, mem
  <2>3. mem = [m \in DOMAIN mem |-> mem[m]]
    BY DEF mem
  <2>4. DOMAIN mem = DOMAIN old \cup DOMAIN p.view
    BY DEF mem
  <2> QED
    BY <2>2, <2>3, <2>4 DEF GoodMap, IsMap
<1>8. sys \subseteq Node /\ sys \ {n} \subseteq DOMAIN mem
  BY <1>1, <1>6, <1>7 DEF GoodNode, GoodPull, IsMap, sys
<1>9. /\ members'[n] = mem /\ actorSystems'[n] = sys /\ suspects'[n] = suspects[n]
      /\ gossipQueue'[n] = queue
  BY <1>1, <1>3 DEF IInv, LocalInv
<1>10. GoodMsg(upMsg, issued') /\ GoodMsg(asMsg, issued')
  <2>1. issued'[n] \in Nat
    BY <1>1, <1>5 DEF Above
  <2> QED
    BY <1>1, <1>2, <1>5, <2>1 DEF GoodMsg, Update, UpdateMessage, Status
<1>11. limit \in Int
  <2>1. IsMap(mem, Entry)
    BY <1>7 DEF GoodMap
  <2>2. GetRetransmitLimit(mem) \in Nat
    BY <2>1, LimitType
  <2> QED
    BY <1>9, <2>2 DEF limit
<1> HIDE DEF upMsg, asMsg
<1>12. GoodQueue(announced, issued')
  BY <1>6, <1>10, <1>11, PushedGood DEF GoodNode, announced
<1>13. GoodQueue(both, issued')
  BY <1>10, <1>11, <1>12, PushedGood DEF both
<1>14. GoodQueue(queue, issued')
  BY <1>12, <1>13
<1> HIDE DEF queue
<1>15. GoodNode(n, up'[n], members'[n], suspects'[n], actorSystems'[n],
                gossipQueue'[n], issued')
  BY <1>4, <1>6, <1>7, <1>8, <1>9, <1>14 DEF GoodNode
<1>16. Touches(n)
  BY <1>1, <1>3 DEF Touches, IInv, LocalInv
<1>17. LocalInv'
  BY <1>1, <1>4, <1>5, <1>15, <1>16, LocalStepAbove DEF IInv
<1>18. SelfInv'
  <2>1. ASSUME NEW x \in Node
        PROVE  incarnation'[x] <= issued'[x]
    <3>1. incarnation[x] <= issued[x] /\ issued[x] <= issued'[x]
      BY <1>5 DEF IInv, SelfInv, Above
    <3>2. incarnation[x] \in Nat /\ issued[x] \in Nat /\ issued'[x] \in Nat
      BY <1>5 DEF IInv, SelfInv, Above
    <3>3. incarnation'[x] = IF x = n THEN last ELSE incarnation[x]
      BY <1>4 DEF IInv, SelfInv
    <3> QED
      BY <1>5, <3>1, <3>2, <3>3
  <2> QED
    BY <1>1, <1>2, <1>4, <1>5, <2>1 DEF IInv, SelfInv, Above
<1>19. GossipInv' /\ PullInv'
  BY <1>4, <1>5, NetAbove DEF GossipInv, PullInv
<1> QED
  BY <1>17, <1>18, <1>19 DEF IInv

-----------------------------------------------------------------------------
(* The theorems.                                                           *)

\* Before any node keeper starts.
LEMMA InitInv == Init => IInv
<1> SUFFICES ASSUME Init PROVE IInv
  OBVIOUS
<1>1. SelfInv
  BY DEF Init, SelfInv, NoUid
<1>2. GoodMap(Empty, issued)
  BY EmptyMap DEF GoodMap
<1>3. LocalInv
  BY <1>2 DEF Init, LocalInv, GoodNode, GoodQueue
<1>4. GossipInv /\ PullInv
  BY DEF Init, GossipInv, PullInv
<1> QED
  BY <1>1, <1>3, <1>4 DEF IInv

\* A step that changes nothing.
LEMMA StutterInv == IInv /\ UNCHANGED vars => IInv'
<1> SUFFICES ASSUME IInv, UNCHANGED vars PROVE IInv'
  OBVIOUS
<1>1. UNCHANGED <<localVars, selfVars, gossip, pulls, faults>>
  BY DEF vars
<1>2. (\A p \in pulls' : GoodPull(p, issued)) /\ faults' \in Nat
  BY <1>1 DEF IInv, PullInv, SelfInv
<1> QED
  BY <1>1, <1>2, PullOnly

\* Every step keeps the invariant.
LEMMA NextInv == IInv /\ [Next]_vars => IInv'
<1> SUFFICES ASSUME IInv, [Next]_vars PROVE IInv'
  OBVIOUS
<1>1. ASSUME NEW n \in Node, NodeStep(n) PROVE IInv'
  BY <1>1, StartInv, CrashInv, NotifyLeaveInv, ActorSystemUpInv,
     NotifyActorSystemDownInv, DisseminateInv, PingInv DEF NodeStep
<1>2. ASSUME NEW d \in gossip, HandleGossip(d) \/ LoseGossip(d) PROVE IInv'
  BY <1>2, HandleGossipInv, LoseGossipInv
<1>3. ASSUME NEW p \in pulls, PullStep(p) PROVE IInv'
  BY <1>3, HandlePingInv, HandleFullStateInv, PullErrorInv, DidPingInv,
     DidPullSeedInv, PullFromSeedAgainInv DEF PullStep
<1> QED
  BY <1>1, <1>2, <1>3, StutterInv DEF Next

\* The inductive invariant holds throughout.
THEOREM Inductive == Spec => []IInv
BY InitInv, NextInv, PTL DEF Spec

\* Every variable keeps its type: the maps of every node keeper stay maps from
\* members to entries, and a queued payload always has a send left.
THEOREM TypeCorrect == Spec => []TypeOK
<1>1. IInv => TypeOK
  BY IInvImplies
<1> QED
  BY <1>1, Inductive, PTL

\* No handler of membership.cc ever makes up an incarnation, in any cluster.
THEOREM IncarnationsSound == Spec => []IncarnationsWereIssued
<1>1. IInv => IncarnationsWereIssued
  BY IInvImplies
<1> QED
  BY <1>1, Inductive, PTL

\* Whatever is erased from members_ is also reset in member_actor_system_.
THEOREM ActorSystemsSound == Spec => []ActorSystemsAreMembers
<1>1. IInv => ActorSystemsAreMembers
  BY IInvImplies
<1> QED
  BY <1>1, Inductive, PTL

\* A running node keeper never drops itself from both of its maps.
THEOREM SelfStaysKnown == Spec => []SelfIsKnown
<1>1. IInv => SelfIsKnown
  BY IInvImplies
<1> QED
  BY <1>1, Inductive, PTL


-----------------------------------------------------------------------------
(* What a step may not do to the members that a running node knows.        *)

\* A DOWN message is about a node that announced its leave.
LeftMsg(msg) == msg.status = "DOWN" => msg.member \in left

LeftInv ==
    /\ \A d \in gossip : LeftMsg(d.msg)
    /\ \A n \in Node : \A item \in gossipQueue[n] : LeftMsg(item.msg)

\* A step of n that keeps what n knows, unless n is started or stopped, and queues
\* no DOWN message about a node that has not left.
Steady(n) ==
    /\ up[n] /\ up'[n] =>
          /\ DOMAIN members[n] \cup DOMAIN suspects[n]
                \subseteq DOMAIN members'[n] \cup DOMAIN suspects'[n] \cup left
          /\ \A m \in (DOMAIN members[n] \cap DOMAIN members'[n]) \ DOMAIN suspects[n] :
                members[n][m].uid = members'[n][m].uid
                  => members'[n][m].inc >= members[n][m].inc
    /\ \A item \in gossipQueue'[n] : LeftMsg(item.msg)

\* What holds of every step.
Kept == StillKnown /\ NoOlderIncarnation /\ LeftInv'

LEMMA EntryTypes ==
    ASSUME IInv
    PROVE  \A n \in Node : /\ IsMap(members[n], Entry) /\ IsMap(suspects[n], Entry)
                           /\ \A m \in DOMAIN members[n] : m \in Node /\ members[n][m].inc \in Nat
                           /\ \A m \in DOMAIN suspects[n] : m \in Node /\ suspects[n][m].inc \in Nat
<1>1. \A n \in Node : IsMap(members[n], Entry) /\ IsMap(suspects[n], Entry)
  BY DEF IInv, LocalInv, GoodNode, GoodMap
<1> QED
  BY <1>1 DEF IsMap, Entry

LEMMA SteadyStep ==
    ASSUME IInv, LeftInv, NEW n \in Node, Touches(n), Steady(n), left \subseteq left',
           \A d \in gossip' : d \in gossip \/ (d.msg.status = "DOWN" => d.msg.member \in left')
    PROVE  Kept
<1>1. StillKnown
  BY DEF StillKnown, Steady, Touches
<1>2. NoOlderIncarnation
  <2>1. \A x \in Node : \A m \in DOMAIN members[x] : members[x][m].inc \in Nat
    BY EntryTypes
  <2> QED
    BY <2>1 DEF NoOlderIncarnation, Steady, Touches
<1>3. LeftInv'
  BY DEF LeftInv, LeftMsg, Steady, Touches
<1> QED
  BY <1>1, <1>2, <1>3 DEF Kept

\* A step that changes no map and no queue.
LEMMA QuietStep ==
    ASSUME IInv, LeftInv, members' = members, suspects' = suspects, gossipQueue' = gossipQueue,
           left' = left, \A d \in gossip' : d \in gossip \/ LeftMsg(d.msg)
    PROVE  Kept
<1>1. StillKnown
  BY DEF StillKnown
<1>2. NoOlderIncarnation
  <2>1. \A x \in Node : \A m \in DOMAIN members[x] : members[x][m].inc \in Nat
    BY EntryTypes
  <2> QED
    BY <2>1 DEF NoOlderIncarnation
<1>3. LeftInv'
  BY DEF LeftInv, LeftMsg
<1> QED
  BY <1>1, <1>2, <1>3 DEF Kept

\* Only a DOWN message needs a leave.
LEMMA PushSteady ==
    ASSUME IInv, LeftInv, NEW n \in Node, NEW msg, LeftMsg(msg), NEW f, Push(n, msg, f)
    PROVE  \A item \in gossipQueue'[n] : LeftMsg(item.msg)
<1>1. gossipQueue'[n] = Pushed(gossipQueue[n], msg, GetRetransmitLimit(f))
  BY DEF Push, IInv, LocalInv
<1>2. \A item \in gossipQueue'[n] : item \in gossipQueue[n] \/ item.msg = msg
  BY <1>1 DEF Pushed
<1> QED
  BY <1>2 DEF LeftInv

LEMMA UpdateIsLeft ==
    ASSUME NEW status, status # "DOWN", NEW m, NEW inc, NEW u
    PROVE  LeftMsg(Update(status, m, inc, u))
BY DEF LeftMsg, Update

LEMMA UnchangedSteady ==
    ASSUME IInv, LeftInv, NEW n \in Node, members' = members, suspects' = suspects,
           gossipQueue' = gossipQueue
    PROVE  Steady(n)
<1>1. \A m \in DOMAIN members[n] : members[n][m].inc \in Nat
  BY EntryTypes
<1> QED
  BY <1>1 DEF Steady, LeftInv

LEMMA SuspectSteady ==
    ASSUME IInv, LeftInv, NEW n \in Node, NEW m, NEW inc, NEW u, Suspect(n, m, inc, u)
    PROVE  Steady(n)
<1>1. /\ DOMAIN members'[n] = DOMAIN members[n] \ {m}
      /\ \A x \in DOMAIN members'[n] : members'[n][x] = members[n][x]
  <2>1. members'[n] = Erase(members[n], m)
    BY DEF Suspect, IInv, LocalInv
  <2> QED
    BY <2>1 DEF Erase
<1>2. DOMAIN suspects'[n] = DOMAIN suspects[n] \cup {m}
  <2>1. suspects'[n] = Assign(suspects[n], m, inc, u)
    BY DEF Suspect, IInv, LocalInv
  <2> QED
    BY <2>1 DEF Assign, Put
<1>3. \A item \in gossipQueue'[n] : LeftMsg(item.msg)
  BY PushSteady, UpdateIsLeft DEF Suspect
<1>4. \A x \in DOMAIN members[n] : members[n][x].inc \in Nat
  BY EntryTypes
<1> QED
  BY <1>1, <1>2, <1>3, <1>4 DEF Steady

LEMMA RecoverySteady ==
    ASSUME IInv, LeftInv, NEW n \in Node, NEW m \in DOMAIN suspects[n], NEW u,
           RecoverySuspect(n, m, u)
    PROVE  Steady(n)
<1>1. /\ DOMAIN members'[n] = DOMAIN members[n] \cup {m}
      /\ \A x \in DOMAIN members[n] \ {m} : members'[n][x] = members[n][x]
  <2>1. members'[n] = Assign(members[n], m, suspects[n][m].inc, u)
    BY DEF RecoverySuspect, IInv, LocalInv
  <2> QED
    BY <2>1 DEF Assign, Put
<1>2. DOMAIN suspects'[n] = DOMAIN suspects[n] \ {m}
  <2>1. suspects'[n] = Erase(suspects[n], m)
    BY DEF RecoverySuspect, IInv, LocalInv
  <2> QED
    BY <2>1 DEF Erase
<1>3. \A item \in gossipQueue'[n] : LeftMsg(item.msg)
  BY PushSteady, UpdateIsLeft DEF RecoverySuspect
<1>4. \A x \in DOMAIN members[n] : members[n][x].inc \in Nat
  BY EntryTypes
<1> QED
  BY <1>1, <1>2, <1>3, <1>4 DEF Steady

\* An UP message drops an earlier life only to put the new one in its place, unless the
\* other map holds that already; within a life only a higher incarnation is put.
LEMMA HandleUpSteady ==
    ASSUME IInv, LeftInv, NEW n \in Node, NEW msg, GoodMsg(msg, issued), HandleUp(n, msg)
    PROVE  Steady(n)
<1>1. CASE msg.member = n
  BY <1>1, UnchangedSteady DEF HandleUp, localVars
<1>2. CASE msg.member # n
  <2>1. PICK m, mem, sus :
          /\ m = msg.member /\ mem = EraseExpired(members[n], m, msg.uid)
          /\ sus = EraseExpired(suspects[n], m, msg.uid)
    OBVIOUS
  <2>2. /\ DOMAIN members[n] \ {m} \subseteq DOMAIN mem /\ DOMAIN mem \subseteq DOMAIN members[n]
        /\ \A x \in DOMAIN mem : mem[x] = members[n][x]
        /\ m \in DOMAIN members[n] \ DOMAIN mem => members[n][m].uid # msg.uid
    <3>1. IsMap(members[n], Entry)
      BY EntryTypes
    <3>2. mem # members[n] => m \in DOMAIN members[n] /\ members[n][m].uid # msg.uid
      BY <2>1 DEF EraseExpired
    <3> QED
      BY <2>1, <3>1, <3>2, EraseExpiredMap
  <2>3. DOMAIN suspects[n] \ {m} \subseteq DOMAIN sus
    BY <2>1, EntryTypes, EraseExpiredMap
  <2> DEFINE stale == HoldsAtLeast(sus, m, msg.inc) \/ HoldsAtLeast(mem, m, msg.inc)
  <2>4. /\ suspects'[n] = sus
        /\ members'[n] = IF stale THEN mem ELSE Assign(mem, m, msg.inc, msg.uid)
        /\ IF stale THEN gossipQueue' = gossipQueue ELSE Push(n, msg, mem)
    BY <1>2, <2>1 DEF HandleUp, IInv, LocalInv
  <2>5. \A item \in gossipQueue'[n] : LeftMsg(item.msg)
    <3>1. LeftMsg(msg)
      BY DEF HandleUp, LeftMsg
    <3> QED
      BY <2>4, <3>1, PushSteady DEF LeftInv
  <2>6. \A x \in DOMAIN members[n] : members[n][x].inc \in Nat
    BY EntryTypes
  <2>7. CASE stale
    <3>1. m \in DOMAIN sus \cup DOMAIN mem
      BY <2>7 DEF HoldsAtLeast
    <3> QED
      BY <2>2, <2>3, <2>4, <2>5, <2>6, <2>7, <3>1 DEF Steady
  <2>8. CASE ~stale
    <3>1. members'[n] = Assign(mem, m, msg.inc, msg.uid)
      BY <2>4, <2>8
    <3>2. /\ DOMAIN members'[n] = DOMAIN mem \cup {m} /\ members'[n][m].inc = msg.inc
          /\ m \notin DOMAIN mem => members'[n][m].uid = msg.uid
          /\ \A x \in DOMAIN mem \ {m} : members'[n][x] = mem[x]
      BY <3>1 DEF Assign, Put
    <3>3. m \in DOMAIN mem => ~(mem[m].inc >= msg.inc)
      BY <2>8 DEF HoldsAtLeast
    <3>4. msg.inc \in Nat
      BY DEF GoodMsg, UpdateMessage
    <3>5. ASSUME NEW x \in (DOMAIN members[n] \cap DOMAIN members'[n]) \ DOMAIN suspects[n],
                 members[n][x].uid = members'[n][x].uid
          PROVE  members'[n][x].inc >= members[n][x].inc
      <4>1. CASE x # m
        BY <2>2, <2>6, <3>2, <3>5, <4>1
      <4>2. CASE x = m
        <5>1. m \in DOMAIN mem
          BY <2>2, <3>2, <3>5, <4>2
        <5> QED
          BY <2>2, <2>6, <3>2, <3>3, <3>4, <3>5, <4>2, <5>1
      <4> QED
        BY <4>1, <4>2
    <3> QED
      BY <2>2, <2>3, <2>4, <2>5, <3>2, <3>5 DEF Steady
  <2> QED
    BY <2>7, <2>8
<1> QED
  BY <1>1, <1>2

\* A DOWN message drops only the node that left.
LEMMA HandleDownSteady ==
    ASSUME IInv, LeftInv, NEW n \in Node, NEW msg, LeftMsg(msg), HandleDown(n, msg)
    PROVE  Steady(n)
<1> DEFINE m == msg.member
<1>1. CASE m \notin DOMAIN members[n] \cup DOMAIN suspects[n]
  BY <1>1, UnchangedSteady DEF HandleDown, localVars
<1>2. CASE m \in DOMAIN members[n] \cup DOMAIN suspects[n]
  <2>1. m \in left /\ \A item \in gossipQueue'[n] : LeftMsg(item.msg)
    BY <1>2, PushSteady DEF HandleDown, LeftMsg
  <2>2. /\ DOMAIN members[n] \ {m} \subseteq DOMAIN members'[n]
        /\ DOMAIN suspects[n] \ {m} \subseteq DOMAIN suspects'[n]
        /\ \A x \in DOMAIN members'[n] : x \in DOMAIN members[n] /\ members'[n][x] = members[n][x]
    <3>1. CASE m = n
      BY <1>2, <3>1 DEF HandleDown
    <3>2. CASE m # n
      <4>1. members'[n] = Erase(members[n], m) /\ suspects'[n] = Erase(suspects[n], m)
        BY <1>2, <3>2 DEF HandleDown, IInv, LocalInv
      <4>2. /\ DOMAIN members'[n] = DOMAIN members[n] \ {m}
            /\ \A x \in DOMAIN members[n] \ {m} : members'[n][x] = members[n][x]
        BY <4>1 DEF Erase
      <4>3. DOMAIN suspects'[n] = DOMAIN suspects[n] \ {m}
        BY <4>1 DEF Erase
      <4> QED
        BY <4>2, <4>3
    <3> QED
      BY <3>1, <3>2
  <2>3. \A x \in DOMAIN members[n] : members[n][x].inc \in Nat
    BY EntryTypes
  <2> QED
    BY <2>1, <2>2, <2>3 DEF Steady
<1> QED
  BY <1>1, <1>2

LEMMA HandleSuspectSteady ==
    ASSUME IInv, LeftInv, NEW n \in Node, NEW msg, HandleSuspect(n, msg)
    PROVE  Steady(n)
<1> DEFINE m == msg.member
<1>1. CASE m \in DOMAIN suspects[n]
  <2>1. /\ suspects' = [suspects EXCEPT ![n] =
              IF HoldsAtLeast(suspects[n], m, msg.inc) THEN suspects[n]
              ELSE Assign(suspects[n], m, msg.inc, msg.uid)]
        /\ members' = members /\ gossipQueue' = gossipQueue
    BY <1>1 DEF HandleSuspect
  <2>2. suspects'[n] = suspects[n] \/ suspects'[n] = Assign(suspects[n], m, msg.inc, msg.uid)
    BY <2>1 DEF IInv, LocalInv
  <2>3. DOMAIN suspects[n] \subseteq DOMAIN suspects'[n]
    BY <2>2 DEF Assign, Put
  <2>4. \A x \in DOMAIN members[n] : members[n][x].inc \in Nat
    BY EntryTypes
  <2> QED
    BY <2>1, <2>3, <2>4 DEF Steady, LeftInv
<1>2. CASE m \notin DOMAIN suspects[n] /\ m \in DOMAIN members[n]
           /\ msg.inc >= members[n][m].inc
  <2>1. Suspect(n, m, msg.inc, msg.uid)
    BY <1>2 DEF HandleSuspect
  <2> QED
    BY <2>1, SuspectSteady
<1>3. CASE m \notin DOMAIN suspects[n] /\ ~(m \in DOMAIN members[n]
           /\ msg.inc >= members[n][m].inc)
  BY <1>3, UnchangedSteady DEF HandleSuspect, localVars
<1> QED
  BY <1>1, <1>2, <1>3

LEMMA HandleRecoverySteady ==
    ASSUME IInv, LeftInv, NEW n \in Node, NEW msg, HandleRecovery(n, msg)
    PROVE  Steady(n)
<1> DEFINE m == msg.member
<1>1. CASE m \in DOMAIN suspects[n] /\ msg.inc >= suspects[n][m].inc
  BY <1>1, RecoverySteady DEF HandleRecovery
<1>2. CASE ~(m \in DOMAIN suspects[n] /\ msg.inc >= suspects[n][m].inc)
  BY <1>2, UnchangedSteady DEF HandleRecovery, localVars
<1> QED
  BY <1>1, <1>2

\* The status of an actor system counts only at a higher incarnation.
LEMMA HandleActorSystemSteady ==
    ASSUME IInv, LeftInv, NEW n \in Node, NEW msg, GoodMsg(msg, issued),
           HandleActorSystem(n, msg)
    PROVE  Steady(n)
<1> DEFINE m == msg.member
<1>1. CASE m \notin DOMAIN members[n] \/ HoldsAtLeast(members[n], m, msg.inc)
  BY <1>1, UnchangedSteady DEF HandleActorSystem, localVars
<1>2. CASE m \in DOMAIN members[n] /\ ~HoldsAtLeast(members[n], m, msg.inc)
  <2>1. /\ members'[n] = Assign(members[n], m, msg.inc, msg.uid) /\ suspects' = suspects
        /\ Push(n, msg, members[n])
    BY <1>2 DEF HandleActorSystem, IInv, LocalInv
  <2>2. /\ DOMAIN members'[n] = DOMAIN members[n] /\ members'[n][m].inc = msg.inc
        /\ \A x \in DOMAIN members[n] \ {m} : members'[n][x] = members[n][x]
    BY <1>2, <2>1 DEF Assign, Put
  <2>3. \A item \in gossipQueue'[n] : LeftMsg(item.msg)
    BY <2>1, PushSteady DEF HandleActorSystem, LeftMsg
  <2>4. /\ \A x \in DOMAIN members[n] : members[n][x].inc \in Nat
        /\ msg.inc \in Nat /\ ~(members[n][m].inc >= msg.inc)
    BY <1>2, EntryTypes DEF GoodMsg, UpdateMessage, HoldsAtLeast
  <2>5. \A x \in DOMAIN members[n] : members'[n][x].inc >= members[n][x].inc
    BY <2>2, <2>4
  <2> QED
    BY <2>1, <2>2, <2>3, <2>5 DEF Steady
<1> QED
  BY <1>1, <1>2

LEMMA HandleGossipKeeps ==
    ASSUME IInv, LeftInv, NEW d \in gossip, HandleGossip(d)
    PROVE  Kept
<1>1. d.to \in Node /\ GoodMsg(d.msg, issued) /\ LeftMsg(d.msg) /\ SelfInv /\ LocalInv
  BY DEF IInv, GossipInv, LeftInv
<1>2. \/ HandleUp(d.to, d.msg)
      \/ HandleDown(d.to, d.msg)
      \/ HandleSuspect(d.to, d.msg)
      \/ HandleRecovery(d.to, d.msg)
      \/ HandleActorSystem(d.to, d.msg)
  BY DEF HandleGossip
<1>3. Touches(d.to)
  BY <1>1, <1>2, HandleUpGood, HandleDownGood, HandleSuspectGood, HandleRecoveryGood,
     HandleActorSystemGood
<1>4. Steady(d.to)
  BY <1>1, <1>2, HandleUpSteady, HandleDownSteady, HandleSuspectSteady, HandleRecoverySteady,
     HandleActorSystemSteady
<1>5. left' = left /\ gossip' \subseteq gossip
  BY DEF HandleGossip, selfVars
<1> QED
  BY <1>1, <1>3, <1>4, <1>5, SteadyStep

LEMMA DisseminateKeeps ==
    ASSUME IInv, LeftInv, NEW n \in Node, NEW item \in gossipQueue[n],
           DisseminateGossip(n, item)
    PROVE  Kept
<1>1. /\ members' = members /\ suspects' = suspects /\ actorSystems' = actorSystems
      /\ left' = left
      /\ gossipQueue' = [gossipQueue EXCEPT ![n] =
             Pushed(gossipQueue[n] \ {item}, item.msg, item.times - 1)]
  BY DEF DisseminateGossip, selfVars
<1>2. LeftMsg(item.msg)
  BY DEF LeftInv
<1>3. Touches(n)
  BY <1>1 DEF Touches, IInv, LocalInv
<1>4. \A i \in gossipQueue'[n] : i \in gossipQueue[n] \/ i.msg = item.msg
  <2>1. gossipQueue'[n] = Pushed(gossipQueue[n] \ {item}, item.msg, item.times - 1)
    BY <1>1 DEF IInv, LocalInv
  <2> QED
    BY <2>1 DEF Pushed
<1>5. \A i \in gossipQueue'[n] : LeftMsg(i.msg)
  BY <1>2, <1>4 DEF LeftInv
<1>6. Steady(n)
  <2>1. \A x \in DOMAIN members[n] : members[n][x].inc \in Nat
    BY EntryTypes
  <2>2. members' = members /\ suspects' = suspects
    BY <1>1
  <2> QED
    BY <1>5, <2>1, <2>2 DEF Steady
<1>7. \A d \in gossip' : d \in gossip \/ d.msg = item.msg
  BY DEF DisseminateGossip
<1> QED
  BY <1>1, <1>2, <1>3, <1>6, <1>7, SteadyStep DEF LeftMsg

\* A node that starts or stops keeps nothing; the DOWN messages of a leave are about it.
LEMMA StartKeeps == ASSUME IInv, LeftInv, NEW n \in Node, Start(n) PROVE Kept
<1>1. Touches(n)
  BY DEF Start, Touches, IInv, LocalInv
<1>2. Steady(n)
  BY DEF Start, Steady, IInv, LocalInv
<1>3. left' = left /\ gossip' = gossip
  BY DEF Start
<1> QED
  BY <1>1, <1>2, <1>3, SteadyStep

LEMMA StopKeeps ==
    ASSUME IInv, LeftInv, NEW n \in Node, Stop(n), left \subseteq left',
           \A d \in gossip' : d \in gossip \/ (d.msg.status = "DOWN" => d.msg.member \in left')
    PROVE  Kept
<1>1. Touches(n)
  BY DEF Stop, Touches, IInv, LocalInv
<1>2. Steady(n)
  BY DEF Stop, Steady, IInv, SelfInv, LocalInv
<1> QED
  BY <1>1, <1>2, SteadyStep

LEMMA NotifyLeaveKeeps == ASSUME IInv, LeftInv, NEW n \in Node, NotifyLeave(n) PROVE Kept
<1>1. Stop(n) /\ left \subseteq left'
  BY DEF NotifyLeave
<1>2. CASE Cardinality(DOMAIN members[n]) > 1
  <2>1. left' = left \cup {n}
    BY <1>2 DEF NotifyLeave
  <2>2. \A d \in gossip' : d \in gossip \/ d.msg = Update("DOWN", n, incarnation[n] + 1, uid[n])
    BY <1>2 DEF NotifyLeave
  <2>3. Update("DOWN", n, incarnation[n] + 1, uid[n]).member = n
    BY DEF Update
  <2> QED
    BY <1>1, <2>1, <2>2, <2>3, StopKeeps
<1>3. CASE ~(Cardinality(DOMAIN members[n]) > 1)
  <2>1. gossip' = gossip
    BY <1>3 DEF NotifyLeave
  <2> QED
    BY <1>1, <2>1, StopKeeps
<1> QED
  BY <1>2, <1>3

LEMMA AnnounceKeeps ==
    ASSUME IInv, LeftInv, NEW n \in Node, ActorSystemUp(n) \/ NotifyActorSystemDown(n)
    PROVE  Kept
<1>1. /\ members' = members /\ suspects' = suspects /\ gossip' = gossip /\ left' = left
  BY DEF ActorSystemUp, NotifyActorSystemDown
<1>2. PICK status \in {"ACTOR_SYSTEM_UP", "ACTOR_SYSTEM_DOWN"} :
        Push(n, Update(status, n, incarnation[n] + 1, uid[n]), members[n])
  BY DEF ActorSystemUp, NotifyActorSystemDown
<1>3. \A item \in gossipQueue'[n] : LeftMsg(item.msg)
  BY <1>2, PushSteady, UpdateIsLeft
<1>4. Touches(n)
  <2>1. gossipQueue' = [gossipQueue EXCEPT ![n] = gossipQueue'[n]]
    BY <1>2 DEF Push, IInv, LocalInv
  <2>2. \E S : actorSystems' = [actorSystems EXCEPT ![n] = S]
    BY DEF ActorSystemUp, NotifyActorSystemDown
  <2> QED
    BY <1>1, <2>1, <2>2 DEF Touches, IInv, LocalInv
<1>5. Steady(n)
  <2>1. \A x \in DOMAIN members[n] : members[n][x].inc \in Nat
    BY EntryTypes
  <2> QED
    BY <1>1, <1>3, <2>1 DEF Steady
<1> QED
  BY <1>1, <1>4, <1>5, SteadyStep

\* Pulls that start, are served from the maps, fail or are tried again.
LEMMA PullKeeps ==
    ASSUME IInv, LeftInv, UNCHANGED <<localVars, selfVars, gossip>>
    PROVE  Kept
<1>1. members' = members /\ suspects' = suspects /\ gossipQueue' = gossipQueue
      /\ left' = left /\ gossip' = gossip
  BY DEF localVars, selfVars
<1> QED
  BY <1>1, QuietStep

\* A ping that is served: the view brings in members and higher incarnations.
LEMMA HandlePingKeeps ==
    ASSUME IInv, LeftInv, NEW p \in pulls, HandlePing(p)
    PROVE  Kept
<1> DEFINE n == p.to
           old == members[n]
           newer == Newer(old, p.view)
           mem == [m \in DOMAIN old \cup newer |->
                     IF m \in newer
                       THEN [inc |-> p.view[m],
                             uid |-> IF m \in DOMAIN old THEN old[m].uid ELSE NoUid]
                       ELSE old[m]]
<1>1. n \in Node /\ IsMap(p.view, Nat)
  BY DEF IInv, PullInv, GoodPull, Pull
<1>2. /\ members' = [members EXCEPT ![n] = mem]
      /\ suspects' = suspects /\ gossipQueue' = gossipQueue
      /\ left' = left /\ gossip' = gossip
  <2>1. DOMAIN members = Node
    BY DEF IInv, LocalInv
  <2> QED
    BY <1>1, <2>1 DEF HandlePing, MergeMembers, selfVars
<1>3. Touches(n)
  <2>1. \E S : actorSystems' = [actorSystems EXCEPT ![n] = S]
    BY DEF HandlePing, MergeMembers
  <2>2. DOMAIN members = Node /\ DOMAIN suspects = Node
        /\ actorSystems \in [Node -> SUBSET Node] /\ gossipQueue \in [Node -> SUBSET Item]
    BY DEF IInv, LocalInv
  <2> HIDE DEF mem
  <2> QED
    BY <1>1, <1>2, <2>1, <2>2 DEF Touches
<1>4. \A m \in DOMAIN old : m \in DOMAIN mem /\ mem[m].inc >= old[m].inc
  <2>1. \A m \in DOMAIN old : old[m].inc \in Nat
    BY <1>1, EntryTypes
  <2>2. \A m \in DOMAIN p.view : p.view[m] \in Nat
    BY <1>1 DEF IsMap
  <2> HIDE DEF old
  <2> QED
    BY <2>1, <2>2 DEF Newer
<1>5. members'[n] = mem
  BY <1>1, <1>2 DEF IInv, LocalInv
<1> HIDE DEF mem, newer
<1>6. Steady(n)
  BY <1>1, <1>2, <1>4, <1>5 DEF Steady, LeftInv
<1> QED
  BY <1>1, <1>2, <1>3, <1>6, SteadyStep

\* The callback of a ping moves a node between the maps.
LEMMA DidPingKeeps ==
    ASSUME IInv, LeftInv, NEW p \in pulls, DidPing(p)
    PROVE  Kept
<1> DEFINE n == p.from
           m == p.to
<1>1. n \in Node /\ m \in Node /\ p.key \in Nat
  BY DEF IInv, PullInv, GoodPull, Pull
<1>2. SelfInv /\ LocalInv
  BY DEF IInv
<1>3. Touches(n) /\ Steady(n)
  <2>1. CASE p.phase = "ok" /\ m \in DOMAIN suspects[n]
    <3>1. RecoverySuspect(n, m, p.key)
      BY <2>1 DEF DidPing
    <3> QED
      BY <1>1, <1>2, <2>1, <3>1, RecoveryGood, RecoverySteady
  <2>2. CASE p.phase = "error" /\ m \in DOMAIN members[n]
    <3> DEFINE inc == members[n][m].inc
    <3>1. Suspect(n, m, inc, p.key)
      BY <2>2 DEF DidPing
    <3>2. inc \in Nat /\ inc <= issued[m]
      BY <1>1, <1>2, <2>2 DEF LocalInv, GoodNode, GoodMap, IsMap, Entry
    <3> HIDE DEF inc
    <3> QED
      BY <1>1, <1>2, <3>1, <3>2, SuspectGood, SuspectSteady
  <2>3. CASE ~(p.phase = "ok" /\ m \in DOMAIN suspects[n])
             /\ ~(p.phase = "error" /\ m \in DOMAIN members[n])
    <3>1. UNCHANGED localVars
      BY <2>3 DEF DidPing
    <3>2. members' = members /\ suspects' = suspects /\ gossipQueue' = gossipQueue
      BY <3>1 DEF localVars
    <3> QED
      BY <1>1, <1>2, <3>1, <3>2, UnchangedGood, UnchangedSteady
  <2> QED
    BY <2>1, <2>2, <2>3
<1>4. left' = left /\ gossip' = gossip
  BY DEF DidPing, selfVars
<1> QED
  BY <1>1, <1>3, <1>4, SteadyStep

\* The full state of a seed adds members; the messages announce the node itself.
LEMMA DidPullSeedKeeps ==
    ASSUME IInv, LeftInv, NEW p \in pulls, DidPullSeed(p)
    PROVE  Kept
<1> DEFINE n == p.from
           old == members[n]
           mem == [m \in DOMAIN old \cup DOMAIN p.view |->
                     IF m \in DOMAIN old THEN old[m] ELSE [inc |-> 0, uid |-> NoUid]]
<1>1. n \in Node
  BY DEF IInv, PullInv, GoodPull, Pull
<1>2. /\ members' = [members EXCEPT ![n] = mem]
      /\ suspects' = suspects /\ left' = left /\ gossip' = gossip
  <2>1. DOMAIN members = Node
    BY DEF IInv, LocalInv
  <2> QED
    BY <1>1, <2>1 DEF DidPullSeed, UpdateActorSystemStatus
<1>3. PICK a, b, limit :
        /\ LeftMsg(a) /\ LeftMsg(b)
        /\ \/ gossipQueue' = [gossipQueue EXCEPT ![n] = Pushed(gossipQueue[n], a, limit)]
           \/ gossipQueue' = [gossipQueue EXCEPT ![n] =
                                Pushed(Pushed(gossipQueue[n], a, limit), b, limit)]
  <2> DEFINE inc == incarnation[n] + 1
             last == IF selfActorSystemUp[n] THEN inc + 1 ELSE inc
             limit == GetRetransmitLimit(members'[n])
             upMsg == Update("UP", n, inc, uid[n])
             asMsg == Update("ACTOR_SYSTEM_UP", n, last, uid[n])
             announced == Pushed(gossipQueue[n], upMsg, limit)
  <2>1. LeftMsg(upMsg) /\ LeftMsg(asMsg)
    BY UpdateIsLeft
  <2>2. gossipQueue' = [gossipQueue EXCEPT ![n] =
            IF selfActorSystemUp[n] THEN Pushed(announced, asMsg, limit) ELSE announced]
    <3>1. DOMAIN gossipQueue = Node
      BY DEF IInv, LocalInv
    <3> QED
      BY <1>1, <3>1 DEF DidPullSeed
  <2> HIDE DEF upMsg, asMsg, limit
  <2> QED
    BY <2>1, <2>2
<1>4. \A item \in gossipQueue'[n] : LeftMsg(item.msg)
  <2>1. \/ gossipQueue'[n] = Pushed(gossipQueue[n], a, limit)
        \/ gossipQueue'[n] = Pushed(Pushed(gossipQueue[n], a, limit), b, limit)
    BY <1>1, <1>3 DEF IInv, LocalInv
  <2>2. \A item \in gossipQueue'[n] :
           item \in gossipQueue[n] \/ item.msg = a \/ item.msg = b
    BY <2>1 DEF Pushed
  <2> QED
    BY <1>1, <1>3, <2>2 DEF LeftInv
<1>5. Touches(n)
  <2>1. \E S : actorSystems' = [actorSystems EXCEPT ![n] = S]
    BY DEF DidPullSeed, UpdateActorSystemStatus
  <2>2. \E Q : gossipQueue' = [gossipQueue EXCEPT ![n] = Q]
    BY <1>3
  <2>3. DOMAIN members = Node /\ DOMAIN suspects = Node
        /\ actorSystems \in [Node -> SUBSET Node] /\ gossipQueue \in [Node -> SUBSET Item]
    BY DEF IInv, LocalInv
  <2> HIDE DEF mem
  <2> QED
    BY <1>1, <1>2, <2>1, <2>2, <2>3 DEF Touches
<1>6. \A m \in DOMAIN old : m \in DOMAIN mem /\ mem[m] = old[m] /\ old[m].inc \in Nat
  BY <1>1, EntryTypes
<1>7. members'[n] = mem
  BY <1>1, <1>2 DEF IInv, LocalInv
<1> HIDE DEF mem
<1>8. Steady(n)
  <2>1. suspects'[n] = suspects[n]
    BY <1>2
  <2> QED
    BY <1>4, <1>6, <1>7, <2>1 DEF Steady
<1> QED
  BY <1>1, <1>2, <1>5, <1>8, SteadyStep

\* The remaining steps change no map, or stop a node.
LEMMA NodeStepKeeps ==
    ASSUME IInv, LeftInv, NEW n \in Node, NodeStep(n)
    PROVE  Kept
<1>1. ASSUME Crash(n) PROVE Kept
  <2>1. Stop(n) /\ left' = left /\ gossip' = gossip
    BY <1>1 DEF Crash
  <2> QED
    BY <2>1, StopKeeps
<1>2. ASSUME NEW m \in Node, Ping(n, m) PROVE Kept
  BY <1>2, PullKeeps DEF Ping
<1> QED
  BY <1>1, <1>2, StartKeeps, NotifyLeaveKeeps, AnnounceKeeps, DisseminateKeeps DEF NodeStep

LEMMA PullStepKeeps ==
    ASSUME IInv, LeftInv, NEW p \in pulls, PullStep(p)
    PROVE  Kept
<1>1. ASSUME HandleFullState(p) \/ PullError(p) \/ PullFromSeedAgain(p) PROVE Kept
  BY <1>1, PullKeeps DEF HandleFullState, PullError, PullFromSeedAgain
<1> QED
  BY <1>1, HandlePingKeeps, DidPingKeeps, DidPullSeedKeeps DEF PullStep

LEMMA NextKeeps == IInv /\ LeftInv /\ [Next]_vars => Kept
<1> SUFFICES ASSUME IInv, LeftInv, [Next]_vars PROVE Kept
  OBVIOUS
<1>1. ASSUME NEW d \in gossip, LoseGossip(d) PROVE Kept
  <2>1. members' = members /\ suspects' = suspects /\ gossipQueue' = gossipQueue
        /\ left' = left /\ gossip' \subseteq gossip
    BY <1>1 DEF LoseGossip, localVars, selfVars
  <2> QED
    BY <2>1, QuietStep
<1>2. CASE UNCHANGED vars
  BY <1>2, PullKeeps DEF vars
<1> QED
  BY <1>1, <1>2, NodeStepKeeps, PullStepKeeps, HandleGossipKeeps DEF Next

\* DOWN messages are about nodes that left, throughout.
THEOREM OnlyLeaversAreDown == Spec => []LeftInv
<1>1. Init => LeftInv
  BY DEF Init, LeftInv
<1>2. IInv /\ LeftInv /\ [Next]_vars => LeftInv'
  BY NextKeeps DEF Kept
<1> QED
  BY <1>1, <1>2, Inductive, PTL DEF Spec

\* Suspicion, recovery, the expiry of an earlier life and the merging of views never
\* make a running node forget another: only a DOWN message does, and that is always
\* about a node that announced its leave.
THEOREM OnlyLeaveErases == Spec => OnlyLeaveForgets
<1>1. IInv /\ LeftInv /\ [Next]_vars => [StillKnown]_vars
  BY NextKeeps DEF Kept
<1> QED
  BY <1>1, Inductive, OnlyLeaversAreDown, PTL DEF Spec, OnlyLeaveForgets

\* Whatever order messages, views and full states arrive in, none of the handlers
\* lowers the incarnation at which a node holds a member of the same uid.
THEOREM IncarnationsGrow == Spec => MemberIncarnationGrows
<1>1. IInv /\ LeftInv /\ [Next]_vars => [NoOlderIncarnation]_vars
  BY NextKeeps DEF Kept
<1> QED
  BY <1>1, Inductive, OnlyLeaversAreDown, PTL DEF Spec, MemberIncarnationGrows

=============================================================================
