-------------------------- MODULE RouterPoolProofs --------------------------
(***************************************************************************)
(* Proofs about the router pool, for any nodes, workers, callers and sizes *)
(* asked for, and any overlap of calls, spawns, deaths and downs.          *)
(***************************************************************************)
EXTENDS RouterPool, FiniteSetTheorems, TLAPS

Place == {"idle", "insert", "add", "spawn", "monitor", "stuck", "next", "shrink"}

\* Where a call has the lock.
Holding == {"spawn", "monitor", "stuck"}

Call ==
    [pc : Place, op : {"none", "add", "modify", "all"}, todo : SUBSET PoolNode,
     rest : SUBSET PoolNode, size : Nat, count : Nat, goal : Nat]

\* What a call under way has at each place, and when it holds the lock.
CallOK(c) ==
    /\ calls[c].pc = "idle" <=> calls[c].op = "none"
    /\ calls[c].pc = "idle" => calls[c] = NoCall
    /\ calls[c].pc = "insert" => calls[c].op = "add"
    /\ calls[c].pc = "next" => calls[c].op = "all"
    /\ calls[c].pc = "shrink" => calls[c].op # "add"
    /\ calls[c].op \in {"add", "modify"} => calls[c].rest = {}
    /\ calls[c].pc \in Holding \cup {"insert", "add", "shrink"} =>
          \E n \in PoolNode : calls[c].todo = {n}
    /\ calls[c].pc \in Holding <=> actorLock = c
    /\ calls[c].pc \in Holding => calls[c].todo \subseteq Nodes
    /\ calls[c].pc = "monitor" => newcomer # "free"

CallInv == \A c \in Caller : CallOK(c)

RouterTypes ==
    /\ RouterTypeOK
    /\ calls \in [Caller -> Call]

\* A worker that is known of was spawned, and a down is about a dead one; nobody
\* knows yet of one that is still to be monitored, and it dies only of itself.
LifeInv ==
    /\ \A w \in Listed \cup poolWorkers : life[w] # "unborn"
    /\ \A w \in routerDowns \cup poolDowns : life[w] = "dead"
    /\ io # "free" => life[io] = "dead"
    /\ newcomer # "free" =>
          /\ newcomer \notin Listed \cup poolWorkers
          /\ life[newcomer] \in (IF calm THEN {"alive"} ELSE {"alive", "dead"})

PoolInv == RouterTypes /\ CallInv /\ LifeInv /\ PoolMatchesNodes

-----------------------------------------------------------------------------

AliveOn(n) == {w \in poolNodes[n] : life[w] = "alive"}

\* Each worker is listed for one node, and the sets are finite.
ListInv ==
    /\ \A n \in Nodes : IsFiniteSet(poolNodes[n])
    /\ \A m, n \in Nodes : m # n => poolNodes[m] \cap poolNodes[n] = {}

\* The nodes that a call has still to bring to their size.
Left(c) == calls[c].rest \cup (IF calls[c].pc = "next" THEN {} ELSE calls[c].todo)

OneCall ==
    \A c, d \in Caller : calls[c].pc # "idle" /\ calls[d].pc # "idle" => c = d

\* What a call under way still owes to the node at hand, while all is calm.
OwesInsert(c) ==
    calls[c].pc = "insert" =>
        /\ calls[c].count = 0
        /\ \A n \in calls[c].todo : n \notin Nodes /\ wanted[n] = defaultNum

OwesAdd(c) ==
    calls[c].pc \in Holding \cup {"add"} =>
        \A n \in calls[c].todo :
            /\ n \in Nodes
            /\ calls[c].count <= Goal(calls[c])
            /\ calls[c].pc \in Holding => calls[c].count < Goal(calls[c])
            /\ Cardinality(AliveOn(n)) + (Goal(calls[c]) - calls[c].count) = wanted[n]

OwesShrink(c) ==
    calls[c].pc = "shrink" =>
        \A n \in calls[c].todo :
            /\ n \in Nodes
            /\ AliveOn(n) = poolNodes[n]
            /\ Cardinality(poolNodes[n]) = calls[c].size + calls[c].goal
            /\ wanted[n] = calls[c].size

OwesRest(c) ==
    \A n \in calls[c].rest :
        /\ n \in Nodes
        /\ AliveOn(n) = poolNodes[n]
        /\ wanted[n] = calls[c].size
        /\ calls[c].pc # "next" => n \notin calls[c].todo

Owes(c) == OwesInsert(c) /\ OwesAdd(c) /\ OwesShrink(c) /\ OwesRest(c)

\* The nodes that no call has to do with have the size they were asked to have.
DoneInv ==
    \A n \in Nodes :
        (\A c \in Caller : n \notin Left(c)) => Cardinality(AliveOn(n)) = wanted[n]

CalmInv == calm => OneCall /\ torn = {} /\ (\A c \in Caller : Owes(c)) /\ DoneInv

\* The down of a dead worker that nodes_ or pool_ has is yet to be obeyed, unless
\* one was found dead as it was monitored.
DownInv ==
    MonitorsTheDead \/ \A w \in Listed \cup poolWorkers :
                           life[w] = "dead" => w \in routerDowns \cup {io}

RouterInv == PoolInv /\ ListInv /\ DownInv /\ CalmInv

-----------------------------------------------------------------------------
(* The calls.                                                              *)

LEMMA NoCallIsCall ==
    /\ NoCall \in Call /\ NoCall.pc = "idle" /\ NoCall.op = "none"
    /\ NoCall.rest = {} /\ NoCall.todo = {}
BY DEF NoCall, Call, Place

\* A step of one call leaves the others alone, unless it takes the lock that one
\* of them holds or the node that one of them spawns for.
LEMMA OtherCall ==
  ASSUME CallInv, NEW d \in Caller, calls'[d] = calls[d],
         actorLock' = d <=> actorLock = d,
         calls[d].pc \in Holding => Nodes \subseteq Nodes',
         calls[d].pc = "monitor" => newcomer' = newcomer
  PROVE  CallOK(d)'
<1>1. CallOK(d)
  BY DEF CallInv
<1>2. QED
  BY <1>1 DEF CallOK

LEMMA OneCallChanges ==
  ASSUME RouterTypes, NEW c \in Caller, NEW call \in Call, calls' = [calls EXCEPT ![c] = call]
  PROVE  /\ calls' \in [Caller -> Call]
         /\ calls'[c] = call
         /\ \A d \in Caller \ {c} : calls'[d] = calls[d]
BY DEF RouterTypes

LEMMA CallInvKept ==
  ASSUME RouterTypes, CallInv, NEW c \in Caller, NEW call \in Call,
         calls' = [calls EXCEPT ![c] = call],
         \A d \in Caller \ {c} : actorLock' = d <=> actorLock = d,
         Nodes \subseteq Nodes', actorLock = c \/ newcomer' = newcomer, CallOK(c)'
  PROVE  CallInv' /\ calls' \in [Caller -> Call]
<1>1. ASSUME NEW d \in Caller
      PROVE  CallOK(d)'
  <2>1. CASE d = c
    BY <2>1
  <2>2. CASE d # c
    <3>1. calls[d].pc = "monitor" => newcomer' = newcomer
      BY <2>2 DEF CallInv, CallOK, Holding
    <3>2. QED
      BY <2>2, <3>1, OneCallChanges, OtherCall
  <2>3. QED
    BY <2>1, <2>2
<1>2. QED
  BY <1>1, OneCallChanges DEF CallInv

\* The target of a call at a place that has one.
LEMMA TargetIsTodo ==
  ASSUME CallInv, NEW c \in Caller, calls[c].pc \in Holding \cup {"insert", "add", "shrink"}
  PROVE  Target(c) \in PoolNode /\ calls[c].todo = {Target(c)}
<1>1. PICK n \in PoolNode : calls[c].todo = {n}
  BY DEF CallInv, CallOK
<1>2. Target(c) \in calls[c].todo
  BY <1>1 DEF Target
<1>3. QED
  BY <1>1, <1>2

\* A call that returns, or goes on with the loop over all nodes.
After(call) == IF call.op = "all" THEN [call EXCEPT !.pc = "next"] ELSE NoCall

LEMMA ReturnedCall ==
  ASSUME RouterTypes, CallInv, NEW c \in Caller, Return(c), actorLock' # c, calls[c].pc # "idle",
         \A d \in Caller \ {c} : actorLock' = d <=> actorLock = d,
         Nodes \subseteq Nodes', newcomer' = newcomer
  PROVE  /\ After(calls[c]) \in Call
         /\ calls' = [calls EXCEPT ![c] = After(calls[c])]
         /\ calls'[c] = After(calls[c])
         /\ CallInv' /\ calls' \in [Caller -> Call]
<1>1. calls[c] \in Call
  BY DEF RouterTypes
<1>2. After(calls[c]) \in Call
  BY <1>1, NoCallIsCall DEF After, Call, Place
<1>3. calls' = [calls EXCEPT ![c] = After(calls[c])]
  BY DEF Return, After
<1>4. calls'[c] = After(calls[c])
  BY <1>2, <1>3, OneCallChanges
<1>5. CallOK(c)
  BY DEF CallInv
<1>6. CallOK(c)'
  <2>1. CASE calls[c].op = "all"
    <3>1. calls'[c] = [calls[c] EXCEPT !.pc = "next"]
      BY <1>4, <2>1 DEF After
    <3>2. /\ calls'[c].pc = "next" /\ calls'[c].op = "all" /\ calls'[c].rest = calls[c].rest
      BY <1>1, <2>1, <3>1 DEF Call
    <3>3. QED
      BY <1>5, <3>2 DEF CallOK, Holding
  <2>2. CASE calls[c].op # "all"
    BY <1>4, <2>2, NoCallIsCall DEF After, CallOK, Holding
  <2>3. QED
    BY <2>1, <2>2
<1>7. QED
  BY <1>2, <1>3, <1>4, <1>6, CallInvKept

-----------------------------------------------------------------------------
(* The steps of the calls, and the invariant of the pool.                  *)

LEMMA SamePool ==
  ASSUME LifeInv, PoolMatchesNodes, ListInv,
         UNCHANGED <<poolNodes, poolWorkers, life, io, newcomer, routerDowns, poolDowns>>,
         calm' => calm
  PROVE  LifeInv' /\ PoolMatchesNodes' /\ ListInv'
BY DEF LifeInv, PoolMatchesNodes, ListInv, Listed, Nodes

\* A step that lets no worker die, adds none that is dead and leaves the downs alone.
LEMMA SameDowns ==
  ASSUME DownInv, UNCHANGED <<io, routerDowns>>, MonitorsTheDead => MonitorsTheDead',
         \A w \in Listed' \cup poolWorkers' :
            life'[w] = "dead" => w \in Listed \cup poolWorkers /\ life[w] = "dead"
  PROVE  DownInv'
BY DEF DownInv

\* A request begins, with the caller idle until then.
LEMMA BegunCall ==
  ASSUME RouterTypes, CallInv, NEW c \in Caller, NEW call \in Call, Begin(c, call),
         UNCHANGED <<poolNodes, actorLock, newcomer>>,
         call.op # "none", call.pc \notin Holding \cup {"idle"},
         call.pc = "insert" => call.op = "add",
         call.pc = "next" => call.op = "all",
         call.pc = "shrink" => call.op # "add",
         call.op \in {"add", "modify"} => call.rest = {},
         call.pc \in {"insert", "add", "shrink"} => \E n \in PoolNode : call.todo = {n}
  PROVE  CallInv' /\ calls' \in [Caller -> Call] /\ calls'[c] = call
<1>1. calls[c] = NoCall /\ calls' = [calls EXCEPT ![c] = call]
  BY DEF Begin
<1>2. calls'[c] = call
  BY <1>1, OneCallChanges
<1>3. actorLock # c
  BY <1>1, NoCallIsCall DEF CallInv, CallOK, Holding
<1>4. CallOK(c)'
  BY <1>2, <1>3 DEF CallOK, Holding
<1>5. QED
  BY <1>1, <1>2, <1>4, CallInvKept DEF Nodes

\* The call that a node's size makes of one: to delete workers, or to add them.
LEMMA ResizedCall ==
  ASSUME NEW call \in Call, NEW n, IsFiniteSet(poolNodes[n])
  PROVE  LET size == Cardinality(poolNodes[n])
             r == Resized(call, n)
         IN  /\ r \in Call /\ size \in Nat
             /\ r.op = call.op /\ r.todo = call.todo /\ r.rest = call.rest
             /\ r.size = call.size /\ r.count = call.count
             /\ \/ r.pc = "shrink" /\ size = call.size + r.goal
                \/ r.pc = "add" /\ size + r.goal = call.size
<1> DEFINE size == Cardinality(poolNodes[n])
           r == Resized(call, n)
<1>1. size \in Nat /\ call.size \in Nat
  BY FS_CardinalityType DEF Call
<1>2. CASE size > call.size
  <2>1. r = [call EXCEPT !.pc = "shrink", !.goal = size - call.size]
    BY <1>2 DEF Resized
  <2>2. size - call.size \in Nat /\ size = call.size + (size - call.size)
    BY <1>1, <1>2
  <2> HIDE DEF size, r
  <2>3. QED
    BY <1>1, <2>1, <2>2 DEF Call, Place, size, r
<1>3. CASE ~(size > call.size)
  <2>1. r = [call EXCEPT !.pc = "add", !.goal = call.size - size]
    BY <1>3 DEF Resized
  <2>2. call.size - size \in Nat /\ size + (call.size - size) = call.size
    BY <1>1, <1>3
  <2> HIDE DEF size, r
  <2>3. QED
    BY <1>1, <2>1, <2>2 DEF Call, Place, size, r
<1>4. QED
  BY <1>2, <1>3

BasicInv == PoolInv /\ ListInv

LEMMA BeginInv ==
  ASSUME BasicInv, NEW c \in Caller,
         \/ \E n \in PoolNode : BeginAddNode(c, n)
         \/ \E n \in PoolNode, size \in Sizes : BeginModifyNode(c, n, size)
         \/ \E size \in Sizes : BeginModifyAll(c, size)
  PROVE  BasicInv'
<1> USE DEF BasicInv, PoolInv
<1>1. Sizes \subseteq Nat /\ defaultNum \in Nat
  BY RouterPoolAssumption DEF RouterTypes, RouterTypeOK
<1>2. ASSUME NEW n \in PoolNode, BeginAddNode(c, n)
      PROVE  BasicInv'
  <2> DEFINE call == [NoCall EXCEPT !.pc = "insert", !.op = "add", !.todo = {n}]
  <2>1. call \in Call /\ call.pc = "insert" /\ call.op = "add" /\ call.rest = {} /\ call.todo = {n}
    BY DEF NoCall, Call, Place
  <2>2. /\ Begin(c, call) /\ wanted' = [wanted EXCEPT ![n] = defaultNum]
        /\ UNCHANGED <<poolNodes, defaultNum, poolWorkers, poolOver, life, quits, actorLock,
                       io, newcomer, torn, routerDowns, poolDowns, crashes>>
    BY <1>2 DEF BeginAddNode
  <2> HIDE DEF call
  <2>3. CallInv' /\ calls' \in [Caller -> Call]
    BY <2>1, <2>2, BegunCall DEF Holding
  <2>4. calm' \in BOOLEAN /\ wanted' \in [PoolNode -> Nat]
    BY <1>1, <2>2 DEF Begin, RouterTypes, RouterTypeOK
  <2>5. RouterTypes'
    BY <2>2, <2>3, <2>4 DEF RouterTypes, RouterTypeOK, Nodes, Listed, Call, Place
  <2>6. QED
    BY <2>2, <2>3, <2>5, SamePool DEF Begin
<1>3. ASSUME NEW n \in PoolNode, NEW size \in Sizes, BeginModifyNode(c, n, size)
      PROVE  BasicInv'
  <2> DEFINE start == [NoCall EXCEPT !.op = "modify", !.todo = {n}, !.size = size]
             call == Resized(start, n)
  <2>1. /\ start \in Call /\ start.op = "modify" /\ start.rest = {} /\ start.todo = {n}
        /\ start.size = size
    BY <1>1 DEF NoCall, Call, Place
  <2>2. /\ n \in Nodes /\ Begin(c, call) /\ wanted' = [wanted EXCEPT ![n] = size]
        /\ UNCHANGED <<poolNodes, defaultNum, poolWorkers, poolOver, life, quits, actorLock,
                       io, newcomer, torn, routerDowns, poolDowns, crashes>>
    BY <1>3 DEF BeginModifyNode
  <2>3. IsFiniteSet(poolNodes[n])
    BY <2>2 DEF ListInv
  <2> HIDE DEF start
  <2>4. /\ call \in Call /\ call.op = "modify" /\ call.rest = {} /\ call.todo = {n}
        /\ call.pc \in {"shrink", "add"}
    BY <2>1, <2>3, ResizedCall
  <2> HIDE DEF call
  <2>5. CallInv' /\ calls' \in [Caller -> Call]
    BY <2>2, <2>4, BegunCall DEF Holding
  <2>6. calm' \in BOOLEAN /\ wanted' \in [PoolNode -> Nat]
    BY <1>1, <2>2 DEF Begin, RouterTypes, RouterTypeOK
  <2>7. RouterTypes'
    BY <2>2, <2>5, <2>6 DEF RouterTypes, RouterTypeOK, Nodes, Listed, Call, Place
  <2>8. QED
    BY <2>2, <2>5, <2>7, SamePool DEF Begin
<1>4. ASSUME NEW size \in Sizes, BeginModifyAll(c, size)
      PROVE  BasicInv'
  <2> DEFINE call == [NoCall EXCEPT !.pc = "next", !.op = "all", !.size = size, !.rest = Nodes]
  <2>1. call \in Call /\ call.pc = "next" /\ call.op = "all"
    BY <1>1 DEF NoCall, Call, Place, RouterTypes, RouterTypeOK
  <2>2. /\ Begin(c, call) /\ defaultNum' = size
        /\ wanted' = [n \in PoolNode |-> IF n \in Nodes THEN size ELSE wanted[n]]
        /\ UNCHANGED <<poolNodes, poolWorkers, poolOver, life, quits, actorLock, io,
                       newcomer, torn, routerDowns, poolDowns, crashes>>
    BY <1>4 DEF BeginModifyAll
  <2> HIDE DEF call
  <2>3. CallInv' /\ calls' \in [Caller -> Call]
    BY <2>1, <2>2, BegunCall DEF Holding
  <2>4. calm' \in BOOLEAN /\ wanted' \in [PoolNode -> Nat]
    BY <1>1, <2>2 DEF Begin, RouterTypes, RouterTypeOK
  <2>5. RouterTypes'
    BY <2>2, <2>3, <2>4 DEF RouterTypes, RouterTypeOK, Nodes, Listed, Call, Place
  <2>6. QED
    BY <2>2, <2>3, <2>5, SamePool DEF Begin
<1>5. QED
  BY <1>2, <1>3, <1>4

LEMMA TornCallers ==
  ASSUME RouterTypes, NEW changed, Torn(changed)
  PROVE  torn' \subseteq Caller
BY DEF Torn, Iterating, RouterTypes, RouterTypeOK

LEMMA InsertNodeInv ==
  ASSUME BasicInv, NEW c \in Caller, InsertNode(c)
  PROVE  BasicInv'
<1> USE DEF BasicInv, PoolInv
<1> DEFINE call == [calls[c] EXCEPT !.pc = "add"]
<1>1. /\ calls[c].pc = "insert" /\ actorLock = "free" /\ calls' = [calls EXCEPT ![c] = call]
      /\ poolNodes' = [n \in Nodes \cup calls[c].todo |->
                          IF n \in Nodes THEN poolNodes[n] ELSE {}]
      /\ UNCHANGED <<defaultNum, poolWorkers, poolOver, life, quits, actorLock, io,
                     newcomer, routerDowns, poolDowns, calm, wanted, callCount, crashes>>
  BY DEF InsertNode
<1>2. Target(c) \in PoolNode /\ calls[c].todo = {Target(c)}
  BY <1>1, TargetIsTodo
<1>3. /\ Nodes' = Nodes \cup {Target(c)}
      /\ \A n \in Nodes : poolNodes'[n] = poolNodes[n]
      /\ \A n \in Nodes' \ Nodes : poolNodes'[n] = {}
  BY <1>1, <1>2 DEF Nodes
<1>4. Listed' = Listed
  BY <1>3 DEF Listed
<1>5. /\ call \in Call /\ call.pc = "add" /\ call.op = "add"
      /\ call.rest = calls[c].rest /\ call.todo = calls[c].todo
  BY <1>1 DEF RouterTypes, CallInv, CallOK, Call, Place
<1> HIDE DEF call
<1>6. calls'[c] = call
  BY <1>1, <1>5, OneCallChanges
<1>7. CallOK(c)'
  BY <1>1, <1>2, <1>5, <1>6 DEF CallInv, CallOK, Holding
<1>8. CallInv' /\ calls' \in [Caller -> Call]
  BY <1>1, <1>3, <1>5, <1>7, CallInvKept
<1>9. RouterTypes'
  <2>1. torn' \subseteq Caller
    BY TornCallers DEF InsertNode
  <2>2. QED
    BY <1>1, <1>2, <1>3, <1>4, <1>8, <2>1 DEF RouterTypes, RouterTypeOK, Call, Place
<1>10. LifeInv' /\ PoolMatchesNodes'
  BY <1>1, <1>4 DEF LifeInv, PoolMatchesNodes
<1>11. ListInv'
  BY <1>3, FS_EmptySet DEF ListInv
<1>12. QED
  BY <1>8, <1>9, <1>10, <1>11

LEMMA AddActorInv ==
  ASSUME BasicInv, NEW c \in Caller, AddActor(c)
  PROVE  BasicInv'
<1> USE DEF BasicInv, PoolInv
<1>1. /\ calls[c].pc = "add"
      /\ UNCHANGED <<poolNodes, defaultNum, poolWorkers, poolOver, life, quits, io,
                     newcomer, torn, routerDowns, poolDowns, calm, wanted, callCount, crashes>>
  BY DEF AddActor
<1>2. Target(c) \in PoolNode /\ calls[c].todo = {Target(c)}
  BY <1>1, TargetIsTodo
<1>3. actorLock # c /\ "free" \notin Caller /\ Nodes' = Nodes
  BY <1>1, RouterPoolAssumption DEF CallInv, CallOK, Holding, Nodes
<1>4. CASE Return(c) /\ UNCHANGED actorLock
  <2>1. CallInv' /\ calls' \in [Caller -> Call]
    BY <1>1, <1>3, <1>4, ReturnedCall
  <2>2. RouterTypes'
    BY <1>1, <1>4, <2>1 DEF RouterTypes, RouterTypeOK, Nodes, Listed, Call, Place
  <2>3. QED
    BY <1>1, <2>1, <2>2, SamePool
<1>5. CASE /\ actorLock = "free" /\ Target(c) \in Nodes /\ actorLock' = c
           /\ calls' = [calls EXCEPT ![c].pc = "spawn"]
  <2> DEFINE call == [calls[c] EXCEPT !.pc = "spawn"]
  <2>1. /\ call \in Call /\ call.pc = "spawn" /\ call.op = calls[c].op
        /\ call.rest = calls[c].rest /\ call.todo = calls[c].todo
    BY <1>1 DEF RouterTypes, Call, Place
  <2>2. calls' = [calls EXCEPT ![c] = call]
    BY <1>5
  <2> HIDE DEF call
  <2>3. calls'[c] = call
    BY <2>1, <2>2, OneCallChanges
  <2>4. CallOK(c)'
    BY <1>1, <1>2, <1>3, <1>5, <2>1, <2>3 DEF CallInv, CallOK, Holding
  <2>5. CallInv' /\ calls' \in [Caller -> Call]
    BY <1>1, <1>3, <1>5, <2>1, <2>2, <2>4, CallInvKept
  <2>6. RouterTypes'
    <3>1. actorLock' = c
      BY <1>5
    <3>2. QED
      BY <1>1, <2>5, <3>1 DEF RouterTypes, RouterTypeOK, Nodes, Listed, Call, Place
  <2>7. QED
    BY <1>1, <2>5, <2>6, SamePool
<1>6. QED
  BY <1>4, <1>5 DEF AddActor

\* A new worker is one that nobody knew of.
LEMMA SpawnedInv ==
  ASSUME BasicInv, NEW c \in Caller, NEW w \in PoolWorker, Spawned(c, w)
  PROVE  BasicInv'
<1> USE DEF BasicInv, PoolInv
<1> DEFINE call == [calls[c] EXCEPT !.pc = "monitor"]
<1>1. /\ calls[c].pc = "spawn" /\ life[w] = "unborn"
      /\ life' = [life EXCEPT ![w] = "alive"] /\ newcomer' = w
      /\ calls' = [calls EXCEPT ![c] = call]
      /\ UNCHANGED <<poolNodes, defaultNum, poolWorkers, poolOver, quits, actorLock, io,
                     torn, routerDowns, poolDowns, calm, wanted, callCount, crashes>>
  BY DEF Spawned, Unborn
<1>2. actorLock = c /\ "free" \notin PoolWorker /\ Nodes' = Nodes /\ Listed' = Listed
  BY <1>1, RouterPoolAssumption DEF CallInv, CallOK, Holding, Nodes, Listed
<1>3. /\ call \in Call /\ call.pc = "monitor" /\ call.op = calls[c].op
      /\ call.rest = calls[c].rest /\ call.todo = calls[c].todo
  BY DEF RouterTypes, Call, Place
<1> HIDE DEF call
<1>4. calls'[c] = call
  BY <1>1, <1>3, OneCallChanges
<1>5. CallOK(c)'
  BY <1>1, <1>2, <1>3, <1>4 DEF CallInv, CallOK, Holding
<1>6. CallInv' /\ calls' \in [Caller -> Call]
  BY <1>1, <1>2, <1>3, <1>5, CallInvKept
<1>7. /\ life' \in [PoolWorker -> {"unborn", "alive", "told", "dead"}]
      /\ life'[w] = "alive" /\ \A x \in PoolWorker \ {w} : life'[x] = life[x]
      /\ w \notin Listed \cup poolWorkers \cup routerDowns \cup poolDowns \cup {io}
      /\ Listed \cup poolWorkers \cup routerDowns \cup poolDowns \subseteq PoolWorker
      /\ io \in PoolWorker \cup {"free"}
  BY <1>1, <1>2 DEF RouterTypes, RouterTypeOK, LifeInv
<1>8. RouterTypes'
  BY <1>1, <1>2, <1>6, <1>7 DEF RouterTypes, RouterTypeOK, Call, Place
<1>9. LifeInv' /\ PoolMatchesNodes' /\ ListInv'
  BY <1>1, <1>2, <1>7 DEF LifeInv, PoolMatchesNodes, ListInv
<1>10. QED
  BY <1>6, <1>8, <1>9

\* What the call holds when its worker is put, listed and monitored.
LEMMA AtMonitor ==
  ASSUME BasicInv, NEW c \in Caller, calls[c].pc = "monitor"
  PROVE  /\ Target(c) \in PoolNode /\ calls[c].todo = {Target(c)} /\ Target(c) \in Nodes
         /\ actorLock = c /\ "free" \notin Caller
         /\ newcomer \in PoolWorker /\ newcomer \notin Listed \cup poolWorkers
         /\ life[newcomer] \in {"alive", "dead"}
         /\ calm => life[newcomer] = "alive"
BY TargetIsTodo, RouterPoolAssumption
   DEF BasicInv, PoolInv, CallInv, CallOK, Holding, LifeInv, RouterTypes, RouterTypeOK

LEMMA MonitorInv ==
  ASSUME BasicInv, NEW c \in Caller, Monitor(c)
  PROVE  BasicInv'
<1> USE DEF BasicInv, PoolInv
<1> DEFINE t == Target(c)
           gone == {newcomer} \cap {w \in PoolWorker : life[w] = "dead"}
           more == [calls[c] EXCEPT !.pc = "add", !.count = @ + 1]
           over == [calls[c] EXCEPT !.pc = "stuck"]
<1>1. /\ calls[c].pc = "monitor" /\ newcomer' = "free"
      /\ poolNodes' = [poolNodes EXCEPT ![t] = @ \cup {newcomer}]
      /\ poolWorkers' = poolWorkers \cup {newcomer}
      /\ poolDowns' = poolDowns \cup gone
      /\ routerDowns' \in {routerDowns, routerDowns \cup gone}
      /\ \/ calls' = [calls EXCEPT ![c] = more] /\ actorLock' = "free"
         \/ calls' = [calls EXCEPT ![c] = over] /\ actorLock' = actorLock
      /\ UNCHANGED <<defaultNum, poolOver, life, quits, io, torn, calm, wanted, callCount,
                     crashes>>
  BY DEF Monitor
<1>2. /\ t \in PoolNode /\ calls[c].todo = {t} /\ t \in Nodes
      /\ actorLock = c /\ "free" \notin Caller
      /\ newcomer \in PoolWorker /\ newcomer \notin Listed \cup poolWorkers
      /\ life[newcomer] \in {"alive", "dead"}
  BY <1>1, AtMonitor
<1>3. gone \subseteq {newcomer} /\ \A w \in gone : life[w] = "dead"
  OBVIOUS
<1> HIDE DEF t, gone
<1>4. /\ Nodes' = Nodes /\ poolNodes'[t] = poolNodes[t] \cup {newcomer}
      /\ \A n \in Nodes \ {t} : poolNodes'[n] = poolNodes[n]
  BY <1>1, <1>2 DEF Nodes
<1>5. Listed' = Listed \cup {newcomer}
  BY <1>2, <1>4 DEF Listed
<1>6. /\ more \in Call /\ more.pc = "add" /\ over \in Call /\ over.pc = "stuck"
      /\ more.op = calls[c].op /\ over.op = calls[c].op
      /\ more.rest = calls[c].rest /\ over.rest = calls[c].rest
      /\ more.todo = calls[c].todo /\ over.todo = calls[c].todo
  <2>1. calls[c] \in Call
    BY DEF RouterTypes
  <2>2. calls[c].count + 1 \in Nat
    BY <2>1 DEF Call
  <2>3. QED
    BY <2>1, <2>2 DEF Call, Place
<1> HIDE DEF more, over
<1>7. CallInv' /\ calls' \in [Caller -> Call]
  <2>1. CASE calls' = [calls EXCEPT ![c] = more] /\ actorLock' = "free"
    <3>1. calls'[c] = more
      BY <1>6, <2>1, OneCallChanges
    <3>2. CallOK(c)'
      BY <1>1, <1>2, <1>6, <2>1, <3>1 DEF CallInv, CallOK, Holding
    <3>3. QED
      BY <1>2, <1>4, <1>6, <2>1, <3>2, CallInvKept
  <2>2. CASE calls' = [calls EXCEPT ![c] = over] /\ actorLock' = actorLock
    <3>1. calls'[c] = over
      BY <1>6, <2>2, OneCallChanges
    <3>2. CallOK(c)'
      BY <1>1, <1>2, <1>4, <1>6, <2>2, <3>1 DEF CallInv, CallOK, Holding
    <3>3. QED
      BY <1>2, <1>4, <1>6, <2>2, <3>2, CallInvKept
  <2>3. QED
    BY <1>1, <2>1, <2>2
<1>8. /\ Listed \cup poolWorkers \cup routerDowns \cup poolDowns \subseteq PoolWorker
      /\ routerDowns' \subseteq routerDowns \cup gone
  BY <1>1 DEF RouterTypes, RouterTypeOK
<1>9. RouterTypes'
  BY <1>1, <1>2, <1>3, <1>4, <1>5, <1>7, <1>8 DEF RouterTypes, RouterTypeOK, Call, Place
<1>10. LifeInv' /\ PoolMatchesNodes'
  BY <1>1, <1>2, <1>3, <1>5, <1>8 DEF LifeInv, PoolMatchesNodes
<1>11. ListInv'
  <2>1. \A n \in Nodes' : IsFiniteSet(poolNodes'[n])
    <3>1. IsFiniteSet(poolNodes[t]) /\ IsFiniteSet(poolNodes[t] \cup {newcomer})
      BY <1>2, FS_AddElement DEF ListInv
    <3>2. QED
      BY <1>4, <3>1 DEF ListInv
  <2>2. \A n \in Nodes : newcomer \notin poolNodes[n]
    BY <1>2 DEF Listed
  <2>3. \A m, n \in Nodes' : m # n => poolNodes'[m] \cap poolNodes'[n] = {}
    BY <1>4, <2>2 DEF ListInv
  <2>4. QED
    BY <2>1, <2>3 DEF ListInv
<1>12. QED
  BY <1>7, <1>9, <1>10, <1>11

\* A worker that belongs to nobody may have been spawned all the same.
LEMMA SpawnFailsInv ==
  ASSUME BasicInv, NEW c \in Caller, SpawnFails(c)
  PROVE  BasicInv'
<1> USE DEF BasicInv, PoolInv
<1>1. /\ calls[c].pc = "spawn" /\ Return(c) /\ actorLock' = "free" /\ calm' = FALSE
      /\ UNCHANGED <<poolNodes, defaultNum, poolWorkers, poolOver, quits, io,
                     newcomer, torn, routerDowns, poolDowns, wanted, callCount, crashes>>
  BY DEF SpawnFails
<1>2. \/ UNCHANGED life
      \/ \E w \in PoolWorker : life[w] = "unborn" /\ life' = [life EXCEPT ![w] = "alive"]
  <2>1. Unborn # {} => Fresh \in Unborn
    BY DEF Fresh
  <2>2. QED
    BY <2>1 DEF SpawnFails, Unborn
<1>3. actorLock = c /\ "free" \notin Caller /\ Nodes' = Nodes /\ Listed' = Listed
  BY <1>1, RouterPoolAssumption DEF CallInv, CallOK, Holding, Nodes, Listed
<1>4. CallInv' /\ calls' \in [Caller -> Call]
  BY <1>1, <1>3, ReturnedCall
<1>5. /\ life' \in [PoolWorker -> {"unborn", "alive", "told", "dead"}]
      /\ \A x \in PoolWorker : life[x] # "unborn" => life'[x] = life[x]
  BY <1>2 DEF RouterTypes, RouterTypeOK
<1>6. RouterTypes'
  BY <1>1, <1>3, <1>4, <1>5 DEF RouterTypes, RouterTypeOK, Call, Place
<1>7. LifeInv' /\ PoolMatchesNodes'
  <2>1. /\ \A x \in Listed \cup poolWorkers \cup routerDowns \cup poolDowns : life'[x] = life[x]
        /\ io # "free" => life'[io] = life[io]
        /\ newcomer # "free" => life'[newcomer] = life[newcomer]
    BY <1>5 DEF RouterTypes, RouterTypeOK, LifeInv
  <2>2. QED
    BY <1>1, <1>3, <2>1 DEF LifeInv, PoolMatchesNodes
<1>8. ListInv'
  BY <1>1, <1>3 DEF ListInv
<1>9. QED
  BY <1>4, <1>6, <1>7, <1>8

LEMMA AheadNodes ==
  ASSUME NEW c \in Caller
  PROVE  \A ahead \in Ahead(c) : ahead \in SUBSET Nodes
BY DEF Ahead

LEMMA NextNodeInv ==
  ASSUME BasicInv, NEW c \in Caller, NextNode(c)
  PROVE  BasicInv'
<1> USE DEF BasicInv, PoolInv
<1>1. /\ calls[c].pc = "next"
      /\ torn' = torn \ {c}
      /\ UNCHANGED <<poolNodes, defaultNum, poolWorkers, poolOver, life, quits, actorLock,
                     io, newcomer, routerDowns, poolDowns, calm, wanted, callCount, crashes>>
  BY DEF NextNode
<1>2. actorLock # c /\ Nodes' = Nodes /\ calls[c].op = "all" /\ calls[c] \in Call
  BY <1>1 DEF CallInv, CallOK, Holding, RouterTypes, Nodes
<1>3. CallInv' /\ calls' \in [Caller -> Call]
  <2>1. CASE calls' = [calls EXCEPT ![c] = NoCall]
    <3>1. calls'[c] = NoCall
      BY <2>1, NoCallIsCall, OneCallChanges
    <3>2. CallOK(c)'
      BY <1>1, <1>2, <3>1, NoCallIsCall DEF CallOK, Holding
    <3>3. QED
      BY <1>1, <1>2, <2>1, <3>2, NoCallIsCall, CallInvKept
  <2>2. ASSUME NEW ahead \in SUBSET Nodes, NEW n \in ahead,
               calls' = [calls EXCEPT ![c] = Resized(
                  [calls[c] EXCEPT !.todo = {n}, !.rest = ahead \ {n}, !.count = 0], n)]
        PROVE  CallInv' /\ calls' \in [Caller -> Call]
    <3> DEFINE start == [calls[c] EXCEPT !.todo = {n}, !.rest = ahead \ {n}, !.count = 0]
               call == Resized(start, n)
    <3>1. start \in Call /\ start.op = "all" /\ start.todo = {n} /\ n \in PoolNode
      BY <1>2 DEF Call, RouterTypes, RouterTypeOK
    <3>2. IsFiniteSet(poolNodes[n])
      BY DEF ListInv
    <3>3. calls' = [calls EXCEPT ![c] = call]
      BY <2>2
    <3> HIDE DEF start
    <3>4. call \in Call /\ call.op = "all" /\ call.todo = {n} /\ call.pc \in {"shrink", "add"}
      BY <3>1, <3>2, ResizedCall
    <3> HIDE DEF call
    <3>5. calls'[c] = call
      BY <3>3, <3>4, OneCallChanges
    <3>6. CallOK(c)'
      BY <1>1, <1>2, <3>1, <3>4, <3>5 DEF CallOK, Holding
    <3>7. QED
      BY <1>1, <1>2, <3>3, <3>4, <3>6, CallInvKept
  <2>3. QED
    BY <2>1, <2>2, AheadNodes DEF NextNode
<1>4. RouterTypes'
  BY <1>1, <1>3 DEF RouterTypes, RouterTypeOK, Nodes, Listed, Call, Place
<1>5. QED
  BY <1>1, <1>3, <1>4, SamePool

-----------------------------------------------------------------------------
(* The workers.                                                            *)

LEMMA Told ==
  ASSUME RouterTypes, NEW S, life' = Tell(S)
  PROVE  /\ life' \in [PoolWorker -> {"unborn", "alive", "told", "dead"}]
         /\ \A w \in PoolWorker :
               /\ life'[w] = "alive" <=> life[w] = "alive" /\ w \notin S
               /\ life'[w] = "unborn" <=> life[w] = "unborn"
               /\ life'[w] = "dead" <=> life[w] = "dead"
         /\ \A w \in PoolWorker \ S : life'[w] = life[w]
BY DEF Tell, RouterTypes, RouterTypeOK

LEMMA DeleteActorsInv ==
  ASSUME BasicInv, NEW c \in Caller, DeleteActors(c)
  PROVE  BasicInv'
<1> USE DEF BasicInv, PoolInv
<1>1. /\ calls[c].pc = "shrink" /\ actorLock = "free" /\ Return(c)
      /\ UNCHANGED <<poolNodes, defaultNum, poolWorkers, poolOver, quits, actorLock, io,
                     newcomer, torn, routerDowns, poolDowns, calm, wanted, callCount, crashes>>
  BY DEF DeleteActors
<1>2. actorLock' # c /\ Nodes' = Nodes /\ Listed' = Listed
  BY <1>1, RouterPoolAssumption DEF Nodes, Listed
<1>3. CallInv' /\ calls' \in [Caller -> Call]
  BY <1>1, <1>2, ReturnedCall
<1>4. /\ life' \in [PoolWorker -> {"unborn", "alive", "told", "dead"}]
      /\ \A w \in PoolWorker :
            /\ life'[w] = "alive" => life[w] = "alive"
            /\ life'[w] = "unborn" <=> life[w] = "unborn"
            /\ life'[w] = "dead" <=> life[w] = "dead"
            /\ w \notin Listed => life'[w] = life[w]
  <2>1. UNCHANGED life \/ \E S \in SUBSET Listed : life' = Tell(S)
    BY DEF DeleteActors, FirstOf, Listed
  <2>2. CASE UNCHANGED life
    BY <2>2 DEF RouterTypes, RouterTypeOK
  <2>3. CASE \E S \in SUBSET Listed : life' = Tell(S)
    BY <2>3, Told
  <2>4. QED
    BY <2>1, <2>2, <2>3
<1>5. RouterTypes'
  BY <1>1, <1>2, <1>3, <1>4 DEF RouterTypes, RouterTypeOK, Call, Place
<1>6. /\ Listed \cup poolWorkers \cup routerDowns \cup poolDowns \subseteq PoolWorker
      /\ io \in PoolWorker \cup {"free"} /\ newcomer \in PoolWorker \cup {"free"}
  BY DEF RouterTypes, RouterTypeOK
<1>7. LifeInv' /\ PoolMatchesNodes'
  BY <1>1, <1>2, <1>4, <1>6 DEF LifeInv, PoolMatchesNodes
<1>8. ListInv'
  BY <1>1, <1>2 DEF ListInv
<1>9. QED
  BY <1>3, <1>5, <1>7, <1>8

LEMMA DeleteNodeInv ==
  ASSUME BasicInv, NEW n \in PoolNode, DeleteNode(n)
  PROVE  BasicInv'
<1> USE DEF BasicInv, PoolInv
<1>1. /\ n \in Nodes /\ actorLock = "free" /\ calm' = (calm /\ ~Disturbed)
      /\ life' = Tell(poolNodes[n])
      /\ poolNodes' = [m \in Nodes \ {n} |-> poolNodes[m]]
      /\ UNCHANGED <<defaultNum, poolWorkers, poolOver, quits, calls, actorLock, io,
                     newcomer, routerDowns, poolDowns, wanted, crashes>>
  BY DEF DeleteNode
<1>2. Nodes' = Nodes \ {n} /\ \A m \in Nodes' : poolNodes'[m] = poolNodes[m]
  BY <1>1 DEF Nodes
<1>3. Listed' \subseteq Listed /\ \A w \in Listed \ Listed' : w \in poolNodes[n]
  BY <1>2 DEF Listed
<1>4. /\ life' \in [PoolWorker -> {"unborn", "alive", "told", "dead"}]
      /\ \A w \in PoolWorker :
            /\ life'[w] = "alive" <=> life[w] = "alive" /\ w \notin poolNodes[n]
            /\ life'[w] = "unborn" <=> life[w] = "unborn"
            /\ life'[w] = "dead" <=> life[w] = "dead"
            /\ w \notin poolNodes[n] => life'[w] = life[w]
  BY <1>1, Told
<1>5. CallInv'
  <2>1. \A c \in Caller : calls[c].pc \notin Holding
    BY <1>1, RouterPoolAssumption DEF CallInv, CallOK
  <2>2. QED
    BY <1>1, <2>1, OtherCall DEF CallInv, Holding
<1>6. calm' \in BOOLEAN /\ torn' \subseteq Caller
  BY <1>1, TornCallers DEF DeleteNode, RouterTypes, RouterTypeOK
<1>7. RouterTypes'
  BY <1>1, <1>2, <1>3, <1>4, <1>6 DEF RouterTypes, RouterTypeOK, Call, Place
<1>8. /\ Listed \cup poolWorkers \cup routerDowns \cup poolDowns \subseteq PoolWorker
      /\ io \in PoolWorker \cup {"free"} /\ newcomer \in PoolWorker \cup {"free"}
      /\ newcomer \notin Listed => newcomer \notin poolNodes[n]
  BY <1>1 DEF RouterTypes, RouterTypeOK, Listed
<1>9. LifeInv' /\ PoolMatchesNodes'
  BY <1>1, <1>3, <1>4, <1>8 DEF LifeInv, PoolMatchesNodes
<1>10. ListInv'
  BY <1>2 DEF ListInv
<1>11. QED
  BY <1>5, <1>7, <1>9, <1>10

\* Deaths, and the downs that tell of them.
LEMMA WorkerInv ==
  ASSUME BasicInv,
         (\E w \in PoolWorker : WorkerDies(w) \/ PoolDown(w) \/ IoTakesDown(w)) \/ IoDeletesActor
  PROVE  BasicInv'
<1> USE DEF BasicInv, PoolInv
<1>1. ASSUME UNCHANGED <<calls, actorLock, newcomer, poolNodes>>
      PROVE  CallInv' /\ ListInv' /\ Nodes' = Nodes /\ Listed' = Listed
  BY <1>1 DEF CallInv, CallOK, ListInv, Nodes, Listed
<1>2. /\ Listed \cup poolWorkers \cup routerDowns \cup poolDowns \subseteq PoolWorker
      /\ io \in PoolWorker \cup {"free"} /\ newcomer \in PoolWorker \cup {"free"}
  BY DEF RouterTypes, RouterTypeOK
<1>3. ASSUME NEW w \in PoolWorker, WorkerDies(w)
      PROVE  BasicInv'
  <2>1. /\ life[w] \in {"alive", "told"} /\ life' = [life EXCEPT ![w] = "dead"]
        /\ calm' \in {calm, FALSE}
        /\ routerDowns' = IF w \in poolWorkers THEN routerDowns \cup {w} ELSE routerDowns
        /\ poolDowns' = IF w \in poolWorkers THEN poolDowns \cup {w} ELSE poolDowns
        /\ UNCHANGED <<poolNodes, defaultNum, poolWorkers, poolOver, quits, calls, actorLock,
                       io, newcomer, torn, wanted, callCount>>
    BY <1>3 DEF WorkerDies
  <2>2. CallInv' /\ ListInv' /\ Nodes' = Nodes /\ Listed' = Listed
    BY <1>1, <2>1
  <2>3. /\ life' \in [PoolWorker -> {"unborn", "alive", "told", "dead"}]
        /\ life'[w] = "dead" /\ \A x \in PoolWorker \ {w} : life'[x] = life[x]
    BY <2>1 DEF RouterTypes, RouterTypeOK
  <2>4. /\ routerDowns' \subseteq routerDowns \cup {w} /\ poolDowns' \subseteq poolDowns \cup {w}
    BY <2>1
  <2>5. RouterTypes'
    BY <2>1, <2>2, <2>3, <2>4 DEF RouterTypes, RouterTypeOK, Call, Place
  <2>6. LifeInv' /\ PoolMatchesNodes'
    <3>1. newcomer # "free" =>
             /\ newcomer \notin Listed \cup poolWorkers
             /\ life'[newcomer] \in (IF calm' THEN {"alive"} ELSE {"alive", "dead"})
      <4> SUFFICES ASSUME newcomer # "free"
                   PROVE  /\ newcomer \notin Listed \cup poolWorkers
                          /\ life'[newcomer] \in {"alive", "dead"}
                          /\ calm' => life'[newcomer] = "alive"
        BY <2>1 DEF RouterTypes, RouterTypeOK
      <4>0. calm' => calm /\ life[w] = "told"
        <5>1. CASE life[w] = "told" /\ UNCHANGED calm
          BY <5>1
        <5>2. CASE calm' = FALSE
          BY <5>2
        <5>3. QED
          BY <1>3, <5>1, <5>2 DEF WorkerDies
      <4>1. /\ newcomer \notin Listed \cup poolWorkers /\ newcomer \in PoolWorker
            /\ life[newcomer] \in {"alive", "dead"}
            /\ calm => life[newcomer] = "alive"
        BY <1>2 DEF LifeInv
      <4>2. CASE newcomer = w
        BY <2>3, <4>0, <4>1, <4>2
      <4>3. CASE newcomer # w
        BY <2>3, <4>0, <4>1, <4>3
      <4>4. QED
        BY <4>2, <4>3
    <3>2. QED
      BY <1>2, <2>1, <2>2, <2>3, <2>4, <3>1 DEF LifeInv, PoolMatchesNodes
  <2>7. QED
    BY <2>2, <2>5, <2>6
<1>4. ASSUME NEW w \in PoolWorker, PoolDown(w)
      PROVE  BasicInv'
  <2>1. /\ life[w] = "dead" /\ poolDowns' = poolDowns \ {w} /\ poolWorkers' = poolWorkers \ {w}
        /\ poolOver' \in BOOLEAN
        /\ UNCHANGED <<poolNodes, defaultNum, life, quits, calls, actorLock, io,
                       routerDowns, newcomer, torn, calm, wanted, callCount, crashes>>
    BY <1>4 DEF PoolDown, Removed, LifeInv
  <2>2. CallInv' /\ ListInv' /\ Nodes' = Nodes /\ Listed' = Listed
    BY <1>1, <2>1
  <2>3. RouterTypes'
    BY <2>1, <2>2 DEF RouterTypes, RouterTypeOK, Call, Place
  <2>4. LifeInv' /\ PoolMatchesNodes'
    BY <2>1, <2>2 DEF LifeInv, PoolMatchesNodes
  <2>5. QED
    BY <2>2, <2>3, <2>4
<1>5. ASSUME NEW w \in PoolWorker, IoTakesDown(w)
      PROVE  BasicInv'
  <2>1. /\ life[w] = "dead" /\ io' = w /\ routerDowns' = routerDowns \ {w}
        /\ UNCHANGED <<poolNodes, defaultNum, poolWorkers, poolOver, life, quits, calls,
                       actorLock, newcomer, torn, poolDowns, calm, wanted, callCount, crashes>>
    BY <1>5 DEF IoTakesDown, LifeInv
  <2>2. CallInv' /\ ListInv' /\ Nodes' = Nodes /\ Listed' = Listed
    BY <1>1, <2>1
  <2>3. RouterTypes'
    BY <2>1, <2>2 DEF RouterTypes, RouterTypeOK, Call, Place
  <2>4. LifeInv' /\ PoolMatchesNodes'
    BY <2>1, <2>2 DEF LifeInv, PoolMatchesNodes
  <2>5. QED
    BY <2>2, <2>3, <2>4
<1>6. ASSUME IoDeletesActor
      PROVE  BasicInv'
  <2>1. /\ io # "free" /\ poolNodes' = [n \in Nodes |-> poolNodes[n] \ {io}]
        /\ poolWorkers' = poolWorkers \ {io} /\ poolOver' \in BOOLEAN /\ io' = "free"
        /\ life[io] = "dead"
        /\ UNCHANGED <<defaultNum, life, quits, calls, actorLock, newcomer, torn,
                       routerDowns, poolDowns, calm, wanted, callCount, crashes>>
    BY <1>6 DEF IoDeletesActor, Removed, LifeInv
  <2>2. Nodes' = Nodes /\ \A n \in Nodes : poolNodes'[n] = poolNodes[n] \ {io}
    BY <2>1 DEF Nodes
  <2>3. Listed' = Listed \ {io}
    BY <2>2 DEF Listed
  <2>4. CallInv'
    BY <2>1, <2>2 DEF CallInv, CallOK
  <2>5. RouterTypes'
    BY <2>1, <2>2, <2>3 DEF RouterTypes, RouterTypeOK, Call, Place
  <2>6. LifeInv' /\ PoolMatchesNodes'
    BY <2>1, <2>3 DEF LifeInv, PoolMatchesNodes
  <2>7. ListInv'
    BY <2>2, FS_Subset DEF ListInv
  <2>8. QED
    BY <2>4, <2>5, <2>6, <2>7
<1>7. QED
  BY <1>3, <1>4, <1>5, <1>6

-----------------------------------------------------------------------------
(* The sizes, while all is calm.                                           *)

\* While all is calm the other calls are idle.
LEMMA CalmAlone ==
  ASSUME BasicInv, CalmInv, calm, NEW c \in Caller, calls[c].pc # "idle"
  PROVE  /\ torn = {}
         /\ \A d \in Caller \ {c} : calls[d] = NoCall
         /\ Owes(c)
         /\ \A n \in Nodes : n \notin Left(c) => Cardinality(AliveOn(n)) = wanted[n]
<1>1. \A d \in Caller \ {c} : calls[d] = NoCall
  BY DEF CalmInv, OneCall, BasicInv, PoolInv, CallInv, CallOK
<1>2. \A d \in Caller \ {c} : Left(d) = {}
  BY <1>1, NoCallIsCall DEF Left
<1>3. QED
  BY <1>1, <1>2 DEF CalmInv, DoneInv

\* When nothing disturbs it, every node has its size and all that is listed lives.
LEMMA UndisturbedPool ==
  ASSUME BasicInv, CalmInv, calm, ~Disturbed
  PROVE  /\ torn = {}
         /\ \A d \in Caller : calls[d] = NoCall
         /\ \A n \in Nodes :
               AliveOn(n) = poolNodes[n] /\ Cardinality(AliveOn(n)) = wanted[n]
<1>1. \A d \in Caller : calls[d] = NoCall
  BY DEF Disturbed, BasicInv, PoolInv, CallInv, CallOK
<1>2. \A d \in Caller : Left(d) = {}
  BY <1>1, NoCallIsCall DEF Left
<1>3. \A n \in Nodes : AliveOn(n) = poolNodes[n]
  BY DEF Disturbed, Listed, AliveOn
<1>4. QED
  BY <1>1, <1>2, <1>3 DEF CalmInv, DoneInv

\* So it is enough to look at the one call that a step is of.
LEMMA CalmStep ==
  ASSUME NEW c \in Caller, \A d \in Caller \ {c} : calls'[d] = NoCall,
         Owes(c)', torn' = {},
         \A n \in Nodes' : n \notin Left(c)' => Cardinality(AliveOn(n))' = wanted'[n]
  PROVE  CalmInv'
<1>1. OneCall'
  BY NoCallIsCall DEF OneCall
<1>2. ASSUME NEW d \in Caller
      PROVE  Owes(d)'
  <2>1. CASE d = c
    BY <2>1
  <2>2. CASE d # c
    BY <2>2, NoCallIsCall DEF Owes, OwesInsert, OwesAdd, Holding, OwesShrink, OwesRest
  <2>3. QED
    BY <2>1, <2>2
<1>3. DoneInv'
  BY DEF DoneInv
<1>4. QED
  BY <1>1, <1>2, <1>3 DEF CalmInv

\* A step that no call takes and that changes no worker that lives.
LEMMA CalmFrame ==
  ASSUME CalmInv, UNCHANGED <<calls, torn, wanted, defaultNum>>, calm' => calm, Nodes' = Nodes,
         \A n \in Nodes : calm' => AliveOn(n)' = AliveOn(n),
         \A n \in Nodes : calm' /\ AliveOn(n) = poolNodes[n] => poolNodes'[n] = poolNodes[n]
  PROVE  CalmInv'
<1> SUFFICES ASSUME calm'
             PROVE  OneCall' /\ torn' = {} /\ (\A c \in Caller : Owes(c)') /\ DoneInv'
  BY DEF CalmInv
<1>1. OneCall /\ torn = {} /\ (\A c \in Caller : Owes(c)) /\ DoneInv
  BY DEF CalmInv
<1>2. OneCall' /\ \A c \in Caller : Left(c)' = Left(c)
  BY <1>1 DEF OneCall, Left
<1>3. DoneInv'
  BY <1>1, <1>2 DEF DoneInv
<1>4. ASSUME NEW c \in Caller
      PROVE  Owes(c)'
  <2>1. Owes(c)
    BY <1>1
  <2>2. OwesInsert(c)'
    BY <2>1 DEF Owes, OwesInsert
  <2>3. OwesAdd(c)'
    BY <2>1 DEF Owes, OwesAdd, Holding, Goal
  <2>4. OwesShrink(c)'
    BY <2>1 DEF Owes, OwesShrink
  <2>5. OwesRest(c)'
    BY <2>1 DEF Owes, OwesRest
  <2>6. QED
    BY <2>2, <2>3, <2>4, <2>5 DEF Owes
<1>5. QED
  BY <1>1, <1>2, <1>3, <1>4

\* A size that was read decides what is owed to its node.
LEMMA ResizedOwes ==
  ASSUME BasicInv, NEW c \in Caller, NEW n \in Nodes, NEW start \in Call,
         calls'[c] = Resized(start, n), UNCHANGED <<poolNodes, life>>,
         start.op \in {"modify", "all"}, start.todo = {n}, start.count = 0,
         AliveOn(n) = poolNodes[n], wanted'[n] = start.size
  PROVE  OwesInsert(c)' /\ OwesAdd(c)' /\ OwesShrink(c)' /\ Left(c)' = start.rest \cup {n}
<1> DEFINE size == Cardinality(poolNodes[n])
           r == calls'[c]
<1>1. IsFiniteSet(poolNodes[n])
  BY DEF BasicInv, ListInv
<1>2. /\ r \in Call /\ size \in Nat
      /\ r.op = start.op /\ r.todo = start.todo /\ r.rest = start.rest
      /\ r.size = start.size /\ r.count = start.count
      /\ \/ r.pc = "shrink" /\ size = start.size + r.goal
         \/ r.pc = "add" /\ size + r.goal = start.size
  BY <1>1, ResizedCall
<1>3. Nodes' = Nodes /\ AliveOn(n)' = poolNodes[n] /\ poolNodes' = poolNodes
  BY DEF Nodes, AliveOn
<1>4. Goal(calls[c])' = r.goal
  BY <1>2 DEF Goal
<1>5. r.goal \in Nat /\ start.size \in Nat /\ r.goal - 0 = r.goal
  BY <1>2 DEF Call
<1> HIDE DEF size
<1>6. Cardinality(AliveOn(n))' = size /\ Cardinality(poolNodes[n])' = size
  BY <1>3 DEF size
<1>7. OwesInsert(c)'
  BY <1>2 DEF OwesInsert
<1>8. OwesAdd(c)'
  <2> SUFFICES ASSUME r.pc \in Holding \cup {"add"}
               PROVE  /\ n \in Nodes' /\ r.count <= r.goal /\ r.pc \notin Holding
                      /\ Cardinality(AliveOn(n))' + (r.goal - r.count) = wanted'[n]
    BY <1>2, <1>4 DEF OwesAdd, Holding
  <2>1. QED
    BY <1>2, <1>3, <1>5, <1>6 DEF Holding
<1>9. OwesShrink(c)'
  <2> SUFFICES ASSUME r.pc = "shrink"
               PROVE  /\ n \in Nodes' /\ AliveOn(n)' = poolNodes'[n]
                      /\ Cardinality(poolNodes[n])' = r.size + r.goal
                      /\ wanted'[n] = r.size
    BY <1>2 DEF OwesShrink
  <2>1. QED
    BY <1>2, <1>3, <1>6
<1>10. Left(c)' = start.rest \cup {n}
  BY <1>2 DEF Left
<1>11. QED
  BY <1>7, <1>8, <1>9, <1>10

LEMMA BeginCalm ==
  ASSUME BasicInv, CalmInv, NEW c \in Caller,
         \/ \E n \in PoolNode : BeginAddNode(c, n)
         \/ \E n \in PoolNode, size \in Sizes : BeginModifyNode(c, n, size)
         \/ \E size \in Sizes : BeginModifyAll(c, size)
  PROVE  CalmInv'
<1>1. Sizes \subseteq Nat /\ defaultNum \in Nat /\ wanted \in [PoolNode -> Nat]
      /\ Nodes \subseteq PoolNode
  BY RouterPoolAssumption DEF BasicInv, PoolInv, RouterTypes, RouterTypeOK
<1>2. SUFFICES ASSUME calm'
               PROVE  CalmInv'
  BY DEF CalmInv
<1>3. calm /\ ~Disturbed
  BY <1>2 DEF BeginAddNode, BeginModifyNode, BeginModifyAll, Begin
<1>4. /\ torn = {} /\ torn' = torn
      /\ \A d \in Caller : calls[d] = NoCall
      /\ \A n \in Nodes : AliveOn(n) = poolNodes[n] /\ Cardinality(AliveOn(n)) = wanted[n]
  BY <1>3, UndisturbedPool DEF BeginAddNode, BeginModifyNode, BeginModifyAll
<1>5. ASSUME NEW n \in PoolNode, BeginAddNode(c, n)
      PROVE  CalmInv'
  <2> DEFINE call == [NoCall EXCEPT !.pc = "insert", !.op = "add", !.todo = {n}]
  <2>1. /\ call \in Call /\ call.pc = "insert" /\ call.rest = {} /\ call.todo = {n}
        /\ call.count = 0
    BY DEF NoCall, Call, Place
  <2>2. /\ n \notin Nodes /\ calls' = [calls EXCEPT ![c] = call]
        /\ wanted' = [wanted EXCEPT ![n] = defaultNum]
        /\ UNCHANGED <<poolNodes, defaultNum, life>>
    BY <1>5 DEF BeginAddNode, Begin
  <2> HIDE DEF call
  <2>3. /\ calls'[c] = call /\ \A d \in Caller \ {c} : calls'[d] = NoCall
    BY <1>4, <2>1, <2>2, OneCallChanges DEF BasicInv, PoolInv
  <2>4. wanted'[n] = defaultNum' /\ \A m \in Nodes : wanted'[m] = wanted[m]
    BY <1>1, <2>2
  <2>5. Nodes' = Nodes /\ \A m \in Nodes : AliveOn(m)' = AliveOn(m)
    BY <2>2 DEF Nodes, AliveOn
  <2>6. Owes(c)'
    BY <2>1, <2>2, <2>3, <2>4, <2>5 DEF Owes, Holding, OwesInsert, OwesAdd, OwesShrink, OwesRest
  <2>7. QED
    BY <1>4, <2>3, <2>4, <2>5, <2>6, CalmStep
<1>6. ASSUME NEW n \in PoolNode, NEW size \in Sizes, BeginModifyNode(c, n, size)
      PROVE  CalmInv'
  <2> DEFINE start == [NoCall EXCEPT !.op = "modify", !.todo = {n}, !.size = size]
             call == Resized(start, n)
  <2>1. /\ start \in Call /\ start.op = "modify" /\ start.rest = {} /\ start.todo = {n}
        /\ start.size = size /\ start.count = 0
    BY <1>1 DEF NoCall, Call, Place
  <2>2. /\ n \in Nodes /\ calls' = [calls EXCEPT ![c] = call]
        /\ wanted' = [wanted EXCEPT ![n] = size]
        /\ UNCHANGED <<poolNodes, defaultNum, life>>
    BY <1>6 DEF BeginModifyNode, Begin
  <2> HIDE DEF start
  <2>3. IsFiniteSet(poolNodes[n])
    BY <2>2 DEF BasicInv, ListInv
  <2>4. call \in Call /\ call.rest = {}
    BY <2>1, <2>3, ResizedCall
  <2>5. /\ calls'[c] = call /\ \A d \in Caller \ {c} : calls'[d] = NoCall
    BY <1>4, <2>2, <2>4, OneCallChanges DEF BasicInv, PoolInv
  <2>6. wanted'[n] = start.size /\ \A m \in Nodes \ {n} : wanted'[m] = wanted[m]
    BY <1>1, <2>1, <2>2
  <2>7. OwesInsert(c)' /\ OwesAdd(c)' /\ OwesShrink(c)' /\ Left(c)' = {n}
    BY <1>4, <2>1, <2>2, <2>5, <2>6, ResizedOwes
  <2>8. OwesRest(c)'
    BY <2>4, <2>5 DEF OwesRest
  <2>9. Nodes' = Nodes /\ \A m \in Nodes : AliveOn(m)' = AliveOn(m)
    BY <2>2 DEF Nodes, AliveOn
  <2>10. QED
    BY <1>4, <2>5, <2>6, <2>7, <2>8, <2>9, CalmStep DEF Owes
<1>7. ASSUME NEW size \in Sizes, BeginModifyAll(c, size)
      PROVE  CalmInv'
  <2> DEFINE call == [NoCall EXCEPT !.pc = "next", !.op = "all", !.size = size, !.rest = Nodes]
  <2>1. call \in Call /\ call.pc = "next" /\ call.rest = Nodes /\ call.size = size
    BY <1>1 DEF NoCall, Call, Place
  <2>2. /\ calls' = [calls EXCEPT ![c] = call]
        /\ wanted' = [n \in PoolNode |-> IF n \in Nodes THEN size ELSE wanted[n]]
        /\ UNCHANGED <<poolNodes, life>>
    BY <1>7 DEF BeginModifyAll, Begin
  <2> HIDE DEF call
  <2>3. /\ calls'[c] = call /\ \A d \in Caller \ {c} : calls'[d] = NoCall
    BY <1>4, <2>1, <2>2, OneCallChanges DEF BasicInv, PoolInv
  <2>4. Nodes' = Nodes /\ \A m \in Nodes : AliveOn(m)' = AliveOn(m) /\ wanted'[m] = size
    BY <1>1, <2>2 DEF Nodes, AliveOn
  <2>5. Owes(c)'
    BY <1>4, <2>1, <2>2, <2>3, <2>4 DEF Owes, Holding, OwesInsert, OwesAdd, OwesShrink, OwesRest
  <2>6. Left(c)' = Nodes
    BY <2>1, <2>3 DEF Left
  <2>7. QED
    BY <1>4, <2>3, <2>4, <2>5, <2>6, CalmStep
<1>8. QED
  BY <1>5, <1>6, <1>7

LEMMA InsertNodeCalm ==
  ASSUME BasicInv, CalmInv, NEW c \in Caller, InsertNode(c)
  PROVE  CalmInv'
<1> SUFFICES ASSUME calm'
             PROVE  CalmInv'
  BY DEF CalmInv
<1> DEFINE call == [calls[c] EXCEPT !.pc = "add"]
<1>1. /\ calls[c].pc = "insert" /\ calls' = [calls EXCEPT ![c] = call] /\ calm
      /\ poolNodes' = [n \in Nodes \cup calls[c].todo |->
                          IF n \in Nodes THEN poolNodes[n] ELSE {}]
      /\ UNCHANGED <<life, wanted, defaultNum>>
      /\ torn' \subseteq torn \cup Iterating
  BY DEF InsertNode, Torn
<1>2. PICK t \in PoolNode : calls[c].todo = {t}
  BY <1>1, TargetIsTodo DEF BasicInv, PoolInv
<1>3. /\ torn = {}
      /\ \A d \in Caller \ {c} : calls[d] = NoCall
      /\ Owes(c)
      /\ \A n \in Nodes : n \notin Left(c) => Cardinality(AliveOn(n)) = wanted[n]
  BY <1>1, CalmAlone
<1>4. calls[c].count = 0 /\ t \notin Nodes /\ wanted[t] = defaultNum /\ defaultNum \in Nat
  BY <1>1, <1>2, <1>3, RouterPoolAssumption
     DEF Owes, OwesInsert, BasicInv, PoolInv, RouterTypes, RouterTypeOK
<1>5. calls[c] \in Call /\ calls[c].op = "add" /\ calls[c].rest = {}
  BY <1>1 DEF BasicInv, PoolInv, RouterTypes, CallInv, CallOK
<1>6. /\ call \in Call /\ call.pc = "add" /\ call.op = "add" /\ call.rest = {}
      /\ call.todo = {t} /\ call.count = 0
  BY <1>2, <1>4, <1>5 DEF Call, Place
<1> HIDE DEF call
<1>7. calls'[c] = call /\ \A d \in Caller \ {c} : calls'[d] = NoCall
  BY <1>1, <1>3, <1>6, OneCallChanges DEF BasicInv, PoolInv
<1>8. /\ Nodes' = Nodes \cup {t} /\ AliveOn(t)' = {}
      /\ \A n \in Nodes : AliveOn(n)' = AliveOn(n)
  <2>1. /\ Nodes' = Nodes \cup {t} /\ poolNodes'[t] = {}
        /\ \A n \in Nodes : poolNodes'[n] = poolNodes[n]
    BY <1>1, <1>2, <1>4 DEF Nodes
  <2>2. QED
    BY <1>1, <2>1 DEF AliveOn
<1>9. Cardinality(AliveOn(t))' = 0
  BY <1>8, FS_EmptySet
<1>10. Goal(calls[c])' = defaultNum
  BY <1>1, <1>6, <1>7 DEF Goal
<1>11. OwesAdd(c)'
  <2>1. /\ t \in Nodes' /\ 0 <= defaultNum
        /\ Cardinality(AliveOn(t))' + (defaultNum - 0) = wanted'[t]
    BY <1>1, <1>4, <1>8, <1>9
  <2>2. calls'[c].pc = "add" /\ calls'[c].todo = {t} /\ calls'[c].count = 0
    BY <1>6, <1>7
  <2>3. QED
    BY <1>10, <2>1, <2>2 DEF OwesAdd, Holding
<1>12. OwesInsert(c)' /\ OwesShrink(c)' /\ OwesRest(c)' /\ Left(c)' = {t} /\ Left(c) = {t}
  BY <1>1, <1>2, <1>5, <1>6, <1>7 DEF OwesInsert, OwesShrink, OwesRest, Left
<1>13. \A n \in Nodes' : n \notin Left(c)' => Cardinality(AliveOn(n))' = wanted'[n]
  BY <1>1, <1>3, <1>8, <1>12
<1>14. torn' = {}
  BY <1>1, <1>3, <1>5, NoCallIsCall DEF Iterating
<1>15. QED
  BY <1>7, <1>11, <1>12, <1>13, <1>14, CalmStep DEF Owes

\* A call that returns from a node that has its size.
LEMMA ReturnCalm ==
  ASSUME BasicInv, NEW c \in Caller, NEW t \in Nodes, Owes(c), calls[c].pc # "idle",
         calls[c].pc # "next", calls[c].todo = {t}, calls'[c] = After(calls[c]),
         \A d \in Caller \ {c} : calls'[d] = NoCall,
         UNCHANGED <<poolNodes, wanted>>, torn' = {},
         \A n \in Nodes \ {t} : AliveOn(n)' = AliveOn(n),
         \A n \in Nodes : n \notin Left(c) => Cardinality(AliveOn(n)) = wanted[n],
         Cardinality(AliveOn(t))' = wanted[t]
  PROVE  CalmInv'
<1>1. calls[c] \in Call /\ Nodes' = Nodes
  BY DEF BasicInv, PoolInv, RouterTypes, Nodes
<1>2. calls[c].op # "all" => calls[c].rest = {}
  <2>1. calls[c].op \in {"none", "add", "modify", "all"}
    BY <1>1 DEF Call
  <2>2. CallOK(c)
    BY DEF BasicInv, PoolInv, CallInv
  <2>3. QED
    BY <2>1, <2>2 DEF CallOK
<1>3. /\ calls'[c].pc \in {"next", "idle"} /\ calls'[c].rest = calls[c].rest
      /\ calls'[c].rest # {} => calls'[c].size = calls[c].size
      /\ calls'[c].pc # "next" => calls'[c].todo = {}
  <2>1. CASE calls[c].op = "all"
    <3>1. calls'[c] = [calls[c] EXCEPT !.pc = "next"]
      BY <2>1 DEF After
    <3>2. QED
      BY <1>1, <3>1 DEF Call
  <2>2. CASE calls[c].op # "all"
    BY <1>2, <2>2, NoCallIsCall DEF After
  <2>3. QED
    BY <2>1, <2>2
<1>4. Left(c)' = calls[c].rest /\ Left(c) = calls[c].rest \cup {t}
  BY <1>3 DEF Left
<1>5. OwesRest(c)'
  <2> SUFFICES ASSUME NEW n \in calls[c].rest
               PROVE  /\ n \in Nodes' /\ AliveOn(n)' = poolNodes'[n]
                      /\ wanted'[n] = calls'[c].size
                      /\ calls'[c].pc # "next" => n \notin calls'[c].todo
    BY <1>3 DEF OwesRest
  <2>1. /\ n \in Nodes /\ AliveOn(n) = poolNodes[n] /\ wanted[n] = calls[c].size /\ n # t
    BY DEF Owes, OwesRest
  <2>2. QED
    BY <1>1, <1>3, <2>1
<1>6. OwesInsert(c)' /\ OwesAdd(c)' /\ OwesShrink(c)'
  BY <1>3 DEF OwesInsert, OwesAdd, OwesShrink, Holding
<1>7. \A n \in Nodes' : n \notin Left(c)' => Cardinality(AliveOn(n))' = wanted'[n]
  BY <1>1, <1>4
<1>8. QED
  BY <1>5, <1>6, <1>7, CalmStep DEF Owes

LEMMA AddActorCalm ==
  ASSUME BasicInv, CalmInv, NEW c \in Caller, AddActor(c)
  PROVE  CalmInv'
<1> SUFFICES ASSUME calm'
             PROVE  CalmInv'
  BY DEF CalmInv
<1>1. /\ calls[c].pc = "add" /\ calm
      /\ UNCHANGED <<poolNodes, life, newcomer, torn, wanted, defaultNum>>
  BY DEF AddActor
<1>2. PICK t \in PoolNode : t = Target(c) /\ calls[c].todo = {t}
  BY <1>1, TargetIsTodo DEF BasicInv, PoolInv
<1>3. /\ torn = {}
      /\ \A d \in Caller \ {c} : calls[d] = NoCall
      /\ Owes(c)
      /\ \A n \in Nodes : n \notin Left(c) => Cardinality(AliveOn(n)) = wanted[n]
  BY <1>1, CalmAlone
<1>4. /\ t \in Nodes /\ calls[c].count <= Goal(calls[c])
      /\ Cardinality(AliveOn(t)) + (Goal(calls[c]) - calls[c].count) = wanted[t]
  BY <1>1, <1>2, <1>3 DEF Owes, OwesAdd, Holding
<1>5. calls[c] \in Call /\ Goal(calls[c]) \in Nat /\ calls[c].count \in Nat
  BY RouterPoolAssumption
     DEF BasicInv, PoolInv, RouterTypes, RouterTypeOK, Call, Goal
<1>6. Nodes' = Nodes /\ \A n \in Nodes : AliveOn(n)' = AliveOn(n)
  BY <1>1 DEF Nodes, AliveOn
<1>7. CASE calls[c].count >= Goal(calls[c])
  <2>1. IsFiniteSet(AliveOn(t))
    BY <1>4, FS_Subset DEF BasicInv, ListInv, AliveOn
  <2>2. Cardinality(AliveOn(t)) = wanted[t]
    BY <1>4, <1>5, <1>7, <2>1, FS_CardinalityType
  <2>3. Return(c) /\ actorLock' = actorLock /\ actorLock # c
    BY <1>1, <1>7 DEF AddActor, BasicInv, PoolInv, CallInv, CallOK, Holding
  <2>4. calls'[c] = After(calls[c]) /\ \A d \in Caller \ {c} : calls'[d] = NoCall
    BY <1>1, <1>3, <1>6, <2>3, ReturnedCall, OneCallChanges DEF BasicInv, PoolInv
  <2>5. Cardinality(AliveOn(t))' = wanted[t]
    BY <1>4, <1>6, <2>2
  <2>6. QED
    BY <1>1, <1>2, <1>3, <1>4, <1>6, <2>4, <2>5, ReturnCalm
<1>8. CASE ~(calls[c].count >= Goal(calls[c]))
  <2> DEFINE call == [calls[c] EXCEPT !.pc = "spawn"]
  <2>1. calls' = [calls EXCEPT ![c] = call]
    BY <1>2, <1>4, <1>8 DEF AddActor
  <2>2. /\ call \in Call /\ call.pc = "spawn" /\ call.op = calls[c].op
        /\ call.rest = calls[c].rest /\ call.todo = calls[c].todo
        /\ call.count = calls[c].count /\ call.goal = calls[c].goal /\ call.size = calls[c].size
    BY <1>5 DEF Call, Place
  <2> HIDE DEF call
  <2>3. calls'[c] = call /\ \A d \in Caller \ {c} : calls'[d] = NoCall
    BY <1>3, <2>1, <2>2, OneCallChanges DEF BasicInv, PoolInv
  <2>4. Goal(calls[c])' = Goal(calls[c])
    BY <1>1, <2>2, <2>3 DEF Goal
  <2>5. calls[c].count < Goal(calls[c])
    BY <1>5, <1>8
  <2>6. OwesAdd(c)'
    BY <1>1, <1>2, <1>4, <1>6, <2>2, <2>3, <2>4, <2>5 DEF OwesAdd, Holding
  <2>7. OwesInsert(c)' /\ OwesShrink(c)'
    BY <2>2, <2>3 DEF OwesInsert, OwesShrink
  <2>8. OwesRest(c)'
    BY <1>1, <1>3, <1>6, <2>2, <2>3 DEF Owes, OwesRest
  <2>9. Left(c)' = Left(c)
    BY <1>1, <2>2, <2>3 DEF Left
  <2>10. QED
    BY <1>1, <1>3, <1>6, <2>3, <2>6, <2>7, <2>8, <2>9, CalmStep DEF Owes
<1>9. QED
  BY <1>7, <1>8

LEMMA SpawnedCalm ==
  ASSUME BasicInv, CalmInv, NEW c \in Caller, NEW w \in PoolWorker, Spawned(c, w)
  PROVE  CalmInv'
<1> SUFFICES ASSUME calm'
             PROVE  CalmInv'
  BY DEF CalmInv
<1> DEFINE call == [calls[c] EXCEPT !.pc = "monitor"]
<1>1. /\ calls[c].pc = "spawn" /\ calm /\ life[w] = "unborn"
      /\ life' = [life EXCEPT ![w] = "alive"]
      /\ calls' = [calls EXCEPT ![c] = call]
      /\ UNCHANGED <<poolNodes, torn, wanted, defaultNum>>
  BY DEF Spawned, Unborn
<1>2. /\ torn = {}
      /\ \A d \in Caller \ {c} : calls[d] = NoCall
      /\ Owes(c)
      /\ \A n \in Nodes : n \notin Left(c) => Cardinality(AliveOn(n)) = wanted[n]
  BY <1>1, CalmAlone
<1>3. calls[c] \in Call
  BY DEF BasicInv, PoolInv, RouterTypes
<1>4. /\ call \in Call /\ call.pc = "monitor" /\ call.op = calls[c].op
      /\ call.rest = calls[c].rest /\ call.todo = calls[c].todo
      /\ call.count = calls[c].count /\ call.goal = calls[c].goal /\ call.size = calls[c].size
  BY <1>3 DEF Call, Place
<1> HIDE DEF call
<1>5. calls'[c] = call /\ \A d \in Caller \ {c} : calls'[d] = NoCall
  BY <1>1, <1>2, <1>4, OneCallChanges DEF BasicInv, PoolInv
<1>6. \A n \in Nodes : w \notin poolNodes[n] /\ poolNodes[n] \subseteq PoolWorker
  BY <1>1 DEF BasicInv, PoolInv, LifeInv, RouterTypes, RouterTypeOK, Listed
<1>7. \A x \in PoolWorker \ {w} : life'[x] = life[x]
  BY <1>1 DEF BasicInv, PoolInv, RouterTypes, RouterTypeOK
<1>8. Nodes' = Nodes /\ \A n \in Nodes : AliveOn(n)' = AliveOn(n)
  BY <1>1, <1>6, <1>7 DEF Nodes, AliveOn
<1>9. Goal(calls[c])' = Goal(calls[c])
  BY <1>1, <1>4, <1>5 DEF Goal
<1>10. OwesAdd(c)'
  BY <1>1, <1>2, <1>4, <1>5, <1>8, <1>9 DEF Owes, OwesAdd, Holding
<1>11. OwesInsert(c)' /\ OwesShrink(c)'
  BY <1>4, <1>5 DEF OwesInsert, OwesShrink
<1>12. OwesRest(c)'
  BY <1>1, <1>2, <1>4, <1>5, <1>8 DEF Owes, OwesRest
<1>13. Left(c)' = Left(c)
  BY <1>1, <1>4, <1>5 DEF Left
<1>14. QED
  BY <1>1, <1>2, <1>5, <1>8, <1>10, <1>11, <1>12, <1>13, CalmStep DEF Owes

LEMMA MonitorCalm ==
  ASSUME BasicInv, CalmInv, NEW c \in Caller, Monitor(c)
  PROVE  CalmInv'
<1> SUFFICES ASSUME calm'
             PROVE  CalmInv'
  BY DEF CalmInv
<1> DEFINE call == [calls[c] EXCEPT !.pc = "add", !.count = @ + 1]
<1>0. calls[c].pc = "monitor" /\ calm
  BY DEF Monitor
<1> DEFINE w == newcomer
<1>1. /\ w \in PoolWorker /\ w \notin Listed /\ life[w] = "alive"
      /\ poolNodes' = [poolNodes EXCEPT ![Target(c)] = @ \cup {w}]
      /\ calls' = [calls EXCEPT ![c] = call]
      /\ UNCHANGED <<life, torn, wanted, defaultNum>>
  <2>1. w \in PoolWorker /\ w \notin Listed /\ life[w] = "alive"
    BY <1>0, AtMonitor
  <2>2. {w} \cap {x \in PoolWorker : life[x] = "dead"} = {}
    BY <2>1
  <2>3. QED
    BY <2>1, <2>2 DEF Monitor
<1> HIDE DEF w
<1>2. PICK t \in PoolNode : t = Target(c) /\ calls[c].todo = {t}
  BY <1>0, TargetIsTodo DEF Holding, BasicInv, PoolInv
<1>3. /\ torn = {}
      /\ \A d \in Caller \ {c} : calls[d] = NoCall
      /\ Owes(c)
      /\ \A n \in Nodes : n \notin Left(c) => Cardinality(AliveOn(n)) = wanted[n]
  BY <1>0, CalmAlone
<1>4. /\ t \in Nodes /\ calls[c].count < Goal(calls[c])
      /\ Cardinality(AliveOn(t)) + (Goal(calls[c]) - calls[c].count) = wanted[t]
  BY <1>0, <1>2, <1>3 DEF Owes, OwesAdd, Holding
<1>5. calls[c] \in Call /\ Goal(calls[c]) \in Nat /\ calls[c].count \in Nat
  BY RouterPoolAssumption
     DEF BasicInv, PoolInv, RouterTypes, RouterTypeOK, Call, Goal
<1>6. /\ call \in Call /\ call.pc = "add" /\ call.op = calls[c].op
      /\ call.rest = calls[c].rest /\ call.todo = calls[c].todo
      /\ call.count = calls[c].count + 1 /\ call.goal = calls[c].goal /\ call.size = calls[c].size
  <2>1. calls[c].count + 1 \in Nat
    BY <1>5
  <2>2. QED
    BY <1>5, <2>1 DEF Call, Place
<1> HIDE DEF call
<1>7. calls'[c] = call /\ \A d \in Caller \ {c} : calls'[d] = NoCall
  BY <1>1, <1>3, <1>6, OneCallChanges DEF BasicInv, PoolInv
<1>8. \A n \in Nodes : w \notin poolNodes[n] /\ poolNodes[n] \subseteq PoolWorker
  BY <1>1 DEF BasicInv, PoolInv, RouterTypes, RouterTypeOK, Listed
<1>9. /\ Nodes' = Nodes /\ poolNodes'[t] = poolNodes[t] \cup {w}
      /\ \A n \in Nodes \ {t} : poolNodes'[n] = poolNodes[n]
  BY <1>1, <1>2, <1>4 DEF BasicInv, PoolInv, RouterTypes, RouterTypeOK, Nodes
<1>10. AliveOn(t)' = AliveOn(t) \cup {w} /\ \A n \in Nodes \ {t} : AliveOn(n)' = AliveOn(n)
  BY <1>1, <1>4, <1>8, <1>9 DEF AliveOn
<1>11. Cardinality(AliveOn(t))' = Cardinality(AliveOn(t)) + 1 /\ Cardinality(AliveOn(t)) \in Nat
  <2>1. IsFiniteSet(AliveOn(t)) /\ w \notin AliveOn(t)
    BY <1>4, <1>8, FS_Subset DEF BasicInv, ListInv, AliveOn
  <2>2. QED
    BY <1>10, <2>1, FS_AddElement, FS_CardinalityType
<1>12. Goal(calls[c])' = Goal(calls[c])
  BY <1>1, <1>6, <1>7 DEF Goal
<1>13. OwesAdd(c)'
  <2>1. /\ calls[c].count + 1 <= Goal(calls[c])
        /\ Cardinality(AliveOn(t))' + (Goal(calls[c]) - (calls[c].count + 1)) = wanted[t]
    BY <1>4, <1>5, <1>11
  <2>2. QED
    BY <1>1, <1>2, <1>4, <1>6, <1>7, <1>9, <1>12, <2>1 DEF OwesAdd, Holding
<1>14. OwesInsert(c)' /\ OwesShrink(c)'
  BY <1>6, <1>7 DEF OwesInsert, OwesShrink
<1>15. OwesRest(c)'
  <2> SUFFICES ASSUME NEW n \in calls[c].rest
               PROVE  /\ n \in Nodes' /\ AliveOn(n)' = poolNodes'[n]
                      /\ wanted'[n] = calls'[c].size /\ n \notin calls'[c].todo
    BY <1>6, <1>7 DEF OwesRest
  <2>1. /\ n \in Nodes /\ AliveOn(n) = poolNodes[n] /\ wanted[n] = calls[c].size
        /\ n \notin calls[c].todo
    BY <1>0, <1>3 DEF Owes, OwesRest
  <2>2. n # t
    BY <1>2, <2>1
  <2>3. QED
    BY <1>1, <1>6, <1>7, <1>9, <1>10, <2>1, <2>2
<1>16. Left(c)' = Left(c) /\ t \in Left(c)
  BY <1>0, <1>2, <1>6, <1>7 DEF Left
<1>17. \A n \in Nodes' : n \notin Left(c)' => Cardinality(AliveOn(n))' = wanted'[n]
  BY <1>1, <1>3, <1>9, <1>10, <1>16
<1>18. QED
  BY <1>1, <1>3, <1>7, <1>13, <1>14, <1>15, <1>17, CalmStep DEF Owes

LEMMA NextNodeCalm ==
  ASSUME BasicInv, CalmInv, NEW c \in Caller, NextNode(c)
  PROVE  CalmInv'
<1> SUFFICES ASSUME calm'
             PROVE  CalmInv'
  BY DEF CalmInv
<1>1. /\ calls[c].pc = "next" /\ calm /\ torn' = torn \ {c}
      /\ UNCHANGED <<poolNodes, life, wanted, defaultNum>>
  BY DEF NextNode
<1>2. /\ torn = {} /\ torn' = {}
      /\ \A d \in Caller \ {c} : calls[d] = NoCall
      /\ Owes(c)
      /\ \A n \in Nodes : n \notin Left(c) => Cardinality(AliveOn(n)) = wanted[n]
  BY <1>1, CalmAlone
<1>3. /\ Left(c) = calls[c].rest
      /\ \A n \in calls[c].rest :
            n \in Nodes /\ AliveOn(n) = poolNodes[n] /\ wanted[n] = calls[c].size
  BY <1>1, <1>2 DEF Left, Owes, OwesRest
<1>4. Nodes' = Nodes /\ \A n \in Nodes : AliveOn(n)' = AliveOn(n)
  BY <1>1 DEF Nodes, AliveOn
<1>5. calls[c] \in Call /\ calls[c].op = "all"
  BY <1>1 DEF BasicInv, PoolInv, RouterTypes, CallInv, CallOK
<1>6. CASE calls' = [calls EXCEPT ![c] = NoCall] /\ calls[c].rest = {}
  <2>1. calls' = [calls EXCEPT ![c] = NoCall] /\ calls[c].rest = {}
    BY <1>6
  <2>2. calls'[c] = NoCall /\ \A d \in Caller \ {c} : calls'[d] = NoCall
    BY <1>2, <2>1, NoCallIsCall, OneCallChanges DEF BasicInv, PoolInv
  <2>3. Owes(c)'
    BY <2>2, NoCallIsCall DEF Owes, OwesInsert, OwesAdd, Holding, OwesShrink, OwesRest
  <2>4. QED
    BY <1>1, <1>2, <1>3, <1>4, <2>1, <2>2, <2>3, CalmStep
<1>7. ASSUME NEW n \in calls[c].rest,
             calls' = [calls EXCEPT ![c] = Resized(
                [calls[c] EXCEPT !.todo = {n}, !.rest = calls[c].rest \ {n}, !.count = 0], n)]
      PROVE  CalmInv'
  <2> DEFINE start == [calls[c] EXCEPT !.todo = {n}, !.rest = calls[c].rest \ {n}, !.count = 0]
             call == Resized(start, n)
  <2>1. /\ start \in Call /\ start.op = "all" /\ start.todo = {n} /\ start.count = 0
        /\ start.rest = calls[c].rest \ {n} /\ start.size = calls[c].size
    BY <1>3, <1>5 DEF Call
  <2>2. IsFiniteSet(poolNodes[n]) /\ n \in Nodes
    BY <1>3 DEF BasicInv, ListInv
  <2>3. calls' = [calls EXCEPT ![c] = call]
    BY <1>7
  <2> HIDE DEF start
  <2>4. call \in Call /\ call.rest = start.rest /\ call.todo = {n} /\ call.size = start.size
        /\ call.pc \in {"shrink", "add"}
    BY <2>1, <2>2, ResizedCall
  <2>5. calls'[c] = call /\ \A d \in Caller \ {c} : calls'[d] = NoCall
    BY <1>2, <2>3, <2>4, OneCallChanges DEF BasicInv, PoolInv
  <2>6. AliveOn(n) = poolNodes[n] /\ wanted'[n] = start.size
    BY <1>1, <1>3, <2>1
  <2>7. OwesInsert(c)' /\ OwesAdd(c)' /\ OwesShrink(c)' /\ Left(c)' = start.rest \cup {n}
    BY <1>1, <2>1, <2>2, <2>5, <2>6, ResizedOwes
  <2> HIDE DEF call
  <2>8. OwesRest(c)'
    BY <1>1, <1>3, <1>4, <2>1, <2>4, <2>5 DEF OwesRest
  <2>9. Left(c)' = Left(c)
    BY <1>3, <2>1, <2>7
  <2>10. QED
    BY <1>1, <1>2, <1>4, <2>5, <2>7, <2>8, <2>9, CalmStep DEF Owes
<1>8. Ahead(c) = {calls[c].rest}
  BY <1>2, <1>3 DEF Ahead
<1>9. QED
  BY <1>6, <1>7, <1>8 DEF NextNode

LEMMA SmallerOfTwo ==
  ASSUME NEW i \in Nat, NEW j \in Nat, i <= j
  PROVE  Min({i, j}) = i
<1>1. \A y \in {i, j} : i <= y
  OBVIOUS
<1>2. \A x \in {i, j} : (\A y \in {i, j} : x <= y) => x = i
  OBVIOUS
<1>3. QED
  BY <1>1, <1>2 DEF Min

\* As many workers are told as were too many, all of them of the node at hand.
LEMMA DeleteActorsCalm ==
  ASSUME BasicInv, CalmInv, NEW c \in Caller, DeleteActors(c)
  PROVE  CalmInv'
<1> SUFFICES ASSUME calm'
             PROVE  CalmInv'
  BY DEF CalmInv
<1>1. /\ calls[c].pc = "shrink" /\ calm /\ actorLock = "free" /\ Return(c)
      /\ UNCHANGED <<poolNodes, wanted, actorLock, newcomer, torn>>
  BY DEF DeleteActors
<1>2. PICK t \in PoolNode : t = Target(c) /\ calls[c].todo = {t}
  BY <1>1, TargetIsTodo DEF BasicInv, PoolInv
<1>3. /\ torn = {}
      /\ \A d \in Caller \ {c} : calls[d] = NoCall
      /\ Owes(c)
      /\ \A n \in Nodes : n \notin Left(c) => Cardinality(AliveOn(n)) = wanted[n]
  BY <1>1, CalmAlone
<1>4. /\ t \in Nodes /\ AliveOn(t) = poolNodes[t] /\ wanted[t] = calls[c].size
      /\ Cardinality(poolNodes[t]) = calls[c].size + calls[c].goal
  BY <1>1, <1>2, <1>3 DEF Owes, OwesShrink
<1>5. PICK S \in SUBSET poolNodes[t] :
         /\ Cardinality(S) = Min({calls[c].goal, Cardinality(poolNodes[t])})
         /\ life' = Tell(S)
  BY <1>2, <1>4 DEF DeleteActors, FirstOf
<1>6. calls[c].size \in Nat /\ calls[c].goal \in Nat /\ IsFiniteSet(poolNodes[t])
  BY <1>4 DEF BasicInv, PoolInv, RouterTypes, Call, ListInv
<1>7. Cardinality(S) = calls[c].goal
  <2>1. /\ Cardinality(poolNodes[t]) \in Nat
        /\ calls[c].goal <= Cardinality(poolNodes[t])
    BY <1>4, <1>6
  <2>2. Min({calls[c].goal, Cardinality(poolNodes[t])}) = calls[c].goal
    BY <1>6, <2>1, SmallerOfTwo
  <2>3. QED
    BY <1>5, <2>2
<1>8. /\ \A n \in Nodes : poolNodes[n] \subseteq PoolWorker
      /\ \A n \in Nodes \ {t} : poolNodes[n] \cap S = {}
      /\ Nodes' = Nodes
  BY <1>1, <1>4 DEF BasicInv, PoolInv, RouterTypes, RouterTypeOK, Listed, ListInv, Nodes
<1>9. \A w \in PoolWorker : life'[w] = "alive" <=> life[w] = "alive" /\ w \notin S
  BY <1>5, Told DEF BasicInv, PoolInv
<1>10. AliveOn(t)' = poolNodes[t] \ S /\ \A n \in Nodes \ {t} : AliveOn(n)' = AliveOn(n)
  BY <1>1, <1>4, <1>8, <1>9 DEF AliveOn
<1>11. Cardinality(AliveOn(t))' = wanted[t]
  <2>1. poolNodes[t] \cap S = S
    BY <1>5
  <2>2. Cardinality(poolNodes[t] \ S) = Cardinality(poolNodes[t]) - Cardinality(S)
    BY <1>6, <2>1, FS_Difference
  <2>3. QED
    BY <1>4, <1>6, <1>7, <1>10, <2>2
<1>12. calls'[c] = After(calls[c]) /\ \A d \in Caller \ {c} : calls'[d] = NoCall
  BY <1>1, <1>3, <1>8, RouterPoolAssumption, ReturnedCall, OneCallChanges DEF BasicInv, PoolInv
<1>13. QED
  BY <1>1, <1>2, <1>3, <1>4, <1>10, <1>11, <1>12, ReturnCalm

LEMMA DeleteNodeCalm ==
  ASSUME BasicInv, CalmInv, NEW n \in PoolNode, DeleteNode(n)
  PROVE  CalmInv'
<1> SUFFICES ASSUME calm'
             PROVE  CalmInv'
  BY DEF CalmInv
<1>1. /\ calm /\ ~Disturbed /\ n \in Nodes /\ life' = Tell(poolNodes[n])
      /\ poolNodes' = [m \in Nodes \ {n} |-> poolNodes[m]]
      /\ UNCHANGED <<calls, wanted>> /\ torn' = torn \cup Iterating
  BY DEF DeleteNode, Torn
<1>2. /\ torn = {}
      /\ \A d \in Caller : calls[d] = NoCall
      /\ \A m \in Nodes : Cardinality(AliveOn(m)) = wanted[m]
  BY <1>1, UndisturbedPool
<1>3. /\ Nodes' = Nodes \ {n} /\ \A m \in Nodes' : poolNodes'[m] = poolNodes[m]
      /\ \A m \in Nodes' : poolNodes[m] \subseteq PoolWorker /\ poolNodes[m] \cap poolNodes[n] = {}
  BY <1>1 DEF BasicInv, PoolInv, RouterTypes, RouterTypeOK, Listed, ListInv, Nodes
<1>4. \A w \in PoolWorker : life'[w] = "alive" <=> life[w] = "alive" /\ w \notin poolNodes[n]
  BY <1>1, Told DEF BasicInv, PoolInv
<1>5. \A m \in Nodes' : AliveOn(m)' = AliveOn(m)
  BY <1>3, <1>4 DEF AliveOn
<1>6. OneCall' /\ torn' = {}
  BY <1>1, <1>2, NoCallIsCall DEF OneCall, Iterating
<1>7. \A d \in Caller : Owes(d)'
  BY <1>1, <1>2, NoCallIsCall DEF Owes, OwesInsert, OwesAdd, Holding, OwesShrink, OwesRest
<1>8. DoneInv'
  BY <1>1, <1>2, <1>3, <1>5 DEF DoneInv
<1>9. QED
  BY <1>6, <1>7, <1>8 DEF CalmInv

LEMMA WorkerCalm ==
  ASSUME BasicInv, CalmInv,
         (\E w \in PoolWorker : WorkerDies(w) \/ PoolDown(w) \/ IoTakesDown(w)) \/ IoDeletesActor
  PROVE  CalmInv'
<1>1. ASSUME NEW w \in PoolWorker, WorkerDies(w)
      PROVE  CalmInv'
  <2>1. /\ UNCHANGED <<poolNodes, calls, torn, wanted, defaultNum>>
        /\ calm' => calm /\ life[w] = "told"
        /\ life' = [life EXCEPT ![w] = "dead"]
    BY <1>1 DEF WorkerDies
  <2>2. /\ calm' => \A x \in PoolWorker : life'[x] = "alive" <=> life[x] = "alive"
        /\ \A n \in Nodes : poolNodes[n] \subseteq PoolWorker
    BY <2>1 DEF BasicInv, PoolInv, RouterTypes, RouterTypeOK, Listed
  <2>3. Nodes' = Nodes /\ \A n \in Nodes : calm' => AliveOn(n)' = AliveOn(n)
    BY <2>1, <2>2 DEF Nodes, AliveOn
  <2>4. QED
    BY <2>1, <2>3, CalmFrame
<1>2. ASSUME NEW w \in PoolWorker, PoolDown(w) \/ IoTakesDown(w)
      PROVE  CalmInv'
  <2>1. UNCHANGED <<poolNodes, life, calls, torn, wanted, defaultNum, calm>>
    BY <1>2 DEF PoolDown, IoTakesDown
  <2>2. Nodes' = Nodes /\ \A n \in Nodes : AliveOn(n)' = AliveOn(n)
    BY <2>1 DEF Nodes, AliveOn
  <2>3. QED
    BY <2>1, <2>2, CalmFrame
<1>3. ASSUME IoDeletesActor
      PROVE  CalmInv'
  <2>1. /\ io # "free" /\ poolNodes' = [n \in Nodes |-> poolNodes[n] \ {io}]
        /\ life[io] = "dead"
        /\ UNCHANGED <<life, calls, torn, wanted, defaultNum, calm>>
    BY <1>3 DEF IoDeletesActor, BasicInv, PoolInv, LifeInv
  <2>2. Nodes' = Nodes /\ \A n \in Nodes : poolNodes'[n] = poolNodes[n] \ {io}
    BY <2>1 DEF Nodes
  <2>3. \A n \in Nodes : AliveOn(n)' = AliveOn(n)
    BY <2>1, <2>2 DEF AliveOn
  <2>4. \A n \in Nodes : AliveOn(n) = poolNodes[n] => poolNodes'[n] = poolNodes[n]
    BY <2>1, <2>2 DEF AliveOn
  <2>5. QED
    BY <2>1, <2>2, <2>3, <2>4, CalmFrame
<1>4. QED
  BY <1>1, <1>2, <1>3

-----------------------------------------------------------------------------
(* The theorems.                                                           *)

-----------------------------------------------------------------------------
(* The downs: one is under way for each dead worker until it is taken out. *)

\* Nothing frees a call that monitored a dead worker.
LEMMA StuckStays ==
  ASSUME RouterTypes, RouterNext, MonitorsTheDead
  PROVE  MonitorsTheDead'
<1>1. PICK d \in Caller : calls[d].pc = "stuck"
  BY DEF MonitorsTheDead
<1>2. calls'[d] = calls[d]
  <2>1. calls[d] # NoCall
    BY <1>1, NoCallIsCall
  <2>2. ASSUME NEW c \in Caller, calls[c].pc # "stuck",
               \E call : calls' = [calls EXCEPT ![c] = call]
        PROVE  calls'[d] = calls[d]
    BY <1>1, <2>2 DEF RouterTypes
  <2>3. ASSUME NEW c \in Caller,
               \/ \E n \in PoolNode : BeginAddNode(c, n)
               \/ \E n \in PoolNode, size \in Sizes : BeginModifyNode(c, n, size)
               \/ \E size \in Sizes : BeginModifyAll(c, size)
        PROVE  calls'[d] = calls[d]
    <3>1. calls[c] = NoCall /\ \E call : calls' = [calls EXCEPT ![c] = call]
      BY <2>3 DEF BeginAddNode, BeginModifyNode, BeginModifyAll, Begin
    <3>2. QED
      BY <2>2, <3>1, NoCallIsCall
  <2>4. ASSUME NEW c \in Caller, CallStep(c)
        PROVE  calls'[d] = calls[d]
    <3>1. calls[c].pc \in {"insert", "add", "spawn", "monitor", "next", "shrink"}
      BY <2>4 DEF CallStep, InsertNode, AddActor, Spawned, SpawnFails, Monitor, NextNode,
         DeleteActors
    <3>2. \E call : calls' = [calls EXCEPT ![c] = call]
      BY <2>4 DEF CallStep, InsertNode, AddActor, Spawned, SpawnFails, Monitor, NextNode,
         DeleteActors, Return
    <3>3. QED
      BY <2>2, <3>1, <3>2
  <2>5. QED
    BY <2>3, <2>4 DEF RouterNext, DeleteNode, WorkerDies, PoolDown, IoTakesDown, IoDeletesActor
<1>3. QED
  BY <1>1, <1>2 DEF MonitorsTheDead

\* The steps of calls, and DeleteNode, leave the downs alone, but for the monitor
\* of a worker that is dead.
LEMMA CallsKeepDowns ==
  ASSUME BasicInv, DownInv,
         \/ \E c \in Caller :
               \/ \E n \in PoolNode : BeginAddNode(c, n)
               \/ \E n \in PoolNode, size \in Sizes : BeginModifyNode(c, n, size)
               \/ \E size \in Sizes : BeginModifyAll(c, size)
               \/ CallStep(c)
         \/ \E n \in PoolNode : DeleteNode(n)
  PROVE  DownInv'
<1> USE DEF BasicInv, PoolInv
<1>0. MonitorsTheDead => MonitorsTheDead'
  BY StuckStays DEF RouterNext
<1>1. /\ Listed \cup poolWorkers \subseteq PoolWorker
      /\ life \in [PoolWorker -> {"unborn", "alive", "told", "dead"}]
  BY DEF RouterTypes, RouterTypeOK
<1>2. ASSUME UNCHANGED <<poolNodes, poolWorkers, life, io, routerDowns>>
      PROVE  DownInv'
  BY <1>0, <1>2 DEF DownInv, Listed, Nodes
<1>3. ASSUME NEW c \in Caller, InsertNode(c)
      PROVE  DownInv'
  <2>1. /\ poolNodes' = [n \in Nodes \cup calls[c].todo |->
                            IF n \in Nodes THEN poolNodes[n] ELSE {}]
        /\ UNCHANGED <<poolWorkers, life, io, routerDowns>>
    BY <1>3 DEF InsertNode
  <2>2. Listed' = Listed
    BY <2>1 DEF Listed, Nodes
  <2>3. QED
    BY <1>0, <2>1, <2>2, SameDowns
<1>4. ASSUME NEW c \in Caller, NEW w \in PoolWorker, Spawned(c, w)
      PROVE  DownInv'
  <2>1. /\ life' = [life EXCEPT ![w] = "alive"]
        /\ UNCHANGED <<poolNodes, poolWorkers, io, routerDowns>>
    BY <1>4 DEF Spawned
  <2>2. Listed' = Listed
    BY <2>1 DEF Listed, Nodes
  <2>3. \A x \in PoolWorker : life'[x] = "dead" => life[x] = "dead"
    BY <1>1, <2>1
  <2>4. QED
    BY <1>0, <1>1, <2>1, <2>2, <2>3, SameDowns
<1>5. ASSUME NEW c \in Caller, Monitor(c)
       PROVE  DownInv'
  <2> DEFINE gone == {newcomer} \cap {w \in PoolWorker : life[w] = "dead"}
  <2>1. /\ calls[c].pc = "monitor" /\ poolWorkers' = poolWorkers \cup {newcomer}
        /\ poolNodes' = [poolNodes EXCEPT ![Target(c)] = @ \cup {newcomer}]
        /\ UNCHANGED <<life, io>>
    BY <1>5 DEF Monitor
  <2>2. Listed' \subseteq Listed \cup {newcomer}
    BY <2>1 DEF Listed, Nodes
  <2>3. newcomer \in PoolWorker
    BY <2>1, AtMonitor
  <2>4. CASE routerDowns' = routerDowns \cup gone
    BY <1>0, <2>1, <2>2, <2>3, <2>4 DEF DownInv
  <2>5. CASE calls' = [calls EXCEPT ![c].pc = "stuck"]
    <3>1. calls'[c].pc = "stuck"
      BY <2>5 DEF RouterTypes, Call
    <3>2. QED
      BY <3>1 DEF DownInv, MonitorsTheDead
  <2>6. QED
    BY <1>5, <2>4, <2>5 DEF Monitor
<1>6. ASSUME NEW c \in Caller, SpawnFails(c)
      PROVE  DownInv'
  <2>1. /\ UNCHANGED <<poolNodes, poolWorkers, io, routerDowns>>
        /\ UNCHANGED life \/ life' = [life EXCEPT ![Fresh] = "alive"]
    BY <1>6 DEF SpawnFails
  <2>2. Listed' = Listed
    BY <2>1 DEF Listed, Nodes
  <2>3. \A x \in PoolWorker : life'[x] = "dead" => life[x] = "dead"
    BY <1>1, <2>1
  <2>4. QED
    BY <1>0, <1>1, <2>1, <2>2, <2>3, SameDowns
<1>7. ASSUME NEW S, life' = Tell(S), Listed' \subseteq Listed,
             UNCHANGED <<poolWorkers, io, routerDowns>>
      PROVE  DownInv'
  <2>1. \A x \in PoolWorker : life'[x] = "dead" => life[x] = "dead"
    BY <1>7, Told
  <2>2. QED
    BY <1>0, <1>1, <1>7, <2>1, SameDowns
<1>8. ASSUME NEW c \in Caller, DeleteActors(c)
      PROVE  DownInv'
  <2>1. /\ UNCHANGED <<poolNodes, poolWorkers, io, routerDowns>>
        /\ UNCHANGED life \/ \E S : life' = Tell(S)
    BY <1>8 DEF DeleteActors
  <2>2. Listed' = Listed
    BY <2>1 DEF Listed, Nodes
  <2>3. QED
    BY <1>2, <1>7, <2>1, <2>2
<1>9. ASSUME NEW n \in PoolNode, DeleteNode(n)
      PROVE  DownInv'
  <2>1. /\ life' = Tell(poolNodes[n]) /\ poolNodes' = [m \in Nodes \ {n} |-> poolNodes[m]]
        /\ UNCHANGED <<poolWorkers, io, routerDowns>>
    BY <1>9 DEF DeleteNode
  <2>2. Listed' \subseteq Listed
    BY <2>1 DEF Listed, Nodes
  <2>3. QED
    BY <1>7, <2>1, <2>2
<1>10. QED
  BY <1>2, <1>3, <1>4, <1>5, <1>6, <1>8, <1>9
     DEF BeginAddNode, BeginModifyNode, BeginModifyAll, CallStep, AddActor, NextNode

\* A death sends the downs; they end with the worker taken out.
LEMMA WorkerKeepsDowns ==
  ASSUME BasicInv, DownInv,
         (\E w \in PoolWorker : WorkerDies(w) \/ PoolDown(w) \/ IoTakesDown(w)) \/ IoDeletesActor
  PROVE  DownInv'
<1> USE DEF BasicInv, PoolInv
<1>0. MonitorsTheDead => MonitorsTheDead'
  BY StuckStays DEF RouterNext
<1>1. /\ Listed \cup poolWorkers \subseteq PoolWorker
      /\ life \in [PoolWorker -> {"unborn", "alive", "told", "dead"}]
  BY DEF RouterTypes, RouterTypeOK
<1>2. ASSUME UNCHANGED poolNodes
      PROVE  Listed' = Listed
  BY <1>2 DEF Listed, Nodes
<1>3. ASSUME NEW w \in PoolWorker, WorkerDies(w)
      PROVE  DownInv'
  <2>1. /\ life[w] \in {"alive", "told"} /\ life' = [life EXCEPT ![w] = "dead"]
        /\ routerDowns' = IF w \in poolWorkers THEN routerDowns \cup {w} ELSE routerDowns
        /\ UNCHANGED <<poolNodes, poolWorkers, io>>
    BY <1>3 DEF WorkerDies
  <2>2. w \in Listed => w \in poolWorkers
    BY <2>1 DEF PoolMatchesNodes
  <2>3. \A x \in PoolWorker \ {w} : life'[x] = life[x]
    BY <1>1, <2>1
  <2>4. QED
    BY <1>0, <1>1, <1>2, <2>1, <2>2, <2>3 DEF DownInv
<1>4. ASSUME NEW w \in PoolWorker, PoolDown(w)
      PROVE  DownInv'
  BY <1>0, <1>2, <1>4 DEF PoolDown, Removed, DownInv
<1>5. ASSUME NEW w \in PoolWorker, IoTakesDown(w)
      PROVE  DownInv'
  <2>1. /\ io = "free" /\ io' = w /\ routerDowns' = routerDowns \ {w}
        /\ UNCHANGED <<poolNodes, poolWorkers, life>>
    BY <1>5 DEF IoTakesDown
  <2>2. "free" \notin PoolWorker
    BY RouterPoolAssumption
  <2>3. QED
    BY <1>0, <1>1, <1>2, <2>1, <2>2 DEF DownInv
<1>6. ASSUME IoDeletesActor
      PROVE  DownInv'
  <2>1. /\ poolNodes' = [n \in Nodes |-> poolNodes[n] \ {io}]
        /\ poolWorkers' = poolWorkers \ {io} /\ UNCHANGED <<life, routerDowns>>
    BY <1>6 DEF IoDeletesActor, Removed
  <2>2. Listed' = Listed \ {io}
    BY <2>1 DEF Listed, Nodes
  <2>3. QED
    BY <1>0, <2>1, <2>2 DEF DownInv
<1>7. QED
  BY <1>3, <1>4, <1>5, <1>6

-----------------------------------------------------------------------------
(* The invariant of the router pool.                                       *)

LEMMA RouterInitInv == RouterInit => RouterInv
<1> SUFFICES ASSUME RouterInit
             PROVE  RouterInv
  OBVIOUS
<1>1. Nodes = {} /\ Listed = {}
  BY DEF RouterInit, Nodes, Listed
<1>2. \A c \in Caller : calls[c] = NoCall
  BY DEF RouterInit
<1>3. RouterTypes
  BY <1>1, NoCallIsCall DEF RouterInit, RouterTypes, RouterTypeOK, NoCall
<1>4. CallInv
  BY <1>2, NoCallIsCall, RouterPoolAssumption DEF RouterInit, CallInv, CallOK, Holding
<1>5. LifeInv /\ PoolMatchesNodes /\ ListInv /\ DownInv
  BY <1>1 DEF RouterInit, LifeInv, PoolMatchesNodes, ListInv, DownInv
<1>6. CalmInv
  BY <1>1, <1>2, NoCallIsCall
     DEF RouterInit, CalmInv, OneCall, DoneInv, Owes, Holding, OwesInsert, OwesAdd,
         OwesShrink, OwesRest
<1>7. QED
  BY <1>3, <1>4, <1>5, <1>6 DEF RouterInv, PoolInv

LEMMA CallStepInv ==
  ASSUME RouterInv, NEW c \in Caller, CallStep(c)
  PROVE  RouterInv'
<1>1. BasicInv /\ DownInv /\ CalmInv
  BY DEF RouterInv, BasicInv
<1>2. BasicInv'
  BY <1>1, InsertNodeInv, AddActorInv, SpawnedInv, MonitorInv, SpawnFailsInv,
     NextNodeInv, DeleteActorsInv DEF CallStep
<1>3. CalmInv'
  <2>1. SpawnFails(c) => ~calm'
    BY DEF SpawnFails
  <2>2. SpawnFails(c) => CalmInv'
    BY <2>1 DEF CalmInv
  <2>3. QED
    BY <1>1, <2>2, InsertNodeCalm, AddActorCalm, SpawnedCalm, MonitorCalm,
       NextNodeCalm, DeleteActorsCalm DEF CallStep
<1>4. QED
  BY <1>1, <1>2, <1>3, CallsKeepDowns DEF RouterInv, BasicInv

LEMMA RouterStepInv == RouterInv /\ [RouterNext]_routerVars => RouterInv'
<1> SUFFICES ASSUME RouterInv, [RouterNext]_routerVars
             PROVE  RouterInv'
  OBVIOUS
<1>1. BasicInv /\ DownInv /\ CalmInv
  BY DEF RouterInv, BasicInv
<1>2. ASSUME NEW c \in Caller,
             \/ \E n \in PoolNode : BeginAddNode(c, n)
             \/ \E n \in PoolNode, size \in Sizes : BeginModifyNode(c, n, size)
             \/ \E size \in Sizes : BeginModifyAll(c, size)
      PROVE  RouterInv'
  BY <1>1, <1>2, BeginInv, BeginCalm, CallsKeepDowns DEF RouterInv, BasicInv
<1>3. ASSUME NEW n \in PoolNode, DeleteNode(n)
      PROVE  RouterInv'
  BY <1>1, <1>3, DeleteNodeInv, DeleteNodeCalm, CallsKeepDowns DEF RouterInv, BasicInv
<1>4. ASSUME (\E w \in PoolWorker : WorkerDies(w) \/ PoolDown(w) \/ IoTakesDown(w)) \/ IoDeletesActor
      PROVE  RouterInv'
  BY <1>1, <1>4, WorkerInv, WorkerCalm, WorkerKeepsDowns DEF RouterInv, BasicInv
<1>5. ASSUME UNCHANGED routerVars
      PROVE  RouterInv'
  <2>1. /\ UNCHANGED <<poolNodes, defaultNum, poolWorkers, poolOver, life, quits, calls, actorLock>>
        /\ UNCHANGED <<io, newcomer, torn, routerDowns, poolDowns, calm, wanted, callCount,
                       crashes>>
    BY <1>5 DEF routerVars
  <2>2. Nodes' = Nodes /\ \A n \in Nodes : AliveOn(n)' = AliveOn(n)
    BY <2>1 DEF Nodes, AliveOn
  <2>3. CalmInv'
    BY <1>1, <2>1, <2>2, CalmFrame
  <2>4. RouterTypes' /\ CallInv'
    BY <1>1, <2>1 DEF BasicInv, PoolInv, RouterTypes, RouterTypeOK, CallInv, CallOK,
       Nodes, Listed
  <2>5. LifeInv' /\ PoolMatchesNodes' /\ ListInv'
    BY <1>1, <2>1, SamePool DEF BasicInv, PoolInv
  <2>6. DownInv'
    BY <1>1, <2>1 DEF DownInv, MonitorsTheDead, Listed, Nodes
  <2>7. QED
    BY <2>3, <2>4, <2>5, <2>6 DEF RouterInv, PoolInv
<1>6. QED
  BY <1>2, <1>3, <1>4, <1>5, CallStepInv DEF RouterNext

LEMMA RouterInvariant == RouterSpec => []RouterInv
BY RouterInitInv, RouterStepInv, PTL DEF RouterSpec

\* RouterPool's state keeps its types, the map of nodes to workers included.
THEOREM RouterTypeCorrect == RouterSpec => []RouterTypeOK
<1>1. RouterInv => RouterTypeOK
  BY DEF RouterInv, PoolInv, RouterTypes
<1>2. QED
  BY <1>1, RouterInvariant, PTL

\* However calls of RouterPool, spawns, deaths and downs overlap, pool_ has every
\* worker that lives and that nodes_ lists, and beside those only workers that were
\* told to exit.
THEOREM PoolAgreesWithNodes == RouterSpec => []PoolMatchesNodes
<1>1. RouterInv => PoolMatchesNodes
  BY DEF RouterInv, PoolInv
<1>2. QED
  BY <1>1, RouterInvariant, PTL

\* Requests that do not disturb one another leave each node of RouterPool with as
\* many workers as it was last asked to have, for any sizes and any number of nodes.
THEOREM ResizeIsExact == RouterSpec => []ResizeReachesSize
<1>1. ASSUME RouterInv
      PROVE  ResizeReachesSize
  <2> SUFFICES ASSUME calm, \A c \in Caller : calls[c].pc = "idle", NEW n \in Nodes
               PROVE  Cardinality({w \in poolNodes[n] : life[w] = "alive"}) = wanted[n]
    BY DEF ResizeReachesSize
  <2>1. \A c \in Caller : calls[c] = NoCall
    BY <1>1 DEF RouterInv, PoolInv, CallInv, CallOK
  <2>2. \A c \in Caller : Left(c) = {}
    BY <2>1, NoCallIsCall DEF Left
  <2>3. QED
    BY <1>1, <2>2 DEF RouterInv, CalmInv, DoneInv, AliveOn
<1>2. QED
  BY <1>1, RouterInvariant, PTL

-----------------------------------------------------------------------------
(* Some thread can go on.                                                  *)

\* A finite set has a part of each size up to its own.
LEMMA SomeFirst ==
  ASSUME NEW S, IsFiniteSet(S), NEW num \in Nat
  PROVE  FirstOf(S, num) # {}
<1> DEFINE n == Cardinality(S)
           k == Min({num, n})
<1>1. n \in Nat
  BY FS_CardinalityType
<1>2. PICK f : f \in Bijection(1 .. n, S)
  BY FS_CardinalityType DEF ExistsBijection
<1> HIDE DEF n
<1>3. k \in Nat /\ k <= n
  <2>1. CASE num <= n
    BY <1>1, <2>1, SmallerOfTwo
  <2>2. CASE n <= num
    <3>1. Min({n, num}) = n /\ {n, num} = {num, n}
      BY <1>1, <2>2, SmallerOfTwo
    <3>2. QED
      BY <1>1, <3>1
  <2>3. QED
    BY <1>1, <2>1, <2>2
<1> HIDE DEF k
<1> DEFINE T == {f[i] : i \in 1 .. k}
           g == [i \in 1 .. k |-> f[i]]
<1>4. f \in [1 .. n -> S] /\ \A i, j \in 1 .. n : f[i] = f[j] => i = j
  BY <1>2 DEF Bijection, Injection, IsInjective
<1>5. g \in Bijection(1 .. k, T)
  <2>1. g \in [1 .. k -> T] /\ \A t \in T : \E i \in 1 .. k : g[i] = t
    OBVIOUS
  <2>2. \A i, j \in 1 .. k : g[i] = g[j] => i = j
    BY <1>1, <1>3, <1>4
  <2> HIDE DEF g, T
  <2>3. QED
    BY <2>1, <2>2 DEF Bijection, Injection, Surjection, IsInjective
<1>6. Cardinality(T) = k
  <2> HIDE DEF T, g
  <2>1. ExistsBijection(1 .. k, T)
    BY <1>5 DEF ExistsBijection
  <2>2. QED
    BY <1>3, <2>1, FS_CountingElements
<1>7. T \in SUBSET S
  BY <1>1, <1>3, <1>4
<1> HIDE DEF T
<1>8. T \in FirstOf(S, num)
  BY <1>6, <1>7 DEF FirstOf, k, n
<1>9. QED
  BY <1>8

\* RouterPool stops only where AddActor monitors a worker that has died since its
\* spawn was answered.  Until then a thread that has the lock waits for a spawn, which
\* ends after 30 seconds, or goes on to monitor; without the lock every call under
\* way can go on, and so can the middleman's.
THEOREM SomeThreadGoesOn == RouterSpec => [](MonitorsTheDead \/ SomeoneGoesOn)
<1>1. ASSUME RouterInv
      PROVE  MonitorsTheDead \/ SomeoneGoesOn
  <2> SUFFICES ASSUME ~MonitorsTheDead
               PROVE  SomeoneGoesOn
    OBVIOUS
  <2>1. BasicInv /\ DownInv
    BY <1>1 DEF RouterInv, BasicInv
  <2>2. CASE actorLock # "free"
    <3>1. actorLock \in Caller /\ calls[actorLock].pc \in {"spawn", "monitor"}
      BY <2>1, <2>2 DEF BasicInv, PoolInv, RouterTypes, RouterTypeOK, CallInv, CallOK,
         Holding, MonitorsTheDead
    <3>2. QED
      BY <3>1 DEF SomeoneGoesOn, CallGoesOn
  <2>3. CASE actorLock = "free" /\ \E c \in Caller : calls[c].pc # "idle"
    <3>1. PICK c \in Caller : calls[c].pc # "idle"
      BY <2>3
    <3>2. calls[c].pc \in Place /\ calls[c].goal \in Nat
      BY <2>1 DEF BasicInv, PoolInv, RouterTypes, Call
    <3>3. Target(c) \in Nodes => FirstOf(poolNodes[Target(c)], calls[c].goal) # {}
      BY <2>1, <3>2, SomeFirst DEF BasicInv, ListInv
    <3>4. CallGoesOn(c)
      BY <2>3, <3>1, <3>2, <3>3 DEF CallGoesOn, Place, MonitorsTheDead
    <3>5. QED
      BY <3>4 DEF SomeoneGoesOn
  <2>4. CASE actorLock = "free" /\ \E w \in Listed \cup poolWorkers : life[w] = "dead"
    <3>1. routerDowns # {} \/ io # "free"
      <4>1. Listed \cup poolWorkers \subseteq PoolWorker /\ "free" \notin PoolWorker
        BY <2>1, RouterPoolAssumption DEF BasicInv, PoolInv, RouterTypes, RouterTypeOK
      <4>2. QED
        BY <2>1, <2>4, <4>1 DEF DownInv
    <3>2. QED
      BY <2>4, <3>1 DEF SomeoneGoesOn, DownGoesOn
  <2>5. QED
    BY <2>2, <2>3, <2>4 DEF SomeoneGoesOn, ToCome
<1>2. QED
  BY <1>1, RouterInvariant, PTL
=============================================================================
