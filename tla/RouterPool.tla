----------------------------- MODULE RouterPool -----------------------------
(***************************************************************************)
(* cdcf::router_pool::RouterPool: an actor pool that spawns its workers on *)
(* remote nodes by itself.  enqueue runs a request in the thread of its    *)
(* sender, so calls overlap; actor_lock_ guards nodes_, but not the look   *)
(* at it by which AddNode and ModifyMaxPerNode decide what to do.  AddActor*)
(* holds the lock while it waits for the remote spawn.                     *)
(*                                                                         *)
(* A call is at                                                            *)
(*   insert   AddNode has not found the node                               *)
(*   add      the head of a loop over AddActor                             *)
(*   spawn    AddActor waits for the gateway's answer, with the lock       *)
(*   monitor  AddActor has the answer, a worker, and the lock              *)
(*   stuck    monitor found the worker dead: CAF then delivers the down at *)
(*            once and in the same thread, through enqueue and Down to     *)
(*            DeleteActor, which waits for the lock that its thread holds  *)
(*   next     ModifyMaxPerNode's loop over all nodes                       *)
(*   shrink   DeleteActor(key, num) is to be called                        *)
(*                                                                         *)
(* The middleman of CAF, io, brings the answers of gateways and the downs  *)
(* of remote workers in one thread.  A worker is "told" to exit with an    *)
(* ordinary message, anon_send(actor, exit_reason): the worker of the      *)
(* tests quits on a message that it does not know, others may drop it.     *)
(* The replies, true or false, and GetNode and GetActors are left out.     *)
(***************************************************************************)
EXTENDS Naturals, FiniteSets, FiniteSetsExt

CONSTANTS
    PoolNode,       \* keys host:port
    PoolWorker,     \* supply of workers
    Caller,         \* threads that send requests to the pool
    Sizes,          \* the numbers of workers asked for
    MaxCalls,       \* bound on the requests
    MaxCrashes      \* bound on the workers that die of themselves

ASSUME RouterPoolAssumption ==
    /\ Sizes \subseteq Nat /\ Sizes # {} /\ MaxCalls \in Nat /\ MaxCrashes \in Nat
    /\ "free" \notin Caller \cup PoolWorker

VARIABLES
    poolNodes,      \* nodes_: key -> workers
    defaultNum,     \* default_actor_num_
    poolWorkers,    \* workers_ of pool_
    poolOver,       \* pool_ has been cleaned up: its last worker was gone
    life,           \* worker -> "unborn", "alive", "told" or "dead"
    quits,          \* workers quit on a message they do not know
    calls,          \* caller -> the request it executes
    actorLock,      \* who holds actor_lock_, or "free"
    io,             \* the worker whose down the middleman delivers, or "free"
    newcomer,       \* the worker that the holder of the lock got, or "free"
    torn,           \* callers who iterate over nodes_ and have not looked at it since
                    \* another call put a node into it or took one out
    routerDowns,    \* downs on their way to the router
    poolDowns,      \* downs on their way to pool_
    calm,           \* history: see Disturbed
    wanted,         \* history: the size last asked for, by node
    callCount, crashes      \* bounded counts

routerVars ==
    <<poolNodes, defaultNum, poolWorkers, poolOver, life, quits, calls, actorLock, io,
      newcomer, torn, routerDowns, poolDowns, calm, wanted, callCount, crashes>>

NoCall ==
    [pc |-> "idle", op |-> "none", todo |-> {}, rest |-> {}, size |-> 0, count |-> 0,
     goal |-> 0]

RouterInit ==
    /\ poolNodes = <<>>
    /\ defaultNum \in Sizes
    /\ poolWorkers = {}
    /\ poolOver = FALSE
    /\ life = [w \in PoolWorker |-> "unborn"]
    /\ quits \in BOOLEAN
    /\ calls = [c \in Caller |-> NoCall]
    /\ actorLock = "free"
    /\ io = "free" /\ newcomer = "free"
    /\ torn = {}
    /\ routerDowns = {} /\ poolDowns = {}
    /\ calm = TRUE
    /\ wanted = [n \in PoolNode |-> 0]
    /\ callCount = 0 /\ crashes = 0

Nodes == DOMAIN poolNodes

Listed == UNION {poolNodes[n] : n \in Nodes}

\* A call that begins while another is under way, or while a worker that nodes_
\* still lists is on its way out, may miss the size it is asked for.
Disturbed ==
    \/ \E c \in Caller : calls[c].pc # "idle"
    \/ \E w \in Listed : life[w] # "alive"

\* Callers that are idle are alike, and so are the workers not spawned yet.
Idler == CHOOSE c \in Caller : calls[c] = NoCall

Begin(c, call) ==
    /\ calls[c] = NoCall
    /\ c = Idler
    /\ callCount < MaxCalls
    /\ callCount' = callCount + 1
    /\ calm' = (calm /\ ~Disturbed)
    /\ calls' = [calls EXCEPT ![c] = call]

\* The call returns, or the loop over all nodes goes on with the next one.
Return(c) ==
    calls' = [calls EXCEPT ![c] = IF @.op = "all" THEN [@ EXCEPT !.pc = "next"]
                                  ELSE NoCall]

Unborn == {w \in PoolWorker : life[w] = "unborn"}

Fresh == CHOOSE w \in Unborn : TRUE

Tell(S) == [w \in PoolWorker |-> IF w \in S /\ life[w] = "alive" THEN "told" ELSE life[w]]

-----------------------------------------------------------------------------

\* AddNode: the gateway is there, and the node is looked up without the lock.
BeginAddNode(c, n) ==
    /\ n \notin Nodes
    /\ Begin(c, [NoCall EXCEPT !.pc = "insert", !.op = "add", !.todo = {n}])
    /\ wanted' = [wanted EXCEPT ![n] = defaultNum]
    /\ UNCHANGED <<poolNodes, defaultNum, poolWorkers, poolOver, life, quits, actorLock,
                   io, newcomer, torn, routerDowns, poolDowns, crashes>>

\* nodes_ gets another key or loses one, under the iterators of ModifyMaxPerNode.
Iterating == {c \in Caller : calls[c].op = "all"}

Torn(changed) == torn' = IF changed THEN torn \cup Iterating ELSE torn

\* Mutant of InsertNode: the new set replaces one that is there.
InsertNewNode(c) ==
    /\ calls[c].pc = "insert"
    /\ actorLock = "free"
    /\ poolNodes' = [n \in Nodes \cup calls[c].todo |->
                        IF n \in calls[c].todo THEN {} ELSE poolNodes[n]]
    /\ Torn(~ calls[c].todo \subseteq Nodes)
    /\ calls' = [calls EXCEPT ![c].pc = "add"]
    /\ UNCHANGED <<defaultNum, poolWorkers, poolOver, life, quits, actorLock, io,
                   newcomer, routerDowns, poolDowns, calm, wanted, callCount, crashes>>

\* insert does nothing to a key that another call has inserted meanwhile.
InsertNode(c) ==
    /\ calls[c].pc = "insert"
    /\ actorLock = "free"
    /\ poolNodes' = [n \in Nodes \cup calls[c].todo |->
                        IF n \in Nodes THEN poolNodes[n] ELSE {}]
    /\ Torn(~ calls[c].todo \subseteq Nodes)
    /\ calls' = [calls EXCEPT ![c].pc = "add"]
    /\ UNCHANGED <<defaultNum, poolWorkers, poolOver, life, quits, actorLock, io,
                   newcomer, routerDowns, poolDowns, calm, wanted, callCount, crashes>>

\* AddNode's loop reads default_actor_num_ each time round.
Goal(call) == IF call.op = "add" THEN defaultNum ELSE call.goal

Target(c) == CHOOSE n \in calls[c].todo : TRUE

\* The head of the loop: all have been added, or AddActor takes the lock, looks
\* the node up again and asks the gateway.
AddActor(c) ==
    /\ calls[c].pc = "add"
    /\ IF calls[c].count >= Goal(calls[c])
       THEN Return(c) /\ UNCHANGED actorLock
       ELSE /\ actorLock = "free"
            /\ IF Target(c) \in Nodes
               THEN actorLock' = c /\ calls' = [calls EXCEPT ![c].pc = "spawn"]
               ELSE Return(c) /\ UNCHANGED actorLock
    /\ UNCHANGED <<poolNodes, defaultNum, poolWorkers, poolOver, life, quits, io,
                   newcomer, torn, routerDowns, poolDowns, calm, wanted, callCount,
                   crashes>>

\* The gateway's answer: a worker that is not monitored yet.
Spawned(c, w) ==
    /\ calls[c].pc = "spawn"
    /\ io = "free"
    /\ w \in Unborn /\ w = Fresh
    /\ life' = [life EXCEPT ![w] = "alive"]
    /\ newcomer' = w
    /\ calls' = [calls EXCEPT ![c].pc = "monitor"]
    /\ UNCHANGED <<poolNodes, defaultNum, poolWorkers, poolOver, quits, actorLock, io,
                   torn, routerDowns, poolDowns, calm, wanted, callCount, crashes>>

\* The worker is put to pool_, listed and monitored, and the lock is given up.
\* One that has died meanwhile gets its downs sent at once if its proxy knows
\* of the death, to DeleteActor in this very thread; if not, when it does.
Monitor(c) ==
    /\ calls[c].pc = "monitor"
    /\ poolNodes' = [poolNodes EXCEPT ![Target(c)] = @ \cup {newcomer}]
    /\ poolWorkers' = poolWorkers \cup {newcomer}
    /\ newcomer' = "free"
    /\ LET gone == {newcomer} \cap {w \in PoolWorker : life[w] = "dead"}
       IN  /\ poolDowns' = poolDowns \cup gone
           /\ \/ /\ calls' = [calls EXCEPT ![c].pc = "add", ![c].count = @ + 1]
                 /\ actorLock' = "free"
                 /\ routerDowns' = routerDowns \cup gone
              \/ /\ gone # {}
                 /\ calls' = [calls EXCEPT ![c].pc = "stuck"]
                 /\ UNCHANGED <<actorLock, routerDowns>>
    /\ UNCHANGED <<defaultNum, poolOver, life, quits, io, torn, calm, wanted, callCount,
                   crashes>>

\* Mutant of SpawnFails: the request waits for an answer without a timeout.
SpawnFailsByAnswer(c) ==
    /\ calls[c].pc = "spawn"
    /\ io = "free"
    /\ actorLock' = "free"
    /\ Return(c)
    /\ calm' = FALSE
    /\ UNCHANGED <<poolNodes, defaultNum, poolWorkers, poolOver, life, quits, io,
                   newcomer, torn, routerDowns, poolDowns, wanted, callCount, crashes>>

\* Mutant of SpawnFails: the answer is listed unseen, the null actor too.
SpawnFailsIsListed(c) ==
    /\ calls[c].pc = "spawn"
    /\ UNCHANGED life
    /\ poolNodes' = [poolNodes EXCEPT ![Target(c)] = @ \cup {newcomer}]
    /\ actorLock' = "free"
    /\ Return(c)
    /\ calm' = FALSE
    /\ UNCHANGED <<defaultNum, poolWorkers, poolOver, quits, io, newcomer, torn,
                   routerDowns, poolDowns, wanted, callCount, crashes>>

\* An error, or no answer in 30 seconds: whoever asked gives up, and a worker
\* that was spawned all the same belongs to nobody.
SpawnFails(c) ==
    /\ calls[c].pc = "spawn"
    /\ \/ UNCHANGED life
       \/ Unborn # {} /\ life' = [life EXCEPT ![Fresh] = "alive"]
    /\ actorLock' = "free"
    /\ Return(c)
    /\ calm' = FALSE
    /\ UNCHANGED <<poolNodes, defaultNum, poolWorkers, poolOver, quits, io, newcomer,
                   torn, routerDowns, poolDowns, wanted, callCount, crashes>>

-----------------------------------------------------------------------------

\* DeleteNode, all of it under the lock.
DeleteNode(n) ==
    /\ actorLock = "free"
    /\ n \in Nodes
    /\ callCount < MaxCalls
    /\ callCount' = callCount + 1
    /\ calm' = (calm /\ ~Disturbed)
    /\ life' = Tell(poolNodes[n])
    /\ poolNodes' = [m \in Nodes \ {n} |-> poolNodes[m]]
    /\ Torn(TRUE)
    /\ UNCHANGED <<defaultNum, poolWorkers, poolOver, quits, calls, actorLock, io,
                   newcomer, routerDowns, poolDowns, wanted, crashes>>

\* ModifyMaxPerNode(size, host, port): the set's size is read without the lock.
Resized(call, n) ==
    LET size == Cardinality(poolNodes[n])
    IN  IF size > call.size
        THEN [call EXCEPT !.pc = "shrink", !.goal = size - call.size]
        ELSE [call EXCEPT !.pc = "add", !.goal = call.size - size]

BeginModifyNode(c, n, size) ==
    /\ n \in Nodes
    /\ Begin(c, Resized([NoCall EXCEPT !.op = "modify", !.todo = {n}, !.size = size], n))
    /\ wanted' = [wanted EXCEPT ![n] = size]
    /\ UNCHANGED <<poolNodes, defaultNum, poolWorkers, poolOver, life, quits, actorLock,
                   io, newcomer, torn, routerDowns, poolDowns, crashes>>

\* ModifyMaxPerNode(size), for nodes to come and for the ones that are there;
\* todo holds the node at hand and rest the others.
BeginModifyAll(c, size) ==
    /\ Begin(c, [NoCall EXCEPT !.pc = "next", !.op = "all", !.size = size, !.rest = Nodes])
    /\ defaultNum' = size
    /\ wanted' = [n \in PoolNode |-> IF n \in Nodes THEN size ELSE wanted[n]]
    /\ UNCHANGED <<poolNodes, poolWorkers, poolOver, life, quits, actorLock, io,
                   newcomer, torn, routerDowns, poolDowns, crashes>>

\* What the iterator will still come to.  A key that another call inserted may
\* have rehashed nodes_ under it, and one that was erased may be the node it
\* stood at: it may then skip nodes, come to some again, or end the loop.  (To
\* go on from a node that was freed may also crash the process.)
Ahead(c) == IF c \in torn THEN SUBSET Nodes ELSE {calls[c].rest \cap Nodes}

NextNode(c) ==
    /\ calls[c].pc = "next"
    /\ \E ahead \in Ahead(c) :
          IF ahead = {}
          THEN calls' = [calls EXCEPT ![c] = NoCall]
          ELSE \E n \in ahead :
                  calls' = [calls EXCEPT ![c] = Resized(
                     [calls[c] EXCEPT !.todo = {n}, !.rest = ahead \ {n}, !.count = 0], n)]
    /\ torn' = torn \ {c}
    /\ UNCHANGED <<poolNodes, defaultNum, poolWorkers, poolOver, life, quits, actorLock,
                   io, newcomer, routerDowns, poolDowns, calm, wanted, callCount, crashes>>

\* Mutant of DeleteActors: one worker more than the size is left.
DeleteActorsButOne(c) ==
    /\ calls[c].pc = "shrink"
    /\ actorLock = "free"
    /\ IF Target(c) \in Nodes
       THEN \E S \in SUBSET poolNodes[Target(c)] :
               /\ Cardinality(S) + 1 = Min({calls[c].goal, Cardinality(poolNodes[Target(c)])})
               /\ life' = Tell(S)
       ELSE UNCHANGED life
    /\ Return(c)
    /\ UNCHANGED <<poolNodes, defaultNum, poolWorkers, poolOver, quits, actorLock, io,
                   newcomer, torn, routerDowns, poolDowns, calm, wanted, callCount,
                   crashes>>

\* The first num of the set, whichever they are, or all of them if they are fewer.
FirstOf(S, num) == {T \in SUBSET S : Cardinality(T) = Min({num, Cardinality(S)})}

\* DeleteActor(key, num): the first num of the node's workers are told.
DeleteActors(c) ==
    /\ calls[c].pc = "shrink"
    /\ actorLock = "free"
    /\ IF Target(c) \in Nodes
       THEN \E S \in FirstOf(poolNodes[Target(c)], calls[c].goal) : life' = Tell(S)
       ELSE UNCHANGED life
    /\ Return(c)
    /\ UNCHANGED <<poolNodes, defaultNum, poolWorkers, poolOver, quits, actorLock, io,
                   newcomer, torn, routerDowns, poolDowns, calm, wanted, callCount,
                   crashes>>

-----------------------------------------------------------------------------

\* A worker dies, as it was told to or of itself; those who monitor it will know.
WorkerDies(w) ==
    /\ \/ life[w] = "told" /\ quits /\ UNCHANGED <<calm, crashes>>
       \/ /\ life[w] \in {"alive", "told"}
          /\ crashes < MaxCrashes
          /\ crashes' = crashes + 1
          /\ calm' = FALSE
    /\ life' = [life EXCEPT ![w] = "dead"]
    /\ routerDowns' = IF w \in poolWorkers THEN routerDowns \cup {w} ELSE routerDowns
    /\ poolDowns' = IF w \in poolWorkers THEN poolDowns \cup {w} ELSE poolDowns
    /\ UNCHANGED <<poolNodes, defaultNum, poolWorkers, poolOver, quits, calls, actorLock,
                   io, newcomer, torn, wanted, callCount>>

\* pool_ removes the worker and is cleaned up when it was the last.
Removed(w) ==
    /\ poolWorkers' = poolWorkers \ {w}
    /\ poolOver' = (poolOver \/ poolWorkers \ {w} = {})

PoolDown(w) ==
    /\ w \in poolDowns
    /\ poolDowns' = poolDowns \ {w}
    /\ Removed(w)
    /\ UNCHANGED <<poolNodes, defaultNum, life, quits, calls, actorLock, io, newcomer,
                   torn, routerDowns, calm, wanted, callCount, crashes>>

\* The middleman's thread enters RouterPool::enqueue with a down ...
IoTakesDown(w) ==
    /\ io = "free"
    /\ w \in routerDowns
    /\ io' = w
    /\ routerDowns' = routerDowns \ {w}
    /\ UNCHANGED <<poolNodes, defaultNum, poolWorkers, poolOver, life, quits, calls,
                   actorLock, poolDowns, newcomer, torn, calm, wanted, callCount, crashes>>

\* ... and stays there until DeleteActor has had the lock; then pool_ is told too.
IoDeletesActor ==
    /\ io # "free"
    /\ actorLock = "free"
    /\ poolNodes' = [n \in Nodes |-> poolNodes[n] \ {io}]
    /\ Removed(io)
    /\ io' = "free"
    /\ UNCHANGED <<defaultNum, life, quits, calls, actorLock, newcomer, torn,
                   routerDowns, poolDowns, calm, wanted, callCount, crashes>>

CallStep(c) ==
    \/ InsertNode(c) \/ AddActor(c) \/ SpawnFails(c) \/ Monitor(c)
    \/ NextNode(c) \/ DeleteActors(c)
    \/ \E w \in PoolWorker : Spawned(c, w)

RouterNext ==
    \/ \E c \in Caller :
          \/ \E n \in PoolNode : BeginAddNode(c, n)
          \/ \E n \in PoolNode, size \in Sizes : BeginModifyNode(c, n, size)
          \/ \E size \in Sizes : BeginModifyAll(c, size)
          \/ CallStep(c)
    \/ \E n \in PoolNode : DeleteNode(n)
    \/ \E w \in PoolWorker : WorkerDies(w) \/ PoolDown(w) \/ IoTakesDown(w)
    \/ IoDeletesActor

RouterSpec == RouterInit /\ [][RouterNext]_routerVars

-----------------------------------------------------------------------------

\* The types of the router pool's state.
RouterTypeOK ==
    /\ Nodes \subseteq PoolNode
    /\ Listed \cup poolWorkers \cup routerDowns \cup poolDowns \subseteq PoolWorker
    /\ defaultNum \in Sizes
    /\ poolOver \in BOOLEAN /\ quits \in BOOLEAN /\ calm \in BOOLEAN
    /\ life \in [PoolWorker -> {"unborn", "alive", "told", "dead"}]
    /\ \A c \in Caller :
          calls[c].pc \in {"idle", "insert", "add", "spawn", "monitor", "stuck", "next",
                          "shrink"}
    /\ actorLock \in Caller \cup {"free"}
    /\ io \in PoolWorker \cup {"free"} /\ newcomer \in PoolWorker \cup {"free"}
    /\ torn \subseteq Caller
    /\ wanted \in [PoolNode -> Nat]

\* Whatever calls overlap, pool_ has every worker that nodes_ lists and that has
\* not died, and the workers of pool_ that nodes_ does not list have been told
\* to exit: no worker gets tasks that the pool does not know of.
PoolMatchesNodes ==
    /\ \A w \in Listed : life[w] # "dead" => w \in poolWorkers
    /\ \A w \in poolWorkers \ Listed : life[w] # "alive"

\* Requests that were made one after the other, each when nodes_ listed no worker
\* told by the one before, leave each node with as many workers that were not told
\* to exit as it was last asked to have.  (A worker that drops the message stays,
\* as one more.)
ResizeReachesSize ==
    calm /\ (\A c \in Caller : calls[c].pc = "idle") =>
        \A n \in Nodes : Cardinality({w \in poolNodes[n] : life[w] = "alive"}) = wanted[n]

\* What is to come: the answers of requests, and the ends of dead workers in nodes_
\* and pool_.
ToCome ==
    \/ \E c \in Caller : calls[c].pc # "idle"
    \/ \E w \in Listed \cup poolWorkers : life[w] = "dead"

\* A call can go on, and a down can.
CallGoesOn(c) ==
    \/ calls[c].pc \in {"spawn", "monitor", "next"}
    \/ calls[c].pc = "add" /\ calls[c].count >= Goal(calls[c])
    \/ calls[c].pc \in {"insert", "add"} /\ actorLock = "free"
    \/ /\ calls[c].pc = "shrink" /\ actorLock = "free"
       /\ Target(c) \in Nodes => FirstOf(poolNodes[Target(c)], calls[c].goal) # {}

DownGoesOn ==
    \/ poolDowns # {}
    \/ io = "free" /\ routerDowns # {}
    \/ io # "free" /\ actorLock = "free"

\* While something is to come some thread can go on.
SomeoneGoesOn == ToCome => (\E c \in Caller : CallGoesOn(c)) \/ DownGoesOn

\* AddActor has found the worker dead that it was about to monitor.
MonitorsTheDead == \E c \in Caller : calls[c].pc = "stuck"

\* A request is answered, and a worker that died leaves nodes_ and pool_.  The
\* manual of the pool has every request answered; the code does not.
PoolIsNeverStuck == SomeoneGoesOn

\* Nothing but the death of a worker between the answer of its spawn and its
\* monitor stops the pool.  Otherwise, while an answer of a request or the end of
\* a dead worker in nodes_ and pool_ is to come, some thread can go on, although
\* AddActor waits for the answer of a remote spawn with the lock that the
\* middleman's thread, which brings the answer, may be waiting for with a down.
\* (Every step uses up part of a call or a down, so they do come.)
OnlyMonitorSticks ==
    /\ MonitorsTheDead \/ SomeoneGoesOn
    /\ \A c \in Caller : CallGoesOn(c) => ENABLED CallStep(c)
    /\ DownGoesOn =>
          ENABLED (IoDeletesActor \/ \E w \in PoolWorker : PoolDown(w) \/ IoTakesDown(w))
=============================================================================
