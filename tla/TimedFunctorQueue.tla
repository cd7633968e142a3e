-------------------------- MODULE TimedFunctorQueue --------------------------
(***************************************************************************)
(* queue::TimedFunctorQueue of the node keeper: gossip messages and pings  *)
(* are pushed as functors by any thread and run by the queue's own thread, *)
(* the worker.  The worker looks at should_stop_ and at queue_ under       *)
(* different locks, or none, so its loop is modelled one lock at a time:   *)
(*                                                                         *)
(*   check   while (true) { lock should_stop_mut_; if (should_stop_) ... } *)
(*   peek    if (!queue_.empty()), read without queue_mut_                 *)
(*   take    wait(lk, !empty); front(); pop(), under queue_mut_            *)
(*   run     the loop that calls the functor `times' times                 *)
(*   over    the thread has left CallFunctors                              *)
(*                                                                         *)
(* The sleeps between the steps are time and leave no trace here.  Only    *)
(* the worker removes elements, so its unlocked look at queue_ is          *)
(* modelled as a read of the state at that moment.                         *)
(***************************************************************************)
EXTENDS Naturals, Sequences

CONSTANTS
    Functor,        \* the functors pushed
    MaxTimes,       \* bound on the `times' of one push
    MaxPushes       \* bound on the number of pushes

ASSUME QueueAssumption == Functor # {} /\ MaxTimes \in Nat /\ MaxPushes \in Nat

VARIABLES
    queue,          \* queue_: <<functor, times>>, oldest first
    current,        \* the worker's copy of the element it popped, what is left of it
    worker,         \* where the worker's thread is
    shouldStop,     \* should_stop_
    owner,          \* the owner: "uses" the queue, is "joining" it, or it is "gone"
    ranFunctors,    \* history: the functors run, in order
    pushes          \* bounded count of pushes

queueVars == <<queue, current, worker, shouldStop, owner, ranFunctors, pushes>>

Idle == [functor |-> CHOOSE f \in Functor : TRUE, times |-> 0]

QueueInit ==
    /\ queue = <<>>
    /\ current = Idle
    /\ worker = "check"
    /\ shouldStop = FALSE
    /\ owner = "uses"
    /\ ranFunctors = <<>>
    /\ pushes = 0

\* Mutant of PushFunctor: the new functor goes to the front.
PushFunctorInFront(f, times) ==
    /\ owner = "uses"
    /\ pushes < MaxPushes
    /\ pushes' = pushes + 1
    /\ queue' = IF times < 1 THEN queue
                ELSE <<[functor |-> f, times |-> times]>> \o queue
    /\ UNCHANGED <<current, worker, shouldStop, owner, ranFunctors>>

\* A gossip handler, the member's own thread or the functor that runs now
\* pushes; a functor that is to run less than once is dropped.
PushFunctor(f, times) ==
    /\ owner = "uses"
    /\ pushes < MaxPushes
    /\ pushes' = pushes + 1
    /\ queue' = IF times < 1 THEN queue
                ELSE Append(queue, [functor |-> f, times |-> times])
    /\ UNCHANGED <<current, worker, shouldStop, owner, ranFunctors>>

\* The head of CallFunctors' loop.
CheckStop ==
    /\ worker = "check"
    /\ worker' = IF shouldStop THEN "over" ELSE "peek"
    /\ UNCHANGED <<queue, current, shouldStop, owner, ranFunctors, pushes>>

\* Mutant of Peek: the worker always waits on the condition variable.
PeekAndWait ==
    /\ worker = "peek"
    /\ worker' = "take"
    /\ UNCHANGED <<queue, current, shouldStop, owner, ranFunctors, pushes>>

\* `if (!queue_.empty())': an empty queue sends the worker to sleep instead of
\* to the wait on the condition variable.
Peek ==
    /\ worker = "peek"
    /\ worker' = IF queue # <<>> THEN "take" ELSE "check"
    /\ UNCHANGED <<queue, current, shouldStop, owner, ranFunctors, pushes>>

\* The wait's predicate, front and pop.
TakeFront ==
    /\ worker = "take"
    /\ queue # <<>>
    /\ current' = Head(queue)
    /\ queue' = Tail(queue)
    /\ worker' = "run"
    /\ UNCHANGED <<shouldStop, owner, ranFunctors, pushes>>

\* One call of the functor; should_stop_ is not looked at between two calls.
RunFunctor ==
    /\ worker = "run"
    /\ ranFunctors' = Append(ranFunctors, current.functor)
    /\ current' = [current EXCEPT !.times = @ - 1]
    /\ worker' = IF current.times = 1 THEN "check" ELSE "run"
    /\ UNCHANGED <<queue, shouldStop, owner, pushes>>

\* ~TimedFunctorQueue: set the flag under its lock, then join.
StopQueue ==
    /\ owner = "uses"
    /\ shouldStop' = TRUE
    /\ owner' = "joining"
    /\ UNCHANGED <<queue, current, worker, ranFunctors, pushes>>

JoinQueue ==
    /\ owner = "joining"
    /\ worker = "over"
    /\ owner' = "gone"
    /\ UNCHANGED <<queue, current, worker, shouldStop, ranFunctors, pushes>>

WorkerStep == CheckStop \/ Peek \/ TakeFront \/ RunFunctor

QueueNext ==
    \/ \E f \in Functor, times \in 0 .. MaxTimes : PushFunctor(f, times)
    \/ WorkerStep
    \/ StopQueue
    \/ JoinQueue

QueueSpec == QueueInit /\ [][QueueNext]_queueVars

-----------------------------------------------------------------------------

Owed == [functor : Functor, times : Nat]

\* The types of the queue's state.
QueueTypeOK ==
    /\ queue \in Seq(Owed)
    /\ current \in Owed
    /\ worker \in {"check", "peek", "take", "run", "over"}
    /\ shouldStop \in BOOLEAN
    /\ owner \in {"uses", "joining", "gone"}
    /\ ranFunctors \in Seq(Functor)
    /\ pushes \in 0 .. MaxPushes

\* What is left of the functor that the worker holds.
InHand == IF current.times > 0 THEN <<current>> ELSE <<>>

\* The queue refines the ordered runner: what is owed is what is left of the
\* functor the worker holds, followed by the queue, and the runner is closed
\* once the destructor has returned.  Every gossip message is thus sent as
\* often, and in the order, that membership.cc pushed it.
Runner == INSTANCE OrderedRunner
          WITH Times  <- 1 .. MaxTimes,
               todo   <- InHand \o queue,
               ran    <- ranFunctors,
               closed <- owner = "gone"

RunsInOrder == Runner!RunnerSpec

\* A functor that was pushed is run, or the queue is being destroyed: no wakeup
\* is lost between the worker's unlocked look at the queue and its wait.  And
\* ~TimedFunctorQueue returns: it joins a thread that may sleep on queue_cond_,
\* which the destructor does not signal; the worker must never go there for good.
QueueMovesOn ==
    /\ []<>(queue = <<>> \/ shouldStop)
    /\ []<>(owner # "joining")
=============================================================================
