# A TLA+ model of CDCF

CDCF runs C++ actor systems on a cluster. Every host runs a *node keeper*, which
keeps the membership of the cluster and starts and watches the application; the
application talks to its node keeper over gRPC and uses the actor-system library
(load balancer, router pool, monitors) for its work.

This directory holds TLA+ modules translated from that code, TLC configurations
that check them on small instances, and TLAPS proofs. `PROJECT.json` maps every
definition to the lines it models.

## Inventory

| part | state | operations | interacts with |
|---|---|---|---|
| membership (`membership.cc`, `membership_message.cc`) | `members_`, `suspects_`, `member_actor_system_`, `incarnation_`, `is_self_actor_system_up_` | Init, HandleGossip (five kinds of message), HandlePull (full state, ping, relay), HandlePush, Ping and its callback, NotifyLeave, NotifyActorSystemDown, SetSelfActorSystemUp | transport (callbacks on its io thread), two timed queues (threads), gRPC and daemon threads |
| transport (`gossip.cc`, `gossip/`) | sockets, pull sessions | Gossip (UDP), Push, Pull (TCP) | peers |
| timed functor queue (`queue.cc`) | a FIFO of functors with a number of runs, `should_stop_` | Push, CallFunctors, destructor | membership |
| notification path (`node_keeper.cc`, `event.h`, `grpc.cc`, `channel.h`; `cluster.cc` in the application) | last members seen, `members_` of the service, channels, `members_` of the client | Update, Notify, Subscribe, Get, Fetch | membership, application |
| daemon (`daemon.cc`, `process_manager.cc`) | `guard`, `restart_`, the child's pid | Run, signal handler | application process, membership |
| load balancer (`load_balancer.cc`, `policy.cc`, `proxy.h`) | workers, their load, tickets, held mails | enqueue: request, response, add, delete, down, exit | clients and workers |
| router pool (`router_pool.cc`) | nodes, actors per node, sizes | add and delete nodes, resize, spawn answers | cluster events, remote spawn |
| actor union, actor guard | actor lists, retry counts | send, await with retry and restart | actors |
| actor monitor, actor status monitor | mailboxes, descriptions, the list of actors | set and stop a monitor, register, down messages | actors, the thread of the application |
| yanghui jobs (`demos/yanghui_cluster`) | levels, counts and results of each actor, the senders kept | four kinds of job, tasks and their results | client, workers through all of the above |
| status services, configuration, logging | none | reading, parsing, printing | - |

What is hard here: datagrams are lost, duplicated and reordered; a node restarts at
the same address with incarnation 0 and a new uid; three maps under three mutexes
are changed one after the other; a ping's callback runs long after its view was
taken; the application, the daemon, the queues and the io thread all touch the
membership; a wait without a predicate and a subscription after a fetch stand between
a change of the membership and the application; signals reach any thread; the load
balancer gives up its lock in the middle of a response, and the router pool keeps its
own while it waits for another host. The `hazards` of `PROJECT.json` list these at
their lines.

What makes each part correct:

* membership: no invented incarnations, no way back to an older one, nobody
  forgotten without a leave, actor systems only of members, one cluster in the end;
* failure detector with relays: a target is a member or a suspect, and a dead one
  is suspected in the end;
* transport: one result for each pull, and a whole answer or an error;
* queue: first in, first out, each functor the number of times it was pushed with,
  and neither a push nor the destructor waits for ever;
* notification: the application's view follows the node keeper's, and ups and downs
  come in turn;
* daemon: one application at a time, restarted until a quit signal, which ends both;
* load balancer: every request is relayed once and answered to its sender, and the
  load of a worker is the number of its open requests;
* router pool: the actors of the pool agree with its node table and its sizes, and
  requests and downs get stuck on its lock only where a call monitors a dead worker;
* actor union and guard: a send fails only if no worker worked (which a pool that
  shrinks during the send breaks), and every call ends in one callback;
* monitors: every death is reported with its description, and only actors that run
  are listed;
* the yanghui jobs: answers are least path sums, and every job is answered.

## Modules

`Membership` is the membership protocol of any set of node keepers. The state of a
node is the state of one `Membership` object; the variables `gossip` and `pulls` are
the network. Each handler is one action, with all that it calls: the transport has
one io thread, on which the gossip handler, the pull handler and the callbacks of
pulls run, so two handlers of a node never interleave. The actions of other threads
(a queued functor, the daemon, gRPC) are one action each as well: of these only
`Ping` takes two locks one after the other (see *Not modelled*).

| code | model |
|---|---|
| `Membership::Init` | `Start`: new uid, incarnation 0, a pull from a random seed |
| `~Membership`/`NotifyLeave` and process exit | `NotifyLeave`, which ends in `Stop` |
| crash of the process | `Crash` |
| `GRPCImpl::ActorSystemUp` | `ActorSystemUp` |
| `NotifyActorSystemDown` | `NotifyActorSystemDown` |
| `HandleGossip` and the `Merge...` operation it ends in | `HandleUp`, `HandleDown`, `HandleSuspect`, `HandleRecovery`, `HandleActorSystem` under `HandleGossip` |
| a queued functor | `DisseminateGossip` |
| the functor of the failure detector | `Ping` |
| `HandlePull` | `HandlePing` (with `MergeMembers`), `HandleFullState` |
| callback of a ping | `DidPing` (`Suspect`, `RecoverySuspect`) |
| callback of a pull from a seed | `DidPullSeed`, `PullFromSeedAgain` |
| UDP and TCP | `LoseGossip`, a duplicate in `HandleGossip`, `PullError` |

Data: a member is its address. Its name, host name and role are left out; its uid
is kept, because `EraseExpiredMember` compares it and because assigning to an
existing key of a `std::map` keeps the key, hence the uid, that was there (`Assign`).
`uid` counts the lives of an address. Members that come with a ping or a full state
have no uid (`NoUid`). `member_actor_system_` is the set of members that map to
true: absent and false mean the same to every reader. The queue is a set of payloads
with the sends that are left: the order in which it sends is not kept, which is more
than the code can do, and the network reorders datagrams anyway. `issued` and `left`
are history variables.

`MCMembership` gives the constants values; `MCScenarios` adds what may happen in a run. `MembershipProofs` holds the theorems.

`LoadBalancer` is the router of the actor-system library with its MinLoad policy and
its tickets. The router has no thread of its own: `Router::enqueue` runs in the thread
of whoever sends it a mail, so `call[a]` is the call that client or worker `a` is in.

| code | model |
|---|---|
| `enqueue` of a mail that is no response | `Send` (takes `lock_`), or `ReplyEmpty` |
| `enqueue` of a response, up to `Proxy::Reply` | `Answer`, `Settle` (gives `lock_` up) |
| ... the arguments of the policy | `ReadMetrics` |
| the policy | `Policy`; `PolicyAborts` for its assertion and the division by zero |
| `++metrics_[to].load` | `ReadLoad`, `WriteLoad` |
| `Proxy::Relay` | `ReadId`, `PlaceTicket` (gives `lock_` up if it is owned), `Deliver` |
| put, delete, delete all, exit, down | `AddWorker`, `DeleteWorker`, `ClearWorker`, `Exit`, `Down` |

Between these steps other calls run, as far as `lock_` lets them. `lock_` is taken as
what `caf::upgrade_lock` promises: one owner, who stays it when he upgrades. Adding to a
load or to the last id without the lock is a data race; the model reads in one step and
writes in the next, which loses additions but leaves the containers intact. The commands
change `workers_` and `metrics_` in one step. A load is a `size_t`: it wraps at `SizeMax`.
A failed assertion aborts, as in the Debug build of the Dockerfile. A client sends one
mail; a client that sends several is several clients. What a mail says, its priority
and the query for the workers are left out. A worker that terminates takes its inbox
with it: the errors that CAF sends back for it would find no ticket of a present worker.
`MCLoadBalancer` gives the constants values; `LoadBalancerProofs` holds the theorems.

`Notification` is the way of a change of the membership to the application on the same
host: four threads and the locks between them.

| code | model |
|---|---|
| `members_`, then `member_actor_system_`, then `Subscriber::Update` | `MembersChange`, `SystemsChange`, `SubscriberUpdate` |
| `NodeKeeper::Run` | `TakeSnapshot` (two getters, in either order), `Generate`, `NotifyInsert`, `NotifyPut`, `KeeperWaits` (no predicate), `SpuriousWakeup` |
| `ClusterImpl` and the server's handlers | `StartClient`, `Fetch` (twice, each may fail), `Subscribe`, `Deliver`, `StopClient` |

Two facts are kept as history because the code does not make up for them, and the
properties say what holds besides: `lost`, an `Update` that came while the keeper was
not asleep, and `unseen`, the nodes whose event fell between fetch and channel.
`Node` is the set of the other nodes, one node keeper to an address (the gRPC port of a
node keeper is fixed). How a node's address turns up in `members_` is `Membership`'s.

`Daemon` is `Daemon::Run` with its child processes and the signal handler, which runs in
the daemon's own thread (`SignalHere`, between any two steps, and into `waitpid`) or in
another (`SignalElsewhere`, `HandlerKills`, in two steps beside the loop). `Fork` and `Exec`
are two steps: until its `execv` a child still has the node keeper's handler of SIGTERM,
since `process_manager.cc:30-42` resets SIGINT and SIGQUIT only. A SIGTERM that reaches it
there is handled in its own copy of the daemon and has no effect on the application that
it then becomes. `deaf` keeps such children as history.

`Host` composes `Daemon` and `Notification`: the daemon's exits are the clients' exits. Its
own state is what the node says of its own actor system, a flag and an announcement that
three threads write:

| thread | code | model |
|---|---|---|
| gRPC server | `GRPCImpl::ActorSystemUp` | `SetSelfActorSystemUp`, `SendSelfActorSystemUpGossip` |
| io | `HandleDidPull`: the test of the flag, then the gossip (`membership.cc:388-390`) | `HandleDidPull`, `AnnounceAfterPull` |
| daemon | `app_down_handle_`, `NotifyActorSystemDown` | `AppDownHandle`, `AppDownGossip` |

None of them holds a lock over its two steps. `racing` is history: what another thread was
still to write when an exit was handled. The table `member_actor_system_`, with the node's
own entry, has more writers (each merge and reply, `membership.cc:711` among them); they
are all in `Membership`, where the entry may be stale or wrong at any time, and no property
says otherwise.

`TimedFunctorQueue` takes the worker's loop one lock at a time. `OrderedRunner` is what
its users count on, with no thread and no lock; `RunsInOrder` is the refinement, with
`todo` standing for what is left of the functor in the worker's hand, then the queue.

`Transport` is the pulls of a node and the connections of its peers. Bytes are numbers: a
stream is what is on the wire and what the decoder has taken, so that a frame may be cut
anywhere, header included. `write_some` may write less than all on both sides, and nobody
looks. The destructor cancels the sessions that it finds, and stops the io thread.

`RelayPing` is `Ping`, `RelayPing`, the relay's branch of `HandlePull` and `HandlePush` for
one origin and one target; rounds overlap. No configuration of the node keeper switches
it on, only `failure_detector_test.cc` does, so it stands beside `Membership`.

`RouterPool` is the router pool with the requests of overlapping callers, the workers it
spawns on other hosts, CAF's own `pool_`, and the one middleman thread (`io`) that brings
answers and downs. A worker may die before it is monitored: `Monitor` then either leaves
its down to the middleman or delivers it at once, in the thread that holds the lock, which
ends at `stuck`. `ModifyMaxPerNode` iterates over the live table without the lock; a caller
whose iterators another one has disturbed is in `torn`, and may skip nodes, come to some
again, or end its loop. `ActorUnion` and `ActorGuard` are the two fault tolerant senders:
the union with its count of attempts beside a round robin pool that shrinks by itself,
the guard with the threads that share it. `Monitors` is `ActorMonitor` and
`ActorStatusMonitor` with their mailboxes; calls of the library are sequences of steps
(`SetMonitor`, `RegisterActor`), between which actors may end; one thread makes them.
`Yanghui` is the root of `yanghui_example_v2.cc`: its four jobs with their actors, the
workers' tasks in any order, crashes of workers, and one client after the other.

`MCHost`, `MCComponents` and `MCPools` put these modules side by side. A variable `part`, chosen in the
initial state, says which of the parts runs; the others stay as they start. The state
space is the sum of the parts', never the product, and every property of a part is
checked in all of that part's states.

## Runs

Three bounds recur: `MaxLives`, `MaxIncarnation` (per node), and the sizes of the
network and queues. They are guards of the actions that would exceed them, so a
bound removes behaviour but never invents it.

| run | instance | what it shows |
|---|---|---|
| `scenarios` | see below | `TypeOK`, `IncarnationsWereIssued`, `ActorSystemsAreMembers`, `SelfIsKnown`, `MemberIncarnationGrows`, `OnlyLeaveForgets` |
| `join` | a, b, node keepers alone (`JoinNext`); both crash and restart, one network failure; fair | `JoinInOneCluster` |
| `seed_leaves` | a, the primary seed, leaves and restarts; fair | **violation** of `JoinInOneCluster` |
| `false_suspicion` | b hosts an application, one failed pull | **violation** of `UpAnnouncementIsKept` |
| `balancer_races` | 4 clients (symmetric), 2 workers, threshold 1 | `NoMailLostOrDuplicated` and `AnsweredAtMostOnce` although calls without the lock lose additions. Two workers, so that two such calls meet each other and those of clients. |
| `balancer_stuck` | 5 clients, 1 worker, threshold 1 | **violation** of `HeldOnlyWhileBusy` |
| `balancer_assert` | 2 clients, a worker is added | **violation** of `AssertionNeverFails` |
| `host` | see below | the host with daemon, node keeper and application; the notification path alone; actor union, actor guard, yanghui |
| `components` | see below; fair | daemon, queue, transport, relay ping, monitors |
| `pools` | see below | load balancer below the threshold; router pool |
| `router_stuck` | 1 node, 2 workers, 1 request, 1 crash | **violation** of `PoolIsNeverStuck` |
| `union_fails` | 4 actors, 2 sends | **violation** of `FailsOnlyWhenAllFail` |

The scenarios of `scenarios` (a, the primary seed, detects failures; a variable, chosen
once, says what else may happen):

* pair: a and c, without network faults; c leaves, crashes, restarts once, its application
  goes up and down, and it detects too; two incarnations a life, and two payloads in c's
  queue. Two lives of c are enough for gossip of the first to meet the second.
* suspicion: a, b, c; one failed pull or duplicate, and c hosts an application. c is
  suspected while it lives, and recovers through gossip of b.
* leave: a, b, c, without network faults; c leaves, restarts, and stays. The DOWN message
  about c comes back to its second life, also by way of b.

The parts of `pools`:

* load balancer: 2 clients, 1 anonymous mail, 2 workers, threshold out of reach, 3 commands
  or failures. `TypeOK`, `LoadIsOpenRequests`, `AnswersAreOwn`, `TicketsAreOpen` while workers
  come and go. Workers are not put back: see below.
* router pool: 2 nodes (symmetric), 3 workers, 2 callers with 3 requests of sizes 1 and 2, 1
  crash. `RouterTypeOK`, `PoolMatchesNodes`, `ResizeReachesSize`, `OnlyMonitorSticks`. Three
  requests: one comes between the unlocked look of another and its lock, over a table that
  a third one filled; with two nodes a torn iteration skips or repeats one.

The parts of `host`:

* the host: two forks, so that one application follows another, with either one change of
  the membership (`changes`), or two signals, or one signal beside a pull from a seed
  (`signals`, where the keeper has nothing to tell and is left out). Both at once add only
  interleavings of what the daemon and the notification do not share. `NoAppIsAbandoned`,
  `DeadAppIsDown`, and the properties of the notification over an application that is
  replaced. Other nodes: a changes, b does not.
* the notification path: two nodes, of which b stays once it has come, three changes, one
  application: enough for an up, a down and an up of a node on either side of the fetch, the channel and the keeper's wait.
  `SettledKeeperIsCurrent`, `AppSeesCluster`, `EventsAlternate`.
* actor union: 3 actors, one send, a count of modulus 4 and a round robin of modulus 6 (a
  common multiple of the sizes). `OutOfWorkIsTrue`, of the sends in which the pool does
  not shrink; the others are the run `union_fails`.
* actor guard: 2 threads, 5 calls, 3 restarts. `OneCallbackPerCall`.
* yanghui: 2 jobs of any of the four kinds with different triangles of three rows, chunks
  of 2, one crash of a worker, in the first job if at all. `AnswersAreRight` compares the answers
  with `LeastPathSum`, the definition over all paths; `JobsAreAnswered`.

The parts of `components`:

* daemon: 3 forks, 3 signals. `QuitStopsRestarting`, `OneAppAtATime`, `QuitIsObeyed`.
* queue: 2 functors, up to 2 runs each, 3 pushes. `RunsInOrder`, `QueueMovesOn`.
* transport: 2 pulls, headers of 2 bytes, bodies of 0 or 1, buffers of 2: a frame is longer
  than a buffer, and header and body can each be cut. `PullHasOneResult`, `AnswerIsWhole`.
* relay ping: 2 relays, 2 rounds at once, 1 ping of a relay and 1 verdict under way, 2
  crashes. `TargetIsWatched`, `DeadTargetIsSuspected`.
* monitors: 2 actors, 3 calls. `DownIsDescribed`, `DeadAreUnlisted`.

The runs say `CHECK_DEADLOCK FALSE`: a bounded model stops when its lives,
incarnations and faults are used up, and so does an application that has exited, a queue
that is destroyed or a transport that is gone.

Fairness of `join` (`Fairness`): the io thread of a running node goes on serving its sockets
and callbacks (weak fairness of the steps of pulls), the queue thread goes on
running functors, a datagram is eventually delivered or lost, and each ping target
is picked again and again, since `GetRandomPingTarget` draws uniformly (strong
fairness of `Ping(n, m)`). Delivery of datagrams, restarts and reports of the
application are never assumed, so convergence in `join` rests on pulls alone.

Fairness of `components` (`QueueFairness`, `DaemonFairness`, `RelayFairness`) is that of
threads: the worker of the queue and the thread that joins it run; the daemon's thread
runs, a handler that was begun ends, a child comes to its `execv`, and an application that
got SIGTERM after it exits, as is the default for a program. A child that swallowed the
signal before its `execv` is not assumed to exit, and the parent may then wait for ever:
`QuitIsObeyed` leaves that case out by name (`deaf`). The failure detector pings, its pulls end (a relay's may end by an error), and the push of a
relay is strongly fair, as each round asks anew. An application is never assumed to exit
of itself, and a peer never to answer, so `Transport` has no liveness property.

The violations:

* `seed_leaves`: `src/end2end_test/features/cluster.feature` says that when the first
  seed goes down and is started again, "they should join in one cluster". The primary
  seed gets no seed to pull from (`node_keeper.cc:37`), and after an announced leave
  the others have dropped it from both maps, so nobody ever contacts anybody. The
  test's containers run without an application, hence without a daemon and without
  `NotifyLeave`, which is the case `join` covers.
* `false_suspicion`: `Suspect` clears the actor-system status and `RecoverySuspect`
  restores the member at its old incarnation without it; no later message or ping at
  that incarnation restores it. The documentation describes the event as "One actor
  system down".
* `balancer_stuck`: after `Proxy::Reply` the guard of the call for a response is empty,
  so its policy and its `++load` race with a client's call: one addition is lost, the
  load later wraps to the largest `size_t`, and the idle worker gets nothing any more.
* `balancer_assert`: the policy compares a snapshot of the metrics with the workers of now.
* `router_stuck`: a worker that dies between the answer of its spawn and `monitor` may have
  its down delivered in the caller's own thread, which holds `actor_lock_` and waits for it
  in `DeleteActor`. Neither this request nor any later one is answered. `OnlyMonitorSticks`
  says that nothing else can stick the pool.
* `union_fails`: the documentation says that a send through an actor union "only failed when
  all worker error". The union counts attempts, and the round robin is a counter modulo the
  size of the pool: a pool that drops a dead worker between two attempts makes it jump over
  one that works.

A worker that is put back after a late answer of its first stay has a load of the largest
`size_t` (`emplace` keeps the entry that the answer left), so the run `pools`
leaves that command out: nothing is right about its load. Nothing is claimed about
liveness above the threshold, where `balancer_stuck` refutes it; with four clients a lost
increment of the last id already leaves a client without its answer.

## Proofs

Every theorem is for all values of the constants that satisfy the assumptions which the
component's module names: sets of nodes or actors are finite where they are counted,
bounds are natural numbers, special values (`Nobody`, `"free"`, `"none"`) are no nodes or
actors, moduli are larger than what they count. TLC evaluates each assumption in the runs.

| module | about | theorems |
|---|---|---|
| `MembershipProofs` | `Membership` | `TypeCorrect`, `IncarnationsSound`, `ActorSystemsSound`, `SelfStaysKnown`, `OnlyLeaveErases`, `IncarnationsGrow` |
| `LoadBalancerProofs` | `LoadBalancer` | `TypeCorrect`, `AnswerOnce`, `NoTicketIsLeft`, `MailIsKept`, `LoadIsExact`, `AnswersFindTheirClient` |
| `NotificationProofs` | `Notification` | `NotificationTypes`, `SettledKeeperKeepsUp`, `ApplicationsSeeTheCluster`, `EventsOfANodeAlternate` |
| `HostProofs` | `Daemon`, `Host` | `DaemonTypeCorrect`, `NoneAbandoned`, `QuitStops`, `OneApp`; `HostImplementsDaemon`, `HostImplementsNotification`, `HostTypeCorrect`, `DeadAppStaysDown`, `HostKeepsBoth` |
| `NodeKeeperProofs` | `TimedFunctorQueue`, `Transport`, `RelayPing` | `QueueTypeCorrect`, `QueueImplementsRunner`; `TransportTypeCorrect`, `OneResult`, `WholeAnswer`; `RelayTypeCorrect`, `TargetStaysWatched` |
| `RouterPoolProofs` | `RouterPool` | `RouterTypeCorrect`, `PoolAgreesWithNodes`, `ResizeIsExact`, `SomeThreadGoesOn` |
| `FaultToleranceProofs` | `ActorGuard`, `ActorUnion`, `Monitors` | `GuardTypeCorrect`, `OneCallback`; `UnionTypeCorrect`, `OutOfWork`; `MonitorTypeCorrect`, `DownDescribed`, `DeadUnlisted` |
| `YanghuiProofs` | `Yanghui` | `YanghuiTypeCorrect`, `JobsGetAnswers`; `LocalJobIsLeastSum`, `JobsAnswerRight` |

### Membership

For every finite set of nodes, all seeds, every multiplier and all bounds. None of the
four invariants is inductive alone: `ActorSystemsAreMembers` after `MergeMembers` needs
that the actor systems listed in a ping are members of the view in the same ping,
and after a full state reply the same of the reply; `IncarnationsWereIssued` needs
the types of all records. The inductive invariant `IInv` is the conjunction
`SelfInv /\ LocalInv /\ GossipInv /\ PullInv`. What it says of one node is the
predicate `GoodNode` on *values*, so that each handler has a lemma (`HandleUpGood`,
`SuspectGood`, ...) about what it makes of the maps of the node that runs it;
`LocalStep` and `LocalStepAbove` lift such a lemma to the whole system, the second
for steps that issue an incarnation, where everything said of the old bound has to
be carried over to the higher one (`MapAbove`, `NodeAbove`, `PullAbove`). `NextInv`
has one lemma per action.

The two action properties (`OnlyLeaveErases` proves `OnlyLeaveForgets`, `IncarnationsGrow`
proves `MemberIncarnationGrows`) rest on one more invariant, `LeftInv`: a DOWN message, in
flight or queued, is about a node in `left`. It needs no incarnations, since
`MergeDownUpdate` looks at none. `Steady(n)` says of a step of n what both properties ask
for and what `LeftInv` needs of its queue; each handler has a lemma that it is steady, and
`SteadyStep` lifts it. In `HandleUpSteady` the two cases meet in which an UP message drops
an earlier life: the new one is put in its place, or the other map holds it already.

### Load balancer

For all clients and workers, every threshold and width of `size_t`, and any commands.
`TypeOK` is inductive once it is known that a call that relays has a mail and a worker
(`RelaysMail`). `AnsweredAtMostOnce` rests on `OnceInv`: the request of a client is
in at most one place, which is unsent, the queue of the policy, one call before its
ticket is placed, one ticket, or answered. No case of the proof mentions the lock, nor
that ids are fresh: one answer is guaranteed even where additions and ids are lost.
What a step does to the call that takes it is stated once (`Effects`); `QuietOnce`
covers all the steps that bring no mail anywhere, `QueueOnce` the steps of the policy.
`TicketsAreOpen` is inductive with the types. `NoMailLostOrDuplicated` counts; `CopyInv`
says the same without counting (one carrier, one inbox, one index), and `CountCopies`
turns it into numbers.

`LoadIsExact` and `AnswersFindTheirClient` have the hypothesis `BelowThreshold`: no more
clients than the threshold, and no worker put back. Both parts are needed, and the runs
show that: with more clients a response releases held mails after it gave up the lock,
and two such calls lose an addition (`balancer_stuck`); a worker that is put back may have
a load that a late answer has wrapped. The run `pools` satisfies the hypothesis.
Under it nothing is ever held (`QueueInv`: a load is at most the number of requests
counted, hence below the threshold while a client is still in the policy), so that only
clients' calls relay, and these hold the lock until the ticket is placed (`LockInv`); what
`++load` has read is therefore still the load (`ReadInv`), and an id is above all that were
given (`TicketInv`).

### Notification path and host

`NotificationInv` follows an event along its way. `KeeperInv`: the generator's maps are a
snapshot that is current unless a change is under way or an `Update` was lost, and the
events left to notify are the difference between what it holds and what the channels were
told (`PutUp`), each matter once; the service is one event ahead of the channels while
that one is put (`Headed`). `ClientInv`: the last event of a matter that a channel holds is
what the channels were told (`ToldInv`), so is the last that its run heard once the channel
holds none (`HeardInv`), and the list that a run fetched is the service's but for the nodes
in `unseen` (`FetchInv`, `ListInv`). The three properties are read off it for a keeper that
sleeps, an empty channel, and two events in a row.

`DaemonInv`: the pid is the last fork's except between fork and store (`PidInv`); only the
last fork's application may be alive, and where the daemon is beyond the wait for it, the
guard is down and the application has been asked to stop or is deaf (`RunningInv`); after a
quit signal the guard is down and a fork is to come only if none has come since
(`QuitInv`). The handler keeps it wherever it runs (`ObeyInv`, `SignalInv`).

`Host` is shown to implement both of its parts, `HostSpec => DaemonSpec` and
`HostSpec => NotificationSpec`: each of its steps is a step of the part or leaves the part
alone, also where one step of the host is one of each (an exit that ends the daemon's wait
and the client). So all that is proved of the parts holds on a host (`HostKeepsBoth`).
`DeadAppIsDown` has an invariant of its own (`StatusInv`): from the handler of the exit to
the next fork the flag is down, and one step later so is the announcement (`AnnouncedInv`),
but for what is in `racing`. That `racing` has every writer that may still come rests on two
facts: an application that is not there makes no new call (`ConnectedInv`), and each call or
callback under way was so when the exit was handled, or is the io thread's and found the
flag set by one that was (`WritersInv`).

### The others

| component | inductive invariant |
|---|---|
| `TimedFunctorQueue` | `QueueInv`: the worker holds a functor with runs left exactly while it is at `run`, and everything queued is owed at least once. Under it each step maps to a step of the runner or to a stutter (`RunnerStepMaps`): taking the front moves nothing, running is the runner's step. |
| `Transport` | `TransportInv`: no result before the end of a session, one after it unless the transport is gone, and the decoder never takes more than a frame (`DecodeBounded`). |
| `RelayPing` | `TargetIsWatched` is inductive with the types; `AskNextInv` is the step of it that all failures share. |
| `RouterPool` | `PoolInv`: what a call under way has at each place (`CallInv`; the lock is held exactly at `spawn`, `monitor` and `stuck`, and there is a newcomer exactly at `monitor`), a worker that is known of was spawned, and a down is about a dead one (`LifeInv`). For the sizes, `CalmInv`: as long as no request, death or timeout disturbed another, there is one call, and for each node the living workers plus what that call still owes (`Owes`) make the size wanted. For `SomeThreadGoesOn`, `DownInv`: as long as no call is stuck, a dead worker that `nodes_` or `pool_` still has is the one whose down the middleman's thread is at, or its down is on the way. A stuck call stays so, which is why the theorem says `MonitorsTheDead \/ SomeoneGoesOn`. |
| `ActorGuard` | `CallInv`: a call under way found the guard active and has had no callback. |
| `ActorUnion` | `UnionInv`: the count is that of the actors added; every actor that has worked since the send began is in the pool, and is the one at hand or one that the round robin comes to within the attempts that are left (`Reached`). |
| `Monitors` | `MonitorInv`: in every mailbox a description comes before the down it belongs to (`DescribedInv`), a listed actor is watched, will be, or its down is in the mail (`ListedInv`), and the steps left of a call are those of one of the three calls (`StepsInv`). The lemmas on mailboxes say what appending and reading do to these. |
| `Yanghui` | `YanghuiInv`: as long as no worker has crashed, the one job under way is in exactly one stage (`JobInv`), and no stage is empty. In the load balance job that is one message, or tasks for exactly the places whose results are missing (`Awaited`). In the priority job each of the two actors has one message, the tasks that its level still waits for (`Adds`: count and tasks make the level's size), or its last comparison, until the dispatcher has its result (`Split`); between jobs both are back at the first level with nothing counted (`Calm`), which is what the next job starts from. For the answers, `ValuesInv`: see below. |

### The answers of the yanghui jobs

`JobsAnswerRight` is about values that the actors compute in pieces, so it needs two things.

The first is what the pieces are pieces of: `States(t)`, the states of a triangle's levels,
and `PathSums(t, p)`, the sums of a path down, are recursive functions over the rows.
`StatesEquation` and `SumsEquation` show that the functions exist, and so satisfy the
equations that define them. Inductions over the rows then show that no path to a number has
a lesser sum than its state (`NoPathIsLess`) and that some path has it (`SomePathIsLeast`);
`LocalJobIsLeastSum` follows, for triangles of any size. For the comparisons in parts, each
number is in a part and each part has only numbers of the whole (`ChunksCover`,
`ChunkNumbers`), so that comparing keeps the least one (`ChunksKeepLeast`). Every induction
is a use of `InductionTo`, with the set of the row numbers for which the statement holds:
the least number outside the set, which exists as `<` on the naturals is well founded,
gives the contradiction. No theorem with an operator as parameter is needed.

The second is the invariant, `ValuesInv`: `YanghuiInv`, and while no worker has crashed each
value under way belongs to the triangle that the client sent (`Values`). A message is right
for its recipient (`MailIsRight`), for instance the start of a level finds the level's states
in `last` (`Ready`). A task has the state of its place (`TaskIsRight`), and while an actor of
the priority job waits, each place of `last` up to the level has its new state or a task that
brings it (`Waits`). This is where the order of the results drops out. It is also where the
stages of `YanghuiInv` are needed: a level ends with the last task (`LastResult`), because
count and tasks together make its size. What the job before left in `path`, `getMin` and
`last` is not mentioned: `Calm` is all that the next job needs of it.

### What is only model-checked

* `JoinInOneCluster`, `QueueMovesOn`, `QuitIsObeyed`, `DeadTargetIsSuspected`: liveness under
  fairness, out of the prover's reach.
* `OnlyMonitorSticks`, in part. `SomeThreadGoesOn` proves its first conjunct, that while
  something is to come and no call is stuck in `monitor` the guard of a call or of a down
  holds (`SomeoneGoesOn`). That these
  guards are right, each implying that the step is ENABLED, is left to the run.
* `HostTypesOK` and `ComponentTypesOK`: conjunctions of the components' type invariants over
  the specifications of the MC modules; each conjunct is proved for its component.

## Not modelled

* The two locks of `Ping` and of the merges of actor-system messages, taken one
  after the other, as a finer grain of these two actions.
* Width of the incarnation (32 bit): a node would need 2^32 announcements in a life.
* `Membership` with relay pings: `RelayPing` has one origin and one target, whose
  incarnation does not matter to it.
* Transport: the synchronous `Pull` and `Push`; the local buffer that
  `PullSession::Request` hands to `async_write_some` (asio writes at once if it can); bytes
  behind an answer, which no peer sends.
* Notification: `Close` and `RemoveChannel`, which only tests call; the observers of an
  application and their registration in other threads.
* Daemon: `StopGuard`, which only tests call; arguments and environment of the application.
* Router pool: Exit, the queries, and spawning on the own node (an empty host name).
  A worker is told to exit with an ordinary message, `anon_send(actor, exit_reason)`:
  `quits` says whether the pool's workers obey it. Going on from a node of the table that
  another call has freed may also crash the process, which is left out.
* Monitors: the destructor of `ActorStatusMonitor`, whose monitor keeps a pointer to it;
  calls of several threads at once; `message_priority_actor.cc`, whose order is that of
  CAF's queues.
* Yanghui: jobs that overlap. They overwrite the senders that `yanghui_server.cc:47` and
  `:72` keep; the client of the demonstration waits for each answer.
* Node status service, monitor tool, configuration, logging, containers: reading `/proc`,
  parsing, formatting and printing, without state that a protocol depends on.

## Plan

Done: `Membership`, `LoadBalancer`, `Notification`, `Daemon` and their composition `Host`,
`TimedFunctorQueue` with the `OrderedRunner` it implements, `Transport`, `RelayPing`,
`RouterPool`, `ActorUnion`, `ActorGuard`, `Monitors`, `Yanghui`, each with its proofs.

Left:

1. The finer grain of `Ping` in `Membership`, and `Host` over `Membership` itself in place of
   its free changes.
2. Proofs: the answers of the yanghui jobs after a crash of a worker, where a job is answered
   right, with a failure, or not at all.
