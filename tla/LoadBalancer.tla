---------------------------- MODULE LoadBalancer ----------------------------
(***************************************************************************)
(* The load balancer of the actor system library                           *)
(* (actor_system/src/load_balancer.cc, load_balancer/policy.cc, proxy.h,   *)
(* ticket.h): a router that relays mail to the least loaded of its workers *)
(* and gives the answers back to the clients.                              *)
(*                                                                         *)
(* The router has no thread: whoever sends it a mail runs enqueue.  A call *)
(* is therefore a small program of the sender, one action per access to    *)
(* shared state.  A call for a request holds lock_ until its ticket is     *)
(* placed; a call for a response gives lock_ up once it has the ticket and *)
(* then goes on without it: it reads the metrics, asks the policy for a    *)
(* mail that is held, counts it and places its ticket unprotected.         *)
(*                                                                         *)
(* A client sends one mail.  A worker answers the mails of its inbox one   *)
(* after the other; its answer is a call of its own.                       *)
(***************************************************************************)
EXTENDS Integers, FiniteSets, Sequences, SequencesExt

CONSTANTS
    Client,          \* the senders of mail
    Worker,          \* the actors that may be put behind the router
    Nobody,          \* no actor, no mail, no owner of the lock
    Anonymous,       \* the clients whose mail is no request
    InitialWorkers,  \* the workers put before the first mail, in order
    Threshold,       \* load_threshold_to_hold_
    SizeMax,         \* the largest size_t
    Commands,        \* kinds of commands and failures that happen
    MaxCommands      \* bound: how many of them

ASSUME NobodyAssumption == Nobody \notin Client \cup Worker
ASSUME ActorsAssumption == Client \cap Worker = {}
ASSUME AnonymousAssumption == Anonymous \subseteq Client
ASSUME SizeAssumption == /\ SizeMax \in Nat \ {0}
                         /\ Threshold \in 1..SizeMax
ASSUME InitialAssumption == InitialWorkers \in Seq(Worker) /\ IsInjective(InitialWorkers)
ASSUME CommandsAssumption == MaxCommands \in Nat

VARIABLES
    workers,    \* workers_
    load,       \* metrics_: the load of the actors that have an entry
    rotated,    \* rotated_ of the policy
    mails,      \* mails_ of the policy: the mails it holds
    lastId,     \* last_request_id_
    tickets,    \* tickets_: whom the response to an id goes to
    lock,       \* the owner of lock_
    call,       \* call[a]: the call of enqueue that a is in
    inbox,      \* inbox[w]: requests relayed to w
    replies,    \* replies[c]: what came back to c
    dead,       \* workers that terminated
    exiting,    \* workers that were sent an exit message
    downs,      \* workers whose down message has not been handled
    cleaned,    \* cleanup() of the router has run
    aborted,    \* the process aborted
    commands,   \* commands and failures so far
    served,     \* history: served[c]: how often a worker took c's mail
    removed     \* history: workers ever taken out of workers_

policyVars == <<rotated, mails>>
proxyVars == <<lastId, tickets>>
clientVars == <<replies, served>>
workerVars == <<dead, exiting, downs, cleaned, commands, removed>>

\* What the steps of a call leave alone, and what commands leave alone.
outside == <<workers, workerVars, aborted>>
inside == <<policyVars, proxyVars, clientVars, lock, call, aborted>>

vars == <<workers, workerVars, load, inbox, inside>>

-----------------------------------------------------------------------------
Actors == Client \cup Worker

\* The reply of a router without workers.
EmptyMessage == Nobody

Mail == [id : Nat, mail : Client]

Steps == {"idle", "policy", "load", "count", "id", "ticket", "deliver",
          "settle", "metrics", "done"}

\* The locals of a call: the snapshot of the metrics, the mail it carries, the
\* worker that was selected, a value read and not yet written back, and the id.
Call == [step : Steps, metrics : Seq(0..SizeMax), mail : Client \cup {Nobody},
         to : Worker \cup {Nobody}, read : Nat, id : Nat]

Idle == [step |-> "idle", metrics |-> <<>>, mail |-> Nobody, to |-> Nobody,
         read |-> 0, id |-> 0]

Start(step, mail) == [Idle EXCEPT !.step = step, !.mail = mail]

Set(map, x, v) == [y \in DOMAIN map \cup {x} |-> IF y = x THEN v ELSE map[y]]

\* Mutant of Without: erase is forgotten.
WithoutNothing(map, S) == map

Without(map, S) == [x \in DOMAIN map \ S |-> map[x]]

\* metrics_[a].load, which makes an entry of 0 where there is none.
LoadOf(a) == IF a \in DOMAIN load THEN load[a] ELSE 0

\* metrics_.emplace: an entry that exists stays as it is.
Emplace(map, x, v) == IF x \in DOMAIN map THEN map ELSE Set(map, x, v)

GetMetrics == [i \in 1..Len(workers) |-> load[workers[i]]]

\* Mutant of Unlocked: a call unlocks what it does not own.
UnlockedByAnyone(a) == Nobody

Unlocked(a) == IF lock = a THEN Nobody ELSE lock

Finished(a) == [Idle EXCEPT !.step = IF a \in Client THEN "done" ELSE "idle"]

Abort ==
    /\ aborted' = TRUE
    /\ UNCHANGED <<workers, workerVars, load, policyVars, proxyVars, lock, call,
                   inbox, clientVars>>

TypeOK ==
    /\ workers \in Seq(Worker)
    /\ IsInjective(workers)
    /\ DOMAIN load \subseteq Worker
    /\ load \in [DOMAIN load -> 0..SizeMax]
    /\ ToSet(workers) \subseteq DOMAIN load
    /\ rotated \in Nat
    /\ mails \in Seq(Client)
    /\ lastId \in Nat
    /\ DOMAIN tickets \subseteq Nat
    /\ tickets \in [DOMAIN tickets -> Client \cup {Nobody}]
    /\ lock \in Actors \cup {Nobody}
    /\ call \in [Actors -> Call]
    /\ inbox \in [Worker -> Seq(Mail)]
    /\ replies \in [Client -> Seq(Client \cup {EmptyMessage})]
    /\ {dead, exiting, downs, removed} \subseteq SUBSET Worker
    /\ cleaned \in BOOLEAN /\ aborted \in BOOLEAN
    /\ commands \in 0..MaxCommands
    /\ served \in [Client -> Nat]

Init ==
    /\ workers = InitialWorkers
    /\ load = [w \in ToSet(InitialWorkers) |-> 0]
    /\ rotated = SizeMax
    /\ mails = <<>>
    /\ lastId = 0
    /\ tickets = [i \in {} |-> Nobody]
    /\ lock = Nobody
    /\ call = [a \in Actors |-> Idle]
    /\ inbox = [w \in Worker |-> <<>>]
    /\ replies = [c \in Client |-> <<>>]
    /\ dead = {} /\ exiting = {} /\ downs = {} /\ removed = {}
    /\ cleaned = FALSE /\ aborted = FALSE
    /\ commands = 0
    /\ served = [c \in Client |-> 0]

-----------------------------------------------------------------------------
(* A call for a mail that is no response.                                  *)

\* Filter: a request to a router without workers gets an empty reply.
ReplyEmpty(c) ==
    /\ call[c].step = "idle"
    /\ lock = Nobody
    /\ workers = <<>>
    /\ c \notin Anonymous
    /\ replies' = [replies EXCEPT ![c] = Append(@, EmptyMessage)]
    /\ call' = [call EXCEPT ![c].step = "done"]
    /\ UNCHANGED <<load, policyVars, proxyVars, lock, inbox, served, outside>>

Send(c) ==
    /\ call[c].step = "idle"
    /\ lock = Nobody
    /\ workers # <<>> \/ c \in Anonymous
    /\ lock' = c
    /\ call' = [call EXCEPT ![c] = [Start("policy", c) EXCEPT !.metrics = GetMetrics]]
    /\ UNCHANGED <<load, policyVars, proxyVars, inbox, clientVars, outside>>

(* A call for a response: --load and ExtractTicket under the lock, then    *)
(* the reply and the metrics without it.                                   *)

Answer(w) ==
    /\ w \notin dead
    /\ call[w].step = "idle"
    /\ inbox[w] # <<>>
    /\ lock = Nobody
    /\ lock' = w
    /\ load' = Emplace(load, w, 0)
    /\ call' = [call EXCEPT ![w] = [Start("settle", Head(inbox[w]).mail) EXCEPT
                                        !.read = LoadOf(w),
                                        !.id = Head(inbox[w]).id]]
    /\ inbox' = [inbox EXCEPT ![w] = Tail(@)]
    /\ served' = [served EXCEPT ![Head(inbox[w]).mail] = @ + 1]
    /\ UNCHANGED <<policyVars, proxyVars, replies, outside>>

\* Whom ExtractTicket finds: nobody once w has been removed.
ResponseTo(w, id) ==
    IF id \in DOMAIN tickets /\ w \in ToSet(workers) THEN tickets[id] ELSE Nobody

Settle(w) ==
    LET id == call[w].id
        client == ResponseTo(w, id)
    IN
    /\ call[w].step = "settle"
    /\ load' = [load EXCEPT ![w] = (call[w].read - 1) % (SizeMax + 1)]
    /\ tickets' = Without(tickets, {id})
    /\ replies' = IF client = Nobody THEN replies
                  ELSE [replies EXCEPT ![client] = Append(@, call[w].mail)]
    /\ lock' = Nobody
    /\ call' = [call EXCEPT ![w] = Start("metrics", Nobody)]
    /\ UNCHANGED <<policyVars, lastId, inbox, served, outside>>

ReadMetrics(w) ==
    /\ call[w].step = "metrics"
    /\ call' = [call EXCEPT ![w] = [Start("policy", Nobody) EXCEPT !.metrics = GetMetrics]]
    /\ UNCHANGED <<load, policyVars, proxyVars, lock, inbox, clientVars, outside>>

-----------------------------------------------------------------------------
(* MinLoad.  The metrics are the snapshot of the call, the workers are     *)
(* those of the router now.                                                *)

\* Rotate: the pivot for n workers.
Pivot(n) == ((rotated + 1) % (SizeMax + 1)) % n

\* The k-th of the rotated metrics, and whether min_element returns it.
Rotated(metrics, k) == metrics[((Pivot(Len(metrics)) + k) % Len(metrics)) + 1]

IsFirstLeast(metrics, k) ==
    \A j \in 0..(Len(metrics) - 1) :
        \/ Rotated(metrics, k) < Rotated(metrics, j)
        \/ Rotated(metrics, k) = Rotated(metrics, j) /\ k <= j

\* What the policy may hand out, in order: the held mails, then the new one.
Hold(mail) == IF mail = Nobody THEN mails ELSE Append(mails, mail)

\* Mutant of Release: the new mail is dropped when an older one goes first.
ReleaseDropsNew(mail) ==
    [first |-> Head(Hold(mail)), rest |-> IF mails = <<>> THEN <<>> ELSE Tail(mails)]

Release(mail) == [first |-> Head(Hold(mail)), rest |-> Tail(Hold(mail))]

NothingToDo(a) == call[a].mail = Nobody /\ mails = <<>>

\* The first line of the policy: assert(actors.size() == metrics.size()).
SizesAgree(a) == Len(workers) = Len(call[a].metrics)

Policy(a) ==
    LET metrics == call[a].metrics
        mail == call[a].mail
    IN
    /\ call[a].step = "policy"
    /\ SizesAgree(a)
    /\ \/ /\ NothingToDo(a)
          /\ lock' = Unlocked(a)
          /\ call' = [call EXCEPT ![a] = Finished(a)]
          /\ UNCHANGED policyVars
       \/ \E selected \in 0..(Len(metrics) - 1) :
          /\ ~NothingToDo(a)
          /\ IsFirstLeast(metrics, selected)
          /\ rotated' = Pivot(Len(metrics))
          /\ IF Rotated(metrics, selected) >= Threshold
             THEN /\ mails' = Hold(mail)
                  /\ lock' = Unlocked(a)
                  /\ call' = [call EXCEPT ![a] = Finished(a)]
             ELSE /\ mails' = Release(mail).rest
                  /\ call' = [call EXCEPT
                        ![a].step = "load",
                        ![a].mail = Release(mail).first,
                        ![a].to = workers[((rotated' + selected) % Len(workers)) + 1]]
                  /\ UNCHANGED lock
    /\ UNCHANGED <<workers, load, proxyVars, inbox, clientVars, workerVars, aborted>>

\* The assertion fails, or Rotate divides by zero.
PolicyAborts(a) ==
    /\ call[a].step = "policy"
    /\ ~SizesAgree(a) \/ (workers = <<>> /\ ~NothingToDo(a))
    /\ Abort

-----------------------------------------------------------------------------
(* The relay of the mail that the policy released: ++load, a ticket under  *)
(* a new id, and the delivery.  ++ reads in one step and writes in the     *)
(* next: without the lock another call may come between.                   *)

ReadLoad(a) ==
    /\ call[a].step = "load"
    /\ load' = Emplace(load, call[a].to, 0)
    /\ call' = [call EXCEPT ![a].step = "count", ![a].read = LoadOf(call[a].to)]
    /\ UNCHANGED <<policyVars, proxyVars, lock, inbox, clientVars, outside>>

\* The entry may be gone: then nobody sees what is written.
WriteLoad(a) ==
    /\ call[a].step = "count"
    /\ load' = IF call[a].to \in DOMAIN load
               THEN [load EXCEPT ![call[a].to] = (call[a].read + 1) % (SizeMax + 1)]
               ELSE load
    /\ call' = [call EXCEPT ![a].step = "id", ![a].read = 0]
    /\ UNCHANGED <<policyVars, proxyVars, lock, inbox, clientVars, outside>>

ReadId(a) ==
    /\ call[a].step = "id"
    /\ call' = [call EXCEPT ![a].step = "ticket", ![a].id = lastId + 1]
    /\ UNCHANGED <<load, policyVars, proxyVars, lock, inbox, clientVars, outside>>

\* A mail that is no request gets a ticket without an addressee.
PlaceTicket(a) ==
    LET mail == call[a].mail
        client == IF mail \in Anonymous THEN Nobody ELSE mail
    IN
    /\ call[a].step = "ticket"
    /\ lastId' = call[a].id
    /\ tickets' = Emplace(tickets, call[a].id, client)
    /\ lock' = Unlocked(a)
    /\ call' = [call EXCEPT ![a].step = "deliver"]
    /\ UNCHANGED <<load, policyVars, inbox, clientVars, outside>>

Deliver(a) ==
    LET w == call[a].to
        request == [id |-> call[a].id, mail |-> call[a].mail]
    IN
    /\ call[a].step = "deliver"
    /\ inbox' = IF w \in dead THEN inbox ELSE [inbox EXCEPT ![w] = Append(@, request)]
    /\ call' = [call EXCEPT ![a] = Finished(a)]
    /\ UNCHANGED <<load, policyVars, proxyVars, lock, clientVars, outside>>

-----------------------------------------------------------------------------
(* Commands to the router, and failures of workers.                        *)

Command(kind) ==
    /\ kind \in Commands
    /\ commands < MaxCommands
    /\ commands' = commands + 1

\* Mutant of TakeOut: metrics_ is cleared with every removal.
TakeOutAllMetrics(w) ==
    /\ \E i \in DOMAIN workers : workers[i] = w /\ workers' = RemoveAt(workers, i)
    /\ load' = [x \in {} |-> 0]
    /\ removed' = removed \cup {w}

\* workers_ and metrics_ without w.
TakeOut(w) ==
    /\ \E i \in DOMAIN workers : workers[i] = w /\ workers' = RemoveAt(workers, i)
    /\ load' = Without(load, {w})
    /\ removed' = removed \cup {w}

\* An entry of metrics_ that a late answer left behind is not overwritten.
AddWorker(w) ==
    /\ Command(IF w \in removed THEN "put back" ELSE "put")
    /\ lock = Nobody
    /\ w \notin dead \cup ToSet(workers)
    /\ workers' = Append(workers, w)
    /\ load' = Emplace(load, w, 0)
    /\ UNCHANGED <<inside, inbox, dead, exiting, downs, cleaned, removed>>

DeleteWorker(w) ==
    /\ Command("delete")
    /\ lock = Nobody
    /\ w \in ToSet(workers)
    /\ TakeOut(w)
    /\ UNCHANGED <<inside, inbox, dead, exiting, downs, cleaned>>

\* metrics_.clear() drops the entries of former workers too.
ClearWorker ==
    /\ Command("clear")
    /\ lock = Nobody
    /\ workers' = <<>>
    /\ load' = [w \in {} |-> 0]
    /\ removed' = removed \cup ToSet(workers)
    /\ UNCHANGED <<inside, inbox, dead, exiting, downs, cleaned>>

\* Only the first cleanup passes the exit message on.
Exit ==
    /\ Command("exit")
    /\ lock = Nobody
    /\ IF cleaned
       THEN UNCHANGED <<workers, load, exiting, cleaned, removed>>
       ELSE /\ workers' = <<>>
            /\ load' = [w \in {} |-> 0]
            /\ removed' = removed \cup ToSet(workers)
            /\ exiting' = exiting \cup ToSet(workers)
            /\ cleaned' = TRUE
    /\ UNCHANGED <<inside, inbox, dead, downs>>

\* A worker terminates between two mails; the router monitors its workers.
Terminate(w) ==
    /\ w \notin dead
    /\ call[w].step = "idle"
    /\ IF w \in exiting THEN UNCHANGED commands ELSE Command("die")
    /\ dead' = dead \cup {w}
    /\ downs' = IF w \in ToSet(workers) \cup exiting THEN downs \cup {w} ELSE downs
    /\ inbox' = [inbox EXCEPT ![w] = <<>>]
    /\ UNCHANGED <<inside, workers, load, exiting, cleaned, removed>>

Down(w) ==
    /\ w \in downs
    /\ lock = Nobody
    /\ downs' = downs \ {w}
    /\ IF w \in ToSet(workers)
       THEN TakeOut(w)
       ELSE UNCHANGED <<workers, load, removed>>
    /\ cleaned' = (cleaned \/ workers' = <<>>)
    /\ UNCHANGED <<inside, inbox, dead, exiting, commands>>

-----------------------------------------------------------------------------
\* The steps of a call of enqueue that has begun.
Proceed(a) ==
    \/ Policy(a) \/ PolicyAborts(a)
    \/ ReadLoad(a) \/ WriteLoad(a) \/ ReadId(a) \/ PlaceTicket(a) \/ Deliver(a)

Next ==
    /\ ~aborted
    /\ \/ \E c \in Client : ReplyEmpty(c) \/ Send(c) \/ Proceed(c)
       \/ \E w \in Worker :
            \/ Answer(w) \/ Settle(w) \/ ReadMetrics(w) \/ Proceed(w)
            \/ AddWorker(w) \/ DeleteWorker(w) \/ Terminate(w) \/ Down(w)
       \/ ClearWorker \/ Exit

Spec == Init /\ [][Next]_vars

-----------------------------------------------------------------------------
(* Properties.                                                             *)

Carried(c) == {a \in Actors : call[a].mail = c
                              /\ call[a].step \in {"policy", "load", "count", "id",
                                                   "ticket", "deliver"}}

Holding(c) == {i \in DOMAIN mails : mails[i] = c}

InInbox(c, w) == {i \in DOMAIN inbox[w] : inbox[w][i].mail = c}

Waiting(c) == UNION {{<<w, i>> : i \in InInbox(c, w)} : w \in Worker}

\* How often the mail of c is in a call, in the policy, in an inbox or worked on.
Copies(c) == Cardinality(Carried(c)) + Cardinality(Holding(c))
             + Cardinality(Waiting(c)) + served[c]

\* The calls of all threads hand mails to each other through the queue of the
\* policy (Hold and Release run in the call of another client or of a worker):
\* a mail that was sent is never lost and never duplicated on its way to a
\* worker.  Only a worker that dies takes mail with it.
NoMailLostOrDuplicated ==
    \A c \in Client :
        /\ Copies(c) <= 1
        /\ dead = {} /\ call[c].step # "idle" /\ replies[c] # <<EmptyMessage>>
              => Copies(c) = 1

\* Whatever the calls of other threads do, a client gets at most one answer to
\* a request: a ticket is taken out before it is used (ExtractTicket).
AnsweredAtMostOnce == \A c \in Client : Len(replies[c]) <= 1

\* The requests of w that its load stands for: on their way with ++load done,
\* in its inbox, or answered with --load not done.
OpenRequests(w) ==
    Len(inbox[w])
    + Cardinality({a \in Actors : call[a].to = w
                                  /\ call[a].step \in {"id", "ticket", "deliver"}})
    + (IF call[w].step = "settle" THEN 1 ELSE 0)

\* Below the threshold, the load of a worker that stayed behind the router is
\* the number of its open requests (Router::enqueue, ++load and --load), while
\* workers come, go and die, and answers of workers that went come late.
LoadIsOpenRequests ==
    \A w \in ToSet(workers) \ (removed \cup dead) : load[w] = OpenRequests(w)

\* Below the threshold, what comes back to a client is the answer to its own
\* request, or the empty message of a router without workers: tickets do not
\* mix up requests (Proxy).
AnswersAreOwn ==
    \A c \in Client : \A i \in DOMAIN replies[c] :
        replies[c][i] \in {c, EmptyMessage} /\ c \notin Anonymous

\* A ticket stays in tickets_ only while its request is on its way or open:
\* no ticket is left behind by a worker that is removed (ExtractTicket).
TicketsAreOpen ==
    dead = {} =>
    \A id \in DOMAIN tickets :
        \/ \E a \in Actors : call[a].id = id
                             /\ call[a].step \in {"deliver", "settle"}
        \/ \E w \in Worker : \E i \in DOMAIN inbox[w] : inbox[w][i].id = id

\* should_roughly_route_even_under_throughput_load expects that every request
\* of a client that sends more than the threshold is executed, and the manual
\* that a task is held only while the least loaded worker is at the threshold.
\* So nothing is held when no call is under way and no worker has anything to
\* do: only a response releases a held mail.
HeldOnlyWhileBusy ==
    mails # <<>> =>
        \/ \E a \in Actors : call[a].step \notin {"idle", "done"}
        \/ \E w \in Worker : inbox[w] # <<>>
        \/ aborted

\* assert(actors.size() == metrics.size()) at the start of the policy.
PolicyAssertion ==
    \A a \in Actors : (Policy(a) \/ PolicyAborts(a)) => SizesAgree(a)
AssertionNeverFails == [][PolicyAssertion]_vars

=============================================================================
