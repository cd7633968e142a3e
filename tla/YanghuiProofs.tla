---------------------------- MODULE YanghuiProofs -----------------------------
(***************************************************************************)
(* Proofs about the jobs of the yanghui demonstration, for any triangles,  *)
(* sizes of comparisons, jobs and crashes of workers: every job is         *)
(* answered, and answered right, while no worker has crashed.              *)
(***************************************************************************)
EXTENDS Yanghui, FiniteSetTheorems, SequenceTheorems, WellFoundedInduction, TLAPS

\* A sequence of numbers that is not empty.
IsRow(row) == \E n \in Nat \ {0} : row = [j \in 1 .. n |-> row[j]]

\* What the actors keep, and what messages to them hold.
ClientTypes ==
    /\ jobClient.job \in {"none", "failed", "timedOut", "standard", "pool", "balance", "priority"}
    /\ DOMAIN jobClient = {"number", "triangle", "job"}
    /\ crashes \in Nat

PathTypes ==
    /\ DOMAIN path = {"index", "data", "results"} /\ path.index \in Nat
    /\ \E n \in Nat : /\ path.data = [k \in 1 .. n |-> path.data[k]]
                      /\ \A k \in 1 .. n : IsRow(path.data[k])
    /\ DOMAIN path.results \subseteq Nat

MinTypes ==
    /\ DOMAIN getMin = {"count", "results"} /\ getMin.count \in Nat
    /\ DOMAIN getMin.results \subseteq Nat /\ IsFiniteSet(DOMAIN getMin.results)

PriorityTypes ==
    /\ prio = [p \in Priority |-> prio[p]]
    /\ \A p \in Priority :
          /\ DOMAIN prio[p] = {"level", "count", "data", "last"}
          /\ prio[p].level \in Nat /\ prio[p].count \in Nat
          /\ prio[p].data \in Triangles \cup {NoTriangle}

TaskTypes ==
    /\ IsFiniteSet(yTasks)
    /\ \A task \in yTasks : task.to \in aliveActors /\ task.to \in Pipeline /\ task.id \in Nat

DataInv == ClientTypes /\ PathTypes /\ MinTypes /\ PriorityTypes /\ TaskTypes

MailInv ==
    \A m \in yMail :
        /\ m[1] \in Pipeline => m[1] \in aliveActors
        /\ m[1] = "balance" /\ m[2] = "row" => IsRow(m[3])
        /\ m[1] = "min" => IsRow(m[3])

-----------------------------------------------------------------------------
\* Where the one job is, as long as no worker has crashed.

Rested(p) == prio[p].level = 1 /\ prio[p].count = 0

Calm == pairs = <<>> /\ \A p \in Priority : Rested(p)

\* One message to one of the actors, and nothing else.
OneMail(actors) == yTasks = {} /\ \E m : yMail = {m} /\ m[1] \in actors

\* The tasks are those whose results an actor of the load balance job has not got.
Awaited(actor, results, n, tasks) ==
    /\ tasks # {}
    /\ \A task \in tasks : task.to = actor /\ task.id \in (1 .. n) \ DOMAIN results
    /\ \A t, u \in tasks : t.id = u.id => t = u
    /\ DOMAIN results \subseteq 1 .. n
    /\ \A i \in (1 .. n) \ DOMAIN results : \E task \in tasks : task.id = i

BalanceInv ==
    \/ OneMail({"balance", "path", "min", "client"})
    \/ /\ yMail = {}
       /\ \/ Awaited("path", path.results, path.index + 1, yTasks)
          \/ Awaited("min", getMin.results, getMin.count, yTasks)

\* The message about p that is under way, and the tasks that p waits for.
About(p, m) == m[1] = p \/ (m[1] = "dispatcher" /\ m[3] = p)
Mails(p) == {m \in yMail : About(p, m)}
Tasks(p) == {task \in yTasks : task.to = p}

\* What p is with a message about it under way: told to start a level, or between two jobs.
Starting(p) ==
    /\ prio[p].data \in Triangles
    /\ prio[p].level \in 1 .. Len(prio[p].data) - 1
    /\ prio[p].count = 0

IsStart(p, m) == m[1] = p /\ m[2] = "start"

Told(p) ==
    /\ Tasks(p) = {}
    /\ \E m : Mails(p) = {m} /\ (IF IsStart(p, m) THEN Starting(p) ELSE Rested(p))

Adds(p) ==
    /\ Mails(p) = {} /\ Tasks(p) # {}
    /\ \A task \in Tasks(p) : task.level # 0
    /\ prio[p].data \in Triangles
    /\ prio[p].level \in 1 .. Len(prio[p].data) - 1
    /\ prio[p].count + Cardinality(Tasks(p)) = prio[p].level + 1

Compares(p) ==
    Mails(p) = {} /\ Rested(p) /\ \E task : Tasks(p) = {task} /\ task.level = 0

Runs(p) == Told(p) \/ Adds(p) \/ Compares(p)

Ended(p) == Mails(p) = {} /\ Tasks(p) = {} /\ Rested(p)

\* What is under way in the priority job, once its actors have the triangle.
Theirs ==
    /\ \A m \in yMail : \/ m[1] \in Priority
                        \/ m[1] = "dispatcher" /\ m[2] = "result" /\ m[3] \in Priority
    /\ \A task \in yTasks : task.to \in Priority

\* Both actors of the priority job run, or one of them and the dispatcher has the
\* other's result.
Split ==
    /\ Theirs
    /\ \/ pairs = <<>> /\ \A p \in Priority : Runs(p)
       \/ (\E x : pairs = <<x>>) /\ \E p \in Priority : Runs(p) /\ \A q \in Priority \ {p} : Ended(q)

PriorityInv ==
    \/ Calm /\ OneMail({"priority", "dispatcher", "client"})
            /\ \A m \in yMail : m[1] = "dispatcher" => m[2] = "triangle"
    \/ Split

JobInv ==
    \/ jobClient.job \in {"none", "failed"} /\ yMail = {} /\ yTasks = {} /\ Calm
    \/ jobClient.job \in {"standard", "pool"} /\ OneMail({jobClient.job, "client"}) /\ Calm
    \/ jobClient.job = "balance" /\ BalanceInv /\ Calm
    \/ jobClient.job = "priority" /\ PriorityInv

YanghuiInv ==
    DataInv /\ MailInv /\ (crashes = 0 => aliveActors = Pipeline /\ JobInv)
-----------------------------------------------------------------------------
\* Rows and the parts they are compared in.

\* A row has a length, which is not zero.
LEMMA RowLength ==
    ASSUME NEW row, IsRow(row)
    PROVE  Len(row) \in Nat \ {0} /\ DOMAIN row = 1 .. Len(row)
<1>1. PICK n \in Nat \ {0} : row = [j \in 1 .. n |-> row[j]]
  BY DEF IsRow
<1>2. row \in Seq({row[j] : j \in 1 .. n})
  BY <1>1
<1> QED
  BY <1>2, <1>1, LenProperties

\* What a row is compared in are some parts.
LEMMA SomeChunks ==
    ASSUME NEW row, IsRow(row)
    PROVE  Chunks(row) \in Nat \ {0}
<1> DEFINE n == Len(row)
<1>1. n \in Nat \ {0}
  BY RowLength
<1>2. Batch \in Nat \ {0, 1}
  BY YanghuiAssumption
<1>3. (n + Batch - 1) \div Batch \in Nat \ {0}
  <2> HIDE DEF n
  <2> QED
    BY <1>1, <1>2
<1> QED
  BY <1>3 DEF Chunks

\* A triangle's rows are rows, and its size is more than one.
LEMMA TriangleFacts ==
    ASSUME NEW t \in Triangles
    PROVE  /\ Len(t) \in Nat /\ Len(t) > 1
           /\ t = [k \in 1 .. Len(t) |-> t[k]]
           /\ \A k \in 1 .. Len(t) : IsRow(t[k])
           /\ t # NoTriangle
<1>1. t \in Seq(Seq(Int)) /\ Len(t) > 1 /\ \A k \in DOMAIN t : Len(t[k]) = k
  BY YanghuiAssumption
<1>2. Len(t) \in Nat /\ DOMAIN t = 1 .. Len(t) /\ t = [k \in 1 .. Len(t) |-> t[k]]
  BY <1>1, LenProperties
<1>3. ASSUME NEW k \in 1 .. Len(t) PROVE IsRow(t[k])
  <2>1. t[k] \in Seq(Int) /\ Len(t[k]) = k /\ k \in Nat \ {0}
    BY <1>1, <1>2
  <2>2. t[k] = [j \in 1 .. k |-> t[k][j]]
    BY <2>1, LenProperties
  <2> QED
    BY <2>1, <2>2 DEF IsRow
<1> QED
  BY <1>1, <1>2, <1>3 DEF NoTriangle

\* The tasks of a level, one for each place, are finitely many.
TasksOf(a, l, n, f) == {Task(a, l, j, f[j]) : j \in 1 .. n}

LEMMA TaskSet ==
    ASSUME NEW a, NEW l, NEW n \in Nat, NEW f
    PROVE  /\ IsFiniteSet(TasksOf(a, l, n, f))
           /\ Cardinality(TasksOf(a, l, n, f)) = n
<1> DEFINE T == {Task(a, l, j, f[j]) : j \in 1 .. n}
           g == [j \in 1 .. n |-> Task(a, l, j, f[j])]
<1>1. g \in Surjection(1 .. n, T) /\ g \in Injection(1 .. n, T)
  <2>1. g \in [1 .. n -> T] /\ \A t \in T : \E j \in 1 .. n : g[j] = t
    OBVIOUS
  <2>2. \A i, j \in 1 .. n : g[i] = g[j] => i = j
    BY DEF Task
  <2> HIDE DEF g, T
  <2> QED
    BY <2>1, <2>2 DEF Surjection, Injection, IsInjective
<1>2. IsFiniteSet(1 .. n) /\ Cardinality(1 .. n) = n
  BY FS_Interval
<1>3. IsFiniteSet(T) /\ Cardinality(T) = Cardinality(1 .. n)
  <2> HIDE DEF T, g
  <2> QED
    BY <1>1, <1>2, FS_Surjection
<1> QED
  BY <1>2, <1>3 DEF TasksOf

-----------------------------------------------------------------------------
\* The types.

LEMMA InitTypes ==
    ASSUME YanghuiInit
    PROVE  DataInv /\ MailInv
<1>1. path.data = [k \in 1 .. 0 |-> path.data[k]]
  BY DEF YanghuiInit, NoTriangle
<1>2. IsFiniteSet({})
  BY FS_EmptySet
<1>3. DOMAIN NoResults = {}
  BY DEF NoResults
<1>4. ClientTypes
  BY DEF YanghuiInit, ClientTypes
<1>5. PathTypes
  <2>1. /\ DOMAIN path = {"index", "data", "results"} /\ path.index \in Nat
        /\ DOMAIN path.results \subseteq Nat
    BY <1>3 DEF YanghuiInit
  <2>2. \E n \in Nat : /\ path.data = [k \in 1 .. n |-> path.data[k]]
                       /\ \A k \in 1 .. n : IsRow(path.data[k])
    <3>1. \A k \in 1 .. 0 : IsRow(path.data[k])
      OBVIOUS
    <3> WITNESS 0 \in Nat
    <3> QED
      BY <1>1, <3>1
  <2> QED
    BY <2>1, <2>2 DEF PathTypes
<1>6. MinTypes
  BY <1>2, <1>3 DEF YanghuiInit, MinTypes
<1>7. PriorityTypes
  BY DEF YanghuiInit, PriorityTypes
<1>8. TaskTypes /\ MailInv
  BY <1>2 DEF YanghuiInit, TaskTypes, MailInv
<1> QED
  BY <1>4, <1>5, <1>6, <1>7, <1>8 DEF DataInv

\* The types of what a step leaves alone.
LEMMA SameTypes ==
    ASSUME DataInv
    PROVE  /\ UNCHANGED path => PathTypes'
           /\ UNCHANGED getMin => MinTypes'
           /\ UNCHANGED prio => PriorityTypes'
           /\ UNCHANGED <<jobClient, crashes>> => ClientTypes'
           /\ UNCHANGED <<yTasks, aliveActors>> => TaskTypes'
<1>1. UNCHANGED path => PathTypes'
  BY DEF DataInv, PathTypes
<1>2. UNCHANGED getMin => MinTypes'
  BY DEF DataInv, MinTypes
<1>3. UNCHANGED prio => PriorityTypes'
  BY DEF DataInv, PriorityTypes
<1>4. UNCHANGED <<jobClient, crashes>> => ClientTypes'
  BY DEF DataInv, ClientTypes
<1>5. UNCHANGED <<yTasks, aliveActors>> => TaskTypes'
  BY DEF DataInv, TaskTypes
<1> QED
  BY <1>1, <1>2, <1>3, <1>4, <1>5

\* The types with some messages less and one more.
LEMMA OneMore ==
    ASSUME MailInv, UNCHANGED aliveActors, NEW new, yMail' \subseteq yMail \cup {new},
           /\ new[1] \in Pipeline => new[1] \in aliveActors
           /\ new[1] = "balance" /\ new[2] = "row" => IsRow(new[3])
           /\ new[1] = "min" => IsRow(new[3])
    PROVE  MailInv'
BY DEF MailInv

\* The types with some messages less.
LEMMA NoMore ==
    ASSUME MailInv, UNCHANGED aliveActors, yMail' \subseteq yMail
    PROVE  MailInv'
BY DEF MailInv

\* The tasks' types with the tasks of a level more.
LEMMA MoreTasks ==
    ASSUME TaskTypes, UNCHANGED aliveActors, NEW a \in aliveActors, a \in Pipeline,
           NEW l, NEW n \in Nat, NEW f,
           yTasks' = yTasks \cup TasksOf(a, l, n, f)
    PROVE  TaskTypes'
<1>1. IsFiniteSet(TasksOf(a, l, n, f))
  BY TaskSet
<1>2. \A task \in TasksOf(a, l, n, f) : task.to = a /\ task.id \in Nat
  BY DEF TasksOf, Task
<1>3. IsFiniteSet(yTasks')
  BY <1>1, FS_Union DEF TaskTypes
<1> QED
  BY <1>2, <1>3 DEF TaskTypes

\* The tasks' types with one less.
LEMMA OneTaskLess ==
    ASSUME TaskTypes, UNCHANGED aliveActors, NEW task, yTasks' = yTasks \ {task}
    PROVE  TaskTypes'
<1>1. IsFiniteSet(yTasks')
  BY FS_Subset DEF TaskTypes
<1> QED
  BY <1>1 DEF TaskTypes

\* What is not the actors' own: the client, the job actors and the dispatcher.
LEMMA OthersKeepTypes ==
    ASSUME DataInv, MailInv,
           \/ \E t \in Triangles : \E job \in {"standard", "pool", "balance", "priority"} :
                 ClientSends(job, t)
           \/ \E m \in yMail : m[1] = "client" /\ ClientReceives(m[3], m[4])
           \/ ClientTimesOut \/ ClientRestarts \/ YanghuiRuns
           \/ BalanceStarts \/ BalanceForwards \/ BalanceAnswers
           \/ PriorityJobStarts \/ Dispatch \/ Collect \/ PriorityJobAnswers
    PROVE  DataInv' /\ MailInv'
<1>1. UNCHANGED <<path, getMin, prio, crashes, yTasks, aliveActors>>
  BY DEF ClientSends, ClientReceives, ClientTimesOut, ClientRestarts, YanghuiRuns, BalanceStarts,
     BalanceForwards, BalanceAnswers, PriorityJobStarts, Dispatch, Collect, PriorityJobAnswers
<1>2. ClientTypes'
  <2>1. CASE \E t \in Triangles : \E job \in {"standard", "pool", "balance", "priority"} :
                ClientSends(job, t)
    <3>1. PICK t \in Triangles, job \in {"standard", "pool", "balance", "priority"} :
             jobClient' = [jobClient EXCEPT !.triangle = t, !.job = job]
      BY <2>1 DEF ClientSends
    <3> QED
      BY <1>1, <3>1 DEF DataInv, ClientTypes
  <2>2. CASE \E m \in yMail : m[1] = "client" /\ ClientReceives(m[3], m[4])
    <3>1. PICK job \in {"none", "failed"} : jobClient' = [jobClient EXCEPT !.job = job]
      BY <2>2 DEF ClientReceives
    <3> QED
      BY <1>1, <3>1 DEF DataInv, ClientTypes
  <2>3. CASE ClientTimesOut \/ ClientRestarts
    BY <1>1, <2>3 DEF DataInv, ClientTypes, ClientTimesOut, ClientRestarts
  <2>4. CASE \/ YanghuiRuns \/ BalanceStarts \/ BalanceForwards \/ BalanceAnswers
             \/ PriorityJobStarts \/ Dispatch \/ Collect \/ PriorityJobAnswers
    <3>1. UNCHANGED jobClient
      BY <2>4 DEF YanghuiRuns, BalanceStarts, BalanceForwards, BalanceAnswers,
         PriorityJobStarts, Dispatch, Collect, PriorityJobAnswers
    <3> QED
      BY <1>1, <3>1, SameTypes
  <2> QED
    BY <2>1, <2>2, <2>3, <2>4
<1>3. DataInv'
  BY <1>1, <1>2, SameTypes DEF DataInv
<1>4. MailInv'
  <2>1. CASE \E t \in Triangles : \E job \in {"standard", "pool", "balance", "priority"} :
                ClientSends(job, t)
    <3>1. PICK t \in Triangles, job \in {"standard", "pool", "balance", "priority"} :
             yMail' = yMail \cup {<<job, "triangle", t, jobClient.number>>}
      BY <2>1 DEF ClientSends
    <3> QED
      BY <1>1, <3>1, OneMore DEF Pipeline, Priority
  <2>2. CASE \/ \E msg \in yMail : msg[1] = "client" /\ ClientReceives(msg[3], msg[4])
             \/ ClientTimesOut \/ ClientRestarts
    <3>1. yMail' \subseteq yMail
      BY <2>2 DEF ClientReceives, ClientTimesOut, ClientRestarts, Handle
    <3> QED
      BY <1>1, <3>1, NoMore
  <2>3. CASE YanghuiRuns
    <3>1. \E c, value : yMail' \subseteq yMail \cup {<<"client", c, TRUE, value>>}
      BY <2>3 DEF YanghuiRuns, Handle
    <3> QED
      BY <1>1, <3>1, OneMore DEF Pipeline, Priority
  <2>4. CASE BalanceStarts
    <3>1. \E t : yMail' \subseteq yMail \cup To(<<"path", "triangle", t>>)
      BY <2>4 DEF BalanceStarts, Handle
    <3>2. PICK t : yMail' \subseteq yMail \cup To(<<"path", "triangle", t>>)
      BY <3>1
    <3>3. CASE "path" \in aliveActors
      BY <1>1, <3>2, <3>3, OneMore DEF To
    <3>4. CASE "path" \notin aliveActors
      BY <1>1, <3>2, <3>4, NoMore DEF To
    <3> QED
      BY <3>3, <3>4
  <2>5. CASE BalanceForwards
    <3>1. PICK m \in yMail : /\ m[1] = "balance" /\ m[2] = "row"
                             /\ Handle(m, To(<<"min", "numbers", m[3]>>))
      BY <2>5 DEF BalanceForwards
    <3>2. IsRow(m[3])
      BY <3>1 DEF MailInv
    <3>3. CASE "min" \in aliveActors
      <4>1. yMail' \subseteq yMail \cup {<<"min", "numbers", m[3]>>}
        BY <3>1 DEF Handle, To
      <4> QED
        BY <1>1, <3>2, <3>3, <4>1, OneMore DEF Pipeline, Priority
    <3>4. CASE "min" \notin aliveActors
      BY <1>1, <3>1, <3>4, NoMore DEF Handle, To
    <3> QED
      BY <3>3, <3>4
  <2>6. CASE BalanceAnswers
    <3>1. \E c, value : yMail' \subseteq yMail \cup {<<"client", c, TRUE, value>>}
      BY <2>6 DEF BalanceAnswers, Handle
    <3> QED
      BY <1>1, <3>1, OneMore DEF Pipeline, Priority
  <2>7. CASE PriorityJobStarts
    <3>1. \E t : yMail' \subseteq yMail \cup {<<"dispatcher", "triangle", t>>}
      BY <2>7 DEF PriorityJobStarts, Handle
    <3> QED
      BY <1>1, <3>1, OneMore DEF Pipeline, Priority
  <2>8. CASE Dispatch
    <3>1. PICK t : yMail' \subseteq yMail \cup UNION {To(<<p, "triangle", t>>) : p \in Priority}
      BY <2>8 DEF Dispatch, Handle
    <3>2. \A m \in yMail' \ yMail : m[1] \in Priority /\ m[1] \in aliveActors
      BY <3>1 DEF To
    <3> QED
      BY <1>1, <3>2 DEF MailInv, Priority
  <2>9. CASE Collect
    <3>1. PICK m \in yMail :
             LET both == Append(pairs, <<m[3], m[4]>>) IN
             Handle(m, IF Len(both) = 2 THEN {<<"priority", "pairs", both>>} ELSE {})
      BY <2>9 DEF Collect
    <3>2. yMail' \subseteq yMail \cup {<<"priority", "pairs", Append(pairs, <<m[3], m[4]>>)>>}
      BY <3>1 DEF Handle
    <3> QED
      BY <1>1, <3>2, OneMore DEF Pipeline, Priority
  <2>10. CASE PriorityJobAnswers
    <3>1. \E c, right, value : yMail' \subseteq yMail \cup {<<"client", c, right, value>>}
      BY <2>10 DEF PriorityJobAnswers, Handle
    <3> QED
      BY <1>1, <3>1, OneMore DEF Pipeline, Priority
  <2> QED
    BY <2>1, <2>2, <2>3, <2>4, <2>5, <2>6, <2>7, <2>8, <2>9, <2>10
<1> QED
  BY <1>3, <1>4

\* The actors of the load balance job, as they are told to start.
LEMMA PathKeepsTypes ==
    ASSUME DataInv, MailInv, PathStarts
    PROVE  DataInv' /\ MailInv'
<1>1. PICK t \in Triangles :
         /\ Handle(<<"path", "triangle", t>>, To(<<"path", "index", 1>>))
         /\ path' = [path EXCEPT !.data = t,
               !.results = [i \in DOMAIN path.results \cup {1} |->
                               IF i = 1 THEN t[1][1] ELSE path.results[i]]]
  BY DEF PathStarts
<1>2. UNCHANGED <<jobClient, yTasks, getMin, prio, aliveActors, crashes>>
  BY DEF PathStarts
<1>3. /\ DOMAIN path' = {"index", "data", "results"} /\ path'.index = path.index
      /\ path'.data = t /\ DOMAIN path'.results = DOMAIN path.results \cup {1}
  BY <1>1 DEF DataInv, PathTypes
<1>4. PathTypes'
  BY <1>3, TriangleFacts DEF DataInv, PathTypes
<1>5. MailInv'
  <2>1. CASE "path" \in aliveActors
    BY <1>1, <1>2, <2>1, OneMore DEF Handle, To
  <2>2. CASE "path" \notin aliveActors
    BY <1>1, <1>2, <2>2, NoMore DEF Handle, To
  <2> QED
    BY <2>1, <2>2
<1> QED
  BY <1>2, <1>4, <1>5, SameTypes DEF DataInv

\* What a level of the load balance job does, with the values of its tasks as a function.
Row(k) == [j \in DOMAIN path.data[k] |->
              IF j \in DOMAIN path.results THEN path.results[j] ELSE path.data[k][j]]
LevelValues(k) == [j \in 1 .. k + 1 |-> AddTask(Row(k), path.data[k + 1], j)]

LEMMA LevelSteps ==
    ASSUME DataInv, MailInv, PathLevel
    PROVE  \E k \in Nat \ {0} :
              /\ <<"path", "index", k>> \in yMail
              /\ IsRow(Row(k))
              /\ k \in DOMAIN path.data
              /\ path'.data = [path.data EXCEPT ![k] = Row(k)] /\ path'.results = NoResults
              /\ \/ /\ k = Len(path.data)
                    /\ Handle(<<"path", "index", k>>, {<<"balance", "row", Row(k)>>})
                    /\ path'.index = 0 /\ UNCHANGED yTasks
                 \/ /\ k # Len(path.data)
                    /\ Handle(<<"path", "index", k>>, {})
                    /\ path'.index = k
                    /\ yTasks' = yTasks \cup TasksOf("path", k, k + 1, LevelValues(k))
              /\ DOMAIN path' = {"index", "data", "results"}
              /\ UNCHANGED <<jobClient, jobSender, getMin, prio, pairs, aliveActors, crashes, jobs>>
<1>1. PICK k \in DOMAIN path.data :
         IF k = Len(path.data)
         THEN /\ Handle(<<"path", "index", k>>, {<<"balance", "row", Row(k)>>})
              /\ path' = [path EXCEPT !.index = 0, !.data[k] = Row(k), !.results = NoResults]
              /\ UNCHANGED yTasks
         ELSE /\ Handle(<<"path", "index", k>>, {})
              /\ path' = [index |-> k, results |-> NoResults,
                          data |-> [path.data EXCEPT ![k] = Row(k)]]
              /\ yTasks' = yTasks \cup
                   {Task("path", k, j, AddTask(Row(k), path.data[k + 1], j)) : j \in 1 .. k + 1}
  BY DEF PathLevel, Row
<1>2. PICK n \in Nat : /\ path.data = [i \in 1 .. n |-> path.data[i]]
                       /\ \A i \in 1 .. n : IsRow(path.data[i])
  BY DEF DataInv, PathTypes
<1>3. k \in Nat \ {0}
  BY <1>2
<1>4. IsRow(Row(k))
  BY <1>2 DEF IsRow, Row
<1>5. <<"path", "index", k>> \in yMail
  BY <1>1 DEF Handle
<1>6. /\ DOMAIN path' = {"index", "data", "results"}
      /\ path'.results = NoResults /\ path'.data = [path.data EXCEPT ![k] = Row(k)]
      /\ k = Len(path.data) => path'.index = 0
      /\ k # Len(path.data) => path'.index = k
  <2>1. CASE k = Len(path.data)
    <3>1. path' = [path EXCEPT !.index = 0, !.data = [path.data EXCEPT ![k] = Row(k)],
                               !.results = NoResults]
      BY <1>1, <2>1 DEF DataInv, PathTypes
    <3> QED
      BY <2>1, <3>1 DEF DataInv, PathTypes
  <2>2. CASE k # Len(path.data)
    <3>1. path' = [index |-> k, results |-> NoResults, data |-> [path.data EXCEPT ![k] = Row(k)]]
      BY <1>1, <2>2
    <3> QED
      BY <2>2, <3>1
  <2> QED
    BY <2>1, <2>2
<1>7. {Task("path", k, j, AddTask(Row(k), path.data[k + 1], j)) : j \in 1 .. k + 1}
        = TasksOf("path", k, k + 1, LevelValues(k))
  BY DEF TasksOf, LevelValues
<1>8. \/ /\ k = Len(path.data)
         /\ Handle(<<"path", "index", k>>, {<<"balance", "row", Row(k)>>})
         /\ path'.index = 0 /\ UNCHANGED yTasks
      \/ /\ k # Len(path.data)
         /\ Handle(<<"path", "index", k>>, {})
         /\ path'.index = k
         /\ yTasks' = yTasks \cup TasksOf("path", k, k + 1, LevelValues(k))
  BY <1>1, <1>6, <1>7
<1>9. UNCHANGED <<jobClient, jobSender, getMin, prio, pairs, aliveActors, crashes, jobs>>
  BY DEF PathLevel
<1> QED
  BY <1>3, <1>4, <1>5, <1>6, <1>8, <1>9

LEMMA LevelKeepsTypes ==
    ASSUME DataInv, MailInv, PathLevel
    PROVE  DataInv' /\ MailInv'
<1>1. PICK k \in Nat \ {0} :
         /\ <<"path", "index", k>> \in yMail
         /\ IsRow(Row(k))
         /\ k \in DOMAIN path.data
         /\ path'.data = [path.data EXCEPT ![k] = Row(k)] /\ path'.results = NoResults
         /\ \/ /\ Handle(<<"path", "index", k>>, {<<"balance", "row", Row(k)>>})
               /\ path'.index = 0 /\ UNCHANGED yTasks
            \/ /\ Handle(<<"path", "index", k>>, {})
               /\ path'.index = k
               /\ yTasks' = yTasks \cup TasksOf("path", k, k + 1, LevelValues(k))
         /\ DOMAIN path' = {"index", "data", "results"}
         /\ UNCHANGED <<jobClient, jobSender, getMin, prio, pairs, aliveActors, crashes, jobs>>
  BY LevelSteps
<1>2. PICK n \in Nat : /\ path.data = [i \in 1 .. n |-> path.data[i]]
                       /\ \A i \in 1 .. n : IsRow(path.data[i])
  BY DEF DataInv, PathTypes
<1>3. "path" \in aliveActors /\ "path" \in Pipeline
  BY <1>1 DEF MailInv, Pipeline
<1>4. PathTypes'
  <2>1. DOMAIN NoResults = {} /\ path'.index \in Nat
    BY <1>1 DEF NoResults
  <2>2. /\ path'.data = [i \in 1 .. n |-> path'.data[i]]
        /\ \A i \in 1 .. n : IsRow(path'.data[i])
    BY <1>1, <1>2
  <2> QED
    BY <1>1, <2>1, <2>2 DEF PathTypes
<1>5. TaskTypes'
  <2>1. CASE UNCHANGED yTasks
    BY <1>1, <2>1, SameTypes
  <2>2. CASE yTasks' = yTasks \cup TasksOf("path", k, k + 1, LevelValues(k))
    BY <1>1, <1>3, <2>2, MoreTasks DEF DataInv
  <2> QED
    BY <1>1, <2>1, <2>2
<1>6. MailInv'
  <2>1. yMail' \subseteq yMail \cup {<<"balance", "row", Row(k)>>}
    BY <1>1 DEF Handle
  <2> QED
    BY <1>1, <2>1, OneMore DEF Pipeline, Priority
<1> QED
  BY <1>1, <1>4, <1>5, <1>6, SameTypes DEF DataInv

\* What the comparisons of the load balance job do.
ChunkValues(row) == [i \in 1 .. Chunks(row) |-> Least(Chunk(row, i))]

LEMMA MinSteps ==
    ASSUME MailInv, MinNumbers
    PROVE  \E m \in yMail :
              /\ m[1] = "min" /\ IsRow(m[3])
              /\ \/ /\ Len(m[3]) = 1
                    /\ Handle(m, {<<"balance", "result", m[3][1]>>})
                    /\ getMin' = [count |-> 0, results |-> NoResults]
                    /\ UNCHANGED yTasks
                 \/ /\ Handle(m, {})
                    /\ getMin' = [count |-> Chunks(m[3]), results |-> NoResults]
                    /\ yTasks' = yTasks \cup TasksOf("min", 0, Chunks(m[3]), ChunkValues(m[3]))
              /\ UNCHANGED <<jobClient, jobSender, path, prio, pairs, aliveActors, crashes, jobs>>
<1>1. PICK m \in yMail :
         /\ m[1] = "min"
         /\ IF Len(m[3]) = 1
            THEN /\ Handle(m, {<<"balance", "result", m[3][1]>>})
                 /\ getMin' = [count |-> 0, results |-> NoResults]
                 /\ UNCHANGED yTasks
            ELSE /\ Handle(m, {})
                 /\ getMin' = [count |-> Chunks(m[3]), results |-> NoResults]
                 /\ yTasks' = yTasks \cup
                      {Task("min", 0, i, Least(Chunk(m[3], i))) : i \in 1 .. Chunks(m[3])}
         /\ UNCHANGED <<jobClient, jobSender, path, prio, pairs, aliveActors, crashes, jobs>>
  BY DEF MinNumbers
<1>2. {Task("min", 0, i, Least(Chunk(m[3], i))) : i \in 1 .. Chunks(m[3])}
        = TasksOf("min", 0, Chunks(m[3]), ChunkValues(m[3]))
  BY DEF TasksOf, ChunkValues
<1>3. IsRow(m[3])
  BY <1>1 DEF MailInv
<1> QED
  BY <1>1, <1>2, <1>3

LEMMA MinKeepsTypes ==
    ASSUME DataInv, MailInv, MinNumbers
    PROVE  DataInv' /\ MailInv'
<1>1. PICK m \in yMail :
         /\ m[1] = "min" /\ IsRow(m[3])
         /\ \/ /\ Handle(m, {<<"balance", "result", m[3][1]>>})
               /\ getMin' = [count |-> 0, results |-> NoResults]
               /\ UNCHANGED yTasks
            \/ /\ Handle(m, {})
               /\ getMin' = [count |-> Chunks(m[3]), results |-> NoResults]
               /\ yTasks' = yTasks \cup TasksOf("min", 0, Chunks(m[3]), ChunkValues(m[3]))
         /\ UNCHANGED <<jobClient, jobSender, path, prio, pairs, aliveActors, crashes, jobs>>
  BY MinSteps
<1>2. "min" \in aliveActors /\ "min" \in Pipeline /\ Chunks(m[3]) \in Nat
  BY <1>1, SomeChunks DEF MailInv, Pipeline
<1>3. TaskTypes'
  <2>1. CASE UNCHANGED yTasks
    BY <1>1, <2>1, SameTypes
  <2>2. CASE yTasks' = yTasks \cup TasksOf("min", 0, Chunks(m[3]), ChunkValues(m[3]))
    BY <1>1, <1>2, <2>2, MoreTasks DEF DataInv
  <2> QED
    BY <1>1, <2>1, <2>2
<1>4. MinTypes'
  <2>1. DOMAIN NoResults = {} /\ IsFiniteSet({})
    BY FS_EmptySet DEF NoResults
  <2>2. DOMAIN getMin' = {"count", "results"} /\ getMin'.count \in Nat /\ getMin'.results = NoResults
    BY <1>1, <1>2
  <2> QED
    BY <2>1, <2>2 DEF MinTypes
<1>5. MailInv'
  <2>1. yMail' \subseteq yMail \cup {<<"balance", "result", m[3][1]>>}
    BY <1>1 DEF Handle
  <2> QED
    BY <1>1, <2>1, OneMore DEF Pipeline, Priority
<1> QED
  BY <1>1, <1>3, <1>4, <1>5, SameTypes DEF DataInv

\* What a result does to the state of an actor of the priority job.
LEMMA GivenState ==
    ASSUME NEW state, DOMAIN state = {"level", "count", "data", "last"}, state.count \in Nat, NEW task
    PROVE  /\ DOMAIN Given(state, task) = {"level", "count", "data", "last"}
           /\ Given(state, task).level = state.level /\ Given(state, task).data = state.data
           /\ Given(state, task).count = state.count + 1
           /\ Given(state, task).last = [state.last EXCEPT ![task.id] = task.value]
BY DEF Given

LEMMA NextLevelState ==
    ASSUME NEW state, DOMAIN state = {"level", "count", "data", "last"}, NEW l \in Nat
    PROVE  /\ DOMAIN NextLevel(state, l) = {"level", "count", "data", "last"}
           /\ NextLevel(state, l).level = l /\ NextLevel(state, l).data = state.data
           /\ NextLevel(state, l).count = 0 /\ NextLevel(state, l).last = state.last
BY DEF NextLevel

\* What the result of a level's task does.
LEMMA ResultSteps ==
    ASSUME DataInv, NEW p \in Priority, NEW task \in yTasks, PriorityResult(p, task)
    PROVE  /\ prio' = [prio EXCEPT ![p] = prio'[p]]
           /\ DOMAIN prio'[p] = {"level", "count", "data", "last"} /\ prio'[p].data = prio[p].data
           /\ prio'[p].last = [prio[p].last EXCEPT ![task.id] = task.value]
           /\ \/ /\ prio[p].level # prio[p].count /\ yMail' = yMail
                 /\ prio'[p].level = prio[p].level /\ prio'[p].count = prio[p].count + 1
              \/ /\ prio[p].level = prio[p].count /\ prio'[p].count = 0
                 /\ \/ /\ prio[p].level = Len(prio[p].data) - 1
                       /\ prio'[p].level = 1 /\ yMail' = yMail \cup {<<p, "end">>}
                    \/ /\ prio[p].level # Len(prio[p].data) - 1
                       /\ prio'[p].level = prio[p].level + 1 /\ yMail' = yMail \cup {<<p, "start">>}
           /\ task.to = p /\ task.level # 0 /\ ~Awaits(p) /\ yTasks' = yTasks \ {task}
           /\ UNCHANGED <<jobClient, jobSender, path, getMin, pairs, aliveActors, crashes, jobs>>
<1> DEFINE state == Given(prio[p], task)
           ends == state.level = state.count - 1
           last == state.level = Len(state.data) - 1
           next == IF ~ends THEN state ELSE NextLevel(state, IF last THEN 1 ELSE state.level + 1)
<1>1. /\ prio' = [prio EXCEPT ![p] = next]
      /\ yMail' = IF ~ends THEN yMail ELSE yMail \cup {<<p, IF last THEN "end" ELSE "start">>}
      /\ task.to = p /\ task.level # 0 /\ ~Awaits(p) /\ yTasks' = yTasks \ {task}
      /\ UNCHANGED <<jobClient, jobSender, path, getMin, pairs, aliveActors, crashes, jobs>>
  BY DEF PriorityResult
<1>2. /\ prio = [q \in Priority |-> prio[q]]
      /\ DOMAIN prio[p] = {"level", "count", "data", "last"}
      /\ prio[p].level \in Nat /\ prio[p].count \in Nat
  BY DEF DataInv, PriorityTypes
<1>3. /\ DOMAIN state = {"level", "count", "data", "last"}
      /\ state.level = prio[p].level /\ state.data = prio[p].data /\ state.count = prio[p].count + 1
      /\ state.last = [prio[p].last EXCEPT ![task.id] = task.value]
  BY <1>2, GivenState
<1>4. prio'[p] = next /\ prio' = [prio EXCEPT ![p] = prio'[p]]
  <2> HIDE DEF next
  <2> QED
    BY <1>1, <1>2
<1>5. ends <=> prio[p].level = prio[p].count
  BY <1>2, <1>3
<1>6. last <=> prio[p].level = Len(prio[p].data) - 1
  BY <1>3
<1> HIDE DEF state, ends, last
<1>7. CASE ~ends
  BY <1>1, <1>2, <1>3, <1>4, <1>5, <1>7
<1>8. CASE ends /\ last
  <2>1. next = NextLevel(state, 1)
    BY <1>8
  <2>2. yMail' = yMail \cup {<<p, "end">>}
    BY <1>1, <1>8
  <2> QED
    BY <1>1, <1>2, <1>3, <1>4, <1>5, <1>6, <1>8, <2>1, <2>2, NextLevelState
<1>9. CASE ends /\ ~last
  <2>1. next = NextLevel(state, prio[p].level + 1)
    BY <1>3, <1>9
  <2>2. yMail' = yMail \cup {<<p, "start">>}
    BY <1>1, <1>9
  <2> QED
    BY <1>1, <1>2, <1>3, <1>4, <1>5, <1>6, <1>9, <2>1, <2>2, NextLevelState
<1> QED
  BY <1>7, <1>8, <1>9

\* The results of the workers.
LEMMA ResultsKeepTypes ==
    ASSUME DataInv, MailInv, NEW task \in yTasks,
           PathResult(task) \/ MinResult(task)
    PROVE  DataInv' /\ MailInv'
<1>1. task.id \in Nat /\ UNCHANGED aliveActors /\ yTasks' = yTasks \ {task}
  BY DEF DataInv, TaskTypes, PathResult, MinResult
<1>2. TaskTypes'
  BY <1>1, OneTaskLess DEF DataInv
<1>3. CASE PathResult(task)
  <2>1. path' = [path EXCEPT !.results = Emplace(path.results, task)]
    BY <1>3 DEF PathResult
  <2>2. DOMAIN Emplace(path.results, task) = DOMAIN path.results \cup {task.id}
    BY DEF Emplace
  <2>3. /\ DOMAIN path' = {"index", "data", "results"} /\ path'.index = path.index
        /\ path'.data = path.data /\ path'.results = Emplace(path.results, task)
    BY <2>1 DEF DataInv, PathTypes
  <2>4. PathTypes'
    BY <1>1, <2>2, <2>3 DEF DataInv, PathTypes
  <2>5. MailInv'
    <3>1. yMail' \subseteq yMail \cup To(<<"path", "index", path.index + 1>>)
      BY <1>3 DEF PathResult
    <3>2. CASE "path" \in aliveActors
      BY <1>1, <3>1, <3>2, OneMore DEF To
    <3>3. CASE "path" \notin aliveActors
      BY <1>1, <3>1, <3>3, NoMore DEF To
    <3> QED
      BY <3>2, <3>3
  <2>6. UNCHANGED <<jobClient, getMin, prio, crashes>>
    BY <1>3 DEF PathResult
  <2> QED
    BY <1>2, <2>4, <2>5, <2>6, SameTypes DEF DataInv
<1>4. CASE MinResult(task)
  <2> DEFINE results == Emplace(getMin.results, task)
             row == [i \in 1 .. getMin.count |-> results[i]]
  <2>1. /\ getMin' = [getMin EXCEPT !.results = results]
        /\ yMail' = IF Cardinality(DOMAIN results) = getMin.count
                    THEN yMail \cup To(<<"min", "numbers", row>>) ELSE yMail
    BY <1>4 DEF MinResult
  <2>2. DOMAIN results = DOMAIN getMin.results \cup {task.id}
    BY DEF Emplace
  <2> HIDE DEF results
  <2>3. /\ DOMAIN getMin' = {"count", "results"} /\ getMin'.count = getMin.count
        /\ getMin'.results = results
    BY <2>1 DEF DataInv, MinTypes
  <2>4. MinTypes' /\ IsFiniteSet(DOMAIN results)
    <3>1. IsFiniteSet(DOMAIN results)
      BY <2>2, FS_AddElement DEF DataInv, MinTypes
    <3> QED
      BY <1>1, <2>2, <2>3, <3>1 DEF DataInv, MinTypes
  <2>5. MailInv'
    <3>1. CASE yMail' = yMail
      BY <1>1, <3>1, NoMore
    <3>2. CASE yMail' # yMail
      <4>1. Cardinality(DOMAIN results) = getMin.count /\ getMin.count \in Nat
        BY <2>1, <3>2 DEF DataInv, MinTypes
      <4>2. "min" \in aliveActors /\ yMail' = yMail \cup {<<"min", "numbers", row>>}
        BY <2>1, <3>2 DEF To
      <4>3. getMin.count # 0
        BY <2>2, <2>4, <4>1, FS_EmptySet
      <4>4. IsRow(row)
        BY <4>1, <4>3 DEF IsRow
      <4> HIDE DEF row
      <4> QED
        BY <1>1, <4>2, <4>4, OneMore
    <3> QED
      BY <3>1, <3>2
  <2>6. UNCHANGED <<jobClient, path, prio, crashes>>
    BY <1>4 DEF MinResult
  <2> QED
    BY <1>2, <2>4, <2>5, <2>6, SameTypes DEF DataInv
<1> QED
  BY <1>3, <1>4

\* The actors of the priority job.
LEMMA PriorityKeepsTypes ==
    ASSUME DataInv, MailInv, NEW p \in Priority,
           PriorityTakes(p) \/ PriorityLevel(p) \/ PriorityEnds(p)
    PROVE  DataInv' /\ MailInv'
<1>1. p \in Pipeline /\ UNCHANGED <<jobClient, path, getMin, crashes, aliveActors>>
  BY DEF PriorityTakes, PriorityLevel, PriorityEnds, Pipeline
<1>2. CASE PriorityTakes(p)
  <2>1. PICK t \in Triangles :
           /\ Handle(<<p, "triangle", t>>, {<<p, "start">>})
           /\ prio' = [prio EXCEPT ![p].data = t,
                           ![p].last = [j \in DOMAIN t |-> IF j = 1 THEN t[1][1] ELSE 0]]
    BY <1>2 DEF PriorityTakes
  <2>2. p \in aliveActors
    BY <1>1, <2>1 DEF Handle, MailInv
  <2>3. MailInv'
    <3>1. yMail' \subseteq yMail \cup {<<p, "start">>}
      BY <2>1 DEF Handle
    <3> QED
      BY <1>1, <2>2, <3>1, OneMore DEF Priority
  <2>4. PriorityTypes'
    <3> DEFINE first == [j \in DOMAIN t |-> IF j = 1 THEN t[1][1] ELSE 0]
               new == [[prio[p] EXCEPT !.data = t] EXCEPT !.last = first]
    <3>1. prio' = [prio EXCEPT ![p] = new]
      <4> HIDE DEF first
      <4> QED
        BY <2>1 DEF DataInv, PriorityTypes, first
    <3>2. /\ DOMAIN new = {"level", "count", "data", "last"} /\ new.level = prio[p].level
          /\ new.count = prio[p].count /\ new.data = t
      BY DEF DataInv, PriorityTypes
    <3> HIDE DEF new
    <3> QED
      BY <3>1, <3>2 DEF DataInv, PriorityTypes
  <2>5. UNCHANGED yTasks
    BY <1>2 DEF PriorityTakes
  <2> QED
    BY <1>1, <2>3, <2>4, <2>5, SameTypes DEF DataInv
<1>3. CASE PriorityLevel(p)
  <2> DEFINE f == [j \in 1 .. prio[p].level + 1 |->
                      AddTask(prio[p].last, prio[p].data[prio[p].level + 1], j)]
             n == prio[p].level + 1
  <2>1. /\ Handle(<<p, "start">>, {})
        /\ yTasks' = yTasks \cup TasksOf(p, prio[p].level, n, f)
    BY <1>3 DEF PriorityLevel, TasksOf
  <2>2. p \in aliveActors /\ yMail' \subseteq yMail
    BY <1>1, <2>1 DEF Handle, MailInv
  <2>3. n \in Nat
    BY DEF DataInv, PriorityTypes
  <2> HIDE DEF n, f
  <2>4. TaskTypes'
    BY <1>1, <2>1, <2>2, <2>3, MoreTasks DEF DataInv
  <2>5. UNCHANGED prio
    BY <1>3 DEF PriorityLevel
  <2> QED
    BY <1>1, <2>2, <2>4, <2>5, SameTypes, NoMore DEF DataInv
<1>4. CASE PriorityEnds(p)
  <2>1. p \in aliveActors /\ yMail' \subseteq yMail
    BY <1>1, <1>4 DEF PriorityEnds, Handle, MailInv
  <2>2. TaskTypes'
    <3> DEFINE new == Task(p, 0, 0, Least(prio[p].last))
    <3>1. yTasks' = yTasks \cup {new}
      BY <1>4 DEF PriorityEnds
    <3>2. new.to = p /\ new.id = 0
      BY DEF Task
    <3> HIDE DEF new
    <3>3. IsFiniteSet(yTasks')
      BY <3>1, FS_AddElement DEF DataInv, TaskTypes
    <3> QED
      BY <1>1, <2>1, <3>1, <3>2, <3>3 DEF DataInv, TaskTypes
  <2>3. UNCHANGED prio
    BY <1>4 DEF PriorityEnds
  <2> QED
    BY <1>1, <2>1, <2>2, <2>3, SameTypes, NoMore DEF DataInv
<1> QED
  BY <1>2, <1>3, <1>4

LEMMA PriorityResultsKeepTypes ==
    ASSUME DataInv, MailInv, NEW p \in Priority, NEW task \in yTasks,
           PriorityResult(p, task) \/ PriorityAnswers(p, task)
    PROVE  DataInv' /\ MailInv'
<1>1. /\ p \in Pipeline /\ p \in aliveActors /\ yTasks' = yTasks \ {task}
      /\ UNCHANGED <<jobClient, path, getMin, crashes, aliveActors>>
  BY DEF PriorityResult, PriorityAnswers, Pipeline, DataInv, TaskTypes
<1>2. TaskTypes'
  BY <1>1, OneTaskLess DEF DataInv
<1>3. CASE PriorityResult(p, task)
  <2>1. /\ prio' = [prio EXCEPT ![p] = prio'[p]]
        /\ DOMAIN prio'[p] = {"level", "count", "data", "last"} /\ prio'[p].data = prio[p].data
        /\ \/ prio'[p].level = prio[p].level /\ prio'[p].count = prio[p].count + 1
           \/ prio'[p].level \in {1, prio[p].level + 1} /\ prio'[p].count = 0
    BY <1>3, ResultSteps
  <2>2. PriorityTypes'
    BY <2>1 DEF DataInv, PriorityTypes
  <2>3. MailInv'
    <3>1. PICK kind : yMail' \subseteq yMail \cup {<<p, kind>>}
      BY <1>3, ResultSteps
    <3> QED
      BY <1>1, <3>1, OneMore DEF Priority
  <2> QED
    BY <1>1, <1>2, <2>2, <2>3, SameTypes DEF DataInv
<1>4. CASE PriorityAnswers(p, task)
  <2>1. UNCHANGED prio /\ yMail' \subseteq yMail \cup {<<"dispatcher", "result", p, task.value>>}
    BY <1>4 DEF PriorityAnswers
  <2>2. MailInv'
    BY <1>1, <2>1, OneMore DEF Pipeline, Priority
  <2> QED
    BY <1>1, <1>2, <2>1, <2>2, SameTypes DEF DataInv
<1> QED
  BY <1>3, <1>4

\* A crash only takes tasks, messages and actors away.
LEMMA CrashKeepsTypes ==
    ASSUME DataInv, MailInv, WorkerCrashes
    PROVE  DataInv' /\ MailInv'
<1>1. /\ yTasks' \subseteq yTasks /\ \A task \in yTasks' : task.to \in aliveActors'
      /\ yMail' \subseteq yMail /\ \A m \in yMail' : m[1] \in Pipeline => m[1] \in aliveActors'
      /\ crashes' = crashes + 1 /\ UNCHANGED <<jobClient, path, getMin, prio>>
  BY DEF WorkerCrashes
<1>2. TaskTypes'
  BY <1>1, FS_Subset DEF DataInv, TaskTypes
<1>3. MailInv'
  BY <1>1 DEF MailInv
<1>4. ClientTypes'
  BY <1>1 DEF DataInv, ClientTypes
<1> QED
  BY <1>1, <1>2, <1>3, <1>4, SameTypes DEF DataInv

LEMMA TypesKept ==
    ASSUME DataInv, MailInv, [YanghuiNext]_yanghuiVars
    PROVE  DataInv' /\ MailInv'
<1>1. CASE \/ \E t \in Triangles : \E job \in {"standard", "pool", "balance", "priority"} :
                 ClientSends(job, t)
           \/ \E m \in yMail : m[1] = "client" /\ ClientReceives(m[3], m[4])
           \/ ClientTimesOut \/ ClientRestarts \/ YanghuiRuns
           \/ BalanceStarts \/ BalanceForwards \/ BalanceAnswers
           \/ PriorityJobStarts \/ Dispatch \/ Collect \/ PriorityJobAnswers
  BY <1>1, OthersKeepTypes
<1>2. CASE PathStarts \/ PathLevel \/ MinNumbers
  BY <1>2, PathKeepsTypes, LevelKeepsTypes, MinKeepsTypes
<1>3. CASE \E p \in Priority : PriorityTakes(p) \/ PriorityLevel(p) \/ PriorityEnds(p)
  BY <1>3, PriorityKeepsTypes
<1>4. CASE \E task \in yTasks : PathResult(task) \/ MinResult(task)
  BY <1>4, ResultsKeepTypes
<1>5. CASE \E task \in yTasks : \E p \in Priority : PriorityResult(p, task) \/ PriorityAnswers(p, task)
  BY <1>5, PriorityResultsKeepTypes
<1>6. CASE WorkerCrashes
  BY <1>6, CrashKeepsTypes
<1>7. CASE UNCHANGED yanghuiVars
  BY <1>7, SameTypes, NoMore DEF yanghuiVars, DataInv
<1> QED
  BY <1>1, <1>2, <1>3, <1>4, <1>5, <1>6, <1>7 DEF YanghuiNext

-----------------------------------------------------------------------------
\* Where the job is: who has a message or a task when something happens.

LEMMA Steps ==
    ASSUME YanghuiNext
    PROVE  \/ \E t \in Triangles : \E job \in {"standard", "pool", "balance", "priority"} :
                 ClientSends(job, t)
           \/ \E m \in yMail : m[1] = "client" /\ ClientReceives(m[3], m[4])
           \/ ClientTimesOut \/ ClientRestarts
           \/ (\E m \in yMail : m[1] \in {"standard", "pool"}) /\ YanghuiRuns
           \/ (\E m \in yMail : m[1] = "balance")
              /\ (BalanceStarts \/ BalanceForwards \/ BalanceAnswers)
           \/ (\E m \in yMail : m[1] = "path") /\ (PathStarts \/ PathLevel)
           \/ (\E m \in yMail : m[1] = "min") /\ MinNumbers
           \/ (\E m \in yMail : m[1] = "priority") /\ (PriorityJobStarts \/ PriorityJobAnswers)
           \/ (\E m \in yMail : m[1] = "dispatcher") /\ (Dispatch \/ Collect)
           \/ \E p \in Priority : (\E m \in yMail : m[1] = p)
                                  /\ (PriorityTakes(p) \/ PriorityLevel(p) \/ PriorityEnds(p))
           \/ \E task \in yTasks :
                 \/ task.to = "path" /\ PathResult(task)
                 \/ task.to = "min" /\ MinResult(task)
                 \/ \E p \in Priority :
                       task.to = p /\ (PriorityResult(p, task) \/ PriorityAnswers(p, task))
           \/ WorkerCrashes
<1>1. YanghuiRuns => \E m \in yMail : m[1] \in {"standard", "pool"}
  BY DEF YanghuiRuns, Handle
<1>2. BalanceStarts \/ BalanceForwards \/ BalanceAnswers => \E m \in yMail : m[1] = "balance"
  BY DEF BalanceStarts, BalanceForwards, BalanceAnswers, Handle
<1>3. PathStarts \/ PathLevel => \E m \in yMail : m[1] = "path"
  <2>1. CASE PathStarts
    BY <2>1 DEF PathStarts, Handle
  <2>2. CASE PathLevel
    <3>1. \E k : <<"path", "index", k>> \in yMail
      BY <2>2 DEF PathLevel, Handle
    <3> QED
      BY <3>1
  <2> QED
    BY <2>1, <2>2
<1>4. MinNumbers => \E m \in yMail : m[1] = "min"
  BY DEF MinNumbers
<1>5. PriorityJobStarts \/ PriorityJobAnswers => \E m \in yMail : m[1] = "priority"
  BY DEF PriorityJobStarts, PriorityJobAnswers, Handle
<1>6. Dispatch \/ Collect => \E m \in yMail : m[1] = "dispatcher"
  BY DEF Dispatch, Collect, Handle
<1>7. ASSUME NEW p \in Priority, PriorityTakes(p) \/ PriorityLevel(p) \/ PriorityEnds(p)
      PROVE  \E m \in yMail : m[1] = p
  BY <1>7 DEF PriorityTakes, PriorityLevel, PriorityEnds, Handle
<1>8. ASSUME NEW task \in yTasks
      PROVE  /\ PathResult(task) => task.to = "path"
             /\ MinResult(task) => task.to = "min"
             /\ \A p \in Priority : PriorityResult(p, task) \/ PriorityAnswers(p, task) => task.to = p
  BY DEF PathResult, MinResult, PriorityResult, PriorityAnswers
<1> QED
  BY <1>1, <1>2, <1>3, <1>4, <1>5, <1>6, <1>7, <1>8 DEF YanghuiNext

\* Between two jobs.
LEMMA NoJobSteps ==
    ASSUME DataInv, jobClient.job \in {"none", "failed"}, yMail = {}, yTasks = {}, Calm,
           YanghuiNext, ~WorkerCrashes
    PROVE  JobInv'
<1>1. CASE \E t \in Triangles : \E job \in {"standard", "pool", "balance", "priority"} :
              ClientSends(job, t)
  <2>1. PICK t \in Triangles, job \in {"standard", "pool", "balance", "priority"} :
           ClientSends(job, t)
    BY <1>1
  <2>2. /\ jobClient'.job = job /\ yTasks' = {} /\ UNCHANGED <<prio, pairs>>
        /\ yMail' = {<<job, "triangle", t, jobClient.number>>}
    BY <2>1 DEF ClientSends, DataInv, ClientTypes
  <2>3. Calm'
    BY <2>2 DEF Calm, Rested
  <2>4. \E m : /\ yMail' = {m} /\ m[1] = job /\ m[2] = "triangle"
    <3> DEFINE m == <<job, "triangle", t, jobClient.number>>
    <3>1. m[1] = job /\ m[2] = "triangle" /\ yMail' = {m}
      BY <2>2
    <3> HIDE DEF m
    <3> QED
      BY <3>1
  <2>5. CASE job \in {"standard", "pool"}
    BY <2>2, <2>3, <2>4, <2>5 DEF JobInv, OneMail
  <2>6. CASE job = "balance"
    BY <2>2, <2>3, <2>4, <2>6 DEF JobInv, OneMail, BalanceInv
  <2>7. CASE job = "priority"
    <3>1. OneMail({"priority", "dispatcher", "client"})'
      BY <2>2, <2>4, <2>7 DEF OneMail
    <3>2. \A m \in yMail' : m[1] = "dispatcher" => m[2] = "triangle"
      BY <2>4
    <3> QED
      BY <2>2, <2>3, <2>7, <3>1, <3>2 DEF JobInv, PriorityInv
  <2> QED
    BY <2>5, <2>6, <2>7
<1>2. CASE ClientTimesOut \/ ClientRestarts
  <2>1. jobClient'.job = "none" /\ yTasks' = {} /\ yMail' = {} /\ UNCHANGED <<prio, pairs>>
    BY <1>2 DEF ClientTimesOut, ClientRestarts
  <2>2. Calm'
    BY <2>1 DEF Calm, Rested
  <2> QED
    BY <2>1, <2>2 DEF JobInv
<1> QED
  BY <1>1, <1>2, Steps

\* A client that gets its answer, and one message to one actor that is handled.
LEMMA ClientGets ==
    ASSUME DataInv, Calm, yTasks = {}, NEW m, yMail = {m}, m[1] = "client", ClientReceives(m[3], m[4])
    PROVE  JobInv'
<1>1. PICK job \in {"none", "failed"} : jobClient' = [jobClient EXCEPT !.job = job]
  BY DEF ClientReceives
<1>2. jobClient'.job = job
  BY <1>1 DEF DataInv, ClientTypes
<1>3. /\ <<"client", jobClient.number, m[3], m[4]>> \in yMail
      /\ yMail' = yMail \ {<<"client", jobClient.number, m[3], m[4]>>}
      /\ UNCHANGED <<yTasks, prio, pairs>>
  BY DEF ClientReceives, Handle
<1>4. yMail' = {}
  BY <1>3
<1>5. Calm'
  BY <1>3 DEF Calm, Rested
<1> QED
  BY <1>2, <1>3, <1>4, <1>5 DEF JobInv

\* The jobs of one actor.
LEMMA OneActorSteps ==
    ASSUME DataInv, jobClient.job \in {"standard", "pool"}, OneMail({jobClient.job, "client"}), Calm,
           YanghuiNext, ~WorkerCrashes
    PROVE  JobInv'
<1>1. PICK m : yMail = {m} /\ m[1] \in {jobClient.job, "client"} /\ yTasks = {}
  BY DEF OneMail
<1>2. CASE \E msg \in yMail : msg[1] = "client" /\ ClientReceives(msg[3], msg[4])
  BY <1>1, <1>2, ClientGets
<1>3. CASE YanghuiRuns
  <2>1. PICK t, c, job, value :
           /\ Handle(<<job, "triangle", t, c>>, {<<"client", c, TRUE, value>>})
           /\ UNCHANGED <<jobClient, yTasks, prio, pairs>>
    BY <1>3 DEF YanghuiRuns
  <2>2. yMail' = {<<"client", c, TRUE, value>>}
    BY <1>1, <2>1 DEF Handle
  <2>3. Calm'
    BY <2>1 DEF Calm, Rested
  <2>4. \E x : yMail' = {x} /\ x[1] = "client"
    <3> DEFINE x == <<"client", c, TRUE, value>>
    <3>1. x[1] = "client" /\ yMail' = {x}
      BY <2>2
    <3> HIDE DEF x
    <3> QED
      BY <3>1
  <2> QED
    BY <1>1, <2>1, <2>3, <2>4 DEF JobInv, OneMail
<1>4. ~(\E t \in Triangles : \E job \in {"standard", "pool", "balance", "priority"} :
           ClientSends(job, t))
  BY DEF ClientSends
<1>5. ~ClientTimesOut /\ ~ClientRestarts
  BY <1>1 DEF ClientTimesOut, ClientRestarts
<1> QED
  BY <1>1, <1>2, <1>3, <1>4, <1>5, Steps DEF Priority

\* The tasks of a level are all awaited as they are given.
LEMMA AllAwaited ==
    ASSUME NEW a, NEW l, NEW n \in Nat \ {0}, NEW f
    PROVE  Awaited(a, NoResults, n, TasksOf(a, l, n, f))
<1>1. DOMAIN NoResults = {}
  BY DEF NoResults
<1>2. \A task \in TasksOf(a, l, n, f) : task.to = a /\ task.id \in 1 .. n
  BY DEF TasksOf, Task
<1>3. \A i \in 1 .. n : Task(a, l, i, f[i]) \in TasksOf(a, l, n, f) /\ Task(a, l, i, f[i]).id = i
  BY DEF TasksOf, Task
<1>4. \A t, u \in TasksOf(a, l, n, f) : t.id = u.id => t = u
  BY DEF TasksOf, Task
<1>5. TasksOf(a, l, n, f) # {}
  BY <1>3
<1> QED
  BY <1>1, <1>2, <1>3, <1>4, <1>5 DEF Awaited

\* A result is one that was missing; with the last one no task is left.
LEMMA OneAwaitedLess ==
    ASSUME NEW a, NEW results, NEW n \in Nat, NEW tasks, Awaited(a, results, n, tasks),
           NEW task \in tasks
    PROVE  IF Cardinality(DOMAIN Emplace(results, task)) = n
           THEN tasks \ {task} = {}
           ELSE Awaited(a, Emplace(results, task), n, tasks \ {task})
<1> DEFINE new == Emplace(results, task)
<1>1. DOMAIN new = DOMAIN results \cup {task.id}
  BY DEF Emplace
<1> HIDE DEF new
<1>2. /\ DOMAIN new \subseteq 1 .. n /\ task.id \in 1 .. n
      /\ \A t \in tasks \ {task} : t.id \in (1 .. n) \ DOMAIN new
  BY <1>1 DEF Awaited
<1>3. IsFiniteSet(1 .. n) /\ Cardinality(1 .. n) = n
  BY FS_Interval
<1>4. CASE Cardinality(DOMAIN new) = n
  <2>1. DOMAIN new = 1 .. n
    BY <1>2, <1>3, <1>4, FS_Subset
  <2>2. tasks \ {task} = {}
    BY <1>2, <2>1
  <2> QED
    BY <1>4, <2>2 DEF new
<1>5. CASE Cardinality(DOMAIN new) # n
  <2>1. PICK i \in (1 .. n) \ DOMAIN new : TRUE
    BY <1>2, <1>3, <1>5
  <2>2. \A j \in (1 .. n) \ DOMAIN new : \E t \in tasks \ {task} : t.id = j
    BY <1>1 DEF Awaited
  <2>3. Awaited(a, new, n, tasks \ {task})
    BY <1>2, <2>1, <2>2 DEF Awaited
  <2> QED
    BY <1>5, <2>3 DEF new
<1> QED
  BY <1>4, <1>5

\* The load balance job.
LEMMA BalanceMailSteps ==
    ASSUME DataInv, MailInv, aliveActors = Pipeline, Calm,
           jobClient.job = "balance", OneMail({"balance", "path", "min", "client"}),
           YanghuiNext, ~WorkerCrashes
    PROVE  JobInv'
<1>1. PICK m : yMail = {m} /\ m[1] \in {"balance", "path", "min", "client"} /\ yTasks = {}
  BY DEF OneMail
<1>2. CASE \E msg \in yMail : msg[1] = "client" /\ ClientReceives(msg[3], msg[4])
  BY <1>1, <1>2, ClientGets
<1>3. CASE BalanceStarts \/ BalanceForwards \/ BalanceAnswers \/ PathStarts \/ PathLevel \/ MinNumbers
  <2>1. UNCHANGED <<jobClient, prio, pairs>>
    BY <1>3 DEF BalanceStarts, BalanceForwards, BalanceAnswers, PathStarts, PathLevel, MinNumbers
  <2>2. Calm'
    BY <2>1 DEF Calm, Rested
  <2>3. SUFFICES BalanceInv'
    BY <2>1, <2>2 DEF JobInv
  <2>4. ASSUME NEW x, yMail' = {x}, x[1] \in {"balance", "path", "min", "client"}, yTasks' = {}
        PROVE  BalanceInv'
    BY <2>4 DEF BalanceInv, OneMail
  <2>5. CASE BalanceStarts
    <3>1. PICK t, c : Handle(<<"balance", "triangle", t, c>>, To(<<"path", "triangle", t>>))
      BY <2>5 DEF BalanceStarts
    <3>2. UNCHANGED yTasks
      BY <2>5 DEF BalanceStarts
    <3>3. To(<<"path", "triangle", t>>) = {<<"path", "triangle", t>>}
      BY DEF To, Pipeline
    <3>4. yMail' = {<<"path", "triangle", t>>}
      BY <1>1, <3>1, <3>3 DEF Handle
    <3> QED
      BY <1>1, <2>4, <3>2, <3>4
  <2>6. CASE BalanceForwards
    <3>1. PICK msg \in yMail : Handle(msg, To(<<"min", "numbers", msg[3]>>))
      BY <2>6 DEF BalanceForwards
    <3>2. UNCHANGED yTasks
      BY <2>6 DEF BalanceForwards
    <3>3. To(<<"min", "numbers", msg[3]>>) = {<<"min", "numbers", msg[3]>>}
      BY DEF To, Pipeline
    <3>4. yMail' = {<<"min", "numbers", msg[3]>>}
      BY <1>1, <3>1, <3>3 DEF Handle
    <3> QED
      BY <1>1, <2>4, <3>2, <3>4
  <2>7. CASE BalanceAnswers
    <3>1. PICK msg \in yMail : Handle(msg, {<<"client", jobSender.balance, TRUE, msg[3]>>})
      BY <2>7 DEF BalanceAnswers
    <3>2. UNCHANGED yTasks
      BY <2>7 DEF BalanceAnswers
    <3>3. yMail' = {<<"client", jobSender.balance, TRUE, msg[3]>>}
      BY <1>1, <3>1 DEF Handle
    <3> QED
      BY <1>1, <2>4, <3>2, <3>3
  <2>8. CASE PathStarts
    <3>1. PICK t : Handle(<<"path", "triangle", t>>, To(<<"path", "index", 1>>))
      BY <2>8 DEF PathStarts
    <3>2. UNCHANGED yTasks
      BY <2>8 DEF PathStarts
    <3>3. To(<<"path", "index", 1>>) = {<<"path", "index", 1>>}
      BY DEF To, Pipeline
    <3>4. yMail' = {<<"path", "index", 1>>}
      BY <1>1, <3>1, <3>3 DEF Handle
    <3> QED
      BY <1>1, <2>4, <3>2, <3>4
  <2>9. CASE PathLevel
    <3>1. PICK k \in Nat \ {0} :
             /\ path'.results = NoResults
             /\ \/ /\ Handle(<<"path", "index", k>>, {<<"balance", "row", Row(k)>>})
                   /\ UNCHANGED yTasks
                \/ /\ Handle(<<"path", "index", k>>, {})
                   /\ path'.index = k
                   /\ yTasks' = yTasks \cup TasksOf("path", k, k + 1, LevelValues(k))
      BY <2>9, LevelSteps
    <3>2. CASE Handle(<<"path", "index", k>>, {<<"balance", "row", Row(k)>>}) /\ UNCHANGED yTasks
      <4>1. yMail' = {<<"balance", "row", Row(k)>>}
        BY <1>1, <3>2 DEF Handle
      <4> QED
        BY <1>1, <2>4, <3>2, <4>1
    <3>3. CASE /\ Handle(<<"path", "index", k>>, {})
               /\ path'.index = k
               /\ yTasks' = yTasks \cup TasksOf("path", k, k + 1, LevelValues(k))
      <4>1. yMail' = {}
        BY <1>1, <3>3 DEF Handle
      <4>2. k + 1 \in Nat \ {0}
        OBVIOUS
      <4>3. yTasks' = TasksOf("path", k, k + 1, LevelValues(k))
        BY <1>1, <3>3
      <4>4. Awaited("path", NoResults, k + 1, yTasks')
        BY <4>2, <4>3, AllAwaited
      <4>5. Awaited("path", path'.results, path'.index + 1, yTasks')
        BY <3>1, <3>3, <4>4
      <4> QED
        BY <4>1, <4>5 DEF BalanceInv
    <3> QED
      BY <3>1, <3>2, <3>3
  <2>10. CASE MinNumbers
    <3>1. PICK msg \in yMail :
             /\ msg[1] = "min" /\ IsRow(msg[3])
             /\ \/ Handle(msg, {<<"balance", "result", msg[3][1]>>}) /\ UNCHANGED yTasks
                \/ /\ Handle(msg, {})
                   /\ getMin' = [count |-> Chunks(msg[3]), results |-> NoResults]
                   /\ yTasks' = yTasks \cup TasksOf("min", 0, Chunks(msg[3]), ChunkValues(msg[3]))
      BY <2>10, MinSteps
    <3>2. CASE Handle(msg, {<<"balance", "result", msg[3][1]>>}) /\ UNCHANGED yTasks
      <4>1. yMail' = {<<"balance", "result", msg[3][1]>>}
        BY <1>1, <3>2 DEF Handle
      <4> QED
        BY <1>1, <2>4, <3>2, <4>1
    <3>3. CASE /\ Handle(msg, {})
               /\ getMin' = [count |-> Chunks(msg[3]), results |-> NoResults]
               /\ yTasks' = yTasks \cup TasksOf("min", 0, Chunks(msg[3]), ChunkValues(msg[3]))
      <4>1. yMail' = {}
        BY <1>1, <3>3 DEF Handle
      <4>2. Chunks(msg[3]) \in Nat \ {0}
        BY <3>1, SomeChunks
      <4>3. yTasks' = TasksOf("min", 0, Chunks(msg[3]), ChunkValues(msg[3]))
        BY <1>1, <3>3
      <4>4. Awaited("min", NoResults, Chunks(msg[3]), yTasks')
        BY <4>2, <4>3, AllAwaited
      <4>5. Awaited("min", getMin'.results, getMin'.count, yTasks')
        BY <3>3, <4>4
      <4> QED
        BY <4>1, <4>5 DEF BalanceInv
    <3> QED
      BY <3>1, <3>2, <3>3
  <2> QED
    BY <1>3, <2>5, <2>6, <2>7, <2>8, <2>9, <2>10
<1>4. ~(\E t \in Triangles : \E job \in {"standard", "pool", "balance", "priority"} :
           ClientSends(job, t))
  BY DEF ClientSends
<1>5. ~ClientTimesOut /\ ~ClientRestarts
  BY <1>1 DEF ClientTimesOut, ClientRestarts
<1> QED
  BY <1>1, <1>2, <1>3, <1>4, <1>5, Steps DEF Priority

LEMMA BalanceResultSteps ==
    ASSUME DataInv, aliveActors = Pipeline, Calm, jobClient.job = "balance", yMail = {},
           \/ Awaited("path", path.results, path.index + 1, yTasks)
           \/ Awaited("min", getMin.results, getMin.count, yTasks),
           YanghuiNext, ~WorkerCrashes
    PROVE  JobInv'
<1>1. yTasks # {} /\ \A task \in yTasks : task.to \in {"path", "min"}
  BY DEF Awaited
<1>2. CASE \E task \in yTasks : task.to = "path" /\ PathResult(task)
  <2>1. PICK task \in yTasks : task.to = "path" /\ PathResult(task)
    BY <1>2
  <2> DEFINE results == Emplace(path.results, task)
  <2>2. Awaited("path", path.results, path.index + 1, yTasks) /\ path.index + 1 \in Nat
    BY <2>1 DEF Awaited, DataInv, PathTypes
  <2>3. IF Cardinality(DOMAIN results) = path.index + 1
        THEN yTasks \ {task} = {}
        ELSE Awaited("path", results, path.index + 1, yTasks \ {task})
    BY <2>2, OneAwaitedLess
  <2> HIDE DEF results
  <2>4. /\ path' = [path EXCEPT !.results = results]
        /\ yTasks' = yTasks \ {task}
        /\ yMail' = IF Cardinality(DOMAIN results) = path.index + 1
                    THEN yMail \cup To(<<"path", "index", path.index + 1>>) ELSE yMail
        /\ UNCHANGED <<jobClient, prio, pairs>>
    BY <2>1 DEF PathResult, results
  <2>5. path'.results = results /\ path'.index = path.index
    BY <2>4 DEF DataInv, PathTypes
  <2>6. BalanceInv'
    <3>1. CASE Cardinality(DOMAIN results) = path.index + 1
      <4> DEFINE x == <<"path", "index", path.index + 1>>
      <4>1. x[1] = "path" /\ To(x) = {x}
        BY DEF To, Pipeline
      <4>2. yMail' = yMail \cup To(x)
        BY <2>4, <3>1
      <4>3. yTasks' = {}
        BY <2>3, <2>4, <3>1
      <4> HIDE DEF x
      <4> QED
        BY <4>1, <4>2, <4>3 DEF BalanceInv, OneMail
    <3>2. CASE Cardinality(DOMAIN results) # path.index + 1
      <4>1. Awaited("path", path'.results, path'.index + 1, yTasks') /\ yMail' = {}
        BY <2>3, <2>4, <2>5, <3>2
      <4> QED
        BY <4>1 DEF BalanceInv
    <3> QED
      BY <3>1, <3>2
  <2>7. Calm'
    BY <2>4 DEF Calm, Rested
  <2> QED
    BY <2>4, <2>6, <2>7 DEF JobInv
<1>3. CASE \E task \in yTasks : task.to = "min" /\ MinResult(task)
  <2>1. PICK task \in yTasks : task.to = "min" /\ MinResult(task)
    BY <1>3
  <2> DEFINE results == Emplace(getMin.results, task)
             row == [i \in 1 .. getMin.count |-> results[i]]
  <2>2. Awaited("min", getMin.results, getMin.count, yTasks) /\ getMin.count \in Nat
    BY <2>1 DEF Awaited, DataInv, MinTypes
  <2>3. IF Cardinality(DOMAIN results) = getMin.count
        THEN yTasks \ {task} = {}
        ELSE Awaited("min", results, getMin.count, yTasks \ {task})
    BY <2>2, OneAwaitedLess
  <2>4. /\ getMin' = [getMin EXCEPT !.results = results]
        /\ yTasks' = yTasks \ {task}
        /\ yMail' = IF Cardinality(DOMAIN results) = getMin.count
                    THEN yMail \cup To(<<"min", "numbers", row>>) ELSE yMail
        /\ UNCHANGED <<jobClient, prio, pairs>>
    BY <2>1 DEF MinResult
  <2> HIDE DEF results, row
  <2>5. getMin'.results = results /\ getMin'.count = getMin.count
    BY <2>4 DEF DataInv, MinTypes
  <2>6. BalanceInv'
    <3>1. CASE Cardinality(DOMAIN results) = getMin.count
      <4> DEFINE x == <<"min", "numbers", row>>
      <4>1. x[1] = "min" /\ To(x) = {x}
        BY DEF To, Pipeline
      <4>2. yMail' = yMail \cup To(x)
        BY <2>4, <3>1
      <4>3. yTasks' = {}
        BY <2>3, <2>4, <3>1
      <4> HIDE DEF x
      <4> QED
        BY <4>1, <4>2, <4>3 DEF BalanceInv, OneMail
    <3>2. CASE Cardinality(DOMAIN results) # getMin.count
      <4>1. Awaited("min", getMin'.results, getMin'.count, yTasks') /\ yMail' = {}
        BY <2>3, <2>4, <2>5, <3>2
      <4> QED
        BY <4>1 DEF BalanceInv
    <3> QED
      BY <3>1, <3>2
  <2>7. Calm'
    BY <2>4 DEF Calm, Rested
  <2> QED
    BY <2>4, <2>6, <2>7 DEF JobInv
<1>4. ~(\E t \in Triangles : \E job \in {"standard", "pool", "balance", "priority"} :
           ClientSends(job, t))
  BY DEF ClientSends
<1>5. ~ClientTimesOut /\ ~ClientRestarts
  BY <1>1 DEF ClientTimesOut, ClientRestarts
<1>6. \A p \in Priority : p \notin {"path", "min"}
  BY DEF Priority
<1> QED
  BY <1>1, <1>2, <1>3, <1>4, <1>5, <1>6, Steps

-----------------------------------------------------------------------------
\* The priority job.

\* One of its actors goes on, and the other one does not notice.
LEMMA OtherRuns ==
    ASSUME NEW q, prio'[q] = prio[q], Mails(q)' = Mails(q), Tasks(q)' = Tasks(q)
    PROVE  (Runs(q) => Runs(q)') /\ (Ended(q) => Ended(q)')
<1>1. Told(q) => Told(q)'
  BY DEF Told, Starting, Rested
<1>2. Adds(q) => Adds(q)'
  BY DEF Adds
<1>3. Compares(q) => Compares(q)'
  BY DEF Compares, Rested
<1>4. Ended(q) => Ended(q)'
  BY DEF Ended, Rested
<1> QED
  BY <1>1, <1>2, <1>3, <1>4 DEF Runs

LEMMA OneGoesOn ==
    ASSUME Split, NEW p \in Priority, ~Ended(p), Runs(p)', Theirs', UNCHANGED pairs,
           \A q \in Priority \ {p} :
               prio'[q] = prio[q] /\ Mails(q)' = Mails(q) /\ Tasks(q)' = Tasks(q)
    PROVE  Split'
<1>1. \A q \in Priority \ {p} : (Runs(q) => Runs(q)') /\ (Ended(q) => Ended(q)')
  BY OtherRuns
<1>2. CASE pairs = <<>> /\ \A q \in Priority : Runs(q)
  BY <1>1, <1>2 DEF Split, Theirs
<1>3. CASE (\E x : pairs = <<x>>) /\ \E r \in Priority : Runs(r) /\ \A q \in Priority \ {r} : Ended(q)
  <2>1. \A q \in Priority \ {p} : Ended(q)
    BY <1>3
  <2> QED
    BY <1>1, <1>3, <2>1 DEF Split, Theirs
<1> QED
  BY <1>2, <1>3 DEF Split

\* One with a message or a task has not ended.
LEMMA BusyRuns ==
    ASSUME Split, NEW p \in Priority, ~Ended(p)
    PROVE  Runs(p)
BY DEF Split

\* The other actor's messages and tasks are not touched.
LEMMA MailChange ==
    ASSUME NEW p \in Priority,
           \A m : ~About(p, m) => (m \in yMail' <=> m \in yMail)
    PROVE  \A q \in Priority \ {p} : Mails(q)' = Mails(q)
BY DEF Mails, About, Priority

LEMMA TaskChange ==
    ASSUME NEW p, \A task : task.to # p => (task \in yTasks' <=> task \in yTasks)
    PROVE  \A q \in Priority \ {p} : Tasks(q)' = Tasks(q)
BY DEF Tasks

\* What an actor of the priority job with a message is.
LEMMA WithMail ==
    ASSUME Split, NEW p \in Priority, NEW m \in yMail, About(p, m)
    PROVE  /\ ~Ended(p) /\ Tasks(p) = {} /\ Mails(p) = {m}
           /\ IF IsStart(p, m) THEN Starting(p) ELSE Rested(p)
<1>1. m \in Mails(p)
  BY DEF Mails
<1>2. ~Ended(p) /\ Told(p)
  BY <1>1, BusyRuns DEF Ended, Runs, Adds, Compares
<1> QED
  BY <1>1, <1>2 DEF Told

LEMMA WithTask ==
    ASSUME Split, NEW p \in Priority, NEW task \in yTasks, task.to = p
    PROVE  /\ ~Ended(p) /\ task \in Tasks(p)
           /\ task.level # 0 => Adds(p)
           /\ task.level = 0 => Compares(p) /\ Tasks(p) = {task}
<1>1. task \in Tasks(p)
  BY DEF Tasks
<1>2. ~Ended(p) /\ (Adds(p) \/ Compares(p))
  BY <1>1, BusyRuns DEF Ended, Runs, Told
<1> QED
  BY <1>1, <1>2 DEF Adds, Compares

LEMMA TakesSplit ==
    ASSUME DataInv, Split, NEW p \in Priority, PriorityTakes(p)
    PROVE  Split'
<1>1. PICK t \in Triangles :
         /\ Handle(<<p, "triangle", t>>, {<<p, "start">>})
         /\ prio' = [prio EXCEPT ![p].data = t,
                         ![p].last = [j \in DOMAIN t |-> IF j = 1 THEN t[1][1] ELSE 0]]
  BY DEF PriorityTakes
<1> DEFINE m == <<p, "triangle", t>>
           x == <<p, "start">>
           first == [j \in DOMAIN t |-> IF j = 1 THEN t[1][1] ELSE 0]
           new == [[prio[p] EXCEPT !.data = t] EXCEPT !.last = first]
<1>2. /\ m[1] = p /\ m[2] = "triangle" /\ x[1] = p /\ x[2] = "start"
      /\ m \in yMail /\ yMail' = (yMail \ {m}) \cup {x}
  BY <1>1 DEF Handle
<1>3. prio' = [prio EXCEPT ![p] = new]
  <2> HIDE DEF first
  <2> QED
    BY <1>1 DEF DataInv, PriorityTypes, first
<1>4. new.level = prio[p].level /\ new.count = prio[p].count /\ new.data = t
  BY DEF DataInv, PriorityTypes
<1> HIDE DEF m, x, new
<1>5. UNCHANGED <<yTasks, pairs>>
  BY DEF PriorityTakes
<1>6. ~Ended(p) /\ Tasks(p) = {} /\ Mails(p) = {m} /\ Rested(p)
  BY <1>2, WithMail DEF About, IsStart
<1>7. (\A q \in Priority \ {p} : Mails(q)' = Mails(q)) /\ Mails(p)' = {x}
  <2>1. About(p, m) /\ About(p, x)
    BY <1>2 DEF About
  <2>2. \A q \in Priority \ {p} : Mails(q)' = Mails(q)
    BY <1>2, <2>1, MailChange
  <2>3. Mails(p)' = {x}
    BY <1>2, <1>6, <2>1 DEF Mails
  <2> QED
    BY <2>2, <2>3
<1>8. \A q : Tasks(q)' = Tasks(q)
  BY <1>5 DEF Tasks
<1>9. prio'[p] = new /\ \A q \in Priority \ {p} : prio'[q] = prio[q]
  BY <1>3 DEF DataInv, PriorityTypes
<1>10. Starting(p)'
  BY <1>4, <1>6, <1>9, TriangleFacts DEF Starting, Rested
<1>11. Runs(p)'
  BY <1>2, <1>6, <1>7, <1>8, <1>10 DEF Runs, Told, IsStart
<1>12. Theirs'
  BY <1>2, <1>5 DEF Split, Theirs
<1> QED
  BY <1>5, <1>6, <1>7, <1>8, <1>9, <1>11, <1>12, OneGoesOn

LEMMA LevelSplit ==
    ASSUME DataInv, Split, NEW p \in Priority, PriorityLevel(p)
    PROVE  Split'
<1> DEFINE m == <<p, "start">>
           f == [j \in 1 .. prio[p].level + 1 |->
                    AddTask(prio[p].last, prio[p].data[prio[p].level + 1], j)]
           n == prio[p].level + 1
           new == TasksOf(p, prio[p].level, n, f)
<1>1. yTasks' = yTasks \cup new
  BY DEF PriorityLevel, TasksOf
<1>2. m[1] = p /\ m[2] = "start" /\ m \in yMail /\ yMail' = (yMail \ {m}) \cup {}
  BY DEF PriorityLevel, Handle
<1>3. UNCHANGED <<prio, pairs>>
  BY DEF PriorityLevel
<1> HIDE DEF m, f
<1>4. ~Ended(p) /\ Tasks(p) = {} /\ Mails(p) = {m} /\ Starting(p)
  BY <1>2, WithMail DEF About, IsStart
<1>5. (\A q \in Priority \ {p} : Mails(q)' = Mails(q)) /\ Mails(p)' = {}
  <2>1. About(p, m)
    BY <1>2 DEF About
  <2>2. \A q \in Priority \ {p} : Mails(q)' = Mails(q)
    BY <1>2, <2>1, MailChange
  <2>3. Mails(p)' = {}
    BY <1>2, <1>4 DEF Mails
  <2> QED
    BY <2>2, <2>3
<1>6. prio[p].level \in Nat \ {0} /\ n \in Nat \ {0}
  BY <1>4, TriangleFacts DEF Starting
<1>7. \A task \in new : task.to = p /\ task.level = prio[p].level
  BY DEF TasksOf, Task
<1>8. Cardinality(new) = n
  BY <1>6, TaskSet
<1>9. new # {}
  <2>1. Task(p, prio[p].level, 1, f[1]) \in new
    BY <1>6 DEF TasksOf
  <2> QED
    BY <2>1
<1> HIDE DEF new
<1>10. (\A q \in Priority \ {p} : Tasks(q)' = Tasks(q)) /\ Tasks(p)' = new
  <2>1. \A q \in Priority \ {p} : Tasks(q)' = Tasks(q)
    BY <1>1, <1>7, TaskChange
  <2>2. Tasks(p)' = new
    BY <1>1, <1>4, <1>7 DEF Tasks
  <2> QED
    BY <2>1, <2>2
<1>11. prio[p].count + Cardinality(new) = prio[p].level + 1
  BY <1>4, <1>6, <1>8 DEF Starting
<1>12. Adds(p)'
  BY <1>3, <1>4, <1>5, <1>6, <1>7, <1>9, <1>10, <1>11 DEF Adds, Starting
<1>13. Theirs'
  BY <1>1, <1>2, <1>7 DEF Split, Theirs
<1> QED
  BY <1>3, <1>4, <1>5, <1>10, <1>12, <1>13, OneGoesOn DEF Runs

LEMMA EndsSplit ==
    ASSUME DataInv, Split, NEW p \in Priority, PriorityEnds(p)
    PROVE  Split'
<1> DEFINE m == <<p, "end">>
           new == Task(p, 0, 0, Least(prio[p].last))
<1>1. yTasks' = (yTasks \ {}) \cup {new} /\ new.to = p /\ new.level = 0
  BY DEF PriorityEnds, Task
<1>2. m[1] = p /\ m[2] = "end" /\ m \in yMail /\ yMail' = (yMail \ {m}) \cup {}
  BY DEF PriorityEnds, Handle
<1>3. UNCHANGED <<prio, pairs>>
  BY DEF PriorityEnds
<1> HIDE DEF m, new
<1>4. ~Ended(p) /\ Tasks(p) = {} /\ Mails(p) = {m} /\ Rested(p)
  BY <1>2, WithMail DEF About, IsStart
<1>5. (\A q \in Priority \ {p} : Mails(q)' = Mails(q)) /\ Mails(p)' = {}
  <2>1. About(p, m)
    BY <1>2 DEF About
  <2>2. \A q \in Priority \ {p} : Mails(q)' = Mails(q)
    BY <1>2, <2>1, MailChange
  <2>3. Mails(p)' = {}
    BY <1>2, <1>4 DEF Mails
  <2> QED
    BY <2>2, <2>3
<1>6. (\A q \in Priority \ {p} : Tasks(q)' = Tasks(q)) /\ Tasks(p)' = {new}
  <2>1. \A q \in Priority \ {p} : Tasks(q)' = Tasks(q)
    BY <1>1, TaskChange
  <2>2. Tasks(p)' = {new}
    BY <1>1, <1>4 DEF Tasks
  <2> QED
    BY <2>1, <2>2
<1>7. Compares(p)'
  BY <1>1, <1>3, <1>4, <1>5, <1>6 DEF Compares, Rested
<1>8. Theirs'
  BY <1>1, <1>2 DEF Split, Theirs
<1> QED
  BY <1>3, <1>4, <1>5, <1>6, <1>7, <1>8, OneGoesOn DEF Runs

LEMMA AnswersSplit ==
    ASSUME DataInv, Split, NEW p \in Priority, NEW task \in yTasks, PriorityAnswers(p, task)
    PROVE  Split'
<1> DEFINE x == <<"dispatcher", "result", p, task.value>>
<1>1. /\ task.to = p /\ task.level = 0 /\ yTasks' = (yTasks \ {task}) \cup {}
      /\ yMail' = (yMail \ {}) \cup {x} /\ UNCHANGED <<prio, pairs>>
  BY DEF PriorityAnswers
<1>2. x[1] = "dispatcher" /\ x[2] = "result" /\ x[3] = p
  OBVIOUS
<1> HIDE DEF x
<1>3. ~Ended(p) /\ Mails(p) = {} /\ Rested(p) /\ Tasks(p) = {task}
  BY <1>1, WithTask DEF Compares
<1>4. (\A q \in Priority \ {p} : Mails(q)' = Mails(q)) /\ Mails(p)' = {x}
  <2>1. About(p, x)
    BY <1>2 DEF About
  <2>2. \A q \in Priority \ {p} : Mails(q)' = Mails(q)
    BY <1>1, <2>1, MailChange
  <2>3. Mails(p)' = {x}
    BY <1>1, <1>3, <2>1 DEF Mails
  <2> QED
    BY <2>2, <2>3
<1>5. (\A q \in Priority \ {p} : Tasks(q)' = Tasks(q)) /\ Tasks(p)' = {}
  <2>1. \A q \in Priority \ {p} : Tasks(q)' = Tasks(q)
    BY <1>1, TaskChange
  <2>2. Tasks(p)' = {}
    BY <1>1, <1>3 DEF Tasks
  <2> QED
    BY <2>1, <2>2
<1>6. ~IsStart(p, x) /\ Rested(p)'
  BY <1>1, <1>2, <1>3 DEF IsStart, Rested, Priority
<1>7. Told(p)'
  <2>1. Tasks(p)' = {} /\ Mails(p)' = {x} /\ ~IsStart(p, x) /\ Rested(p)'
    BY <1>4, <1>5, <1>6
  <2> QED
    BY <2>1 DEF Told, IsStart
<1>8. Theirs'
  BY <1>1, <1>2 DEF Split, Theirs
<1> QED
  BY <1>1, <1>3, <1>4, <1>5, <1>7, <1>8, OneGoesOn DEF Runs

LEMMA ResultSplit ==
    ASSUME DataInv, Split, NEW p \in Priority, NEW task \in yTasks, PriorityResult(p, task)
    PROVE  Split'
<1>1. /\ DOMAIN prio = Priority /\ prio' = [prio EXCEPT ![p] = prio'[p]]
      /\ DOMAIN prio'[p] = {"level", "count", "data", "last"} /\ prio'[p].data = prio[p].data
      /\ \/ /\ prio[p].level # prio[p].count /\ yMail' = yMail
            /\ prio'[p].level = prio[p].level /\ prio'[p].count = prio[p].count + 1
         \/ /\ prio[p].level = prio[p].count /\ prio'[p].count = 0
            /\ \/ /\ prio[p].level = Len(prio[p].data) - 1
                  /\ prio'[p].level = 1 /\ yMail' = yMail \cup {<<p, "end">>}
               \/ /\ prio[p].level # Len(prio[p].data) - 1
                  /\ prio'[p].level = prio[p].level + 1 /\ yMail' = yMail \cup {<<p, "start">>}
      /\ task.to = p /\ task.level # 0 /\ yTasks' = yTasks \ {task}
      /\ UNCHANGED pairs
  BY ResultSteps DEF DataInv, PriorityTypes
<1>2. ~Ended(p) /\ task \in Tasks(p) /\ Adds(p)
  BY <1>1, WithTask
<1>3. \A q \in Priority \ {p} : Tasks(q)' = Tasks(q)
  BY <1>1, TaskChange
<1>4. Tasks(p)' = Tasks(p) \ {task}
  BY <1>1 DEF Tasks
<1>5. \A q \in Priority \ {p} : prio'[q] = prio[q]
  BY <1>1
<1>6. /\ prio[p].level \in Nat /\ prio[p].count \in Nat /\ Len(prio[p].data) \in Nat
      /\ prio[p].data \in Triangles /\ prio[p].level \in 1 .. Len(prio[p].data) - 1
      /\ prio[p].count + Cardinality(Tasks(p)) = prio[p].level + 1
      /\ Mails(p) = {} /\ \A t \in Tasks(p) : t.level # 0
  BY <1>2, TriangleFacts DEF Adds, DataInv, PriorityTypes
<1>7. IsFiniteSet(Tasks(p)) /\ Cardinality(Tasks(p)) \in Nat
  <2>1. Tasks(p) \subseteq yTasks
    BY DEF Tasks
  <2> QED
    BY <2>1, FS_Subset, FS_CardinalityType DEF DataInv, TaskTypes
<1>8. IsFiniteSet(Tasks(p)') /\ Cardinality(Tasks(p)') = Cardinality(Tasks(p)) - 1
  BY <1>2, <1>4, <1>7, FS_RemoveElement
<1>9. ASSUME NEW x, About(p, x), yMail' = yMail \cup {x}
      PROVE  (\A q \in Priority \ {p} : Mails(q)' = Mails(q)) /\ Mails(p)' = {x}
  <2>1. \A q \in Priority \ {p} : Mails(q)' = Mails(q)
    BY <1>9, MailChange
  <2>2. Mails(p)' = {x}
    BY <1>6, <1>9 DEF Mails
  <2> QED
    BY <2>1, <2>2
<1>10. CASE prio[p].level # prio[p].count
  <2>1. yMail' = yMail /\ prio'[p].level = prio[p].level /\ prio'[p].count = prio[p].count + 1
    BY <1>1, <1>10
  <2>2. \A q : Mails(q)' = Mails(q)
    BY <2>1 DEF Mails
  <2>3. Tasks(p)' # {}
    <3>1. Cardinality(Tasks(p)') # 0
      BY <1>6, <1>7, <1>8, <1>10
    <3> QED
      BY <3>1, FS_EmptySet
  <2>4. prio'[p].count + Cardinality(Tasks(p)') = prio'[p].level + 1
    BY <1>6, <1>7, <1>8, <2>1
  <2>5. Adds(p)'
    <3>1. \A t \in Tasks(p)' : t.level # 0
      BY <1>4, <1>6
    <3> QED
      BY <1>1, <1>6, <2>1, <2>2, <2>3, <2>4, <3>1 DEF Adds
  <2>6. Theirs'
    BY <1>1, <2>1 DEF Split, Theirs
  <2> QED
    BY <1>1, <1>2, <1>3, <1>5, <2>2, <2>5, <2>6, OneGoesOn DEF Runs
<1>11. CASE prio[p].level = prio[p].count
  <2>1. Tasks(p)' = {}
    <3>1. Cardinality(Tasks(p)') = 0
      BY <1>6, <1>7, <1>8, <1>11
    <3> QED
      BY <1>8, <3>1, FS_EmptySet
  <2>2. ASSUME NEW x, x[1] = p, x[2] \in {"start", "end"}, yMail' = yMail \cup {x},
               IF x[2] = "start" THEN Starting(p)' ELSE Rested(p)'
        PROVE  Split'
    <3>1. About(p, x)
      BY <2>2 DEF About
    <3>2. (\A q \in Priority \ {p} : Mails(q)' = Mails(q)) /\ Mails(p)' = {x}
      BY <1>9, <2>2, <3>1
    <3>3. Told(p)'
      <4>1. \E y : Mails(p)' = {y} /\ (IF IsStart(p, y) THEN Starting(p)' ELSE Rested(p)')
        BY <2>2, <3>2 DEF IsStart
      <4> QED
        BY <2>1, <4>1 DEF Told, IsStart
    <3>4. Theirs'
      BY <1>1, <2>2 DEF Split, Theirs
    <3> QED
      BY <1>1, <1>2, <1>3, <1>5, <3>2, <3>3, <3>4, OneGoesOn DEF Runs
  <2>3. CASE prio[p].level = Len(prio[p].data) - 1
    <3> DEFINE x == <<p, "end">>
    <3>1. yMail' = yMail \cup {x} /\ x[1] = p /\ x[2] = "end"
      BY <1>1, <1>11, <2>3
    <3>2. Rested(p)'
      BY <1>1, <1>11, <2>3 DEF Rested
    <3> HIDE DEF x
    <3> QED
      BY <2>2, <3>1, <3>2
  <2>4. CASE prio[p].level # Len(prio[p].data) - 1
    <3> DEFINE x == <<p, "start">>
    <3>1. yMail' = yMail \cup {x} /\ x[1] = p /\ x[2] = "start"
      BY <1>1, <1>11, <2>4
    <3>2. prio'[p].level = prio[p].level + 1 /\ prio'[p].count = 0
      BY <1>1, <1>11, <2>4
    <3>3. Starting(p)'
      BY <1>1, <1>6, <2>4, <3>2 DEF Starting
    <3> HIDE DEF x
    <3> QED
      BY <2>2, <3>1, <3>3
  <2> QED
    BY <2>3, <2>4
<1> QED
  BY <1>10, <1>11

\* Before the actors have the triangle and after the dispatcher has both results.
LEMMA PriorityMailSteps ==
    ASSUME DataInv, aliveActors = Pipeline, jobClient.job = "priority", Calm,
           OneMail({"priority", "dispatcher", "client"}),
           \A m \in yMail : m[1] = "dispatcher" => m[2] = "triangle",
           YanghuiNext, ~WorkerCrashes
    PROVE  JobInv'
<1>1. PICK m : yMail = {m} /\ m[1] \in {"priority", "dispatcher", "client"} /\ yTasks = {}
  BY DEF OneMail
<1>2. CASE \E msg \in yMail : msg[1] = "client" /\ ClientReceives(msg[3], msg[4])
  BY <1>1, <1>2, ClientGets
<1>3. CASE PriorityJobStarts \/ PriorityJobAnswers \/ Dispatch \/ Collect
  <2>1. UNCHANGED <<jobClient, prio, yTasks>>
    BY <1>3 DEF PriorityJobStarts, PriorityJobAnswers, Dispatch, Collect
  <2>2. ASSUME NEW x, yMail' = {x}, x[1] \in {"priority", "dispatcher", "client"},
               x[1] = "dispatcher" => x[2] = "triangle", UNCHANGED pairs
        PROVE  JobInv'
    <3>1. Calm'
      BY <2>1, <2>2 DEF Calm, Rested
    <3>2. OneMail({"priority", "dispatcher", "client"})'
      BY <1>1, <2>1, <2>2 DEF OneMail
    <3> QED
      BY <2>1, <2>2, <3>1, <3>2 DEF JobInv, PriorityInv
  <2>3. CASE PriorityJobStarts
    <3>1. PICK t, c : Handle(<<"priority", "triangle", t, c>>, {<<"dispatcher", "triangle", t>>})
      BY <2>3 DEF PriorityJobStarts
    <3> DEFINE x == <<"dispatcher", "triangle", t>>
    <3>2. x[1] = "dispatcher" /\ x[2] = "triangle" /\ yMail' = {x}
      BY <1>1, <3>1 DEF Handle
    <3>3. UNCHANGED pairs
      BY <2>3 DEF PriorityJobStarts
    <3> HIDE DEF x
    <3> QED
      BY <2>2, <3>2, <3>3
  <2>4. CASE PriorityJobAnswers
    <3>1. PICK msg, right, value :
             Handle(msg, {<<"client", jobSender.priority, right, value>>})
      BY <2>4 DEF PriorityJobAnswers
    <3> DEFINE x == <<"client", jobSender.priority, right, value>>
    <3>2. x[1] = "client" /\ yMail' = {x}
      BY <1>1, <3>1 DEF Handle
    <3>3. UNCHANGED pairs
      BY <2>4 DEF PriorityJobAnswers
    <3> HIDE DEF x
    <3> QED
      BY <2>2, <3>2, <3>3
  <2>5. CASE Dispatch
    <3>1. PICK t \in Triangles :
             Handle(<<"dispatcher", "triangle", t>>, UNION {To(<<p, "triangle", t>>) : p \in Priority})
      BY <2>5 DEF Dispatch
    <3>2. UNCHANGED pairs
      BY <2>5 DEF Dispatch
    <3> DEFINE x(p) == <<p, "triangle", t>>
    <3>3. \A p \in Priority : x(p)[1] = p /\ x(p)[2] = "triangle" /\ To(x(p)) = {x(p)}
      BY DEF To, Pipeline
    <3>4. yMail' = UNION {To(x(p)) : p \in Priority}
      BY <1>1, <3>1 DEF Handle
    <3> HIDE DEF x
    <3>5. yMail' = {x(p) : p \in Priority}
      BY <3>3, <3>4
    <3>6. ASSUME NEW p \in Priority PROVE Runs(p)'
      <4>1. Tasks(p)' = {} /\ Rested(p)'
        BY <1>1, <2>1 DEF Tasks, Calm, Rested
      <4>2. Mails(p)' = {x(p)} /\ ~IsStart(p, x(p))
        BY <3>3, <3>5 DEF Mails, About, IsStart, Priority
      <4>3. Told(p)'
        BY <4>1, <4>2 DEF Told, IsStart
      <4> QED
        BY <4>3 DEF Runs
    <3>7. Theirs'
      BY <1>1, <2>1, <3>3, <3>5 DEF Theirs
    <3>8. pairs' = <<>>
      BY <3>2 DEF Calm
    <3> QED
      BY <2>1, <3>6, <3>7, <3>8 DEF JobInv, PriorityInv, Split
  <2>6. ~Collect
    BY <1>1 DEF Collect
  <2> QED
    BY <1>3, <2>3, <2>4, <2>5, <2>6
<1>4. ~(\E t \in Triangles : \E job \in {"standard", "pool", "balance", "priority"} :
           ClientSends(job, t))
  BY DEF ClientSends
<1>5. ~ClientTimesOut /\ ~ClientRestarts
  BY <1>1 DEF ClientTimesOut, ClientRestarts
<1> QED
  BY <1>1, <1>2, <1>3, <1>4, <1>5, Steps DEF Priority

\* The dispatcher gets a result: the first, or the second.
LEMMA CollectSteps ==
    ASSUME DataInv, jobClient.job = "priority", Split, Collect
    PROVE  JobInv'
<1>1. PICK m \in yMail :
         /\ m[1] = "dispatcher" /\ m[2] = "result"
         /\ LET both == Append(pairs, <<m[3], m[4]>>) IN
               /\ Handle(m, IF Len(both) = 2 THEN {<<"priority", "pairs", both>>} ELSE {})
               /\ pairs' = Kept(both)
         /\ UNCHANGED <<jobClient, yTasks, prio>>
  BY DEF Collect
<1>2. m[1] \notin Priority
  BY <1>1 DEF Priority
<1>3. PICK p \in Priority : m[3] = p
  BY <1>1, <1>2 DEF Split, Theirs
<1>4. About(p, m) /\ ~IsStart(p, m)
  BY <1>1, <1>2, <1>3 DEF About, IsStart
<1>5. ~Ended(p) /\ Tasks(p) = {} /\ Mails(p) = {m} /\ Rested(p)
  BY <1>4, WithMail
<1>6. \A q : Tasks(q)' = Tasks(q)
  BY <1>1 DEF Tasks
<1>7. CASE pairs = <<>> /\ \A q \in Priority : Runs(q)
  <2>1. Append(pairs, <<m[3], m[4]>>) = << <<m[3], m[4]>> >>
    BY <1>7
  <2>2. yMail' = yMail \ {m} /\ pairs' = << <<m[3], m[4]>> >>
    BY <1>1, <2>1 DEF Handle, Kept
  <2>3. \A q \in Priority \ {p} : Mails(q)' = Mails(q)
    BY <1>4, <2>2, MailChange
  <2>4. Mails(p)' = {}
    BY <1>5, <2>2 DEF Mails
  <2>5. Ended(p)'
    BY <1>1, <1>5, <1>6, <2>4 DEF Ended, Rested
  <2>6. \A q \in Priority \ {p} : Runs(q)'
    BY <1>1, <1>6, <1>7, <2>3, OtherRuns
  <2>7. \E r \in Priority : Runs(r)' /\ \A q \in Priority \ {r} : Ended(q)'
    <3>1. PICK r \in Priority : r # p /\ \A q \in Priority \ {r} : q = p
      BY DEF Priority
    <3> QED
      BY <2>5, <2>6, <3>1
  <2>8. Theirs'
    BY <1>1, <2>2 DEF Split, Theirs
  <2>9. Split'
    BY <2>2, <2>7, <2>8 DEF Split
  <2> QED
    BY <1>1, <2>9 DEF JobInv, PriorityInv
<1>8. CASE (\E x : pairs = <<x>>) /\ \E r \in Priority : Runs(r) /\ \A q \in Priority \ {r} : Ended(q)
  <2>1. PICK x : pairs = <<x>>
    BY <1>8
  <2> DEFINE both == Append(pairs, <<m[3], m[4]>>)
             answer == <<"priority", "pairs", both>>
  <2>2. Len(both) = 2
    <3> DEFINE y == <<m[3], m[4]>>
    <3> HIDE DEF y
    <3>1. Len(Append(<<x>>, y)) = 2
      OBVIOUS
    <3> QED
      BY <2>1, <3>1 DEF y
  <2>3. yMail' = (yMail \ {m}) \cup {answer} /\ pairs' = <<>> /\ answer[1] = "priority"
    <3>1. /\ Handle(m, IF Len(both) = 2 THEN {answer} ELSE {})
          /\ pairs' = Kept(both)
      BY <1>1
    <3> HIDE DEF both
    <3> QED
      BY <2>2, <3>1 DEF Handle, Kept
  <2> HIDE DEF answer
  <2>4. \A q \in Priority \ {p} : Ended(q)
    BY <1>5, <1>8
  <2>5. \A q \in Priority : Tasks(q) = {} /\ Rested(q)
    BY <1>5, <2>4 DEF Ended
  <2>6. yTasks = {}
    BY <2>5 DEF Split, Theirs, Tasks
  <2>7. yMail = {m}
    <3>1. ASSUME NEW y \in yMail PROVE \E q \in Priority : y \in Mails(q)
      BY DEF Split, Theirs, Mails, About
    <3>2. \A q \in Priority \ {p} : Mails(q) = {}
      BY <2>4 DEF Ended
    <3> QED
      BY <1>5, <3>1, <3>2
  <2>8. yMail' = {answer} /\ yTasks' = {}
    BY <1>1, <2>3, <2>6, <2>7
  <2>9. Calm'
    BY <1>1, <2>3, <2>5 DEF Calm, Rested
  <2>10. OneMail({"priority", "dispatcher", "client"})'
    BY <2>3, <2>8 DEF OneMail
  <2>11. \A y \in yMail' : y[1] = "dispatcher" => y[2] = "triangle"
    BY <2>3, <2>8
  <2> QED
    BY <1>1, <2>9, <2>10, <2>11 DEF JobInv, PriorityInv
<1> QED
  BY <1>7, <1>8 DEF Split

LEMMA SplitSteps ==
    ASSUME DataInv, jobClient.job = "priority", Split, YanghuiNext, ~WorkerCrashes
    PROVE  JobInv'
<1>1. ASSUME NEW m \in yMail PROVE m[1] \in {"high", "normal", "dispatcher"}
  BY DEF Split, Theirs, Priority
<1>2. ASSUME NEW task \in yTasks PROVE task.to \in {"high", "normal"}
  BY DEF Split, Theirs, Priority
<1>3. CASE Collect
  BY <1>3, CollectSteps
<1>4. ~Dispatch
  <2>1. ASSUME NEW t, <<"dispatcher", "triangle", t>> \in yMail PROVE FALSE
    <3> DEFINE m == <<"dispatcher", "triangle", t>>
    <3>1. m \in yMail /\ m[1] = "dispatcher" /\ m[2] = "triangle"
      BY <2>1
    <3> HIDE DEF m
    <3> QED
      BY <3>1 DEF Split, Theirs, Priority
  <2> QED
    BY <2>1 DEF Dispatch, Handle
<1>5. ASSUME NEW p \in Priority, PriorityTakes(p) \/ PriorityLevel(p) \/ PriorityEnds(p)
      PROVE  JobInv'
  <2>1. Split'
    BY <1>5, TakesSplit, LevelSplit, EndsSplit
  <2>2. UNCHANGED jobClient
    BY <1>5 DEF PriorityTakes, PriorityLevel, PriorityEnds
  <2> QED
    BY <2>1, <2>2 DEF JobInv, PriorityInv
<1>6. ASSUME NEW p \in Priority, NEW task \in yTasks,
             PriorityResult(p, task) \/ PriorityAnswers(p, task)
      PROVE  JobInv'
  <2>1. Split'
    BY <1>6, ResultSplit, AnswersSplit
  <2>2. UNCHANGED jobClient
    BY <1>6 DEF PriorityResult, PriorityAnswers
  <2> QED
    BY <2>1, <2>2 DEF JobInv, PriorityInv
<1>7. ~(\E t \in Triangles : \E job \in {"standard", "pool", "balance", "priority"} :
           ClientSends(job, t))
  BY DEF ClientSends
<1>8. ~ClientTimesOut /\ ~ClientRestarts
  <2>1. \E p \in Priority : Runs(p)
    BY DEF Split, Priority
  <2>2. yMail # {} \/ yTasks # {}
    BY <2>1 DEF Runs, Told, Adds, Compares, Mails, Tasks
  <2> QED
    BY <2>2 DEF ClientTimesOut, ClientRestarts
<1> QED
  BY <1>1, <1>2, <1>3, <1>4, <1>5, <1>6, <1>7, <1>8, Steps

-----------------------------------------------------------------------------
\* The invariant.

LEMMA InitInv == YanghuiInit => YanghuiInv
<1> SUFFICES ASSUME YanghuiInit PROVE YanghuiInv
  OBVIOUS
<1>1. Calm
  BY DEF YanghuiInit, Calm, Rested
<1>2. JobInv
  BY <1>1 DEF YanghuiInit, JobInv
<1> QED
  BY <1>2, InitTypes DEF YanghuiInit, YanghuiInv

LEMMA InvKept == YanghuiInv /\ [YanghuiNext]_yanghuiVars => YanghuiInv'
<1> SUFFICES ASSUME YanghuiInv, [YanghuiNext]_yanghuiVars PROVE YanghuiInv'
  OBVIOUS
<1>1. DataInv' /\ MailInv'
  BY TypesKept DEF YanghuiInv
<1>2. ASSUME crashes' = 0
      PROVE  aliveActors' = Pipeline /\ JobInv'
  <2>1. CASE UNCHANGED yanghuiVars
    <3>1. crashes = 0 /\ aliveActors = Pipeline /\ JobInv
      BY <1>2, <2>1 DEF yanghuiVars, YanghuiInv
    <3>2. aliveActors' = Pipeline
      BY <2>1, <3>1 DEF yanghuiVars
    <3>3. JobInv'
      <4>1. UNCHANGED <<jobClient, yMail, yTasks, path, getMin, prio, pairs>>
        BY <2>1 DEF yanghuiVars
      <4>2. Calm => Calm'
        BY <4>1 DEF Calm, Rested
      <4>3. BalanceInv => BalanceInv'
        BY <4>1 DEF BalanceInv, OneMail
      <4>4. Split => Split'
        <5>1. Theirs => Theirs'
          BY <4>1 DEF Theirs
        <5>2. \A q : Mails(q)' = Mails(q) /\ Tasks(q)' = Tasks(q)
          BY <4>1 DEF Mails, Tasks
        <5>3. \A q : (Runs(q) => Runs(q)') /\ (Ended(q) => Ended(q)')
          BY <4>1, <5>2, OtherRuns
        <5> QED
          BY <4>1, <5>1, <5>3 DEF Split
      <4>5. PriorityInv => PriorityInv'
        BY <4>1, <4>2, <4>4 DEF PriorityInv, OneMail
      <4>6. OneMail({jobClient.job, "client"}) => OneMail({jobClient.job, "client"})'
        BY <4>1 DEF OneMail
      <4> QED
        BY <3>1, <4>1, <4>2, <4>3, <4>5, <4>6 DEF JobInv
    <3> QED
      BY <3>2, <3>3
  <2>2. CASE YanghuiNext
    <3>1. ~WorkerCrashes
      <4>1. crashes \in Nat
        BY DEF YanghuiInv, DataInv, ClientTypes
      <4> QED
        BY <1>2, <4>1 DEF WorkerCrashes
    <3>2. UNCHANGED <<crashes, aliveActors>>
      BY <2>2, <3>1 DEF YanghuiNext, ClientSends, ClientReceives, ClientTimesOut, ClientRestarts,
         YanghuiRuns, BalanceStarts, PathStarts, PathLevel, BalanceForwards, MinNumbers,
         BalanceAnswers, PriorityJobStarts, Dispatch, Collect, PriorityJobAnswers, PriorityTakes,
         PriorityLevel, PriorityEnds, PathResult, MinResult, PriorityResult, PriorityAnswers
    <3>3. DataInv /\ MailInv /\ aliveActors = Pipeline /\ JobInv
      BY <1>2, <3>2 DEF YanghuiInv
    <3>4. JobInv'
      <4>1. CASE jobClient.job \in {"none", "failed"} /\ yMail = {} /\ yTasks = {} /\ Calm
        BY <2>2, <3>1, <3>3, <4>1, NoJobSteps
      <4>2. CASE /\ jobClient.job \in {"standard", "pool"}
                 /\ OneMail({jobClient.job, "client"}) /\ Calm
        BY <2>2, <3>1, <3>3, <4>2, OneActorSteps
      <4>3. CASE jobClient.job = "balance" /\ BalanceInv /\ Calm
        BY <2>2, <3>1, <3>3, <4>3, BalanceMailSteps, BalanceResultSteps DEF BalanceInv
      <4>4. CASE jobClient.job = "priority" /\ PriorityInv
        BY <2>2, <3>1, <3>3, <4>4, PriorityMailSteps, SplitSteps DEF PriorityInv
      <4> QED
        BY <3>3, <4>1, <4>2, <4>3, <4>4 DEF JobInv
    <3> QED
      BY <3>2, <3>3, <3>4
  <2> QED
    BY <2>1, <2>2
<1> QED
  BY <1>1, <1>2 DEF YanghuiInv

\* The demonstration's state has its types, and a task is always an actor's that lives:
\* results go to actors of the pipelines that have not quit.
THEOREM YanghuiTypeCorrect == YanghuiSpec => []YanghuiTypeOK
<1>1. YanghuiInv => YanghuiTypeOK
  BY DEF YanghuiInv, DataInv, ClientTypes, PathTypes, MinTypes, PriorityTypes, TaskTypes, YanghuiTypeOK
<1> QED
  BY <1>1, InitInv, InvKept, PTL DEF YanghuiSpec

\* A client's 300 seconds of await_data end without an answer only after a worker has
\* crashed: the pipelines never wait for results that do not come.
THEOREM JobsGetAnswers == YanghuiSpec => []JobsAreAnswered
<1>1. YanghuiInv => JobsAreAnswered
  <2>1. YanghuiInv /\ crashes = 0 => jobClient.job # "timedOut"
    BY DEF YanghuiInv, JobInv
  <2>2. YanghuiInv => crashes \in Nat
    BY DEF YanghuiInv, DataInv, ClientTypes
  <2> QED
    BY <2>1, <2>2 DEF JobsAreAnswered
<1> QED
  BY <1>1, InitInv, InvKept, PTL DEF YanghuiSpec

-----------------------------------------------------------------------------
\* Induction over the natural numbers, by the least number a set does not have.

\* A set of naturals that is not empty has a least element.
LEMMA Smallest ==
  ASSUME NEW T, T \subseteq Nat, T # {}
  PROVE  \E x \in T : \A y \in T : x <= y
<1> DEFINE R == OpToRel(<, Nat)
<1>1. IsWellFoundedOn(R, Nat)
  BY NatLessThanWellFounded
<1>2. \A x, y \in Nat : x < y => <<x, y>> \in R
  BY DEF OpToRel
<1> HIDE DEF R
<1>3. PICK x \in T : \A y \in T : ~ (<<y, x>> \in R)
  BY <1>1, WFMin
<1>4. ASSUME NEW y \in T PROVE x <= y
  <2>1. x \in Nat /\ y \in Nat /\ ~(y < x)
    BY <1>2, <1>3
  <2> QED
    BY <2>1
<1> QED
  BY <1>4

\* A set with zero, and with a number's successor whenever it has the number, has all.
LEMMA Induction ==
    ASSUME NEW S, 0 \in S, \A n \in Nat : n \in S => n + 1 \in S
    PROVE  Nat \subseteq S
<1> SUFFICES ASSUME Nat \ S # {} PROVE FALSE
  OBVIOUS
<1> DEFINE T == Nat \ S
<1>1. PICK n \in T : \A m \in T : n <= m
  <2> HIDE DEF T
  <2>1. T \subseteq Nat /\ T # {}
    BY DEF T
  <2> QED
    BY <2>1, Smallest
<1>2. n - 1 \in Nat /\ n - 1 \in S
  BY <1>1
<1> QED
  BY <1>1, <1>2

\* The same from one to a bound.
LEMMA InductionTo ==
    ASSUME NEW N \in Nat, NEW S, 1 \in S,
           \A n \in Nat : n \in 1 .. N - 1 /\ n \in S => n + 1 \in S
    PROVE  1 .. N \subseteq S
<1> DEFINE T == {n \in Nat : n \in 1 .. N => n \in S}
<1>1. 0 \in T
  OBVIOUS
<1>2. ASSUME NEW n \in Nat, n \in T PROVE n + 1 \in T
  <2>1. CASE n = 0
    BY <2>1
  <2>2. CASE n # 0 /\ n + 1 \in 1 .. N
    <3>1. n \in 1 .. N - 1 /\ n \in S
      BY <1>2, <2>2
    <3> QED
      BY <3>1
  <2>3. CASE n + 1 \notin 1 .. N
    BY <2>3
  <2> QED
    BY <2>1, <2>2, <2>3
<1> HIDE DEF T
<1>3. Nat \subseteq T
  BY <1>1, <1>2, Induction
<1> QED
  BY <1>3 DEF T

\* The least of a set.
LEMMA MinIs ==
    ASSUME NEW S, NEW x \in S, \A y \in S : y \in Int /\ x <= y
    PROVE  Min(S) = x
BY DEF Min

IsNumbers(row) == IsRow(row) /\ \A j \in DOMAIN row : row[j] \in Int

\* v is a least one of the numbers.
IsLeast(v, row) == (\E j \in DOMAIN row : row[j] = v) /\ \A j \in DOMAIN row : v <= row[j]

LEMMA SomeLeast ==
    ASSUME NEW N \in Nat \ {0}, NEW f, \A j \in 1 .. N : f[j] \in Int
    PROVE  \E i \in 1 .. N : \A j \in 1 .. N : f[i] <= f[j]
<1> DEFINE S == {n \in 1 .. N : \E i \in 1 .. n : \A j \in 1 .. n : f[i] <= f[j]}
<1>1. 1 \in S
  OBVIOUS
<1>2. ASSUME NEW n \in Nat, n \in 1 .. N - 1, n \in S PROVE n + 1 \in S
  <2>1. PICK i \in 1 .. n : \A j \in 1 .. n : f[i] <= f[j]
    BY <1>2
  <2>2. f[i] \in Int /\ f[n + 1] \in Int /\ \A j \in 1 .. n : f[j] \in Int
    BY <1>2
  <2>3. CASE f[i] <= f[n + 1]
    <3>1. \A j \in 1 .. n + 1 : f[i] <= f[j]
      BY <2>1, <2>3
    <3> QED
      BY <1>2, <3>1
  <2>4. CASE f[n + 1] <= f[i]
    <3>1. \A j \in 1 .. n + 1 : f[n + 1] <= f[j]
      BY <2>1, <2>2, <2>4
    <3> QED
      BY <1>2, <3>1
  <2> QED
    BY <2>2, <2>3, <2>4
<1> HIDE DEF S
<1>3. 1 .. N \subseteq S
  BY <1>1, <1>2, InductionTo
<1>4. N \in S
  BY <1>3
<1> QED
  BY <1>4 DEF S

LEMMA LeastIs ==
    ASSUME NEW row, IsNumbers(row), NEW v, IsLeast(v, row)
    PROVE  Least(row) = v
<1> DEFINE S == {row[j] : j \in DOMAIN row}
<1>1. v \in S /\ \A y \in S : y \in Int /\ v <= y
  BY DEF IsNumbers, IsLeast
<1> HIDE DEF S
<1>2. Min(S) = v
  BY <1>1, MinIs
<1> QED
  BY <1>2 DEF Least, S

LEMMA LeastOf ==
    ASSUME NEW row, IsNumbers(row)
    PROVE  IsLeast(Least(row), row) /\ Least(row) \in Int
<1>1. Len(row) \in Nat \ {0} /\ DOMAIN row = 1 .. Len(row)
  BY RowLength DEF IsNumbers
<1>2. PICK i \in DOMAIN row : \A j \in DOMAIN row : row[i] <= row[j]
  BY <1>1, SomeLeast DEF IsNumbers
<1>3. IsLeast(row[i], row) /\ row[i] \in Int
  BY <1>2 DEF IsLeast, IsNumbers
<1>4. Least(row) = row[i]
  BY <1>3, LeastIs
<1> QED
  BY <1>3, <1>4

-----------------------------------------------------------------------------
\* The parts that numbers are compared in.

\* A part is some of the numbers.
LEMMA ChunkNumbers ==
    ASSUME NEW row, IsNumbers(row), NEW i \in 1 .. Chunks(row)
    PROVE  /\ IsNumbers(Chunk(row, i))
           /\ \A k \in DOMAIN Chunk(row, i) : \E j \in DOMAIN row : Chunk(row, i)[k] = row[j]
<1> DEFINE n == Len(row)
           first == (i - 1) * Batch + 1
           last == Lesser(i * Batch, n)
<1>1. n \in Nat \ {0} /\ DOMAIN row = 1 .. n /\ Batch \in Nat \ {0, 1} /\ i \in Nat \ {0}
  BY RowLength, SomeChunks, YanghuiAssumption DEF IsNumbers
<1>2. (i - 1) * Batch \in Nat /\ i * Batch \in Nat /\ i * Batch = (i - 1) * Batch + Batch
  <2> HIDE DEF n
  <2> QED
    BY <1>1
<1>3. (i - 1) * Batch < n
  <2>1. i <= (n + Batch - 1) \div Batch
    BY DEF Chunks
  <2> HIDE DEF n
  <2>2. PICK q \in Nat : q = (n + Batch - 1) \div Batch /\ q * Batch <= n + Batch - 1
    BY <1>1
  <2>3. i * Batch <= q * Batch
    BY <1>1, <2>1, <2>2
  <2> QED
    BY <1>1, <1>2, <2>2, <2>3
<1>4. first \in Nat \ {0} /\ last \in Nat /\ first <= last /\ last <= n
  <2> HIDE DEF n
  <2> QED
    BY <1>1, <1>2, <1>3 DEF Lesser
<1>5. Chunk(row, i) = [k \in 1 .. last - first + 1 |-> row[k + first - 1]]
  <2>1. Chunk(row, i) = SubSeq(row, first, last)
    BY DEF Chunk
  <2> HIDE DEF first, last, n
  <2> QED
    BY <1>4, <2>1
<1> HIDE DEF first, last, n
<1>6. \A k \in 1 .. last - first + 1 : k + first - 1 \in DOMAIN row
  BY <1>1, <1>4
<1>7. IsRow(Chunk(row, i))
  <2>1. last - first + 1 \in Nat \ {0}
    BY <1>4
  <2> QED
    BY <1>5, <2>1 DEF IsRow
<1> QED
  BY <1>5, <1>6, <1>7 DEF IsNumbers

\* And every number is in a part.
LEMMA ChunksCover ==
    ASSUME NEW row, IsNumbers(row), NEW j \in DOMAIN row
    PROVE  \E i \in 1 .. Chunks(row) : \E k \in DOMAIN Chunk(row, i) : Chunk(row, i)[k] = row[j]
<1> DEFINE n == Len(row)
           i == (j - 1) \div Batch + 1
           first == (i - 1) * Batch + 1
           last == Lesser(i * Batch, n)
<1>1. n \in Nat \ {0} /\ DOMAIN row = 1 .. n /\ Batch \in Nat \ {0, 1} /\ j \in 1 .. n
  BY RowLength, YanghuiAssumption DEF IsNumbers
<1>2. i \in Nat \ {0} /\ (i - 1) * Batch <= j - 1 /\ j - 1 < i * Batch
  <2> HIDE DEF n
  <2> QED
    BY <1>1
<1> HIDE DEF i
<1>3. i * Batch \in Nat /\ (i - 1) * Batch \in Nat /\ i * Batch = (i - 1) * Batch + Batch
  BY <1>1, <1>2
<1>4. i \in 1 .. Chunks(row)
  <2> HIDE DEF n
  <2>1. PICK q \in Nat : q = (n + Batch - 1) \div Batch /\ n + Batch - 1 < (q + 1) * Batch
    BY <1>1
  <2>2. i * Batch < (q + 1) * Batch
    BY <1>1, <1>2, <1>3, <2>1
  <2>3. i <= q
    <3>1. i \in Nat /\ q \in Nat /\ Batch \in Nat
      BY <1>1, <1>2, <2>1
    <3>2. i >= q + 1 => i * Batch >= (q + 1) * Batch
      BY <3>1
    <3>3. i * Batch \in Int /\ (q + 1) * Batch \in Int
      BY <3>1
    <3> QED
      BY <3>1, <2>2, <3>2, <3>3
  <2> QED
    BY <1>2, <2>1, <2>3 DEF Chunks, n
<1>5. first \in Nat \ {0} /\ last \in Nat /\ first <= j /\ j <= last /\ last <= n
  <2> HIDE DEF n
  <2> QED
    BY <1>1, <1>2, <1>3 DEF Lesser
<1>6. Chunk(row, i) = [k \in 1 .. last - first + 1 |-> row[k + first - 1]]
  <2>1. Chunk(row, i) = SubSeq(row, first, last)
    BY DEF Chunk
  <2> HIDE DEF first, last, n
  <2> QED
    BY <1>5, <2>1
<1> HIDE DEF first, last, n
<1>7. j - first + 1 \in 1 .. last - first + 1 /\ (j - first + 1) + first - 1 = j
  BY <1>1, <1>5
<1> QED
  BY <1>4, <1>6, <1>7

\* The least of the numbers is the least of what is left of them.
LEMMA ChunksKeepLeast ==
    ASSUME NEW row, IsNumbers(row)
    PROVE  IsNumbers(ChunkValues(row)) /\ Least(ChunkValues(row)) = Least(row)
<1> DEFINE left == ChunkValues(row)
           v == Least(row)
<1>1. DOMAIN left = 1 .. Chunks(row) /\ \A i \in 1 .. Chunks(row) : left[i] = Least(Chunk(row, i))
  BY DEF ChunkValues
<1>2. Chunks(row) \in Nat \ {0}
  BY SomeChunks DEF IsNumbers
<1>3. ASSUME NEW i \in 1 .. Chunks(row)
      PROVE  left[i] \in Int /\ IsLeast(left[i], Chunk(row, i))
  BY <1>1, ChunkNumbers, LeastOf
<1>4. IsNumbers(left)
  <2>1. IsRow(left)
    BY <1>2 DEF IsRow, ChunkValues
  <2> QED
    BY <1>1, <1>3, <2>1 DEF IsNumbers
<1> HIDE DEF left
<1>5. v \in Int /\ IsLeast(v, row)
  BY LeastOf
<1> HIDE DEF v
<1>6. ASSUME NEW i \in 1 .. Chunks(row) PROVE v <= left[i]
  <2>1. PICK k \in DOMAIN Chunk(row, i) : Chunk(row, i)[k] = left[i]
    BY <1>3 DEF IsLeast
  <2>2. PICK j \in DOMAIN row : left[i] = row[j]
    BY <2>1, ChunkNumbers
  <2> QED
    BY <1>5, <2>2 DEF IsLeast
<1>7. \E i \in 1 .. Chunks(row) : left[i] = v
  <2>1. PICK j \in DOMAIN row : row[j] = v
    BY <1>5 DEF IsLeast
  <2>2. PICK i \in 1 .. Chunks(row) : \E k \in DOMAIN Chunk(row, i) : Chunk(row, i)[k] = v
    BY <2>1, ChunksCover
  <2>3. left[i] <= v
    BY <1>3, <2>2 DEF IsLeast
  <2> QED
    BY <1>3, <1>5, <1>6, <2>3
<1>8. IsLeast(v, left)
  BY <1>1, <1>6, <1>7 DEF IsLeast
<1> QED
  BY <1>4, <1>8, LeastIs DEF left, v

-----------------------------------------------------------------------------
\* The states of a triangle's levels.

\* The equation that defines them, for the first n levels.
AreStates(f, t, n) == f = [k \in 1 .. n |-> IF k = 1 THEN t[1] ELSE Level(f[k - 1], t[k])]

LEMMA StatesEquation ==
    ASSUME NEW t \in Triangles
    PROVE  AreStates(States(t), t, Len(t))
<1> DEFINE N == Len(t)
           S == {n \in 1 .. N : \E h : AreStates(h, t, n)}
<1>1. N \in Nat \ {0} /\ DOMAIN t = 1 .. N
  BY TriangleFacts
<1>2. 1 \in S
  <2> DEFINE f == [k \in 1 .. 1 |-> t[1]]
  <2>1. f = [k \in 1 .. 1 |-> IF k = 1 THEN t[1] ELSE Level(f[k - 1], t[k])]
    OBVIOUS
  <2> HIDE DEF f
  <2>2. AreStates(f, t, 1)
    BY <2>1 DEF AreStates
  <2> QED
    BY <1>1, <2>2
<1>3. ASSUME NEW n \in Nat, n \in 1 .. N - 1, n \in S PROVE n + 1 \in S
  <2>1. PICK f : AreStates(f, t, n)
    BY <1>3
  <2> DEFINE g == [k \in 1 .. n + 1 |-> IF k = n + 1 THEN Level(f[n], t[n + 1]) ELSE f[k]]
  <2>2. \A k \in 1 .. n : f[k] = IF k = 1 THEN t[1] ELSE Level(f[k - 1], t[k])
    BY <2>1 DEF AreStates
  <2>3. ASSUME NEW k \in 1 .. n + 1
        PROVE  g[k] = IF k = 1 THEN t[1] ELSE Level(g[k - 1], t[k])
    <3>1. CASE k = n + 1
      <4>1. g[k] = Level(f[n], t[n + 1]) /\ k # 1 /\ k - 1 = n
        BY <1>3, <3>1
      <4>2. g[k - 1] = f[n]
        BY <1>3, <4>1
      <4> QED
        BY <3>1, <4>1, <4>2
    <3>2. CASE k # n + 1 /\ k # 1
      <4>1. g[k] = f[k] /\ g[k - 1] = f[k - 1]
        BY <1>3, <3>2
      <4> QED
        BY <2>2, <3>2, <4>1
    <3>3. CASE k # n + 1 /\ k = 1
      BY <1>3, <2>2, <3>3
    <3> QED
      BY <3>1, <3>2, <3>3
  <2>4. g = [k \in 1 .. n + 1 |-> g[k]]
    OBVIOUS
  <2> HIDE DEF g
  <2>5. g = [k \in 1 .. n + 1 |-> IF k = 1 THEN t[1] ELSE Level(g[k - 1], t[k])]
    BY <2>3, <2>4
  <2>6. AreStates(g, t, n + 1)
    BY <2>5 DEF AreStates
  <2> QED
    BY <1>1, <1>3, <2>6
<1> HIDE DEF S
<1>4. 1 .. N \subseteq S
  BY <1>1, <1>2, <1>3, InductionTo
<1>5. PICK f : AreStates(f, t, N)
  <2>1. N \in S
    BY <1>1, <1>4
  <2> QED
    BY <2>1 DEF S
<1>6. States(t) = CHOOSE h : h = [k \in DOMAIN t |->
                                    IF k = 1 THEN t[1] ELSE Level(h[k - 1], t[k])]
  BY DEF States
<1>7. f = [k \in DOMAIN t |-> IF k = 1 THEN t[1] ELSE Level(f[k - 1], t[k])]
  BY <1>1, <1>5 DEF AreStates
<1>8. States(t) = [k \in DOMAIN t |-> IF k = 1 THEN t[1] ELSE Level(States(t)[k - 1], t[k])]
  BY <1>6, <1>7
<1> QED
  BY <1>1, <1>8 DEF AreStates

\* The numbers of a triangle.
LEMMA TriangleNumbers ==
    ASSUME NEW t \in Triangles, NEW k \in 1 .. Len(t)
    PROVE  /\ DOMAIN t[k] = 1 .. k /\ Len(t[k]) = k
           /\ t[k] = [j \in 1 .. k |-> t[k][j]] /\ \A j \in 1 .. k : t[k][j] \in Int
<1>1. t \in Seq(Seq(Int)) /\ \A i \in DOMAIN t : Len(t[i]) = i
  BY YanghuiAssumption
<1>2. Len(t) \in Nat /\ DOMAIN t = 1 .. Len(t) /\ t = [i \in 1 .. Len(t) |-> t[i]]
  BY <1>1, LenProperties
<1>3. t[k] \in Seq(Int) /\ Len(t[k]) = k
  BY <1>1, <1>2
<1> QED
  BY <1>3, LenProperties

\* A level's states follow from those of the level above.
LEMMA StatesOf ==
    ASSUME NEW t \in Triangles
    PROVE  /\ States(t)[1] = t[1]
           /\ \A k \in 1 .. Len(t) - 1 : States(t)[k + 1] = Level(States(t)[k], t[k + 1])
<1>1. Len(t) \in Nat \ {0}
  BY TriangleFacts
<1>2. \A k \in 1 .. Len(t) : States(t)[k] = IF k = 1 THEN t[1] ELSE Level(States(t)[k - 1], t[k])
  BY StatesEquation DEF AreStates
<1>3. ASSUME NEW k \in 1 .. Len(t) - 1
      PROVE  States(t)[k + 1] = Level(States(t)[k], t[k + 1])
  <2>1. k + 1 \in 1 .. Len(t) /\ k + 1 # 1 /\ k + 1 - 1 = k
    BY <1>1
  <2> QED
    BY <1>2, <2>1
<1> QED
  BY <1>1, <1>2, <1>3

\* The states of level k are k numbers.
LEMMA StatesNumbers ==
    ASSUME NEW t \in Triangles, NEW k \in 1 .. Len(t)
    PROVE  /\ States(t)[k] = [j \in 1 .. k |-> States(t)[k][j]]
           /\ \A j \in 1 .. k : States(t)[k][j] \in Int
<1> DEFINE s == States(t)
           S == {n \in 1 .. Len(t) : /\ s[n] = [j \in 1 .. n |-> s[n][j]]
                                     /\ \A j \in 1 .. n : s[n][j] \in Int}
<1>1. Len(t) \in Nat \ {0}
  BY TriangleFacts
<1>2. 1 \in S
  <2>1. s[1] = t[1]
    BY StatesOf
  <2>2. t[1] = [j \in 1 .. 1 |-> t[1][j]] /\ \A j \in 1 .. 1 : t[1][j] \in Int
    <3>1. 1 \in 1 .. Len(t)
      BY <1>1
    <3> QED
      BY <3>1, TriangleNumbers
  <2> QED
    BY <1>1, <2>1, <2>2
<1>3. ASSUME NEW n \in Nat, n \in 1 .. Len(t) - 1, n \in S PROVE n + 1 \in S
  <2> HIDE DEF s
  <2>1. n + 1 \in 1 .. Len(t)
    BY <1>1, <1>3
  <2>2. s[n + 1] = [j \in 1 .. n + 1 |-> AddTask(s[n], t[n + 1], j)]
    <3>1. s[n + 1] = Level(s[n], t[n + 1])
      BY <1>3, StatesOf DEF s
    <3>2. DOMAIN t[n + 1] = 1 .. n + 1
      BY <2>1, TriangleNumbers
    <3> QED
      BY <3>1, <3>2 DEF Level
  <2>3. \A j \in 1 .. n + 1 : t[n + 1][j] \in Int
    BY <2>1, TriangleNumbers
  <2>4. Len(t[n + 1]) = n + 1
    BY <2>1, TriangleNumbers
  <2>5. \A j \in 1 .. n + 1 : AddTask(s[n], t[n + 1], j) \in Int
    <3>1. \A j \in 1 .. n : s[n][j] \in Int
      BY <1>3
    <3>2. ASSUME NEW j \in 1 .. n + 1 PROVE AddTask(s[n], t[n + 1], j) \in Int
      <4>1. t[n + 1][j] \in Int
        BY <2>3
      <4>2. CASE j = 1
        BY <1>3, <3>1, <4>1, <4>2 DEF AddTask
      <4>3. CASE j # 1 /\ j = n + 1
        BY <1>3, <2>4, <3>1, <4>1, <4>3 DEF AddTask
      <4>4. CASE j # 1 /\ j # n + 1
        <5>1. s[n][j - 1] \in Int /\ s[n][j] \in Int
          BY <1>3, <3>1, <4>4
        <5> QED
          BY <2>4, <4>1, <4>4, <5>1 DEF AddTask, Lesser
      <4> QED
        BY <4>2, <4>3, <4>4
    <3> QED
      BY <3>2
  <2> QED
    BY <2>1, <2>2, <2>5
<1> HIDE DEF S
<1>4. 1 .. Len(t) \subseteq S
  BY <1>1, <1>2, <1>3, InductionTo
<1> QED
  BY <1>4 DEF S

\* The sums of a path down, row by row.
AreSums(f, t, p, n) == f = [k \in 1 .. n |-> IF k = 1 THEN t[1][p[1]] ELSE f[k - 1] + t[k][p[k]]]

LEMMA SumsEquation ==
    ASSUME NEW t \in Triangles, NEW p
    PROVE  AreSums(PathSums(t, p), t, p, Len(t))
<1> DEFINE N == Len(t)
           S == {n \in 1 .. N : \E h : AreSums(h, t, p, n)}
<1>1. N \in Nat \ {0} /\ DOMAIN t = 1 .. N
  BY TriangleFacts
<1>2. 1 \in S
  <2> DEFINE f == [k \in 1 .. 1 |-> t[1][p[1]]]
  <2>1. f = [k \in 1 .. 1 |-> IF k = 1 THEN t[1][p[1]] ELSE f[k - 1] + t[k][p[k]]]
    OBVIOUS
  <2> HIDE DEF f
  <2>2. AreSums(f, t, p, 1)
    BY <2>1 DEF AreSums
  <2> QED
    BY <1>1, <2>2
<1>3. ASSUME NEW n \in Nat, n \in 1 .. N - 1, n \in S PROVE n + 1 \in S
  <2>1. PICK f : AreSums(f, t, p, n)
    BY <1>3
  <2> DEFINE g == [k \in 1 .. n + 1 |-> IF k = n + 1 THEN f[n] + t[n + 1][p[n + 1]] ELSE f[k]]
  <2>2. \A k \in 1 .. n : f[k] = IF k = 1 THEN t[1][p[1]] ELSE f[k - 1] + t[k][p[k]]
    BY <2>1 DEF AreSums
  <2>3. ASSUME NEW k \in 1 .. n + 1
        PROVE  g[k] = IF k = 1 THEN t[1][p[1]] ELSE g[k - 1] + t[k][p[k]]
    <3>1. CASE k = n + 1
      <4>1. g[k] = f[n] + t[n + 1][p[n + 1]] /\ k # 1 /\ k - 1 = n
        BY <1>3, <3>1
      <4>2. g[k - 1] = f[n]
        BY <1>3, <4>1
      <4> QED
        BY <3>1, <4>1, <4>2
    <3>2. CASE k # n + 1 /\ k # 1
      <4>1. g[k] = f[k] /\ g[k - 1] = f[k - 1]
        BY <1>3, <3>2
      <4> QED
        BY <2>2, <3>2, <4>1
    <3>3. CASE k # n + 1 /\ k = 1
      BY <1>3, <2>2, <3>3
    <3> QED
      BY <3>1, <3>2, <3>3
  <2>4. g = [k \in 1 .. n + 1 |-> g[k]]
    OBVIOUS
  <2> HIDE DEF g
  <2>5. g = [k \in 1 .. n + 1 |-> IF k = 1 THEN t[1][p[1]] ELSE g[k - 1] + t[k][p[k]]]
    BY <2>3, <2>4
  <2>6. AreSums(g, t, p, n + 1)
    BY <2>5 DEF AreSums
  <2> QED
    BY <1>1, <1>3, <2>6
<1> HIDE DEF S
<1>4. 1 .. N \subseteq S
  BY <1>1, <1>2, <1>3, InductionTo
<1>5. PICK f : AreSums(f, t, p, N)
  <2>1. N \in S
    BY <1>1, <1>4
  <2> QED
    BY <2>1 DEF S
<1>6. PathSums(t, p) = CHOOSE h : h = [k \in DOMAIN t |->
                                    IF k = 1 THEN t[1][p[1]] ELSE h[k - 1] + t[k][p[k]]]
  BY DEF PathSums
<1>7. f = [k \in DOMAIN t |-> IF k = 1 THEN t[1][p[1]] ELSE f[k - 1] + t[k][p[k]]]
  BY <1>1, <1>5 DEF AreSums
<1>8. PathSums(t, p) = [k \in DOMAIN t |->
                          IF k = 1 THEN t[1][p[1]] ELSE PathSums(t, p)[k - 1] + t[k][p[k]]]
  BY <1>6, <1>7
<1> QED
  BY <1>1, <1>8 DEF AreSums

LEMMA SumsOf ==
    ASSUME NEW t \in Triangles, NEW p
    PROVE  /\ PathSums(t, p)[1] = t[1][p[1]]
           /\ \A k \in 1 .. Len(t) - 1 : PathSums(t, p)[k + 1] = PathSums(t, p)[k] + t[k + 1][p[k + 1]]
<1>1. Len(t) \in Nat \ {0}
  BY TriangleFacts
<1>2. \A k \in 1 .. Len(t) : PathSums(t, p)[k] =
          IF k = 1 THEN t[1][p[1]] ELSE PathSums(t, p)[k - 1] + t[k][p[k]]
  BY SumsEquation DEF AreSums
<1>3. ASSUME NEW k \in 1 .. Len(t) - 1
      PROVE  PathSums(t, p)[k + 1] = PathSums(t, p)[k] + t[k + 1][p[k + 1]]
  <2>1. k + 1 \in 1 .. Len(t) /\ k + 1 # 1 /\ k + 1 - 1 = k
    BY <1>1
  <2> QED
    BY <1>2, <2>1
<1> QED
  BY <1>1, <1>2, <1>3

\* A path down is at one of the first k numbers of row k, and goes on to one of the two below.
LEMMA PathSteps ==
    ASSUME NEW t \in Triangles, NEW p \in PathsDown(t), NEW k \in 1 .. Len(t)
    PROVE  /\ p[1] = 1 /\ p[k] \in 1 .. k
           /\ k + 1 \in 1 .. Len(t) => p[k + 1] \in {p[k], p[k] + 1}
<1> DEFINE S == {n \in 1 .. Len(t) : p[n] \in 1 .. n}
<1>1. Len(t) \in Nat \ {0} /\ DOMAIN t = 1 .. Len(t)
  BY TriangleFacts
<1>2. p \in [1 .. Len(t) -> 1 .. Len(t)] /\ p[1] = 1
      /\ \A i \in 2 .. Len(t) : p[i] \in {p[i - 1], p[i - 1] + 1}
  BY <1>1 DEF PathsDown
<1>3. ASSUME NEW n \in 1 .. Len(t), n + 1 \in 1 .. Len(t)
      PROVE  p[n + 1] \in {p[n], p[n] + 1}
  <2>1. n + 1 \in 2 .. Len(t) /\ n + 1 - 1 = n
    BY <1>1, <1>3
  <2> QED
    BY <1>2, <2>1
<1>4. 1 \in S
  BY <1>1, <1>2
<1>5. ASSUME NEW n \in Nat, n \in 1 .. Len(t) - 1, n \in S PROVE n + 1 \in S
  <2>1. p[n + 1] \in {p[n], p[n] + 1} /\ n + 1 \in 1 .. Len(t)
    BY <1>1, <1>3, <1>5
  <2> QED
    BY <1>5, <2>1
<1> HIDE DEF S
<1>6. 1 .. Len(t) \subseteq S
  BY <1>1, <1>4, <1>5, InductionTo
<1> QED
  BY <1>2, <1>3, <1>6 DEF S

\* The task of a number below another: it has the least of the states above.
LEMMA TaskOf ==
    ASSUME NEW t \in Triangles, NEW k \in 1 .. Len(t) - 1, NEW j \in 1 .. k + 1
    PROVE  /\ States(t)[k + 1][j] = AddTask(States(t)[k], t[k + 1], j)
           /\ \A i \in 1 .. k : j \in {i, i + 1} =>
                 States(t)[k + 1][j] <= States(t)[k][i] + t[k + 1][j]
           /\ \E i \in 1 .. k : /\ j \in {i, i + 1}
                                /\ States(t)[k + 1][j] = States(t)[k][i] + t[k + 1][j]
<1> DEFINE s == States(t)
<1>1. Len(t) \in Nat /\ k \in Nat \ {0} /\ k \in 1 .. Len(t) /\ k + 1 \in 1 .. Len(t)
  BY TriangleFacts
<1>2. /\ DOMAIN t[k + 1] = 1 .. k + 1 /\ Len(t[k + 1]) = k + 1
      /\ \A i \in 1 .. k + 1 : t[k + 1][i] \in Int
  BY <1>1, TriangleNumbers
<1>3. s[k + 1][j] = AddTask(s[k], t[k + 1], j)
  <2>1. s[k + 1] = Level(s[k], t[k + 1])
    BY StatesOf
  <2> HIDE DEF s
  <2> QED
    BY <1>2, <2>1 DEF Level
<1>4. \A i \in 1 .. k : s[k][i] \in Int
  BY <1>1, StatesNumbers
<1> HIDE DEF s
<1>5. CASE j = 1
  <2>1. s[k + 1][j] = t[k + 1][j] + s[k][1] /\ 1 \in 1 .. k
    BY <1>1, <1>3, <1>5 DEF AddTask
  <2>2. \A i \in 1 .. k : j \in {i, i + 1} => i = 1
    BY <1>1, <1>5
  <2> QED
    BY <1>2, <1>3, <1>4, <1>5, <2>1, <2>2 DEF s
<1>6. CASE j = k + 1
  <2>1. s[k + 1][j] = t[k + 1][j] + s[k][k] /\ k \in 1 .. k
    BY <1>1, <1>2, <1>3, <1>6 DEF AddTask
  <2>2. \A i \in 1 .. k : j \in {i, i + 1} => i = k
    BY <1>1, <1>6
  <2> QED
    BY <1>1, <1>2, <1>3, <1>4, <1>6, <2>1, <2>2 DEF s
<1>7. CASE j # 1 /\ j # k + 1
  <2>1. s[k + 1][j] = t[k + 1][j] + Lesser(s[k][j - 1], s[k][j])
    BY <1>2, <1>3, <1>7 DEF AddTask
  <2>2. j \in 1 .. k /\ j - 1 \in 1 .. k /\ \A i \in 1 .. k : j \in {i, i + 1} => i \in {j - 1, j}
    BY <1>1, <1>7
  <2>3. s[k][j] \in Int /\ s[k][j - 1] \in Int /\ t[k + 1][j] \in Int
    BY <1>2, <1>4, <2>2
  <2>4. \A i \in 1 .. k : j \in {i, i + 1} => s[k + 1][j] <= s[k][i] + t[k + 1][j]
    BY <2>1, <2>2, <2>3 DEF Lesser
  <2>5. \E i \in {j - 1, j} : s[k + 1][j] = s[k][i] + t[k + 1][j]
    BY <2>1, <2>3 DEF Lesser
  <2>6. j \in {j - 1, j - 1 + 1} /\ j \in {j, j + 1}
    BY <1>1
  <2> QED
    BY <1>3, <2>2, <2>4, <2>5, <2>6 DEF s
<1> QED
  BY <1>5, <1>6, <1>7

\* No path to a number has a lesser sum than its state.
LEMMA NoPathIsLess ==
    ASSUME NEW t \in Triangles, NEW p \in PathsDown(t), NEW k \in 1 .. Len(t)
    PROVE  PathSums(t, p)[k] \in Int /\ States(t)[k][p[k]] <= PathSums(t, p)[k]
<1> DEFINE s == States(t)
           sums == PathSums(t, p)
           S == {n \in 1 .. Len(t) : sums[n] \in Int /\ s[n][p[n]] <= sums[n]}
<1>1. Len(t) \in Nat \ {0} /\ 1 \in 1 .. Len(t)
  BY TriangleFacts
<1>2. 1 \in S
  <2>1. sums[1] = t[1][1] /\ s[1] = t[1] /\ p[1] = 1
    BY <1>1, PathSteps, SumsOf, StatesOf
  <2>2. t[1][1] \in Int
    <3>1. \A j \in 1 .. 1 : t[1][j] \in Int
      BY <1>1, TriangleNumbers
    <3> QED
      BY <3>1
  <2> HIDE DEF s, sums
  <2> QED
    BY <1>1, <2>1, <2>2
<1>3. ASSUME NEW n \in Nat, n \in 1 .. Len(t) - 1, n \in S PROVE n + 1 \in S
  <2>1. n \in 1 .. Len(t) /\ n + 1 \in 1 .. Len(t)
    BY <1>1, <1>3
  <2>2. p[n] \in 1 .. n /\ p[n + 1] \in 1 .. n + 1 /\ p[n + 1] \in {p[n], p[n] + 1}
    BY <2>1, PathSteps
  <2>3. s[n + 1][p[n + 1]] <= s[n][p[n]] + t[n + 1][p[n + 1]]
    BY <1>3, <2>2, TaskOf
  <2>4. s[n][p[n]] \in Int /\ s[n + 1][p[n + 1]] \in Int
    BY <2>1, <2>2, StatesNumbers
  <2>5. t[n + 1][p[n + 1]] \in Int
    BY <2>1, <2>2, TriangleNumbers
  <2>6. sums[n + 1] = sums[n] + t[n + 1][p[n + 1]]
    BY <1>3, SumsOf
  <2> HIDE DEF s, sums
  <2> QED
    BY <1>3, <2>1, <2>3, <2>4, <2>5, <2>6
<1> HIDE DEF S
<1>4. 1 .. Len(t) \subseteq S
  BY <1>1, <1>2, <1>3, InductionTo
<1> QED
  BY <1>4 DEF S

\* Paths that agree down to row k have the same sums down to it.
LEMMA SameSums ==
    ASSUME NEW t \in Triangles, NEW p, NEW q, NEW k \in 1 .. Len(t),
           \A i \in 1 .. k : p[i] = q[i]
    PROVE  PathSums(t, p)[k] = PathSums(t, q)[k]
<1> DEFINE a == PathSums(t, p)
           b == PathSums(t, q)
           S == {n \in 1 .. k : a[n] = b[n]}
<1>1. Len(t) \in Nat /\ k \in Nat \ {0}
  BY TriangleFacts
<1>2. 1 \in S
  BY <1>1, SumsOf
<1>3. ASSUME NEW n \in Nat, n \in 1 .. k - 1, n \in S PROVE n + 1 \in S
  <2>1. n + 1 \in 1 .. k /\ n \in 1 .. Len(t) - 1
    BY <1>1, <1>3
  <2>2. a[n + 1] = a[n] + t[n + 1][p[n + 1]] /\ b[n + 1] = b[n] + t[n + 1][q[n + 1]]
    BY <2>1, SumsOf
  <2> HIDE DEF a, b
  <2> QED
    BY <1>3, <2>1, <2>2
<1> HIDE DEF S
<1>4. 1 .. k \subseteq S
  BY <1>1, <1>2, <1>3, InductionTo
<1> QED
  BY <1>1, <1>4 DEF S

\* Some path to a number has its state as sum.
LEMMA SomePathIsLeast ==
    ASSUME NEW t \in Triangles, NEW k \in 1 .. Len(t), NEW j \in 1 .. k
    PROVE  \E p \in PathsDown(t) : p[k] = j /\ PathSums(t, p)[k] = States(t)[k][j]
<1> DEFINE N == Len(t)
           s == States(t)
           S == {n \in 1 .. N : \A i \in 1 .. n : \E p \in PathsDown(t) :
                                   p[n] = i /\ PathSums(t, p)[n] = s[n][i]}
<1>1. N \in Nat \ {0} /\ 1 \in 1 .. N /\ DOMAIN t = 1 .. N
  BY TriangleFacts
<1>2. 1 \in S
  <2> DEFINE p == [i \in 1 .. N |-> 1]
  <2>1. p \in PathsDown(t)
    BY <1>1 DEF PathsDown
  <2>2. p[1] = 1
    BY <1>1
  <2> HIDE DEF p
  <2>3. PathSums(t, p)[1] = t[1][1] /\ s[1] = t[1]
    BY <2>2, SumsOf, StatesOf
  <2> HIDE DEF s
  <2> QED
    BY <1>1, <2>1, <2>2, <2>3
<1>3. ASSUME NEW n \in Nat, n \in 1 .. N - 1, n \in S PROVE n + 1 \in S
  <2>1. n \in 1 .. N /\ n + 1 \in 1 .. N
    BY <1>1, <1>3
  <2>2. ASSUME NEW i \in 1 .. n + 1
        PROVE  \E q \in PathsDown(t) : q[n + 1] = i /\ PathSums(t, q)[n + 1] = s[n + 1][i]
    <3>1. PICK h \in 1 .. n : i \in {h, h + 1} /\ s[n + 1][i] = s[n][h] + t[n + 1][i]
      BY <1>3, TaskOf
    <3> HIDE DEF s
    <3>2. PICK p \in PathsDown(t) : p[n] = h /\ PathSums(t, p)[n] = s[n][h]
      BY <1>3
    <3> DEFINE q == [m \in 1 .. N |-> IF m <= n THEN p[m] ELSE i]
    <3>3. p \in [1 .. N -> 1 .. N] /\ p[1] = 1
          /\ \A m \in 2 .. N : p[m] \in {p[m - 1], p[m - 1] + 1}
      BY <1>1 DEF PathsDown
    <3>4. q \in [1 .. N -> 1 .. N]
      BY <1>1, <2>1, <3>3
    <3>5. ASSUME NEW m \in 2 .. N PROVE q[m] \in {q[m - 1], q[m - 1] + 1}
      <4>1. m \in 1 .. N /\ m - 1 \in 1 .. N
        BY <1>1
      <4>2. CASE m <= n
        <5>1. q[m] = p[m] /\ q[m - 1] = p[m - 1]
          BY <2>1, <4>1, <4>2
        <5> QED
          BY <3>3, <5>1
      <4>3. CASE m = n + 1
        <5>1. q[m] = i /\ q[m - 1] = h
          BY <2>1, <3>2, <4>1, <4>3
        <5> QED
          BY <3>1, <5>1
      <4>4. CASE m > n + 1
        <5>1. q[m] = i /\ q[m - 1] = i
          BY <2>1, <4>1, <4>4
        <5> QED
          BY <5>1
      <4> QED
        BY <2>1, <4>1, <4>2, <4>3, <4>4
    <3>6. q[1] = 1 /\ q[n + 1] = i /\ \A m \in 1 .. n : q[m] = p[m]
      BY <1>1, <2>1, <3>3
    <3> HIDE DEF q
    <3>7. q \in PathsDown(t)
      BY <1>1, <3>4, <3>5, <3>6 DEF PathsDown
    <3>8. PathSums(t, q)[n] = PathSums(t, p)[n]
      <4>1. \A m \in 1 .. n : q[m] = p[m]
        BY <3>6
      <4>2. n \in 1 .. Len(t)
        BY <2>1
      <4> HIDE DEF S
      <4> QED
        BY <4>1, <4>2, SameSums
    <3>9. PathSums(t, q)[n + 1] = PathSums(t, q)[n] + t[n + 1][i]
      BY <1>3, <3>6, SumsOf
    <3> QED
      BY <3>1, <3>2, <3>6, <3>7, <3>8, <3>9
  <2> QED
    BY <2>1, <2>2
<1> HIDE DEF S
<1>4. 1 .. N \subseteq S
  BY <1>1, <1>2, <1>3, InductionTo
<1>5. k \in S
  BY <1>4
<1> QED
  BY <1>5 DEF S

\* What the client computes is the least sum of a path down.
LEMMA LocalIsLeast ==
    ASSUME NEW t \in Triangles
    PROVE  /\ LocalYanghuiJob(t) = LeastPathSum(t)
           /\ IsNumbers(States(t)[Len(t)])
<1> DEFINE N == Len(t)
           row == States(t)[N]
           S == {PathSums(t, p)[Len(t)] : p \in PathsDown(t)}
<1>1. N \in Nat \ {0} /\ N \in 1 .. Len(t)
  BY TriangleFacts
<1>2. row = [j \in 1 .. N |-> row[j]] /\ \A j \in 1 .. N : row[j] \in Int
  BY <1>1, StatesNumbers
<1>3. IsNumbers(row)
  <2> HIDE DEF row, N
  <2> QED
    BY <1>1, <1>2 DEF IsNumbers, IsRow
<1>4. PICK j \in 1 .. N : Least(row) = row[j] /\ \A i \in 1 .. N : Least(row) <= row[i]
  <2>1. DOMAIN row = 1 .. N
    BY <1>2
  <2>2. IsLeast(Least(row), row)
    BY <1>3, LeastOf
  <2> HIDE DEF row, N
  <2> QED
    BY <2>1, <2>2 DEF IsLeast
<1>5. Least(row) \in S
  <2>1. PICK p \in PathsDown(t) : PathSums(t, p)[N] = row[j]
    BY <1>1, SomePathIsLeast
  <2> QED
    BY <1>4, <2>1
<1>6. ASSUME NEW p \in PathsDown(t)
      PROVE  PathSums(t, p)[N] \in Int /\ Least(row) <= PathSums(t, p)[N]
  <2>1. PathSums(t, p)[N] \in Int /\ row[p[N]] <= PathSums(t, p)[N]
    BY <1>1, NoPathIsLess
  <2>2. p[N] \in 1 .. N
    BY <1>1, PathSteps
  <2> HIDE DEF row
  <2>3. Least(row) \in Int /\ row[p[N]] \in Int /\ Least(row) <= row[p[N]]
    BY <1>2, <1>4, <2>2
  <2> QED
    BY <2>1, <2>3
<1>7. Min(S) = Least(row)
  <2> HIDE DEF row
  <2>1. \A y \in S : y \in Int /\ Least(row) <= y
    BY <1>6
  <2> HIDE DEF S
  <2> QED
    BY <1>5, <2>1, MinIs
<1> QED
  BY <1>3, <1>7 DEF LocalYanghuiJob, LeastPathSum

-----------------------------------------------------------------------------
\* The values under way, as long as no worker has crashed: each belongs to the
\* triangle the client sent, and none is lost or stands in another's place.

Sent == jobClient.triangle
Answer == LocalYanghuiJob(Sent)

\* Numbers whose least one is the answer.
RightNumbers(row) == IsNumbers(row) /\ Least(row) = Answer

\* From row k on yanghui_count_path has the triangle's numbers.
RowsFrom(k) ==
    /\ DOMAIN path.data = 1 .. Len(Sent) /\ Len(path.data) = Len(Sent)
    /\ \A i \in k .. Len(Sent) : path.data[i] = Sent[i]

\* It can go on with level k, and it waits for the states of the next level.
PathReady(k) ==
    /\ k \in 1 .. Len(Sent) /\ RowsFrom(k)
    /\ \A j \in 1 .. k : j \in DOMAIN path.results /\ path.results[j] = States(Sent)[k][j]

PathWaits ==
    /\ path.index \in 1 .. Len(Sent) - 1 /\ RowsFrom(path.index + 1)
    /\ \A j \in DOMAIN path.results : path.results[j] = States(Sent)[path.index + 1][j]

\* The results yanghui_get_final_result has and the ones it waits for are numbers
\* whose least one is the answer.
MinWaits ==
    \E row : /\ RightNumbers(row) /\ DOMAIN row = 1 .. getMin.count
             /\ \A i \in DOMAIN getMin.results : getMin.results[i] = row[i]
             /\ \A task \in yTasks : task.value = row[task.id]

\* An actor of the priority job with the triangle: at the start of a level it has
\* the level's states, while it waits those whose tasks are done, at the end the last.
HasTriangle(p) ==
    /\ prio[p].data = Sent /\ prio[p].last = [j \in 1 .. Len(Sent) |-> prio[p].last[j]]
    /\ prio[p].level \in 1 .. Len(Sent) - 1

Ready(p) ==
    HasTriangle(p) /\ \A j \in 1 .. prio[p].level : prio[p].last[j] = States(Sent)[prio[p].level][j]

Waits(p) ==
    /\ HasTriangle(p)
    /\ \A j \in 1 .. prio[p].level + 1 :
          \/ \E task \in Tasks(p) : task.id = j
          \/ prio[p].last[j] = States(Sent)[prio[p].level + 1][j]

Done(p) == prio[p].last = States(Sent)[Len(Sent)]

MailIsRight(m) ==
    /\ m[1] = "client" => (m[3] => m[4] = Answer)
    /\ m[1] # "client" /\ m[2] = "triangle" => m[3] = Sent
    /\ m[1] = "path" /\ m[2] = "index" => PathReady(m[3])
    /\ m[1] = "balance" /\ m[2] = "row" => RightNumbers(m[3])
    /\ m[1] = "min" => RightNumbers(m[3])
    /\ m[1] = "balance" /\ m[2] = "result" => m[3] = Answer
    /\ m[1] \in Priority /\ m[2] = "start" => Ready(m[1])
    /\ m[1] \in Priority /\ m[2] = "end" => Done(m[1])
    /\ m[1] = "dispatcher" /\ m[2] = "result" => m[4] = Answer
    /\ m[1] = "priority" /\ m[2] = "pairs" => m[3][1][2] = Answer

TaskIsRight(task) ==
    /\ task.to = "path" => PathWaits /\ task.value = States(Sent)[path.index + 1][task.id]
    /\ task.to = "min" => MinWaits
    /\ task.to \in Priority /\ task.level # 0 =>
          /\ Waits(task.to) /\ task.id \in 1 .. prio[task.to].level + 1
          /\ task.value = States(Sent)[prio[task.to].level + 1][task.id]
    /\ task.to \in Priority /\ task.level = 0 => task.value = Answer

Values ==
    /\ yMail # {} \/ yTasks # {} => Sent \in Triangles
    /\ \A m \in yMail : MailIsRight(m)
    /\ \A task \in yTasks : TaskIsRight(task)
    /\ Len(pairs) = 1 => pairs[1][2] = Answer

ValuesInv == YanghuiInv /\ (crashes = 0 => Values)

\* Nothing under way, and one message under way.
LEMMA NoValues ==
    ASSUME yMail' = {}, yTasks' = {}, pairs' = <<>>
    PROVE  Values'
BY DEF Values

LEMMA OneValue ==
    ASSUME NEW x, yMail' = {x}, yTasks' = {}, pairs' = <<>>, Sent' \in Triangles, MailIsRight(x)'
    PROVE  Values'
BY DEF Values

\* A message is right as long as what it is about does not change.
LEMMA SameMail ==
    ASSUME NEW m, MailIsRight(m), Sent' = Sent,
           m[1] = "path" => path' = path,
           m[1] \in Priority => prio'[m[1]] = prio[m[1]]
    PROVE  MailIsRight(m)'
BY DEF MailIsRight, PathReady, RowsFrom, Ready, Done, HasTriangle, RightNumbers, Answer

\* A triangle that is passed on, and an answer.
LEMMA TriangleMail ==
    ASSUME NEW x, x[1] \in {"standard", "pool", "balance", "priority", "path", "dispatcher"} \cup Priority,
           x[2] = "triangle", x[3] = Sent'
    PROVE  MailIsRight(x)'
<1>1. x[1] # "client" /\ x[1] # "min"
  BY DEF Priority
<1> QED
  BY <1>1 DEF MailIsRight

LEMMA ClientMail ==
    ASSUME NEW x, x[1] = "client", x[3] => x[4] = Answer'
    PROVE  MailIsRight(x)'
BY DEF MailIsRight, Priority

\* Between two jobs, and when the client gets its answer.
LEMMA ClientValues ==
    ASSUME DataInv, jobClient.job \in {"none", "failed"}, yMail = {}, yTasks = {}, Calm,
           YanghuiNext, ~WorkerCrashes
    PROVE  Values'
<1>1. CASE \E t \in Triangles : \E job \in {"standard", "pool", "balance", "priority"} :
              ClientSends(job, t)
  <2>1. PICK t \in Triangles, job \in {"standard", "pool", "balance", "priority"} :
           ClientSends(job, t)
    BY <1>1
  <2>2. /\ jobClient'.triangle = t /\ yTasks' = {} /\ pairs' = <<>>
        /\ yMail' = {<<job, "triangle", t, jobClient.number>>}
    BY <2>1 DEF ClientSends, DataInv, ClientTypes, Calm
  <2>3. PICK x : x[1] = job /\ x[2] = "triangle" /\ x[3] = t /\ yMail' = {x}
    <3> DEFINE y == <<job, "triangle", t, jobClient.number>>
    <3>1. y[1] = job /\ y[2] = "triangle" /\ y[3] = t /\ yMail' = {y}
      BY <2>2
    <3> HIDE DEF y
    <3> QED
      BY <3>1
  <2>4. Sent' = t
    BY <2>2 DEF Sent
  <2>5. MailIsRight(x)'
    BY <2>3, <2>4, TriangleMail
  <2> QED
    BY <2>2, <2>3, <2>4, <2>5, OneValue
<1>2. CASE ClientTimesOut \/ ClientRestarts
  <2>1. yTasks' = {} /\ yMail' = {} /\ pairs' = <<>>
    BY <1>2 DEF ClientTimesOut, ClientRestarts, Calm
  <2> QED
    BY <2>1, NoValues
<1> QED
  BY <1>1, <1>2, Steps

LEMMA ClientGetsValue ==
    ASSUME Calm, yTasks = {}, NEW m, yMail = {m}, m[1] = "client", ClientReceives(m[3], m[4])
    PROVE  Values'
<1>1. /\ <<"client", jobClient.number, m[3], m[4]>> \in yMail
      /\ yMail' = yMail \ {<<"client", jobClient.number, m[3], m[4]>>}
      /\ UNCHANGED <<yTasks, pairs>>
  BY DEF ClientReceives, Handle
<1>2. yMail' = {}
  BY <1>1
<1> QED
  BY <1>1, <1>2, NoValues DEF Calm

\* The jobs of one actor: the client's own computation.
LEMMA OneActorValues ==
    ASSUME DataInv, crashes = 0, Values, jobClient.job \in {"standard", "pool"},
           OneMail({jobClient.job, "client"}), Calm, YanghuiNext, ~WorkerCrashes
    PROVE  Values'
<1>1. PICK m : yMail = {m} /\ m[1] \in {jobClient.job, "client"} /\ yTasks = {}
  BY DEF OneMail
<1>2. CASE \E msg \in yMail : msg[1] = "client" /\ ClientReceives(msg[3], msg[4])
  BY <1>1, <1>2, ClientGetsValue
<1>3. CASE YanghuiRuns
  <2>1. PICK t \in Triangles, c \in 1 .. jobClient.number, job \in {"standard", "pool"} :
           \E value \in {LocalYanghuiJob(t)} \cup (IF crashes > 0 THEN {MaxInt} ELSE {}) :
              /\ Handle(<<job, "triangle", t, c>>, {<<"client", c, TRUE, value>>})
              /\ UNCHANGED <<jobClient, yTasks, pairs>>
    BY <1>3 DEF YanghuiRuns
  <2> DEFINE y == <<job, "triangle", t, c>>
             x == <<"client", c, TRUE, LocalYanghuiJob(t)>>
  <2>2. y \in yMail /\ yMail' = (yMail \ {y}) \cup {x} /\ UNCHANGED <<jobClient, yTasks, pairs>>
    BY <2>1 DEF Handle
  <2>3. y[1] = job /\ y[2] = "triangle" /\ y[3] = t
    OBVIOUS
  <2>4. x[1] = "client" /\ x[4] = LocalYanghuiJob(t)
    OBVIOUS
  <2> HIDE DEF x, y
  <2>5. t = Sent
    BY <2>2, <2>3 DEF Values, MailIsRight
  <2>6. Sent' = Sent /\ Sent \in Triangles
    BY <2>1, <2>2, <2>5 DEF Sent
  <2>7. MailIsRight(x)'
    BY <2>4, <2>5, <2>6, ClientMail DEF Answer
  <2>8. yMail' = {x} /\ yTasks' = {} /\ pairs' = <<>>
    BY <1>1, <2>2 DEF Calm
  <2> QED
    BY <2>6, <2>7, <2>8, OneValue
<1>4. ~(\E t \in Triangles : \E job \in {"standard", "pool", "balance", "priority"} :
           ClientSends(job, t))
  BY DEF ClientSends
<1>5. ~ClientTimesOut /\ ~ClientRestarts
  BY <1>1 DEF ClientTimesOut, ClientRestarts
<1> QED
  BY <1>1, <1>2, <1>3, <1>4, <1>5, Steps DEF Priority

\* Numbers that are passed on to be compared, and a triangle's first row.
LEMMA NumbersMail ==
    ASSUME NEW x, x[1] = "min" \/ (x[1] = "balance" /\ x[2] = "row"), x[2] # "triangle",
           x[2] # "result", RightNumbers(x[3])'
    PROVE  MailIsRight(x)'
BY DEF MailIsRight, Priority

LEMMA IndexMail ==
    ASSUME NEW x, x[1] = "path", x[2] = "index", PathReady(x[3])'
    PROVE  MailIsRight(x)'
BY DEF MailIsRight, Priority

\* The messages of the load balance job that are only passed on.
LEMMA BalancePasses ==
    ASSUME Values, NEW m, yMail = {m}, yTasks = {}, pairs = <<>>, aliveActors = Pipeline,
           BalanceStarts \/ BalanceForwards \/ BalanceAnswers
    PROVE  Values'
<1>1. UNCHANGED <<jobClient, yTasks, pairs>>
  BY DEF BalanceStarts, BalanceForwards, BalanceAnswers
<1>2. Sent' = Sent /\ Answer' = Answer /\ Sent \in Triangles /\ MailIsRight(m)
  BY <1>1 DEF Sent, Answer, Values
<1>3. ASSUME NEW x, yMail' = {x}, MailIsRight(x)' PROVE Values'
  BY <1>1, <1>2, <1>3, OneValue
<1>4. CASE BalanceStarts
  <2>1. PICK t, c : Handle(<<"balance", "triangle", t, c>>, To(<<"path", "triangle", t>>))
    BY <1>4 DEF BalanceStarts
  <2> DEFINE y == <<"balance", "triangle", t, c>>
             x == <<"path", "triangle", t>>
  <2>2. /\ y[1] = "balance" /\ y[2] = "triangle" /\ y[3] = t
        /\ x[1] = "path" /\ x[2] = "triangle" /\ x[3] = t
    OBVIOUS
  <2>3. y \in yMail /\ yMail' = (yMail \ {y}) \cup {x}
    BY <2>1, <2>2 DEF Handle, To, Pipeline
  <2> HIDE DEF x, y
  <2>4. t = Sent /\ yMail' = {x}
    BY <1>2, <2>2, <2>3 DEF MailIsRight
  <2>5. MailIsRight(x)'
    BY <1>2, <2>2, <2>4, TriangleMail
  <2> QED
    BY <1>3, <2>4, <2>5
<1>5. CASE BalanceForwards
  <2>1. m[1] = "balance" /\ m[2] = "row" /\ Handle(m, To(<<"min", "numbers", m[3]>>))
    BY <1>5 DEF BalanceForwards
  <2> DEFINE x == <<"min", "numbers", m[3]>>
  <2>2. x[1] = "min" /\ x[2] = "numbers" /\ x[3] = m[3]
    OBVIOUS
  <2>3. yMail' = (yMail \ {m}) \cup {x}
    BY <2>1, <2>2 DEF Handle, To, Pipeline
  <2> HIDE DEF x
  <2>4. RightNumbers(m[3])
    BY <1>2, <2>1 DEF MailIsRight
  <2>5. RightNumbers(x[3])'
    BY <1>2, <2>2, <2>4 DEF RightNumbers
  <2>6. MailIsRight(x)'
    BY <2>2, <2>5, NumbersMail
  <2> QED
    BY <1>3, <2>3, <2>6
<1>6. CASE BalanceAnswers
  <2>1. /\ m[1] = "balance" /\ m[2] = "result"
        /\ Handle(m, {<<"client", jobSender.balance, TRUE, m[3]>>})
    BY <1>6 DEF BalanceAnswers
  <2>2. PICK x : x[1] = "client" /\ x[4] = m[3] /\ yMail' = {x}
    <3> DEFINE x == <<"client", jobSender.balance, TRUE, m[3]>>
    <3>1. x[1] = "client" /\ x[4] = m[3] /\ yMail' = {x}
      BY <2>1 DEF Handle
    <3> HIDE DEF x
    <3> QED
      BY <3>1
  <2>3. m[3] = Answer
    BY <1>2, <2>1 DEF MailIsRight
  <2>4. MailIsRight(x)'
    BY <1>2, <2>2, <2>3, ClientMail
  <2> QED
    BY <1>3, <2>2, <2>4
<1> QED
  BY <1>4, <1>5, <1>6

\* The first level is the triangle's number on top.
LEMMA PathStartsValues ==
    ASSUME DataInv, Values, NEW m, yMail = {m}, yTasks = {}, pairs = <<>>, aliveActors = Pipeline,
           PathStarts
    PROVE  Values'
<1>1. PICK t \in Triangles :
         /\ Handle(<<"path", "triangle", t>>, To(<<"path", "index", 1>>))
         /\ path' = [path EXCEPT !.data = t,
                 !.results = [i \in DOMAIN path.results \cup {1} |->
                                 IF i = 1 THEN t[1][1] ELSE path.results[i]]]
         /\ UNCHANGED <<jobClient, yTasks, pairs>>
  BY DEF PathStarts
<1> DEFINE y == <<"path", "triangle", t>>
           x == <<"path", "index", 1>>
<1>2. /\ y[1] = "path" /\ y[2] = "triangle" /\ y[3] = t
      /\ x[1] = "path" /\ x[2] = "index" /\ x[3] = 1
  OBVIOUS
<1>3. y \in yMail /\ yMail' = (yMail \ {y}) \cup {x}
  BY <1>1, <1>2 DEF Handle, To, Pipeline
<1> HIDE DEF x, y
<1>4. t = Sent /\ yMail' = {x}
  BY <1>2, <1>3 DEF Values, MailIsRight
<1>5. Sent' = t
  BY <1>1, <1>4 DEF Sent
<1>6. path'.data = t /\ 1 \in DOMAIN path'.results /\ path'.results[1] = t[1][1]
  BY <1>1 DEF DataInv, PathTypes
<1>7. Len(t) \in Nat /\ Len(t) > 1 /\ DOMAIN t = 1 .. Len(t) /\ States(t)[1] = t[1]
  BY TriangleFacts, StatesOf
<1>8. PathReady(1)'
  BY <1>5, <1>6, <1>7 DEF PathReady, RowsFrom
<1>9. MailIsRight(x)'
  <2>1. PathReady(x[3])'
    BY <1>2, <1>8
  <2> QED
    BY <1>2, <2>1, IndexMail
<1> QED
  BY <1>1, <1>4, <1>5, <1>9, OneValue

\* The row of a level that can go on holds the level's states.
LEMMA RowIsStates ==
    ASSUME Sent \in Triangles, NEW k, PathReady(k)
    PROVE  Row(k) = States(Sent)[k]
<1>1. k \in 1 .. Len(Sent) /\ Len(Sent) \in Nat /\ path.data[k] = Sent[k]
  BY TriangleFacts DEF PathReady, RowsFrom
<1>2. DOMAIN path.data[k] = 1 .. k
  BY <1>1, TriangleNumbers
<1>3. Row(k) = [j \in 1 .. k |-> States(Sent)[k][j]]
  BY <1>2 DEF Row, PathReady
<1> QED
  BY <1>1, <1>3, StatesNumbers

\* A level's states are written over its row; the tasks of the next have its states as results.
LEMMA PathLevelValues ==
    ASSUME DataInv, MailInv, Values, NEW m, yMail = {m}, yTasks = {}, pairs = <<>>, PathLevel
    PROVE  Values'
<1>1. PICK k \in Nat \ {0} :
         /\ <<"path", "index", k>> \in yMail
         /\ path'.data = [path.data EXCEPT ![k] = Row(k)] /\ path'.results = NoResults
         /\ \/ /\ k = Len(path.data)
               /\ Handle(<<"path", "index", k>>, {<<"balance", "row", Row(k)>>})
               /\ UNCHANGED yTasks
            \/ /\ k # Len(path.data)
               /\ Handle(<<"path", "index", k>>, {})
               /\ path'.index = k
               /\ yTasks' = yTasks \cup TasksOf("path", k, k + 1, LevelValues(k))
         /\ UNCHANGED <<jobClient, pairs>>
  BY LevelSteps
<1> DEFINE y == <<"path", "index", k>>
<1>2. y[1] = "path" /\ y[2] = "index" /\ y[3] = k /\ y \in yMail
  BY <1>1
<1>3. PathReady(k) /\ Sent \in Triangles
  <2> HIDE DEF y
  <2>1. PathReady(y[3]) /\ Sent \in Triangles
    BY <1>2 DEF Values, MailIsRight
  <2> QED
    BY <1>2, <2>1
<1>4. Row(k) = States(Sent)[k]
  BY <1>3, RowIsStates
<1>5. Sent' = Sent /\ Answer' = Answer
  BY <1>1 DEF Sent, Answer
<1>6. /\ Len(Sent) \in Nat /\ Len(Sent) > 1 /\ k \in 1 .. Len(Sent)
      /\ DOMAIN path.data = 1 .. Len(Sent) /\ Len(path.data) = Len(Sent)
      /\ \A i \in k .. Len(Sent) : path.data[i] = Sent[i]
  BY <1>3, TriangleFacts DEF PathReady, RowsFrom
<1>7. CASE /\ k = Len(path.data)
           /\ Handle(<<"path", "index", k>>, {<<"balance", "row", Row(k)>>})
           /\ UNCHANGED yTasks
  <2>1. PICK row : row = States(Sent)[Len(Sent)]
    OBVIOUS
  <2> DEFINE x == <<"balance", "row", row>>
  <2>2. x[1] = "balance" /\ x[2] = "row" /\ x[3] = row
    OBVIOUS
  <2>3. yMail' = {x}
    BY <1>4, <1>6, <1>7, <2>1 DEF Handle
  <2> HIDE DEF x
  <2>4. RightNumbers(row)
    BY <1>3, <2>1, LocalIsLeast DEF RightNumbers, Answer, LocalYanghuiJob
  <2>5. RightNumbers(x[3])'
    BY <1>5, <2>2, <2>4 DEF RightNumbers
  <2>6. MailIsRight(x)'
    BY <2>2, <2>5, NumbersMail
  <2> QED
    BY <1>1, <1>3, <1>5, <1>7, <2>3, <2>6, OneValue
<1>8. CASE /\ k # Len(path.data)
           /\ Handle(<<"path", "index", k>>, {})
           /\ path'.index = k
           /\ yTasks' = yTasks \cup TasksOf("path", k, k + 1, LevelValues(k))
  <2>1. yMail' = {} /\ yTasks' = TasksOf("path", k, k + 1, LevelValues(k))
    BY <1>8 DEF Handle
  <2>2. k \in 1 .. Len(Sent) - 1
    BY <1>6, <1>8
  <2>3. ASSUME NEW j \in 1 .. k + 1
        PROVE  LevelValues(k)[j] = States(Sent)[k + 1][j]
    <3>1. LevelValues(k)[j] = AddTask(States(Sent)[k], path.data[k + 1], j)
      BY <1>4 DEF LevelValues
    <3>2. path.data[k + 1] = Sent[k + 1]
      BY <1>6, <2>2
    <3> QED
      BY <1>3, <2>2, <3>1, <3>2, TaskOf
  <2>4. PathWaits'
    <3>1. DOMAIN path'.results = {}
      BY <1>1 DEF NoResults
    <3>2. path'.index + 1 = k + 1 /\ path'.index \in 1 .. Len(Sent') - 1
      BY <1>5, <1>8, <2>2
    <3>3. DOMAIN path'.data = 1 .. Len(Sent) /\ Len(path'.data) = Len(Sent)
      <4>1. PICK n \in Nat : path.data = [i \in 1 .. n |-> path.data[i]]
        BY DEF DataInv, PathTypes
      <4>2. n = Len(Sent)
        BY <1>6, <4>1
      <4>3. path'.data = [i \in 1 .. Len(Sent) |-> path'.data[i]]
        BY <1>1, <1>6
      <4>4. path'.data \in Seq({path'.data[i] : i \in 1 .. Len(Sent)})
        BY <1>6, <4>3
      <4> QED
        BY <1>6, <4>3, <4>4, LenProperties
    <3>4. \A i \in k + 1 .. Len(Sent) : path'.data[i] = Sent[i]
      BY <1>1, <1>6
    <3> QED
      BY <1>5, <1>8, <3>1, <3>2, <3>3, <3>4 DEF PathWaits, RowsFrom
  <2>5. ASSUME NEW task \in yTasks' PROVE TaskIsRight(task)'
    <3>1. PICK j \in 1 .. k + 1 : task = Task("path", k, j, LevelValues(k)[j])
      BY <2>1 DEF TasksOf
    <3>2. task.to = "path" /\ task.id = j /\ task.value = States(Sent)[k + 1][j]
      BY <2>3, <3>1 DEF Task
    <3>3. task.value = States(Sent')[path'.index + 1][task.id]
      BY <1>5, <1>8, <3>2
    <3> QED
      BY <2>4, <3>2, <3>3 DEF TaskIsRight, Priority
  <2> QED
    BY <1>1, <1>3, <1>5, <2>1, <2>5 DEF Values
<1> QED
  BY <1>1, <1>7, <1>8

\* One number is the answer; more are compared in parts, whose least ones have the same least.
LEMMA MinValues ==
    ASSUME MailInv, Values, NEW m, yMail = {m}, yTasks = {}, pairs = <<>>, MinNumbers
    PROVE  Values'
<1>1. /\ m[1] = "min" /\ IsRow(m[3])
      /\ \/ /\ Len(m[3]) = 1
            /\ Handle(m, {<<"balance", "result", m[3][1]>>})
            /\ UNCHANGED yTasks
         \/ /\ Handle(m, {})
            /\ getMin' = [count |-> Chunks(m[3]), results |-> NoResults]
            /\ yTasks' = yTasks \cup TasksOf("min", 0, Chunks(m[3]), ChunkValues(m[3]))
      /\ UNCHANGED <<jobClient, pairs>>
  BY MinSteps
<1>2. Sent' = Sent /\ Answer' = Answer /\ Sent \in Triangles /\ RightNumbers(m[3])
  BY <1>1 DEF Sent, Answer, Values, MailIsRight
<1>3. CASE /\ Len(m[3]) = 1
           /\ Handle(m, {<<"balance", "result", m[3][1]>>})
           /\ UNCHANGED yTasks
  <2> DEFINE x == <<"balance", "result", m[3][1]>>
  <2>1. x[1] = "balance" /\ x[2] = "result" /\ x[3] = m[3][1] /\ yMail' = {x}
    BY <1>3 DEF Handle
  <2> HIDE DEF x
  <2>2. m[3][1] = Answer
    <3>1. DOMAIN m[3] = 1 .. 1
      BY <1>1, <1>3, RowLength
    <3>2. IsLeast(m[3][1], m[3])
      BY <1>2, <3>1 DEF IsLeast, IsNumbers, RightNumbers
    <3> QED
      BY <1>2, <3>2, LeastIs DEF RightNumbers
  <2>3. MailIsRight(x)'
    BY <1>2, <2>1, <2>2 DEF MailIsRight, Priority
  <2> QED
    BY <1>1, <1>2, <1>3, <2>1, <2>3, OneValue
<1>4. CASE /\ Handle(m, {})
           /\ getMin' = [count |-> Chunks(m[3]), results |-> NoResults]
           /\ yTasks' = yTasks \cup TasksOf("min", 0, Chunks(m[3]), ChunkValues(m[3]))
  <2>1. yMail' = {} /\ yTasks' = TasksOf("min", 0, Chunks(m[3]), ChunkValues(m[3]))
    BY <1>4 DEF Handle
  <2>2. PICK row : row = ChunkValues(m[3])
    OBVIOUS
  <2>3. IsNumbers(row) /\ Least(row) = Answer'
    BY <1>2, <2>2, ChunksKeepLeast DEF RightNumbers
  <2>4. DOMAIN row = 1 .. Chunks(m[3])
    BY <2>2 DEF ChunkValues
  <2>5. ASSUME NEW task \in yTasks' PROVE task.to = "min" /\ task.value = row[task.id]
    BY <2>1, <2>2, <2>5 DEF TasksOf, Task
  <2>6. MinWaits'
    <3>1. DOMAIN getMin'.results = {} /\ getMin'.count = Chunks(m[3])
      BY <1>4 DEF NoResults
    <3> QED
      BY <2>3, <2>4, <2>5, <3>1 DEF MinWaits, RightNumbers
  <2>7. ASSUME NEW task \in yTasks' PROVE TaskIsRight(task)'
    BY <2>5, <2>6 DEF TaskIsRight, Priority
  <2> QED
    BY <1>1, <1>2, <2>1, <2>7 DEF Values
<1> QED
  BY <1>1, <1>3, <1>4

\* With as many results as there are places, every place has one.
LEMMA AllGot ==
    ASSUME NEW a, NEW results, NEW n \in Nat, NEW tasks, Awaited(a, results, n, tasks),
           NEW task \in tasks, Cardinality(DOMAIN Emplace(results, task)) = n
    PROVE  DOMAIN Emplace(results, task) = 1 .. n
<1> DEFINE new == Emplace(results, task)
<1>1. DOMAIN new = DOMAIN results \cup {task.id}
  BY DEF Emplace
<1> HIDE DEF new
<1>2. DOMAIN new \subseteq 1 .. n
  BY <1>1 DEF Awaited
<1>3. IsFiniteSet(1 .. n) /\ Cardinality(1 .. n) = n
  BY FS_Interval
<1>4. Cardinality(DOMAIN new) = n
  BY DEF new
<1>5. DOMAIN new = 1 .. n
  BY <1>2, <1>3, <1>4, FS_Subset
<1> QED
  BY <1>5 DEF new

\* The results of a level of the load balance job.
LEMMA PathResultValues ==
    ASSUME DataInv, aliveActors = Pipeline, pairs = <<>>, Values, yMail = {},
           NEW task \in yTasks, task.to = "path", PathResult(task),
           Awaited("path", path.results, path.index + 1, yTasks)
    PROVE  Values'
<1> DEFINE results == Emplace(path.results, task)
<1>1. /\ path' = [path EXCEPT !.results = results]
      /\ yTasks' = yTasks \ {task}
      /\ yMail' = IF Cardinality(DOMAIN results) = path.index + 1
                  THEN yMail \cup To(<<"path", "index", path.index + 1>>) ELSE yMail
      /\ UNCHANGED <<jobClient, pairs>>
  BY DEF PathResult
<1>2. path'.results = results /\ path'.index = path.index /\ path'.data = path.data
  <2> HIDE DEF results
  <2> QED
    BY <1>1 DEF DataInv, PathTypes
<1>3. path.index + 1 \in Nat
  BY DEF DataInv, PathTypes
<1>4. Sent' = Sent /\ Sent \in Triangles
  BY <1>1 DEF Sent, Values
<1>5. PathWaits /\ task.value = States(Sent)[path.index + 1][task.id]
  BY DEF Values, TaskIsRight
<1>6. \A i \in DOMAIN results : results[i] = States(Sent)[path.index + 1][i]
  BY <1>5 DEF PathWaits, Emplace
<1>7. IF Cardinality(DOMAIN results) = path.index + 1
      THEN yTasks \ {task} = {} /\ DOMAIN results = 1 .. path.index + 1
      ELSE Awaited("path", results, path.index + 1, yTasks \ {task})
  BY <1>3, OneAwaitedLess, AllGot
<1> HIDE DEF results
<1>8. CASE Cardinality(DOMAIN results) = path.index + 1
  <2>1. PICK k : k = path.index + 1
    OBVIOUS
  <2> DEFINE x == <<"path", "index", k>>
  <2>2. x[1] = "path" /\ x[2] = "index" /\ x[3] = k
    OBVIOUS
  <2>3. yMail' = {x}
    BY <1>1, <1>8, <2>1, <2>2 DEF To, Pipeline
  <2> HIDE DEF x
  <2>4. PathReady(k)'
    <3>1. Len(Sent) \in Nat
      BY <1>4, TriangleFacts
    <3>2. k \in 1 .. Len(Sent)
      BY <1>5, <2>1, <3>1 DEF PathWaits
    <3>3. RowsFrom(k)'
      BY <1>2, <1>4, <1>5, <2>1 DEF PathWaits, RowsFrom
    <3> QED
      BY <1>2, <1>4, <1>6, <1>7, <1>8, <2>1, <3>2, <3>3 DEF PathReady
  <2>5. MailIsRight(x)'
    <3>1. PathReady(x[3])'
      BY <2>2, <2>4
    <3> QED
      BY <2>2, <3>1, IndexMail
  <2> QED
    BY <1>1, <1>4, <1>7, <1>8, <2>3, <2>5, OneValue
<1>9. CASE Cardinality(DOMAIN results) # path.index + 1
  <2>1. PathWaits'
    BY <1>2, <1>4, <1>5, <1>6 DEF PathWaits, RowsFrom
  <2>2. ASSUME NEW other \in yTasks' PROVE TaskIsRight(other)'
    <3>1. other \in yTasks /\ other.to = "path"
      BY <1>1, <2>2 DEF Awaited
    <3>2. other.value = States(Sent)[path.index + 1][other.id]
      BY <3>1 DEF Values, TaskIsRight
    <3>3. other.value = States(Sent')[path'.index + 1][other.id]
      BY <1>2, <1>4, <3>2
    <3> QED
      BY <2>1, <3>1, <3>3 DEF TaskIsRight, Priority
  <2>3. yMail' = {}
    BY <1>1, <1>9
  <2> QED
    BY <1>1, <1>4, <2>2, <2>3 DEF Values
<1> QED
  BY <1>8, <1>9

\* And those of the comparisons.
LEMMA MinResultValues ==
    ASSUME DataInv, aliveActors = Pipeline, pairs = <<>>, Values, yMail = {},
           NEW task \in yTasks, task.to = "min", MinResult(task),
           Awaited("min", getMin.results, getMin.count, yTasks)
    PROVE  Values'
<1> DEFINE results == Emplace(getMin.results, task)
<1>1. /\ getMin' = [getMin EXCEPT !.results = results]
      /\ yTasks' = yTasks \ {task}
      /\ yMail' = IF Cardinality(DOMAIN results) = getMin.count
                  THEN yMail \cup To(<<"min", "numbers", [i \in 1 .. getMin.count |-> results[i]]>>)
                  ELSE yMail
      /\ UNCHANGED <<jobClient, pairs>>
  BY DEF MinResult
<1>2. getMin'.results = results /\ getMin'.count = getMin.count /\ getMin.count \in Nat
  <2> HIDE DEF results
  <2> QED
    BY <1>1 DEF DataInv, MinTypes
<1>3. Sent' = Sent /\ Answer' = Answer /\ Sent \in Triangles
  BY <1>1 DEF Sent, Answer, Values
<1>4. PICK row : /\ RightNumbers(row) /\ DOMAIN row = 1 .. getMin.count
                 /\ \A i \in DOMAIN getMin.results : getMin.results[i] = row[i]
                 /\ \A other \in yTasks : other.value = row[other.id]
  BY DEF Values, TaskIsRight, MinWaits
<1>5. \A i \in DOMAIN results : results[i] = row[i]
  <2>1. task.value = row[task.id]
    BY <1>4
  <2>2. \A i \in DOMAIN getMin.results : getMin.results[i] = row[i]
    BY <1>4
  <2> QED
    BY <2>1, <2>2 DEF Emplace
<1>6. IF Cardinality(DOMAIN results) = getMin.count
      THEN yTasks \ {task} = {} /\ DOMAIN results = 1 .. getMin.count
      ELSE Awaited("min", results, getMin.count, yTasks \ {task})
  BY <1>2, OneAwaitedLess, AllGot
<1> HIDE DEF results
<1>7. CASE Cardinality(DOMAIN results) = getMin.count
  <2> DEFINE x == <<"min", "numbers", row>>
  <2>1. x[1] = "min" /\ x[2] = "numbers" /\ x[3] = row
    OBVIOUS
  <2>2. [i \in 1 .. getMin.count |-> results[i]] = row
    <3>1. row = [i \in 1 .. getMin.count |-> row[i]]
      BY <1>4 DEF RightNumbers, IsNumbers, IsRow
    <3>2. \A i \in 1 .. getMin.count : results[i] = row[i]
      BY <1>5, <1>6, <1>7
    <3> QED
      BY <3>1, <3>2
  <2>3. yMail' = {x}
    BY <1>1, <1>7, <2>1, <2>2 DEF To, Pipeline
  <2> HIDE DEF x
  <2>4. RightNumbers(x[3])'
    BY <1>3, <1>4, <2>1 DEF RightNumbers
  <2>5. MailIsRight(x)'
    BY <2>1, <2>4, NumbersMail
  <2> QED
    BY <1>1, <1>3, <1>6, <1>7, <2>3, <2>5, OneValue
<1>8. CASE Cardinality(DOMAIN results) # getMin.count
  <2>1. MinWaits'
    <3>1. RightNumbers(row)'
      BY <1>3, <1>4 DEF RightNumbers
    <3>2. \A other \in yTasks' : other.value = row[other.id]
      BY <1>1, <1>4
    <3> QED
      BY <1>2, <1>4, <1>5, <3>1, <3>2 DEF MinWaits
  <2>2. ASSUME NEW other \in yTasks' PROVE TaskIsRight(other)'
    <3>1. other.to = "min"
      BY <1>1, <2>2 DEF Awaited
    <3> QED
      BY <2>1, <3>1 DEF TaskIsRight, Priority
  <2>3. yMail' = {}
    BY <1>1, <1>8
  <2> QED
    BY <1>1, <1>3, <2>2, <2>3 DEF Values
<1> QED
  BY <1>7, <1>8

\* Whatever the load balance job does.
LEMMA BalanceValues ==
    ASSUME DataInv, MailInv, aliveActors = Pipeline, Values, Calm, BalanceInv,
           jobClient.job = "balance", YanghuiNext, ~WorkerCrashes
    PROVE  Values'
<1>1. pairs = <<>>
  BY DEF Calm
<1>2. ~(\E t \in Triangles : \E job \in {"standard", "pool", "balance", "priority"} :
           ClientSends(job, t))
  BY DEF ClientSends
<1>3. CASE OneMail({"balance", "path", "min", "client"})
  <2>1. PICK m : yMail = {m} /\ m[1] \in {"balance", "path", "min", "client"} /\ yTasks = {}
    BY <1>3 DEF OneMail
  <2>2. CASE \E msg \in yMail : msg[1] = "client" /\ ClientReceives(msg[3], msg[4])
    BY <2>1, <2>2, ClientGetsValue
  <2>3. CASE BalanceStarts \/ BalanceForwards \/ BalanceAnswers
    BY <1>1, <2>1, <2>3, BalancePasses
  <2>4. CASE PathStarts
    BY <1>1, <2>1, <2>4, PathStartsValues
  <2>5. CASE PathLevel
    BY <1>1, <2>1, <2>5, PathLevelValues
  <2>6. CASE MinNumbers
    BY <1>1, <2>1, <2>6, MinValues
  <2>7. ~ClientTimesOut /\ ~ClientRestarts
    BY <2>1 DEF ClientTimesOut, ClientRestarts
  <2> QED
    BY <1>2, <2>1, <2>2, <2>3, <2>4, <2>5, <2>6, <2>7, Steps DEF Priority
<1>4. CASE /\ yMail = {}
           /\ \/ Awaited("path", path.results, path.index + 1, yTasks)
              \/ Awaited("min", getMin.results, getMin.count, yTasks)
  <2>1. yTasks # {} /\ \A task \in yTasks : task.to \in {"path", "min"}
    BY <1>4 DEF Awaited
  <2>2. ASSUME NEW task \in yTasks, task.to = "path", PathResult(task) PROVE Values'
    <3>1. Awaited("path", path.results, path.index + 1, yTasks)
      BY <1>4, <2>2 DEF Awaited
    <3> QED
      BY <1>1, <1>4, <2>2, <3>1, PathResultValues
  <2>3. ASSUME NEW task \in yTasks, task.to = "min", MinResult(task) PROVE Values'
    <3>1. Awaited("min", getMin.results, getMin.count, yTasks)
      BY <1>4, <2>3 DEF Awaited
    <3> QED
      BY <1>1, <1>4, <2>3, <3>1, MinResultValues
  <2>4. ~ClientTimesOut /\ ~ClientRestarts
    BY <2>1 DEF ClientTimesOut, ClientRestarts
  <2>5. \A p \in Priority : p \notin {"path", "min"}
    BY DEF Priority
  <2> QED
    BY <1>2, <1>4, <2>1, <2>2, <2>3, <2>4, <2>5, Steps
<1> QED
  BY <1>3, <1>4 DEF BalanceInv

-----------------------------------------------------------------------------
\* The values of the priority job.

\* Before its actors have the triangle, and after the dispatcher has both results.
LEMMA PriorityMailValues ==
    ASSUME DataInv, aliveActors = Pipeline, jobClient.job = "priority", Calm, Values,
           OneMail({"priority", "dispatcher", "client"}),
           \A m \in yMail : m[1] = "dispatcher" => m[2] = "triangle",
           YanghuiNext, ~WorkerCrashes
    PROVE  Values'
<1>1. PICK m : yMail = {m} /\ m[1] \in {"priority", "dispatcher", "client"} /\ yTasks = {}
  BY DEF OneMail
<1>2. CASE \E msg \in yMail : msg[1] = "client" /\ ClientReceives(msg[3], msg[4])
  BY <1>1, <1>2, ClientGetsValue
<1>3. CASE PriorityJobStarts \/ PriorityJobAnswers \/ Dispatch \/ Collect
  <2>1. ~Collect
    BY <1>1 DEF Collect
  <2>2. UNCHANGED <<jobClient, yTasks, pairs>>
    BY <1>3, <2>1 DEF PriorityJobStarts, PriorityJobAnswers, Dispatch
  <2>3. /\ Sent' = Sent /\ Answer' = Answer /\ Sent \in Triangles /\ MailIsRight(m)
        /\ yTasks' = {} /\ pairs' = <<>>
    BY <1>1, <2>2 DEF Sent, Answer, Values, Calm
  <2>4. CASE PriorityJobStarts
    <3>1. PICK t, c : Handle(<<"priority", "triangle", t, c>>, {<<"dispatcher", "triangle", t>>})
      BY <2>4 DEF PriorityJobStarts
    <3> DEFINE y == <<"priority", "triangle", t, c>>
               x == <<"dispatcher", "triangle", t>>
    <3>2. /\ y[1] = "priority" /\ y[2] = "triangle" /\ y[3] = t
          /\ x[1] = "dispatcher" /\ x[2] = "triangle" /\ x[3] = t
      OBVIOUS
    <3>3. y \in yMail /\ yMail' = (yMail \ {y}) \cup {x}
      BY <3>1 DEF Handle
    <3> HIDE DEF x, y
    <3>4. t = Sent /\ yMail' = {x}
      BY <1>1, <2>3, <3>2, <3>3 DEF MailIsRight
    <3>5. MailIsRight(x)'
      BY <2>3, <3>2, <3>4, TriangleMail
    <3> QED
      BY <2>3, <3>4, <3>5, OneValue
  <2>5. CASE PriorityJobAnswers
    <3>1. PICK right :
             /\ m[1] = "priority" /\ m[2] = "pairs"
             /\ Handle(m, {<<"client", jobSender.priority, right,
                             IF right THEN m[3][1][2] ELSE 0>>})
      BY <1>1, <2>5 DEF PriorityJobAnswers
    <3>2. PICK x : /\ x[1] = "client" /\ x[3] = right
                   /\ x[4] = (IF right THEN m[3][1][2] ELSE 0) /\ yMail' = {x}
      <4> DEFINE x == <<"client", jobSender.priority, right, IF right THEN m[3][1][2] ELSE 0>>
      <4>1. x[1] = "client" /\ x[3] = right /\ x[4] = (IF right THEN m[3][1][2] ELSE 0)
        OBVIOUS
      <4>2. yMail' = {x}
        BY <1>1, <3>1 DEF Handle
      <4> HIDE DEF x
      <4> QED
        BY <4>1, <4>2
    <3>3. m[3][1][2] = Answer
      BY <2>3, <3>1 DEF MailIsRight
    <3>4. x[3] => x[4] = Answer'
      BY <2>3, <3>2, <3>3
    <3>5. MailIsRight(x)'
      BY <3>2, <3>4, ClientMail
    <3> QED
      BY <2>3, <3>2, <3>5, OneValue
  <2>6. CASE Dispatch
    <3>1. PICK t \in Triangles :
             Handle(<<"dispatcher", "triangle", t>>, UNION {To(<<p, "triangle", t>>) : p \in Priority})
      BY <2>6 DEF Dispatch
    <3> DEFINE x(p) == <<p, "triangle", t>>
               y == <<"dispatcher", "triangle", t>>
    <3>2. y[1] = "dispatcher" /\ y[2] = "triangle" /\ y[3] = t
      OBVIOUS
    <3>3. y \in yMail
      BY <3>1 DEF Handle
    <3>4. \A p \in Priority :
             x(p)[1] = p /\ x(p)[2] = "triangle" /\ x(p)[3] = t /\ To(x(p)) = {x(p)}
      BY DEF To, Pipeline
    <3>5. yMail' = UNION {To(x(p)) : p \in Priority}
      BY <1>1, <3>1 DEF Handle
    <3> HIDE DEF x, y
    <3>6. yMail' = {x(p) : p \in Priority}
      BY <3>4, <3>5
    <3>7. t = Sent
      BY <1>1, <2>3, <3>2, <3>3 DEF MailIsRight
    <3>8. ASSUME NEW msg \in yMail' PROVE MailIsRight(msg)'
      <4>1. msg[1] \in Priority /\ msg[2] = "triangle" /\ msg[3] = Sent'
        BY <2>3, <3>4, <3>6, <3>7
      <4> QED
        BY <4>1, TriangleMail
    <3> QED
      BY <2>3, <3>8 DEF Values
  <2> QED
    BY <1>3, <2>1, <2>4, <2>5, <2>6
<1>4. ~(\E t \in Triangles : \E job \in {"standard", "pool", "balance", "priority"} :
           ClientSends(job, t))
  BY DEF ClientSends
<1>5. ~ClientTimesOut /\ ~ClientRestarts
  BY <1>1 DEF ClientTimesOut, ClientRestarts
<1> QED
  BY <1>1, <1>2, <1>3, <1>4, <1>5, Steps DEF Priority

\* A task of the priority job is right as long as its actor does not change.
LEMMA SameTask ==
    ASSUME NEW task, TaskIsRight(task), task.to \in Priority, Sent' = Sent,
           prio'[task.to] = prio[task.to], Tasks(task.to)' = Tasks(task.to)
    PROVE  TaskIsRight(task)'
<1>1. task.to \notin {"path", "min"}
  BY DEF Priority
<1> QED
  BY <1>1 DEF TaskIsRight, Waits, HasTriangle, Answer

\* One of the actors goes on.
LEMMA OneGoesOnRight ==
    ASSUME Split, Values, NEW p \in Priority, UNCHANGED <<pairs, jobClient>>, Sent \in Triangles,
           \A m \in yMail' : (m \in yMail /\ m[1] # p) \/ MailIsRight(m)',
           \A task \in yTasks' : task.to = p => TaskIsRight(task)',
           \A task \in yTasks' : task.to # p => task \in yTasks,
           \A q \in Priority \ {p} : prio'[q] = prio[q] /\ Tasks(q)' = Tasks(q)
    PROVE  Values'
<1>1. Sent' = Sent /\ Answer' = Answer
  BY DEF Sent, Answer
<1>2. ASSUME NEW m \in yMail', m \in yMail, m[1] # p PROVE MailIsRight(m)'
  <2>1. m[1] # "path" /\ MailIsRight(m) /\ (m[1] \in Priority => prio'[m[1]] = prio[m[1]])
    BY <1>2 DEF Split, Theirs, Priority, Values
  <2> QED
    BY <1>1, <2>1, SameMail
<1>3. ASSUME NEW task \in yTasks', task.to # p PROVE TaskIsRight(task)'
  <2>1. task \in yTasks
    BY <1>3
  <2>2. task.to \in Priority \ {p} /\ TaskIsRight(task)
    BY <1>3, <2>1 DEF Split, Theirs, Values
  <2>3. prio'[task.to] = prio[task.to] /\ Tasks(task.to)' = Tasks(task.to)
    BY <2>2
  <2> QED
    BY <1>1, <2>2, <2>3, SameTask
<1> QED
  BY <1>1, <1>2, <1>3 DEF Values

\* A task needs the states above its number only.
LEMMA SameAdd ==
    ASSUME NEW t \in Triangles, NEW k \in 1 .. Len(t) - 1, NEW above,
           \A i \in 1 .. k : above[i] = States(t)[k][i], NEW j \in 1 .. k + 1
    PROVE  AddTask(above, t[k + 1], j) = States(t)[k + 1][j]
<1>1. k \in Nat \ {0} /\ k + 1 \in 1 .. Len(t) /\ Len(t) \in Nat
  BY TriangleFacts
<1>2. Len(t[k + 1]) = k + 1
  BY <1>1, TriangleNumbers
<1>3. States(t)[k + 1][j] = AddTask(States(t)[k], t[k + 1], j)
  BY TaskOf
<1>4. AddTask(above, t[k + 1], j) = AddTask(States(t)[k], t[k + 1], j)
  <2>1. CASE j = 1
    BY <1>1, <2>1 DEF AddTask
  <2>2. CASE j # 1 /\ j = k + 1
    BY <1>1, <1>2, <2>2 DEF AddTask
  <2>3. CASE j # 1 /\ j # k + 1
    BY <1>1, <1>2, <2>3 DEF AddTask, Lesser
  <2> QED
    BY <2>1, <2>2, <2>3
<1> QED
  BY <1>3, <1>4

LEMMA ReadyMail ==
    ASSUME NEW x, NEW p \in Priority, x[1] = p,
           \/ x[2] = "start" /\ Ready(p)'
           \/ x[2] = "end" /\ Done(p)'
    PROVE  MailIsRight(x)'
BY DEF MailIsRight, Priority

LEMMA TakesValues ==
    ASSUME DataInv, Split, Values, NEW p \in Priority, PriorityTakes(p)
    PROVE  Values'
<1>1. PICK t \in Triangles :
         /\ Handle(<<p, "triangle", t>>, {<<p, "start">>})
         /\ prio' = [prio EXCEPT ![p].data = t,
                         ![p].last = [j \in DOMAIN t |-> IF j = 1 THEN t[1][1] ELSE 0]]
  BY DEF PriorityTakes
<1> DEFINE m == <<p, "triangle", t>>
           x == <<p, "start">>
           first == [j \in DOMAIN t |-> IF j = 1 THEN t[1][1] ELSE 0]
           new == [[prio[p] EXCEPT !.data = t] EXCEPT !.last = first]
<1>2. /\ m[1] = p /\ m[2] = "triangle" /\ m[3] = t /\ x[1] = p /\ x[2] = "start"
      /\ m \in yMail /\ yMail' = (yMail \ {m}) \cup {x}
  BY <1>1 DEF Handle
<1>3. prio' = [prio EXCEPT ![p] = new]
  <2> HIDE DEF first
  <2> QED
    BY <1>1 DEF DataInv, PriorityTypes, first
<1>4. new.level = prio[p].level /\ new.data = t /\ new.last = first
  <2> HIDE DEF first
  <2> QED
    BY DEF DataInv, PriorityTypes
<1> HIDE DEF m, x, new
<1>5. UNCHANGED <<yTasks, pairs, jobClient>>
  BY DEF PriorityTakes
<1>6. Tasks(p) = {} /\ Mails(p) = {m} /\ Rested(p)
  BY <1>2, WithMail DEF About, IsStart
<1>7. prio'[p] = new /\ \A q \in Priority \ {p} : prio'[q] = prio[q]
  BY <1>3 DEF DataInv, PriorityTypes
<1>8. t = Sent /\ Sent' = t /\ Sent \in Triangles
  BY <1>2, <1>5 DEF Values, MailIsRight, Sent, Priority
<1>9. /\ Len(t) \in Nat /\ Len(t) > 1 /\ States(t)[1] = t[1]
      /\ first = [j \in 1 .. Len(t) |-> first[j]] /\ first[1] = t[1][1]
  BY TriangleFacts, StatesOf
<1>10. Ready(p)'
  <2> HIDE DEF first
  <2>1. prio'[p].level = 1 /\ prio'[p].data = t /\ prio'[p].last = first
    BY <1>4, <1>6, <1>7 DEF Rested
  <2>2. HasTriangle(p)'
    BY <1>8, <1>9, <2>1 DEF HasTriangle
  <2> QED
    BY <1>8, <1>9, <2>1, <2>2 DEF Ready
<1>11. \A y \in yMail' : (y \in yMail /\ y[1] # p) \/ MailIsRight(y)'
  <2>1. MailIsRight(x)'
    BY <1>2, <1>10, ReadyMail
  <2>2. ASSUME NEW y \in yMail, y[1] = p PROVE y = m
    BY <1>6, <2>2 DEF Mails, About
  <2> QED
    BY <1>2, <2>1, <2>2
<1>12. \A task \in yTasks' : task.to # p
  BY <1>5, <1>6 DEF Tasks
<1>13. \A q \in Priority \ {p} : prio'[q] = prio[q] /\ Tasks(q)' = Tasks(q)
  BY <1>5, <1>7 DEF Tasks
<1> QED
  BY <1>5, <1>8, <1>11, <1>12, <1>13, OneGoesOnRight

LEMMA LevelValuesRight ==
    ASSUME DataInv, Split, Values, NEW p \in Priority, PriorityLevel(p)
    PROVE  Values'
<1>1. PICK k : k = prio[p].level
  OBVIOUS
<1>2. PICK f : f = [j \in 1 .. k + 1 |-> AddTask(prio[p].last, prio[p].data[k + 1], j)]
  OBVIOUS
<1> DEFINE m == <<p, "start">>
           new == TasksOf(p, k, k + 1, f)
<1>3. yTasks' = yTasks \cup new
  BY <1>1, <1>2 DEF PriorityLevel, TasksOf
<1>4. m[1] = p /\ m[2] = "start" /\ m \in yMail /\ yMail' = yMail \ {m}
  BY DEF PriorityLevel, Handle
<1>5. UNCHANGED <<prio, pairs, jobClient>>
  BY DEF PriorityLevel
<1> HIDE DEF m
<1>6. Tasks(p) = {} /\ Mails(p) = {m}
  BY <1>4, WithMail DEF About, IsStart
<1>7. Ready(p) /\ Sent \in Triangles /\ Sent' = Sent
  BY <1>4, <1>5 DEF Values, MailIsRight, Sent
<1>8. k \in 1 .. Len(Sent) - 1 /\ k \in Nat \ {0} /\ Len(Sent) \in Nat
  BY <1>1, <1>7, TriangleFacts DEF Ready, HasTriangle
<1>9. ASSUME NEW j \in 1 .. k + 1 PROVE f[j] = States(Sent)[k + 1][j]
  <2>1. \A i \in 1 .. k : prio[p].last[i] = States(Sent)[k][i]
    BY <1>1, <1>7 DEF Ready
  <2>2. AddTask(prio[p].last, Sent[k + 1], j) = States(Sent)[k + 1][j]
    BY <1>7, <1>8, <2>1, SameAdd
  <2> QED
    BY <1>1, <1>2, <1>7, <2>2 DEF Ready, HasTriangle
<1>10. \A task \in new :
          /\ task.to = p /\ task.level = k /\ task.id \in 1 .. k + 1
          /\ task.value = States(Sent)[k + 1][task.id]
  BY <1>9 DEF TasksOf, Task
<1>11. \A j \in 1 .. k + 1 : \E task \in new : task.id = j
  <2>1. \A j \in 1 .. k + 1 : Task(p, k, j, f[j]) \in new /\ Task(p, k, j, f[j]).id = j
    BY DEF TasksOf, Task
  <2> HIDE DEF new
  <2> QED
    BY <2>1
<1> HIDE DEF new
<1>12. Tasks(p)' = new
  BY <1>3, <1>6, <1>10 DEF Tasks
<1>13. Waits(p)'
  <2>1. HasTriangle(p)'
    BY <1>5, <1>7 DEF Ready, HasTriangle
  <2> QED
    BY <1>1, <1>5, <1>11, <1>12, <2>1 DEF Waits
<1>14. \A task \in yTasks' : task.to = p => TaskIsRight(task)'
  <2>1. ASSUME NEW task \in new PROVE TaskIsRight(task)'
    <3>1. task.to = p /\ task.to \notin {"path", "min"} /\ task.level # 0
      BY <1>8, <1>10 DEF Priority
    <3>2. task.id \in 1 .. prio'[p].level + 1
          /\ task.value = States(Sent')[prio'[p].level + 1][task.id]
      BY <1>1, <1>5, <1>7, <1>10
    <3> QED
      BY <1>13, <3>1, <3>2 DEF TaskIsRight
  <2> QED
    BY <1>12, <2>1 DEF Tasks
<1>15. \A task \in yTasks' : task.to # p => task \in yTasks
  BY <1>3, <1>10
<1>16. \A y \in yMail' : y \in yMail /\ y[1] # p
  BY <1>4, <1>6 DEF Mails, About
<1>17. \A q \in Priority \ {p} : prio'[q] = prio[q] /\ Tasks(q)' = Tasks(q)
  BY <1>3, <1>5, <1>10 DEF Tasks
<1> QED
  BY <1>5, <1>7, <1>14, <1>15, <1>16, <1>17, OneGoesOnRight

LEMMA EndsValues ==
    ASSUME DataInv, Split, Values, NEW p \in Priority, PriorityEnds(p)
    PROVE  Values'
<1>1. PICK new : new = Task(p, 0, 0, Least(prio[p].last))
  OBVIOUS
<1> DEFINE m == <<p, "end">>
<1>2. yTasks' = yTasks \cup {new} /\ new.to = p /\ new.level = 0 /\ new.value = Least(prio[p].last)
  BY <1>1 DEF PriorityEnds, Task
<1>3. m[1] = p /\ m[2] = "end" /\ m \in yMail /\ yMail' = yMail \ {m}
  BY DEF PriorityEnds, Handle
<1>4. UNCHANGED <<prio, pairs, jobClient>>
  BY DEF PriorityEnds
<1> HIDE DEF m
<1>5. Tasks(p) = {} /\ Mails(p) = {m}
  BY <1>3, WithMail DEF About, IsStart
<1>6. Done(p) /\ Sent \in Triangles /\ Sent' = Sent /\ Answer' = Answer
  BY <1>3, <1>4 DEF Values, MailIsRight, Sent, Answer
<1>7. new.value = Answer
  BY <1>2, <1>6 DEF Done, Answer, LocalYanghuiJob
<1>8. TaskIsRight(new)'
  BY <1>2, <1>6, <1>7 DEF TaskIsRight, Priority
<1>9. \A task \in yTasks' : (task.to = p => task = new) /\ (task.to # p => task \in yTasks)
  BY <1>2, <1>5 DEF Tasks
<1>10. \A y \in yMail' : y \in yMail /\ y[1] # p
  BY <1>3, <1>5 DEF Mails, About
<1>11. \A q \in Priority \ {p} : prio'[q] = prio[q] /\ Tasks(q)' = Tasks(q)
  BY <1>2, <1>4 DEF Tasks
<1> QED
  BY <1>4, <1>6, <1>8, <1>9, <1>10, <1>11, OneGoesOnRight

LEMMA AnswersValues ==
    ASSUME DataInv, Split, Values, NEW p \in Priority, NEW task \in yTasks, PriorityAnswers(p, task)
    PROVE  Values'
<1> DEFINE x == <<"dispatcher", "result", p, task.value>>
<1>1. /\ task.to = p /\ task.level = 0 /\ yTasks' = yTasks \ {task}
      /\ yMail' = yMail \cup {x} /\ UNCHANGED <<prio, pairs, jobClient>>
  BY DEF PriorityAnswers
<1>2. x[1] = "dispatcher" /\ x[2] = "result" /\ x[4] = task.value
  OBVIOUS
<1> HIDE DEF x
<1>3. Mails(p) = {} /\ Tasks(p) = {task}
  BY <1>1, WithTask DEF Compares
<1>4. task.value = Answer /\ Sent \in Triangles /\ Sent' = Sent /\ Answer' = Answer
  BY <1>1 DEF Values, TaskIsRight, Sent, Answer
<1>5. MailIsRight(x)'
  BY <1>2, <1>4 DEF MailIsRight, Priority
<1>6. \A y \in yMail' : (y \in yMail /\ y[1] # p) \/ MailIsRight(y)'
  BY <1>1, <1>3, <1>5 DEF Mails, About
<1>7. \A other \in yTasks' : other.to # p /\ other \in yTasks
  BY <1>1, <1>3 DEF Tasks
<1>8. \A q \in Priority \ {p} : prio'[q] = prio[q] /\ Tasks(q)' = Tasks(q)
  BY <1>1 DEF Tasks
<1> QED
  BY <1>1, <1>4, <1>6, <1>7, <1>8, OneGoesOnRight

\* The last result of a level leaves no task of it.
LEMMA LastResult ==
    ASSUME DataInv, NEW p \in Priority, Adds(p), NEW task \in Tasks(p),
           Tasks(p)' = Tasks(p) \ {task}, prio[p].level = prio[p].count
    PROVE  Tasks(p)' = {}
<1>1. prio[p].level \in Nat /\ prio[p].count + Cardinality(Tasks(p)) = prio[p].level + 1
  BY DEF Adds, DataInv, PriorityTypes
<1>2. IsFiniteSet(Tasks(p)) /\ Cardinality(Tasks(p)) \in Nat
  <2>1. Tasks(p) \subseteq yTasks
    BY DEF Tasks
  <2> QED
    BY <2>1, FS_Subset, FS_CardinalityType DEF DataInv, TaskTypes
<1>3. IsFiniteSet(Tasks(p)') /\ Cardinality(Tasks(p)') = Cardinality(Tasks(p)) - 1
  BY <1>2, FS_RemoveElement
<1>4. Cardinality(Tasks(p)') = 0
  BY <1>1, <1>2, <1>3
<1> QED
  BY <1>3, <1>4, FS_EmptySet

\* A result goes to its place; after the last one every place has its state.
LEMMA ResultValues ==
    ASSUME DataInv, Split, Values, NEW p \in Priority, NEW task \in yTasks, PriorityResult(p, task)
    PROVE  Values'
<1>1. /\ DOMAIN prio = Priority /\ prio' = [prio EXCEPT ![p] = prio'[p]]
      /\ prio'[p].data = prio[p].data
      /\ prio'[p].last = [prio[p].last EXCEPT ![task.id] = task.value]
      /\ \/ /\ prio[p].level # prio[p].count /\ yMail' = yMail
            /\ prio'[p].level = prio[p].level
         \/ /\ prio[p].level = prio[p].count
            /\ \/ /\ prio[p].level = Len(prio[p].data) - 1
                  /\ yMail' = yMail \cup {<<p, "end">>}
               \/ /\ prio[p].level # Len(prio[p].data) - 1
                  /\ prio'[p].level = prio[p].level + 1 /\ yMail' = yMail \cup {<<p, "start">>}
      /\ task.to = p /\ task.level # 0 /\ yTasks' = yTasks \ {task}
      /\ UNCHANGED <<pairs, jobClient>>
  BY ResultSteps DEF DataInv, PriorityTypes
<1>2. task \in Tasks(p) /\ Adds(p) /\ Mails(p) = {}
  BY <1>1, WithTask DEF Adds
<1>3. \A q \in Priority \ {p} : prio'[q] = prio[q] /\ Tasks(q)' = Tasks(q)
  BY <1>1, TaskChange
<1>4. Tasks(p)' = Tasks(p) \ {task}
  BY <1>1 DEF Tasks
<1>5. PICK k : k = prio[p].level
  OBVIOUS
<1>6. Sent \in Triangles /\ Sent' = Sent
  BY <1>1 DEF Values, Sent
<1>7. \A other \in Tasks(p) :
         /\ other.to = p /\ other.level # 0 /\ other.id \in 1 .. k + 1
         /\ other.value = States(Sent)[k + 1][other.id]
  BY <1>2, <1>5 DEF Values, TaskIsRight, Tasks, Adds
<1>8. Waits(p)
  BY <1>1 DEF Values, TaskIsRight
<1>9. k \in 1 .. Len(Sent) - 1 /\ k \in Nat /\ Len(Sent) \in Nat /\ k + 1 \in 1 .. Len(Sent)
  BY <1>5, <1>6, <1>8, TriangleFacts DEF Waits, HasTriangle
<1>10. /\ prio'[p].data = Sent
       /\ prio'[p].last = [j \in 1 .. Len(Sent) |-> prio'[p].last[j]]
       /\ \A j \in 1 .. Len(Sent) :
             prio'[p].last[j] = IF j = task.id THEN task.value ELSE prio[p].last[j]
  BY <1>1, <1>8 DEF Waits, HasTriangle
<1>11. ASSUME NEW j \in 1 .. k + 1
       PROVE  (\E other \in Tasks(p)' : other.id = j) \/ prio'[p].last[j] = States(Sent)[k + 1][j]
  <2>1. j \in 1 .. Len(Sent)
    BY <1>9
  <2>2. CASE j = task.id
    BY <1>2, <1>7, <1>10, <2>1, <2>2
  <2>3. CASE j # task.id
    <3>1. (\E other \in Tasks(p) : other.id = j) \/ prio[p].last[j] = States(Sent)[k + 1][j]
      BY <1>5, <1>8 DEF Waits
    <3> QED
      BY <1>4, <1>10, <2>1, <2>3, <3>1
  <2> QED
    BY <2>2, <2>3
<1>12. \A other \in yTasks' : other.to # p => other \in yTasks
  BY <1>1
<1>13. ASSUME NEW y \in yMail PROVE y[1] # p
  BY <1>2 DEF Mails, About
<1>14. CASE prio[p].level # prio[p].count
  <2>1. yMail' = yMail /\ prio'[p].level = k
    BY <1>1, <1>5, <1>14
  <2>2. Waits(p)'
    <3>1. HasTriangle(p)'
      BY <1>6, <1>9, <1>10, <2>1 DEF HasTriangle
    <3> QED
      BY <1>6, <1>11, <2>1, <3>1 DEF Waits
  <2>3. ASSUME NEW other \in yTasks', other.to = p PROVE TaskIsRight(other)'
    <3>1. other \in Tasks(p) /\ other.to \notin {"path", "min"}
      BY <1>1, <2>3 DEF Tasks, Priority
    <3>2. /\ other.level # 0 /\ other.id \in 1 .. prio'[p].level + 1
          /\ other.value = States(Sent')[prio'[p].level + 1][other.id]
      BY <1>6, <1>7, <2>1, <3>1
    <3> QED
      BY <2>2, <2>3, <3>1, <3>2 DEF TaskIsRight
  <2> QED
    BY <1>1, <1>3, <1>6, <1>12, <1>13, <2>1, <2>3, OneGoesOnRight
<1>15. CASE prio[p].level = prio[p].count
  <2>1. Tasks(p)' = {}
    BY <1>2, <1>4, <1>15, LastResult
  <2>2. \A j \in 1 .. k + 1 : prio'[p].last[j] = States(Sent)[k + 1][j]
    BY <1>11, <2>1
  <2>3. \A other \in yTasks' : other.to # p
    BY <2>1 DEF Tasks
  <2>4. ASSUME NEW x, x[1] = p, yMail' = yMail \cup {x},
               \/ x[2] = "start" /\ Ready(p)'
               \/ x[2] = "end" /\ Done(p)'
        PROVE  Values'
    <3>1. MailIsRight(x)'
      BY <2>4, ReadyMail
    <3>2. \A y \in yMail' : (y \in yMail /\ y[1] # p) \/ MailIsRight(y)'
      BY <1>13, <2>4, <3>1
    <3> QED
      BY <1>1, <1>3, <1>6, <1>12, <2>3, <3>2, OneGoesOnRight
  <2>5. CASE prio[p].level = Len(prio[p].data) - 1
    <3> DEFINE x == <<p, "end">>
    <3>1. yMail' = yMail \cup {x} /\ x[1] = p /\ x[2] = "end"
      BY <1>1, <1>15, <2>5
    <3> HIDE DEF x
    <3>2. k + 1 = Len(Sent)
      BY <1>5, <1>8, <1>9, <2>5 DEF Waits, HasTriangle
    <3>3. Done(p)'
      <4>1. States(Sent)[Len(Sent)] = [j \in 1 .. Len(Sent) |-> States(Sent)[Len(Sent)][j]]
        BY <1>6, <1>9, <3>2, StatesNumbers
      <4>2. PICK last : last = prio'[p].last
        OBVIOUS
      <4>3. PICK row : row = States(Sent)[Len(Sent)]
        OBVIOUS
      <4>4. \A j \in 1 .. Len(Sent) : last[j] = row[j]
        BY <2>2, <3>2, <4>2, <4>3
      <4>5. last = [j \in 1 .. Len(Sent) |-> last[j]]
        BY <1>10, <4>2
      <4>6. row = [j \in 1 .. Len(Sent) |-> row[j]]
        BY <4>1, <4>3
      <4>7. last = row
        BY <4>4, <4>5, <4>6
      <4> QED
        BY <1>6, <4>2, <4>3, <4>7 DEF Done
    <3> QED
      BY <2>4, <3>1, <3>3
  <2>6. CASE prio[p].level # Len(prio[p].data) - 1
    <3> DEFINE x == <<p, "start">>
    <3>1. yMail' = yMail \cup {x} /\ x[1] = p /\ x[2] = "start"
      BY <1>1, <1>15, <2>6
    <3> HIDE DEF x
    <3>2. prio'[p].level = k + 1
      BY <1>1, <1>5, <1>15, <2>6
    <3>3. k + 1 \in 1 .. Len(Sent) - 1
      BY <1>5, <1>8, <1>9, <2>6 DEF Waits, HasTriangle
    <3>4. HasTriangle(p)'
      BY <1>6, <1>10, <3>2, <3>3 DEF HasTriangle
    <3>5. Ready(p)'
      BY <1>6, <2>2, <3>2, <3>4 DEF Ready
    <3> QED
      BY <2>4, <3>1, <3>5
  <2> QED
    BY <2>5, <2>6
<1> QED
  BY <1>14, <1>15

\* The dispatcher keeps the first answer and passes both on.
LEMMA CollectValues ==
    ASSUME DataInv, Split, Values, Collect
    PROVE  Values'
<1>1. PICK m \in yMail :
         /\ m[1] = "dispatcher" /\ m[2] = "result"
         /\ LET both == Append(pairs, <<m[3], m[4]>>) IN
               /\ Handle(m, IF Len(both) = 2 THEN {<<"priority", "pairs", both>>} ELSE {})
               /\ pairs' = Kept(both)
         /\ UNCHANGED <<jobClient, yTasks, prio>>
  BY DEF Collect
<1>2. /\ m[4] = Answer /\ Sent \in Triangles /\ Sent' = Sent /\ Answer' = Answer
  BY <1>1 DEF Values, MailIsRight, Sent, Answer
<1>3. ASSUME NEW task \in yTasks' PROVE TaskIsRight(task)'
  <2>1. task \in yTasks /\ task.to \in Priority /\ TaskIsRight(task)
    BY <1>1 DEF Split, Theirs, Values
  <2>2. Tasks(task.to)' = Tasks(task.to) /\ prio'[task.to] = prio[task.to]
    BY <1>1 DEF Tasks
  <2> QED
    BY <1>2, <2>1, <2>2, SameTask
<1>4. ASSUME NEW y \in yMail PROVE MailIsRight(y)'
  <2>1. y[1] # "path" /\ MailIsRight(y)
    BY DEF Split, Theirs, Priority, Values
  <2>2. prio' = prio
    BY <1>1
  <2> QED
    BY <1>2, <2>1, <2>2, SameMail
<1>5. CASE pairs = <<>>
  <2> DEFINE y == <<m[3], m[4]>>
  <2>1. y[2] = Answer
    BY <1>2
  <2> HIDE DEF y
  <2>2. Append(pairs, y) = <<y>>
    BY <1>5
  <2>3. yMail' = yMail \ {m} /\ pairs' = <<y>>
    BY <1>1, <2>2 DEF Handle, Kept, y
  <2> QED
    BY <1>2, <1>3, <1>4, <2>1, <2>3 DEF Values
<1>6. CASE \E first : pairs = <<first>>
  <2>1. PICK first : pairs = <<first>>
    BY <1>6
  <2>2. PICK second : second = <<m[3], m[4]>>
    OBVIOUS
  <2>3. PICK both : both = Append(<<first>>, second)
    OBVIOUS
  <2>4. Len(both) = 2 /\ both[1] = first
    BY <2>3
  <2>5. first[2] = Answer
    BY <2>1 DEF Values
  <2> DEFINE x == <<"priority", "pairs", both>>
  <2>6. x[1] = "priority" /\ x[2] = "pairs" /\ x[3] = both
    OBVIOUS
  <2>7. yMail' = (yMail \ {m}) \cup {x} /\ pairs' = <<>>
    BY <1>1, <2>1, <2>2, <2>3, <2>4 DEF Handle, Kept
  <2> HIDE DEF x
  <2>8. MailIsRight(x)'
    <3>1. x[3][1][2] = Answer'
      BY <1>2, <2>4, <2>5, <2>6
    <3> QED
      BY <2>6, <3>1 DEF MailIsRight, Priority
  <2> QED
    BY <1>2, <1>3, <1>4, <2>7, <2>8 DEF Values
<1> QED
  BY <1>5, <1>6 DEF Split

LEMMA SplitValues ==
    ASSUME DataInv, jobClient.job = "priority", Split, Values, YanghuiNext, ~WorkerCrashes
    PROVE  Values'
<1>1. ASSUME NEW m \in yMail PROVE m[1] \in {"high", "normal", "dispatcher"}
  BY DEF Split, Theirs, Priority
<1>2. ASSUME NEW task \in yTasks PROVE task.to \in {"high", "normal"}
  BY DEF Split, Theirs, Priority
<1>3. CASE Collect
  BY <1>3, CollectValues
<1>4. ~Dispatch
  <2>1. ASSUME NEW t, <<"dispatcher", "triangle", t>> \in yMail PROVE FALSE
    <3> DEFINE m == <<"dispatcher", "triangle", t>>
    <3>1. m \in yMail /\ m[1] = "dispatcher" /\ m[2] = "triangle"
      BY <2>1
    <3> HIDE DEF m
    <3> QED
      BY <3>1 DEF Split, Theirs, Priority
  <2> QED
    BY <2>1 DEF Dispatch, Handle
<1>5. ASSUME NEW p \in Priority, PriorityTakes(p) \/ PriorityLevel(p) \/ PriorityEnds(p)
      PROVE  Values'
  BY <1>5, TakesValues, LevelValuesRight, EndsValues
<1>6. ASSUME NEW p \in Priority, NEW task \in yTasks,
             PriorityResult(p, task) \/ PriorityAnswers(p, task)
      PROVE  Values'
  BY <1>6, ResultValues, AnswersValues
<1>7. ~(\E t \in Triangles : \E job \in {"standard", "pool", "balance", "priority"} :
           ClientSends(job, t))
  BY DEF ClientSends
<1>8. ~ClientTimesOut /\ ~ClientRestarts
  <2>1. \E p \in Priority : Runs(p)
    BY DEF Split, Priority
  <2>2. yMail # {} \/ yTasks # {}
    BY <2>1 DEF Runs, Told, Adds, Compares, Mails, Tasks
  <2> QED
    BY <2>2 DEF ClientTimesOut, ClientRestarts
<1> QED
  BY <1>1, <1>2, <1>3, <1>4, <1>5, <1>6, <1>7, <1>8, Steps

-----------------------------------------------------------------------------
\* Every step keeps the values right.

LEMMA InitValues == YanghuiInit => Values
BY DEF YanghuiInit, Values

LEMMA ValuesKept == ValuesInv /\ [YanghuiNext]_yanghuiVars => ValuesInv'
<1> SUFFICES ASSUME ValuesInv, [YanghuiNext]_yanghuiVars PROVE ValuesInv'
  OBVIOUS
<1>1. YanghuiInv /\ YanghuiInv'
  BY InvKept DEF ValuesInv
<1>2. ASSUME crashes' = 0 PROVE Values'
  <2>1. CASE UNCHANGED yanghuiVars
    <3>1. Values
      BY <1>2, <2>1 DEF ValuesInv, yanghuiVars
    <3>2. UNCHANGED <<jobClient, yMail, yTasks, path, getMin, prio, pairs>>
      BY <2>1 DEF yanghuiVars
    <3>3. Sent' = Sent /\ Answer' = Answer
      BY <3>2 DEF Sent, Answer
    <3>4. ASSUME NEW m \in yMail' PROVE MailIsRight(m)'
      BY <3>1, <3>2, <3>3, SameMail DEF Values
    <3>5. ASSUME NEW task \in yTasks' PROVE TaskIsRight(task)'
      <4>1. TaskIsRight(task)
        BY <3>1, <3>2, <3>5 DEF Values
      <4>2. PathWaits => PathWaits'
        BY <3>2, <3>3 DEF PathWaits, RowsFrom
      <4>3. MinWaits => MinWaits'
        BY <3>2, <3>3 DEF MinWaits, RightNumbers
      <4>4. ASSUME NEW p PROVE Waits(p) => Waits(p)'
        BY <3>2, <3>3 DEF Waits, HasTriangle, Tasks
      <4> QED
        BY <3>2, <3>3, <4>1, <4>2, <4>3, <4>4 DEF TaskIsRight
    <3> QED
      BY <3>1, <3>2, <3>3, <3>4, <3>5 DEF Values
  <2>2. CASE YanghuiNext
    <3>1. ~WorkerCrashes
      <4>1. crashes \in Nat
        BY <1>1 DEF YanghuiInv, DataInv, ClientTypes
      <4> QED
        BY <1>2, <4>1 DEF WorkerCrashes
    <3>2. UNCHANGED <<crashes, aliveActors>>
      BY <2>2, <3>1 DEF YanghuiNext, ClientSends, ClientReceives, ClientTimesOut, ClientRestarts,
         YanghuiRuns, BalanceStarts, PathStarts, PathLevel, BalanceForwards, MinNumbers,
         BalanceAnswers, PriorityJobStarts, Dispatch, Collect, PriorityJobAnswers, PriorityTakes,
         PriorityLevel, PriorityEnds, PathResult, MinResult, PriorityResult, PriorityAnswers
    <3>3. DataInv /\ MailInv /\ aliveActors = Pipeline /\ JobInv /\ crashes = 0 /\ Values
      BY <1>1, <1>2, <3>2 DEF YanghuiInv, ValuesInv
    <3>4. CASE jobClient.job \in {"none", "failed"} /\ yMail = {} /\ yTasks = {} /\ Calm
      BY <2>2, <3>1, <3>3, <3>4, ClientValues
    <3>5. CASE /\ jobClient.job \in {"standard", "pool"}
               /\ OneMail({jobClient.job, "client"}) /\ Calm
      BY <2>2, <3>1, <3>3, <3>5, OneActorValues
    <3>6. CASE jobClient.job = "balance" /\ BalanceInv /\ Calm
      BY <2>2, <3>1, <3>3, <3>6, BalanceValues
    <3>7. CASE jobClient.job = "priority" /\ PriorityInv
      BY <2>2, <3>1, <3>3, <3>7, PriorityMailValues, SplitValues DEF PriorityInv
    <3> QED
      BY <3>3, <3>4, <3>5, <3>6, <3>7 DEF JobInv
  <2> QED
    BY <2>1, <2>2
<1> QED
  BY <1>1, <1>2 DEF ValuesInv

\* The dynamic program of the demonstration is right: what the client computes itself,
\* and what the one actor of the standard job computes, is the least sum of the numbers
\* on a path down, for every triangle.
THEOREM LocalJobIsLeastSum ==
    ASSUME NEW t \in Triangles
    PROVE  LocalYanghuiJob(t) = LeastPathSum(t)
BY LocalIsLeast

\* Whatever jobs ran before and in whatever order the workers' results arrived, what a job
\* actor answers as right is the least sum of a path of the triangle the client sent,
\* while no worker has crashed.
THEOREM JobsAnswerRight == YanghuiSpec => []AnswersAreRight
<1>1. ValuesInv => AnswersAreRight
  <2> SUFFICES ASSUME ValuesInv, NEW m \in yMail, m[1] = "client", m[3], crashes = 0
               PROVE  m[4] = LeastPathSum(jobClient.triangle)
    BY DEF AnswersAreRight
  <2>1. Sent \in Triangles /\ MailIsRight(m)
    BY DEF ValuesInv, Values
  <2>2. m[4] = LocalYanghuiJob(Sent)
    BY <2>1 DEF MailIsRight, Answer
  <2> QED
    BY <2>1, <2>2, LocalIsLeast DEF Sent
<1>2. YanghuiInit => ValuesInv
  BY InitInv, InitValues DEF ValuesInv
<1> QED
  BY <1>1, <1>2, ValuesKept, PTL DEF YanghuiSpec
=============================================================================
