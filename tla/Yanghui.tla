------------------------------- MODULE Yanghui --------------------------------
(***************************************************************************)
(* The yanghui demonstration: a client sends triangles of numbers to the   *)
(* job actors of the root and checks the least sum of a path down.  The    *)
(* standard and the router pool job compute it in one actor that waits for *)
(* every task; the load balance job and the priority job are pipelines of  *)
(* actors that give a level's tasks to the workers at once, take the       *)
(* results in any order and keep their state from job to job.  One job is  *)
(* under way at a time, as with the client of the demonstration.           *)
(***************************************************************************)
EXTENDS Integers, Sequences, FiniteSets, SequencesExt

CONSTANTS
    Triangles,      \* the triangles the client sends, of one size
    Batch,          \* how many numbers a comparison of the load balance job takes
    MaxJobs,        \* bound on the jobs
    MaxWorkerCrashes \* bound on the crashes of workers; some worker is always left

ASSUME YanghuiAssumption ==
    /\ Batch \in Nat \ {0, 1} /\ MaxJobs \in Nat /\ MaxWorkerCrashes \in Nat
    /\ \A t \in Triangles : /\ t \in Seq(Seq(Int)) /\ Len(t) > 1
                            /\ \A i \in DOMAIN t : Len(t[i]) = i

VARIABLES
    jobClient,      \* the client: its number, its triangle, and how its job stands
    yMail,          \* messages under way: <<recipient, kind, contents...>>
    yTasks,         \* tasks the workers have, each with its result to be
    jobSender,      \* message_sender of the two pipelines' job actors
    path,           \* state of yanghui_count_path
    getMin,         \* state of yanghui_get_final_result
    prio,           \* state of the two yanghui_with_priority actors
    pairs,          \* the dispatcher's result
    aliveActors,    \* the actors of the pipelines that have not quit
    crashes, jobs   \* bounded counts

yanghuiVars ==
    <<jobClient, yMail, yTasks, jobSender, path, getMin, prio, pairs, aliveActors, crashes, jobs>>

Priority == {"high", "normal"}
Pipeline == {"path", "min"} \cup Priority
MaxInt == 2147483647
NoResults == [i \in {} |-> 0]
NoTriangle == <<>>

Lesser(a, b) == IF a < b THEN a ELSE b
Least(numbers) == Min({numbers[i] : i \in DOMAIN numbers})

\* The three sorts of task of a level: the first, the last, and one in between.
AddTask(above, row, j) ==
    row[j] + (IF j = 1 THEN above[1]
              ELSE IF j = Len(row) THEN above[j - 1] ELSE Lesser(above[j - 1], above[j]))

\* A level's tasks all done: its states from those of the level above.
Level(above, row) == [j \in DOMAIN row |-> AddTask(above, row, j)]

\* The states of every level of a triangle.
States(t) ==
    LET states[k \in DOMAIN t] == IF k = 1 THEN t[1] ELSE Level(states[k - 1], t[k])
    IN  states

\* What the client computes itself, and the actor yanghui with a counter.
LocalYanghuiJob(t) == Least(States(t)[Len(t)])

YanghuiInit ==
    /\ jobClient = [number |-> 1, triangle |-> NoTriangle, job |-> "none"]
    /\ yMail = {}
    /\ yTasks = {}
    /\ jobSender = [balance |-> 0, priority |-> 0]
    /\ path = [index |-> 0, data |-> NoTriangle, results |-> NoResults]
    /\ getMin = [count |-> 0, results |-> NoResults]
    /\ prio = [p \in Priority |->
                 [level |-> 1, count |-> 0, data |-> NoTriangle, last |-> <<>>]]
    /\ pairs = <<>>
    /\ aliveActors = Pipeline
    /\ crashes = 0
    /\ jobs = 0

Handle(m, sent) == m \in yMail /\ yMail' = (yMail \ {m}) \cup sent

\* A message to an actor that has quit is dropped.
To(m) == IF m[1] \in aliveActors THEN {m} ELSE {}

Task(actor, level, id, value) == [to |-> actor, level |-> level, id |-> id, value |-> value]

-----------------------------------------------------------------------------
\* The client.

ClientSends(job, t) ==
    /\ jobClient.job = "none"
    /\ jobs < MaxJobs
    /\ jobs' = jobs + 1
    /\ jobClient' = [jobClient EXCEPT !.triangle = t, !.job = job]
    /\ yMail' = yMail \cup {<<job, "triangle", t, jobClient.number>>}
    /\ UNCHANGED <<yTasks, jobSender, path, getMin, prio, pairs, aliveActors, crashes>>

\* A wrong result ends the client; a right one lets it go on.
ClientReceives(ok, value) ==
    /\ Handle(<<"client", jobClient.number, ok, value>>, {})
    /\ jobClient' = [jobClient EXCEPT !.job =
                    IF ok /\ value = LocalYanghuiJob(jobClient.triangle) THEN "none" ELSE "failed"]
    /\ UNCHANGED <<yTasks, jobSender, path, getMin, prio, pairs, aliveActors, crashes, jobs>>

\* The 300 seconds of await_data end only when nothing moves any more.
ClientTimesOut ==
    /\ jobClient.job \notin {"none", "failed", "timedOut"}
    /\ yMail = {} /\ yTasks = {}
    /\ jobClient' = [jobClient EXCEPT !.job = "timedOut"]
    /\ UNCHANGED <<yMail, yTasks, jobSender, path, getMin, prio, pairs, aliveActors, crashes, jobs>>

\* Another client is started after one that has ended.
ClientRestarts ==
    /\ jobClient.job \in {"failed", "timedOut"}
    /\ jobClient' = [number |-> jobClient.number + 1, triangle |-> NoTriangle, job |-> "none"]
    /\ yMail' = {m \in yMail : m[1] # "client"}
    /\ UNCHANGED <<yTasks, jobSender, path, getMin, prio, pairs, aliveActors, crashes, jobs>>

\* The standard job and the router pool job: the actor yanghui runs all tasks one
\* after the other, or returns INT_MAX as its result if a task failed.
YanghuiRuns ==
    \E t \in Triangles, c \in 1 .. jobClient.number, job \in {"standard", "pool"} :
        \E value \in {LocalYanghuiJob(t)} \cup (IF crashes > 0 THEN {MaxInt} ELSE {}) :
            /\ Handle(<<job, "triangle", t, c>>, {<<"client", c, TRUE, value>>})
            /\ UNCHANGED <<jobClient, yTasks, jobSender, path, getMin, prio, pairs,
                           aliveActors, crashes, jobs>>

-----------------------------------------------------------------------------
\* The load balance job: job actor, yanghui_count_path, yanghui_get_final_result.

BalanceStarts ==
    \E t \in Triangles, c \in 1 .. jobClient.number :
        /\ Handle(<<"balance", "triangle", t, c>>, To(<<"path", "triangle", t>>))
        /\ jobSender' = [jobSender EXCEPT !.balance = c]
        /\ UNCHANGED <<jobClient, yTasks, path, getMin, prio, pairs, aliveActors, crashes, jobs>>

PathStarts ==
    \E t \in Triangles :
        /\ Handle(<<"path", "triangle", t>>, To(<<"path", "index", 1>>))
        /\ path' = [path EXCEPT !.data = t,
              !.results = [i \in DOMAIN path.results \cup {1} |->
                              IF i = 1 THEN t[1][1] ELSE path.results[i]]]
        /\ UNCHANGED <<jobClient, yTasks, jobSender, getMin, prio, pairs, aliveActors, crashes, jobs>>

\* The results of level k are written over its row; they go to the job actor if
\* it is the last level, else the tasks of the next go to the workers.
PathLevel ==
    \E k \in DOMAIN path.data :
        LET row == [j \in DOMAIN path.data[k] |->
                       IF j \in DOMAIN path.results THEN path.results[j] ELSE path.data[k][j]]
        IN  IF k = Len(path.data)
            THEN /\ Handle(<<"path", "index", k>>, {<<"balance", "row", row>>})
                 /\ path' = [path EXCEPT !.index = 0, !.data[k] = row, !.results = NoResults]
                 /\ UNCHANGED <<jobClient, yTasks, jobSender, getMin, prio, pairs,
                                aliveActors, crashes, jobs>>
            ELSE /\ Handle(<<"path", "index", k>>, {})
                 /\ path' = [index |-> k, results |-> NoResults,
                             data |-> [path.data EXCEPT ![k] = row]]
                 /\ yTasks' = yTasks \cup
                      {Task("path", k, j, AddTask(row, path.data[k + 1], j)) : j \in 1 .. k + 1}
                 /\ UNCHANGED <<jobClient, jobSender, getMin, prio, pairs, aliveActors, crashes, jobs>>

\* Mutant of Emplace: a result is kept under its level, not under its place.
EmplaceByLevel(results, task) ==
    [i \in DOMAIN results \cup {task.level} |->
        IF i \in DOMAIN results THEN results[i] ELSE task.value]

\* A worker's result: the first for its place counts.
Emplace(results, task) ==
    [i \in DOMAIN results \cup {task.id} |->
        IF i \in DOMAIN results THEN results[i] ELSE task.value]

PathResult(task) ==
    LET results == Emplace(path.results, task) IN
    /\ task.to = "path"
    /\ path' = [path EXCEPT !.results = results]
    /\ yTasks' = yTasks \ {task}
    /\ yMail' = IF Cardinality(DOMAIN results) = path.index + 1
                THEN yMail \cup To(<<"path", "index", path.index + 1>>) ELSE yMail
    /\ UNCHANGED <<jobClient, jobSender, getMin, prio, pairs, aliveActors, crashes, jobs>>

BalanceForwards ==
    \E m \in yMail :
        /\ m[1] = "balance" /\ m[2] = "row"
        /\ Handle(m, To(<<"min", "numbers", m[3]>>))
        /\ UNCHANGED <<jobClient, yTasks, jobSender, path, getMin, prio, pairs,
                       aliveActors, crashes, jobs>>

Chunks(numbers) == (Len(numbers) + Batch - 1) \div Batch
Chunk(numbers, i) ==
    SubSeq(numbers, (i - 1) * Batch + 1, Lesser(i * Batch, Len(numbers)))

\* Numbers to compare, Batch of them in a task, until one is left.
MinNumbers ==
    \E m \in yMail :
        /\ m[1] = "min"
        /\ IF Len(m[3]) = 1
           THEN /\ Handle(m, {<<"balance", "result", m[3][1]>>})
                /\ getMin' = [count |-> 0, results |-> NoResults]
                /\ UNCHANGED yTasks
           ELSE /\ Handle(m, {})
                /\ getMin' = [count |-> Chunks(m[3]), results |-> NoResults]
                /\ yTasks' = yTasks \cup
                     {Task("min", 0, i, Least(Chunk(m[3], i))) : i \in 1 .. Chunks(m[3])}
        /\ UNCHANGED <<jobClient, jobSender, path, prio, pairs, aliveActors, crashes, jobs>>

MinResult(task) ==
    LET results == Emplace(getMin.results, task) IN
    /\ task.to = "min"
    /\ getMin' = [getMin EXCEPT !.results = results]
    /\ yTasks' = yTasks \ {task}
    /\ yMail' = IF Cardinality(DOMAIN results) = getMin.count
                THEN yMail \cup
                     To(<<"min", "numbers", [i \in 1 .. getMin.count |-> results[i]]>>)
                ELSE yMail
    /\ UNCHANGED <<jobClient, jobSender, path, prio, pairs, aliveActors, crashes, jobs>>

BalanceAnswers ==
    \E m \in yMail :
        /\ m[1] = "balance" /\ m[2] = "result"
        /\ Handle(m, {<<"client", jobSender.balance, TRUE, m[3]>>})
        /\ UNCHANGED <<jobClient, yTasks, jobSender, path, getMin, prio, pairs,
                       aliveActors, crashes, jobs>>

-----------------------------------------------------------------------------
\* The priority job: job actor, dispatcher, yanghui_with_priority twice.

PriorityJobStarts ==
    \E t \in Triangles, c \in 1 .. jobClient.number :
        /\ Handle(<<"priority", "triangle", t, c>>, {<<"dispatcher", "triangle", t>>})
        /\ jobSender' = [jobSender EXCEPT !.priority = c]
        /\ UNCHANGED <<jobClient, yTasks, path, getMin, prio, pairs, aliveActors, crashes, jobs>>

Dispatch ==
    \E t \in Triangles :
        /\ Handle(<<"dispatcher", "triangle", t>>,
                  UNION {To(<<p, "triangle", t>>) : p \in Priority})
        /\ UNCHANGED <<jobClient, yTasks, jobSender, path, getMin, prio, pairs,
                       aliveActors, crashes, jobs>>

\* While it awaits its comparison an actor handles nothing else.
Awaits(p) == \E task \in yTasks : task.to = p /\ task.level = 0

\* A triangle resets the results, not the level and not the count.
PriorityTakes(p) ==
    /\ ~Awaits(p)
    /\ \E t \in Triangles :
          /\ Handle(<<p, "triangle", t>>, {<<p, "start">>})
          /\ prio' = [prio EXCEPT ![p].data = t,
                         ![p].last = [j \in DOMAIN t |-> IF j = 1 THEN t[1][1] ELSE 0]]
    /\ UNCHANGED <<jobClient, yTasks, jobSender, path, getMin, pairs, aliveActors, crashes, jobs>>

PriorityLevel(p) ==
    /\ ~Awaits(p)
    /\ Handle(<<p, "start">>, {})
    /\ LET level == prio[p].level IN
          yTasks' = yTasks \cup
              {Task(p, level, j, AddTask(prio[p].last, prio[p].data[level + 1], j)) :
                  j \in 1 .. level + 1}
    /\ UNCHANGED <<jobClient, jobSender, path, getMin, prio, pairs, aliveActors, crashes, jobs>>

\* Mutant of NextLevel: the count goes on from level to level.
NextLevelCounting(state, level) == [state EXCEPT !.level = level]

\* The state after the level's last result: the next level, or a new triangle's first.
NextLevel(state, level) == [state EXCEPT !.level = level, !.count = 0]

\* A result goes to its place.
Given(state, task) == [state EXCEPT !.last[task.id] = task.value, !.count = @ + 1]

\* The level ends with as many results as it has tasks.
PriorityResult(p, task) ==
    LET state == Given(prio[p], task)
        ends == state.level = state.count - 1
        last == state.level = Len(state.data) - 1
    IN  /\ task.to = p /\ task.level # 0
        /\ ~Awaits(p)
        /\ yTasks' = yTasks \ {task}
        /\ prio' = [prio EXCEPT ![p] =
               IF ~ends THEN state ELSE NextLevel(state, IF last THEN 1 ELSE state.level + 1)]
        /\ yMail' = IF ~ends THEN yMail ELSE yMail \cup {<<p, IF last THEN "end" ELSE "start">>}
        /\ UNCHANGED <<jobClient, jobSender, path, getMin, pairs, aliveActors, crashes, jobs>>

PriorityEnds(p) ==
    /\ ~Awaits(p)
    /\ Handle(<<p, "end">>, {})
    /\ yTasks' = yTasks \cup {Task(p, 0, 0, Least(prio[p].last))}
    /\ UNCHANGED <<jobClient, jobSender, path, getMin, prio, pairs, aliveActors, crashes, jobs>>

PriorityAnswers(p, task) ==
    /\ task.to = p /\ task.level = 0
    /\ yTasks' = yTasks \ {task}
    /\ yMail' = yMail \cup {<<"dispatcher", "result", p, task.value>>}
    /\ UNCHANGED <<jobClient, jobSender, path, getMin, prio, pairs, aliveActors, crashes, jobs>>

\* What the dispatcher keeps of the results.
Kept(both) == IF Len(both) = 2 THEN <<>> ELSE both

Collect ==
    \E m \in yMail :
        /\ m[1] = "dispatcher" /\ m[2] = "result"
        /\ LET both == Append(pairs, <<m[3], m[4]>>) IN
              /\ Handle(m, IF Len(both) = 2 THEN {<<"priority", "pairs", both>>} ELSE {})
              /\ pairs' = Kept(both)
        /\ UNCHANGED <<jobClient, yTasks, jobSender, path, getMin, prio, aliveActors, crashes, jobs>>

\* The job is right if the high priority actor was first and both agree.
PriorityJobAnswers ==
    \E m \in yMail :
        /\ m[1] = "priority" /\ m[2] = "pairs"
        /\ LET right == m[3][1][1] = "high" /\ m[3][1][2] = m[3][2][2] IN
              Handle(m, {<<"client", jobSender.priority, right,
                           IF right THEN m[3][1][2] ELSE 0>>})
        /\ UNCHANGED <<jobClient, yTasks, jobSender, path, getMin, prio, pairs,
                       aliveActors, crashes, jobs>>

-----------------------------------------------------------------------------

\* A worker crashes with the tasks it has.  A task sent with a request fails, and
\* an actor without a handler for the error quits; a task of a level of the
\* priority job was only sent, and is lost.
WorkerCrashes ==
    /\ crashes < MaxWorkerCrashes
    /\ crashes' = crashes + 1
    /\ \E lost \in SUBSET yTasks :
          /\ aliveActors' = aliveActors \ {t.to : t \in
                              {t \in lost : t.to \in {"path", "min"} \/ t.level = 0}}
          /\ yTasks' = {t \in yTasks \ lost : t.to \in aliveActors'}
    /\ yMail' = {m \in yMail : m[1] \in Pipeline => m[1] \in aliveActors'}
    /\ UNCHANGED <<jobClient, jobSender, path, getMin, prio, pairs, jobs>>

YanghuiNext ==
    \/ \E t \in Triangles : \E job \in {"standard", "pool", "balance", "priority"} :
          ClientSends(job, t)
    \/ \E m \in yMail : m[1] = "client" /\ ClientReceives(m[3], m[4])
    \/ ClientTimesOut \/ ClientRestarts \/ YanghuiRuns
    \/ BalanceStarts \/ PathStarts \/ PathLevel \/ BalanceForwards \/ MinNumbers
    \/ BalanceAnswers \/ PriorityJobStarts \/ Dispatch \/ Collect \/ PriorityJobAnswers
    \/ \E p \in Priority : PriorityTakes(p) \/ PriorityLevel(p) \/ PriorityEnds(p)
    \/ \E task \in yTasks :
          \/ PathResult(task) \/ MinResult(task)
          \/ \E p \in Priority : PriorityResult(p, task) \/ PriorityAnswers(p, task)
    \/ WorkerCrashes

YanghuiSpec == YanghuiInit /\ [][YanghuiNext]_yanghuiVars

-----------------------------------------------------------------------------

\* The types of the demonstration's state.
YanghuiTypeOK ==
    /\ jobClient.job \in {"none", "failed", "timedOut", "standard", "pool", "balance", "priority"}
    /\ DOMAIN path.results \subseteq Nat /\ path.index \in Nat
    /\ getMin.count \in Nat
    /\ \A p \in Priority : prio[p].level \in Nat /\ prio[p].count \in Nat
    /\ \A task \in yTasks : task.to \in aliveActors

\* The paths down a triangle: a step goes to one of the two numbers below.
PathsDown(t) ==
    {p \in [DOMAIN t -> DOMAIN t] :
        p[1] = 1 /\ \A i \in 2 .. Len(t) : p[i] \in {p[i - 1], p[i - 1] + 1}}

\* The sums of the numbers on a path down to each row, and to the last.
PathSums(t, p) ==
    LET sums[k \in DOMAIN t] == IF k = 1 THEN t[1][p[1]] ELSE sums[k - 1] + t[k][p[k]]
    IN  sums

LeastPathSum(t) == Min({PathSums(t, p)[Len(t)] : p \in PathsDown(t)})

\* What a job actor answers as right is the least sum of a path of the triangle the
\* client sent, in whatever order the workers' results arrived and whatever jobs the
\* actors ran before; while no worker has crashed.
AnswersAreRight ==
    \A m \in yMail : (m[1] = "client" /\ m[3] /\ crashes = 0) =>
        m[4] = LeastPathSum(jobClient.triangle)

\* Every job is answered: a client waits its 300 seconds in vain only after a
\* worker crashed.
JobsAreAnswered == jobClient.job = "timedOut" => crashes > 0
=============================================================================
