---------------------------- MODULE OrderedRunner ----------------------------
(***************************************************************************)
(* What the users of a timed functor queue count on, with no thread and no *)
(* lock in sight: a functor accepted for t runs is run t times, after      *)
(* every run of the functors accepted before it and before any run of the  *)
(* functors accepted after it, until the runner is closed; a closed runner *)
(* runs nothing.                                                           *)
(***************************************************************************)
EXTENDS Naturals, Sequences

CONSTANTS
    Functor,          \* what callers push
    Times             \* how often they may ask for it to be run

VARIABLES
    todo,             \* the runs still owed: <<functor, times>>, oldest first
    ran,              \* the functors that were run, in order
    closed            \* the owner has disposed of the runner

runnerVars == <<todo, ran, closed>>

RunnerInit == todo = <<>> /\ ran = <<>> /\ closed = FALSE

\* Only a functor that is to run at least once is accepted.
Accept(f, times) ==
    /\ ~closed
    /\ times \in Times
    /\ todo' = Append(todo, [functor |-> f, times |-> times])
    /\ UNCHANGED <<ran, closed>>

RunOldest ==
    /\ ~closed
    /\ todo # <<>>
    /\ ran' = Append(ran, Head(todo).functor)
    /\ todo' = IF Head(todo).times = 1
               THEN Tail(todo)
               ELSE <<[Head(todo) EXCEPT !.times = @ - 1]>> \o Tail(todo)
    /\ UNCHANGED closed

\* Whatever is still owed is dropped.
Close ==
    /\ ~closed
    /\ closed' = TRUE
    /\ UNCHANGED <<todo, ran>>

RunnerNext ==
    \/ \E f \in Functor, times \in Times : Accept(f, times)
    \/ RunOldest
    \/ Close

RunnerSpec == RunnerInit /\ [][RunnerNext]_runnerVars
=============================================================================
