------------------------------- MODULE Daemon -------------------------------
(***************************************************************************)
(* The node keeper's guard over the application it runs: the thread of     *)
(* Daemon::Run forks the application, waits for it, tells the membership   *)
(* that the actor system is down and forks it again, until a quit signal   *)
(* clears `guard'.  The signal handler runs in whichever thread the signal *)
(* is delivered to, the daemon's own included, and shares with Run two     *)
(* plain variables: guard and the pid the last fork returned.              *)
(*                                                                         *)
(* The child of a fork keeps the handler of SIGTERM until execv, which     *)
(* resets it: CreateProcess only makes it ignore SIGINT and SIGQUIT.  A    *)
(* SIGTERM that comes before runs the handler on the child's own copies of *)
(* guard and of the pid, which is 0 or that of the application before, and *)
(* so is swallowed.                                                        *)
(*                                                                         *)
(* The daemon's thread is at                                               *)
(*   create   the head of the loop, guard already seen true                *)
(*   store    fork has returned, *process_info = pid is still to come      *)
(*   wait     WaitProcessExit                                              *)
(*   down     app_down_handle_, which marks the actor system as down       *)
(*   gossip   and tells the cluster; then the test of a stable first run   *)
(*   loop     the head of the loop, guard to be read                       *)
(*   leave    node_keeper_clean_up_                                        *)
(*   exit     past the clean up, Exit(0) to come                           *)
(*   left     the process has exited with 0;  aborted  with 1              *)
(*                                                                         *)
(* Processes are numbered by the order of their forks; 0 is no process.    *)
(* waitpid is interrupted by a handler that runs in the daemon's thread    *)
(* (the sigaction's sa_flags are never set, so the call may or may not be  *)
(* restarted) and WaitProcessExit then reads a status it never wrote.      *)
(***************************************************************************)
EXTENDS Naturals, FiniteSets

CONSTANTS
    MaxForks,       \* bound on the processes forked
    MaxSignals      \* bound on the quit signals delivered

ASSUME DaemonAssumption == MaxForks \in Nat \ {0} /\ MaxSignals \in Nat

VARIABLES
    daemon,         \* where the daemon's thread is
    guard,          \* Daemon::guard
    pid,            \* *app_process_info_
    restart,        \* restart_, as far as the code looks: has an exit been handled
    process,        \* process k: "forked" (before execv), "running", "asked" (the
                    \* application was sent SIGTERM), "exited" or "signaled", as
                    \* WIFEXITED and WIFSIGNALED tell
    deaf,           \* history: the processes that swallowed a SIGTERM before execv
    stable,         \* the first application has run for stable_time_
    handler,        \* a signal handler under way in another thread: "none" or "kill"
    quitAt,         \* history: the forks made when a signal was first obeyed, or NoQuit
    signals         \* bounded count of signals; it starts anywhere below the bound

daemonVars ==
    <<daemon, guard, pid, restart, process, deaf, stable, handler, quitAt, signals>>

Process == 1 .. MaxForks

NoQuit == MaxForks + 1

Forked == {k \in Process : process[k] # "none"}

Alive == {k \in Process : process[k] \in {"forked", "running", "asked"}}

Ended == daemon \in {"left", "aborted"}

\* main constructs the daemon, Run makes a zero process_info_t and installs the
\* handlers before it reads guard for the first time.
DaemonInit ==
    /\ daemon = "loop"
    /\ guard = TRUE
    /\ pid = 0
    /\ restart = FALSE
    /\ process = [k \in Process |-> "none"]
    /\ deaf = {}
    /\ stable = FALSE
    /\ handler = "none"
    /\ quitAt = NoQuit
    /\ signals \in 0 .. MaxSignals

\* Mutant of CheckGuard: an application that exited is always started again.
CheckGuardUnlessRestart ==
    /\ daemon = "loop"
    /\ daemon' = IF guard \/ restart THEN "create" ELSE "leave"
    /\ UNCHANGED <<guard, pid, restart, process, deaf, stable, handler, quitAt, signals>>

\* `while (guard)'.
CheckGuard ==
    /\ daemon = "loop"
    /\ daemon' = IF guard THEN "create" ELSE "leave"
    /\ UNCHANGED <<guard, pid, restart, process, deaf, stable, handler, quitAt, signals>>

\* fork: the child is still to run its half of CreateProcess; a fork that fails
\* ends the node keeper.
Fork ==
    /\ daemon = "create"
    /\ \/ \E k \in Process :
             /\ k = Cardinality(Forked) + 1
             /\ process' = [process EXCEPT ![k] = "forked"]
             /\ daemon' = "store"
       \/ daemon' = "aborted" /\ UNCHANGED process
    /\ UNCHANGED <<guard, pid, restart, deaf, stable, handler, quitAt, signals>>

\* Mutant of StorePid: the process info is filled by the first fork only.
StoreFirstPid ==
    /\ daemon = "store"
    /\ pid' = IF pid = 0 THEN Cardinality(Forked) ELSE pid
    /\ daemon' = "wait"
    /\ UNCHANGED <<guard, restart, process, deaf, stable, handler, quitAt, signals>>

StorePid ==
    /\ daemon = "store"
    /\ pid' = Cardinality(Forked)
    /\ daemon' = "wait"
    /\ UNCHANGED <<guard, restart, process, deaf, stable, handler, quitAt, signals>>

\* execv in the child: the handlers of the node keeper are gone.
Exec(k) ==
    /\ process[k] = "forked"
    /\ process' = [process EXCEPT ![k] = "running"]
    /\ UNCHANGED <<daemon, guard, pid, restart, deaf, stable, handler, quitAt, signals>>

\* The process exits of itself, or with 1 because execv failed, or it is ended by
\* SIGTERM or another signal.
ProcessExits(k) ==
    /\ k \in Alive
    /\ \E end \in {"exited", "signaled"} : process' = [process EXCEPT ![k] = end]
    /\ UNCHANGED <<daemon, guard, pid, restart, deaf, stable, handler, quitAt, signals>>

\* stable_time_ elapses while the first application is waited for.
StableTimeElapses ==
    /\ daemon = "wait"
    /\ ~restart
    /\ ~stable
    /\ stable' = TRUE
    /\ UNCHANGED <<daemon, guard, pid, restart, process, deaf, handler, quitAt, signals>>

\* Mutant of Reap: waitpid is called with WNOHANG.
ReapAtOnce ==
    /\ daemon = "wait"
    /\ daemon' = "down"
    /\ UNCHANGED <<guard, pid, restart, process, deaf, stable, handler, quitAt, signals>>

\* Mutant of Reap: only WIFEXITED is tested, and a second waitpid reports nothing.
ReapUnlessSignaled ==
    /\ daemon = "wait"
    /\ process[pid] = "exited"
    /\ daemon' = "down"
    /\ UNCHANGED <<guard, pid, restart, process, deaf, stable, handler, quitAt, signals>>

\* waitpid returns the status of the process it was given, which has ended.
Reap ==
    /\ daemon = "wait"
    /\ process[pid] \in {"exited", "signaled"}
    /\ daemon' = "down"
    /\ UNCHANGED <<guard, pid, restart, process, deaf, stable, handler, quitAt, signals>>

\* The two halves of app_down_handle_, Membership::NotifyActorSystemDown; what
\* they change is in the host module.
AppDown ==
    /\ daemon = "down"
    /\ daemon' = "gossip"
    /\ UNCHANGED <<guard, pid, restart, process, deaf, stable, handler, quitAt, signals>>

\* An application that did not last on its first run ends the node keeper.
ExitIfProcessNotStable ==
    /\ daemon = "gossip"
    /\ daemon' = IF ~restart /\ ~stable THEN "aborted" ELSE "loop"
    /\ restart' = TRUE
    /\ UNCHANGED <<guard, pid, process, deaf, stable, handler, quitAt, signals>>

\* node_keeper_clean_up_ is NotifyLeave.
CleanUp ==
    /\ daemon = "leave"
    /\ daemon' = "exit"
    /\ UNCHANGED <<guard, pid, restart, process, deaf, stable, handler, quitAt, signals>>

ExitZero ==
    /\ daemon = "exit"
    /\ daemon' = "left"
    /\ UNCHANGED <<guard, pid, restart, process, deaf, stable, handler, quitAt, signals>>

\* kill(pid, SIGTERM): a process that has been reaped is not there any more, and
\* a child that is not yet at execv swallows the signal.
Kill(k) ==
    /\ process' = [process EXCEPT ![k] = IF @ = "running" THEN "asked" ELSE @]
    /\ deaf' = IF process[k] = "forked" THEN deaf \cup {k} ELSE deaf

Obey ==
    /\ guard' = FALSE
    /\ quitAt' = IF quitAt = NoQuit THEN Cardinality(Forked) ELSE quitAt

\* A quit signal delivered to another thread: the handler clears guard and
\* then kills, while the daemon's thread runs on.  Before the first fork has
\* been stored the pid is 0 and the signal is ignored.
SignalElsewhere ==
    /\ ~Ended
    /\ signals < MaxSignals
    /\ handler = "none"
    /\ signals' = signals + 1
    /\ IF pid = 0
       THEN UNCHANGED <<guard, handler, quitAt>>
       ELSE Obey /\ handler' = "kill"
    /\ UNCHANGED <<daemon, pid, restart, process, deaf, stable>>

\* The handler reads the pid again for the kill.
HandlerKills ==
    /\ ~Ended
    /\ handler = "kill"
    /\ Kill(pid)
    /\ handler' = "none"
    /\ UNCHANGED <<daemon, guard, pid, restart, stable, quitAt, signals>>

\* A quit signal delivered to the daemon's thread: the whole handler runs
\* between two of its steps.  If it interrupts waitpid, the status that is
\* looked at next is whatever was on the stack: the wait goes on or is over.
SignalHere ==
    /\ ~Ended
    /\ signals < MaxSignals
    /\ signals' = signals + 1
    /\ IF pid = 0
       THEN UNCHANGED <<guard, process, deaf, quitAt>>
       ELSE Obey /\ Kill(pid)
    /\ \/ UNCHANGED daemon
       \/ daemon = "wait" /\ daemon' = "down"
    /\ UNCHANGED <<pid, restart, stable, handler>>

DaemonStep ==
    \/ CheckGuard \/ Fork \/ StorePid \/ Reap \/ AppDown
    \/ ExitIfProcessNotStable \/ CleanUp \/ ExitZero

DaemonNext ==
    \/ DaemonStep
    \/ \E k \in Process : Exec(k) \/ ProcessExits(k)
    \/ StableTimeElapses
    \/ SignalElsewhere
    \/ HandlerKills
    \/ SignalHere

DaemonSpec == DaemonInit /\ [][DaemonNext]_daemonVars

-----------------------------------------------------------------------------

\* The types of the daemon's state.
DaemonTypeOK ==
    /\ daemon \in {"create", "store", "wait", "down", "gossip", "loop", "leave", "exit",
                   "left", "aborted"}
    /\ guard \in BOOLEAN
    /\ pid \in 0 .. MaxForks
    /\ restart \in BOOLEAN
    /\ process \in [Process -> {"none", "forked", "running", "asked", "exited", "signaled"}]
    /\ deaf \subseteq Process
    /\ stable \in BOOLEAN
    /\ handler \in {"none", "kill"}
    /\ quitAt \in 0 .. NoQuit
    /\ signals \in 0 .. MaxSignals

\* The node keeper does not end, by Exit(0) after it left the cluster or by
\* Exit(1) for an unstable application, while an application that it has not
\* told to stop is running: even a wait that the signal cut short comes after
\* the handler's kill of the process waited for.  The one exception is a child
\* that swallowed that very signal before its execv.
NoAppIsAbandoned ==
    Ended => \A k \in Process : process[k] \in {"forked", "running"} => k \in deaf

\* Once a quit signal was obeyed at most one more application is started: the
\* one whose guard had been read before the signal.
QuitStopsRestarting ==
    quitAt # NoQuit => Cardinality(Forked) <= quitAt + 1

\* There are never two applications, not even where a signal cut waitpid short
\* and the one waited for runs on: the handler has then cleared guard.
OneAppAtATime ==
    \A j, k \in Alive : j = k

\* Once a quit signal was obeyed the node keeper ends, unless it waits for an
\* application that the signal missed: one whose guard had been read before the
\* signal and whose pid was stored after it, or one that swallowed the signal
\* before its execv.
QuitIsObeyed ==
    []<>(guard \/ Ended \/ (daemon = "wait" /\ process[pid] = "running"))
=============================================================================
