----------------------------- MODULE HostProofs -----------------------------
(***************************************************************************)
(* Proofs about the daemon, for any number of applications and of signals, *)
(* delivered to any thread at any time; and about the host it is part of.  *)
(***************************************************************************)
EXTENDS Host, NotificationProofs

-----------------------------------------------------------------------------
(* The daemon.                                                             *)

Count == Cardinality(Forked)

\* Applications are numbered by their forks, and pid is the last one's, except
\* between fork and the store; a handler under way has seen that there is one.
PidInv ==
    /\ Count \in 0 .. MaxForks
    /\ Forked = 1 .. Count
    /\ daemon \in {"store", "wait"} => Count >= 1
    /\ pid = IF daemon = "store" THEN Count - 1 ELSE Count
    /\ handler = "kill" => pid >= 1

\* Only the last application may be there, and not when the next is forked.  If
\* it is there and not waited for, then a signal has cut the wait short: guard is
\* down, and the application was asked to stop or has swallowed the signal.
RunningInv ==
    \A k \in Alive :
        /\ k = Count
        /\ daemon # "create"
        /\ daemon \notin {"store", "wait"} =>
               guard = FALSE /\ (process[k] # "asked" => k \in deaf)

\* After a quit signal guard is down; a fork is then to come only if none has
\* come since.
QuitInv ==
    quitAt # NoQuit =>
        /\ guard = FALSE
        /\ Count <= quitAt + 1
        /\ daemon = "create" => Count = quitAt

DaemonInv == DaemonTypeOK /\ PidInv /\ RunningInv /\ QuitInv

LEMMA DaemonInitInv == DaemonInit => DaemonInv
<1> SUFFICES ASSUME DaemonInit PROVE DaemonInv
  OBVIOUS
<1>1. Forked = {}
  BY DEF DaemonInit, Forked
<1>2. Count = 0
  BY <1>1, FS_EmptySet DEF Count
<1>3. DaemonTypeOK
  <2>1. NoQuit \in 0 .. NoQuit /\ 0 \in 0 .. MaxForks
    BY DaemonAssumption DEF NoQuit
  <2>2. process \in [Process -> {"none", "forked", "running", "asked", "exited", "signaled"}]
    BY DEF DaemonInit
  <2>3. QED
    BY <2>1, <2>2 DEF DaemonInit, DaemonTypeOK
<1>4. PidInv
  BY <1>1, <1>2, DaemonAssumption DEF DaemonInit, PidInv
<1>5. RunningInv /\ QuitInv
  BY DEF DaemonInit, RunningInv, QuitInv, Alive
<1>6. QED
  BY <1>3, <1>4, <1>5 DEF DaemonInv

LEMMA SameCount ==
  ASSUME \A k \in Process : (process'[k] = "none") = (process[k] = "none")
  PROVE  Forked' = Forked /\ Count' = Count
<1>1. Forked' = Forked
  BY DEF Forked, Process
<1>2. QED
  BY <1>1 DEF Count

\* A signal ends no process: the one it is sent to was asked, or is deaf.
LEMMA KilledProcess ==
  ASSUME DaemonTypeOK, NEW k \in Process, Kill(k)
  PROVE  /\ process' \in [Process -> {"none", "forked", "running", "asked", "exited", "signaled"}]
         /\ deaf' \subseteq Process
         /\ Forked' = Forked /\ Count' = Count /\ Alive' = Alive
         /\ \A j \in Alive : process'[j] # "asked" =>
               process[j] # "asked" /\ (j \in deaf \/ j = k => j \in deaf')
<1>1. /\ process' \in [Process -> {"none", "forked", "running", "asked", "exited", "signaled"}]
      /\ \A j \in Process : (process'[j] = "none") = (process[j] = "none")
  BY DEF Kill, DaemonTypeOK
<1>2. deaf' \subseteq Process
  BY DEF Kill, DaemonTypeOK
<1>3. Forked' = Forked /\ Count' = Count
  BY <1>1, SameCount
<1>4. Alive' = Alive
  BY DEF Kill, DaemonTypeOK, Alive, Process
<1>5. ASSUME NEW j \in Alive, process'[j] # "asked"
      PROVE  process[j] # "asked" /\ (j \in deaf \/ j = k => j \in deaf')
  BY <1>5 DEF Kill, DaemonTypeOK, Alive
<1>6. QED
  BY <1>1, <1>2, <1>3, <1>4, <1>5

\* Once the wait is over the last application is asked or deaf, and remains so.
LEMMA KilledRunning ==
  ASSUME DaemonInv, Kill(pid), pid \in Process, daemon' \in {daemon, "down"}, pid' = pid,
         daemon' # daemon => daemon = "wait", guard' = guard \/ guard' = FALSE,
         daemon' # daemon => guard' = FALSE
  PROVE  RunningInv'
<1>1. /\ Count' = Count /\ Alive' = Alive
      /\ \A j \in Alive : process'[j] # "asked" =>
            process[j] # "asked" /\ (j \in deaf \/ j = pid => j \in deaf')
  BY KilledProcess DEF DaemonInv
<1>2. RunningInv /\ PidInv
  BY DEF DaemonInv
<1>3. CASE daemon' = daemon
  BY <1>1, <1>2, <1>3 DEF RunningInv
<1>4. CASE daemon' # daemon
  <2>1. daemon = "wait" /\ pid = Count /\ guard' = FALSE
    BY <1>2, <1>4 DEF PidInv
  <2>2. QED
    BY <1>1, <1>2, <1>4, <2>1 DEF RunningInv
<1>5. QED
  BY <1>3, <1>4

LEMMA ForkInv ==
  ASSUME DaemonInv, Fork
  PROVE  DaemonInv'
<1> USE DaemonAssumption DEF DaemonInv
<1>1. ASSUME NEW k \in Process, k = Count + 1, process' = [process EXCEPT ![k] = "forked"],
             daemon' = "store"
      PROVE  DaemonInv'
  <2>1. Forked' = Forked \cup {k}
    BY <1>1 DEF Forked, DaemonTypeOK
  <2>2. Forked' = 1 .. Count + 1
    BY <1>1, <2>1 DEF PidInv
  <2>3. Count' = Count + 1
    BY <2>2, FS_Interval DEF Count, PidInv
  <2>4. Count + 1 \in 0 .. MaxForks
    BY <1>1 DEF Process
  <2>5. UNCHANGED <<guard, pid, restart, deaf, stable, handler, quitAt, signals>>
        /\ daemon = "create"
    BY DEF Fork
  <2>6. DaemonTypeOK'
    BY <1>1, <2>5 DEF DaemonTypeOK
  <2>7. PidInv'
    BY <1>1, <2>2, <2>3, <2>4, <2>5 DEF PidInv
  <2>8. RunningInv'
    <3>1. Alive = {}
      BY <2>5 DEF RunningInv
    <3>2. Alive' \subseteq {k}
      BY <1>1, <3>1 DEF Alive, DaemonTypeOK
    <3>3. QED
      BY <1>1, <2>3, <3>2 DEF RunningInv
  <2>9. QuitInv'
    BY <1>1, <2>3, <2>5 DEF QuitInv, NoQuit, PidInv
  <2>10. QED
    BY <2>6, <2>7, <2>8, <2>9
<1>2. CASE daemon' = "aborted" /\ UNCHANGED process
  <2>1. UNCHANGED <<guard, pid, restart, process, deaf, stable, handler, quitAt, signals>>
        /\ daemon = "create"
    BY <1>2 DEF Fork
  <2>2. Forked' = Forked /\ Count' = Count
    BY <2>1, SameCount
  <2>3. RunningInv'
    BY <2>1 DEF RunningInv, Alive
  <2>4. QED
    BY <1>2, <2>1, <2>2, <2>3 DEF DaemonTypeOK, PidInv, QuitInv
<1>3. QED
  BY <1>1, <1>2 DEF Fork, Count

\* The daemon's other steps leave the processes alone.
LEMMA DaemonStepInv ==
  ASSUME DaemonInv, DaemonStep, ~Fork
  PROVE  DaemonInv'
<1> USE DaemonAssumption DEF DaemonInv, DaemonTypeOK, PidInv, QuitInv
<1>1. UNCHANGED <<guard, process, deaf>>
  BY DEF DaemonStep, CheckGuard, StorePid, Reap, AppDown, ExitIfProcessNotStable,
         CleanUp, ExitZero
<1>2. Forked' = Forked /\ Count' = Count /\ Alive' = Alive
  BY <1>1, SameCount DEF Alive
<1>3. CASE CheckGuard
  <2>1. RunningInv'
    BY <1>1, <1>2, <1>3 DEF CheckGuard, RunningInv
  <2>2. QED
    BY <1>1, <1>2, <1>3, <2>1 DEF CheckGuard
<1>4. CASE StorePid
  <2>1. RunningInv'
    BY <1>1, <1>2, <1>4 DEF StorePid, RunningInv
  <2>2. QED
    BY <1>1, <1>2, <1>4, <2>1 DEF StorePid, Count
<1>5. CASE Reap
  <2>1. Alive = {}
    BY <1>5 DEF Reap, RunningInv, Alive
  <2>2. RunningInv'
    BY <1>2, <2>1 DEF RunningInv
  <2>3. QED
    BY <1>1, <1>2, <1>5, <2>2 DEF Reap
<1>6. CASE AppDown \/ ExitIfProcessNotStable \/ CleanUp \/ ExitZero
  <2>1. RunningInv'
    BY <1>1, <1>2, <1>6 DEF AppDown, ExitIfProcessNotStable, CleanUp, ExitZero, RunningInv
  <2>2. QED
    BY <1>1, <1>2, <1>6, <2>1 DEF AppDown, ExitIfProcessNotStable, CleanUp, ExitZero
<1>7. QED
  BY <1>3, <1>4, <1>5, <1>6 DEF DaemonStep

\* What the applications do of themselves, and the time that passes.
LEMMA ProcessInv ==
  ASSUME DaemonInv,
         StableTimeElapses \/ \E k \in Process : Exec(k) \/ ProcessExits(k)
  PROVE  DaemonInv'
<1> USE DEF DaemonInv, DaemonTypeOK
<1>1. CASE StableTimeElapses
  <2>1. Forked' = Forked /\ Count' = Count
    BY <1>1, SameCount DEF StableTimeElapses
  <2>2. RunningInv'
    BY <1>1, <2>1 DEF StableTimeElapses, RunningInv, Alive
  <2>3. QED
    BY <1>1, <2>1, <2>2 DEF StableTimeElapses, PidInv, QuitInv
<1>2. ASSUME NEW k \in Process, Exec(k) \/ ProcessExits(k) PROVE DaemonInv'
  <2>1. /\ process' \in [Process -> {"none", "forked", "running", "asked", "exited", "signaled"}]
        /\ \A j \in Process : (process'[j] = "none") = (process[j] = "none")
    BY <1>2 DEF Exec, ProcessExits, Alive
  <2>2. Forked' = Forked /\ Count' = Count
    BY <2>1, SameCount
  <2>3. /\ Alive' \subseteq Alive
        /\ \A j \in Alive' : process'[j] # "asked" => process[j] # "asked"
    BY <1>2 DEF Exec, ProcessExits, Alive, Process
  <2>4. UNCHANGED <<daemon, guard, pid, restart, deaf, stable, handler, quitAt, signals>>
    BY <1>2 DEF Exec, ProcessExits
  <2>5. RunningInv'
    BY <2>2, <2>3, <2>4 DEF RunningInv
  <2>6. QED
    BY <2>1, <2>2, <2>4, <2>5 DEF PidInv, QuitInv
<1>3. QED
  BY <1>1, <1>2

\* Whether the signal is obeyed or ignored, the forks made by then are what counts.
LEMMA ObeyInv ==
  ASSUME DaemonInv, Obey \/ UNCHANGED <<guard, quitAt>>, Count' = Count,
         daemon' \in {daemon, "down"}
  PROVE  guard' \in BOOLEAN /\ quitAt' \in 0 .. NoQuit /\ QuitInv'
<1>1. /\ Count \in 0 .. MaxForks /\ MaxForks \in Nat
      /\ quitAt \in 0 .. NoQuit /\ guard \in BOOLEAN
  BY DaemonAssumption DEF DaemonInv, DaemonTypeOK, PidInv
<1>2. CASE UNCHANGED <<guard, quitAt>>
  <2>1. QuitInv
    BY DEF DaemonInv
  <2>2. NoQuit' = NoQuit
    BY DEF NoQuit
  <2> HIDE DEF NoQuit
  <2>3. daemon' = "create" => daemon = "create"
    OBVIOUS
  <2>4. QED
    BY <1>1, <1>2, <2>1, <2>2, <2>3 DEF QuitInv
<1>3. CASE Obey /\ quitAt = NoQuit
  <2>1. guard' = FALSE /\ quitAt' = Count
    BY <1>3 DEF Obey, Count
  <2>2. quitAt' \in 0 .. NoQuit /\ Count' <= quitAt' + 1
    BY <1>1, <2>1 DEF NoQuit
  <2>3. QED
    BY <2>1, <2>2 DEF QuitInv
<1>4. CASE Obey /\ quitAt # NoQuit
  <2>1. guard' = FALSE /\ quitAt' = quitAt
    BY <1>4 DEF Obey
  <2>2. QED
    BY <1>1, <1>4, <2>1 DEF DaemonInv, QuitInv, NoQuit
<1>5. QED
  BY <1>2, <1>3, <1>4

\* A signal handler, in whichever thread: a wait that it cuts short was for the
\* process that it sent the signal to.
LEMMA SignalInv ==
  ASSUME DaemonInv, SignalElsewhere \/ HandlerKills \/ SignalHere
  PROVE  DaemonInv'
<1> USE DaemonAssumption DEF DaemonInv
<1>1. pid \in 0 .. MaxForks /\ Count \in 0 .. MaxForks
  BY DEF DaemonTypeOK, PidInv
<1>2. CASE SignalElsewhere
  <2>1. Forked' = Forked /\ Count' = Count /\ Alive' = Alive
    BY <1>2, SameCount DEF SignalElsewhere, Alive
  <2>2. UNCHANGED <<daemon, pid, restart, process, deaf, stable>>
        /\ handler' \in {"none", "kill"} /\ signals' \in 0 .. MaxSignals
    BY <1>2 DEF SignalElsewhere, DaemonTypeOK
  <2>3. (Obey \/ UNCHANGED <<guard, quitAt>>)
    BY <1>2 DEF SignalElsewhere
  <2>4. guard' \in BOOLEAN /\ quitAt' \in 0 .. NoQuit /\ QuitInv'
    BY <2>1, <2>2, <2>3, ObeyInv
  <2>5. handler' = "kill" => pid >= 1
    BY <1>1, <1>2 DEF SignalElsewhere
  <2>6. RunningInv'
    BY <2>1, <2>2, <2>3 DEF RunningInv, Obey
  <2>7. QED
    BY <2>1, <2>2, <2>4, <2>5, <2>6 DEF DaemonTypeOK, PidInv
<1>3. CASE HandlerKills
  <2>1. UNCHANGED <<daemon, guard, pid, restart, stable, quitAt, signals>>
        /\ handler' = "none" /\ Kill(pid) /\ handler = "kill"
    BY <1>3 DEF HandlerKills
  <2>2. pid \in Process
    BY <1>1, <2>1 DEF PidInv, Process
  <2>3. /\ process' \in [Process -> {"none", "forked", "running", "asked", "exited", "signaled"}]
        /\ deaf' \subseteq Process /\ Forked' = Forked /\ Count' = Count
    BY <2>1, <2>2, KilledProcess
  <2>4. RunningInv'
    BY <2>1, <2>2, KilledRunning
  <2>5. QED
    BY <2>1, <2>3, <2>4 DEF DaemonTypeOK, PidInv, QuitInv
<1>4. CASE SignalHere
  <2>1. UNCHANGED <<pid, restart, stable, handler>> /\ signals' \in 0 .. MaxSignals
        /\ (daemon' = daemon \/ (daemon = "wait" /\ daemon' = "down"))
    BY <1>4 DEF SignalHere, DaemonTypeOK
  <2>2. CASE pid = 0
    <3>1. UNCHANGED <<guard, process, deaf, quitAt>>
      BY <1>4, <2>2 DEF SignalHere
    <3>2. Forked' = Forked /\ Count' = Count /\ Alive' = Alive
      BY <3>1, SameCount DEF Alive
    <3>3. daemon # "wait"
      BY <1>1, <2>2 DEF PidInv
    <3>4. RunningInv'
      BY <2>1, <3>1, <3>2, <3>3 DEF RunningInv
    <3>5. QED
      BY <2>1, <3>1, <3>2, <3>3, <3>4 DEF DaemonTypeOK, PidInv, QuitInv
  <2>3. CASE pid # 0
    <3>1. Obey /\ Kill(pid) /\ pid \in Process
      BY <1>1, <1>4, <2>3 DEF SignalHere, Process
    <3>2. /\ process' \in [Process -> {"none", "forked", "running", "asked", "exited", "signaled"}]
          /\ deaf' \subseteq Process /\ Forked' = Forked /\ Count' = Count
      BY <3>1, KilledProcess
    <3>3. guard' \in BOOLEAN /\ quitAt' \in 0 .. NoQuit /\ QuitInv'
      BY <2>1, <3>1, <3>2, ObeyInv
    <3>4. DaemonTypeOK' /\ PidInv'
      BY <2>1, <3>2, <3>3 DEF DaemonTypeOK, PidInv
    <3>5. guard' = FALSE
      BY <3>1 DEF Obey
    <3>6. RunningInv'
      BY <2>1, <3>1, <3>5, KilledRunning
    <3>7. QED
      BY <3>3, <3>4, <3>6
  <2>4. QED
    BY <2>2, <2>3
<1>5. QED
  BY <1>2, <1>3, <1>4

LEMMA DaemonNextInv == DaemonInv /\ [DaemonNext]_daemonVars => DaemonInv'
<1> SUFFICES ASSUME DaemonInv, [DaemonNext]_daemonVars PROVE DaemonInv'
  OBVIOUS
<1>1. CASE DaemonStep
  BY <1>1, ForkInv, DaemonStepInv
<1>2. CASE StableTimeElapses \/ \E k \in Process : Exec(k) \/ ProcessExits(k)
  BY <1>2, ProcessInv
<1>3. CASE SignalElsewhere \/ HandlerKills \/ SignalHere
  BY <1>3, SignalInv
<1>4. CASE UNCHANGED daemonVars
  <2>1. Forked' = Forked /\ Count' = Count
    BY <1>4, SameCount DEF daemonVars
  <2>2. RunningInv'
    BY <1>4, <2>1 DEF daemonVars, DaemonInv, RunningInv, Alive
  <2>3. QED
    BY <1>4, <2>1, <2>2 DEF daemonVars, DaemonInv, DaemonTypeOK, PidInv, QuitInv
<1>5. QED
  BY <1>1, <1>2, <1>3, <1>4 DEF DaemonNext

LEMMA DaemonInvariant == DaemonSpec => []DaemonInv
  BY DaemonInitInv, DaemonNextInv, PTL DEF DaemonSpec

\* The state that Daemon::Run and the signal handler share keeps its types.
THEOREM DaemonTypeCorrect == DaemonSpec => []DaemonTypeOK
<1>1. DaemonInv => DaemonTypeOK
  BY DEF DaemonInv
<1>2. QED
  BY <1>1, DaemonInvariant, PTL

\* The node keeper's Exit never leaves an application running that it has not told
\* to stop, even where the signal's handler and the daemon's thread run at once,
\* unless that child swallowed the signal before its execv.
THEOREM NoneAbandoned == DaemonSpec => []NoAppIsAbandoned
<1>1. DaemonInv => NoAppIsAbandoned
  BY DEF DaemonInv, RunningInv, NoAppIsAbandoned, Ended, Alive
<1>2. QED
  BY <1>1, DaemonInvariant, PTL

\* After a quit signal was obeyed, Daemon::Run forks at most once more.
THEOREM QuitStops == DaemonSpec => []QuitStopsRestarting
<1>1. DaemonInv => QuitStopsRestarting
  BY DEF DaemonInv, QuitInv, QuitStopsRestarting, Count
<1>2. QED
  BY <1>1, DaemonInvariant, PTL

\* Daemon::Run never forks an application while another is there, although a
\* signal may make it give up its wait.
THEOREM OneApp == DaemonSpec => []OneAppAtATime
<1>1. DaemonInv => OneAppAtATime
  BY DEF DaemonInv, RunningInv, OneAppAtATime
<1>2. QED
  BY <1>1, DaemonInvariant, PTL

-----------------------------------------------------------------------------
(* The host: its daemon and its notification path, and what they share.    *)

\* A step of the host is one of its daemon's or leaves the daemon alone.
LEMMA HostStepsDaemon == [HostNext]_hostVars => [DaemonNext]_daemonVars
<1> SUFFICES ASSUME [HostNext]_hostVars
             PROVE  [DaemonNext]_daemonVars
  OBVIOUS
<1>1. CASE DaemonAlone
  BY <1>1 DEF DaemonAlone, DaemonNext, DaemonStep
<1>2. CASE AppDownHandle \/ AppDownGossip
  BY <1>2 DEF AppDownHandle, AppDownGossip, DaemonNext, DaemonStep
<1>3. ASSUME NEW r \in Run, AppExits(r)
      PROVE  DaemonNext
  BY <1>3, HostAssumption DEF AppExits, DaemonNext
<1>4. CASE NotificationAlone
  BY <1>4 DEF NotificationAlone
<1>5. ASSUME NEW r \in Run,
             \/ AppConnects(r) \/ NotifyReady(r)
             \/ SetSelfActorSystemUp(r) \/ SendSelfActorSystemUpGossip(r)
      PROVE  UNCHANGED daemonVars
  BY <1>5 DEF AppConnects, NotifyReady, SetSelfActorSystemUp, SendSelfActorSystemUpGossip
<1>6. CASE UNCHANGED hostVars \/ HandleDidPull \/ AnnounceAfterPull
  BY <1>6 DEF hostVars, HandleDidPull, AnnounceAfterPull
<1>7. QED
  BY <1>1, <1>2, <1>3, <1>4, <1>5, <1>6 DEF HostNext

\* The daemon of a host, whatever the rest of the host does, is the daemon.
THEOREM HostImplementsDaemon == HostSpec => DaemonSpec
<1>1. HostInit => DaemonInit
  BY DEF HostInit
<1>2. QED
  BY <1>1, HostStepsDaemon, PTL DEF HostSpec, DaemonSpec

\* A step of the host is one of the notification path or leaves it alone: the
\* daemon's fork and wait are the start and the end of a run of the application.
LEMMA HostStepsNotification == [HostNext]_hostVars => [NotificationNext]_notificationVars
<1> SUFFICES ASSUME [HostNext]_hostVars
             PROVE  [NotificationNext]_notificationVars
  OBVIOUS
<1>1. CASE NotificationAlone
  BY <1>1 DEF NotificationAlone, NotificationNext
<1>2. ASSUME NEW r \in Run, AppConnects(r) \/ AppExits(r)
      PROVE  NotificationNext
  BY <1>2 DEF AppConnects, AppExits, NotificationNext
<1>3. CASE DaemonAlone \/ AppDownHandle \/ AppDownGossip
  BY <1>3 DEF DaemonAlone, AppDownHandle, AppDownGossip
<1>4. ASSUME NEW r \in Run,
             NotifyReady(r) \/ SetSelfActorSystemUp(r) \/ SendSelfActorSystemUpGossip(r)
      PROVE  UNCHANGED notificationVars
  BY <1>4 DEF NotifyReady, SetSelfActorSystemUp, SendSelfActorSystemUpGossip
<1>5. CASE UNCHANGED hostVars \/ HandleDidPull \/ AnnounceAfterPull
  BY <1>5 DEF hostVars, HandleDidPull, AnnounceAfterPull
<1>6. QED
  BY <1>1, <1>2, <1>3, <1>4, <1>5 DEF HostNext

\* The notification path of a host, whatever its daemon does, is the path.
THEOREM HostImplementsNotification == HostSpec => NotificationSpec
<1>1. HostInit => NotificationInit
  BY DEF HostInit
<1>2. QED
  BY <1>1, HostStepsNotification, PTL DEF HostSpec, NotificationSpec

\* A connected client belongs to an application that is there.
ConnectedInv ==
    \A r \in Run : client[r] \in {"off", "gone"} \/ r \in Alive

Handled == daemon \in {"gossip", "loop", "create", "leave", "exit"}

\* Once the daemon has handled an exit, whoever may still set the flag or announce
\* was under way then.  A thread that comes to the test of the flag finds it set
\* only by such a writer, and so does no more than that writer may.
WritersInv ==
    Handled =>
        /\ MayStillSet \subseteq racing
        /\ isSelfUp => "flag" \in racing
        /\ "flag" \in racing => "gossip" \in racing

AnnouncedInv ==
    Handled /\ daemon # "gossip" /\ announced => "gossip" \in racing

StatusInv == HostTypeOK /\ ConnectedInv /\ WritersInv /\ AnnouncedInv

LEMMA StatusInitInv == HostInit => StatusInv
<1> SUFFICES ASSUME HostInit PROVE StatusInv
  OBVIOUS
<1>1. HostTypeOK /\ AnnouncedInv
  BY DEF HostInit, HostTypeOK, AnnouncedInv
<1>2. ConnectedInv
  BY DEF HostInit, NotificationInit, ConnectedInv
<1>3. MayStillSet = {}
  BY HostAssumption DEF HostInit, DaemonInit, MayStillSet, Alive
<1>4. WritersInv
  BY <1>3 DEF HostInit, WritersInv
<1>5. QED
  BY <1>1, <1>2, <1>4 DEF StatusInv

\* Of the daemon's own steps only Fork adds an application, and none but AppDown,
\* which is not among them, has the exit handled.
LEMMA DaemonAloneSteps ==
  ASSUME DaemonTypeOK, DaemonAlone
  PROVE  /\ Handled' => Handled /\ Alive' \subseteq Alive
         /\ Handled' /\ daemon' # "gossip" => daemon # "gossip"
         /\ Fork \/ Alive' = Alive
<1>1. CASE Fork
  BY <1>1 DEF Fork, Handled, Alive
<1>2. CASE CheckGuard \/ StorePid \/ Reap \/ CleanUp \/ ExitZero \/ StableTimeElapses
           \/ SignalElsewhere
  BY <1>2 DEF CheckGuard, StorePid, Reap, CleanUp, ExitZero, StableTimeElapses,
     SignalElsewhere, Handled, Alive
<1>3. CASE HandlerKills \/ SignalHere
  <2>1. Kill(pid) \/ UNCHANGED process
    BY <1>3 DEF HandlerKills, SignalHere
  <2>2. Alive' = Alive
    BY <2>1 DEF Kill, DaemonTypeOK, Alive
  <2>3. QED
    BY <1>3, <2>2 DEF HandlerKills, SignalHere, Handled
<1>4. ASSUME NEW k \in Process, Exec(k)
      PROVE  Alive' = Alive /\ daemon' = daemon
  BY <1>4 DEF Exec, DaemonTypeOK, Alive
<1>5. QED
  BY <1>1, <1>2, <1>3, <1>4 DEF DaemonAlone, Handled

\* Fewer writers, and the flag and the gossip as they were.
LEMMA SameWriters ==
  ASSUME StatusInv, UNCHANGED <<isSelfUp, announced, racing>>,
         Handled' => Handled /\ MayStillSet' \subseteq MayStillSet,
         Handled' /\ daemon' # "gossip" => daemon # "gossip"
  PROVE  WritersInv' /\ AnnouncedInv'
BY DEF StatusInv, WritersInv, AnnouncedInv

LEMMA DaemonAloneStatus ==
  ASSUME StatusInv, DaemonTypeOK, DaemonAlone
  PROVE  StatusInv'
<1>1. UNCHANGED <<notificationVars, statusVars>>
  BY DEF DaemonAlone
<1>2. UNCHANGED <<isSelfUp, announced, ready, pull, racing, client>>
  BY <1>1 DEF statusVars, notificationVars, clientVars
<1>3. Handled' => Handled /\ MayStillSet' \subseteq MayStillSet
  BY <1>2, DaemonAloneSteps DEF MayStillSet
<1>4. WritersInv' /\ AnnouncedInv'
  BY <1>2, <1>3, DaemonAloneSteps, SameWriters
<1>5. Alive \subseteq Alive'
  BY DaemonAloneSteps DEF Fork, Alive, DaemonTypeOK
<1>6. ConnectedInv'
  BY <1>2, <1>5 DEF StatusInv, ConnectedInv
<1>7. HostTypeOK'
  BY <1>2 DEF StatusInv, HostTypeOK
<1>8. QED
  BY <1>4, <1>6, <1>7 DEF StatusInv

\* The clients connect, go on and stop with their applications.
LEMMA ApplicationStatus ==
  ASSUME StatusInv, DaemonTypeOK, NotificationTypeOK,
         \/ NotificationAlone \/ UNCHANGED hostVars
         \/ \E r \in Run : AppConnects(r) \/ AppExits(r)
  PROVE  StatusInv'
<1>1. UNCHANGED <<isSelfUp, announced, ready, pull, racing>> /\ daemon' = daemon
  BY DEF NotificationAlone, hostVars, daemonVars, statusVars, AppConnects, AppExits,
     ProcessExits
<1>2. Alive' \subseteq Alive
  BY DEF NotificationAlone, hostVars, daemonVars, AppConnects, AppExits, ProcessExits,
     Alive, DaemonTypeOK
<1>3. MayStillSet' \subseteq MayStillSet
  BY <1>1, <1>2 DEF MayStillSet
<1>4. WritersInv' /\ AnnouncedInv'
  BY <1>1, <1>3, SameWriters DEF Handled
<1>5. HostTypeOK'
  BY <1>1 DEF StatusInv, HostTypeOK
<1>6. ConnectedInv'
  <2> USE DEF StatusInv, ConnectedInv
  <2>1. CASE UNCHANGED hostVars
    BY <2>1 DEF hostVars, daemonVars, notificationVars, clientVars, Alive
  <2>2. ASSUME MembershipStep \/ KeeperStep \/ SpuriousWakeup, UNCHANGED daemonVars
        PROVE  ConnectedInv'
    <3>1. client' = client
      BY <2>2 DEF MembershipStep, MembersChange, SystemsChange, SubscriberUpdate, KeeperStep,
         TakeSnapshot, Generate, NotifyInsert, NotifyPut, KeeperWaits, SpuriousWakeup,
         clientVars
    <3>2. QED
      BY <2>2, <3>1 DEF daemonVars, Alive
  <2>3. ASSUME NEW r \in Run, ClientStep(r), UNCHANGED daemonVars
        PROVE  ConnectedInv'
    <3>1. \A q \in Run : client[q] \in {"off", "gone"} => client'[q] = client[q]
      BY <2>3 DEF ClientStep, Fetch, Subscribe, Deliver, NotificationTypeOK
    <3>2. Alive' = Alive
      BY <2>3 DEF daemonVars, Alive
    <3>3. QED
      BY <3>1, <3>2
  <2>4. ASSUME NEW r \in Run, AppConnects(r) PROVE ConnectedInv'
    <3>1. r \in Alive /\ Alive' = Alive
      BY <2>4, HostAssumption DEF AppConnects, daemonVars, Alive
    <3>2. \A q \in Run : q # r => client'[q] = client[q]
      BY <2>4 DEF AppConnects, StartClient, NotificationTypeOK
    <3>3. QED
      BY <3>1, <3>2
  <2>5. ASSUME NEW r \in Run, AppExits(r) PROVE ConnectedInv'
    <3>1. \A q \in Alive : q # r => q \in Alive'
      BY <2>5 DEF AppExits, ProcessExits, Alive, DaemonTypeOK
    <3>2. \A q \in Run : client'[q] = IF q = r THEN "gone" ELSE client[q]
      BY <2>5 DEF AppExits, StopClient, NotificationTypeOK
    <3>3. QED
      BY <3>1, <3>2
  <2>6. QED
    BY <2>1, <2>2, <2>3, <2>4, <2>5 DEF NotificationAlone
<1>7. QED
  BY <1>4, <1>5, <1>6 DEF StatusInv

\* The call of an application, which is there when it makes it, and its handler.
LEMMA CallStatus ==
  ASSUME StatusInv, NEW r \in Run,
         NotifyReady(r) \/ SetSelfActorSystemUp(r) \/ SendSelfActorSystemUpGossip(r)
  PROVE  StatusInv'
<1> USE DEF StatusInv
<1>1. UNCHANGED <<daemonVars, notificationVars, pull, racing>>
  BY DEF NotifyReady, SetSelfActorSystemUp, SendSelfActorSystemUpGossip
<1>2. Alive' = Alive /\ Handled' = Handled /\ daemon' = daemon
  BY <1>1 DEF daemonVars, Alive, Handled
<1>3. ConnectedInv'
  BY <1>1, <1>2 DEF ConnectedInv, notificationVars, clientVars
<1>4. HostTypeOK'
  BY <1>1 DEF HostTypeOK, NotifyReady, SetSelfActorSystemUp, SendSelfActorSystemUpGossip
<1>5. CASE NotifyReady(r) \/ SetSelfActorSystemUp(r)
  <2>1. {"flag", "gossip"} \subseteq MayStillSet
    BY <1>5 DEF NotifyReady, SetSelfActorSystemUp, ConnectedInv, MayStillSet
  <2>2. MayStillSet' \subseteq {"flag", "gossip"}
    BY DEF MayStillSet
  <2>3. Handled => {"flag", "gossip"} \subseteq racing
    BY <2>1 DEF WritersInv
  <2>4. QED
    BY <1>1, <1>2, <1>3, <1>4, <2>2, <2>3 DEF WritersInv, AnnouncedInv
<1>6. CASE SendSelfActorSystemUpGossip(r)
  <2>1. "gossip" \in MayStillSet
    BY <1>6 DEF SendSelfActorSystemUpGossip, MayStillSet
  <2>2. \A q \in Run : ready'[q] \in {"sent", "set"} => ready'[q] = ready[q]
    BY <1>6 DEF SendSelfActorSystemUpGossip, HostTypeOK
  <2>3. MayStillSet' \subseteq MayStillSet
    BY <1>1, <1>2, <2>2 DEF MayStillSet
  <2>4. isSelfUp' = isSelfUp
    BY <1>6 DEF SendSelfActorSystemUpGossip
  <2>5. QED
    BY <1>1, <1>2, <1>3, <1>4, <2>1, <2>3, <2>4 DEF WritersInv, AnnouncedInv
<1>7. QED
  BY <1>5, <1>6

\* The callback of the pull: the test, and the gossip on its outcome.
LEMMA PullStatus ==
  ASSUME StatusInv, HandleDidPull \/ AnnounceAfterPull
  PROVE  StatusInv'
<1> USE DEF StatusInv
<1>1. UNCHANGED <<daemonVars, notificationVars, isSelfUp, ready, racing>>
  BY DEF HandleDidPull, AnnounceAfterPull
<1>2. Alive' = Alive /\ Handled' = Handled /\ daemon' = daemon
  BY <1>1 DEF daemonVars, Alive, Handled
<1>3. ConnectedInv'
  BY <1>1, <1>2 DEF ConnectedInv, notificationVars, clientVars
<1>4. HostTypeOK'
  BY <1>1 DEF HostTypeOK, HandleDidPull, AnnounceAfterPull
<1>5. CASE HandleDidPull
  <2>1. (pull' = "announce" => isSelfUp) /\ announced' = announced
    BY <1>5 DEF HandleDidPull
  <2>2. MayStillSet' \subseteq MayStillSet \cup (IF isSelfUp THEN {"gossip"} ELSE {})
    BY <1>1, <1>2, <2>1 DEF MayStillSet
  <2>3. QED
    BY <1>1, <1>2, <1>3, <1>4, <2>1, <2>2 DEF WritersInv, AnnouncedInv
<1>6. CASE AnnounceAfterPull
  <2>1. "gossip" \in MayStillSet
    BY <1>6 DEF AnnounceAfterPull, MayStillSet
  <2>2. MayStillSet' \subseteq MayStillSet
    BY <1>1, <1>2, <1>6 DEF AnnounceAfterPull, MayStillSet
  <2>3. QED
    BY <1>1, <1>2, <1>3, <1>4, <2>1, <2>2 DEF WritersInv, AnnouncedInv
<1>7. QED
  BY <1>5, <1>6

\* The daemon's thread handles the exit: the flag falls, then the gossip is sent.
LEMMA AppDownStatus ==
  ASSUME StatusInv, AppDownHandle \/ AppDownGossip
  PROVE  StatusInv'
<1> USE DEF StatusInv
<1>1. UNCHANGED <<process, notificationVars, ready, pull>>
  BY DEF AppDownHandle, AppDown, AppDownGossip, ExitIfProcessNotStable
<1>2. Alive' = Alive /\ MayStillSet' = MayStillSet
  BY <1>1 DEF Alive, MayStillSet
<1>3. ConnectedInv'
  BY <1>1, <1>2 DEF ConnectedInv, notificationVars, clientVars
<1>4. CASE AppDownHandle
  <2>1. isSelfUp' = FALSE /\ racing' = MayStillSet /\ daemon' = "gossip"
        /\ announced' = announced
    BY <1>4 DEF AppDownHandle, AppDown
  <2>2. MayStillSet \subseteq {"flag", "gossip"}
        /\ ("flag" \in MayStillSet => "gossip" \in MayStillSet)
    BY DEF MayStillSet
  <2>3. HostTypeOK'
    BY <1>1, <2>1, <2>2 DEF HostTypeOK
  <2>4. QED
    BY <1>2, <1>3, <2>1, <2>2, <2>3 DEF WritersInv, AnnouncedInv
<1>5. CASE AppDownGossip
  <2>1. UNCHANGED <<isSelfUp, racing>> /\ announced' = FALSE /\ Handled
    BY <1>5 DEF AppDownGossip, ExitIfProcessNotStable, Handled
  <2>2. HostTypeOK'
    BY <1>1, <2>1 DEF HostTypeOK
  <2>3. QED
    BY <1>2, <1>3, <2>1, <2>2 DEF WritersInv, AnnouncedInv
<1>6. QED
  BY <1>4, <1>5

LEMMA StatusStepInv ==
  StatusInv /\ DaemonTypeOK /\ NotificationTypeOK /\ [HostNext]_hostVars => StatusInv'
<1> SUFFICES ASSUME StatusInv, DaemonTypeOK, NotificationTypeOK, [HostNext]_hostVars
             PROVE  StatusInv'
  OBVIOUS
<1>1. CASE DaemonAlone
  BY <1>1, DaemonAloneStatus
<1>2. CASE \/ NotificationAlone \/ UNCHANGED hostVars
           \/ \E r \in Run : AppConnects(r) \/ AppExits(r)
  BY <1>2, ApplicationStatus
<1>3. ASSUME NEW r \in Run,
             NotifyReady(r) \/ SetSelfActorSystemUp(r) \/ SendSelfActorSystemUpGossip(r)
      PROVE  StatusInv'
  BY <1>3, CallStatus
<1>4. CASE HandleDidPull \/ AnnounceAfterPull
  BY <1>4, PullStatus
<1>5. CASE AppDownHandle \/ AppDownGossip
  BY <1>5, AppDownStatus
<1>6. QED
  BY <1>1, <1>2, <1>3, <1>4, <1>5 DEF HostNext

LEMMA StatusInvariant == HostSpec => []StatusInv
<1>1. HostSpec => [](DaemonTypeOK /\ NotificationTypeOK)
  BY HostImplementsDaemon, HostImplementsNotification, DaemonTypeCorrect,
     NotificationTypes, PTL
<1>2. QED
  BY <1>1, StatusInitInv, StatusStepInv, PTL DEF HostSpec

\* Daemon::Run, GRPCImpl and the application together keep the host's own state
\* and that of its two parts to their types.
THEOREM HostTypeCorrect == HostSpec => [](DaemonTypeOK /\ NotificationTypeOK /\ HostTypeOK)
<1>1. StatusInv => HostTypeOK
  BY DEF StatusInv
<1>2. QED
  BY <1>1, StatusInvariant, HostImplementsDaemon, HostImplementsNotification,
     DaemonTypeCorrect, NotificationTypes, PTL

\* Once NotifyActorSystemDown has handled the end of an application, the node takes
\* its actor system for up, or announces it, until the next one is there only through
\* a server thread, the io thread or an application that was under way at that moment.
THEOREM DeadAppStaysDown == HostSpec => []DeadAppIsDown
<1>1. StatusInv => DeadAppIsDown
  BY DEF StatusInv, WritersInv, AnnouncedInv, Handled, DeadAppIsDown
<1>2. QED
  BY <1>1, StatusInvariant, PTL

\* What is proved of the daemon and of the notification path holds on a host, where
\* the application that is told of the cluster is the one the daemon runs.
THEOREM HostKeepsBoth ==
  HostSpec => [](NoAppIsAbandoned /\ SettledKeeperIsCurrent /\ AppSeesCluster /\ EventsAlternate)
BY HostImplementsDaemon, HostImplementsNotification, NoneAbandoned, SettledKeeperKeepsUp,
   ApplicationsSeeTheCluster, EventsOfANodeAlternate, PTL
=============================================================================
