------------------------------- MODULE Monitors -------------------------------
(***************************************************************************)
(* cdcf::ActorMonitor tells the application which actor went down, with    *)
(* the description it was given; cdcf::ActorStatusMonitor keeps the list   *)
(* of the actors that run, which the actor status service reads, and drops *)
(* an actor when a monitor of its own says it is down.  SetMonitor runs on *)
(* the thread of the application: it mails the description and then        *)
(* attaches the monitor to the actor; CAF mails the down message when the  *)
(* actor ends, or at once if it has.                                       *)
(***************************************************************************)
EXTENDS Naturals, Sequences, SequencesExt

CONSTANTS
    Watched,        \* the actors that are monitored
    MaxMonitorCalls \* bound on SetMonitor, StopMonitor and RegisterActor

\* "application": the ActorMonitor an application uses itself; "status": the one
\* that ActorStatusMonitor spawns.
Supervisor == {"application", "status"}

VARIABLES
    watchedUp,      \* the watched actors that run
    actorStatus,    \* actor_status_
    attached,       \* per supervisor: the actors it is attached to
    supervisorMail, \* per supervisor: its mailbox
    descriptions,   \* per supervisor: the actors with an entry in actor_map_
    monitorCall,    \* the call of the application thread under way: its steps left
    undescribed,    \* history: actors reported down with no description
    stopped,        \* history: actors the application stopped to monitor
    monitorCalls    \* bounded count

monitorVars ==
    <<watchedUp, actorStatus, attached, supervisorMail, descriptions, monitorCall,
      undescribed, stopped, monitorCalls>>

MonitorInit ==
    /\ watchedUp = Watched
    /\ actorStatus = {}
    /\ attached = [s \in Supervisor |-> {}]
    /\ supervisorMail = [s \in Supervisor |-> <<>>]
    /\ descriptions = [s \in Supervisor |-> {}]
    /\ monitorCall = <<>>
    /\ undescribed = {}
    /\ stopped = {}
    /\ monitorCalls = 0

Do(step, s, a) == [step |-> step, by |-> s, of |-> a]

\* Mutant of SetMonitor: the monitor is attached before the description is sent.
SetMonitorFirst(s, a) == <<Do("monitor", s, a), Do("describe", s, a)>>

SetMonitor(s, a) == <<Do("describe", s, a), Do("monitor", s, a)>>

StopMonitor(s, a) == <<Do("demonitor", s, a), Do("detach", s, a)>>

\* Mutant of RegisterActor: the actor is listed when it is monitored.
RegisterActorLate(a) == SetMonitor("status", a) \o <<Do("list", "status", a)>>

RegisterActor(a) == <<Do("list", "status", a)>> \o SetMonitor("status", a)

\* The application thread begins a call of the library.
BeginCall(steps) ==
    /\ monitorCall = <<>>
    /\ monitorCalls < MaxMonitorCalls
    /\ monitorCalls' = monitorCalls + 1
    /\ monitorCall' = steps
    /\ UNCHANGED <<watchedUp, actorStatus, attached, supervisorMail, descriptions, undescribed>>

CallRegisterActor(a) == BeginCall(RegisterActor(a)) /\ UNCHANGED stopped

CallSetMonitor(a) == BeginCall(SetMonitor("application", a)) /\ UNCHANGED stopped

CallStopMonitor(a) ==
    BeginCall(StopMonitor("application", a)) /\ stopped' = stopped \cup {a}

Mail(s, kind, a) ==
    supervisorMail' = [supervisorMail EXCEPT ![s] = Append(@, [kind |-> kind, of |-> a])]

\* The next step of the call under way.  monitor() of an actor that has ended
\* mails the down message at once.
MonitorCallStep ==
    /\ monitorCall # <<>>
    /\ monitorCall' = Tail(monitorCall)
    /\ LET d == Head(monitorCall) IN
          CASE d.step = "list" ->
                 /\ actorStatus' = actorStatus \cup {d.of}
                 /\ UNCHANGED <<attached, supervisorMail>>
            [] d.step \in {"describe", "demonitor"} ->
                 Mail(d.by, d.step, d.of) /\ UNCHANGED <<actorStatus, attached>>
            [] d.step = "monitor" /\ d.of \in watchedUp ->
                 /\ attached' = [attached EXCEPT ![d.by] = @ \cup {d.of}]
                 /\ UNCHANGED <<actorStatus, supervisorMail>>
            [] d.step = "monitor" /\ d.of \notin watchedUp ->
                 Mail(d.by, "down", d.of) /\ UNCHANGED <<actorStatus, attached>>
            [] d.step = "detach" ->
                 /\ attached' = [attached EXCEPT ![d.by] = @ \ {d.of}]
                 /\ UNCHANGED <<actorStatus, supervisorMail>>
    /\ UNCHANGED <<watchedUp, descriptions, undescribed, stopped, monitorCalls>>

\* An actor ends: the supervisors attached to it get a down message.
WatchedEnds(a) ==
    /\ a \in watchedUp
    /\ watchedUp' = watchedUp \ {a}
    /\ supervisorMail' = [s \in Supervisor |->
                             IF a \in attached[s]
                             THEN Append(supervisorMail[s], [kind |-> "down", of |-> a])
                             ELSE supervisorMail[s]]
    /\ attached' = [s \in Supervisor |-> attached[s] \ {a}]
    /\ UNCHANGED <<actorStatus, descriptions, monitorCall, undescribed, stopped, monitorCalls>>

\* A supervisor handles its next message.  The handler of a down message looks
\* the description up with operator[], an empty one if there is none, and hands
\* it to the application's function; the status monitor's drops the actor.
SupervisorReceives(s) ==
    /\ supervisorMail[s] # <<>>
    /\ supervisorMail' = [supervisorMail EXCEPT ![s] = Tail(@)]
    /\ LET m == Head(supervisorMail[s]) IN
          /\ descriptions' = [descriptions EXCEPT ![s] =
                CASE m.kind = "describe" -> @ \cup {m.of}
                  [] m.kind = "demonitor" -> @ \ {m.of}
                  [] m.kind = "down" -> @]
          /\ actorStatus' = IF m.kind = "down" /\ s = "status"
                            THEN actorStatus \ {m.of} ELSE actorStatus
          /\ undescribed' = IF m.kind = "down" /\ m.of \notin descriptions[s]
                            THEN undescribed \cup {m.of} ELSE undescribed
    /\ UNCHANGED <<watchedUp, attached, monitorCall, stopped, monitorCalls>>

MonitorNext ==
    \/ MonitorCallStep
    \/ \E a \in Watched :
          \/ CallRegisterActor(a) \/ CallSetMonitor(a) \/ CallStopMonitor(a) \/ WatchedEnds(a)
    \/ \E s \in Supervisor : SupervisorReceives(s)

MonitorSpec == MonitorInit /\ [][MonitorNext]_monitorVars

\* GetActorStatus, and the answer of the service's GetNodeActorStatus.
GetActorStatus == actorStatus

-----------------------------------------------------------------------------

\* The types of the monitors' state.
MonitorTypeOK ==
    /\ watchedUp \subseteq Watched
    /\ actorStatus \subseteq Watched
    /\ attached \in [Supervisor -> SUBSET Watched]
    /\ \A s \in Supervisor : \A i \in DOMAIN supervisorMail[s] :
          supervisorMail[s][i] \in [kind : {"describe", "demonitor", "down"}, of : Watched]
    /\ descriptions \in [Supervisor -> SUBSET Watched]
    /\ undescribed \subseteq Watched /\ stopped \subseteq Watched

\* SetMonitor is called with a description, and the actor may end at any moment
\* of the call or before it: ActorMonitor still reports it down with its
\* description, unless the application stopped to monitor it, when a down
\* message on its way is reported without.
DownIsDescribed == undescribed \subseteq stopped

\* GetActorStatus lists an actor that has ended only for a while, even one that
\* ended while RegisterActor listed it, or before: once the calls have returned and
\* the status monitor has read its mail, all that is listed run.
DeadAreUnlisted ==
    monitorCall = <<>> /\ supervisorMail["status"] = <<>> => GetActorStatus \subseteq watchedUp
=============================================================================
