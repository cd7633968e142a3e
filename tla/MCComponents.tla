---------------------------- MODULE MCComponents ----------------------------
(***************************************************************************)
(* The components that run on threads of their own, each alone: one part   *)
(* runs and the others stay as they start.                                 *)
(***************************************************************************)
EXTENDS Daemon, TimedFunctorQueue, Transport, RelayPing, Monitors

VARIABLE part       \* chosen once: the part that runs

componentVars == <<daemonVars, queueVars, transportVars, relayVars, monitorVars>>

mcVars == <<part, componentVars>>

On(p) == part = p

\* A part whose start is not unique is started in all its ways only where it runs.
MCInit ==
    /\ part \in {"daemon", "queue", "transport", "relay", "monitors"}
    /\ DaemonInit /\ (~On("daemon") => signals = MaxSignals)
    /\ QueueInit
    /\ TransportInit
    /\ RelayInit /\ (~On("relay") => knows = Relay \cup {"target"})
    /\ MonitorInit

DaemonPart ==
    /\ On("daemon") /\ DaemonNext
    /\ UNCHANGED <<part, queueVars, transportVars, relayVars, monitorVars>>

QueuePart ==
    /\ On("queue") /\ QueueNext
    /\ UNCHANGED <<part, daemonVars, transportVars, relayVars, monitorVars>>

TransportPart ==
    /\ On("transport") /\ TransportNext
    /\ UNCHANGED <<part, daemonVars, queueVars, relayVars, monitorVars>>

RelayPart ==
    /\ On("relay") /\ RelayNext
    /\ UNCHANGED <<part, daemonVars, queueVars, transportVars, monitorVars>>

MonitorPart ==
    /\ On("monitors") /\ MonitorNext
    /\ UNCHANGED <<part, daemonVars, queueVars, transportVars, relayVars>>

MCNext ==
    DaemonPart \/ QueuePart \/ TransportPart \/ RelayPart \/ MonitorPart

-----------------------------------------------------------------------------
\* Fairness is asked of a part while it runs.

\* The scheduler runs the worker's thread, and the thread that joins it.
QueueFairness ==
    /\ WF_queueVars(On("queue") /\ WorkerStep)
    /\ WF_queueVars(On("queue") /\ JoinQueue)

\* The daemon's thread runs, a handler in another thread ends, a child comes to its
\* execv, and an application that got SIGTERM exits, as by default it does.
DaemonFairness ==
    /\ WF_daemonVars(On("daemon") /\ DaemonStep)
    /\ WF_daemonVars(On("daemon") /\ HandlerKills)
    /\ \A k \in Process :
          /\ WF_daemonVars(On("daemon") /\ Exec(k))
          /\ WF_daemonVars(On("daemon") /\ process[k] = "asked" /\ ProcessExits(k))

\* The failure detector's queue pings for ever; a pull ends with an answer or an
\* error; the pushes of failures do not all get lost.
RelayFairness ==
    /\ \A i \in Round :
          /\ WF_relayVars(On("relay") /\ PingTarget(i))
          /\ WF_relayVars(On("relay") /\ (PingFailed(i) \/ PingAnswered(i)))
          /\ WF_relayVars(On("relay") /\ (RelayReceives(i) \/ RelayFailed(i)))
    /\ \A r \in Relay : SF_relayVars(On("relay") /\ RelayReports(r))
    /\ WF_relayVars(On("relay") /\ HandlePush)

MCSpec ==
    /\ MCInit /\ [][MCNext]_mcVars
    /\ QueueFairness /\ DaemonFairness /\ RelayFairness

\* The types of the components' state.
ComponentTypesOK ==
    /\ DaemonTypeOK /\ QueueTypeOK /\ TransportTypeOK
    /\ RelayTypeOK /\ MonitorTypeOK
=============================================================================
