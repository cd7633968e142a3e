------------------------------ MODULE RelayPing ------------------------------
(***************************************************************************)
(* The failure detector with relays (is_relay_ping_enabled_): one node,    *)
(* the origin, watches one target.  A ping that fails is handed to another *)
(* member, which answers at once that it has received it, pings the target *)
(* in its own time and pushes its verdict to the origin.  The failure      *)
(* detector does not wait for any of this before it pings again, so that   *)
(* the rounds of several pings overlap.                                    *)
(***************************************************************************)
EXTENDS Naturals, FiniteSets

CONSTANTS
    Relay,          \* the members besides the origin and the target
    MaxRounds,      \* bound on the relayed pings under way at once
    MaxWork,        \* bound on the relays' pings and on the pushes under way
    MaxFailures     \* bound on the crashes of the target and of relays

ASSUME RelayAssumption == MaxRounds \in Nat /\ MaxWork \in Nat /\ MaxFailures \in Nat

VARIABLES
    targetUp,       \* the target's process runs
    relayUp,        \* the relays whose process runs
    knows,          \* members_ of the origin, besides itself: relays, and "target"
    suspected,      \* the target is in the origin's suspects_
    rounds,         \* round -> [phase, asked]: the pulls of one failed ping
    relayPings,     \* how many pings of the target a relay has under way
    verdicts,       \* PingFailure pushes on their way to the origin
    failures        \* bounded count of crashes

relayVars ==
    <<targetUp, relayUp, knows, suspected, rounds, relayPings, verdicts, failures>>

Round == 1 .. MaxRounds

Free == [phase |-> "free", asked |-> {}]

RelayInit ==
    /\ targetUp = TRUE
    /\ relayUp = Relay
    /\ knows \in {R \cup {"target"} : R \in SUBSET Relay}
    /\ suspected = FALSE
    /\ rounds = [i \in Round |-> Free]
    /\ relayPings = [r \in Relay |-> 0]
    /\ verdicts = 0
    /\ failures = 0

\* Mutant of SuspectTarget: the target stays in members_.
SuspectMember ==
    IF "target" \in knows THEN suspected' = TRUE /\ UNCHANGED knows
    ELSE UNCHANGED <<suspected, knows>>

\* Suspect: a target that is not in members_ any more is left alone.
SuspectTarget ==
    IF "target" \in knows
    THEN suspected' = TRUE /\ knows' = knows \ {"target"}
    ELSE UNCHANGED <<suspected, knows>>

\* Mutant of Candidates: the target itself is not excluded.
CandidatesAndTarget(asked) ==
    IF Cardinality(knows) + 1 <= 2 THEN {} ELSE knows \ asked

\* GetRelayMember: a member not asked yet, unless the origin knows but one other.
Candidates(asked) ==
    IF Cardinality(knows) + 1 <= 2 THEN {} ELSE (knows \ {"target"}) \ asked

\* Mutant of AskNext: without a candidate there is nothing to do.
AskNextOrNobody(i, asked) ==
    /\ rounds' = [rounds EXCEPT ![i] =
                    IF Candidates(asked) = {} THEN Free
                    ELSE [phase |-> CHOOSE r \in Candidates(asked) : TRUE, asked |-> asked]]
    /\ UNCHANGED <<suspected, knows>>

\* RelayPing: ask a candidate, or suspect the target when there is none left.
AskNext(i, asked) ==
    IF Candidates(asked) = {}
    THEN /\ rounds' = [rounds EXCEPT ![i] = Free]
         /\ SuspectTarget
    ELSE /\ \E r \in Candidates(asked) :
               rounds' = [rounds EXCEPT ![i] = [phase |-> r, asked |-> asked]]
         /\ UNCHANGED <<suspected, knows>>

\* The functor of Ping draws the target from members_ and suspects_ and pulls.
PingTarget(i) ==
    /\ "target" \in knows \/ suspected
    /\ rounds[i] = Free
    /\ rounds' = [rounds EXCEPT ![i].phase = "ping"]
    /\ UNCHANGED <<targetUp, relayUp, knows, suspected, relayPings, verdicts, failures>>

\* The pull's callback after an answer: RecoverySuspect.
PingAnswered(i) ==
    /\ rounds[i].phase = "ping"
    /\ targetUp
    /\ rounds' = [rounds EXCEPT ![i] = Free]
    /\ suspected' = FALSE
    /\ knows' = IF suspected THEN knows \cup {"target"} ELSE knows
    /\ UNCHANGED <<targetUp, relayUp, relayPings, verdicts, failures>>

\* The pull's callback after an error, which a running target's connection may
\* give too.
PingFailed(i) ==
    /\ rounds[i].phase = "ping"
    /\ IF "target" \in knows
       THEN AskNext(i, {})
       ELSE rounds' = [rounds EXCEPT ![i] = Free] /\ UNCHANGED <<suspected, knows>>
    /\ UNCHANGED <<targetUp, relayUp, relayPings, verdicts, failures>>

\* HandlePull at the relay: it starts its own pull and answers.  The origin's
\* did_pull has nothing more to do.
RelayReceives(i) ==
    /\ rounds[i].phase \in relayUp
    /\ relayPings[rounds[i].phase] < MaxWork
    /\ relayPings' = [relayPings EXCEPT ![rounds[i].phase] = @ + 1]
    /\ rounds' = [rounds EXCEPT ![i] = Free]
    /\ UNCHANGED <<targetUp, relayUp, knows, suspected, verdicts, failures>>

\* The pull of the relay fails: the relay is excluded and the next one asked.
RelayFailed(i) ==
    /\ rounds[i].phase \in Relay
    /\ AskNext(i, rounds[i].asked \cup {rounds[i].phase})
    /\ UNCHANGED <<targetUp, relayUp, relayPings, verdicts, failures>>

\* The relay's ping of the target fails and the failure is pushed.
RelayReports(r) ==
    /\ r \in relayUp
    /\ relayPings[r] > 0
    /\ verdicts < MaxWork
    /\ relayPings' = [relayPings EXCEPT ![r] = @ - 1]
    /\ verdicts' = verdicts + 1
    /\ UNCHANGED <<targetUp, relayUp, knows, suspected, rounds, failures>>

\* The relay's ping succeeds, which HandlePush ignores, or the connection for
\* the push of a failure is refused, which nobody looks at.
RelayIsQuiet(r) ==
    /\ r \in relayUp
    /\ relayPings[r] > 0
    /\ relayPings' = [relayPings EXCEPT ![r] = @ - 1]
    /\ UNCHANGED <<targetUp, relayUp, knows, suspected, rounds, verdicts, failures>>

\* HandlePush of a PingFailure, however old.
HandlePush ==
    /\ verdicts > 0
    /\ verdicts' = verdicts - 1
    /\ SuspectTarget
    /\ UNCHANGED <<targetUp, relayUp, rounds, relayPings, failures>>

\* Processes end and come back; a relay's own pings end with it.
TargetFails ==
    /\ failures < MaxFailures
    /\ failures' = failures + 1
    /\ targetUp' = ~targetUp
    /\ UNCHANGED <<relayUp, knows, suspected, rounds, relayPings, verdicts>>

RelayFails(r) ==
    /\ failures < MaxFailures
    /\ r \in relayUp
    /\ failures' = failures + 1
    /\ relayUp' = relayUp \ {r}
    /\ relayPings' = [relayPings EXCEPT ![r] = 0]
    /\ UNCHANGED <<targetUp, knows, suspected, rounds, verdicts>>

RelayNext ==
    \/ \E i \in Round :
          \/ PingTarget(i) \/ PingAnswered(i) \/ PingFailed(i)
          \/ RelayReceives(i) \/ RelayFailed(i)
    \/ \E r \in Relay : RelayReports(r) \/ RelayIsQuiet(r) \/ RelayFails(r)
    \/ HandlePush
    \/ TargetFails

RelaySpec == RelayInit /\ [][RelayNext]_relayVars

-----------------------------------------------------------------------------

\* The types of the relayed failure detector's state.
RelayTypeOK ==
    /\ targetUp \in BOOLEAN /\ suspected \in BOOLEAN
    /\ relayUp \subseteq Relay
    /\ knows \subseteq Relay \cup {"target"}
    /\ rounds \in [Round -> [phase : Relay \cup {"free", "ping"}, asked : SUBSET Relay]]
    /\ relayPings \in [Relay -> 0 .. MaxWork]
    /\ verdicts \in 0 .. MaxWork
    /\ failures \in 0 .. MaxFailures

\* However the overlapping rounds, late verdicts and recoveries fall, the target
\* is a member or a suspect, never both and never forgotten: a target that is
\* neither would not be pinged again.
TargetIsWatched == suspected # ("target" \in knows)

\* A target that is down for good is suspected, although an asked relay may die
\* with its promise to ping and its verdict may be lost.
DeadTargetIsSuspected == []<>(targetUp \/ suspected)
=============================================================================
