------------------------------ MODULE ActorUnion ------------------------------
(***************************************************************************)
(* cdcf::ActorUnion: a send that fails because its worker is down, times   *)
(* out or answers with a system error is sent again to the next worker of  *)
(* a round robin pool, actor_count_ times at most.  The count is kept by   *)
(* AddActor and RemoveActor, while the pool of CAF also drops the workers  *)
(* that die, at any time, which shifts the round robin.  One thread uses   *)
(* the union; a request waits for its answer.                              *)
(***************************************************************************)
EXTENDS Naturals, FiniteSets, Sequences, SequencesExt

CONSTANTS
    Actor,          \* the actors that are added
    CountModulus,   \* actor_count_ is a uint16_t: 2^16
    PosModulus,     \* a common multiple of the pool's sizes, for the round robin
    MaxSends        \* bound on the sends

\* Neither the count nor the round robin wraps: fewer actors than a uint16_t can
\* count, and a modulus that is a multiple of every size the pool can have.
ASSUME UnionAssumption ==
    /\ IsFiniteSet(Actor) /\ {"none", "nobody"} \cap Actor = {}
    /\ CountModulus \in Nat /\ CountModulus > Cardinality(Actor)
    /\ PosModulus \in Nat \ {0}
    /\ \A size \in 1 .. Cardinality(Actor) : PosModulus % size = 0
    /\ MaxSends \in Nat

VARIABLES
    actorState,     \* "works", "fails" (system errors or no answer in time) or "down"
    pool,           \* workers_ of pool_actor_, in order
    pos,            \* its round robin, modulo PosModulus
    actorCount,     \* actor_count_
    send,           \* the send under way: has_try_time and where its request is
    outcome,        \* what the last send called: "none", "return", "business", "outOfWork"
    steady,         \* history: actors that were in the pool and worked all the send long
    shifted,        \* history: the pool dropped an actor during the send
    added,          \* history: actors added and not removed
    sends           \* bounded count

unionVars == <<actorState, pool, pos, actorCount, send, outcome, steady, shifted, added, sends>>

NoSend == [at |-> "none", tries |-> 0]

UnionInit ==
    /\ actorState = [a \in Actor |-> "works"]
    /\ pool = <<>>
    /\ pos = 0
    /\ actorCount = 0
    /\ send = NoSend
    /\ outcome = "none"
    /\ steady = {}
    /\ shifted = FALSE
    /\ added = {}
    /\ sends = 0

InPool == {pool[i] : i \in DOMAIN pool}

\* The pool erases the first entry it finds, if there is one.
PoolWithout(a) ==
    IF a \in InPool
    THEN RemoveAt(pool, CHOOSE i \in DOMAIN pool :
                            pool[i] = a /\ \A j \in 1 .. i - 1 : pool[j] # a)
    ELSE pool

AddActor(a) ==
    /\ send = NoSend
    /\ sends < MaxSends
    /\ a \notin added
    /\ pool' = Append(pool, a)
    /\ actorCount' = (actorCount + 1) % CountModulus
    /\ added' = added \cup {a}
    /\ UNCHANGED <<actorState, pos, send, outcome, steady, shifted, sends>>

\* What the application added it may remove, dead or not.
RemoveActor(a) ==
    /\ send = NoSend
    /\ sends < MaxSends
    /\ a \in added
    /\ pool' = PoolWithout(a)
    /\ actorCount' = (actorCount + CountModulus - 1) % CountModulus
    /\ added' = added \ {a}
    /\ UNCHANGED <<actorState, pos, send, outcome, steady, shifted, sends>>

Working == {a \in InPool : actorState[a] = "works"}

\* The policy takes the next worker; an empty pool answers with an empty message,
\* which is an unexpected response to the caller.
Request(tries) ==
    IF pool = <<>>
    THEN send' = [at |-> "nobody", tries |-> tries] /\ UNCHANGED pos
    ELSE /\ send' = [at |-> pool[(pos % Len(pool)) + 1], tries |-> tries]
         /\ pos' = (pos + 1) % PosModulus

SendAndReceive ==
    /\ send = NoSend
    /\ sends < MaxSends
    /\ sends' = sends + 1
    /\ Request(0)
    /\ outcome' = "none"
    /\ steady' = Working
    /\ shifted' = FALSE
    /\ UNCHANGED <<actorState, pool, actorCount, added>>

Ends(result) == send' = NoSend /\ outcome' = result

\* The request is with an actor that works.
InGoodHands == send.at \in {a \in Actor : actorState[a] = "works"}

\* Such an actor answers, with a result or an error of its own.
Answered ==
    /\ InGoodHands
    /\ \E result \in {"return", "business"} : Ends(result)
    /\ UNCHANGED <<actorState, pool, pos, actorCount, steady, shifted, added, sends>>

\* An attempt failed: the next one, if the count of attempts allows it.
RetryAfter(tries) ==
    /\ send # NoSend
    /\ ~InGoodHands
    /\ IF tries <= actorCount
       THEN Request(tries) /\ UNCHANGED outcome
       ELSE Ends("outOfWork") /\ UNCHANGED pos
    /\ UNCHANGED <<actorState, pool, actorCount, steady, shifted, added, sends>>

\* Mutant of Failed: the attempt is counted by the sender and by the handler.
FailedCountingTwice == RetryAfter(send.tries + 2)

\* HandleSendFailed.
Failed == RetryAfter(send.tries + 1)

\* An actor dies, or begins or ceases to answer.
ActorChanges(a) ==
    /\ actorState[a] # "down"
    /\ \E s \in {"works", "fails", "down"} \ {actorState[a]} :
          actorState' = [actorState EXCEPT ![a] = s]
    /\ steady' = steady \ {a}
    /\ UNCHANGED <<pool, pos, actorCount, send, outcome, shifted, added, sends>>

\* The pool hears of a death.
PoolDrops(a) ==
    /\ a \in InPool
    /\ actorState[a] = "down"
    /\ pool' = PoolWithout(a)
    /\ shifted' = TRUE
    /\ UNCHANGED <<actorState, pos, actorCount, send, outcome, steady, added, sends>>

UnionNext ==
    \/ SendAndReceive \/ Answered \/ Failed
    \/ \E a \in Actor : AddActor(a) \/ RemoveActor(a) \/ ActorChanges(a) \/ PoolDrops(a)

UnionSpec == UnionInit /\ [][UnionNext]_unionVars

-----------------------------------------------------------------------------

\* The types of the union's state.
UnionTypeOK ==
    /\ actorState \in [Actor -> {"works", "fails", "down"}]
    /\ pool \in Seq(Actor)
    /\ pos \in 0 .. PosModulus - 1
    /\ actorCount \in 0 .. CountModulus - 1
    /\ send.at \in Actor \cup {"none", "nobody"}
    /\ outcome \in {"none", "return", "business", "outOfWork"}
    /\ steady \subseteq Actor /\ added \subseteq Actor

\* A send that SendAndReceive reports as out of work was given no chance: no actor
\* of the union worked all the send long, wherever the round robin stood.  This is
\* of the sends in which the pool dropped no dead actor between two attempts.
OutOfWorkIsTrue == (outcome = "outOfWork" /\ ~shifted) => steady = {}

\* What the documentation says of every send: it fails only when all workers do.
\* It does not hold: HandleSendFailed counts attempts and not actors, and where
\* the pool drops a dead actor the round robin jumps over one that works.
FailsOnlyWhenAllFail == outcome = "outOfWork" => steady = {}
=============================================================================
