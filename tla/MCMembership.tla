---------------------------- MODULE MCMembership ----------------------------
(* Instances of Membership for TLC: two or three node keepers. *)
EXTENDS Membership, TLC

CONSTANTS a, b, c

\* a is the primary seed and joins nobody; b, and c, join through a.
PairSeeds == (a :> {}) @@ (b :> {a})
TrioSeeds == (a :> {}) @@ (b :> {a}) @@ (c :> {a})

\* Values of MaxLives and MaxIncarnation for a, b and c.
Bound(x, y, z) == (a :> x) @@ (b :> y) @@ (c :> z)

OneLife == Bound(1, 1, 1)
ARestarts == Bound(2, 1, 1)
CRestarts == Bound(1, 1, 2)
BothRestart == Bound(2, 2, 1)

Inc012 == Bound(0, 1, 2)
Inc020 == Bound(0, 2, 0)
Inc110 == Bound(1, 1, 0)

\* Next without the steps of a daemon or an application, where there is none.
JoinNext ==
    \/ \E n \in Node :
          \/ Start(n)
          \/ Crash(n)
          \/ \E item \in gossipQueue[n] : DisseminateGossip(n, item)
          \/ \E m \in Node : Ping(n, m)
    \/ \E d \in gossip : HandleGossip(d) \/ LoseGossip(d)
    \/ \E p \in pulls : PullStep(p)

JoinSpec == Init /\ [][JoinNext]_vars /\ Fairness

=============================================================================
