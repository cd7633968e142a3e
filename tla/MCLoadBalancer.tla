--------------------------- MODULE MCLoadBalancer ---------------------------
(* Instances of LoadBalancer for TLC. *)
EXTENDS LoadBalancer, TLC

CONSTANTS c1, c2, c3, c4, c5, w1, w2

NoWorkers == <<>>
OneWorker == <<w1>>
TwoWorkers == <<w1, w2>>

Clients == Permutations(Client \ Anonymous)

=============================================================================
