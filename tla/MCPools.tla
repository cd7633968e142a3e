------------------------------- MODULE MCPools -------------------------------
(***************************************************************************)
(* The two actor pools of the library, each alone: the load balancer while *)
(* its workers come and go, and the router pool with requests enough for   *)
(* one to change nodes_ while another iterates over it.                    *)
(***************************************************************************)
EXTENDS MCLoadBalancer, RouterPool

VARIABLE part       \* chosen once: the part that runs

mcVars == <<part, vars, routerVars>>

\* The nodes are alike.
NodesAreAlike == Permutations(PoolNode)

MCInit ==
    /\ part \in {"balancer", "router"}
    /\ Init
    /\ RouterInit /\ (part = "balancer" => quits /\ defaultNum = 1)

BalancerPart == part = "balancer" /\ Next /\ UNCHANGED <<part, routerVars>>

RouterPart == part = "router" /\ RouterNext /\ UNCHANGED <<part, vars>>

MCNext == BalancerPart \/ RouterPart

MCSpec == MCInit /\ [][MCNext]_mcVars
=============================================================================
