--------------------------- MODULE MCDecommission ---------------------------
(* Draining a chain for TLC: chain 1 has holders, a pool and a reserve that
   backs both; RouteReceiver has marked it. *)
EXTENDS Decommission

CONSTANTS
    Pools,       \* what the pool of chain 1 may hold
    MaxBalance   \* what a holder may hold on chain 1

(* Chain 1 may be drained to either of the others. *)
MCRequests == {<<1, 2>>, <<1, 3>>}

On1(a) == [c \in Chains |-> IF c = 1 THEN a ELSE 0]

MCInit ==
    /\ \E p \in Pools, held \in [Users -> 0..MaxBalance] :
          /\ wallet = [c \in Chains |-> [u \in Users |-> 0]]
          /\ balanceOf = [c \in Chains |-> IF c = 1 THEN held ELSE [u \in Users |-> 0]]
          /\ pool = On1(p)
          /\ usdc = On1(p + Total(held, NumUsers)) /\ totalSupply = usdc
          /\ Total(held, NumUsers) > 0
    /\ NoTransfers /\ Deployed
    /\ \A c \in Chains : config[c].allowed /\ config[c].router /\ config[c].bridge
                                      /\ config[c].dests # {} /\ config[c].cap > 0
    /\ ServiceInit
    /\ chainStatus = [c \in Chains |-> "active"]
    /\ homeChain = [u \in Users |-> 1]

MCSpec == MCInit /\ [][DecommissionNext]_allVars /\ Fairness
=============================================================================
