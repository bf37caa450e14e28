--------------------------- MODULE MCReservePath ----------------------------
(* The reserve path for TLC: a deployment in use, whose reserves back what a
   user holds on each chain. *)
EXTENDS ReservePath

CONSTANTS
    Depths,     \* what a reserve may hold at first
    Liquidity   \* what all reserves hold together

InUse(depths) ==
    /\ wallet = [c \in Chains |-> [u \in Users |-> 0]]
    /\ balanceOf = [c \in Chains |-> [u \in Users |-> depths[c]]]
    /\ usdc = depths /\ pool = [c \in Chains |-> 0] /\ totalSupply = depths
    /\ NoTransfers

MCInit ==
    /\ \E depths \in [Chains -> Depths] :
          /\ Total(depths, N) = Liquidity
          /\ \A c, d \in Chains : c < d => depths[c] >= depths[d]   \* up to renaming
          /\ InUse(depths)
    /\ Deployed
    /\ \A c \in Chains : config[c].allowed /\ ~config[c].router /\ config[c].bridge
                                      /\ config[c].dests # {} /\ config[c].cap > 0
    /\ ServiceInit

MCSpec == MCInit /\ [][ReservePathNext]_allVars /\ Fairness
=============================================================================
