----------------------------- MODULE MCColdPath -----------------------------
(* The cold path for TLC: a deployment in use, whose pools hold what users have
   paid in and seeded, with a transfer that waits for its release. *)
EXTENDS ColdPath

CONSTANTS
    Depths,     \* what a pool may hold at first
    Liquidity   \* what all pools hold together

OneWaits ==
    LET t == [sender |-> 1, to |-> 1, amount |-> 2, dst |-> 1, src |-> 2, nonce |-> 0]
    IN  transfers = <<t>> /\ nonce = [c \in Chains |-> IF c = 2 THEN 1 ELSE 0]

InUse(depths) ==
    /\ wallet = [c \in Chains |-> [u \in Users |-> 0]]
    /\ balanceOf = [c \in Chains |-> [u \in Users |-> 0]]
    /\ usdc = depths /\ pool = depths /\ totalSupply = depths
    /\ OneWaits
    /\ released = [c \in Chains |-> {}]

MCInit ==
    /\ \E depths \in [Chains -> Depths] :
          /\ Total(depths, N) = Liquidity
          /\ \A c, d \in Chains : c < d => depths[c] >= depths[d]   \* up to renaming
          /\ InUse(depths)
    /\ Deployed
    /\ \A c \in Chains : config[c].allowed /\ config[c].router /\ ~config[c].bridge /\ config[c].cap > 0
                                      /\ config[c].dests # {}
    /\ ServiceInit

MCSpec == MCInit /\ [][ColdPathNext]_allVars /\ Fairness
=============================================================================
