----------------------------- MODULE MCHotPath ------------------------------
(* The hot path of the Treasury, for TLC: Banks whose token, adapter and router
   governance has registered, empty or in use. *)
EXTENDS HotPath

Registered == \A c \in Chains : config[c].allowed /\ config[c].bridge /\ config[c].router
                                /\ config[c].dests # {} /\ config[c].cap > 0

(* Nothing has been paid in. *)
MCInit == HotPathInit /\ Registered

(* User 1 has paid in on chain 1, and chain 2 has a pool for one transfer. *)
MCInUse ==
    LET depths == [c \in Chains |-> IF c = 1 THEN 2 ELSE IF c = 2 THEN 1 ELSE 0]
    IN  /\ wallet = [c \in Chains |-> [u \in Users |-> 0]]
        /\ usdc = depths /\ totalSupply = depths
        /\ balanceOf = [c \in Chains |-> [u \in Users |-> IF <<c, u>> = <<1, 1>> THEN 2 ELSE 0]]
        /\ pool = [c \in Chains |-> IF c = 2 THEN 1 ELSE 0]
        /\ NoTransfers /\ Deployed /\ Registered
        /\ ServiceInit

MCSpec == MCInit /\ [][HotPathNext]_allVars

MCFairSpec == MCSpec /\ Fairness

MCInUseSpec == MCInUse /\ [][HotPathNext]_allVars /\ Fairness
=============================================================================
