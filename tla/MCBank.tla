------------------------------- MODULE MCBank -------------------------------
(* Bank on small instances, just initialized or with every setting made. *)
EXTENDS BankTransit

(* What initialize() leaves: nothing is registered, allowed or allowlisted. *)
Untouched(c) ==
    /\ ~config[c].allowed /\ ~config[c].bridge /\ ~config[c].router
    /\ config[c].cap = 0 /\ config[c].dests = {}

Registered(c) ==
    config[c].allowed /\ config[c].bridge /\ config[c].router /\ config[c].dests # {}

MCInit == Init /\ \A c \in Chains : Untouched(c) \/ Registered(c)

MCSpec == MCInit /\ [][Next]_bankVars
=============================================================================
