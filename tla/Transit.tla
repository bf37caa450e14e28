------------------------------ MODULE Transit -------------------------------
(***************************************************************************)
(* What the Banks promise of value that moves between chains, be it        *)
(* SyncUSD carried by CCIP or USDC carried by CCTP: it enters from the     *)
(* wallets and leaves to them, departs from a chain in a numbered message, *)
(* and arrives at the destination of that message once, in full.  Nothing  *)
(* else changes what a chain holds.                                        *)
(***************************************************************************)
EXTENDS Integers, Sequences, FiniteSets

CONSTANT Places    \* the chains

VARIABLES
    outside,  \* value in wallets
    held,     \* value on each chain
    log,      \* messages, in the order of their departures
    arrived   \* messages that each chain has taken in

transitVars == <<outside, held, log, arrived>>

TransitInit ==
    /\ outside \in Nat
    /\ held = [p \in Places |-> 0]
    /\ log = <<>> /\ arrived = [p \in Places |-> {}]

Enter(p, v) ==
    /\ outside' = outside - v
    /\ held' = [held EXCEPT ![p] = @ + v]
    /\ UNCHANGED <<log, arrived>>

Leave(p, v) ==
    /\ held' = [held EXCEPT ![p] = @ - v]
    /\ outside' = outside + v
    /\ UNCHANGED <<log, arrived>>

(* Messages of one source are numbered from 0. *)
Departures(p) == Cardinality({i \in DOMAIN log : log[i].src = p})

Depart(p, q, v) ==
    /\ held' = [held EXCEPT ![p] = @ - v]
    /\ log' = Append(log, [src |-> p, dst |-> q, amount |-> v, nonce |-> Departures(p)])
    /\ UNCHANGED <<outside, arrived>>

Arrive(m) ==
    /\ m \notin arrived[m.dst]
    /\ arrived' = [arrived EXCEPT ![m.dst] = @ \cup {m}]
    /\ held' = [held EXCEPT ![m.dst] = @ + m.amount]
    /\ UNCHANGED <<outside, log>>

TransitNext ==
    \/ \E p \in Places :
          \/ \E v \in 1..outside : Enter(p, v)
          \/ \E v \in 1..held[p] : Leave(p, v) \/ \E q \in Places : Depart(p, q, v)
    \/ \E i \in DOMAIN log : Arrive(log[i])

TransitSpec == TransitInit /\ [][TransitNext]_transitVars
=============================================================================
