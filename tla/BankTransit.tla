---------------------------- MODULE BankTransit -----------------------------
(***************************************************************************)
(* The Banks implement Transit twice over: with the SyncUSD supply of the  *)
(* chains, and with the USDC of their reserves.                            *)
(***************************************************************************)
EXTENDS Bank

(* The USDC that users own, on all chains. *)
Wallets == Total([c \in Chains |-> Total(wallet[c], NumUsers)], N)

Supply == INSTANCE Transit WITH
    Places <- Chains, outside <- Wallets, held <- totalSupply,
    log <- rebalances, arrived <- processedMessages

Reserve == INSTANCE Transit WITH
    Places <- Chains, outside <- Wallets, held <- usdc,
    log <- bridges, arrived <- processedReserveMessages

(* The supply of a chain changes only by a deposit, a withdrawal, a rebalance()
   or the first ccipReceive() of a message that a rebalance() sent there:
   hot-path transfers and releases, reserve bridges, token transfers, repeated
   deliveries and governance never mint or burn. *)
SupplyTransits == Supply!TransitSpec

(* The reserve of a chain changes only by a deposit, a withdrawal, a
   bridgeReserve() or the first bridgeIn() of a message sent there; a chain
   never pays out USDC that it does not hold. *)
ReserveTransits == Reserve!TransitSpec
=============================================================================
