-------------------------------- MODULE Bank --------------------------------
(***************************************************************************)
(* The on-chain ledger: one Bank contract and one SyncUSD token on each of *)
(* the chains 1..N, the CCIP deliveries that connect the Banks and the     *)
(* CCTP adapters that carry their USDC reserves (Bank.sol, SyncUSD.sol,    *)
(* CCTPReserveBridge.sol).                                                 *)
(*                                                                         *)
(* A contract call is one atomic step; a call that reverts is no step.     *)
(* A keccak id is the tuple of values that is hashed.  ERC-20 allowances   *)
(* and gas are left out: the callers approve what they spend.              *)
(*                                                                         *)
(* An operator name_Fault just before name is name with a plausible fault, *)
(* used to show that the properties notice it; no specification uses it.   *)
(***************************************************************************)
EXTENDS Integers, Sequences, Sums

CONSTANTS
    N,              \* number of chains
    NumUsers,       \* number of externally owned accounts
    Amounts,        \* amounts callers pass (0 may be among them: it reverts)
    Destinations,   \* destination chain ids that transferHotPath is given
    Caps,           \* values governance may give the two per-call caps
    Endowment,      \* USDC each user owns on each chain before any deposit
    MaxTransfers,   \* bound: hot-path transfers initiated, over all chains
    MaxRebalances,  \* bound: cold-path burns, over all chains
    MaxBridges,     \* bound: reserve bridge burns, over all chains
    MaxGovernance   \* bound: governance and pauser calls, over all chains

ASSUME BankAssumption ==
    /\ N \in Nat \ {0} /\ NumUsers \in Nat \ {0}
    /\ Destinations \subseteq 0..(2 * N + 1)
    /\ Amounts \subseteq Nat /\ Caps \subseteq Nat /\ Caps # {}
    /\ Endowment \in Nat
    /\ MaxTransfers \in Nat /\ MaxRebalances \in Nat
    /\ MaxBridges \in Nat /\ MaxGovernance \in Nat

Chains == 1..N
Users == 1..NumUsers

(* transferHotPath() takes any uint256 as destination and the Treasury reads
   its low 64 bits.  With N + 1 standing for 2^64, the ids 0..2N+1 hold every
   chain, an alias of every chain, and two ids that no Bank serves. *)
chainOf(dst) == IF dst > N THEN dst - (N + 1) ELSE dst

VARIABLES
    wallet,         \* USDC owned by each user on each chain
    usdc,           \* USDC held by each Bank: reserveDepth()
    balanceOf,      \* SyncUSD held by each user on each chain
    pool,           \* SyncUSD held by each Bank: poolDepth()
    totalSupply,    \* SyncUSD supply of each chain
    transfers,      \* HotPathInitiated logs of all chains, in order
    nonce,          \* _nonce of each Bank
    released,       \* released[] of each Bank
    rebalances,     \* RebalanceInitiated logs of all chains, in order
    rebalanceNonce, \* _rebalanceNonce of each Bank
    processedMessages,
    bridges,        \* ReserveBridgeInitiated logs of all chains, in order
    bridgeNonce,    \* CCTP nonce of each chain's TokenMessenger (external)
    processedReserveMessages,
    paused, frozen, permanentPause,   \* flags of each Bank
    tokenPaused,    \* Pausable flag of each SyncUSD
    config,         \* governance settings of each Bank
    governance      \* number of governance calls so far, bounded

ledgerVars  == <<wallet, usdc, balanceOf, pool, totalSupply>>
hotVars     == <<transfers, nonce, released>>
coldVars    == <<rebalances, rebalanceNonce, processedMessages>>
reserveVars == <<bridges, bridgeNonce, processedReserveMessages>>
flagVars    == <<paused, frozen, permanentPause, tokenPaused>>
govVars     == <<flagVars, config, governance>>
bankVars    == <<ledgerVars, hotVars, coldVars, reserveVars, govVars>>

(* The settings of one Bank that its calls consult. *)
Config == [allowed      : BOOLEAN,       \* allowedTokens[USDC]
           reserveToken : BOOLEAN,       \* reserveToken is set
           cap          : Nat,           \* maxRebalanceAmount
           reserveCap   : Nat,           \* maxReserveRebalanceAmount
           router       : BOOLEAN,       \* ccipRouter is set
           bridge       : BOOLEAN,       \* reserveBridge is set
           dests        : SUBSET Chains, \* allowlistedDestChains
           sources      : SUBSET Chains, \* allowlistedSourceContracts
           reserveDests : SUBSET Chains] \* reserveDestinations that are set

Transfer == [sender : Users, to : Users, amount : Nat, dst : 0..(2 * N + 1),
             src : Chains, nonce : Nat]
Rebalance == [src : Chains, dst : Chains, amount : Nat, nonce : Nat]
Bridge == [src : Chains, dst : Chains, amount : Nat, nonce : Nat]

LedgerType ==
    /\ wallet \in [Chains -> [Users -> Nat]]
    /\ usdc \in [Chains -> Nat]
    /\ balanceOf \in [Chains -> [Users -> Nat]]
    /\ pool \in [Chains -> Nat]
    /\ totalSupply \in [Chains -> Int]

HotType ==
    /\ transfers \in Seq(Transfer)
    /\ nonce \in [Chains -> Nat]
    /\ released \in [Chains -> SUBSET Transfer]

ColdType ==
    /\ rebalances \in Seq(Rebalance)
    /\ rebalanceNonce \in [Chains -> Nat]
    /\ processedMessages \in [Chains -> SUBSET Rebalance]

ReserveType ==
    /\ bridges \in Seq(Bridge)
    /\ bridgeNonce \in [Chains -> Nat]
    /\ processedReserveMessages \in [Chains -> SUBSET Bridge]

GovType ==
    /\ paused \in [Chains -> BOOLEAN]
    /\ frozen \in [Chains -> BOOLEAN]
    /\ permanentPause \in [Chains -> BOOLEAN]
    /\ tokenPaused \in [Chains -> BOOLEAN]
    /\ config \in [Chains -> Config]
    /\ governance \in Nat

TypeOK == LedgerType /\ HotType /\ ColdType /\ ReserveType /\ GovType

(* Nobody has deposited anything. *)
EmptyLedger ==
    /\ wallet = [c \in Chains |-> [u \in Users |-> Endowment]]
    /\ usdc = [c \in Chains |-> 0]
    /\ balanceOf = [c \in Chains |-> [u \in Users |-> 0]]
    /\ pool = [c \in Chains |-> 0]
    /\ totalSupply = [c \in Chains |-> 0]

NoTransfers ==
    /\ transfers = <<>>
    /\ nonce = [c \in Chains |-> 0]
    /\ released = [c \in Chains |-> {}]

(* Live Banks that have moved nothing between chains.  Governance has registered
   token, adapter and router, set the caps and allowlisted the other chains, or
   has not yet: initialize() does none of it. *)
Deployed ==
    /\ rebalances = <<>>
    /\ rebalanceNonce = [c \in Chains |-> 0]
    /\ processedMessages = [c \in Chains |-> {}]
    /\ bridges = <<>>
    /\ bridgeNonce = [c \in Chains |-> 0]
    /\ processedReserveMessages = [c \in Chains |-> {}]
    /\ paused = [c \in Chains |-> FALSE]
    /\ frozen = [c \in Chains |-> FALSE]
    /\ permanentPause = [c \in Chains |-> FALSE]
    /\ tokenPaused = [c \in Chains |-> FALSE]
    /\ \E m \in Caps \cup {0}, token, bridge, router, listed \in BOOLEAN :
          LET peers(c) == IF listed THEN Chains \ {c} ELSE {}
          IN  config = [c \in Chains |->
                 [allowed |-> token, reserveToken |-> token, cap |-> m, reserveCap |-> m,
                  router |-> router, bridge |-> bridge, dests |-> peers(c),
                  sources |-> peers(c), reserveDests |-> peers(c)]]
    /\ governance = 0

(* The Banks as deployment leaves them. *)
Init == EmptyLedger /\ NoTransfers /\ Deployed

-----------------------------------------------------------------------------
(* Modifiers and idempotency of the Bank's entry points. *)

whenNotPaused(c) == ~paused[c]

whenNotFrozen_Dropped(c) == TRUE
whenNotFrozen(c) == ~frozen[c]

(* _nonce++ and its like: the call takes the value the counter had. *)
increment_Forgotten(counter, c) == counter
increment(counter, c) == [counter EXCEPT ![c] = @ + 1]

(* released[id] and processed...[id] reject an id they already hold. *)
unsettled_Dropped(done, c, m) == TRUE
unsettled(done, c, m) == m \notin done[c]

(* The token of each chain: every SyncUSD entry point is whenNotPaused. *)
tokenLive(c) == ~tokenPaused[c]

-----------------------------------------------------------------------------
(* SyncUSD: every entry point is whenNotPaused and moves or creates tokens. *)

(* transfer: SyncUSD from one user to another, or to oneself. *)
transfer_SelfMints(c, from, to, amount) ==
    /\ tokenLive(c)
    /\ amount <= balanceOf[c][from]
    /\ balanceOf' = [balanceOf EXCEPT ![c][from] = balanceOf[c][from] - amount,
                                     ![c][to] = balanceOf[c][to] + amount]
    /\ UNCHANGED <<wallet, usdc, pool, totalSupply, hotVars, coldVars, reserveVars, govVars>>

transfer(c, from, to, amount) ==
    LET debited == [balanceOf[c] EXCEPT ![from] = @ - amount] IN
    /\ tokenLive(c)
    /\ amount <= balanceOf[c][from]
    /\ balanceOf' = [balanceOf EXCEPT ![c] = [debited EXCEPT ![to] = @ + amount]]
    /\ UNCHANGED <<wallet, usdc, pool, totalSupply, hotVars, coldVars, reserveVars, govVars>>

(* transfer to the Bank's own address: how a pool is seeded. *)
seedPool(c, from, amount) ==
    /\ tokenLive(c)
    /\ amount <= balanceOf[c][from]
    /\ balanceOf' = [balanceOf EXCEPT ![c][from] = @ - amount]
    /\ pool' = [pool EXCEPT ![c] = @ + amount]
    /\ UNCHANGED <<wallet, usdc, totalSupply, hotVars, coldVars, reserveVars, govVars>>

-----------------------------------------------------------------------------
(* Bank: user calls. *)

deposit(c, u, amount) ==
    /\ whenNotPaused(c) /\ whenNotFrozen(c)
    /\ config[c].allowed
    /\ amount > 0
    /\ amount <= wallet[c][u]
    /\ tokenLive(c)
    /\ wallet' = [wallet EXCEPT ![c][u] = @ - amount]
    /\ usdc' = [usdc EXCEPT ![c] = @ + amount]
    /\ balanceOf' = [balanceOf EXCEPT ![c][u] = @ + amount]
    /\ totalSupply' = [totalSupply EXCEPT ![c] = @ + amount]
    /\ UNCHANGED <<pool, hotVars, coldVars, reserveVars, govVars>>

withdraw(c, u, amount) ==
    /\ whenNotPaused(c)
    /\ config[c].allowed
    /\ amount > 0
    /\ tokenLive(c)
    /\ amount <= balanceOf[c][u]
    /\ amount <= usdc[c]
    /\ wallet' = [wallet EXCEPT ![c][u] = @ + amount]
    /\ usdc' = [usdc EXCEPT ![c] = @ - amount]
    /\ balanceOf' = [balanceOf EXCEPT ![c][u] = @ - amount]
    /\ totalSupply' = [totalSupply EXCEPT ![c] = @ - amount]
    /\ UNCHANGED <<pool, hotVars, coldVars, reserveVars, govVars>>

transferHotPath(c, u, to, amount, dst) ==
    /\ Len(transfers) < MaxTransfers
    /\ whenNotPaused(c) /\ whenNotFrozen(c)
    /\ amount > 0
    /\ tokenLive(c)
    /\ amount <= balanceOf[c][u]
    /\ balanceOf' = [balanceOf EXCEPT ![c][u] = @ - amount]
    /\ pool' = [pool EXCEPT ![c] = @ + amount]
    /\ transfers' = Append(transfers, [sender |-> u, to |-> to, amount |-> amount,
                                       dst |-> dst, src |-> c, nonce |-> nonce[c]])
    /\ nonce' = increment(nonce, c)
    /\ UNCHANGED <<wallet, usdc, totalSupply, released, coldVars, reserveVars, govVars>>

-----------------------------------------------------------------------------
(* Bank: calls restricted to a role, and deliveries. *)

releasable_Illiquid(c, t) ==
    /\ whenNotPaused(c) /\ whenNotFrozen(c)
    /\ t.amount > 0
    /\ unsettled(released, c, t)
    /\ tokenLive(c)

(* Whether releaseHotPath of transfer t on chain c succeeds or reverts. *)
releasable(c, t) ==
    /\ whenNotPaused(c) /\ whenNotFrozen(c)
    /\ t.amount > 0
    /\ unsettled(released, c, t)
    /\ t.amount <= pool[c]
    /\ tokenLive(c)

(* RELAYER_ROLE releases transfer t on chain c. *)
releaseHotPath(c, t) ==
    /\ releasable(c, t)
    /\ released' = [released EXCEPT ![c] = @ \cup {t}]
    /\ pool' = [pool EXCEPT ![c] = @ - t.amount]
    /\ balanceOf' = [balanceOf EXCEPT ![c][t.to] = @ + t.amount]
    /\ UNCHANGED <<wallet, usdc, totalSupply, transfers, nonce, coldVars, reserveVars, govVars>>

(* Whether rebalance() succeeds or reverts. *)
rebalanceable(c, dst, amount) ==
    /\ whenNotPaused(c)
    /\ amount > 0
    /\ amount <= config[c].cap
    /\ dst \in config[c].dests
    /\ amount <= pool[c]
    /\ tokenLive(c)

(* REBALANCER_ROLE burns pool liquidity; the log is the CCIP message. *)
rebalance(c, dst, amount) ==
    /\ Len(rebalances) < MaxRebalances
    /\ rebalanceable(c, dst, amount)
    /\ rebalances' = Append(rebalances,
           [src |-> c, dst |-> dst, amount |-> amount, nonce |-> rebalanceNonce[c]])
    /\ rebalanceNonce' = increment(rebalanceNonce, c)
    /\ pool' = [pool EXCEPT ![c] = @ - amount]
    /\ totalSupply' = [totalSupply EXCEPT ![c] = @ - amount]
    /\ UNCHANGED <<wallet, usdc, balanceOf, hotVars, processedMessages, reserveVars, govVars>>

(* The CCIP router delivers message m, possibly again. *)
ccipReceive(m) ==
    LET c == m.dst IN
    /\ whenNotPaused(c)
    /\ config[c].router
    /\ m.amount > 0
    /\ m.src \in config[c].sources
    /\ unsettled(processedMessages, c, m)
    /\ tokenLive(c)
    /\ processedMessages' = [processedMessages EXCEPT ![c] = @ \cup {m}]
    /\ pool' = [pool EXCEPT ![c] = @ + m.amount]
    /\ totalSupply' = [totalSupply EXCEPT ![c] = @ + m.amount]
    /\ UNCHANGED <<wallet, usdc, balanceOf, hotVars, rebalances, rebalanceNonce,
                   reserveVars, govVars>>

(* Whether bridgeReserve() succeeds or reverts. *)
reserveBridgeable(c, dst, amount) ==
    /\ whenNotPaused(c)
    /\ config[c].bridge
    /\ config[c].reserveToken
    /\ amount > 0
    /\ amount <= config[c].reserveCap
    /\ dst \in config[c].dests
    /\ dst \in config[c].reserveDests
    /\ amount <= usdc[c]

(* RESERVE_REBALANCER_ROLE sends reserve USDC through the CCTP adapter:
   bridgeOut pulls it from the Bank and TokenMessenger burns it. *)
bridgeReserve(c, dst, amount) ==
    /\ Len(bridges) < MaxBridges
    /\ reserveBridgeable(c, dst, amount)
    /\ usdc' = [usdc EXCEPT ![c] = @ - amount]
    /\ bridges' = Append(bridges,
           [src |-> c, dst |-> dst, amount |-> amount, nonce |-> bridgeNonce[c]])
    /\ bridgeNonce' = increment(bridgeNonce, c)
    /\ UNCHANGED <<wallet, balanceOf, pool, totalSupply, hotVars, coldVars,
                   processedReserveMessages, govVars>>

(* Whether bridgeIn() of message m succeeds or reverts. *)
creditable(m) ==
    /\ config[m.dst].bridge
    /\ whenNotPaused(m.dst)
    /\ m.amount > 0
    /\ unsettled(processedReserveMessages, m.dst, m)

(* Anyone calls the adapter's bridgeIn with an attested message: the
   MessageTransmitter mints to the Bank unless the nonce was used, and
   completeReserveBridge records the id, in one transaction. *)
bridgeIn(m) ==
    LET c == m.dst IN
    /\ creditable(m)
    /\ processedReserveMessages' = [processedReserveMessages EXCEPT ![c] = @ \cup {m}]
    /\ usdc' = [usdc EXCEPT ![c] = @ + m.amount]
    /\ UNCHANGED <<wallet, balanceOf, pool, totalSupply, hotVars, coldVars,
                   bridges, bridgeNonce, govVars>>

-----------------------------------------------------------------------------
(* Governance (ADMIN_ROLE) and the pauser (PAUSER_ROLE). *)

Govern ==
    /\ governance < MaxGovernance
    /\ governance' = governance + 1
    /\ UNCHANGED <<ledgerVars, hotVars, coldVars, reserveVars>>

(* OpenZeppelin's _pause reverts on a paused contract, _unpause on a live one. *)
pause(c) ==
    /\ Govern
    /\ ~paused[c]
    /\ paused' = [paused EXCEPT ![c] = TRUE]
    /\ UNCHANGED <<frozen, permanentPause, tokenPaused, config>>

unpause_BreaksSeal(c) ==
    /\ Govern
    /\ paused[c]
    /\ paused' = [paused EXCEPT ![c] = FALSE]
    /\ UNCHANGED <<frozen, permanentPause, tokenPaused, config>>

unpause(c) ==
    /\ Govern
    /\ ~permanentPause[c]
    /\ paused[c]
    /\ paused' = [paused EXCEPT ![c] = FALSE]
    /\ UNCHANGED <<frozen, permanentPause, tokenPaused, config>>

freezeForDecommission(c) ==
    /\ Govern
    /\ ~frozen[c]
    /\ frozen' = [frozen EXCEPT ![c] = TRUE]
    /\ UNCHANGED <<paused, permanentPause, tokenPaused, config>>

pausePermanently(c) ==
    /\ Govern
    /\ ~permanentPause[c]
    /\ ~paused[c]
    /\ permanentPause' = [permanentPause EXCEPT ![c] = TRUE]
    /\ paused' = [paused EXCEPT ![c] = TRUE]
    /\ UNCHANGED <<frozen, tokenPaused, config>>

(* SyncUSD.pause and SyncUSD.unpause. *)
toggleTokenPause(c) ==
    /\ Govern
    /\ tokenPaused' = [tokenPaused EXCEPT ![c] = ~@]
    /\ UNCHANGED <<paused, frozen, permanentPause, config>>

(* A setter replaces the settings of one Bank; setters work on a paused one. *)
Set(c, settings) ==
    /\ Govern
    /\ config' = [config EXCEPT ![c] = settings]
    /\ UNCHANGED flagVars

allowToken(c) == Set(c, [config[c] EXCEPT !.allowed = TRUE, !.reserveToken = TRUE])
disallowToken(c) == Set(c, [config[c] EXCEPT !.allowed = FALSE])
setReserveToken(c) ==
    /\ config[c].allowed
    /\ Set(c, [config[c] EXCEPT !.reserveToken = TRUE])
setFeeCollector(c) == Set(c, config[c])    \* no call reads feeCollector
setMaxRebalanceAmount(c, m) == Set(c, [config[c] EXCEPT !.cap = m])
setMaxReserveRebalanceAmount(c, m) == Set(c, [config[c] EXCEPT !.reserveCap = m])
setReserveBridge(c) == Set(c, [config[c] EXCEPT !.bridge = TRUE])
setCcipRouter(c) == Set(c, [config[c] EXCEPT !.router = TRUE])
setAllowlistedDestChain(c, d) ==
    \E ds \in {config[c].dests \cup {d}, config[c].dests \ {d}} :
        Set(c, [config[c] EXCEPT !.dests = ds])
setAllowlistedSourceContract(c, s) ==
    \E ss \in {config[c].sources \cup {s}, config[c].sources \ {s}} :
        Set(c, [config[c] EXCEPT !.sources = ss])
setReserveDestination(c, d) ==
    \E ds \in {config[c].reserveDests \cup {d}, config[c].reserveDests \ {d}} :
        Set(c, [config[c] EXCEPT !.reserveDests = ds])

-----------------------------------------------------------------------------
UserStep ==
    \E c \in Chains, u \in Users, amount \in Amounts :
        \/ deposit(c, u, amount)
        \/ withdraw(c, u, amount)
        \/ seedPool(c, u, amount)
        \/ \E to \in Users : transfer(c, u, to, amount)
        \/ \E to \in Users, dst \in Destinations :
               transferHotPath(c, u, to, amount, dst)

(* The relayer calls with the fields of a log, on its destination chain: an
   assumption here, which HotPath discharges for the Treasury's relayer. *)
RelayerStep ==
    \E i \in DOMAIN transfers :
        /\ chainOf(transfers[i].dst) \in Chains
        /\ releaseHotPath(chainOf(transfers[i].dst), transfers[i])

TreasuryStep ==
    \E c \in Chains, dst \in Chains, amount \in Amounts :
        rebalance(c, dst, amount) \/ bridgeReserve(c, dst, amount)

DeliveryStep ==
    \/ \E i \in DOMAIN rebalances : ccipReceive(rebalances[i])
    \/ \E i \in DOMAIN bridges : bridgeIn(bridges[i])

GovernanceStep ==
    \E c \in Chains :
        \/ pause(c) \/ unpause(c) \/ freezeForDecommission(c) \/ pausePermanently(c)
        \/ toggleTokenPause(c)
        \/ allowToken(c) \/ disallowToken(c) \/ setReserveToken(c) \/ setFeeCollector(c)
        \/ setReserveBridge(c) \/ setCcipRouter(c)
        \/ \E m \in Caps : setMaxRebalanceAmount(c, m) \/ setMaxReserveRebalanceAmount(c, m)
        \/ \E d \in Chains : \/ setAllowlistedDestChain(c, d)
                             \/ setAllowlistedSourceContract(c, d)
                             \/ setReserveDestination(c, d)

Next == UserStep \/ RelayerStep \/ TreasuryStep \/ DeliveryStep \/ GovernanceStep

Spec == Init /\ [][Next]_bankVars

-----------------------------------------------------------------------------
(* What is on its way between chains, and what users are still owed. *)

(* Amount of log entry m, unless its destination has already settled it. *)
Outstanding(m, done) ==
    IF chainOf(m.dst) \in Chains /\ m \in done[chainOf(m.dst)] THEN 0 ELSE m.amount

OutstandingTotal(log, done) ==
    Total([i \in 1..Len(log) |-> Outstanding(log[i], done)], Len(log))

(* No two entries of a log are the same message: ids identify messages. *)
Distinct(log) == \A i, j \in 1..Len(log) : log[i] = log[j] => i = j

(* Every hash that a Bank uses as an idempotency key (HotPathInitiated
   eventHash, rebalance messageId, CCTP message id) names one call: Bank.sol's
   _nonce++ and _rebalanceNonce++ never let two calls collide, so the
   released/processed guards never swallow a second, different message. *)
IdsAreUnique == Distinct(transfers) /\ Distinct(rebalances) /\ Distinct(bridges)

(* The tokens of a chain are exactly the ones its users and its Bank hold:
   mint, burn, burnFrom and transfer of SyncUSD, as the Bank uses them, never
   leave supply that nobody holds, nor burn more than there is. *)
SupplyIsHeld == \A c \in Chains : totalSupply[c] = pool[c] + Total(balanceOf[c], NumUsers)

(* SyncUSD is backed one to one: supply on all chains plus what rebalance()
   burned and ccipReceive() has yet to mint equals the USDC of all reserves
   plus what bridgeReserve() sent and bridgeIn() has yet to credit. *)
Backed ==
    Total(totalSupply, N) + OutstandingTotal(rebalances, processedMessages)
        = Total(usdc, N) + OutstandingTotal(bridges, processedReserveMessages)

(* Every hot-path transfer that is not yet released is covered: the pools of
   all chains, with the cold-path liquidity between them, hold at least the
   SyncUSD that transferHotPath() locked and releaseHotPath() still owes. *)
TransfersCovered ==
    Total(pool, N) + OutstandingTotal(rebalances, processedMessages)
        >= OutstandingTotal(transfers, released)

(* The nonces of one kind of message have all been handed out: the ones in the
   log and the ones settled are below their chain's counter. *)
NonceBound(log, nonces, done) ==
    /\ \A i \in 1..Len(log) : log[i].nonce < nonces[log[i].src]
    /\ \A c \in Chains : \A m \in done[c] : m.nonce < nonces[m.src]

(* Banks in use: users have paid in, seeded pools and moved funds in whatever
   way the calls above allow; no liquidity and no reserve has moved between
   chains yet.  Where the Treasury's slower loops start. *)
Operating ==
    /\ TypeOK /\ SupplyIsHeld /\ Backed /\ TransfersCovered
    /\ IdsAreUnique /\ NonceBound(transfers, nonce, released)
    /\ rebalances = <<>> /\ processedMessages = [c \in Chains |-> {}]
    /\ bridges = <<>> /\ processedReserveMessages = [c \in Chains |-> {}]

(* pausePermanently() seals a Bank: no later call changes its reserve or the
   supply of its token, nor takes anything out of its pool (a SyncUSD transfer
   to the Bank's address can still add to it), and the pause itself stays. *)
SealedForever ==
    [][\A c \in Chains : permanentPause[c] =>
          /\ usdc'[c] = usdc[c]
          /\ totalSupply'[c] = totalSupply[c]
          /\ pool'[c] >= pool[c]
          /\ paused'[c]]_bankVars

(* After freezeForDecommission() what users hold on the chain never grows:
   deposits and hot-path releases stop, withdrawals and the drain calls, which
   only touch the pool and the reserve, go on. *)
FrozenOnlyShrinks ==
    [][\A c \in Chains : frozen[c] =>
          totalSupply'[c] - pool'[c] <= totalSupply[c] - pool[c]]_bankVars

=============================================================================
