------------------------------ MODULE ColdPath ------------------------------
(***************************************************************************)
(* The cold path of the Treasury (cold_path.rs) on top of the Banks: the   *)
(* loop that reads the pools, plans moves and burns liquidity with         *)
(* Bank.rebalance(), the transactions it leaves in the mempool, the rows   *)
(* of treasury.rebalance_ops and what the service knows of RouteReceiver.  *)
(*                                                                         *)
(* A step ends where the code awaits a chain.  Only this loop writes the   *)
(* table, so a read and the write that follows it are one step.  A restart *)
(* forgets the cycle and the chain sets; rows and mempool survive.         *)
(* Account nonces are abstracted: a transaction may be included late or be *)
(* dropped; a retry asks for a new nonce, so both attempts may execute.    *)
(***************************************************************************)
EXTENDS Bank, RebalancePlan

CONSTANTS
    COLD_PATH_MIN_BPS,    \* share of the target below which a chain needs funds
    COLD_PATH_TARGET_BPS, \* target as a share of the total; 0: equal parts
    COLD_PATH_MAX_WEI,    \* max_wei_per_op; large when none is configured
    MAX_RETRIES,          \* attempts per chunk
    Activations,          \* sets of chains that RouteReceiver may publish
    Decommissionable,     \* chains RouteReceiver may finalize
    MaxOps,               \* bound: rows of rebalance_ops
    PlanDepth,            \* bound: depth per chain for which plans are compared
    Disturbances,         \* which of "rpc", "timeout", "db", "restart", "cap", "route" happen
    MaxDisturbances       \* bound: number of them

(* COLD_PATH_MAX_WEI=0 would keep compute_rebalance_ops looping for ever. *)
ASSUME ColdPathAssumption ==
    /\ COLD_PATH_MIN_BPS \in Nat /\ COLD_PATH_TARGET_BPS \in Nat
    /\ COLD_PATH_MAX_WEI \in Nat \ {0} /\ MAX_RETRIES \in Nat \ {0}
    /\ Activations \subseteq SUBSET Chains /\ Decommissionable \subseteq Chains
    /\ MaxOps \in Nat /\ PlanDepth \in Nat /\ MaxDisturbances \in Nat
    /\ Disturbances \subseteq {"rpc", "timeout", "db", "restart", "cap", "route"}

VARIABLES
    active_chains, decommissioned_chains,
    cycle,        \* the locals of run_rebalance_cycle
    coldMempool,  \* rebalance() transactions sent and not yet included
    rebalance_ops,\* every operation: its row, or status "none" without one
    burner,       \* operation and chunk behind each entry of rebalances
    disturbances  \* the disturbances so far

coldPathVars == <<active_chains, decommissioned_chains, cycle, coldMempool,
                  rebalance_ops, burner, disturbances>>
allVars == <<bankVars, coldPathVars>>

Op == [src : Chains, dst : Chains, amount : Nat \ {0}]
Row == [src : Chains, dst : Chains, amount : Nat \ {0}, aged : BOOLEAN,
        status : {"none", "pending", "submitted", "failed"}]
Tx == [op : 1..MaxOps, chunk : Nat \ {0}, attempt : 1..MAX_RETRIES, amount : Nat \ {0}]

(* Between cycles. *)
Idle == [pc |-> "idle", chains |-> {}, depths |-> <<>>, ops |-> <<>>, at |-> 1,
         chunks |-> <<>>, chunk |-> 1, attempt |-> 1, receipt |-> "none"]

ColdPathTypeOK ==
    /\ active_chains \subseteq Chains /\ decommissioned_chains \subseteq Chains
    /\ cycle.pc \in {"idle", "depths", "check", "cap", "submit", "wait", "fail"}
    /\ DOMAIN cycle.depths \subseteq cycle.chains /\ cycle.chains \subseteq Chains
    /\ cycle.ops \in Seq(Op) /\ cycle.at \in 1..(Len(cycle.ops) + 1)
    /\ cycle.chunks \in Seq(Nat \ {0}) /\ cycle.attempt \in 1..MAX_RETRIES
    /\ coldMempool \subseteq Tx
    /\ rebalance_ops \in Seq(Row) /\ Len(rebalance_ops) <= MaxOps
    /\ Len(burner) = Len(rebalances)
    /\ disturbances \in Seq(Disturbances) /\ Len(disturbances) <= MaxDisturbances

ServiceInit ==
    /\ active_chains = Chains /\ decommissioned_chains = {}
    /\ cycle = Idle
    /\ coldMempool = {} /\ rebalance_ops = <<>> /\ burner = <<>>
    /\ disturbances = <<>>

ColdPathInit == Operating /\ ServiceInit

Disturbed(kind) ==
    /\ kind \in Disturbances /\ Len(disturbances) < MaxDisturbances
    /\ disturbances' = Append(disturbances, kind)
Undisturbed == UNCHANGED disturbances
DatabaseAnswers == \A i \in DOMAIN disturbances : disturbances[i] # "db"

-----------------------------------------------------------------------------
(* The loop.  Every step below is one of the service's. *)

Service(pc) ==
    /\ cycle.pc = pc
    /\ UNCHANGED <<bankVars, active_chains, decommissioned_chains, burner>>

op == cycle.ops[cycle.at]
row == Len(rebalance_ops)         \* the row of the current operation

(* The cycle goes on with the next operation, or ends. *)
nextOp == IF cycle.at = Len(cycle.ops) THEN Idle
          ELSE [cycle EXCEPT !.pc = "check", !.at = @ + 1, !.chunks = <<>>, !.chunk = 1,
                             !.attempt = 1, !.receipt = "none"]

(* update_rebalance_op_submitted and update_rebalance_op_failed; an operation
   without a row stays without one. *)
marked(status) ==
    [rebalance_ops EXCEPT ![row].status = IF @ = "none" THEN "none" ELSE status]

startCycle ==
    LET chains == active_chains \ decommissioned_chains IN
    /\ Service("idle")
    /\ Cardinality(chains) >= 2
    /\ cycle' = [Idle EXCEPT !.pc = "depths", !.chains = chains]
    /\ Undisturbed /\ UNCHANGED <<coldMempool, rebalance_ops>>

target_depth(depths) ==
    LET n == Cardinality(DOMAIN depths)
        total == Total([i \in 1..N |-> IF i \in DOMAIN depths THEN depths[i] ELSE 0], N)
    IN  IF COLD_PATH_TARGET_BPS = 0 THEN total \div n
        ELSE (total * COLD_PATH_TARGET_BPS) \div 10000

any_deficit(depths) ==
    LET target == target_depth(depths) IN
    /\ target > 0
    /\ \E c \in DOMAIN depths : (depths[c] * 10000) \div target < COLD_PATH_MIN_BPS

(* The plan of the cycle once every pool has been read: nothing to do when the
   pools are empty or all within the threshold. *)
planned(depths) ==
    IF any_deficit(depths) THEN plans(depths, target_depth(depths), COLD_PATH_MAX_WEI)
    ELSE {<<>>}

(* fetch_pool_depth for the next chain, in an order that never changes (that of
   the map of configured chains); the last answer yields the plan, and a
   missing answer ends the cycle. *)
readDepth(c) ==
    LET depths == [x \in DOMAIN cycle.depths \cup {c} |-> IF x = c THEN pool[c]
                                                          ELSE cycle.depths[x]]
    IN  /\ Service("depths")
        /\ c \in cycle.chains \ DOMAIN cycle.depths
        /\ \A x \in cycle.chains \ DOMAIN cycle.depths : c <= x
        /\ \/ /\ DOMAIN depths # cycle.chains
              /\ cycle' = [cycle EXCEPT !.depths = depths]
              /\ Undisturbed
           \/ /\ DOMAIN depths = cycle.chains
              /\ \E ops \in planned(depths) :
                    cycle' = IF ops = <<>> THEN Idle
                             ELSE [cycle EXCEPT !.pc = "check", !.depths = depths, !.ops = ops]
              /\ Undisturbed
           \/ cycle' = Idle /\ Disturbed("rpc")
        /\ UNCHANGED <<coldMempool, rebalance_ops>>

(* op_in_flight: a recent row of the pair that may still be under way. *)
op_in_flight_OnlySubmitted(src, dst) ==
    \E i \in DOMAIN rebalance_ops :
        /\ rebalance_ops[i].src = src /\ rebalance_ops[i].dst = dst
        /\ rebalance_ops[i].status = "submitted"
        /\ ~rebalance_ops[i].aged

op_in_flight_ForEver(src, dst) ==
    \E i \in DOMAIN rebalance_ops :
        /\ rebalance_ops[i].src = src /\ rebalance_ops[i].dst = dst
        /\ rebalance_ops[i].status \in {"pending", "submitted"}

op_in_flight(src, dst) ==
    \E i \in DOMAIN rebalance_ops :
        /\ rebalance_ops[i].src = src /\ rebalance_ops[i].dst = dst
        /\ rebalance_ops[i].status \in {"pending", "submitted"}
        /\ ~rebalance_ops[i].aged

evaluate_rebalance_op(live_depth, required_amount, in_flight) ==
    IF live_depth < required_amount THEN "SkipInsufficientDepth"
    ELSE IF in_flight THEN "SkipOpInFlight" ELSE "Submit"

insert_rebalance_op(status) ==
    /\ row < MaxOps
    /\ rebalance_ops' = Append(rebalance_ops, [src |-> op.src, dst |-> op.dst,
                            amount |-> op.amount, aged |-> FALSE, status |-> status])

(* The source pool is read again, the table asked for an operation in flight,
   and the row inserted.  When the database fails, nothing seems in flight, and
   the operation may go on without a row. *)
checkOp ==
    LET decision(in_flight) == evaluate_rebalance_op(pool[op.src], op.amount, in_flight)
        admitted == cycle' = [cycle EXCEPT !.pc = "cap"]
    IN  /\ Service("check")
        /\ \/ /\ decision(op_in_flight(op.src, op.dst)) # "Submit"
              /\ cycle' = nextOp
              /\ Undisturbed /\ UNCHANGED rebalance_ops
           \/ /\ decision(op_in_flight(op.src, op.dst)) = "Submit"
              /\ insert_rebalance_op("pending") /\ admitted /\ Undisturbed
           \/ /\ decision(FALSE) = "Submit"
              /\ \E status \in {"pending", "none"} : insert_rebalance_op(status)
              /\ admitted /\ Disturbed("db")
           \/ cycle' = nextOp /\ Disturbed("rpc") /\ UNCHANGED rebalance_ops
        /\ UNCHANGED coldMempool

split_amount_by_cap_ExtraChunk(amount, cap) ==
    [k \in 1..(amount \div cap + 1) |-> least(cap, amount - (k - 1) * cap)]

split_amount_by_cap(amount, cap) ==
    [k \in 1..((amount + cap - 1) \div cap) |-> least(cap, amount - (k - 1) * cap)]

(* fetch_max_rebalance_amount, the cap that the source Bank enforces. *)
readCap ==
    LET cap == config[op.src].cap IN
    /\ Service("cap")
    /\ \/ /\ cap > 0
          /\ cycle' = [cycle EXCEPT !.pc = "submit",
                           !.chunks = split_amount_by_cap(op.amount, cap)]
          /\ Undisturbed
       \/ /\ cycle' = [cycle EXCEPT !.pc = "fail", !.receipt = "none"]
          /\ (cap = 0 /\ Undisturbed) \/ Disturbed("rpc")
    /\ UNCHANGED <<coldMempool, rebalance_ops>>

(* An attempt failed: the loop of submit_rebalance_with_retry tries again, and
   gives up with RetryExhausted, whatever the error was. *)
retry ==
    /\ cycle' = IF cycle.attempt < MAX_RETRIES
                THEN [cycle EXCEPT !.pc = "submit", !.attempt = @ + 1, !.receipt = "none"]
                ELSE [cycle EXCEPT !.pc = "fail", !.receipt = "none"]
    /\ UNCHANGED rebalance_ops

(* update_rebalance_op_failed, unless the database fails, and on to the next. *)
recordFailure ==
    /\ Service("fail")
    /\ \/ rebalance_ops' = marked("failed") /\ Undisturbed
       \/ UNCHANGED rebalance_ops /\ Disturbed("db")
    /\ cycle' = nextOp
    /\ UNCHANGED coldMempool

currentTx == [op |-> row, chunk |-> cycle.chunk, attempt |-> cycle.attempt,
              amount |-> cycle.chunks[cycle.chunk]]

(* submit_rebalance_once up to eth_sendRawTransaction.  When the answer is lost
   the transaction may have reached the mempool all the same. *)
submit ==
    /\ Service("submit")
    /\ \/ /\ coldMempool' = coldMempool \cup {currentTx}
          /\ cycle' = [cycle EXCEPT !.pc = "wait"]
          /\ Undisturbed /\ UNCHANGED rebalance_ops
       \/ /\ coldMempool' \in {coldMempool, coldMempool \cup {currentTx}}
          /\ retry /\ Disturbed("rpc")

(* The cycle goes on with the next chunk, or the next operation. *)
nextChunk_Repeats ==
    IF cycle.chunk = Len(cycle.chunks) THEN nextOp
    ELSE [cycle EXCEPT !.pc = "submit", !.attempt = 1, !.receipt = "none"]

nextChunk ==
    IF cycle.chunk = Len(cycle.chunks) THEN nextOp
    ELSE [cycle EXCEPT !.pc = "submit", !.chunk = @ + 1, !.attempt = 1, !.receipt = "none"]

(* wait_for_receipt_logs wants status 0x1. *)
succeeded_AnyStatus(receipt) == receipt # "none"
succeeded(receipt) == receipt = "ok"

(* wait_for_receipt_logs: the receipt's status, or the end of MAX_TX_WAIT. *)
awaitReceipt ==
    /\ Service("wait")
    /\ \/ /\ succeeded(cycle.receipt)
          /\ \/ rebalance_ops' = marked("submitted") /\ Undisturbed
             \/ UNCHANGED rebalance_ops /\ Disturbed("db")
          /\ cycle' = nextChunk
       \/ cycle.receipt = "reverted" /\ retry /\ Undisturbed
       \/ /\ cycle.receipt = "none" /\ retry
          /\ (currentTx \notin coldMempool /\ Undisturbed) \/ Disturbed("timeout")
    /\ UNCHANGED coldMempool

-----------------------------------------------------------------------------
(* The chains, time, and what RouteReceiver tells. *)

(* A transaction of the cold path is included and burns, or reverts. *)
includeRebalance(x) ==
    LET o == rebalance_ops[x.op]
        Receipt(r) == IF cycle.pc = "wait" /\ x = currentTx
                      THEN [cycle EXCEPT !.receipt = r] ELSE cycle
    IN  /\ coldMempool' = coldMempool \ {x}
        /\ \/ /\ rebalance(o.src, o.dst, x.amount)
              /\ burner' = Append(burner, [op |-> x.op, chunk |-> x.chunk])
              /\ cycle' = Receipt("ok")
           \/ /\ ~rebalanceable(o.src, o.dst, x.amount)
              /\ cycle' = Receipt("reverted")
              /\ UNCHANGED <<bankVars, burner>>
        /\ UNCHANGED <<active_chains, decommissioned_chains, rebalance_ops, disturbances>>

(* A transaction leaves the mempool without being included. *)
dropRebalance(x) ==
    /\ Disturbed("timeout")
    /\ coldMempool' = coldMempool \ {x}
    /\ UNCHANGED <<bankVars, active_chains, decommissioned_chains, cycle, rebalance_ops, burner>>

(* The calls of others that change a pool, and what the cold path reads. *)
LedgerStep ==
    /\ \/ \E c \in Chains, u \in Users, amount \in Amounts : seedPool(c, u, amount)
       \/ RelayerStep
       \/ \E i \in DOMAIN rebalances : ccipReceive(rebalances[i])
    /\ UNCHANGED coldPathVars

(* Governance sets the cap of a Bank, perhaps to 0. *)
setCap(c, m) ==
    /\ setMaxRebalanceAmount(c, m) /\ Disturbed("cap")
    /\ UNCHANGED <<active_chains, decommissioned_chains, cycle, coldMempool, rebalance_ops, burner>>

(* 24 hours after its insertion a row no longer counts as in flight; the loop
   is done with it long before. *)
age(i) ==
    /\ ~rebalance_ops[i].aged
    /\ cycle.pc \in {"cap", "submit", "wait", "fail"} => i # row
    /\ \A k \in 1..(i - 1) : rebalance_ops[k].aged
    /\ rebalance_ops' = [rebalance_ops EXCEPT ![i].aged = TRUE]
    /\ UNCHANGED <<bankVars, active_chains, decommissioned_chains, cycle, coldMempool,
                   burner, disturbances>>

(* poll_route_receiver_loop: ActivationPublished replaces the active set, and
   ChainDecommissionFinalized removes a chain for as long as the service runs. *)
learnActivation(chains) ==
    /\ active_chains' = chains
    /\ UNCHANGED <<bankVars, decommissioned_chains, cycle, coldMempool, rebalance_ops, burner,
                   disturbances>>

learnDecommission(c) ==
    /\ Disturbed("route")
    /\ decommissioned_chains' = decommissioned_chains \cup {c}
    /\ active_chains' = active_chains \ {c}
    /\ UNCHANGED <<bankVars, cycle, coldMempool, rebalance_ops, burner>>

restart ==
    /\ Disturbed("restart")
    /\ active_chains' = Chains /\ decommissioned_chains' = {}
    /\ cycle' = Idle
    /\ UNCHANGED <<bankVars, coldMempool, rebalance_ops, burner>>

CycleStep ==
    \/ startCycle
    \/ \E c \in Chains : readDepth(c)
    \/ checkOp \/ readCap \/ submit \/ awaitReceipt \/ recordFailure

ColdPathNext ==
    \/ LedgerStep
    \/ \E c \in Chains, m \in Caps : setCap(c, m)
    \/ CycleStep
    \/ \E x \in coldMempool : includeRebalance(x) \/ dropRebalance(x)
    \/ \E i \in DOMAIN rebalance_ops : age(i)
    \/ \E chains \in Activations : learnActivation(chains)
    \/ \E c \in Decommissionable : learnDecommission(c)
    \/ restart

ColdPathSpec == ColdPathInit /\ [][ColdPathNext]_allVars

-----------------------------------------------------------------------------
(* compute_rebalance_ops computes the reference plan for all chains: it leaves
   no surplus that a deficit could use, takes no source below the target, fills
   no destination above it, and cuts moves at the cap only.  Checked for the
   plans that the cycles compute, and with the first of them for every spread
   of up to PlanDepth per chain, every target and every cap. *)
AllPlansAreExact == ExactUpTo(N, PlanDepth)

PlansAreExact ==
    cycle.ops # <<>> =>
        /\ Exact(cycle.ops, cycle.depths, target_depth(cycle.depths), COLD_PATH_MAX_WEI)
        /\ AllPlansAreExact

Burns(i, chunk) == {b \in DOMAIN burner : burner[b] = [op |-> i, chunk |-> chunk]}
BurnsOf(i) == {b \in DOMAIN burner : burner[b].op = i}

(* A row says "submitted" only if one of its chunks was burned on chain: a
   timed out, reverted or unanswered transaction never reads as success. *)
SubmittedMeansBurned ==
    \A i \in DOMAIN rebalance_ops : rebalance_ops[i].status = "submitted" => BurnsOf(i) # {}

(* Late transactions included, a chunk is burned once, and once more only for
   every receipt or answer that the service missed, up to MAX_RETRIES; always
   for the pair of its row and never beyond its amount.  While the database
   answers, no burn is without a row. *)
BurnsAreAccountedFor ==
    LET missed == {d \in DOMAIN disturbances : disturbances[d] \in {"rpc", "timeout"}} IN
    \A b \in DOMAIN burner :
        LET i == burner[b].op IN
        /\ rebalances[b].src = rebalance_ops[i].src /\ rebalances[b].dst = rebalance_ops[i].dst
        /\ rebalances[b].amount <= rebalance_ops[i].amount
        /\ Cardinality(Burns(i, burner[b].chunk)) <= least(1 + Cardinality(missed), MAX_RETRIES)
        /\ DatabaseAnswers => rebalance_ops[i].status # "none"

(* Across cycles and restarts, two operations of one pair of chains are never
   in flight at the same time while the database answers. *)
OneOpInFlight ==
    DatabaseAnswers =>
        \A i, k \in DOMAIN rebalance_ops :
            LET live(r) == r.status \in {"pending", "submitted"} /\ ~r.aged IN
            /\ live(rebalance_ops[i]) /\ live(rebalance_ops[k])
            /\ rebalance_ops[i].src = rebalance_ops[k].src
            /\ rebalance_ops[i].dst = rebalance_ops[k].dst
            => i = k

(* Nothing is needed: the pools the service may use are within the threshold. *)
Balanced ==
    LET chains == active_chains \ decommissioned_chains
    IN  Cardinality(chains) < 2 \/ ~any_deficit([c \in chains |-> pool[c]])

(* The service, the chains and CCIP make progress, and days pass. *)
Fairness ==
    /\ WF_allVars(CycleStep)
    /\ WF_allVars(\E x \in coldMempool : includeRebalance(x))
    /\ WF_allVars(\E i \in DOMAIN rebalances : ccipReceive(rebalances[i]) /\ UNCHANGED coldPathVars)
    /\ WF_allVars(\E i \in DOMAIN rebalance_ops : age(i))

(* A chain that lacks liquidity is served: the cold path burns for it or the
   pools recover, unless a Bank's cap forbids to burn.  Rows that nobody ever
   completes, failed operations and restarts delay that by a day, not for ever.
   (The pools need not come to rest: a snapshot does not see what is still on
   its way.) *)
DeficitsAreServed ==
    \A n \in 0..(MaxRebalances - 1) :
        (Len(rebalances) = n /\ ~Balanced)
            ~> (Len(rebalances) > n \/ Balanced \/ \E c \in Chains : config[c].cap = 0)
=============================================================================
