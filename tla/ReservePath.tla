---------------------------- MODULE ReservePath -----------------------------
(***************************************************************************)
(* The reserve path of the Treasury (reserve_path.rs) on top of the Banks: *)
(* the planner that burns USDC with Bank.bridgeReserve(), the relayer that *)
(* fetches Circle's attestation and calls bridgeIn() on the destination,   *)
(* and the watcher that completes or times out rows.  The three loops run  *)
(* side by side and meet only in treasury.reserve_ops, whose updates name  *)
(* a row and never look at its status.                                     *)
(*                                                                         *)
(* A step ends where the code awaits a chain or Circle.  A restart forgets *)
(* the loops, the chain sets and the watcher's cursor; rows and mempool    *)
(* survive.  Nonces are abstracted as in ColdPath.                         *)
(***************************************************************************)
EXTENDS Bank, RebalancePlan

CONSTANTS
    RESERVE_PATH_MIN_BPS, \* share of the target below which a chain needs USDC
    RESERVE_PATH_MAX_WEI, \* max_wei_per_op; large when none is configured
    MAX_RETRIES,          \* attempts per transaction
    Decommissionable,     \* chains RouteReceiver may finalize
    MaxOps,               \* bound: rows of reserve_ops
    Disturbances,         \* which of the disturbances below happen
    MaxDisturbances       \* bound: number of them

Kinds == {"rpc", "timeout", "db", "restart", "user", "route"}

ASSUME ReservePathAssumption ==
    /\ RESERVE_PATH_MIN_BPS \in Nat /\ RESERVE_PATH_MAX_WEI \in Nat \ {0}
    /\ MAX_RETRIES \in Nat \ {0} /\ Decommissionable \subseteq Chains
    /\ MaxOps \in Nat /\ MaxDisturbances \in Nat /\ Disturbances \subseteq Kinds

VARIABLES
    servable,     \* active_chains without decommissioned_chains
    planner,      \* the locals of run_planner_cycle
    relayer,      \* the locals of relayer_loop and relay_one
    watcherSeen,  \* completions behind watcher_cursor, per chain
    watching,     \* chains that have a watcher_cursor
    attested,     \* bridges that Circle has attested (external)
    sent,         \* transactions in a mempool
    reserve_ops,  \* every operation: its row, or status "none" without one
    burner,       \* operation behind each entry of bridges
    disturbances  \* the disturbances so far

reservePathVars == <<servable, planner, relayer, watcherSeen, watching, attested, sent,
                     reserve_ops, burner, disturbances>>
allVars == <<bankVars, reservePathVars>>

Live == {"pending", "submitted", "relayed"}
Row == [src : Chains, dst : Chains, amount : Nat \ {0},
        status : Live \cup {"none", "completed", "failed"},
        msg : 0..MaxBridges,        \* bridge_message_id: index in bridges, 0 if NULL
        attestation : BOOLEAN,      \* cctp_attestation is set
        stuck : BOOLEAN,            \* updated_at is older than the stuck timeout
        aged : BOOLEAN]             \* created_at is older than 24 hours
OutTx == [op : 1..MaxOps, attempt : 1..MAX_RETRIES]
InTx == [msg : 1..MaxBridges, attempt : 1..MAX_RETRIES]

PlannerIdle == [pc |-> "idle", chains |-> {}, depths |-> <<>>, ops |-> <<>>, at |-> 1,
                attempt |-> 1, receipt |-> "none", msg |-> 0]
RelayerIdle == [pc |-> "idle", queue |-> <<>>, attempt |-> 1, receipt |-> "none"]

ReservePathTypeOK ==
    /\ servable \subseteq Chains /\ watching \subseteq Chains
    /\ planner.pc \in {"idle", "depths", "check", "submit", "wait", "fail"}
    /\ DOMAIN planner.depths \subseteq planner.chains
    /\ planner.ops \in Seq([src : Chains, dst : Chains, amount : Nat \ {0}])
    /\ relayer.pc \in {"idle", "attest", "submit", "wait", "fail"}
    /\ relayer.queue \in Seq(1..MaxOps) /\ relayer.pc # "idle" => relayer.queue # <<>>
    /\ watcherSeen \in [Chains -> SUBSET Bridge]
    /\ attested \subseteq 1..Len(bridges)
    /\ sent \subseteq OutTx \cup InTx
    /\ reserve_ops \in Seq(Row) /\ Len(reserve_ops) <= MaxOps
    /\ Len(burner) = Len(bridges)
    /\ disturbances \in Seq(Disturbances) /\ Len(disturbances) <= MaxDisturbances

ServiceInit ==
    /\ servable = Chains /\ planner = PlannerIdle /\ relayer = RelayerIdle
    /\ watcherSeen = [c \in Chains |-> {}] /\ watching = {}
    /\ attested = {} /\ sent = {} /\ reserve_ops = <<>> /\ burner = <<>>
    /\ disturbances = <<>>

ReservePathInit == Operating /\ ServiceInit

Disturbed(kind) ==
    /\ kind \in Disturbances /\ Len(disturbances) < MaxDisturbances
    /\ disturbances' = Append(disturbances, kind)
Undisturbed == UNCHANGED disturbances
DatabaseAnswers == \A i \in DOMAIN disturbances : disturbances[i] # "db"

(* An UPDATE of row i to r: updated_at = NOW(), and no row stays no row. *)
update(i, r) ==
    reserve_ops' = IF reserve_ops[i].status = "none" THEN reserve_ops
                   ELSE [reserve_ops EXCEPT ![i] = [r EXCEPT !.stuck = FALSE]]

update_submitted(i, m) == update(i, [reserve_ops[i] EXCEPT !.status = "submitted", !.msg = m])
update_attestation(i) == update(i, [reserve_ops[i] EXCEPT !.attestation = TRUE])
update_status(i, status) == update(i, [reserve_ops[i] EXCEPT !.status = status])

-----------------------------------------------------------------------------
(* The planner. *)

Planner(pc) ==
    /\ planner.pc = pc
    /\ UNCHANGED <<bankVars, servable, relayer, watcherSeen, watching, attested, burner>>

op == planner.ops[planner.at]
row == Len(reserve_ops)           \* the row of the current operation

nextOp == IF planner.at = Len(planner.ops) THEN PlannerIdle
          ELSE [planner EXCEPT !.pc = "check", !.at = @ + 1, !.attempt = 1, !.receipt = "none"]

startCycle ==
    /\ Planner("idle")
    /\ Cardinality(servable) >= 2
    /\ planner' = [PlannerIdle EXCEPT !.pc = "depths", !.chains = servable]
    /\ Undisturbed /\ UNCHANGED <<sent, reserve_ops>>

target(depths) ==
    Total([i \in 1..N |-> IF i \in DOMAIN depths THEN depths[i] ELSE 0], N)
        \div Cardinality(DOMAIN depths)

any_deficit(depths) ==
    /\ target(depths) > 0
    /\ \E c \in DOMAIN depths : (depths[c] * 10000) \div target(depths) < RESERVE_PATH_MIN_BPS

planned(depths) ==
    IF any_deficit(depths) THEN plans(depths, target(depths), RESERVE_PATH_MAX_WEI) ELSE {<<>>}

(* reserveDepth() of the next chain; the last answer yields the plan. *)
readDepth(c) ==
    LET depths == [x \in DOMAIN planner.depths \cup {c} |-> IF x = c THEN usdc[c]
                                                            ELSE planner.depths[x]]
    IN  /\ Planner("depths")
        /\ c \in planner.chains \ DOMAIN planner.depths
        /\ \A x \in planner.chains \ DOMAIN planner.depths : c <= x
        /\ \/ /\ DOMAIN depths # planner.chains
              /\ planner' = [planner EXCEPT !.depths = depths]
              /\ Undisturbed
           \/ /\ DOMAIN depths = planner.chains
              /\ \E ops \in planned(depths) :
                    planner' = IF ops = <<>> THEN PlannerIdle
                               ELSE [planner EXCEPT !.pc = "check", !.depths = depths, !.ops = ops]
              /\ Undisturbed
           \/ planner' = PlannerIdle /\ Disturbed("rpc")
        /\ UNCHANGED <<sent, reserve_ops>>

op_in_flight(src, dst) ==
    \E i \in DOMAIN reserve_ops :
        /\ reserve_ops[i].src = src /\ reserve_ops[i].dst = dst
        /\ reserve_ops[i].status \in Live
        /\ ~reserve_ops[i].aged

insert_reserve_op(status) ==
    /\ row < MaxOps
    /\ reserve_ops' = Append(reserve_ops,
           [src |-> op.src, dst |-> op.dst, amount |-> op.amount, status |-> status,
            msg |-> 0, attestation |-> FALSE, stuck |-> FALSE, aged |-> FALSE])

(* evaluate_rebalance_op on the source's live reserve, then the row.  When the
   database fails, nothing seems in flight and the row may be missing. *)
checkOp ==
    LET covered == usdc[op.src] >= op.amount
        admitted == planner' = [planner EXCEPT !.pc = "submit"]
    IN  /\ Planner("check")
        /\ \/ /\ ~covered \/ op_in_flight(op.src, op.dst)
              /\ planner' = nextOp
              /\ Undisturbed /\ UNCHANGED reserve_ops
           \/ /\ covered /\ ~op_in_flight(op.src, op.dst)
              /\ insert_reserve_op("pending") /\ admitted /\ Undisturbed
           \/ /\ covered
              /\ \E status \in {"pending", "none"} : insert_reserve_op(status)
              /\ admitted /\ Disturbed("db")
           \/ planner' = nextOp /\ Disturbed("rpc") /\ UNCHANGED reserve_ops
        /\ UNCHANGED sent

(* submit_bridge_reserve: another attempt, or RetryExhausted. *)
retryOut ==
    /\ planner' = IF planner.attempt < MAX_RETRIES
                  THEN [planner EXCEPT !.pc = "submit", !.attempt = @ + 1, !.receipt = "none"]
                  ELSE [planner EXCEPT !.pc = "fail", !.receipt = "none"]
    /\ UNCHANGED reserve_ops

(* update_failed of row i, whose database error is only logged. *)
update_failed(i) ==
    \/ update_status(i, "failed") /\ Undisturbed
    \/ UNCHANGED reserve_ops /\ Disturbed("db")

(* The planner gives up the burn. *)
recordOutFailure ==
    /\ Planner("fail")
    /\ update_failed(row)
    /\ planner' = nextOp
    /\ UNCHANGED sent

currentOut == [op |-> row, attempt |-> planner.attempt]

submitOut ==
    /\ Planner("submit")
    /\ \/ /\ sent' = sent \cup {currentOut}
          /\ planner' = [planner EXCEPT !.pc = "wait"]
          /\ Undisturbed /\ UNCHANGED reserve_ops
       \/ /\ sent' \in {sent, sent \cup {currentOut}}
          /\ retryOut /\ Disturbed("rpc")

(* wait_for_receipt_logs wants status 0x1. *)
succeeded_UnlessReverted(receipt) == receipt # "reverted"
succeeded(receipt) == receipt = "ok"

(* The receipt carries the log whose messageId the row keeps.  A database error
   is logged and the operation is over all the same. *)
recordBurn_OrRetry ==
    \/ planner' = nextOp /\ update_submitted(row, planner.msg) /\ Undisturbed
    \/ retryOut /\ Disturbed("db")
recordBurn ==
    \/ planner' = nextOp /\ update_submitted(row, planner.msg) /\ Undisturbed
    \/ planner' = nextOp /\ UNCHANGED reserve_ops /\ Disturbed("db")

awaitOut ==
    /\ Planner("wait")
    /\ \/ succeeded(planner.receipt) /\ recordBurn
       \/ planner.receipt = "reverted" /\ retryOut /\ Undisturbed
       \/ /\ planner.receipt = "none" /\ retryOut
          /\ (currentOut \notin sent /\ Undisturbed) \/ Disturbed("timeout")
    /\ UNCHANGED sent

-----------------------------------------------------------------------------
(* The relayer. *)

Relayer(pc) ==
    /\ relayer.pc = pc
    /\ UNCHANGED <<bankVars, servable, planner, watcherSeen, watching, attested, burner>>

relayed == Head(relayer.queue)    \* the row that relay_one works on
nextRow_Endless == [RelayerIdle EXCEPT !.pc = "attest", !.queue = Tail(relayer.queue)]
nextRow == IF Len(relayer.queue) = 1 THEN RelayerIdle
           ELSE [RelayerIdle EXCEPT !.pc = "attest", !.queue = Tail(relayer.queue)]

list_awaiting_attestation_OnlyRelayed ==
    {i \in DOMAIN reserve_ops : /\ reserve_ops[i].status = "relayed"
                                /\ reserve_ops[i].msg # 0 /\ ~reserve_ops[i].attestation}

list_awaiting_attestation ==
    {i \in DOMAIN reserve_ops : /\ reserve_ops[i].status = "submitted"
                                /\ reserve_ops[i].msg # 0 /\ ~reserve_ops[i].attestation}

(* One round of relayer_loop takes its rows now and works on them later. *)
startRound ==
    LET rows == list_awaiting_attestation IN
    /\ Relayer("idle")
    /\ rows # {}
    /\ \E queue \in [1..Cardinality(rows) -> rows] :
          /\ \A i, j \in DOMAIN queue : i < j => queue[i] < queue[j]
          /\ relayer' = [RelayerIdle EXCEPT !.pc = "attest", !.queue = queue]
    /\ Undisturbed /\ UNCHANGED <<sent, reserve_ops>>

(* fetch_circle_attestation: pending or no answer leaves the row for the next
   round; otherwise the attestation is stored before bridgeIn is sent. *)
attest ==
    /\ Relayer("attest")
    /\ \/ /\ reserve_ops[relayed].msg \notin attested
          /\ relayer' = nextRow
          /\ Undisturbed /\ UNCHANGED reserve_ops
       \/ /\ reserve_ops[relayed].msg \in attested
          /\ relayer' = [relayer EXCEPT !.pc = "submit"]
          /\ \/ update_attestation(relayed) /\ Undisturbed
             \/ UNCHANGED reserve_ops /\ Disturbed("db")
       \/ relayer' = nextRow /\ Disturbed("rpc") /\ UNCHANGED reserve_ops
       \/ /\ reserve_ops[relayed].msg \in attested      \* Circle's hex is invalid
          /\ relayer' = [relayer EXCEPT !.pc = "fail"]
          /\ update_attestation(relayed) /\ Disturbed("rpc")
    /\ UNCHANGED sent

(* submit_bridge_in: another attempt, or RetryExhausted. *)
retryIn ==
    /\ relayer' = IF relayer.attempt < MAX_RETRIES
                  THEN [relayer EXCEPT !.pc = "submit", !.attempt = @ + 1, !.receipt = "none"]
                  ELSE [relayer EXCEPT !.pc = "fail", !.receipt = "none"]
    /\ UNCHANGED reserve_ops

(* relay_one gives up the row. *)
recordInFailure ==
    /\ Relayer("fail")
    /\ update_failed(relayed)
    /\ relayer' = nextRow
    /\ UNCHANGED sent

currentIn == [msg |-> reserve_ops[relayed].msg, attempt |-> relayer.attempt]

submitIn ==
    /\ Relayer("submit")
    /\ \/ /\ sent' = sent \cup {currentIn}
          /\ relayer' = [relayer EXCEPT !.pc = "wait"]
          /\ Undisturbed /\ UNCHANGED reserve_ops
       \/ /\ sent' \in {sent, sent \cup {currentIn}}
          /\ retryIn /\ Disturbed("rpc")

awaitIn ==
    /\ Relayer("wait")
    /\ \/ /\ succeeded(relayer.receipt)
          /\ relayer' = nextRow
          /\ \/ update_status(relayed, "relayed") /\ Undisturbed
             \/ UNCHANGED reserve_ops /\ Disturbed("db")
       \/ relayer.receipt = "reverted" /\ retryIn /\ Undisturbed
       \/ /\ relayer.receipt = "none" /\ retryIn
          /\ (currentIn \notin sent /\ Undisturbed) \/ Disturbed("timeout")
    /\ UNCHANGED sent

-----------------------------------------------------------------------------
(* The watcher. *)

Watcher == UNCHANGED <<bankVars, servable, planner, relayer, attested, sent, burner>>

(* run_watcher_cycle on chain c: the ReserveBridgeCompleted logs after the
   cursor complete their rows.  The first look after a start begins at the head
   of the chain; logs that could not be fetched are behind the cursor too. *)
scanCompleted(c) ==
    LET unseen == processedReserveMessages[c] \ watcherSeen[c]
        done(found, i) == /\ reserve_ops[i].dst = c /\ reserve_ops[i].msg # 0
                          /\ bridges[reserve_ops[i].msg] \in found
    IN  /\ Watcher
        /\ c \in servable
        /\ c \notin watching \/ unseen # {}
        /\ watching' = watching \cup {c}
        /\ watcherSeen' = [watcherSeen EXCEPT ![c] = processedReserveMessages[c]]
        /\ \/ /\ \E found \in IF c \in watching THEN {unseen} ELSE SUBSET unseen :
                 reserve_ops' = [i \in DOMAIN reserve_ops |->
                     IF done(found, i) /\ reserve_ops[i].status # "none"
                     THEN [reserve_ops[i] EXCEPT !.status = "completed", !.stuck = FALSE]
                     ELSE reserve_ops[i]]
              /\ Undisturbed
           \/ UNCHANGED reserve_ops /\ Disturbed("rpc")

list_stuck_ForgetsPending ==
    {i \in DOMAIN reserve_ops : reserve_ops[i].status \in {"submitted", "relayed"}
                                /\ reserve_ops[i].stuck}

list_stuck_AnyStatus ==
    {i \in DOMAIN reserve_ops : reserve_ops[i].status # "failed" /\ reserve_ops[i].stuck}

list_stuck ==
    {i \in DOMAIN reserve_ops : reserve_ops[i].status \in Live /\ reserve_ops[i].stuck}

expire(i) ==
    /\ Watcher
    /\ i \in list_stuck
    /\ update_failed(i)
    /\ UNCHANGED <<watching, watcherSeen>>

-----------------------------------------------------------------------------
(* The chains, Circle, time, and what RouteReceiver tells. *)

Others == UNCHANGED <<servable, watcherSeen, watching>>

(* A bridgeReserve() transaction is included and burns, or reverts. *)
includeOut(x) ==
    LET o == reserve_ops[x.op]
        Receipt(r, m) == IF planner.pc = "wait" /\ x = currentOut
                         THEN [planner EXCEPT !.receipt = r, !.msg = m] ELSE planner
    IN  /\ Others
        /\ sent' = sent \ {x}
        /\ \/ /\ bridgeReserve(o.src, o.dst, o.amount)
              /\ burner' = Append(burner, x.op)
              /\ planner' = Receipt("ok", Len(bridges'))
           \/ /\ ~reserveBridgeable(o.src, o.dst, o.amount)
              /\ planner' = Receipt("reverted", 0)
              /\ UNCHANGED <<bankVars, burner>>
        /\ UNCHANGED <<relayer, attested, reserve_ops, disturbances>>

(* A bridgeIn() transaction is included and credits, or reverts. *)
includeIn(x) ==
    LET m == bridges[x.msg]
        Receipt(r) == IF relayer.pc = "wait" /\ x = currentIn
                      THEN [relayer EXCEPT !.receipt = r] ELSE relayer
    IN  /\ Others
        /\ sent' = sent \ {x}
        /\ \/ bridgeIn(m) /\ relayer' = Receipt("ok")
           \/ ~creditable(m) /\ relayer' = Receipt("reverted") /\ UNCHANGED bankVars
        /\ UNCHANGED <<planner, attested, reserve_ops, burner, disturbances>>

include == \E x \in sent : (x \in OutTx /\ includeOut(x)) \/ (x \in InTx /\ includeIn(x))

(* A transaction leaves the mempool without being included. *)
drop(x) ==
    /\ Others /\ Disturbed("timeout")
    /\ sent' = sent \ {x}
    /\ UNCHANGED <<bankVars, planner, relayer, attested, reserve_ops, burner>>

(* Circle attests a burn. *)
attestBurn(b) ==
    /\ Others
    /\ b \notin attested
    /\ attested' = attested \cup {b}
    /\ UNCHANGED <<bankVars, planner, relayer, sent, reserve_ops, burner, disturbances>>

(* A user takes USDC out of a reserve. *)
userWithdraws(c, u, amount) ==
    /\ Others
    /\ withdraw(c, u, amount) /\ Disturbed("user")
    /\ UNCHANGED <<planner, relayer, attested, sent, reserve_ops, burner>>

(* The stuck timeout passes over a row that no loop is working on: both are
   done with it, or give up, well before. *)
InHand(i) == \/ planner.pc \in {"submit", "wait", "fail"} /\ i = row
             \/ relayer.pc \in {"submit", "wait", "fail"} /\ i = relayed

grow(i) ==
    /\ Others
    /\ reserve_ops[i].status # "none" /\ ~InHand(i)
    /\ \/ ~reserve_ops[i].stuck /\ reserve_ops' = [reserve_ops EXCEPT ![i].stuck = TRUE]
       \/ /\ reserve_ops[i].stuck /\ ~reserve_ops[i].aged
          /\ reserve_ops' = [reserve_ops EXCEPT ![i].aged = TRUE]
    /\ UNCHANGED <<bankVars, planner, relayer, attested, sent, burner, disturbances>>

(* poll_route_receiver_loop sees ChainDecommissionFinalized(c). *)
learnDecommission(c) ==
    /\ Disturbed("route")
    /\ servable' = servable \ {c}
    /\ UNCHANGED <<bankVars, planner, relayer, watcherSeen, watching, attested, sent,
                   reserve_ops, burner>>

restart ==
    /\ Disturbed("restart")
    /\ servable' = Chains /\ planner' = PlannerIdle /\ relayer' = RelayerIdle
    /\ watching' = {}
    /\ UNCHANGED <<bankVars, watcherSeen, attested, sent, reserve_ops, burner>>

PlannerStep ==
    \/ startCycle
    \/ \E c \in Chains : readDepth(c)
    \/ checkOp \/ submitOut \/ awaitOut \/ recordOutFailure

RelayerLoop == startRound \/ attest \/ submitIn \/ awaitIn \/ recordInFailure

WatcherStep == (\E c \in Chains : scanCompleted(c)) \/ (\E i \in DOMAIN reserve_ops : expire(i))

ReservePathNext ==
    \/ PlannerStep
    \/ RelayerLoop
    \/ WatcherStep
    \/ include
    \/ \E x \in sent : drop(x)
    \/ \E b \in DOMAIN bridges : attestBurn(b)
    \/ \E c \in Chains, u \in Users, amount \in Amounts : userWithdraws(c, u, amount)
    \/ \E i \in DOMAIN reserve_ops : grow(i)
    \/ \E c \in Decommissionable : learnDecommission(c)
    \/ restart

ReservePathSpec == ReservePathInit /\ [][ReservePathNext]_allVars

-----------------------------------------------------------------------------
Credited(b) == bridges[b] \in processedReserveMessages[bridges[b].dst]

(* A row carries the message of its own burn, and says "relayed" or "completed"
   only if that message was credited: whatever the order in which the three
   loops write, success is never claimed for USDC that has not arrived. *)
SuccessMeansCredited ==
    \A i \in DOMAIN reserve_ops :
        LET r == reserve_ops[i] IN
        /\ r.msg # 0 => /\ burner[r.msg] = i
                        /\ bridges[r.msg].src = r.src /\ bridges[r.msg].dst = r.dst
                        /\ bridges[r.msg].amount = r.amount
        /\ r.status \in {"relayed", "completed"} => r.msg # 0 /\ Credited(r.msg)

(* Late transactions included, the USDC of a row is burned once, and once more
   only for every receipt or answer that the planner missed, up to MAX_RETRIES;
   always for the pair and the amount of the row.  While the database answers,
   no burn is without a row. *)
BurnsMatchRows ==
    LET missed == {d \in DOMAIN disturbances : disturbances[d] \in {"rpc", "timeout"}} IN
    \A b \in DOMAIN burner :
        LET r == reserve_ops[burner[b]]
            burns == {k \in DOMAIN burner : burner[k] = burner[b]}
        IN  /\ bridges[b].src = r.src /\ bridges[b].dst = r.dst /\ bridges[b].amount = r.amount
            /\ Cardinality(burns) <= least(1 + Cardinality(missed), MAX_RETRIES)
            /\ DatabaseAnswers => r.status # "none"

(* A completed row is reopened only by the relayer that is at work on it, which
   writes "relayed" or "failed" after a wait and may find the row completed by
   then; the planner, the stuck timeout, restarts and late transactions leave
   every other completed row as it is. *)
OnlyRelayerReopens ==
    [][\A i \in DOMAIN reserve_ops :
          reserve_ops[i].status = "completed" /\ reserve_ops'[i].status # "completed"
              => relayer.pc \in {"wait", "fail"} /\ i = relayed]_allVars

(* The service, the chains and Circle make progress. *)
Fairness ==
    /\ WF_allVars(PlannerStep)
    /\ WF_allVars(RelayerLoop)
    /\ WF_allVars(WatcherStep)
    /\ WF_allVars(include)
    /\ WF_allVars(\E b \in DOMAIN bridges : attestBurn(b))

TimePasses == WF_allVars(\E i \in DOMAIN reserve_ops : grow(i))

(* No row stays open: whatever is lost between the loops, the stuck timeout
   hands the operation to an operator. *)
RowsSettle ==
    TimePasses =>
        \A i \in 1..MaxOps :
            (i <= row /\ reserve_ops[i].status \in Live)
                ~> (i <= row /\ reserve_ops[i].status \in {"completed", "failed"})

(* Without a disturbance burned USDC arrives, unless the stuck timeout is over
   before Circle and the relayer are done. *)
BurnsArrive ==
    \A b \in 1..MaxBridges :
        (b <= Len(bridges)) ~>
            \/ disturbances # <<>>
            \/ b <= Len(bridges) /\ (Credited(b) \/ reserve_ops[burner[b]].stuck
                                        \/ reserve_ops[burner[b]].status = "failed")
=============================================================================
