---------------------------- MODULE Decommission ----------------------------
(***************************************************************************)
(* The drain of a chain that is being decommissioned, on top of the Banks: *)
(* StartDecommissionDrain (server.rs), the task it spawns                  *)
(* (decommission.rs, decommission_runtime.rs) and the rows of              *)
(* treasury.decommission_ops.                                              *)
(*                                                                         *)
(* A step ends where the task awaits a chain, the database or the          *)
(* user-service and the difference can be seen.  A restart forgets the     *)
(* task and the nonce cache; rows, home chains and mempool survive.        *)
(* Account nonces are modelled: the drain never refreshes the one it has   *)
(* cached.  The account index is an input (see Accounts); what happens at  *)
(* the target chain is left to Bank.                                       *)
(***************************************************************************)
EXTENDS Bank, FiniteSets

CONSTANTS
    Requests,         \* pairs <<source, target>> that operators ask to drain
    Registered,       \* holders that the user-service knows
    Finalizable,      \* chains RouteReceiver may finalize
    Disturbances,     \* which of the disturbances below happen
    MaxDisturbances   \* bound: number of them

Kinds == {"rpc", "timeout", "db", "restart", "key", "user", "route"}

ASSUME DecommissionAssumption ==
    /\ Requests \subseteq Chains \X Chains /\ Registered \subseteq Users
    /\ Finalizable \subseteq Chains
    /\ Disturbances \subseteq Kinds /\ MaxDisturbances \in Nat

VARIABLES
    chainStatus,      \* RouteReceiver's status of each chain
    active_chains,    \* what HotPath::is_chain_active answers
    drain_runtime,    \* running_drain_id and resumable_drain_id
    task,             \* the locals of the spawned task
    decommission_ops, \* rows, in the order of started_at
    homeChain,        \* home chain that the user-service keeps for each holder
    nonces,           \* next nonce of the Treasury's account on each chain
    nonce_cache,      \* RuntimeBankDrain.nonce_cache; 0: no entry
    drainMempool,     \* transactions of the drain that wait for inclusion
    burner,           \* operation behind each entry of rebalances
    disturbances      \* the disturbances so far

drainVars == <<chainStatus, active_chains, drain_runtime, task, decommission_ops, homeChain,
               nonces, nonce_cache, drainMempool, burner, disturbances>>
allVars == <<bankVars, drainVars>>

None == <<>>
Incomplete == {"pending", "submitted"}   \* nothing ever writes "paused"

(* A call that the task makes: rebalance() for a holder or for the rest of the
   pool, bridgeReserve() for the reserve. *)
Item == [kind : {"holder", "pool", "reserve"}, who : Users \cup {0}, amount : Nat \ {0}]
Row == [pair : Requests, who : Users, amount : Nat \ {0},
        status : Incomplete \cup {"completed", "failed"}]
Tx == [pair : Requests, item : Item, nonce : Nat \ {0}]

Idle == [pc |-> "idle", pair |-> None, plan |-> <<>>, at |-> 1, done |-> {},
         nonce |-> 0, receipt |-> "none", complete |-> FALSE]

DecommissionTypeOK ==
    /\ chainStatus \in [Chains -> {"active", "draining", "decommissioned"}]
    /\ active_chains \subseteq Chains
    /\ drain_runtime.running \in Requests \cup {None}
    /\ drain_runtime.resumable \in Requests \cup {None}
    /\ task.pc \in {"idle", "gate", "next", "send", "wait", "home", "complete", "end"}
    /\ task.pair = drain_runtime.running
    /\ task.plan \in Seq(Item) /\ task.at \in 1..(Len(task.plan) + 1) /\ task.done \subseteq Users
    /\ decommission_ops \in Seq(Row)
    /\ homeChain \in [Users -> Chains]
    /\ nonces \in [Chains -> Nat \ {0}] /\ nonce_cache \in [Chains -> Nat]
    /\ drainMempool \subseteq Tx
    /\ Len(burner) = Len(rebalances)
    /\ disturbances \in Seq(Disturbances) /\ Len(disturbances) <= MaxDisturbances

ServiceInit ==
    /\ active_chains = Chains
    /\ drain_runtime = [running |-> None, resumable |-> None] /\ task = Idle
    /\ decommission_ops = <<>>
    /\ nonces = [c \in Chains |-> 1] /\ nonce_cache = [c \in Chains |-> 0]
    /\ drainMempool = {} /\ burner = <<>> /\ disturbances = <<>>

DecommissionInit ==
    /\ Operating /\ ServiceInit
    /\ chainStatus = [c \in Chains |-> "active"]
    /\ homeChain \in [Users -> Chains]

Disturbed(kind) ==
    /\ kind \in Disturbances /\ Len(disturbances) < MaxDisturbances
    /\ disturbances' = Append(disturbances, kind)
Undisturbed == UNCHANGED disturbances
DatabaseAnswers == \A i \in DOMAIN disturbances : disturbances[i] # "db"

-----------------------------------------------------------------------------
(* treasury.decommission_ops.  op_id is the pair and the holder. *)

rowOf(pair, who) ==
    {i \in DOMAIN decommission_ops :
        decommission_ops[i].pair = pair /\ decommission_ops[i].who = who}

(* ON CONFLICT DO NOTHING: the row of an earlier attempt stays as it is. *)
insert_holder_op(pair, item) ==
    decommission_ops' =
        IF rowOf(pair, item.who) # {} THEN decommission_ops
        ELSE Append(decommission_ops, [pair |-> pair, who |-> item.who,
                                       amount |-> item.amount, status |-> "pending"])

(* mark_holder_submitted, mark_holder_completed and mark_op_failed: an UPDATE
   by op_id, whatever the status was.  A database error is only logged. *)
marked(pair, who, status) ==
    [i \in DOMAIN decommission_ops |->
        IF i \in rowOf(pair, who) THEN [decommission_ops[i] EXCEPT !.status = status]
        ELSE decommission_ops[i]]

mark(pair, who, status) ==
    \/ decommission_ops' = marked(pair, who, status) /\ Undisturbed
    \/ rowOf(pair, who) # {} /\ UNCHANGED decommission_ops /\ Disturbed("db")

completed_holders_AnyStatus(pair) ==
    {decommission_ops[i].who : i \in {k \in DOMAIN decommission_ops :
                                        decommission_ops[k].pair = pair}}

completed_holders_None(pair) == {}

completed_holders(pair) ==
    {decommission_ops[i].who : i \in {k \in DOMAIN decommission_ops :
        decommission_ops[k].pair = pair /\ decommission_ops[k].status = "completed"}}

incompleteOps == {i \in DOMAIN decommission_ops : decommission_ops[i].status \in Incomplete}
has_incomplete_ops == incompleteOps # {}

latest_incomplete_pair ==
    IF incompleteOps = {} THEN None
    ELSE decommission_ops[CHOOSE i \in incompleteOps : \A k \in incompleteOps : k <= i].pair

-----------------------------------------------------------------------------
(* StartDecommissionDrain. *)

is_source_draining(c) == chainStatus[c] = "draining"
is_chain_active(c) == c \in active_chains

(* build_drain_plan: the holders with a balance, in the order of the index,
   then what the pool and the reserve hold.  An answer that is missing from
   seen counts as zero.  The set has one member: the actionable calls, in order. *)
Readable == 1..(NumUsers + 2)

build_drain_plan(c, seen) ==
    LET call(k) == IF k \in Users THEN [kind |-> "holder", who |-> k, amount |-> balanceOf[c][k]]
                   ELSE IF k = NumUsers + 1 THEN [kind |-> "pool", who |-> 0, amount |-> pool[c]]
                   ELSE [kind |-> "reserve", who |-> 0, amount |-> usdc[c]]
        actionable == {k \in seen : call(k).amount > 0}
        ordered == {o \in [1..Cardinality(actionable) -> actionable] :
                       \A i, j \in DOMAIN o : i < j => o[i] < o[j]}
    IN  {[i \in DOMAIN o |-> call(o[i])] : o \in ordered}

(* The checks that precede the lock of drain_runtime only read; the lock is
   held from the plan's first read until both ids are set. *)
admissible_Any(resumable, pair) == TRUE
admissible(resumable, pair) == resumable \in {None, pair}

start_decommission_drain(pair) ==
    /\ is_source_draining(pair[1])
    /\ is_chain_active(pair[2])
    /\ drain_runtime.running = None
    /\ admissible(drain_runtime.resumable, pair)
    /\ \E seen \in SUBSET Readable :
          \E plan \in build_drain_plan(pair[1], seen) :
          /\ plan # <<>>                              \* something is actionable
          /\ task' = [Idle EXCEPT !.pc = "gate", !.pair = pair, !.plan = plan]
          /\ (seen = Readable /\ Undisturbed) \/ (seen # Readable /\ Disturbed("rpc"))
    /\ drain_runtime' = [running |-> pair, resumable |-> pair]
    /\ UNCHANGED <<bankVars, chainStatus, active_chains, decommission_ops, homeChain,
                   nonces, nonce_cache, drainMempool, burner>>

-----------------------------------------------------------------------------
(* run_drain_plan, and the end of the spawned task. *)

Task(pc) ==
    /\ task.pc = pc
    /\ UNCHANGED <<bankVars, chainStatus, active_chains, burner>>
NoCall == UNCHANGED <<nonces, nonce_cache, drainMempool>>

item == task.plan[task.at]
src == task.pair[1]
nextItem_Skips == [task EXCEPT !.pc = "next", !.at = @ + 2, !.receipt = "none"]
nextItem == [task EXCEPT !.pc = "next", !.at = @ + 1, !.receipt = "none"]

(* The target is checked once, at the beginning.  When the database fails, no
   holder seems completed. *)
gate ==
    /\ Task("gate") /\ NoCall
    /\ \/ /\ ~is_chain_active(task.pair[2])
          /\ task' = [task EXCEPT !.pc = "end"]
          /\ Undisturbed
       \/ /\ is_chain_active(task.pair[2])
          /\ \/ /\ task' = [task EXCEPT !.pc = "next", !.done = completed_holders(task.pair)]
                /\ Undisturbed
             \/ task' = [task EXCEPT !.pc = "next"] /\ Disturbed("db")
    /\ UNCHANGED <<drain_runtime, decommission_ops, homeChain>>

(* The next call: a completed holder is skipped, another one gets its row, and
   after the last call operators are told that the drain is complete. *)
next ==
    /\ Task("next") /\ NoCall
    /\ \/ /\ task.at > Len(task.plan)
          /\ task' = [task EXCEPT !.pc = "end", !.complete = TRUE]
          /\ Undisturbed /\ UNCHANGED decommission_ops
       \/ /\ task.at <= Len(task.plan) /\ item.who \in task.done
          /\ task' = nextItem
          /\ Undisturbed /\ UNCHANGED decommission_ops
       \/ /\ task.at <= Len(task.plan) /\ item.who \notin task.done
          /\ task' = [task EXCEPT !.pc = "send"]
          /\ \/ /\ item.kind = "holder" /\ insert_holder_op(task.pair, item)
                /\ Undisturbed
             \/ item.kind # "holder" /\ Undisturbed /\ UNCHANGED decommission_ops
             \/ item.kind = "holder" /\ Disturbed("db") /\ UNCHANGED decommission_ops
    /\ UNCHANGED <<drain_runtime, homeChain>>

(* bridge_holder, drain_pool or drain_reserve returned Err: the holder's row is
   failed, and what the pool and reserve calls return is discarded. *)
callFailed == task' = nextItem /\ mark(task.pair, item.who, "failed")

callDisturbed(kind) ==
    /\ task' = nextItem /\ Disturbed(kind)
    /\ decommission_ops' = marked(task.pair, item.who, "failed")

(* eth_getTransactionCount "pending". *)
pendingNonce(c) ==
    CHOOSE n \in nonces[c]..(nonces[c] + Cardinality(drainMempool)) :
        /\ \A k \in nonces[c]..(n - 1) : \E x \in drainMempool : x.pair[1] = c /\ x.nonce = k
        /\ ~\E x \in drainMempool : x.pair[1] = c /\ x.nonce = n

(* submit_bank_call up to eth_sendRawTransaction.  A node refuses a nonce that
   was used, and a nonce that waits in its mempool unless it is outbid. *)
send ==
    LET n == IF nonce_cache[src] = 0 THEN pendingNonce(src) ELSE nonce_cache[src]
        tx == [pair |-> task.pair, item |-> item, nonce |-> n]
        rivals == {x \in drainMempool : x.pair[1] = src /\ x.nonce = n}
        placed == drainMempool' = (drainMempool \ rivals) \cup {tx}
        waiting == /\ task' = [task EXCEPT !.pc = "wait", !.nonce = n]
                   /\ Undisturbed /\ UNCHANGED decommission_ops
    IN  /\ Task("send")
        /\ \/ /\ nonce_cache' = [nonce_cache EXCEPT ![src] = n]
              /\ \/ n >= nonces[src] /\ tx \notin rivals /\ placed /\ waiting
                 \/ (n < nonces[src] \/ rivals # {}) /\ callFailed /\ UNCHANGED drainMempool
                 \/ /\ callDisturbed("rpc")
                    /\ (n >= nonces[src] /\ rivals = {} /\ placed) \/ UNCHANGED drainMempool
           \/ /\ nonce_cache[src] = 0 /\ callDisturbed("rpc")     \* fetch_nonce failed
              /\ UNCHANGED <<nonce_cache, drainMempool>>
        /\ UNCHANGED <<drain_runtime, homeChain, nonces>>

currentTx == [pair |-> task.pair, item |-> item, nonce |-> task.nonce]

(* No receipt can come any more: the transaction has left the mempool, or an
   earlier nonce is missing. *)
hopeless(x) ==
    \/ x \notin drainMempool
    \/ \E k \in nonces[x.pair[1]]..(x.nonce - 1) :
          ~\E y \in drainMempool : y.pair[1] = x.pair[1] /\ y.nonce = k

(* wait_for_receipt_logs wants status 0x1. *)
succeeded_UnlessReverted(receipt) == receipt # "reverted"
succeeded(receipt) == receipt = "ok"

(* Only success advances the cached nonce. *)
await ==
    /\ Task("wait")
    /\ \/ /\ succeeded(task.receipt)
          /\ nonce_cache' = [nonce_cache EXCEPT ![src] = task.nonce + 1]
          /\ IF item.kind = "holder"
             THEN task' = [task EXCEPT !.pc = "home"] /\ mark(task.pair, item.who, "submitted")
             ELSE task' = nextItem /\ Undisturbed /\ UNCHANGED decommission_ops
       \/ /\ task.receipt = "reverted" \/ (task.receipt = "none" /\ hopeless(currentTx))
          /\ callFailed /\ UNCHANGED nonce_cache
       \/ task.receipt = "none" /\ callDisturbed("timeout") /\ UNCHANGED nonce_cache
    /\ UNCHANGED <<drain_runtime, homeChain, nonces, drainMempool>>

(* set_user_home_chain, with the override of the orchestrator. *)
setHome ==
    /\ Task("home") /\ NoCall
    /\ \/ /\ item.who \in Registered
          /\ homeChain' = [homeChain EXCEPT ![item.who] = task.pair[2]]
          /\ task' = [task EXCEPT !.pc = "complete"]
          /\ Undisturbed /\ UNCHANGED decommission_ops
       \/ /\ item.who \notin Registered
          /\ callFailed /\ UNCHANGED homeChain
       \/ callDisturbed("rpc") /\ UNCHANGED homeChain
    /\ UNCHANGED drain_runtime

complete ==
    /\ Task("complete") /\ NoCall
    /\ mark(task.pair, item.who, "completed")
    /\ task' = nextItem
    /\ UNCHANGED <<drain_runtime, homeChain>>

(* The drain stays resumable while any row, of whatever pair, is incomplete; a
   database error reads as none. *)
end ==
    /\ Task("end") /\ NoCall
    /\ \/ /\ drain_runtime' = [running |-> None,
                               resumable |-> IF has_incomplete_ops THEN task.pair ELSE None]
          /\ Undisturbed
       \/ /\ drain_runtime' = [running |-> None, resumable |-> None]
          /\ Disturbed("db")
    /\ task' = Idle
    /\ UNCHANGED <<decommission_ops, homeChain>>

-----------------------------------------------------------------------------
(* The chains, RouteReceiver, and the other users of the Treasury's account. *)

NotTheTask == UNCHANGED <<drain_runtime, decommission_ops, homeChain, nonce_cache>>

(* The transaction with the next nonce is included; a reverted one uses it up
   as well. *)
include(x) ==
    LET c == x.pair[1]
        d == x.pair[2]
        a == x.item.amount
        Receipt(r) == IF task.pc = "wait" /\ x = currentTx THEN [task EXCEPT !.receipt = r]
                      ELSE task
    IN  /\ NotTheTask
        /\ x.nonce = nonces[c]
        /\ nonces' = [nonces EXCEPT ![c] = @ + 1]
        /\ drainMempool' = drainMempool \ {x}
        /\ \/ /\ x.item.kind # "reserve" /\ rebalance(c, d, a)
              /\ burner' = Append(burner, [pair |-> x.pair, who |-> x.item.who])
              /\ task' = Receipt("ok")
           \/ /\ x.item.kind = "reserve" /\ bridgeReserve(c, d, a)
              /\ task' = Receipt("ok") /\ UNCHANGED burner
           \/ /\ IF x.item.kind = "reserve" THEN ~reserveBridgeable(c, d, a)
                 ELSE ~rebalanceable(c, d, a)
              /\ task' = Receipt("reverted") /\ UNCHANGED <<bankVars, burner>>
        /\ UNCHANGED <<chainStatus, active_chains, disturbances>>

(* A transaction leaves the mempool without being included. *)
drop(x) ==
    /\ NotTheTask /\ Disturbed("timeout")
    /\ drainMempool' = drainMempool \ {x}
    /\ UNCHANGED <<bankVars, chainStatus, active_chains, task, nonces, burner>>

(* The hot path or the cold path, which sign with the same key, used a nonce. *)
otherTx(c) ==
    /\ NotTheTask /\ Disturbed("key")
    /\ drainMempool' = {x \in drainMempool : x.pair[1] # c \/ x.nonce # nonces[c]}
    /\ nonces' = [nonces EXCEPT ![c] = @ + 1]
    /\ UNCHANGED <<bankVars, chainStatus, active_chains, task, burner>>

(* A holder withdraws: freezeForDecommission() leaves that open. *)
userWithdraws(c, u, amount) ==
    /\ NotTheTask /\ Disturbed("user")
    /\ withdraw(c, u, amount)
    /\ UNCHANGED <<chainStatus, active_chains, task, nonces, drainMempool, burner>>

markDecommissioning(c) ==
    /\ NotTheTask
    /\ chainStatus[c] = "active"
    /\ chainStatus' = [chainStatus EXCEPT ![c] = "draining"]
    /\ UNCHANGED <<bankVars, active_chains, task, nonces, drainMempool, burner, disturbances>>

finalizeDecommission(c) ==
    /\ NotTheTask /\ Disturbed("route")
    /\ chainStatus[c] = "draining"
    /\ chainStatus' = [chainStatus EXCEPT ![c] = "decommissioned"]
    /\ UNCHANGED <<bankVars, active_chains, task, nonces, drainMempool, burner>>

(* The hot path learns that a chain is no longer active. *)
deactivate(c) ==
    /\ NotTheTask /\ Disturbed("route")
    /\ active_chains' = active_chains \ {c}
    /\ UNCHANGED <<bankVars, chainStatus, task, nonces, drainMempool, burner>>

restart ==
    /\ Disturbed("restart")
    /\ drain_runtime' = [running |-> None, resumable |-> latest_incomplete_pair]
    /\ task' = Idle /\ nonce_cache' = [c \in Chains |-> 0] /\ active_chains' = Chains
    /\ UNCHANGED <<bankVars, chainStatus, decommission_ops, homeChain, nonces, drainMempool,
                   burner>>

TaskStep == gate \/ next \/ send \/ await \/ setHome \/ complete \/ end

DecommissionNext ==
    \/ \E pair \in Requests : start_decommission_drain(pair)
    \/ TaskStep
    \/ \E x \in drainMempool : include(x) \/ drop(x)
    \/ \E pair \in Requests : otherTx(pair[1])
    \/ \E pair \in Requests, u \in Users, amount \in Amounts : userWithdraws(pair[1], u, amount)
    \/ \E pair \in Requests : markDecommissioning(pair[1])
    \/ \E c \in Finalizable : finalizeDecommission(c)
    \/ \E pair \in Requests : deactivate(pair[2])
    \/ restart

DecommissionSpec == DecommissionInit /\ [][DecommissionNext]_allVars

-----------------------------------------------------------------------------
(* A row says "completed" only if a rebalance() for its holder was burned
   towards its target and the holder's home is a chain they were bridged to,
   whatever was retried, resumed, timed out or included late. *)
CompletedMeansMoved ==
    \A i \in DOMAIN decommission_ops :
        LET r == decommission_ops[i] IN
        r.status = "completed" =>
            /\ \E b \in DOMAIN burner : burner[b] = [pair |-> r.pair, who |-> r.who]
                                       /\ rebalances[b].dst = r.pair[2]
            /\ \E b \in DOMAIN burner : burner[b].who = r.who /\ burner[b].pair[2] = homeChain[r.who]

(* While the database answers, a holder who is completed is never bridged
   again: no resumed drain sends another transaction for them. *)
CompletedStayDone ==
    [][\A i \in DOMAIN decommission_ops :
          (decommission_ops[i].status = "completed" /\ DatabaseAnswers) =>
              \A x \in drainMempool' \ drainMempool :
                  ~(x.pair = decommission_ops[i].pair /\ x.item.who = decommission_ops[i].who)
      ]_allVars

(* While the database answers, interrupted work is never orphaned: all
   incomplete rows belong to one drain, and that one is running or is the only
   one that can be started. *)
IncompleteIsResumable ==
    DatabaseAnswers =>
        \A i \in incompleteOps :
            decommission_ops[i].pair \in {drain_runtime.running, drain_runtime.resumable}

(* The task and the chains make progress, and the operator keeps asking. *)
Fairness ==
    /\ WF_allVars(TaskStep)
    /\ WF_allVars(\E x \in drainMempool : include(x))
    /\ \A pair \in Requests : SF_allVars(start_decommission_drain(pair))

(* The row of an interrupted bridge is settled by resuming the drain, unless
   the holder has nothing left, the drain may not start any more, or the
   database failed. *)
InterruptedAreSettled ==
    \A n \in 1..(Cardinality(Requests) * NumUsers) :
        (n \in incompleteOps) ~>
            \/ n \in DOMAIN decommission_ops \ incompleteOps
            \/ ~DatabaseAnswers
            \/ /\ n \in DOMAIN decommission_ops
               /\ LET r == decommission_ops[n] IN
                  \/ balanceOf[r.pair[1]][r.who] = 0
                  \/ ~is_source_draining(r.pair[1]) \/ ~is_chain_active(r.pair[2])

(* When operators are told "drain complete: governance finalization ready",
   every holder is completed and nothing has interfered, the pool and the
   reserve of the source have been drained (the steps 3 and 4 of the drain
   procedure). *)
CompleteMeansDrained ==
    /\ task.pc = "end" /\ task.complete /\ disturbances = <<>>
    /\ \A i \in DOMAIN decommission_ops : decommission_ops[i].status = "completed"
    => pool[src] = 0 /\ usdc[src] = 0
=============================================================================
