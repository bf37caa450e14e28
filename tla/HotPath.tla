------------------------------ MODULE HotPath -------------------------------
(***************************************************************************)
(* The hot path of the Treasury service (hot_path.rs) on top of the Banks: *)
(* the poller that turns HotPathInitiated logs into relay tasks, the tasks *)
(* that check, record and submit releases concurrently, the transactions   *)
(* they leave in the destination's mempool, and the relay_logs table.      *)
(*                                                                         *)
(* Each await of the code ends a step.  A restart of the service forgets   *)
(* tasks, cursors and the active set; the table and the mempool survive.   *)
(* Account nonces are abstracted: a submitted transaction may be included  *)
(* late, in any order, or be dropped (replaced), and a submission may be   *)
(* refused.                                                                *)
(***************************************************************************)
EXTENDS Bank

CONSTANTS
    MAX_RELAY_RETRIES, \* attempts per relay task
    Slots,             \* bound: relay tasks of one log at the same time
    Finalizable,       \* chains whose decommission RouteReceiver may finalize
    Batching,          \* whether one transaction may emit several logs
    Faults,            \* which of "rpc", "db", "restart" happen
    MaxFaults          \* bound: number of faults

ASSUME HotPathAssumption ==
    /\ MAX_RELAY_RETRIES \in Nat \ {0} /\ Slots \in Nat \ {0} /\ MaxFaults \in Nat
    /\ Finalizable \subseteq Chains /\ Batching \in BOOLEAN
    /\ Faults \subseteq {"rpc", "db", "restart"}

VARIABLES
    txHash,       \* transaction of each entry of transfers: source_event_hash
    inTx,         \* a user transaction that may emit more logs is open
    cursor,       \* last_block of the poller, per chain, as a log position
    active,       \* active_chains, without decommissioned_chains
    finalized,    \* chains RouteReceiver finalized as decommissioned
    unscanned,    \* those of them whose logs are still ahead of the poller
    task,         \* the relay_event tasks of each log
    mempool,      \* releases submitted and not yet included; slot 0 when
                  \* the task that submitted one no longer waits for it
    relayLogs,    \* status of each row of treasury.relay_logs
    faults        \* number of faults so far

hotPathVars == <<txHash, inTx, cursor, active, finalized, unscanned, task, mempool,
                 relayLogs, faults>>

Logs == 1..MaxTransfers
Unset == MaxTransfers + 1     \* cursor before the first poll of a chain
Idle == [pc |-> "idle", decision |-> "approved", attempt |-> 1, receipt |-> "none"]
RelayDecision == {"approved", "rejected_inactive_chain", "rejected_insufficient_depth"}
RelayStatus == {"none", "pending", "completed", "failed"} \cup (RelayDecision \ {"approved"})
Task == [pc : {"idle", "guard", "active", "depth", "insert", "submit", "wait", "complete", "fail"},
         decision : RelayDecision, attempt : 1..MAX_RELAY_RETRIES,
         receipt : {"none", "ok", "reverted"}]
Tx == [log : Logs, slot : 0..Slots]

HotPathTypeOK ==
    /\ txHash \in Seq(Logs) /\ Len(txHash) = Len(transfers)
    /\ inTx \in BOOLEAN
    /\ cursor \in [Chains -> 0..Unset]
    /\ active \subseteq Chains /\ finalized \subseteq Chains /\ unscanned \subseteq finalized
    /\ task \in [Logs -> [1..Slots -> Task]]
    /\ mempool \subseteq Tx
    /\ relayLogs \in [Logs -> RelayStatus]
    /\ faults \in 0..MaxFaults

ServiceInit ==
    /\ txHash = <<>> /\ inTx = FALSE
    /\ cursor = [c \in Chains |-> Unset]
    /\ active = Chains /\ finalized = {} /\ unscanned = {}
    /\ task = [i \in Logs |-> [s \in 1..Slots |-> Idle]]
    /\ mempool = {}
    /\ relayLogs = [k \in Logs |-> "none"]
    /\ faults = 0

HotPathInit == Init /\ ServiceInit

(* One of the faults that the service meets. *)
Fault(kind) == kind \in Faults /\ faults < MaxFaults /\ faults' = faults + 1
NoFault == UNCHANGED faults

(* parse_hot_path_event: the chain and the key of log i. *)
destChain_Source(i) == transfers[i].src
destChain(i) == chainOf(transfers[i].dst)

-----------------------------------------------------------------------------
(* The chains. *)

(* A call of anyone but the relayer.  A user transaction that emitted a log may
   go on and emit another one on the same chain before anything else happens. *)
LedgerStep ==
    /\ UserStep \/ TreasuryStep \/ DeliveryStep \/ GovernanceStep
    /\ inTx => /\ Len(transfers') = Len(transfers) + 1
               /\ transfers'[Len(transfers')].src = transfers[Len(transfers)].src
    /\ IF Len(transfers') = Len(transfers)
       THEN UNCHANGED <<txHash, inTx>>
       ELSE /\ txHash' = Append(txHash, IF inTx THEN txHash[Len(txHash)] ELSE Len(transfers'))
            /\ inTx' \in {FALSE, Batching}
    /\ UNCHANGED <<cursor, active, finalized, unscanned, task, mempool, relayLogs, faults>>

EndTx ==
    /\ inTx /\ inTx' = FALSE
    /\ UNCHANGED <<bankVars, txHash, cursor, active, finalized, unscanned, task, mempool,
                   relayLogs, faults>>

(* A transaction of the relayer is included, possibly long after its task has
   stopped waiting for it, and succeeds or reverts. *)
includeRelease(x) ==
    LET t == transfers[x.log]
        d == destChain(x.log)
        Receipt(r) == IF x.slot = 0 THEN task ELSE [task EXCEPT ![x.log][x.slot].receipt = r]
    IN  /\ ~inTx
        /\ mempool' = mempool \ {x}
        /\ \/ releaseHotPath(d, t) /\ task' = Receipt("ok")
           \/ ~releasable(d, t) /\ UNCHANGED bankVars /\ task' = Receipt("reverted")
        /\ UNCHANGED <<txHash, inTx, cursor, active, finalized, unscanned, relayLogs, faults>>

(* A transaction leaves the mempool without being included. *)
dropRelease(x) ==
    /\ ~inTx
    /\ mempool' = mempool \ {x}
    /\ UNCHANGED <<bankVars, txHash, inTx, cursor, active, finalized, unscanned, task,
                   relayLogs, faults>>

(* RouteReceiver emits ChainDecommissionFinalized(d). *)
finalizeDecommission(d) ==
    /\ ~inTx /\ d \notin finalized
    /\ finalized' = finalized \cup {d}
    /\ unscanned' = unscanned \cup {d}
    /\ UNCHANGED <<bankVars, txHash, inTx, cursor, active, task, mempool, relayLogs, faults>>

-----------------------------------------------------------------------------
(* The two polling loops. *)

ServiceStep == ~inTx /\ UNCHANGED <<bankVars, txHash, inTx, finalized>>

(* Positions of the logs of chain c after from, up to head. *)
logsOf_SkipFirst(c, from, head) == {i \in (from + 2)..head : transfers[i].src = c}
logsOf(c, from, head) == {i \in (from + 1)..head : transfers[i].src = c}

(* One poll of chain c that sees the logs up to position head and fetches those
   after position from; every fetched log becomes a task of its own. *)
Scan(c, from, head) ==
    LET fetched == logsOf(c, from, head)
        FreeSlot(i) == CHOOSE s \in 1..Slots : task[i][s].pc = "idle"
    IN  /\ \A i \in fetched : \E s \in 1..Slots : task[i][s].pc = "idle"
        /\ task' = [i \in Logs |-> IF i \in fetched
                        THEN [task[i] EXCEPT ![FreeSlot(i)] = [Idle EXCEPT !.pc = "guard"]]
                        ELSE task[i]]
        /\ cursor' = [cursor EXCEPT ![c] = head]
        /\ UNCHANGED <<active, unscanned, mempool, relayLogs>>

(* The first poll after a start looks at the current block only; the next ones
   go on where the last one stopped.  The RPC may answer from a node that is
   behind, report no logs (the cursor advances all the same), or have been out
   for longer than MAX_BLOCK_RANGE, so that the clamp skips logs. *)
poll_events(c) ==
    LET head == Len(transfers)
        WholeTx(from) == from \in 1..(head - 1) => txHash[from] # txHash[from + 1]
    IN  /\ ServiceStep
        /\ \/ cursor[c] = Unset /\ NoFault
              /\ \E from \in 0..head : WholeTx(from) /\ Scan(c, from, head)
           \/ cursor[c] < head /\ NoFault /\ Scan(c, cursor[c], head)
           \/ cursor[c] # Unset /\ Fault("rpc")
              /\ \/ \E from \in cursor[c]..head : WholeTx(from) /\ Scan(c, from, head)
                 \/ \E old \in 0..(cursor[c] - 1) : WholeTx(old) /\ Scan(c, old, old)

(* poll_route_receiver_loop: decommissions leave the active set.  The loop also
   asks for ActivationPublished, with a signature that no log carries. *)
poll_route_receiver ==
    /\ ServiceStep
    /\ unscanned # {}
    /\ unscanned' = {}
    /\ \/ NoFault /\ active' = active \ unscanned
       \/ Fault("rpc") /\ UNCHANGED active
    /\ UNCHANGED <<cursor, task, mempool, relayLogs>>

-----------------------------------------------------------------------------
(* relay_event, for log i in slot s. *)

Goto(i, s, next) == task' = [task EXCEPT ![i][s] = next]
At(i, s, pc) == ServiceStep /\ task[i][s].pc = pc /\ UNCHANGED <<cursor, active, unscanned>>

(* Step 1, relay_already_recorded: a database error reads as "not recorded". *)
checkRecorded(i, s) ==
    /\ At(i, s, "guard")
    /\ \/ /\ NoFault
          /\ Goto(i, s, IF relayLogs[txHash[i]] # "none" THEN Idle
                        ELSE [Idle EXCEPT !.pc = "active"])
       \/ Fault("db") /\ Goto(i, s, [Idle EXCEPT !.pc = "active"])
    /\ UNCHANGED <<mempool, relayLogs>>

(* Steps 2 and 3: the active set, and the configuration of the destination. *)
checkActive(i, s) ==
    /\ At(i, s, "active")
    /\ NoFault
    /\ Goto(i, s, CASE destChain(i) \notin Chains -> Idle
                    [] destChain(i) \in Chains \cap active -> [Idle EXCEPT !.pc = "depth"]
                    [] OTHER -> [Idle EXCEPT !.pc = "insert", !.decision = "rejected_inactive_chain"])
    /\ UNCHANGED <<mempool, relayLogs>>

(* Steps 4 and 5: pool depth and evaluate_relay_eligibility. *)
evaluate_relay_eligibility(i) ==
    IF pool[destChain(i)] >= transfers[i].amount THEN "approved" ELSE "rejected_insufficient_depth"

fetchDepth(i, s) ==
    /\ At(i, s, "depth")
    /\ \/ NoFault /\ Goto(i, s, [Idle EXCEPT !.pc = "insert", !.decision = evaluate_relay_eligibility(i)])
       \/ Fault("rpc") /\ Goto(i, s, Idle)
    /\ UNCHANGED <<mempool, relayLogs>>

(* insert_relay_log: ON CONFLICT DO NOTHING. *)
inserted_NotPending(row, status) == IF row = "none" /\ status # "pending" THEN status ELSE row
inserted(row, status) == IF row = "none" THEN status ELSE row

insert_relay_log(i, s) ==
    LET d == task[i][s].decision
        status == IF d = "approved" THEN "pending" ELSE d
    IN  /\ At(i, s, "insert")
        /\ Goto(i, s, IF d = "approved" THEN [Idle EXCEPT !.pc = "submit"] ELSE Idle)
        /\ \/ NoFault /\ relayLogs' = [relayLogs EXCEPT ![txHash[i]] = inserted(@, status)]
           \/ Fault("db") /\ UNCHANGED relayLogs
        /\ UNCHANGED mempool

(* The next attempt of submit_release_with_retry, or its end. *)
retry_Unbounded(t) == [t EXCEPT !.pc = "submit", !.attempt = @ + 1, !.receipt = "none"]
retry(t) == IF t.attempt < MAX_RELAY_RETRIES
            THEN [t EXCEPT !.pc = "submit", !.attempt = @ + 1, !.receipt = "none"]
            ELSE [t EXCEPT !.pc = "fail", !.receipt = "none"]

(* submit_release_once up to eth_sendRawTransaction: sent, refused (a nonce
   another task has used, no gas price), or sent with the answer lost. *)
sendRelease(i, s) ==
    /\ At(i, s, "submit")
    /\ \/ NoFault /\ mempool' = mempool \cup {[log |-> i, slot |-> s]}
          /\ Goto(i, s, [task[i][s] EXCEPT !.pc = "wait"])
       \/ NoFault /\ UNCHANGED mempool /\ Goto(i, s, retry(task[i][s]))
       \/ Fault("rpc") /\ mempool' = mempool \cup {[log |-> i, slot |-> 0]}
          /\ Goto(i, s, retry(task[i][s]))
    /\ UNCHANGED relayLogs

(* Transactions that some tasks stop waiting for stay in the mempool. *)
abandoned(xs) == (mempool \ xs) \cup {[x EXCEPT !.slot = 0] : x \in mempool \cap xs}

wait_for_receipt_AnyStatus(i, s) ==
    /\ At(i, s, "wait")
    /\ NoFault
    /\ \/ task[i][s].receipt # "none" /\ UNCHANGED mempool
          /\ Goto(i, s, [task[i][s] EXCEPT !.pc = "complete"])
       \/ mempool' = abandoned({[log |-> i, slot |-> s]}) /\ Goto(i, s, retry(task[i][s]))
    /\ UNCHANGED relayLogs

(* wait_for_receipt: a receipt, or MAX_TX_WAIT passes, or the RPC fails. *)
wait_for_receipt(i, s) ==
    /\ At(i, s, "wait")
    /\ NoFault
    /\ \/ task[i][s].receipt = "ok" /\ UNCHANGED mempool
          /\ Goto(i, s, [task[i][s] EXCEPT !.pc = "complete"])
       \/ mempool' = abandoned({[log |-> i, slot |-> s]}) /\ Goto(i, s, retry(task[i][s]))
    /\ UNCHANGED relayLogs

(* update_relay_log, update_relay_log_failed: an UPDATE of a row, if there. *)
updated_AlwaysCompleted(row, status) == IF row = "none" THEN row ELSE "completed"
updated(row, status) == IF row = "none" THEN row ELSE status

update_relay_log(i, s) ==
    /\ \/ At(i, s, "complete") /\ NoFault
          /\ relayLogs' = [relayLogs EXCEPT ![txHash[i]] = updated(@, "completed")]
       \/ At(i, s, "fail") /\ NoFault
          /\ relayLogs' = [relayLogs EXCEPT ![txHash[i]] = updated(@, "failed")]
       \/ (At(i, s, "complete") \/ At(i, s, "fail")) /\ Fault("db") /\ UNCHANGED relayLogs
    /\ Goto(i, s, Idle)
    /\ UNCHANGED mempool

TaskStep(i, s) ==
    \/ checkRecorded(i, s) \/ checkActive(i, s) \/ fetchDepth(i, s) \/ insert_relay_log(i, s)
    \/ sendRelease(i, s) \/ wait_for_receipt(i, s) \/ update_relay_log(i, s)

(* HotPath::new after a crash: memory is lost, and so are the decommissions
   that are not in the block the first poll looks at. *)
restart ==
    /\ ServiceStep
    /\ Fault("restart")
    /\ task' = [i \in Logs |-> [s \in 1..Slots |-> Idle]]
    /\ cursor' = [c \in Chains |-> Unset]
    /\ active' = Chains
    /\ unscanned' \in SUBSET unscanned
    /\ mempool' = abandoned(mempool)
    /\ UNCHANGED relayLogs

-----------------------------------------------------------------------------
ChainStep ==
    \/ LedgerStep
    \/ EndTx
    \/ \E x \in mempool : includeRelease(x) \/ dropRelease(x)
    \/ \E d \in Finalizable : finalizeDecommission(d)

TreasuryService ==
    \/ \E c \in Chains : poll_events(c)
    \/ poll_route_receiver
    \/ \E i \in Logs, s \in 1..Slots : TaskStep(i, s)
    \/ restart

HotPathNext == ChainStep \/ TreasuryService

allVars == <<bankVars, hotPathVars>>

HotPathSpec == HotPathInit /\ [][HotPathNext]_allVars

(* Tokio runs every task and every loop again and again; a poll without faults
   is always possible; users finish their transactions. *)
Fairness ==
    /\ WF_allVars(EndTx)
    /\ \A c \in Chains : WF_allVars(poll_events(c) /\ NoFault)
    /\ \A i \in Logs, s \in 1..Slots : WF_allVars(TaskStep(i, s))

FairHotPathSpec == HotPathSpec /\ Fairness

-----------------------------------------------------------------------------
(* The service and its environment implement the ledger of Bank: whatever the
   interleaving of tasks, retries, late inclusions and restarts, every release
   on chain is of a logged transfer, on the chain its destination names, so
   that all of Bank's invariants hold of the composed system. *)
ImplementsBank == Spec

(* Log i exists, and the low 64 bits of its destination name a chain. *)
Served(i) == i \in 1..Len(transfers) /\ destChain(i) \in Chains

(* Tasks and submitted transactions are about logs that are on chain, and once
   past the configuration lookup of relay_event, about served destinations:
   what a release executes, however late, was never anything else. *)
OnlyServedAreRelayed ==
    /\ \A i \in Logs, s \in 1..Slots :
          /\ task[i][s].pc # "idle" => i \in 1..Len(transfers)
          /\ task[i][s].pc \notin {"idle", "guard", "active"} => destChain(i) \in Chains
    /\ \A x \in mempool : Served(x.log)

ReleasedLog(i) == destChain(i) \in Chains /\ transfers[i] \in released[destChain(i)]

(* A row says "completed" only if a transfer of its transaction was released:
   a reverted, lost or foreign receipt never reads as success. *)
CompletedMeansReleased ==
    \A k \in Logs : relayLogs[k] = "completed" =>
        \E i \in 1..Len(transfers) : txHash[i] = k /\ ReleasedLog(i)

(* While the database answers, every release has its row, restarts or not:
   relay_event records before it submits. *)
ReleasesAreRecorded ==
    \A i \in 1..Len(transfers) : ReleasedLog(i) => relayLogs[txHash[i]] # "none"

(* A transfer to a served chain is released, or its row tells why it is not. *)
Settled(i) ==
    /\ i <= Len(transfers)
    /\ \/ ReleasedLog(i)
       \/ relayLogs[txHash[i]] \in {"failed", "rejected_inactive_chain",
                                    "rejected_insufficient_depth"}

(* Log i is initiated while the poller watches its chain, for a served chain. *)
Watched(i) ==
    i \in 1..Len(transfers) /\ destChain(i) \in Chains /\ cursor[transfers[i].src] < i

(* Every transaction that initiates a transfer while the poller watches its
   chain eventually has a transfer released, or its row says rejected or failed,
   unless a fault intervenes.  The promise is one per transaction: its logs share
   one row of relay_logs, and whichever of its tasks finds that row there
   returns. *)
WatchedTransactionsSettle ==
    \A k \in Logs :
        (\E i \in Logs : Watched(i) /\ txHash[i] = k)
            ~> (faults > 0 \/ \E i \in Logs : Settled(i) /\ txHash[i] = k)

(* cross-chain-routing, of the transfers that the poller does see: each one is
   released, or recorded as rejected or failed.  False: of two transfers in one
   transaction, the task of the second finds the row of the first and returns. *)
WatchedTransfersSettle ==
    \A i \in Logs : Watched(i) ~> Settled(i)

(* cross-chain-routing: after transferHotPath() to a served chain the Treasury
   submits a release, or rejects the transfer.  False: a transfer initiated
   while the service restarts is behind the block of the first poll. *)
TransfersSettle ==
    \A i \in Logs : (i <= Len(transfers) /\ destChain(i) \in Chains) ~> Settled(i)
=============================================================================
