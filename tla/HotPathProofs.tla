--------------------------- MODULE HotPathProofs ----------------------------
(***************************************************************************)
(* The Treasury's hot path implements the ledger: every step of HotPath is *)
(* a step of Bank or leaves the Banks alone.  What needs an invariant is a *)
(* release, which executes when its transaction is included, long after    *)
(* the checks that justified it: its log is still there, unchanged, and    *)
(* its destination is a chain.                                             *)
(*                                                                         *)
(* Then relay_logs: the invariant links a task that holds a receipt to the *)
(* release it is about, and a submitted release to its row, so that what   *)
(* the table says of a transaction is true of the chain.                   *)
(***************************************************************************)
EXTENDS HotPath, BankProofs

(* The inductive invariant of the refinement. *)
RelayInv ==
    /\ TypeOK
    /\ task \in [Logs -> [1..Slots -> Task]]
    /\ cursor \in [Chains -> Int]
    /\ mempool \subseteq Tx
    /\ OnlyServedAreRelayed

(* What one task may be about. *)
Sound(i, t) ==
    /\ t.pc # "idle" => i \in 1..Len(transfers)
    /\ t.pc \notin {"idle", "guard", "active"} => destChain(i) \in Chains

(* Logs are append-only. *)
LogsGrow == \A i \in 1..Len(transfers) : i \in 1..Len(transfers') /\ transfers'[i] = transfers[i]

(* Every step of Bank keeps the log entries it finds. *)
LEMMA BankLogsGrow == TypeOK /\ [Next]_bankVars => LogsGrow
<1> SUFFICES ASSUME TypeOK, [Next]_bankVars PROVE LogsGrow
  OBVIOUS
<1>0. transfers \in Seq(Transfer)
  BY DEF TypeOK, HotType
<1>1. CASE transfers' = transfers
  BY <1>1 DEF LogsGrow
<1>2. CASE \E m : transfers' = Append(transfers, m)
  BY <1>0, <1>2 DEF LogsGrow
<1>3. CASE UserStep
  <2>1. PICK c \in Chains, u \in Users, amount \in Amounts :
          \/ deposit(c, u, amount)
          \/ withdraw(c, u, amount)
          \/ seedPool(c, u, amount)
          \/ \E to \in Users : transfer(c, u, to, amount)
          \/ \E to \in Users, dst \in Destinations :
                 transferHotPath(c, u, to, amount, dst)
    BY <1>3 DEF UserStep
  <2>2. CASE \E to \in Users, dst \in Destinations : transferHotPath(c, u, to, amount, dst)
    BY <1>2, <2>2 DEF transferHotPath
  <2>3. CASE \/ deposit(c, u, amount) \/ withdraw(c, u, amount) \/ seedPool(c, u, amount)
             \/ \E to \in Users : transfer(c, u, to, amount)
    BY <1>1, <2>3 DEF deposit, withdraw, seedPool, transfer, hotVars
  <2>4. QED
    BY <2>1, <2>2, <2>3
<1>4. CASE RelayerStep
  BY <1>1, <1>4 DEF RelayerStep, releaseHotPath
<1>5. CASE TreasuryStep
  BY <1>1, <1>5 DEF TreasuryStep, rebalance, bridgeReserve, hotVars
<1>6. CASE DeliveryStep
  BY <1>1, <1>6 DEF DeliveryStep, ccipReceive, bridgeIn, hotVars
<1>7. CASE GovernanceStep
  BY <1>1, <1>7, GovernanceFrame DEF hotVars
<1>8. CASE UNCHANGED bankVars
  BY <1>1, <1>8 DEF bankVars, hotVars
<1>9. QED
  BY <1>3, <1>4, <1>5, <1>6, <1>7, <1>8 DEF Next

(* A log that is there stays what it is. *)
LEMMA ServedStays ==
  ASSUME LogsGrow
  PROVE  /\ \A i \in 1..Len(transfers) : i \in 1..Len(transfers') /\ destChain(i)' = destChain(i)
         /\ \A i : Served(i) => Served(i)'
<1>1. \A i \in 1..Len(transfers) : i \in 1..Len(transfers') /\ destChain(i)' = destChain(i)
  BY DEF LogsGrow, destChain, chainOf
<1>2. ASSUME NEW i, Served(i) PROVE Served(i)'
  BY <1>1, <1>2 DEF Served, Chains
<1>3. QED
  BY <1>1, <1>2

(* The invariant after a step that changes one task, if the new state of the
   task is about a served log and so are the new transactions. *)
LEMMA TaskChange ==
  ASSUME RelayInv, TypeOK', LogsGrow, NEW i \in Logs, NEW s \in 1..Slots, NEW t \in Task,
         Goto(i, s, t), Sound(i, t),
         mempool' \subseteq Tx, \A x \in mempool' : Served(x.log), cursor' = cursor
  PROVE  RelayInv'
<1>1. task' \in [Logs -> [1..Slots -> Task]]
  BY DEF RelayInv, Goto
<1>2. \A j \in Logs, r \in 1..Slots : task'[j][r] = task[j][r] \/ (j = i /\ task'[j][r] = t)
  BY DEF RelayInv, Goto
<1>3. ASSUME NEW j \in Logs, NEW r \in 1..Slots
      PROVE  /\ task'[j][r].pc # "idle" => j \in 1..Len(transfers)
             /\ task'[j][r].pc \notin {"idle", "guard", "active"} => destChain(j) \in Chains
  BY <1>2, <1>3 DEF Sound, RelayInv, OnlyServedAreRelayed
<1>4. ASSUME NEW j \in Logs, NEW r \in 1..Slots
      PROVE  /\ task'[j][r].pc # "idle" => j \in 1..Len(transfers')
             /\ task'[j][r].pc \notin {"idle", "guard", "active"} => (destChain(j) \in Chains)'
  <2>1. task'[j][r].pc \notin {"idle", "guard", "active"} => task'[j][r].pc # "idle"
    OBVIOUS
  <2>2. QED
    BY <1>3, <2>1, ServedStays DEF Chains
<1>5. \A x \in mempool' : Served(x.log)'
  BY ServedStays
<1>6. OnlyServedAreRelayed'
  BY <1>4, <1>5 DEF OnlyServedAreRelayed
<1>7. QED
  BY <1>1, <1>6 DEF RelayInv

(* At the start there are no tasks and no transactions. *)
LEMMA RelayInit == HotPathInit => RelayInv
<1> SUFFICES ASSUME HotPathInit PROVE RelayInv
  OBVIOUS
<1>1. Idle \in Task /\ Idle.pc = "idle"
  BY HotPathAssumption DEF Idle, Task, RelayDecision
<1>2. task = [i \in Logs |-> [s \in 1..Slots |-> Idle]] /\ mempool = {}
  BY DEF HotPathInit, ServiceInit
<1>3. task \in [Logs -> [1..Slots -> Task]] /\ mempool \subseteq Tx
  BY <1>1, <1>2
<1>4. \A i \in Logs, s \in 1..Slots : task[i][s].pc = "idle"
  BY <1>1, <1>2
<1>5. OnlyServedAreRelayed
  BY <1>2, <1>4 DEF OnlyServedAreRelayed
<1>6. cursor \in [Chains -> Int]
  BY BankAssumption DEF HotPathInit, ServiceInit, Unset
<1>7. TypeOK
  BY InitType DEF HotPathInit, ServiceInit
<1>8. QED
  BY <1>3, <1>5, <1>6, <1>7 DEF RelayInv

(* A step of the composed system is a step of Bank or none. *)
LEMMA StepIsBankStep == RelayInv /\ [HotPathNext]_allVars => [Next]_bankVars
<1> SUFFICES ASSUME RelayInv, [HotPathNext]_allVars PROVE [Next]_bankVars
  OBVIOUS
<1>1. CASE LedgerStep
  BY <1>1 DEF LedgerStep, Next
<1>2. CASE EndTx
  BY <1>2 DEF EndTx
<1>3. CASE \E x \in mempool : includeRelease(x) \/ dropRelease(x)
  <2>1. PICK x \in mempool : includeRelease(x) \/ dropRelease(x)
    BY <1>3
  <2>2. CASE dropRelease(x)
    BY <2>2 DEF dropRelease
  <2>3. CASE includeRelease(x)
    <3>1. Served(x.log)
      BY DEF RelayInv, OnlyServedAreRelayed
    <3>2. x.log \in DOMAIN transfers
      BY <3>1 DEF Served, RelayInv, TypeOK, HotType
    <3>3. UNCHANGED bankVars \/ releaseHotPath(destChain(x.log), transfers[x.log])
      BY <2>3 DEF includeRelease
    <3>4. releaseHotPath(destChain(x.log), transfers[x.log]) => RelayerStep
      BY <3>1, <3>2 DEF RelayerStep, Served, destChain
    <3>5. QED
      BY <3>3, <3>4 DEF Next
  <2>4. QED
    BY <2>1, <2>2, <2>3
<1>4. CASE \E d \in Finalizable : finalizeDecommission(d)
  BY <1>4 DEF finalizeDecommission
<1>5. CASE TreasuryService
  <2>1. CASE (\E c \in Chains : poll_events(c)) \/ poll_route_receiver \/ restart
    BY <2>1 DEF poll_events, poll_route_receiver, restart, ServiceStep
  <2>2. CASE \E i \in Logs, s \in 1..Slots : TaskStep(i, s)
    <3>1. PICK i \in Logs, s \in 1..Slots : TaskStep(i, s)
      BY <2>2
    <3>2. \E pc : At(i, s, pc)
      BY <3>1 DEF TaskStep, checkRecorded, checkActive, fetchDepth, insert_relay_log,
         sendRelease, wait_for_receipt, update_relay_log
    <3>3. QED
      BY <3>2 DEF At, ServiceStep
  <2>3. QED
    BY <1>5, <2>1, <2>2 DEF TreasuryService
<1>6. CASE UNCHANGED allVars
  BY <1>6 DEF allVars
<1>7. QED
  BY <1>1, <1>2, <1>3, <1>4, <1>5, <1>6 DEF HotPathNext, ChainStep

(* A step that leaves the tasks alone and submits nothing. *)
LEMMA NoTaskChange ==
  ASSUME RelayInv, TypeOK', LogsGrow, task' = task, cursor' = cursor, mempool' \subseteq mempool
  PROVE  RelayInv'
<1>1. ASSUME NEW j \in Logs, NEW r \in 1..Slots
      PROVE  /\ task[j][r].pc # "idle" => j \in 1..Len(transfers')
             /\ task[j][r].pc \notin {"idle", "guard", "active"} => (destChain(j) \in Chains)'
  <2>1. task[j][r].pc \notin {"idle", "guard", "active"} => task[j][r].pc # "idle"
    OBVIOUS
  <2>2. QED
    BY <2>1, ServedStays DEF RelayInv, OnlyServedAreRelayed, Chains
<1>2. \A x \in mempool' : Served(x.log)'
  BY ServedStays DEF RelayInv, OnlyServedAreRelayed
<1>3. OnlyServedAreRelayed'
  BY <1>1, <1>2 DEF OnlyServedAreRelayed
<1>4. QED
  BY <1>3 DEF RelayInv

(* Giving up on transactions keeps them about the same logs. *)
LEMMA Abandon ==
  ASSUME mempool \subseteq Tx, \A x \in mempool : Served(x.log), NEW xs
  PROVE  abandoned(xs) \subseteq Tx /\ \A x \in abandoned(xs) : Served(x.log)
<1>1. \A x \in Tx : [x EXCEPT !.slot = 0] \in Tx /\ [x EXCEPT !.slot = 0].log = x.log
  BY HotPathAssumption DEF Tx
<1>2. QED
  BY <1>1 DEF abandoned

(* The records that tasks move to. *)
LEMMA TaskRecords ==
  /\ Idle \in Task /\ Idle.pc = "idle"
  /\ \A pc \in {"guard", "active", "depth", "insert", "submit"} :
        [Idle EXCEPT !.pc = pc] \in Task /\ [Idle EXCEPT !.pc = pc].pc = pc
  /\ \A d \in RelayDecision :
        [Idle EXCEPT !.pc = "insert", !.decision = d] \in Task
        /\ [Idle EXCEPT !.pc = "insert", !.decision = d].pc = "insert"
  /\ \A t \in Task : \A pc \in {"wait", "complete"} : [t EXCEPT !.pc = pc] \in Task
  /\ \A t \in Task : \A r \in {"ok", "reverted"} :
        [t EXCEPT !.receipt = r] \in Task /\ [t EXCEPT !.receipt = r].pc = t.pc
<1>1. 1 \in 1..MAX_RELAY_RETRIES
  BY HotPathAssumption
<1>2. Idle \in Task
  BY <1>1 DEF Idle, Task, RelayDecision
<1>3. QED
  BY <1>2 DEF Idle, Task, RelayDecision

(* The attempts of a task stay within MAX_RELAY_RETRIES. *)
LEMMA RetryTyped == \A t \in Task : retry(t) \in Task
<1> SUFFICES ASSUME NEW t \in Task PROVE retry(t) \in Task
  OBVIOUS
<1>1. t.attempt \in 1..MAX_RELAY_RETRIES /\ MAX_RELAY_RETRIES \in Nat
  BY HotPathAssumption DEF Task
<1>2. t.attempt < MAX_RELAY_RETRIES => t.attempt + 1 \in 1..MAX_RELAY_RETRIES
  BY <1>1
<1>3. QED
  BY <1>1, <1>2 DEF retry, Task

(* The steps of one relay task. *)
LEMMA TaskKeeps ==
  ASSUME RelayInv, TypeOK', LogsGrow, NEW i \in Logs, NEW s \in 1..Slots, TaskStep(i, s)
  PROVE  RelayInv'
<1> DEFINE t == task[i][s]
           x == [log |-> i, slot |-> s]
           y == [log |-> i, slot |-> 0]
<1>1. t \in Task /\ mempool \subseteq Tx /\ \A z \in mempool : Served(z.log)
  BY DEF RelayInv, OnlyServedAreRelayed
<1>2. x \in Tx /\ y \in Tx /\ x.log = i /\ y.log = i
  BY HotPathAssumption DEF Tx
<1>3. t.pc # "idle" => i \in 1..Len(transfers)
  BY DEF RelayInv, OnlyServedAreRelayed
<1>4. t.pc \notin {"idle", "guard", "active"} => Served(i)
  BY DEF RelayInv, OnlyServedAreRelayed, Served
<1>5. ASSUME NEW r \in Task, i \in 1..Len(transfers), destChain(i) \in Chains \/ r.pc \in {"idle", "active"}
      PROVE  Sound(i, r)
  BY <1>5 DEF Sound
<1>6. \E pc : At(i, s, pc)
  BY DEF TaskStep, checkRecorded, checkActive, fetchDepth, insert_relay_log,
     sendRelease, wait_for_receipt, update_relay_log
<1>7. cursor' = cursor
  BY <1>6 DEF At
<1> HIDE DEF t
<1>8. ASSUME NEW r \in Task, Goto(i, s, r), Served(i), mempool' \subseteq Tx, \A z \in mempool' : Served(z.log)
      PROVE  RelayInv'
  BY <1>5, <1>7, <1>8, TaskChange DEF Served
<1>9. CASE checkRecorded(i, s)
  <2>1. t.pc = "guard" /\ mempool' = mempool
        /\ (Goto(i, s, Idle) \/ Goto(i, s, [Idle EXCEPT !.pc = "active"]))
    BY <1>9 DEF checkRecorded, At, t
  <2>2. Sound(i, Idle) /\ Sound(i, [Idle EXCEPT !.pc = "active"])
    BY <1>3, <1>5, <2>1, TaskRecords
  <2>3. QED
    BY <1>1, <1>7, <2>1, <2>2, TaskChange, TaskRecords
<1>10. CASE checkActive(i, s)
  <2>1. t.pc = "active" /\ mempool' = mempool /\ i \in 1..Len(transfers)
    BY <1>3, <1>10 DEF checkActive, At, t
  <2>2. CASE destChain(i) \notin Chains
    <3>1. Goto(i, s, Idle)
      BY <1>10, <2>2 DEF checkActive
    <3>2. Sound(i, Idle)
      BY <1>5, <2>1, TaskRecords
    <3>3. QED
      BY <1>1, <1>7, <2>1, <3>1, <3>2, TaskChange, TaskRecords
  <2>3. CASE destChain(i) \in Chains
    <3>1. Served(i)
      BY <2>1, <2>3 DEF Served
    <3>2. \/ Goto(i, s, [Idle EXCEPT !.pc = "depth"])
          \/ Goto(i, s, [Idle EXCEPT !.pc = "insert", !.decision = "rejected_inactive_chain"])
      BY <1>10, <2>3 DEF checkActive
    <3>3. "rejected_inactive_chain" \in RelayDecision
      BY DEF RelayDecision
    <3>4. QED
      BY <1>1, <1>8, <2>1, <3>1, <3>2, <3>3, TaskRecords
  <2>4. QED
    BY <2>2, <2>3
<1>11. CASE fetchDepth(i, s)
  <2>1. Served(i) /\ mempool' = mempool
    BY <1>4, <1>11 DEF fetchDepth, At, t
  <2>2. evaluate_relay_eligibility(i) \in RelayDecision
    BY DEF evaluate_relay_eligibility, RelayDecision
  <2>3. \/ Goto(i, s, [Idle EXCEPT !.pc = "insert", !.decision = evaluate_relay_eligibility(i)])
        \/ Goto(i, s, Idle)
    BY <1>11 DEF fetchDepth
  <2>4. QED
    BY <1>1, <1>8, <2>1, <2>2, <2>3, TaskRecords
<1>12. CASE insert_relay_log(i, s)
  <2>1. Served(i) /\ mempool' = mempool
    BY <1>4, <1>12 DEF insert_relay_log, At, t
  <2>2. Goto(i, s, [Idle EXCEPT !.pc = "submit"]) \/ Goto(i, s, Idle)
    BY <1>12 DEF insert_relay_log
  <2>3. QED
    BY <1>1, <1>8, <2>1, <2>2, TaskRecords
<1>13. CASE sendRelease(i, s)
  <2>1. Served(i)
    BY <1>4, <1>13 DEF sendRelease, At, t
  <2>2. Goto(i, s, [t EXCEPT !.pc = "wait"]) \/ Goto(i, s, retry(t))
    BY <1>13 DEF sendRelease, t
  <2>3. mempool' \in {mempool, mempool \cup {x}, mempool \cup {y}}
    BY <1>13 DEF sendRelease
  <2>4. mempool' \subseteq Tx /\ \A z \in mempool' : Served(z.log)
    BY <1>1, <1>2, <2>1, <2>3
  <2>5. QED
    BY <1>1, <1>8, <2>1, <2>2, <2>4, TaskRecords, RetryTyped
<1>14. CASE wait_for_receipt(i, s)
  <2>1. Served(i)
    BY <1>4, <1>14 DEF wait_for_receipt, At, t
  <2>2. Goto(i, s, [t EXCEPT !.pc = "complete"]) \/ Goto(i, s, retry(t))
    BY <1>14 DEF wait_for_receipt, t
  <2>3. mempool' \in {mempool, abandoned({x})}
    BY <1>14 DEF wait_for_receipt
  <2>4. mempool' \subseteq Tx /\ \A z \in mempool' : Served(z.log)
    BY <1>1, <2>3, Abandon
  <2>5. QED
    BY <1>1, <1>8, <2>1, <2>2, <2>4, TaskRecords, RetryTyped
<1>15. CASE update_relay_log(i, s)
  <2>1. Served(i) /\ mempool' = mempool /\ Goto(i, s, Idle)
    BY <1>4, <1>15 DEF update_relay_log, At, t
  <2>2. QED
    BY <1>1, <1>8, <2>1, TaskRecords
<1>16. QED
  BY <1>9, <1>10, <1>11, <1>12, <1>13, <1>14, <1>15 DEF TaskStep

(* A poll makes tasks of logs that are on chain. *)
LEMMA PollKeeps ==
  ASSUME RelayInv, TypeOK', LogsGrow, NEW c \in Chains, poll_events(c)
  PROVE  RelayInv'
<1> DEFINE head == Len(transfers)
           guarded == [Idle EXCEPT !.pc = "guard"]
<1>1. transfers \in Seq(Transfer) /\ head \in Nat /\ cursor[c] \in Int
  BY DEF RelayInv, TypeOK, HotType
<1>2. PICK from \in Int, to \in Int :
        Scan(c, from, to) /\ \A i \in Logs : i \in logsOf(c, from, to) => i \in 1..head
  <2>1. ASSUME NEW from \in Int, NEW to \in Int, to <= head \/ from = to
        PROVE  \A i \in Logs : i \in logsOf(c, from, to) => i \in 1..head
    BY <1>1, <2>1, BankAssumption DEF logsOf, Logs
  <2>2. CASE \E from \in 0..head : Scan(c, from, head)
    BY <1>1, <2>1, <2>2
  <2>3. CASE Scan(c, cursor[c], head)
    BY <1>1, <2>1, <2>3
  <2>4. CASE \E from \in cursor[c]..head : Scan(c, from, head)
    BY <1>1, <2>1, <2>4
  <2>5. CASE \E old \in 0..(cursor[c] - 1) : Scan(c, old, old)
    BY <1>1, <2>1, <2>5
  <2>6. QED
    BY <2>2, <2>3, <2>4, <2>5 DEF poll_events
<1> DEFINE slot(i) == CHOOSE r \in 1..Slots : task[i][r].pc = "idle"
<1>3. /\ task' = [i \in Logs |-> IF i \in logsOf(c, from, to)
                     THEN [task[i] EXCEPT ![slot(i)] = guarded] ELSE task[i]]
      /\ cursor' = [cursor EXCEPT ![c] = to] /\ mempool' = mempool
  BY <1>2, Zenon DEF Scan
<1>4. guarded \in Task /\ guarded.pc = "guard" /\ task \in [Logs -> [1..Slots -> Task]]
  BY TaskRecords DEF RelayInv
<1> HIDE DEF slot, guarded
<1>5. task' \in [Logs -> [1..Slots -> Task]] /\ cursor' \in [Chains -> Int]
  BY <1>3, <1>4 DEF RelayInv
<1>6. ASSUME NEW j \in Logs, NEW r \in 1..Slots
      PROVE  task'[j][r] = task[j][r] \/ (task'[j][r] = guarded /\ j \in 1..head)
  <2>1. CASE j \in logsOf(c, from, to)
    BY <1>2, <1>3, <1>4, <2>1
  <2>2. CASE j \notin logsOf(c, from, to)
    BY <1>3, <2>2
  <2>3. QED
    BY <2>1, <2>2
<1>7. ASSUME NEW j \in Logs, NEW r \in 1..Slots
      PROVE  /\ task'[j][r].pc # "idle" => j \in 1..Len(transfers')
             /\ task'[j][r].pc \notin {"idle", "guard", "active"} => (destChain(j) \in Chains)'
  <2>1. /\ task'[j][r].pc # "idle" => j \in 1..head
        /\ task'[j][r].pc \notin {"idle", "guard", "active"} => destChain(j) \in Chains
    BY <1>4, <1>6 DEF RelayInv, OnlyServedAreRelayed
  <2>2. task'[j][r].pc \notin {"idle", "guard", "active"} => task'[j][r].pc # "idle"
    OBVIOUS
  <2>3. QED
    BY <2>1, <2>2, ServedStays DEF Chains
<1>8. \A x \in mempool' : Served(x.log)'
  BY <1>3, ServedStays DEF RelayInv, OnlyServedAreRelayed
<1>9. OnlyServedAreRelayed'
  BY <1>7, <1>8 DEF OnlyServedAreRelayed
<1>10. QED
  BY <1>3, <1>5, <1>9 DEF RelayInv

(* RelayInv is inductive. *)
LEMMA RelayStep == RelayInv /\ [HotPathNext]_allVars => RelayInv'
<1> SUFFICES ASSUME RelayInv, [HotPathNext]_allVars PROVE RelayInv'
  OBVIOUS
<1>1. [Next]_bankVars
  BY StepIsBankStep
<1>2. TypeOK' /\ LogsGrow
  BY <1>1, TypeStep, BankLogsGrow DEF RelayInv
<1>3. CASE LedgerStep \/ EndTx
  BY <1>2, <1>3, NoTaskChange DEF LedgerStep, EndTx
<1>4. CASE \E x \in mempool : includeRelease(x)
  <2>1. PICK x \in mempool : includeRelease(x)
    BY <1>4
  <2>2. x \in Tx /\ Served(x.log) /\ mempool' = mempool \ {x} /\ cursor' = cursor
    BY <2>1 DEF RelayInv, OnlyServedAreRelayed, includeRelease
  <2>3. CASE x.slot = 0
    <3>1. task' = task
      BY <2>1, <2>3 DEF includeRelease
    <3>2. QED
      BY <1>2, <2>2, <3>1, NoTaskChange
  <2>4. CASE x.slot # 0
    <3>1. x.log \in Logs /\ x.slot \in 1..Slots
      BY <2>2, <2>4, HotPathAssumption DEF Tx
    <3> DEFINE i == x.log
               s == x.slot
               t(r) == [task[i][s] EXCEPT !.receipt = r]
    <3>2. PICK r \in {"ok", "reverted"} : task' = [task EXCEPT ![i][s].receipt = r]
      BY <2>1, <2>4 DEF includeRelease
    <3>3. task[i][s] \in Task
      BY <3>1 DEF RelayInv
    <3>4. Goto(i, s, t(r))
      BY <3>2 DEF Goto
    <3>5. t(r) \in Task /\ t(r).pc = task[i][s].pc
      BY <3>3, TaskRecords
    <3>6. Sound(i, t(r))
      BY <3>1, <3>5 DEF Sound, RelayInv, OnlyServedAreRelayed
    <3>7. mempool' \subseteq Tx /\ \A z \in mempool' : Served(z.log)
      BY <2>2 DEF RelayInv, OnlyServedAreRelayed
    <3> HIDE DEF i, s, t
    <3>8. QED
      BY <1>2, <2>2, <3>1, <3>4, <3>5, <3>6, <3>7, TaskChange DEF i, s
  <2>5. QED
    BY <2>3, <2>4
<1>5. CASE (\E x \in mempool : dropRelease(x)) \/ (\E d \in Finalizable : finalizeDecommission(d))
  BY <1>2, <1>5, NoTaskChange DEF dropRelease, finalizeDecommission
<1>6. CASE \E c \in Chains : poll_events(c)
  BY <1>2, <1>6, PollKeeps
<1>7. CASE poll_route_receiver
  BY <1>2, <1>7, NoTaskChange DEF poll_route_receiver
<1>8. CASE \E i \in Logs, s \in 1..Slots : TaskStep(i, s)
  BY <1>2, <1>8, TaskKeeps
<1>9. CASE restart
  <2>1. task' = [i \in Logs |-> [s \in 1..Slots |-> Idle]] /\ cursor' = [c \in Chains |-> Unset]
        /\ mempool' = abandoned(mempool)
    BY <1>9 DEF restart
  <2>2. task' \in [Logs -> [1..Slots -> Task]] /\ \A i \in Logs, s \in 1..Slots : task'[i][s].pc = "idle"
    BY <2>1, TaskRecords
  <2>3. cursor' \in [Chains -> Int]
    BY <2>1, BankAssumption DEF Unset
  <2>4. mempool' \subseteq Tx /\ \A x \in mempool' : Served(x.log)'
    BY <1>2, <2>1, Abandon, ServedStays DEF RelayInv, OnlyServedAreRelayed
  <2>5. OnlyServedAreRelayed'
    BY <2>2, <2>4 DEF OnlyServedAreRelayed
  <2>6. QED
    BY <1>2, <2>2, <2>3, <2>4, <2>5 DEF RelayInv
<1>10. CASE UNCHANGED allVars
  BY <1>2, <1>10, NoTaskChange DEF allVars, hotPathVars
<1>11. QED
  BY <1>3, <1>4, <1>5, <1>6, <1>7, <1>8, <1>9, <1>10 DEF HotPathNext, ChainStep, TreasuryService

(* What tasks and submitted releases are about, through restarts and retries. *)
THEOREM RelayedAreServed == HotPathSpec => []OnlyServedAreRelayed
<1>1. RelayInv => OnlyServedAreRelayed
  BY DEF RelayInv
<1>2. QED
  BY <1>1, RelayInit, RelayStep, PTL DEF HotPathSpec

(* The hot path implements the ledger. *)
THEOREM HotPathRefinesBank == HotPathSpec => ImplementsBank
<1>1. HotPathInit => Init
  BY DEF HotPathInit, ServiceInit
<1>2. QED
  BY <1>1, RelayInit, RelayStep, StepIsBankStep, PTL DEF HotPathSpec, ImplementsBank, Spec

(* The composed system is backed, its unreleased transfers are covered, its
   supply is in somebody's hands and its ids are unique. *)
THEOREM HotPathIsSafe ==
  HotPathSpec => [](Backed /\ TransfersCovered /\ SupplyIsHeld /\ IdsAreUnique)
BY HotPathRefinesBank, FullyBacked, Covered, SupplyHeld, UniqueIds, PTL DEF ImplementsBank

-----------------------------------------------------------------------------
(* While the database answers, the row of log i is there. *)
Recorded(i) == "db" \notin Faults => relayLogs[txHash[i]] # "none"

(* Relay task t of log i: a good receipt is of a release that happened, a task
   completes with a good receipt only, and it submits after it has recorded. *)
GoodRelay(i, t) ==
    /\ t.receipt = "ok" => i \in 1..Len(transfers) /\ ReleasedLog(i)
    /\ t.pc = "complete" => t.receipt = "ok"
    /\ t.pc = "submit" => t.receipt = "none"
    /\ t.pc \in {"submit", "wait", "complete", "fail"} => Recorded(i)

(* An open transaction has emitted a log, and logs stay within their bound. *)
LogsAreBounded == Len(transfers) <= MaxTransfers /\ (inTx => Len(transfers) > 0)

(* A transaction that names a slot is the one that the task there waits for. *)
Awaited(x) == x.slot # 0 => task[x.log][x.slot].pc = "wait" /\ task[x.log][x.slot].receipt = "none"

(* The inductive invariant of the table of relays. *)
RecordInv ==
    /\ HotPathTypeOK
    /\ LogsAreBounded
    /\ \A i \in Logs, s \in 1..Slots : GoodRelay(i, task[i][s])
    /\ \A x \in mempool : Recorded(x.log) /\ Awaited(x)
    /\ CompletedMeansReleased
    /\ \A i \in 1..Len(transfers) : ReleasedLog(i) => Recorded(i)

(* A call of the Banks leaves the log of transfers alone or appends to it. *)
LEMMA TransfersAppend ==
  ASSUME TypeOK, [Next]_bankVars
  PROVE  \/ transfers' = transfers
         \/ /\ Len(transfers) < MaxTransfers
            /\ \E m \in Transfer : /\ transfers' = Append(transfers, m)
                                   /\ m.nonce = nonce[m.src] /\ released' = released
<1>1. CASE UserStep
  <2>1. PICK c \in Chains, u \in Users, amount \in Amounts :
          \/ deposit(c, u, amount)
          \/ withdraw(c, u, amount)
          \/ seedPool(c, u, amount)
          \/ \E to \in Users : transfer(c, u, to, amount)
          \/ \E to \in Users, dst \in Destinations :
                 transferHotPath(c, u, to, amount, dst)
    BY <1>1 DEF UserStep
  <2>2. ASSUME NEW to \in Users, NEW dst \in Destinations, transferHotPath(c, u, to, amount, dst)
        PROVE  /\ Len(transfers) < MaxTransfers
               /\ \E m \in Transfer : /\ transfers' = Append(transfers, m)
                                      /\ m.nonce = nonce[m.src] /\ released' = released
    <3> DEFINE m == [sender |-> u, to |-> to, amount |-> amount, dst |-> dst, src |-> c, nonce |-> nonce[c]]
    <3>1. m \in Transfer /\ m.nonce = nonce[m.src]
      BY BankAssumption DEF Transfer, TypeOK, HotType
    <3>2. Len(transfers) < MaxTransfers /\ transfers' = Append(transfers, m) /\ released' = released
      BY <2>2 DEF transferHotPath
    <3>3. QED
      BY <3>1, <3>2
  <2>3. CASE \/ deposit(c, u, amount) \/ withdraw(c, u, amount) \/ seedPool(c, u, amount)
             \/ \E to \in Users : transfer(c, u, to, amount)
    BY <2>3 DEF deposit, withdraw, seedPool, transfer, hotVars
  <2>4. QED
    BY <2>1, <2>2, <2>3
<1>2. CASE RelayerStep
  BY <1>2 DEF RelayerStep, releaseHotPath
<1>3. CASE TreasuryStep
  BY <1>3 DEF TreasuryStep, rebalance, bridgeReserve, hotVars
<1>4. CASE DeliveryStep
  BY <1>4 DEF DeliveryStep, ccipReceive, bridgeIn, hotVars
<1>5. CASE GovernanceStep \/ UNCHANGED bankVars
  BY <1>5, GovernanceFrame DEF bankVars, hotVars
<1>6. QED
  BY <1>1, <1>2, <1>3, <1>4, <1>5 DEF Next

(* Only the relayer releases. *)
LEMMA LedgerReleasesNothing ==
  TypeOK /\ (UserStep \/ TreasuryStep \/ DeliveryStep \/ GovernanceStep) => released' = released
<1>1. UserStep => released' = released
  <2>1. ASSUME NEW c, NEW u, NEW to, NEW amount, NEW dst,
               \/ deposit(c, u, amount) \/ withdraw(c, u, amount) \/ seedPool(c, u, amount)
               \/ transfer(c, u, to, amount) \/ transferHotPath(c, u, to, amount, dst)
        PROVE  released' = released
    BY <2>1 DEF deposit, withdraw, seedPool, transfer, transferHotPath, hotVars
  <2>2. QED
    BY <2>1, Zenon DEF UserStep
<1>2. TreasuryStep => released' = released
  BY DEF TreasuryStep, rebalance, bridgeReserve, hotVars
<1>3. DeliveryStep => released' = released
  BY DEF DeliveryStep, ccipReceive, bridgeIn, hotVars
<1>4. GovernanceStep => released' = released
  BY GovernanceFrame DEF hotVars
<1>5. QED
  BY <1>1, <1>2, <1>3, <1>4

-----------------------------------------------------------------------------
(* What the steps other than calls of the Banks leave alone. *)
OtherStep ==
    \/ EndTx
    \/ \E x \in mempool : includeRelease(x) \/ dropRelease(x)
    \/ \E d \in Finalizable : finalizeDecommission(d)
    \/ TreasuryService
    \/ UNCHANGED allVars

(* A step of a task is at one place of relay_event. *)
LEMMA TaskStepIsAt ==
  ASSUME NEW i, NEW s, TaskStep(i, s)
  PROVE  \E pc : At(i, s, pc)
BY DEF TaskStep, checkRecorded, checkActive, fetchDepth, insert_relay_log,
   sendRelease, wait_for_receipt, update_relay_log

(* Steps outside the ledgers log no transfer and open no transaction. *)
LEMMA OtherFrame ==
  ASSUME OtherStep
  PROVE  UNCHANGED <<transfers, txHash>> /\ inTx' \in {inTx, FALSE}
<1>1. CASE EndTx
  BY <1>1 DEF EndTx, bankVars, hotVars
<1>2. CASE \E x \in mempool : includeRelease(x) \/ dropRelease(x)
  BY <1>2 DEF includeRelease, dropRelease, releaseHotPath, bankVars, hotVars
<1>3. CASE \E d \in Finalizable : finalizeDecommission(d)
  BY <1>3 DEF finalizeDecommission, bankVars, hotVars
<1>4. CASE TreasuryService
  <2>1. ServiceStep
    <3>1. CASE \E i \in Logs, s \in 1..Slots : TaskStep(i, s)
      BY <3>1, TaskStepIsAt DEF At
    <3>2. CASE (\E c \in Chains : poll_events(c)) \/ poll_route_receiver \/ restart
      BY <3>2 DEF poll_events, poll_route_receiver, restart
    <3>3. QED
      BY <1>4, <3>1, <3>2 DEF TreasuryService
  <2>2. QED
    BY <2>1 DEF ServiceStep, bankVars, hotVars
<1>5. CASE UNCHANGED allVars
  BY <1>5 DEF allVars, hotPathVars, bankVars, hotVars
<1>6. QED
  BY <1>1, <1>2, <1>3, <1>4, <1>5 DEF OtherStep

(* A step is one of the ledgers or one of the service. *)
LEMMA NextSplit == [HotPathNext]_allVars => LedgerStep \/ OtherStep
BY DEF HotPathNext, ChainStep, OtherStep

(* The transactions of the logs, and the bound on both. *)
LEMMA HashStep ==
  ASSUME RelayInv, RecordInv, [HotPathNext]_allVars
  PROVE  /\ txHash' \in Seq(Logs) /\ Len(txHash') = Len(transfers') /\ inTx' \in BOOLEAN
         /\ LogsAreBounded'
         /\ \A i \in 1..Len(transfers) : txHash'[i] = txHash[i]
<1>0. /\ txHash \in Seq(Logs) /\ Len(txHash) = Len(transfers) /\ inTx \in BOOLEAN /\ LogsAreBounded
      /\ transfers \in Seq(Transfer) /\ TypeOK
  BY DEF RecordInv, HotPathTypeOK, RelayInv, TypeOK, HotType
<1>1. CASE OtherStep
  <2>1. UNCHANGED <<transfers, txHash>> /\ inTx' \in {inTx, FALSE}
    BY <1>1, OtherFrame
  <2>2. inTx' \in BOOLEAN /\ (inTx' => inTx)
    <3>1. CASE inTx' = inTx
      BY <1>0, <3>1
    <3>2. CASE inTx' = FALSE
      BY <3>2
    <3>3. QED
      BY <2>1, <3>1, <3>2
  <2>3. LogsAreBounded'
    BY <1>0, <2>1, <2>2 DEF LogsAreBounded
  <2>4. QED
    BY <1>0, <2>1, <2>2, <2>3
<1>2. CASE LedgerStep
  <2>1. UserStep \/ TreasuryStep \/ DeliveryStep \/ GovernanceStep
    BY <1>2 DEF LedgerStep
  <2>2. CASE transfers' = transfers
    <3>1. UNCHANGED <<txHash, inTx>>
      BY <1>2, <2>2 DEF LedgerStep
    <3>2. QED
      BY <1>0, <2>2, <3>1 DEF LogsAreBounded
  <2>3. CASE transfers' # transfers
    <3>1. Len(transfers) < MaxTransfers /\ \E m \in Transfer : transfers' = Append(transfers, m)
      BY <1>0, <2>1, <2>3, TransfersAppend DEF Next
    <3>2. Len(transfers') = Len(transfers) + 1 /\ Len(transfers) \in Nat /\ MaxTransfers \in Nat
      BY <1>0, <3>1, BankAssumption
    <3> DEFINE e == IF inTx THEN txHash[Len(txHash)] ELSE Len(transfers')
    <3>3. txHash' = Append(txHash, e) /\ inTx' \in {FALSE, Batching}
      <4>1. Len(transfers') # Len(transfers)
        BY <3>2
      <4>2. QED
        BY <1>2, <4>1, Zenon DEF LedgerStep
    <3>4. e \in Logs
      <4>1. inTx => txHash[Len(txHash)] \in Logs
        BY <1>0, <3>2 DEF LogsAreBounded
      <4>2. Len(transfers') \in Logs
        BY <3>1, <3>2 DEF Logs
      <4>3. QED
        BY <4>1, <4>2
    <3> HIDE DEF e
    <3>5. txHash' \in Seq(Logs) /\ Len(txHash') = Len(txHash) + 1
          /\ \A i \in 1..Len(txHash) : txHash'[i] = txHash[i]
      BY <1>0, <3>3, <3>4
    <3>6. inTx' \in BOOLEAN
      BY <3>3, HotPathAssumption
    <3>7. LogsAreBounded'
      BY <3>1, <3>2 DEF LogsAreBounded
    <3>8. QED
      BY <1>0, <3>2, <3>5, <3>6, <3>7
  <2>4. QED
    BY <2>2, <2>3
<1>3. QED
  BY <1>1, <1>2, NextSplit

(* Faults stay counted. *)
LEMMA FaultsTyped ==
  ASSUME faults \in 0..MaxFaults,
         faults' = faults \/ (faults < MaxFaults /\ faults' = faults + 1)
  PROVE  faults' \in 0..MaxFaults
BY HotPathAssumption

(* The rows that insert_relay_log and update_relay_log write. *)
LEMMA RowsTyped ==
  ASSUME relayLogs \in [Logs -> RelayStatus], NEW i \in Logs, NEW s \in 1..Slots,
         task[i][s] \in Task, TaskStep(i, s)
  PROVE  /\ relayLogs' \in [Logs -> RelayStatus]
         /\ \A k \in Logs : relayLogs[k] # "none" => relayLogs'[k] # "none"
<1>1. CASE relayLogs' = relayLogs
  BY <1>1
<1>2. ASSUME NEW status \in RelayStatus \ {"none"}
      PROVE  \A row \in RelayStatus :
               /\ inserted(row, status) \in RelayStatus /\ updated(row, status) \in RelayStatus
               /\ row # "none" => inserted(row, status) # "none" /\ updated(row, status) # "none"
  BY DEF inserted, updated
<1>3. ASSUME NEW status \in RelayStatus \ {"none"}, NEW h,
             \/ relayLogs' = [relayLogs EXCEPT ![h] = inserted(@, status)]
             \/ relayLogs' = [relayLogs EXCEPT ![h] = updated(@, status)]
      PROVE  /\ relayLogs' \in [Logs -> RelayStatus]
             /\ \A k \in Logs : relayLogs[k] # "none" => relayLogs'[k] # "none"
  BY <1>2, <1>3
<1>4. CASE insert_relay_log(i, s)
  <2> DEFINE d == task[i][s].decision
             status == IF d = "approved" THEN "pending" ELSE d
  <2>1. status \in RelayStatus \ {"none"}
    BY DEF Task, RelayDecision, RelayStatus
  <2>2. relayLogs' = relayLogs \/ relayLogs' = [relayLogs EXCEPT ![txHash[i]] = inserted(@, status)]
    BY <1>4 DEF insert_relay_log
  <2> HIDE DEF status
  <2>3. QED
    BY <1>1, <1>3, <2>1, <2>2
<1>5. CASE update_relay_log(i, s)
  <2>1. \/ relayLogs' = relayLogs
        \/ \E status \in {"completed", "failed"} :
              relayLogs' = [relayLogs EXCEPT ![txHash[i]] = updated(@, status)]
    BY <1>5 DEF update_relay_log
  <2>2. {"completed", "failed"} \subseteq RelayStatus \ {"none"}
    BY DEF RelayStatus
  <2>3. QED
    BY <1>1, <1>3, <2>1, <2>2
<1>6. CASE checkRecorded(i, s) \/ checkActive(i, s) \/ fetchDepth(i, s)
           \/ sendRelease(i, s) \/ wait_for_receipt(i, s)
  BY <1>1, <1>6 DEF checkRecorded, checkActive, fetchDepth, sendRelease, wait_for_receipt
<1>7. QED
  BY <1>4, <1>5, <1>6 DEF TaskStep

(* The rest of the service's state keeps its type. *)
LEMMA TablesStep ==
  ASSUME RelayInv, RelayInv', RecordInv, [HotPathNext]_allVars
  PROVE  HotPathTypeOK' /\ LogsAreBounded'
<1>0. /\ HotPathTypeOK /\ Len(transfers) \in Nat /\ Len(transfers) <= MaxTransfers
      /\ MaxTransfers \in Nat
  BY BankAssumption DEF RecordInv, LogsAreBounded, RelayInv, TypeOK, HotType
<1>1. task' \in [Logs -> [1..Slots -> Task]] /\ mempool' \subseteq Tx
  BY DEF RelayInv
<1>2. ASSUME /\ cursor' \in [Chains -> 0..Unset] /\ active' \subseteq Chains
             /\ finalized' \subseteq Chains /\ unscanned' \subseteq finalized'
             /\ relayLogs' \in [Logs -> RelayStatus] /\ faults' \in 0..MaxFaults
      PROVE  HotPathTypeOK' /\ LogsAreBounded'
  BY <1>1, <1>2, HashStep DEF HotPathTypeOK
<1>3. CASE UNCHANGED <<cursor, active, finalized, unscanned, relayLogs, faults>>
  BY <1>0, <1>2, <1>3 DEF HotPathTypeOK
<1>4. CASE LedgerStep \/ EndTx \/ UNCHANGED allVars \/ \E x \in mempool : includeRelease(x) \/ dropRelease(x)
  BY <1>3, <1>4 DEF LedgerStep, EndTx, allVars, hotPathVars, includeRelease, dropRelease
<1>5. CASE \E d \in Finalizable : finalizeDecommission(d)
  BY <1>0, <1>2, <1>5, HotPathAssumption DEF finalizeDecommission, HotPathTypeOK
<1>6. CASE \E c \in Chains : poll_events(c)
  <2>1. PICK c \in Chains : poll_events(c)
    BY <1>6
  <2> DEFINE head == Len(transfers)
  <2>2. cursor[c] \in 0..Unset /\ Unset \in Nat /\ head \in 0..Unset
    BY <1>0 DEF HotPathTypeOK, Unset
  <2>3. \E from, to : to \in 0..Unset /\ Scan(c, from, to)
    BY <2>1, <2>2 DEF poll_events
  <2>4. cursor' \in [Chains -> 0..Unset] /\ UNCHANGED <<active, unscanned, relayLogs>>
    BY <1>0, <2>3 DEF Scan, HotPathTypeOK
  <2>5. finalized' = finalized /\ (NoFault \/ Fault("rpc"))
    BY <2>1 DEF poll_events, ServiceStep
  <2>6. QED
    BY <1>0, <1>2, <2>4, <2>5, FaultsTyped DEF HotPathTypeOK, NoFault, Fault
<1>7. CASE poll_route_receiver
  BY <1>0, <1>2, <1>7, FaultsTyped DEF poll_route_receiver, ServiceStep, HotPathTypeOK, NoFault, Fault
<1>8. CASE restart
  <2>1. Unset \in 0..Unset
    BY <1>0 DEF Unset
  <2>2. QED
    BY <1>0, <1>2, <1>8, <2>1, FaultsTyped DEF restart, ServiceStep, HotPathTypeOK, Fault
<1>9. CASE \E i \in Logs, s \in 1..Slots : TaskStep(i, s)
  <2>1. PICK i \in Logs, s \in 1..Slots : TaskStep(i, s)
    BY <1>9
  <2>2. UNCHANGED <<cursor, active, unscanned, finalized>>
    BY <2>1, TaskStepIsAt DEF At, ServiceStep
  <2>3. faults' = faults \/ (faults < MaxFaults /\ faults' = faults + 1)
    BY <2>1 DEF TaskStep, checkRecorded, checkActive, fetchDepth, insert_relay_log,
       sendRelease, wait_for_receipt, update_relay_log, NoFault, Fault
  <2>4. relayLogs' \in [Logs -> RelayStatus]
    BY <1>0, <2>1, RowsTyped DEF HotPathTypeOK
  <2>5. QED
    BY <1>0, <1>2, <2>2, <2>3, <2>4, FaultsTyped DEF HotPathTypeOK
<1>10. QED
  BY <1>4, <1>5, <1>6, <1>7, <1>8, <1>9, NextSplit DEF OtherStep, TreasuryService

-----------------------------------------------------------------------------
(* What no step takes back: logs, their transactions, releases and rows. *)
Stable ==
    /\ LogsGrow
    /\ \A i \in 1..Len(transfers) : txHash'[i] = txHash[i]
    /\ \A c \in Chains : released[c] \subseteq released'[c]
    /\ \A k \in Logs : relayLogs[k] # "none" => relayLogs'[k] # "none"

(* A released id stays released. *)
LEMMA ReleasedGrows ==
  ASSUME TypeOK, [Next]_bankVars
  PROVE  \A c \in Chains : released[c] \subseteq released'[c]
<1>1. CASE RelayerStep
  BY <1>1 DEF RelayerStep, releaseHotPath, TypeOK, HotType
<1>2. CASE UserStep \/ TreasuryStep \/ DeliveryStep \/ GovernanceStep
  BY <1>2, LedgerReleasesNothing
<1>3. CASE UNCHANGED bankVars
  BY <1>3 DEF bankVars, hotVars
<1>4. QED
  BY <1>1, <1>2, <1>3 DEF Next

(* Every step of the composition is Stable. *)
LEMMA StableStep ==
  ASSUME RelayInv, RecordInv, [HotPathNext]_allVars
  PROVE  Stable
<1>1. [Next]_bankVars /\ TypeOK
  BY StepIsBankStep DEF RelayInv
<1>2. relayLogs \in [Logs -> RelayStatus] /\ task \in [Logs -> [1..Slots -> Task]]
  BY DEF RecordInv, HotPathTypeOK
<1>3. \A k \in Logs : relayLogs[k] # "none" => relayLogs'[k] # "none"
  <2>1. CASE \E i \in Logs, s \in 1..Slots : TaskStep(i, s)
    BY <1>2, <2>1, RowsTyped
  <2>2. CASE relayLogs' = relayLogs
    BY <2>2
  <2>3. CASE LedgerStep \/ EndTx \/ (\E x \in mempool : includeRelease(x) \/ dropRelease(x))
             \/ (\E d \in Finalizable : finalizeDecommission(d)) \/ UNCHANGED allVars
    BY <2>2, <2>3 DEF LedgerStep, EndTx, includeRelease, dropRelease, finalizeDecommission,
       allVars, hotPathVars
  <2>4. CASE (\E c \in Chains : poll_events(c)) \/ poll_route_receiver \/ restart
    BY <2>2, <2>4 DEF poll_events, Scan, poll_route_receiver, restart
  <2>5. QED
    BY <2>1, <2>3, <2>4, NextSplit DEF OtherStep, TreasuryService
<1>4. QED
  BY <1>1, <1>3, BankLogsGrow, HashStep, ReleasedGrows DEF Stable

(* A log that is released or recorded stays so. *)
LEMMA StaysGood ==
  ASSUME RelayInv, RecordInv, Stable, NEW i \in 1..Len(transfers)
  PROVE  /\ txHash[i] \in Logs
         /\ i \in 1..Len(transfers')
         /\ ReleasedLog(i) => ReleasedLog(i)'
         /\ Recorded(i) => Recorded(i)'
<1>1. /\ txHash \in Seq(Logs) /\ Len(txHash) = Len(transfers) /\ Len(transfers) \in Nat
  BY DEF RecordInv, HotPathTypeOK, RelayInv, TypeOK, HotType
<1>2. txHash[i] \in Logs
  BY <1>1
<1>3. /\ i \in 1..Len(transfers') /\ transfers'[i] = transfers[i] /\ txHash'[i] = txHash[i]
      /\ destChain(i)' = destChain(i)
  BY ServedStays DEF Stable, LogsGrow
<1>4. ReleasedLog(i) => ReleasedLog(i)'
  BY <1>3 DEF ReleasedLog, Stable, Chains
<1>5. Recorded(i) => Recorded(i)'
  BY <1>2, <1>3 DEF Recorded, Stable
<1>6. QED
  BY <1>2, <1>3, <1>4, <1>5

(* A state t that a task may be in after the step. *)
GoodNext(i, t) ==
    /\ t.receipt = "ok" => i \in 1..Len(transfers') /\ ReleasedLog(i)'
    /\ t.pc = "complete" => t.receipt = "ok"
    /\ t.pc = "submit" => t.receipt = "none"
    /\ t.pc \in {"submit", "wait", "complete", "fail"} => Recorded(i)'

(* RecordInv after a step, from what the step has to show. *)
LEMMA RecordCombine ==
  ASSUME RelayInv, RecordInv, RelayInv', HotPathTypeOK', LogsAreBounded', Stable,
         \A i \in Logs, s \in 1..Slots : task'[i][s] = task[i][s] \/ GoodNext(i, task'[i][s]),
         \A x \in mempool' : Served(x.log) /\ Recorded(x.log) /\ Awaited(x)',
         \A k \in Logs : relayLogs'[k] = "completed" =>
             relayLogs[k] = "completed" \/ \E i \in 1..Len(transfers) : txHash[i] = k /\ ReleasedLog(i),
         \A i \in 1..Len(transfers') : ReleasedLog(i)' =>
             i \in 1..Len(transfers) /\ (ReleasedLog(i) \/ Recorded(i))
  PROVE  RecordInv'
<1>1. ASSUME NEW i \in Logs, NEW s \in 1..Slots
      PROVE  GoodNext(i, task'[i][s])
  <2>1. CASE task'[i][s] = task[i][s]
    <3> DEFINE t == task[i][s]
    <3>1. t.pc # "idle" => i \in 1..Len(transfers)
      BY DEF RelayInv, OnlyServedAreRelayed
    <3>2. GoodRelay(i, t)
      BY DEF RecordInv
    <3> HIDE DEF t
    <3>3. GoodNext(i, t)
      <4>1. t.receipt = "ok" => i \in 1..Len(transfers') /\ ReleasedLog(i)'
        BY <3>2, StaysGood DEF GoodRelay
      <4>2. ASSUME t.pc \in {"submit", "wait", "complete", "fail"} PROVE Recorded(i)'
        <5>1. i \in 1..Len(transfers) /\ Recorded(i)
          BY <3>1, <3>2, <4>2 DEF GoodRelay
        <5>2. QED
          BY <5>1, StaysGood
      <4>3. QED
        BY <3>2, <4>1, <4>2 DEF GoodNext, GoodRelay
    <3>4. QED
      BY <2>1, <3>3 DEF t
  <2>2. QED
    BY <2>1
<1>2. \A i \in Logs, s \in 1..Slots : GoodRelay(i, task[i][s])'
  BY <1>1 DEF GoodRelay, GoodNext
<1>3. \A x \in mempool' : Recorded(x.log)' /\ Awaited(x)'
  BY StaysGood DEF Served
<1>4. CompletedMeansReleased'
  <2>1. ASSUME NEW k \in Logs, relayLogs'[k] = "completed"
        PROVE  \E i \in 1..Len(transfers') : txHash'[i] = k /\ ReleasedLog(i)'
    <3>1. PICK i \in 1..Len(transfers) : txHash[i] = k /\ ReleasedLog(i)
      BY <2>1 DEF RecordInv, CompletedMeansReleased
    <3>2. i \in 1..Len(transfers') /\ txHash'[i] = k /\ ReleasedLog(i)'
      BY <3>1, StaysGood DEF Stable
    <3>3. QED
      BY <3>2
  <2>2. QED
    BY <2>1 DEF CompletedMeansReleased
<1>5. \A i \in 1..Len(transfers') : ReleasedLog(i)' => Recorded(i)'
  BY StaysGood DEF RecordInv
<1>6. QED
  BY <1>2, <1>3, <1>4, <1>5 DEF RecordInv

(* What a step that releases nothing shows about releases. *)
LEMMA NoRelease ==
  ASSUME transfers' = transfers, released' = released
  PROVE  \A i \in 1..Len(transfers') : ReleasedLog(i)' =>
             i \in 1..Len(transfers) /\ (ReleasedLog(i) \/ Recorded(i))
BY DEF ReleasedLog, destChain, chainOf, Chains

(* A transfer that a call of a user has just logged is not released. *)
LEMMA LedgerRecords ==
  ASSUME RelayInv, LedgerInv, RecordInv, LedgerStep, LogsGrow
  PROVE  \A i \in 1..Len(transfers') : ReleasedLog(i)' =>
             i \in 1..Len(transfers) /\ (ReleasedLog(i) \/ Recorded(i))
<1>1. UserStep \/ TreasuryStep \/ DeliveryStep \/ GovernanceStep
  BY DEF LedgerStep
<1>2. TypeOK /\ released' = released
  BY <1>1, LedgerReleasesNothing DEF RelayInv
<1>3. CASE transfers' = transfers
  BY <1>2, <1>3, NoRelease
<1>4. CASE transfers' # transfers
  <2>1. PICK m \in Transfer : transfers' = Append(transfers, m) /\ m.nonce = nonce[m.src]
    BY <1>1, <1>2, <1>4, TransfersAppend DEF Next
  <2>2. transfers \in Seq(Transfer) /\ nonce \in [Chains -> Nat] /\ released \in [Chains -> SUBSET Transfer]
    BY <1>2 DEF TypeOK, HotType
  <2>3. m.src \in Chains /\ nonce[m.src] \in Nat
    BY <2>1, <2>2 DEF Transfer
  <2>4. \A c \in Chains : m \notin released[c]
    BY <2>1, <2>3 DEF LedgerInv, IdsInv, NonceBound
  <2>5. ASSUME NEW i \in 1..Len(transfers'), ReleasedLog(i)'
        PROVE  i \in 1..Len(transfers) /\ ReleasedLog(i)
    <3>1. transfers'[i] # m
      BY <1>2, <2>4, <2>5 DEF ReleasedLog, Chains
    <3>2. i \in 1..Len(transfers)
      BY <2>1, <2>2, <3>1
    <3>3. transfers'[i] = transfers[i] /\ destChain(i)' = destChain(i)
      BY <3>2, ServedStays DEF LogsGrow
    <3>4. QED
      BY <1>2, <2>5, <3>2, <3>3 DEF ReleasedLog, Chains
  <2>6. QED
    BY <2>5
<1>5. QED
  BY <1>3, <1>4

(* An included transaction releases the log it is about and no other. *)
LEMMA IncludeRecords ==
  ASSUME RelayInv, LedgerInv, RecordInv, NEW x \in mempool, includeRelease(x)
  PROVE  /\ \A i \in 1..Len(transfers') : ReleasedLog(i)' =>
                i \in 1..Len(transfers) /\ (ReleasedLog(i) \/ Recorded(i))
         /\ \A i \in Logs, s \in 1..Slots :
                \/ task'[i][s] = task[i][s]
                \/ \E r \in {"ok", "reverted"} :
                      /\ task'[i][s] = [task[i][s] EXCEPT !.receipt = r]
                      /\ r = "ok" => i \in 1..Len(transfers') /\ ReleasedLog(i)'
                      /\ i = x.log /\ s = x.slot
<1>1. Served(x.log) /\ Recorded(x.log) /\ x \in Tx
  BY DEF RelayInv, OnlyServedAreRelayed, RecordInv
<1> DEFINE j == x.log
           d == destChain(j)
           Receipt(r) == IF x.slot = 0 THEN task ELSE [task EXCEPT ![j][x.slot].receipt = r]
<1>2. ASSUME NEW r \in {"ok", "reverted"}, task' = Receipt(r), NEW i \in Logs, NEW s \in 1..Slots
      PROVE  \/ task'[i][s] = task[i][s]
             \/ i = j /\ s = x.slot /\ task'[i][s] = [task[i][s] EXCEPT !.receipt = r]
  BY <1>2 DEF RelayInv
<1>3. transfers' = transfers /\ d \in Chains /\ j \in 1..Len(transfers)
  BY <1>1 DEF includeRelease, releaseHotPath, bankVars, hotVars, Served
<1>4. CASE releaseHotPath(d, transfers[j]) /\ task' = Receipt("ok")
  <2>1. released' = [released EXCEPT ![d] = @ \cup {transfers[j]}] /\ released \in [Chains -> SUBSET Transfer]
    BY <1>4 DEF releaseHotPath, RelayInv, TypeOK, HotType
  <2>2. \A i : destChain(i)' = destChain(i)
    BY <1>3 DEF destChain, chainOf
  <2> HIDE DEF d
  <2>3. ReleasedLog(j)' /\ j \in 1..Len(transfers')
    BY <1>3, <2>1, <2>2 DEF ReleasedLog, d, Chains
  <2>4. ASSUME NEW i \in 1..Len(transfers'), ReleasedLog(i)'
        PROVE  i \in 1..Len(transfers) /\ (ReleasedLog(i) \/ Recorded(i))
    <3>1. destChain(i) \in Chains /\ transfers[i] \in released'[destChain(i)]
      BY <1>3, <2>2, <2>4 DEF ReleasedLog, Chains
    <3>2. transfers[i] \in released[destChain(i)] \/ transfers[i] = transfers[j]
      BY <2>1, <3>1
    <3>3. transfers[i] = transfers[j] => i = j
      BY <1>3 DEF LedgerInv, IdsInv, IdsAreUnique, Distinct
    <3>4. QED
      BY <1>1, <1>3, <3>1, <3>2, <3>3 DEF ReleasedLog
  <2>5. QED
    BY <1>2, <1>4, <2>3, <2>4, ZenonT(40)
<1>5. CASE UNCHANGED bankVars /\ task' = Receipt("reverted")
  <2>1. released' = released
    BY <1>5 DEF bankVars, hotVars
  <2>2. QED
    BY <1>2, <1>3, <1>5, <2>1, NoRelease
<1>6. QED
  BY <1>4, <1>5, Zenon DEF includeRelease

(* Giving up on transactions keeps them about recorded logs. *)
LEMMA AbandonRecords ==
  ASSUME mempool \subseteq Tx, \A x \in mempool : Recorded(x.log), NEW xs
  PROVE  \A x \in abandoned(xs) : Recorded(x.log)
<1>1. \A x \in Tx : [x EXCEPT !.slot = 0].log = x.log
  BY DEF Tx
<1>2. QED
  BY <1>1 DEF abandoned

(* The fields of the records that tasks move to. *)
LEMMA IdleFields ==
  /\ Idle.receipt = "none" /\ Idle.pc = "idle"
  /\ \A pc : [Idle EXCEPT !.pc = pc].receipt = "none" /\ [Idle EXCEPT !.pc = pc].pc = pc
  /\ \A d : /\ [Idle EXCEPT !.pc = "insert", !.decision = d].receipt = "none"
            /\ [Idle EXCEPT !.pc = "insert", !.decision = d].pc = "insert"
BY DEF Idle

(* What the updates of a task change. *)
LEMMA TaskFields ==
  \A t \in Task :
     /\ retry(t).receipt = "none" /\ retry(t).pc \in {"submit", "fail"}
     /\ [t EXCEPT !.pc = "wait"].receipt = t.receipt
     /\ [t EXCEPT !.pc = "wait"].pc = "wait"
     /\ [t EXCEPT !.pc = "complete"].receipt = t.receipt
     /\ [t EXCEPT !.pc = "complete"].pc = "complete"
     /\ \A r \in {"ok", "reverted"} :
           [t EXCEPT !.receipt = r].receipt = r /\ [t EXCEPT !.receipt = r].pc = t.pc
BY DEF Task, retry

(* A step that adds no transaction and changes no task but as it should. *)
LEMMA RecordFrame ==
  ASSUME RelayInv, RecordInv, RelayInv', HotPathTypeOK', LogsAreBounded', Stable,
         task' = task, mempool' \subseteq mempool, relayLogs' = relayLogs,
         \A i \in 1..Len(transfers') : ReleasedLog(i)' =>
             i \in 1..Len(transfers) /\ (ReleasedLog(i) \/ Recorded(i))
  PROVE  RecordInv'
<1>1. \A x \in mempool' : Served(x.log) /\ Recorded(x.log) /\ Awaited(x)'
  BY DEF RecordInv, RelayInv, OnlyServedAreRelayed, Awaited
<1>2. QED
  BY <1>1, RecordCombine

(* One step of one task, which goes on as r. *)
LEMMA RecordTask ==
  ASSUME RelayInv, RecordInv, RelayInv', HotPathTypeOK', LogsAreBounded', Stable,
         NEW i \in Logs, NEW s \in 1..Slots, NEW r, Goto(i, s, r), GoodNext(i, r),
         UNCHANGED bankVars,
         \A x \in mempool' : Served(x.log) /\ Recorded(x.log),
         \A x \in mempool' : x.slot = 0 \/ (x \in mempool /\ (x.log # i \/ x.slot # s))
                             \/ (x.log = i /\ x.slot = s /\ r.pc = "wait" /\ r.receipt = "none"),
         \A k \in Logs : relayLogs'[k] = "completed" =>
             relayLogs[k] = "completed" \/ \E j \in 1..Len(transfers) : txHash[j] = k /\ ReleasedLog(j)
  PROVE  RecordInv'
<1>1. task \in [Logs -> [1..Slots -> Task]] /\ mempool' \subseteq Tx
  BY DEF RelayInv
<1>2. task' = [task EXCEPT ![i][s] = r]
  BY DEF Goto
<1>3. \A j \in Logs, q \in 1..Slots :
        IF j = i /\ q = s THEN task'[j][q] = r ELSE task'[j][q] = task[j][q]
  BY <1>1, <1>2
<1>4. \A j \in Logs, q \in 1..Slots : task'[j][q] = task[j][q] \/ GoodNext(j, task'[j][q])
  BY <1>3
<1>5. ASSUME NEW x \in mempool' PROVE Awaited(x)'
  <2>1. x.log \in Logs /\ (x.slot # 0 => x.slot \in 1..Slots)
    BY <1>1, HotPathAssumption DEF Tx
  <2>2. CASE x \in mempool /\ (x.log # i \/ x.slot # s)
    BY <1>3, <2>1, <2>2 DEF Awaited, RecordInv
  <2>3. CASE x.log = i /\ x.slot = s /\ r.pc = "wait" /\ r.receipt = "none"
    BY <1>3, <2>3 DEF Awaited
  <2>4. QED
    BY <2>2, <2>3 DEF Awaited
<1>6. transfers' = transfers /\ released' = released
  BY DEF bankVars, hotVars
<1>7. QED
  BY <1>4, <1>5, <1>6, NoRelease, RecordCombine

(* The steps of one relay task. *)
LEMMA TaskRecordsStep ==
  ASSUME RelayInv, RecordInv, RelayInv', HotPathTypeOK', LogsAreBounded', Stable,
         NEW i \in Logs, NEW s \in 1..Slots, TaskStep(i, s)
  PROVE  RecordInv'
<1> DEFINE t == task[i][s]
           x == [log |-> i, slot |-> s]
           y == [log |-> i, slot |-> 0]
<1>0. UNCHANGED bankVars
  BY TaskStepIsAt DEF At, ServiceStep
<1>1. t \in Task /\ GoodRelay(i, t) /\ mempool \subseteq Tx
      /\ \A z \in mempool : Served(z.log) /\ Recorded(z.log) /\ Awaited(z)
  BY DEF RelayInv, OnlyServedAreRelayed, RecordInv
<1>2. t.pc \notin {"idle", "guard", "active"} => Served(i)
  BY DEF RelayInv, OnlyServedAreRelayed, Served
<1>3. ASSUME NEW z \in mempool, t.pc # "wait" \/ t.receipt # "none"
      PROVE  z.slot = 0 \/ z.log # i \/ z.slot # s
  BY <1>1, <1>3 DEF Awaited
<1> HIDE DEF t
<1>4. ASSUME NEW r, Goto(i, s, r), r.receipt = "none", r.pc \in {"idle", "active", "depth", "insert"},
             mempool' = mempool, relayLogs' = relayLogs, t.pc # "wait"
      PROVE  RecordInv'
  <2>1. GoodNext(i, r)
    BY <1>4 DEF GoodNext
  <2>2. QED
    BY <1>0, <1>1, <1>3, <1>4, <2>1, RecordTask
<1>5. CASE checkRecorded(i, s)
  <2> DEFINE a == [Idle EXCEPT !.pc = "active"]
  <2>0. Idle.receipt = "none" /\ Idle.pc = "idle" /\ a.receipt = "none" /\ a.pc = "active"
    BY IdleFields
  <2>1. t.pc = "guard" /\ mempool' = mempool /\ relayLogs' = relayLogs
        /\ (Goto(i, s, Idle) \/ Goto(i, s, a))
    BY <1>5 DEF checkRecorded, At, t
  <2> HIDE DEF a
  <2>2. QED
    BY <1>4, <2>0, <2>1
<1>6. CASE checkActive(i, s)
  <2> DEFINE a == [Idle EXCEPT !.pc = "depth"]
             b == [Idle EXCEPT !.pc = "insert", !.decision = "rejected_inactive_chain"]
  <2>0. /\ Idle.receipt = "none" /\ Idle.pc = "idle" /\ a.receipt = "none" /\ a.pc = "depth"
        /\ b.receipt = "none" /\ b.pc = "insert"
    BY IdleFields
  <2>1. t.pc = "active" /\ mempool' = mempool /\ relayLogs' = relayLogs
    BY <1>6 DEF checkActive, At, t
  <2>2. Goto(i, s, Idle) \/ Goto(i, s, a) \/ Goto(i, s, b)
    BY <1>6 DEF checkActive
  <2> HIDE DEF a, b
  <2>3. QED
    BY <1>4, <2>0, <2>1, <2>2
<1>7. CASE fetchDepth(i, s)
  <2> DEFINE a == [Idle EXCEPT !.pc = "insert", !.decision = evaluate_relay_eligibility(i)]
  <2>0. Idle.receipt = "none" /\ Idle.pc = "idle" /\ a.receipt = "none" /\ a.pc = "insert"
    BY IdleFields
  <2>1. t.pc = "depth" /\ mempool' = mempool /\ relayLogs' = relayLogs
        /\ (Goto(i, s, a) \/ Goto(i, s, Idle))
    BY <1>7 DEF fetchDepth, At, t
  <2> HIDE DEF a
  <2>2. QED
    BY <1>4, <2>0, <2>1
<1>8. CASE insert_relay_log(i, s)
  <2> DEFINE d == t.decision
             status == IF d = "approved" THEN "pending" ELSE d
  <2>1. t.pc = "insert" /\ mempool' = mempool /\ Served(i)
    BY <1>2, <1>8 DEF insert_relay_log, At, t
  <2>2. status \in RelayStatus \ {"none", "completed"}
    BY <1>1 DEF Task, RelayDecision, RelayStatus
  <2>3. \/ relayLogs' = [relayLogs EXCEPT ![txHash[i]] = inserted(@, status)]
        \/ "db" \in Faults /\ relayLogs' = relayLogs
    BY <1>8 DEF insert_relay_log, Fault, t
  <2>4. PICK r \in {[Idle EXCEPT !.pc = "submit"], Idle} : Goto(i, s, r)
    BY <1>8 DEF insert_relay_log
  <2>5. i \in 1..Len(transfers) /\ txHash[i] \in Logs /\ relayLogs \in [Logs -> RelayStatus]
    BY <2>1, StaysGood DEF Served, RecordInv, HotPathTypeOK
  <2> HIDE DEF status
  <2>6. Recorded(i)'
    <3>1. CASE "db" \in Faults
      BY <3>1 DEF Recorded
    <3>2. CASE relayLogs' = [relayLogs EXCEPT ![txHash[i]] = inserted(@, status)]
      <4>1. relayLogs'[txHash[i]] # "none"
        BY <2>2, <2>5, <3>2 DEF inserted
      <4>2. txHash'[i] = txHash[i]
        BY <2>5 DEF Stable
      <4>3. QED
        BY <4>1, <4>2 DEF Recorded
    <3>3. QED
      BY <2>3, <3>1, <3>2
  <2>7. \A k \in Logs : relayLogs'[k] = "completed" => relayLogs[k] = "completed"
    BY <2>2, <2>3, <2>5 DEF inserted
  <2>8. GoodNext(i, r)
    <3>1. r.receipt = "none" /\ r.pc \in {"submit", "idle"}
      <4>1. CASE r = [Idle EXCEPT !.pc = "submit"]
        BY <4>1, IdleFields
      <4>2. CASE r = Idle
        BY <4>2, IdleFields
      <4>3. QED
        BY <2>4, <4>1, <4>2
    <3>2. QED
      BY <2>6, <3>1 DEF GoodNext
  <2>9. QED
    BY <1>0, <1>1, <1>3, <2>1, <2>4, <2>7, <2>8, RecordTask
<1>9. CASE sendRelease(i, s)
  <2>1. t.pc = "submit" /\ relayLogs' = relayLogs /\ Served(i)
    BY <1>2, <1>9 DEF sendRelease, At, t
  <2>2. Recorded(i) /\ t.receipt = "none"
    BY <1>1, <2>1 DEF GoodRelay
  <2>3. \/ mempool' = mempool \cup {x} /\ Goto(i, s, [t EXCEPT !.pc = "wait"])
        \/ mempool' \in {mempool, mempool \cup {y}} /\ Goto(i, s, retry(t))
    BY <1>9 DEF sendRelease, t
  <2>4. Recorded(i)'
    BY <2>1, <2>2, StaysGood DEF Served
  <2>5. GoodNext(i, [t EXCEPT !.pc = "wait"]) /\ GoodNext(i, retry(t))
    BY <1>1, <2>2, <2>4, TaskFields DEF GoodNext
  <2>6. x.log = i /\ x.slot = s /\ y.log = i /\ y.slot = 0
    OBVIOUS
  <2> HIDE DEF x, y
  <2>7. CASE mempool' = mempool \cup {x} /\ Goto(i, s, [t EXCEPT !.pc = "wait"])
    <3> DEFINE w == [t EXCEPT !.pc = "wait"]
    <3>1. w.pc = "wait" /\ w.receipt = "none" /\ GoodNext(i, w) /\ Goto(i, s, w)
      BY <1>1, <2>2, <2>5, <2>7, TaskFields
    <3>2. \A z \in mempool' : Served(z.log) /\ Recorded(z.log)
      BY <1>1, <2>1, <2>2, <2>6, <2>7
    <3> HIDE DEF w
    <3>3. \A z \in mempool' : z.slot = 0 \/ (z \in mempool /\ (z.log # i \/ z.slot # s))
                             \/ (z.log = i /\ z.slot = s /\ w.pc = "wait" /\ w.receipt = "none")
      BY <1>3, <2>1, <2>6, <2>7, <3>1
    <3>4. QED
      BY <1>0, <2>1, <3>1, <3>2, <3>3, RecordTask
  <2>8. CASE mempool' \in {mempool, mempool \cup {y}} /\ Goto(i, s, retry(t))
    <3>1. \A z \in mempool' : Served(z.log) /\ Recorded(z.log)
      BY <1>1, <2>1, <2>2, <2>6, <2>8
    <3>2. \A z \in mempool' : z.slot = 0 \/ (z \in mempool /\ (z.log # i \/ z.slot # s))
      BY <1>3, <2>1, <2>6, <2>8
    <3>3. QED
      BY <1>0, <2>1, <2>5, <2>8, <3>1, <3>2, RecordTask
  <2>9. QED
    BY <2>3, <2>7, <2>8
<1>10. CASE wait_for_receipt(i, s)
  <2>1. t.pc = "wait" /\ relayLogs' = relayLogs /\ Served(i)
    BY <1>2, <1>10 DEF wait_for_receipt, At, t
  <2>2. Recorded(i)
    BY <1>1, <2>1 DEF GoodRelay
  <2>3. Recorded(i)' /\ i \in 1..Len(transfers') /\ (t.receipt = "ok" => ReleasedLog(i)')
    BY <1>1, <2>1, <2>2, StaysGood DEF Served, GoodRelay
  <2>4. CASE t.receipt = "ok" /\ mempool' = mempool /\ Goto(i, s, [t EXCEPT !.pc = "complete"])
    <3> DEFINE w == [t EXCEPT !.pc = "complete"]
    <3>1. GoodNext(i, w)
      BY <1>1, <2>3, <2>4, TaskFields DEF GoodNext
    <3> HIDE DEF w
    <3>2. QED
      BY <1>0, <1>1, <1>3, <2>1, <2>4, <3>1, RecordTask DEF w
  <2>5. CASE mempool' = abandoned({x}) /\ Goto(i, s, retry(t))
    <3>1. GoodNext(i, retry(t))
      BY <1>1, <2>3, TaskFields DEF GoodNext
    <3>2. \A z \in mempool' : Served(z.log) /\ Recorded(z.log)
      BY <1>1, <2>5, Abandon, AbandonRecords
    <3>3. \A z \in mempool' : z.slot = 0 \/ (z \in mempool /\ (z.log # i \/ z.slot # s))
      <4>1. \A q \in Tx : [q EXCEPT !.slot = 0].slot = 0 /\ (q.log = i /\ q.slot = s => q = x)
        BY DEF Tx
      <4>2. QED
        BY <1>1, <2>5, <4>1 DEF abandoned
    <3> DEFINE w == retry(t)
    <3>4. GoodNext(i, w) /\ Goto(i, s, w)
      BY <2>5, <3>1
    <3> HIDE DEF x, y, w
    <3>5. QED
      BY <1>0, <2>1, <3>2, <3>3, <3>4, RecordTask
  <2>6. QED
    BY <1>10, <2>4, <2>5 DEF wait_for_receipt, t
<1>11. CASE update_relay_log(i, s)
  <2>1. t.pc \in {"complete", "fail"} /\ mempool' = mempool /\ Goto(i, s, Idle) /\ Served(i)
    BY <1>2, <1>11 DEF update_relay_log, At, t
  <2>2. GoodNext(i, Idle)
    BY IdleFields DEF GoodNext
  <2>3. i \in 1..Len(transfers) /\ txHash[i] \in Logs /\ relayLogs \in [Logs -> RelayStatus]
    BY <2>1, StaysGood DEF Served, RecordInv, HotPathTypeOK
  <2>4. \A k \in Logs : relayLogs'[k] = "completed" =>
             relayLogs[k] = "completed" \/ \E j \in 1..Len(transfers) : txHash[j] = k /\ ReleasedLog(j)
    <3>1. CASE t.pc = "complete" /\ relayLogs' = [relayLogs EXCEPT ![txHash[i]] = updated(@, "completed")]
      <4>1. ReleasedLog(i)
        BY <1>1, <3>1 DEF GoodRelay
      <4>2. \A k \in Logs : k # txHash[i] => relayLogs'[k] = relayLogs[k]
        BY <2>3, <3>1
      <4>3. QED
        BY <2>3, <4>1, <4>2
    <3>2. CASE relayLogs' = [relayLogs EXCEPT ![txHash[i]] = updated(@, "failed")]
      BY <2>3, <3>2 DEF updated
    <3>3. CASE relayLogs' = relayLogs
      BY <3>3
    <3>4. QED
      BY <1>11, <3>1, <3>2, <3>3 DEF update_relay_log, At, t
  <2>5. QED
    BY <1>0, <1>1, <1>3, <2>1, <2>2, <2>4, RecordTask
<1>12. QED
  BY <1>5, <1>6, <1>7, <1>8, <1>9, <1>10, <1>11 DEF TaskStep

(* RecordInv is preserved: the steps that are not a task's. *)
LEMMA RecordStep ==
  ASSUME RelayInv, LedgerInv, RecordInv, [HotPathNext]_allVars
  PROVE  RecordInv'
<1>1. RelayInv' /\ Stable
  BY RelayStep, StableStep
<1>2. HotPathTypeOK' /\ LogsAreBounded'
  BY <1>1, TablesStep
<1>3. task \in [Logs -> [1..Slots -> Task]] /\ mempool \subseteq Tx
  BY DEF RelayInv
<1>4. \A x \in mempool : Served(x.log) /\ Recorded(x.log) /\ Awaited(x)
  BY DEF RelayInv, OnlyServedAreRelayed, RecordInv
<1>5. CASE LedgerStep
  <2>1. \A i \in 1..Len(transfers') : ReleasedLog(i)' =>
             i \in 1..Len(transfers) /\ (ReleasedLog(i) \/ Recorded(i))
    BY <1>1, <1>5, LedgerRecords DEF Stable
  <2>2. UNCHANGED <<task, mempool, relayLogs>>
    BY <1>5 DEF LedgerStep
  <2>3. QED
    BY <1>1, <1>2, <2>1, <2>2, RecordFrame
<1>6. ASSUME UNCHANGED bankVars, task' = task, mempool' \subseteq mempool, relayLogs' = relayLogs
      PROVE  RecordInv'
  <2>1. transfers' = transfers /\ released' = released
    BY <1>6 DEF bankVars, hotVars
  <2>2. QED
    BY <1>1, <1>2, <1>6, <2>1, NoRelease, RecordFrame
<1>7. CASE EndTx \/ (\E x \in mempool : dropRelease(x)) \/ (\E d \in Finalizable : finalizeDecommission(d))
           \/ poll_route_receiver \/ UNCHANGED allVars
  BY <1>6, <1>7 DEF EndTx, dropRelease, finalizeDecommission, poll_route_receiver, ServiceStep,
     allVars, hotPathVars
<1>8. ASSUME NEW x \in mempool, includeRelease(x) PROVE RecordInv'
  <2>1. mempool' = mempool \ {x} /\ relayLogs' = relayLogs
    BY <1>8 DEF includeRelease
  <2>2. x.log \in Logs /\ (x.slot \in 1..Slots => x.slot # 0)
    BY <1>3, HotPathAssumption DEF Tx
  <2>3. ASSUME NEW i \in Logs, NEW s \in 1..Slots
        PROVE  \/ task'[i][s] = task[i][s]
               \/ GoodNext(i, task'[i][s]) /\ i = x.log /\ s = x.slot
    <3> DEFINE t == task[i][s]
    <3>1. CASE t # task'[i][s]
      <4>1. PICK r \in {"ok", "reverted"} :
              /\ task'[i][s] = [t EXCEPT !.receipt = r]
              /\ r = "ok" => i \in 1..Len(transfers') /\ ReleasedLog(i)'
              /\ i = x.log /\ s = x.slot
        BY <1>8, <3>1, IncludeRecords
      <4>2. t \in Task /\ t.pc = "wait" /\ Recorded(i) /\ i \in 1..Len(transfers)
        <5>1. i = x.log /\ s = x.slot /\ x.slot # 0
          BY <2>2, <4>1
        <5>2. t \in Task /\ t.pc = "wait"
          BY <1>3, <1>4, <5>1 DEF Awaited
        <5>3. Recorded(i) /\ i \in 1..Len(transfers)
          BY <1>4, <5>1 DEF Served
        <5>4. QED
          BY <5>2, <5>3
      <4> HIDE DEF t
      <4>3. Recorded(i)'
        BY <1>1, <4>2, StaysGood
      <4>4. [t EXCEPT !.receipt = r].receipt = r /\ [t EXCEPT !.receipt = r].pc = "wait"
        BY <4>2, TaskFields
      <4>5. GoodNext(i, [t EXCEPT !.receipt = r])
        BY <4>1, <4>3, <4>4 DEF GoodNext
      <4>6. QED
        BY <4>1, <4>5
    <3>2. QED
      BY <3>1
  <2>4. ASSUME NEW z \in mempool' PROVE Served(z.log) /\ Recorded(z.log) /\ Awaited(z)'
    <3>1. z \in mempool /\ z # x /\ z \in Tx /\ x \in Tx
      BY <1>3, <2>1
    <3>2. z.log \in Logs /\ (z.slot # 0 => z.slot \in 1..Slots) /\ (z.log # x.log \/ z.slot # x.slot)
      BY <3>1, HotPathAssumption DEF Tx
    <3>3. z.slot # 0 => task'[z.log][z.slot] = task[z.log][z.slot]
      BY <2>3, <3>2
    <3>4. QED
      BY <1>4, <3>1, <3>3 DEF Awaited
  <2>5. \A i \in 1..Len(transfers') : ReleasedLog(i)' =>
             i \in 1..Len(transfers) /\ (ReleasedLog(i) \/ Recorded(i))
    BY <1>8, IncludeRecords
  <2>6. QED
    BY <1>1, <1>2, <2>1, <2>3, <2>4, <2>5, RecordCombine
<1>9. ASSUME NEW c \in Chains, poll_events(c) PROVE RecordInv'
  <2> DEFINE guarded == [Idle EXCEPT !.pc = "guard"]
             slot(i) == CHOOSE r \in 1..Slots : task[i][r].pc = "idle"
  <2>1. guarded.receipt = "none" /\ guarded.pc = "guard"
    BY IdleFields
  <2>2. PICK from, to : Scan(c, from, to)
    BY <1>9 DEF poll_events
  <2>3. transfers' = transfers /\ released' = released /\ mempool' = mempool /\ relayLogs' = relayLogs
    BY <1>9, <2>2 DEF poll_events, Scan, ServiceStep, bankVars, hotVars
  <2>4. /\ task' = [i \in Logs |-> IF i \in logsOf(c, from, to)
                      THEN [task[i] EXCEPT ![slot(i)] = guarded] ELSE task[i]]
        /\ \A i \in logsOf(c, from, to) : \E s \in 1..Slots : task[i][s].pc = "idle"
    BY <2>2, Zenon DEF Scan
  <2>5. \A i \in logsOf(c, from, to) : slot(i) \in 1..Slots /\ task[i][slot(i)].pc = "idle"
    BY <2>4
  <2> HIDE DEF slot, guarded
  <2>6. ASSUME NEW i \in Logs, NEW s \in 1..Slots
        PROVE  task'[i][s] = task[i][s] \/ (task'[i][s] = guarded /\ task[i][s].pc = "idle")
    <3>1. CASE i \in logsOf(c, from, to)
      BY <1>3, <2>4, <2>5, <3>1
    <3>2. CASE i \notin logsOf(c, from, to)
      BY <2>4, <3>2
    <3>3. QED
      BY <3>1, <3>2
  <2>7. \A i : GoodNext(i, guarded)
    BY <2>1 DEF GoodNext
  <2>8. ASSUME NEW z \in mempool' PROVE Served(z.log) /\ Recorded(z.log) /\ Awaited(z)'
    <3>1. z \in mempool /\ z.log \in Logs /\ (z.slot # 0 => z.slot \in 1..Slots)
      BY <1>3, <2>3, HotPathAssumption DEF Tx
    <3>2. z.slot # 0 => task'[z.log][z.slot] = task[z.log][z.slot]
      BY <1>4, <2>6, <3>1 DEF Awaited
    <3>3. QED
      BY <1>4, <3>1, <3>2 DEF Awaited
  <2>9. QED
    BY <1>1, <1>2, <2>3, <2>6, <2>7, <2>8, NoRelease, RecordCombine
<1>10. CASE restart
  <2>1. task' = [i \in Logs |-> [s \in 1..Slots |-> Idle]] /\ mempool' = abandoned(mempool)
        /\ UNCHANGED bankVars /\ relayLogs' = relayLogs
    BY <1>10 DEF restart, ServiceStep
  <2>2. transfers' = transfers /\ released' = released
    BY <2>1 DEF bankVars, hotVars
  <2>3. \A i \in Logs, s \in 1..Slots : GoodNext(i, task'[i][s])
    BY <2>1, IdleFields DEF GoodNext
  <2>4. \A z \in mempool' : Served(z.log) /\ Recorded(z.log)
    BY <1>3, <1>4, <2>1, Abandon, AbandonRecords
  <2>5. \A z \in mempool' : Awaited(z)'
    <3>1. \A q \in Tx : [q EXCEPT !.slot = 0].slot = 0
      BY DEF Tx
    <3>2. QED
      BY <1>3, <2>1, <3>1 DEF abandoned, Awaited
  <2>6. QED
    BY <1>1, <1>2, <2>1, <2>2, <2>3, <2>4, <2>5, NoRelease, RecordCombine
<1>11. CASE \E i \in Logs, s \in 1..Slots : TaskStep(i, s)
  BY <1>1, <1>2, <1>11, TaskRecordsStep
<1>12. QED
  BY <1>5, <1>7, <1>8, <1>9, <1>10, <1>11, NextSplit DEF OtherStep, TreasuryService

(* Nothing has happened yet: no log, no row, no task, no transaction. *)
LEMMA RecordInit == HotPathInit => RecordInv
<1> SUFFICES ASSUME HotPathInit PROVE RecordInv
  OBVIOUS
<1>1. transfers = <<>> /\ txHash = <<>> /\ inTx = FALSE /\ mempool = {}
      /\ relayLogs = [k \in Logs |-> "none"] /\ task = [i \in Logs |-> [s \in 1..Slots |-> Idle]]
      /\ cursor = [c \in Chains |-> Unset] /\ active = Chains /\ finalized = {} /\ unscanned = {}
      /\ faults = 0
  BY DEF HotPathInit, ServiceInit, Init, NoTransfers
<1>2. Len(transfers) = 0 /\ Len(txHash) = 0 /\ txHash \in Seq(Logs)
  BY <1>1
<1>3. cursor \in [Chains -> 0..Unset] /\ faults \in 0..MaxFaults
  BY <1>1, BankAssumption, HotPathAssumption DEF Unset
<1>4. relayLogs \in [Logs -> RelayStatus]
  BY <1>1 DEF RelayStatus
<1>5. HotPathTypeOK
  BY <1>1, <1>2, <1>3, <1>4, RelayInit DEF HotPathTypeOK, RelayInv
<1>6. LogsAreBounded
  BY <1>1, <1>2, BankAssumption DEF LogsAreBounded
<1>7. \A i \in Logs, s \in 1..Slots : GoodRelay(i, task[i][s])
  BY <1>1, IdleFields DEF GoodRelay
<1>8. CompletedMeansReleased
  BY <1>1 DEF CompletedMeansReleased
<1>9. QED
  BY <1>1, <1>2, <1>5, <1>6, <1>7, <1>8 DEF RecordInv

(* The whole invariant of the composed system. *)
HotPathInv == RelayInv /\ LedgerInv /\ RecordInv

(* The invariant of the composition holds throughout. *)
LEMMA HotPathInvariant == HotPathSpec => []HotPathInv
<1>1. HotPathInit => HotPathInv
  BY RelayInit, InitLedger, RecordInit DEF HotPathInit, ServiceInit, HotPathInv
<1>2. HotPathInv /\ [HotPathNext]_allVars => HotPathInv'
  BY RelayStep, StepIsBankStep, LedgerPreserved, RecordStep DEF HotPathInv
<1>3. QED
  BY <1>1, <1>2, PTL DEF HotPathSpec

(* The state of the service, its table and the mempool keep their types. *)
THEOREM HotPathTyped == HotPathSpec => []HotPathTypeOK
<1>1. HotPathInv => HotPathTypeOK
  BY DEF HotPathInv, RecordInv
<1>2. QED
  BY <1>1, HotPathInvariant, PTL

(* relay_logs never says "completed" of a transaction none of whose transfers
   the destination's Bank has released, whatever receipts come late, in which
   order tasks of the same transaction update the row, and wherever the service
   restarts. *)
THEOREM CompletedAreReleased == HotPathSpec => []CompletedMeansReleased
<1>1. HotPathInv => CompletedMeansReleased
  BY DEF HotPathInv, RecordInv
<1>2. QED
  BY <1>1, HotPathInvariant, PTL

(* While the database answers, no release is without its row. *)
THEOREM ReleasedAreRecorded ==
  "db" \notin Faults => (HotPathSpec => []ReleasesAreRecorded)
<1> SUFFICES ASSUME "db" \notin Faults PROVE HotPathSpec => []ReleasesAreRecorded
  OBVIOUS
<1>1. HotPathInv => ReleasesAreRecorded
  BY DEF HotPathInv, RecordInv, Recorded, ReleasesAreRecorded
<1>2. QED
  BY <1>1, HotPathInvariant, PTL
=============================================================================
