# Verification of the web-3 bank

TLA+ modules, TLC configurations and TLAPS proofs for the ledger contracts and the
Treasury service of this repository. Paths below are relative to the repository.

## 1. The system

A user holds `SyncUSD`, a token issued on several chains against USDC. On every chain there
is one `Bank` contract with a *reserve* (USDC) and a *pool* (SyncUSD it holds itself).

| Part | State | Operations | Talks to |
|---|---|---|---|
| `Bank.sol` | reserve, pool, nonces, `released`, processed ids, flags, settings | deposit, withdraw, `transferHotPath`, `releaseHotPath`, `rebalance`, `ccipReceive`, `bridgeReserve`, `completeReserveBridge`, setters, pauses, freeze | SyncUSD, reserve adapter; its logs drive the Treasury |
| `SyncUSD.sol` | balances, supply, pause flag | transfer, mint, burn | called by users and its Bank |
| `CCTPReserveBridge.sol` | domains, Bank | `bridgeOut`, `bridgeIn` | Bank, Circle's CCTP |
| `TempoReserveBridge.sol` | signers, threshold, pending releases | `bridgeOut`, `lzReceive`, `executeRelease` | Bank, LayerZero |
| `RouteReceiver.sol` | publishers, published runs, decommission status | publish, mark, finalize | its logs drive the Treasury |
| Treasury hot path (`hot_path.rs`) | poll cursors, active chains, one task per log, nonce cache, `relay_logs` | poll, check, record, submit, retry | Banks, RouteReceiver, Postgres |
| Treasury watcher (`watcher.rs`) | two cursors, cache of initiated transfers, alerts | poll, verify, pause | Banks, Postgres |
| Treasury cold path (`cold_path.rs`) | active chains, `rebalance_ops` | plan, submit `rebalance` | Banks, Postgres |
| Treasury reserve path (`reserve_path.rs`) | `reserve_ops`, completion cursors | plan, `bridgeReserve`, attest, `bridgeIn`, time out | Banks, Circle, Postgres |
| Decommission (`decommission*.rs`, `server.rs`) | drain state, `decommission_ops` | start, drain, resume | Banks, user-service, account index |
| Account index (`account_index.rs`) | cursors, `account_events` | index, set home chain | Banks, user-service |
| user-service, bff | users, credentials, home chain, challenges, sessions | register, authenticate, add and revoke credentials | client |
| CRE workflows | runs, scores | score, publish | RouteReceiver |

What makes it hard: the chains are independent ledgers, so every cross-chain movement is two
transactions with anything between them; the Treasury's tasks run concurrently, keep their
cursors and caches in memory, wait for receipts with a timeout and retry what may already have
happened; RPC and database errors read as "nothing there". `PROJECT.json` lists the hazards
line by line, with the properties that would notice them.

What makes each part correct:

* Banks: SyncUSD is backed by USDC, counting what is in transit; nothing is released,
  minted or credited twice; freeze and permanent pause hold.
* Hot path: it releases only what was locked, where it was meant to go; its table agrees with
  the chain; a transfer it sees is settled one way or another.
* Watcher: it verifies every release, and pauses only for a real anomaly.
* Cold and reserve path: plans conserve liquidity and respect caps; one operation moves its
  amount once; rows end in the state the chain is in.
* Decommission: a drain that reports completion left nothing behind; a resumed drain repeats
  nothing.
* Account index and user-service: the index has every event once; an account keeps a way
  in; the home chain is the chain of the first deposit until a decommission moves it.
* RouteReceiver, TempoReserveBridge: what was published or signed stays so.

## 2. Modules

| Module | What it is |
|---|---|
| `Sums` | finite sums `Total(f, n)` |
| `Bank` | Banks, tokens and adapters of all chains, with CCIP and CCTP deliveries |
| `Transit` | abstract specification: value that moves between places in numbered messages |
| `BankTransit` | `Bank` implements `Transit` with its supply, and again with its reserves |
| `BankProofs` | types, unique ids, backing, coverage; seal and freeze; `Bank` implements `Transit` |
| `HotPath` | the Treasury's hot path composed with `Bank` |
| `HotPathProofs` | the composition implements `Bank`; what `relay_logs` says is true |
| `Watcher` | the Treasury's watcher, against a relayer it does not trust |
| `WatcherProofs` | its verdicts are genuine |
| `RebalancePlan` | the planner of cold and reserve path as functions, with a reference plan |
| `PlanProofs` | every plan is exact |
| `ColdPath` | the rebalance cycle composed with `Bank` |
| `ColdPathProofs` | its rows, burns and operations in flight |
| `ReservePath` | planner, attestation relayer and completion watcher composed with `Bank` |
| `ReservePathProofs` | its rows carry their burns, success means credited, and burns are counted |
| `Decommission` | the drain of a chain composed with `Bank` |
| `DecommissionProofs` | completed, interrupted and resumed drains |
| `Accounts` | user-service and account index |
| `AccountsProofs` | reachable accounts, faithful index, explained home chains |
| `MC...` | instances of the above for TLC |

`ColdPath`, `ReservePath`, `Decommission` and `HotPath` extend `Bank`: their transactions are
included by Bank's own actions, between the calls of others. They are composed with `Bank`
one at a time, because they meet only there (and in the account nonces, see `Decommission`).
The slower three start with Banks in use (`Operating`): with the empty ledger of a new
deployment, and no users among their steps, they would have nothing to move.

An operator `name_Fault` that precedes `name` is `name` with a plausible programming error. No
specification uses it; replacing `name` by it must make a property fail.

### Bank

Chains are `1..N`, users `1..NumUsers`. Variables are the contracts' storage, one function over
the chains each; `transfers`, `rebalances` and `bridges` are the logs in the order they
happen and double as the messages in transit: a log entry is deliverable, any number of times
and in any order, once it is there. A hash id is the tuple it hashes, so `IdsAreUnique` is a
statement about nonces. A contract call is one atomic action whose guards are its modifiers
and reverts; a reverting call is no step. `bridgeReserve` includes the adapter's `bridgeOut`;
`bridgeIn` includes CCTP's mint and the Bank's `completeReserveBridge`, all one transaction.
`transferHotPath` accepts any `uint256` as destination and the Treasury reads its low 64 bits;
`chainOf` models this with `N + 1` in the role of 2^64, so ids above `N` alias chains and
0 and `N + 1` name no chain.

`RelayerStep` lets the relayer release a logged transfer on the chain its destination names.
The contract does not enforce this (it trusts `RELAYER_ROLE`); it is the assumption that
`HotPath` discharges.

`Transit` says what the Banks promise together: value enters and leaves through wallets,
departs from a chain in a numbered message and arrives once, in full, where the message says.
`SupplyTransits` maps it to `totalSupply`, `rebalances` and `processedMessages`;
`ReserveTransits` to `usdc`, `bridges` and `processedReserveMessages`. Every other operation
must be a stuttering step of both.

Left out: allowances, gas, role administration (callers are the ones that hold the role), more
than one collateral token per chain, USDC sent to a Bank outside `deposit`, rewriting of
blocks, replacement of an adapter by a different one, `CCTPReserveBridge`'s setters.

### HotPath

Every `await` of `relay_event` ends a step of one task (`checkRecorded`, `checkActive`,
`fetchDepth`, `insert_relay_log`, `sendRelease`, `wait_for_receipt`, `update_relay_log`).
Block numbers are positions in the global log: `cursor[c]` is how far the poller has read. A
first poll starts anywhere (the current block is any suffix of the log that does not split a
transaction). A submitted release stays in `mempool` until it is included (and succeeds or
reverts) or dropped; a task that stops waiting leaves its transaction there. `txHash` is the
row key: several logs of one transaction share it, and the task that finds the row there
returns, so that at most one transfer of a transaction is sure to be settled. Faults: `rpc` (a lost answer, an empty log
query, a lagging node, a range that the clamp cuts), `db` (reads answer "no", writes do
nothing), `restart`. Account nonces are abstracted: a transaction may always be refused or
dropped. The `ActivationPublished` topic the loop asks for (seven arguments) is not the one
the contract emits (eight), so that only decommissions change the active set.

### Watcher

The watcher exists to check the relayer, so here the relayer may release any id (one nobody
initiated, too) with any recipient and amount on any chain; of the Banks only the logs the
watcher reads and their pause flags remain. Recipient and amount are compared and nothing
else, so the pair is one value (`Contents`). The loops have one cursor per chain each; the
cache is what `poll_initiated` put there, possibly from a head that is behind, since the logs
are fetched before the cache is locked. `verify_release` is `already_verified`, `classify`,
up to `MAX_PAUSE_RETRIES` rounds of `submit_pause_once` and `wait_for_receipt`, and
`insert_alert`. The pauser key is taken to be loaded. A submitted pause may be included late
or never.

`SourceNotFound` means "not in the cache", which is weaker than "no such event": after a
restart, or when the released loop overtakes the other one, a genuine release gets that verdict
and its Bank is paused, which the model reaches without any fault although watcher.rs:261 explains
the verdict as "no `HotPathInitiated` event with this `transferId`"; no property speaks of this
verdict. The row of an id holds its first
verdict only, so that a second release of the same id on another chain is not verified once
the first one is recorded; `AnomaliesAreAlerted` excludes that case by its own words.

### RebalancePlan and ColdPath

`compute_rebalance_ops` iterates a function on the locals of its loop, as often as the loop can
run at most. The callers fill
its arguments from a HashMap, so the order of equal amounts is arbitrary and a plan is any
member of `plans(...)`. The reference lays surpluses and deficits end to end on two lines and
moves what the segments have in common. `max_wei_per_op` is positive: with
`COLD_PATH_MAX_WEI=0` the loop moves nothing for ever.

`run_rebalance_cycle` is `startCycle`, one `readDepth` per chain, and for each operation
`checkOp` (live depth, in-flight row, insert), `readCap`, and per chunk up to `MAX_RETRIES`
rounds of `submit` and `awaitReceipt`; `recordFailure` is the update of an operation given up,
which the database may refuse, and the row then stays pending. Rows carry `aged` in place of their time of creation;
an operation whose insert failed keeps a place with status `none`, for the properties.
`burner` is a history variable: which operation and chunk an entry of `rebalances` is. `age`
lets 24 hours pass for a row the loop is done with; a cycle takes minutes.

Nothing claims that pools come to rest: the snapshot of a cycle does not count liquidity that
is still on its way, so two cycles may move more than needed and back.

### ReservePath

Three loops with their own control (`planner`, `relayer`, the watcher's cursors) over one
table. Updates name a row and overwrite its status whatever it was. A burn or a row given up
is marked by `recordOutFailure` or `recordInFailure` (the latter also for an attestation that
is not valid hex); a database error leaves the row as it is (`update_failed`). `watcherSeen` and
`watching` are the completion cursor, which starts at the head after a restart, so the first
scan sees any part of what was completed before. `grow` lets the stuck timeout (hours) and then
24 hours pass for a row that no loop is submitting for (minutes). The relayer writes `relayed`
or `failed` after a wait, and the completion watcher may have completed the row by then; its
cursor is past the event, so that a row reopened like this ends as failed although its USDC
arrived. `OnlyRelayerReopens` says that this is the only way a completed row is reopened. `servable` is the difference
of the two chain sets; the event that would enlarge it is not decoded (see `HotPath`). The
relayer key is taken to be loaded. `MaxBridges` exceeds the burns that the bounded rows and
attempts allow, so that it never blocks an inclusion.

### Decommission

`start_decommission_drain` is one step: what precedes the lock only reads, and the lock is held
while the plan is built. Roles, freshness of the index and dust tolerance 0 are taken as given.
The task is `gate`, then per call `next`, `send`, `await`, and for holders `setHome` and
`complete`; `end` is the last part of the spawned task. Here account nonces matter and are
modelled: `nonces` on chain, `nonce_cache` in the service, and a mempool ordered by them. A
reverted transaction uses its nonce and the cache does not advance, a nonce that could not be
fetched leaves the cache empty, and other parts of the
Treasury use the same account (`otherTx`), after which calls are refused until a restart.
`MaxRebalances` and `MaxBridges` exceed what the plans of the instance submit.

What the code does and the properties therefore do not exclude: `bridge_holder` calls
`Bank.rebalance`, which burns the pool and leaves the holder's own SyncUSD on the source
(cross-chain-routing/spec.md:243 says "the holder's SyncUSD"); the target is checked once, not
before each call (spec.md:258); the source need not be frozen (spec.md:268); the residual
supply is not verified before pool and reserve are drained (spec.md:287); a failed holder is
bridged again on the next start; a pending row of a holder who has withdrawn everything stays
pending and blocks other drains.

### Accounts

A passkey stands for a credential id and the address derived from it; both columns are unique.
Transactions of the user-service are split where another one can come between:
`create_user` between its two inserts, `revoke` between its row locks and its commit, and the
home-chain override between its unlocked read and its update. The indexer is one task; a block
holds one event, a deposit or another kind, and the Bank's logs of a scan come before the
token's. A node may be behind its chain: the cursor then moves back and the next scan fetches
the same logs again. Callers act for users with an active credential, as the bff does. `MaxRequests` bounds
calls and blocks together. Left out: display names, formats, amounts, activity and balance
queries, one override at a time.

Also visible in the code and excluded from the properties by their own words: a deposit before
registration, or a push that fails, never sets the home chain (user-identity/spec.md:80 has it
set on the first observed deposit); an override that races the first deposit may audit NULL as
previous chain; logs that could not be fetched, or are further behind than `MAX_BLOCK_RANGE`,
stay out of the index. Not modelled: the fallback balance of `account_event_repo.rs:106` adds a
`deposited` row and the `Transfer` row of the same mint.

## 3. Runs

| Run | Instance | Checks |
|---|---|---|
| `bank` | 2 chains, just initialized or with every setting made, 1 user, 2 transfers, 1 rebalance, 1 bridge, amounts and caps 0 and 1, any 2 governance calls | `TypeOK`, `IdsAreUnique`, `Backed`, `TransfersCovered`, `SupplyIsHeld`, `SupplyTransits`, `ReserveTransits`, `SealedForever`, `FrozenOnlyShrinks` |
| `hot_path_records` | 2 transfers, in one transaction or two, to a chain or nobody, a pool for one, 2 attempts, 1 RPC fault or restart, fair | `HotPathTypeOK`, `CompletedMeansReleased`, `ReleasesAreRecorded`, `WatchedTransactionsSettle` |
| `hot_path_implements_bank` | 1 transfer, 2 tasks for it, 2 faults of any kind, a decommission | `ImplementsBank`, `CompletedMeansReleased` |
| `hot_path_batched` | 2 transfers to a chain, in one transaction or two, no faults, fair | violation of `WatchedTransfersSettle` |
| `hot_path_missed` | 1 transfer, 1 restart, fair | violation of `TransfersSettle` |
| `watcher_verdicts` | 1 transfer, any 2 releases on 2 chains, 1 fault of any kind, 1 unpause | `WatcherTypeOK`, `VerdictsAreGenuine` |
| `watcher_alerts` | the same without faults, 2 attempts to pause, fair | `AnomaliesAreAlerted` |
| `cold_path` | 3 chains in use with 4 units spread unevenly, a waiting release, 2 burns, 2 attempts, caps 0 and 1, 1 disturbance of any kind, fair; plans for every spread of 0..5 | `ColdPathTypeOK`, `PlansAreExact`, `SubmittedMeansBurned`, `BurnsAreAccountedFor`, `OneOpInFlight`, `DeficitsAreServed` |
| `reserve_path` | 2 chains in use, 2 operations, 3 bridges, 2 attempts, 1 disturbance, fair | `ReservePathTypeOK`, `SuccessMeansCredited`, `BurnsMatchRows`, `OnlyRelayerReopens`, `RowsSettle`, `BurnsArrive` |
| `decommission` | 3 chains, 2 holders of whom one is registered, drains to either target, 1 disturbance, fair | `DecommissionTypeOK`, `CompletedMeansMoved`, `IncompleteIsResumable`, `CompletedStayDone`, `InterruptedAreSettled` |
| `decommission_drained` | the same, both registered, no disturbance | violation of `CompleteMeansDrained` |
| `accounts` | 2 chains, 2 passkeys, 1 name in 2 casings, 3 calls or blocks, 1 disturbance (a node that is behind among them), indexer fair | `AccountsTypeOK`, `AccountsAreReachable`, `IndexIsFaithful`, `HomeChangesAreExplained`, `FirstDepositSetsHome` |

Bounds. Two chains give every pair of roles; the planner needs a third to have a choice. Two
transfers make a repeated or reordered message different from the first; an endowment or a
spread smaller than the demand lets a pool or a reserve be too small; 0 reaches the zero-amount
reverts. Two slots per log are needed for two tasks to race on one row; two attempts for a
retry to overlap a late inclusion. One disturbance at any point suffices for each way in which
two steps come apart; what two of them do together is covered by `hot_path_implements_bank` and,
for the safety properties, by the proofs (so the row that stays open because retries were
exhausted by one fault and its last update by another).
Every bound is a constant whose name begins with `Max` (or `Slots`, `WatcherSlots`,
`PlanDepth`) and is in a guard. The instances of `ColdPath`, `ReservePath` and `Decommission`,
and of the hot path for `hot_path_records` and `hot_path_batched`, begin in a deployment that is
in use (`MCInit`, `MCInUse`), which Bank's own actions reach. Deadlock is not checked: a system in which all bounded calls were made may stop. `ReleasesAreRecorded`
is stated without database faults: with them the insert may fail and the release goes out all
the same; `OneOpInFlight`, `CompletedStayDone`, `IncompleteIsResumable` and `BurnsMatchRows` say
so themselves.

Fairness. The loops of the services sleep and repeat for ever, tokio runs every task, and each
wait has a timeout: weak fairness of each loop and task. In the hot path and the watcher nothing
is assumed of the chains: a release that is never included is recorded as failed. Cold path,
reserve path and decommission also assume that a submitted transaction is included when
nothing disturbs it, that CCIP delivers and that Circle attests. `DeficitsAreServed` further
needs days to pass, `RowsSettle` (as its antecedent) the stuck timeout, and
`InterruptedAreSettled` an operator who keeps asking: strong fairness of
`start_decommission_drain`, since requests are refused while a drain runs.

What the violations show. `hot_path_missed`: a transfer made while the service restarts lies
before the block at which the first poll begins, and nothing looks at it again.
`hot_path_batched`: of two transfers in one transaction, both seen by the poller, the task of
the second finds the row of the first and returns; it is neither released nor recorded. The
guarantee that does hold is one per transaction, `WatchedTransactionsSettle`.
`decommission_drained`: with no fault at all, the bridges of the holders burn the pool that
`drain_pool` was planned to move; it reverts, the stale nonce makes `drain_reserve` fail, both results are discarded and operators
are told that the chain is ready for finalization.

## 4. Proofs

Every theorem holds for any number of chains, users, requests, retries and disturbances and for
any bounds, under the assumption of its module (`BankAssumption`, `HotPathAssumption`, ...).
These only give the constants their types. A specification that starts with a ledger in use
(`ColdPath`, `ReservePath`, `Decommission`) starts in any state that satisfies `Operating`: well
typed, backed, covered, transfer nonces below their counters, with no liquidity moved between
chains yet. Bank's calls lead there, and the instances of section 3 are among those states.

Every proof finds an inductive invariant, shows with one lemma per action that it is kept, and
reads the properties off it.

* `BankProofs`: **`TypeCorrect`**. `TypeOK` is inductive; that balances, pools and reserves
  stay natural numbers is where every "insufficient" revert is needed. The module also says
  what one update does to a total. Totals are defined by recursion on the index; the
  lemmas argue by the least index at which a statement fails (`WFMin`), so that no induction
  schema is needed. **`UniqueIds`**, **`FullyBacked`**, **`Covered`**, **`SupplyHeld`**. The
  invariant `LedgerInv` adds to the properties that each entry of a log carries a nonce below
  its chain's counter and that only logged messages are in the settled sets. Without the
  first, a new entry could equal an old one; without the second, a settled set could already
  hold the message that is about to be logged, and its amount would never count as
  outstanding. A delivery then changes one term of one sum.
  **`SealHolds`** needs that a sealed Bank is paused (`SealedIsPaused`), **`FrozenShrinks`** only
  types. **`SupplyImplementsTransit`** and **`ReserveImplementsTransit`** are the refinements of
  `Transit`: `Numbered` says that the nonce of a message is the number of messages that left its
  chain before it, so each call is a departure, an arrival or a stuttering step.
  For the services, `BankCall` is a step of users, relayer or Treasury with any amount at all,
  and `CallKeeps` says that each one keeps `BankInv` (`LedgerInv` and `SupplyIsHeld`).
* The compositions: **`HotPathIsSafe`**, **`ColdPathIsSafe`**, **`ReservePathIsSafe`**,
  **`DrainIsSafe`**. The hot path implements `Bank` (below). For the others, `Operating` implies
  `BankInv`, and every step of a service is a `BankCall` or leaves the Banks alone, because its
  transactions carry amounts and chains of the right types (that is what its own invariant is
  for). Backing, coverage, held supply and unique ids therefore survive retries, late
  inclusions and interrupted drains.
* `HotPathProofs`: **`RelayedAreServed`**, **`HotPathRefinesBank`**. The refinement mapping is the
  identity on Bank's variables. The invariant `RelayInv` says that tasks and mempool entries are
  about existing logs with a served destination, so an inclusion, however late, is a
  `RelayerStep`, and every other step of the service leaves the chains alone: Bank's theorems
  carry over. **`HotPathTyped`**, **`CompletedAreReleased`** and **`ReleasedAreRecorded`** rest on
  `RecordInv`: a task with a successful receipt is about a released transfer, a transaction in
  the mempool has its row, and if a task still waits for it, that task is at the wait. The
  last theorem has the hypothesis `"db" \notin Faults`, as its run has: `insert_relay_log`
  ignores its result.
* `WatcherProofs`: **`WatcherTyped`**, **`VerdictsEarned`**. The verdict that a task carries from
  `classify` to `insert_alert` stays true of the logs, which only grow.
* `AccountsProofs`: **`AccountsTyped`**, **`UsersAreReachable`**, **`IndexFaithful`**,
  **`HomesAreExplained`**. For the user-service: a revocation that holds its locks is the only
  one of its user and leaves an active credential behind (`Revocable`), whatever commits in
  between. For the indexer: an event behind the cursor
  is in the table, and one below the end of the current scan is in it or still to be
  ingested (`NothingSkipped`), so that the cursor moves past nothing; before a push the deposit
  is in the table (`PushIsDue`).
* `DecommissionProofs`: **`DrainTyped`**, **`CompletedAreMoved`**, **`InterruptedAreResumable`**,
  **`CompletedAreDone`**. `TaskMoved` links a task with a receipt to the burn behind it,
  `Resumable` the running drain to the incomplete rows, and `CompletedPassed` says that the
  completed holders are those the task found completed or has passed in its plan, which names
  no holder twice.
* `PlanProofs`: **`PlanExact`**. For every finite set of chains, every distribution of funds,
  target and positive cap, what `compute_rebalance_ops` returns is `Exact`: between each pair
  of chains it moves what the reference plan says, in the fewest moves under the cap, and
  nothing else. The loop is `Iterates`, a recursive function of the number of iterations; the
  invariant of an iteration says that the moves so far cover both lines up to the same point,
  and a measure, that `iterations(...)` are enough to reach the end of one of them.
* `ColdPathProofs`: **`ColdPathTyped`**, **`PlansExact`**, **`SubmittedAreBurned`**,
  **`OneInFlight`**, **`BurnsAccounted`**. Every step is shown to have one of eleven effects on
  operations, mempool and burns (`Effect`), and every part of `ColdInv` is kept by each effect.
  `PlansExact` is `PlanExact` for the depths a cycle has read. `Counted` is what
  `BurnsAccounted` needs: burns of a chunk and its transactions in the mempool are together at
  most the attempts made, and at most the missed answers, plus one while the current attempt
  may still succeed; counting burns alone would not survive a transaction that is included
  after the next attempt began.
* `ReservePathProofs`: **`ReservePathTypeCorrect`**, **`SuccessIsCredited`**,
  **`CompletedAreKept`**, **`BurnsAreMatched`**. The three loops meet
  only in the table, and their updates never look at a row's status, so the invariant follows
  the message instead: the row that the planner holds has none yet, and a receipt names the
  burn of that row (`Held`); every row in the relayer's queue has one, and its receipt is about
  a credited message (`Queued`); a row that has a message has that of its own burn (`Rows`).
  Every step is reduced to what it does to logs, table, mempool, planner and relayer (`Effect`):
  logs only grow, a credit is never taken back, and a message enters a row only while
  the planner holds it. The parts of the invariant are then kept by the effects.
  `CompletedAreKept` follows: the row that the planner holds has no message and so is not
  completed, and the stuck timeout selects open rows.
  `BurnsMatchRows` needs a second invariant, `BurnInv`. `Counted` counts as in the cold path: the
  burns of a row and its transactions in the mempools are together at most the attempts
  made, and at most the missed answers, plus one while the current attempt may still succeed.
  `Traced` ties every burn to the pair and the amount of its row, and `Filed` says that
  every operation has its row while the database answers.

Only model-checked: liveness (`WatchedTransactionsSettle`, `AnomaliesAreAlerted`,
`DeficitsAreServed`, `RowsSettle`, `BurnsArrive`, `InterruptedAreSettled`,
`FirstDepositSetsHome`), which is outside the prover's reach. Every safety property that a
passing run checks is also a theorem.

## 5. Plan

1. Modules still to write: `RouteReceiver` (publication and the life cycle of a chain),
   `TempoReserveBridge` (signers, threshold, pending releases), the nonce cache that the hot
   path's tasks share, challenges and sessions of the bff, the run life cycle of the CRE workflows.

Not modelled: the pool manager, whose snapshots only a query reads; balance, activity and
withdrawal-routing queries; the web client, schema validation, encodings, configuration and
generated code, which keep no protocol state.
