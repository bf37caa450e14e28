------------------------------ MODULE Watcher -------------------------------
(***************************************************************************)
(* The Treasury's watcher (watcher.rs): one loop caches HotPathInitiated   *)
(* logs, another turns every HotPathReleased log into a task that compares *)
(* the release with its source, pauses the Bank when they differ or when   *)
(* the source is not in the cache, and records the verdict.                *)
(*                                                                         *)
(* Of the Banks it keeps what the watcher sees: the two kinds of log and   *)
(* the pause flags.  The relayer is not trusted here: a release may carry  *)
(* any recipient and amount, go to any chain, and name an id nobody        *)
(* initiated.  Recipient and amount, which are only compared, are one      *)
(* value.  Operators name_Fault are faulty variants, as in Bank.           *)
(***************************************************************************)
EXTENDS Integers, Sequences

CONSTANTS
    N,                  \* number of chains
    Sources,            \* chains on which users initiate transfers
    Contents,           \* pairs of a recipient and an amount
    Locked,             \* the ones that users transfer
    MAX_PAUSE_RETRIES,  \* attempts to pause per task
    MaxInitiated,       \* bound: hot-path transfers
    MaxReleases,        \* bound: releases
    MaxUnpauses,        \* bound: times governance unpauses a Bank
    WatcherSlots,       \* bound: tasks of one release at the same time
    WatcherFaults,      \* which of "rpc", "db", "restart" happen
    MaxWatcherFaults    \* bound: number of faults

ASSUME WatcherAssumption ==
    /\ N \in Nat \ {0} /\ Sources \subseteq 1..N /\ Locked \subseteq Contents
    /\ MAX_PAUSE_RETRIES \in Nat \ {0} /\ WatcherSlots \in Nat \ {0}
    /\ MaxInitiated \in Nat /\ MaxReleases \in Nat /\ MaxUnpauses \in Nat
    /\ MaxWatcherFaults \in Nat /\ WatcherFaults \subseteq {"rpc", "db", "restart"}

Chains == 1..N
Forged == 0                     \* stands for the ids that nobody initiated
Ids == 0..MaxInitiated          \* the k-th transfer initiated has id k
Slots == 1..WatcherSlots
Releases == 1..MaxReleases

VARIABLES
    initiated,   \* HotPathInitiated logs of all chains, in order
    releases,    \* HotPathReleased logs of all chains, in order
    paused,      \* pause flag of each Bank
    unpauses,    \* number of unpauses so far
    initCursor,  \* last_block of poll_initiated_loop, as a log position
    relCursor,   \* last_block of poll_released_loop, as a log position
    cache,       \* ids in initiated_cache
    task,        \* the verify_release tasks of each release
    mempool,     \* pause transactions not yet included; slot 0 when nobody
                 \* waits for one any more
    alerts,      \* alert_type of each row of treasury.watcher_alerts
    faults       \* number of faults so far

chainVars   == <<initiated, releases, paused, unpauses>>
watcherVars == <<initCursor, relCursor, cache, task, mempool, alerts, faults>>
vars == <<chainVars, watcherVars>>

Unset == MaxInitiated + MaxReleases + 1   \* cursor before the first poll
AlertType == {"verified", "mismatch", "source_not_found"}
Idle == [pc |-> "idle", verdict |-> "verified", attempt |-> 1, receipt |-> "none"]
Task == [pc : {"idle", "guard", "classify", "pause", "wait", "insert"},
         verdict : AlertType, attempt : 1..MAX_PAUSE_RETRIES,
         receipt : {"none", "ok", "reverted"}]

WatcherTypeOK ==
    /\ initiated \in Seq([src : Chains, content : Contents])
    /\ releases \in Seq([chain : Chains, id : Ids, content : Contents])
    /\ paused \in [Chains -> BOOLEAN] /\ unpauses \in 0..MaxUnpauses
    /\ initCursor \in [Chains -> 0..Unset] /\ relCursor \in [Chains -> 0..Unset]
    /\ cache \subseteq 1..Len(initiated)
    /\ task \in [Releases -> [Slots -> Task]]
    /\ mempool \subseteq [log : Releases, slot : 0..WatcherSlots]
    /\ alerts \in [Ids -> AlertType \cup {"none"}]
    /\ faults \in 0..MaxWatcherFaults

NoTasks == [k \in Releases |-> [s \in Slots |-> Idle]]

WatcherInit ==
    /\ initiated = <<>> /\ releases = <<>>
    /\ paused = [c \in Chains |-> FALSE] /\ unpauses = 0
    /\ initCursor = [c \in Chains |-> Unset] /\ relCursor = [c \in Chains |-> Unset]
    /\ cache = {} /\ task = NoTasks /\ mempool = {}
    /\ alerts = [id \in Ids |-> "none"]
    /\ faults = 0

Fault(kind) == kind \in WatcherFaults /\ faults < MaxWatcherFaults /\ faults' = faults + 1
NoFault == UNCHANGED faults

-----------------------------------------------------------------------------
(* The chains. *)

transferHotPath(c, content) ==
    /\ Len(initiated) < MaxInitiated
    /\ ~paused[c]
    /\ initiated' = Append(initiated, [src |-> c, content |-> content])
    /\ UNCHANGED <<releases, paused, unpauses, watcherVars>>

(* Whoever holds RELAYER_ROLE releases id on chain c, once per chain. *)
releaseHotPath(c, id, content) ==
    /\ Len(releases) < MaxReleases
    /\ ~paused[c]
    /\ id = Forged \/ id <= Len(initiated)
    /\ \A k \in DOMAIN releases : ~(releases[k].chain = c /\ releases[k].id = id)
    /\ releases' = Append(releases, [chain |-> c, id |-> id, content |-> content])
    /\ UNCHANGED <<initiated, paused, unpauses, watcherVars>>

unpause(c) ==
    /\ unpauses < MaxUnpauses
    /\ paused[c]
    /\ paused' = [paused EXCEPT ![c] = FALSE]
    /\ unpauses' = unpauses + 1
    /\ UNCHANGED <<initiated, releases, watcherVars>>

(* A pause() transaction is included, if ever; pause() reverts on a paused
   Bank. *)
includePause(x) ==
    LET c == releases[x.log].chain
        Receipt(r) == IF x.slot = 0 THEN task ELSE [task EXCEPT ![x.log][x.slot].receipt = r]
    IN  /\ mempool' = mempool \ {x}
        /\ task' = Receipt(IF paused[c] THEN "reverted" ELSE "ok")
        /\ paused' = [paused EXCEPT ![c] = TRUE]
        /\ UNCHANGED <<initiated, releases, unpauses, initCursor, relCursor, cache, alerts, faults>>

-----------------------------------------------------------------------------
(* The two polling loops.  Both look at the current block only when they poll
   a chain for the first time, advance their cursor even when fetch_logs fails,
   clamp the range, and fetch again what a node that is behind moves them to. *)

(* Ranges of logs that a poll covers, by its cursor: own holds 0 and the
   positions of the chain's own logs, and blocks without one do not count. *)
NextRange(cursor, own) ==
    IF cursor = Unset
    THEN {r \in [from : own, head : own] : \A k \in own : k <= r.head}
    ELSE {r \in [from : {cursor}, head : own] : r.from < r.head}
FaultyRange(cursor, own) ==
    IF cursor = Unset THEN {}
    ELSE {r \in [from : own, head : own] :
             \/ cursor <= r.from /\ \A k \in own : k <= r.head
             \/ r.from = r.head /\ r.head < cursor}

InitiatedOf(c) == {0} \cup {k \in DOMAIN initiated : initiated[k].src = c}
ReleasesOf(c) == {0} \cup {k \in DOMAIN releases : releases[k].chain = c}

InitiatedScan(c, r) ==
    /\ cache' = cache \cup {k \in InitiatedOf(c) : r.from < k /\ k <= r.head}
    /\ initCursor' = [initCursor EXCEPT ![c] = r.head]

(* The logs are fetched first and cached after an await: head may be behind. *)
poll_initiated(c) ==
    /\ \/ NoFault /\ \E r \in NextRange(initCursor[c], InitiatedOf(c)) : InitiatedScan(c, r)
       \/ Fault("rpc") /\ \E r \in FaultyRange(initCursor[c], InitiatedOf(c)) : InitiatedScan(c, r)
    /\ UNCHANGED <<chainVars, relCursor, task, mempool, alerts>>

ReleasedScan(c, r) ==
    LET fetched == {k \in ReleasesOf(c) : r.from < k /\ k <= r.head}
        FreeSlot(k) == CHOOSE s \in Slots : task[k][s].pc = "idle"
    IN  /\ \A k \in fetched : \E s \in Slots : task[k][s].pc = "idle"
        /\ task' = [k \in Releases |-> IF k \in fetched
                        THEN [task[k] EXCEPT ![FreeSlot(k)] = [Idle EXCEPT !.pc = "guard"]]
                        ELSE task[k]]
        /\ relCursor' = [relCursor EXCEPT ![c] = r.head]

poll_released(c) ==
    /\ \/ NoFault /\ \E r \in NextRange(relCursor[c], ReleasesOf(c)) : ReleasedScan(c, r)
       \/ Fault("rpc") /\ \E r \in FaultyRange(relCursor[c], ReleasesOf(c)) : ReleasedScan(c, r)
    /\ UNCHANGED <<chainVars, initCursor, cache, mempool, alerts>>

-----------------------------------------------------------------------------
(* verify_release, for release k in slot s. *)

Goto(k, s, next) == task' = [task EXCEPT ![k][s] = next]
At(k, s, pc) == task[k][s].pc = pc /\ UNCHANGED <<chainVars, initCursor, relCursor, cache>>

(* A database error reads as "not verified yet". *)
already_verified(k, s) ==
    /\ At(k, s, "guard")
    /\ \/ NoFault /\ Goto(k, s, IF alerts[releases[k].id] # "none" THEN Idle
                                ELSE [Idle EXCEPT !.pc = "classify"])
       \/ Fault("db") /\ Goto(k, s, [Idle EXCEPT !.pc = "classify"])
    /\ UNCHANGED <<mempool, alerts>>

verify_against_Unchecked(release) == "verified"
verify_against(release) ==
    IF release.content = initiated[release.id].content THEN "verified" ELSE "mismatch"

verdict(release) ==
    IF release.id \in cache THEN verify_against(release) ELSE "source_not_found"

classify(k, s) ==
    LET v == verdict(releases[k]) IN
    /\ At(k, s, "classify") /\ NoFault
    /\ Goto(k, s, [Idle EXCEPT !.pc = IF v = "verified" THEN "insert" ELSE "pause", !.verdict = v])
    /\ UNCHANGED <<mempool, alerts>>

(* pause_contract: the next attempt, or on to the alert. *)
retry_Unbounded(t) == [t EXCEPT !.pc = "pause", !.attempt = @ + 1, !.receipt = "none"]
retry_NoAlert(t) == IF t.attempt < MAX_PAUSE_RETRIES
                    THEN [t EXCEPT !.pc = "pause", !.attempt = @ + 1, !.receipt = "none"]
                    ELSE Idle
retry(t) == IF t.attempt < MAX_PAUSE_RETRIES
            THEN [t EXCEPT !.pc = "pause", !.attempt = @ + 1, !.receipt = "none"]
            ELSE [t EXCEPT !.pc = "insert", !.receipt = "none"]

submit_pause_once(k, s) ==
    /\ At(k, s, "pause")
    /\ \/ NoFault /\ mempool' = mempool \cup {[log |-> k, slot |-> s]}
          /\ Goto(k, s, [task[k][s] EXCEPT !.pc = "wait"])
       \/ NoFault /\ UNCHANGED mempool /\ Goto(k, s, retry(task[k][s]))
       \/ Fault("rpc") /\ mempool' = mempool \cup {[log |-> k, slot |-> 0]}
          /\ Goto(k, s, retry(task[k][s]))
    /\ UNCHANGED alerts

abandoned(xs) == (mempool \ xs) \cup {[x EXCEPT !.slot = 0] : x \in mempool \cap xs}

wait_for_receipt(k, s) ==
    /\ At(k, s, "wait") /\ NoFault
    /\ \/ task[k][s].receipt = "ok" /\ UNCHANGED mempool
          /\ Goto(k, s, [task[k][s] EXCEPT !.pc = "insert"])
       \/ mempool' = abandoned({[log |-> k, slot |-> s]}) /\ Goto(k, s, retry(task[k][s]))
    /\ UNCHANGED alerts

(* ON CONFLICT DO NOTHING: the first verdict on an id stays. *)
insert_alert(k, s) ==
    LET id == releases[k].id IN
    /\ At(k, s, "insert")
    /\ \/ NoFault /\ alerts' = [alerts EXCEPT ![id] = IF @ = "none" THEN task[k][s].verdict ELSE @]
       \/ Fault("db") /\ UNCHANGED alerts
    /\ Goto(k, s, Idle)
    /\ UNCHANGED mempool

VerifyStep(k, s) ==
    \/ already_verified(k, s) \/ classify(k, s)
    \/ submit_pause_once(k, s) \/ wait_for_receipt(k, s) \/ insert_alert(k, s)

(* Watcher::new after a crash: cache, cursors and tasks are gone. *)
restart ==
    /\ Fault("restart")
    /\ initCursor' = [c \in Chains |-> Unset] /\ relCursor' = [c \in Chains |-> Unset]
    /\ cache' = {} /\ task' = NoTasks
    /\ mempool' = abandoned(mempool)
    /\ UNCHANGED <<chainVars, alerts>>

-----------------------------------------------------------------------------
ChainStep ==
    \/ \E c \in Sources, content \in Locked : transferHotPath(c, content)
    \/ \E c \in Chains, id \in Ids, content \in Contents : releaseHotPath(c, id, content)
    \/ \E c \in Chains : unpause(c)
    \/ \E x \in mempool : includePause(x)

WatcherStep ==
    \/ \E c \in Chains : poll_initiated(c) \/ poll_released(c)
    \/ \E k \in Releases, s \in Slots : VerifyStep(k, s)
    \/ restart

WatcherNext == ChainStep \/ WatcherStep

WatcherSpec == WatcherInit /\ [][WatcherNext]_vars

(* Both loops repeat for ever and tokio runs every task; pauses need not be
   included: a task gives up and records its verdict. *)
WatcherFairness ==
    /\ \A c \in Chains : WF_vars(poll_released(c) /\ NoFault)
    /\ \A k \in Releases, s \in Slots : WF_vars(VerifyStep(k, s))

FairWatcherSpec == WatcherSpec /\ WatcherFairness

-----------------------------------------------------------------------------
Logged(id) == id \in 1..Len(initiated)
Genuine(release) == Logged(release.id) /\ release.content = initiated[release.id].content

(* Verdicts are earned: a row says "verified" only if a release with that id
   pays what the source locked, and "mismatch" only if one does not; neither
   duplicate tasks, restarts nor database errors write a verdict by mistake.
   (verify_release, verify_against, insert_alert.) *)
VerdictsAreGenuine ==
    \A id \in Ids :
        /\ alerts[id] = "verified" => \E k \in DOMAIN releases : releases[k].id = id /\ Genuine(releases[k])
        /\ alerts[id] = "mismatch" => \E k \in DOMAIN releases :
               releases[k].id = id /\ Logged(id) /\ ~Genuine(releases[k])

OnlyRelease(k) == \A j \in DOMAIN releases : releases[j].id = releases[k].id => j = k

Alerted(k) ==
    /\ k <= Len(releases)
    /\ \/ alerts[releases[k].id] \in {"mismatch", "source_not_found"}
       \/ ~OnlyRelease(k)
       \/ faults > 0

(* A release that differs from its source, or has none, and happens on a chain
   the watcher is watching is eventually recorded as an anomaly, unless a fault
   intervenes or the same id is also released on another chain (the row of an id
   holds one verdict, the first). *)
AnomaliesAreAlerted ==
    \A k \in Releases :
        (k <= Len(releases) /\ relCursor[releases[k].chain] < k /\ ~Genuine(releases[k]))
            ~> Alerted(k)
=============================================================================
