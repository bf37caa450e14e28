--------------------------- MODULE WatcherProofs ----------------------------
(***************************************************************************)
(* Theorems about the watcher, for every number of chains, releases, tasks *)
(* per release and faults: its state is well typed, and the verdicts it    *)
(* records are the ones it earned.                                         *)
(*                                                                         *)
(* A verdict is judged in one step, acted on in others and recorded in a   *)
(* last one; in between logs are added, tasks of the same release run and  *)
(* the process may restart.  The inductive invariant says that the verdict *)
(* a task carries stays true of the logs, which only grow.                 *)
(***************************************************************************)
EXTENDS Watcher, TLAPS

(* Verdict v is true of release k. *)
Judged(v, k) ==
    /\ v = "verified" => Genuine(releases[k])
    /\ v = "mismatch" => Logged(releases[k].id) /\ ~Genuine(releases[k])

(* Task t of release k is about a release in the logs, and once it has judged
   it, right about it. *)
GoodTask(t, k) ==
    /\ t.pc # "idle" => k \in DOMAIN releases
    /\ t.pc \in {"pause", "wait", "insert"} => Judged(t.verdict, k)

(* All tasks are good. *)
TasksAreGood == \A k \in Releases, s \in Slots : GoodTask(task[k][s], k)

(* The logs stay within the bounds of their ids. *)
LogsAreBounded == Len(initiated) <= MaxInitiated /\ Len(releases) <= MaxReleases

(* The inductive invariant. *)
WatcherInv == WatcherTypeOK /\ LogsAreBounded /\ TasksAreGood /\ VerdictsAreGenuine

(* The logs of the Banks. *)
Initiated == [src : Chains, content : Contents]
Release == [chain : Chains, id : Ids, content : Contents]

-----------------------------------------------------------------------------
(* What a task becomes is a task. *)
LEMMA TaskEdits ==
  /\ Idle \in Task
  /\ [Idle EXCEPT !.pc = "guard"] \in Task
  /\ [Idle EXCEPT !.pc = "classify"] \in Task
  /\ \A v \in AlertType, p \in {"insert", "pause"} : [Idle EXCEPT !.pc = p, !.verdict = v] \in Task
  /\ \A t \in Task : /\ [t EXCEPT !.pc = "wait"] \in Task
                     /\ [t EXCEPT !.pc = "insert"] \in Task
                     /\ retry(t) \in Task
<1>1. 1 \in 1..MAX_PAUSE_RETRIES
  BY WatcherAssumption
<1>2. Idle \in Task
  BY <1>1 DEF Idle, Task, AlertType
<1>3. \A v \in AlertType, p \in {"insert", "pause"} : [Idle EXCEPT !.pc = p, !.verdict = v] \in Task
  BY <1>1 DEF Idle, Task
<1>4. [Idle EXCEPT !.pc = "guard"] \in Task /\ [Idle EXCEPT !.pc = "classify"] \in Task
  BY <1>2 DEF Task
<1>5. ASSUME NEW t \in Task
      PROVE  [t EXCEPT !.pc = "wait"] \in Task /\ [t EXCEPT !.pc = "insert"] \in Task
  BY DEF Task
<1>6. ASSUME NEW t \in Task PROVE retry(t) \in Task
  <2>1. t.attempt < MAX_PAUSE_RETRIES => t.attempt + 1 \in 1..MAX_PAUSE_RETRIES
    BY WatcherAssumption DEF Task
  <2>2. QED
    BY <2>1 DEF Task, retry
<1>7. QED
  BY <1>2, <1>3, <1>4, <1>5, <1>6

(* A task that has judged keeps its verdict. *)
LEMMA TaskFields ==
  /\ Idle.pc = "idle" /\ [Idle EXCEPT !.pc = "guard"].pc = "guard"
  /\ [Idle EXCEPT !.pc = "classify"].pc = "classify"
  /\ \A t \in Task :
       /\ [t EXCEPT !.pc = "wait"].pc = "wait" /\ [t EXCEPT !.pc = "wait"].verdict = t.verdict
       /\ [t EXCEPT !.pc = "insert"].pc = "insert" /\ [t EXCEPT !.pc = "insert"].verdict = t.verdict
       /\ retry(t).pc \in {"pause", "insert"} /\ retry(t).verdict = t.verdict
BY DEF retry, Task, Idle

(* The logs only grow. *)
Grows == /\ \/ initiated' = initiated
            \/ \E e \in Initiated : initiated' = Append(initiated, e)
         /\ \/ releases' = releases
            \/ \E e \in Release : releases' = Append(releases, e)

(* What was logged stays, with its content. *)
LEMMA LogsStay ==
  ASSUME WatcherTypeOK, Grows
  PROVE  /\ initiated' \in Seq(Initiated) /\ releases' \in Seq(Release)
         /\ \A i \in 1..Len(initiated) : i \in 1..Len(initiated') /\ initiated'[i] = initiated[i]
         /\ \A k \in DOMAIN releases : k \in DOMAIN releases' /\ releases'[k] = releases[k]
<1>1. initiated \in Seq(Initiated) /\ releases \in Seq(Release)
  BY DEF WatcherTypeOK, Initiated, Release
<1>2. initiated' \in Seq(Initiated)
      /\ \A i \in 1..Len(initiated) : i \in 1..Len(initiated') /\ initiated'[i] = initiated[i]
  <2>1. ASSUME NEW e \in Initiated
        PROVE  /\ Append(initiated, e) \in Seq(Initiated)
               /\ \A i \in 1..Len(initiated) : i \in 1..Len(Append(initiated, e))
                                               /\ Append(initiated, e)[i] = initiated[i]
    BY <1>1
  <2>2. QED
    BY <1>1, <2>1 DEF Grows
<1>3. releases' \in Seq(Release)
      /\ \A k \in DOMAIN releases : k \in DOMAIN releases' /\ releases'[k] = releases[k]
  BY <1>1 DEF Grows
<1>4. QED
  BY <1>2, <1>3

(* So a true verdict stays true. *)
LEMMA JudgedStays ==
  ASSUME WatcherTypeOK, Grows, NEW k \in DOMAIN releases, NEW v, Judged(v, k)
  PROVE  Judged(v, k)'
BY LogsStay DEF Judged, Genuine, Logged

(* A good task that does nothing stays good while the logs grow. *)
LEMMA GoodTaskStays ==
  ASSUME WatcherTypeOK, Grows, NEW k, NEW t, GoodTask(t, k)
  PROVE  GoodTask(t, k)'
<1>1. CASE t.pc = "idle"
  BY <1>1 DEF GoodTask
<1>2. CASE t.pc # "idle"
  BY <1>2, LogsStay, JudgedStays DEF GoodTask
<1>3. QED
  BY <1>1, <1>2

(* Recorded verdicts stay genuine while the logs grow. *)
LEMMA VerdictsStay ==
  ASSUME WatcherTypeOK, Grows, VerdictsAreGenuine, UNCHANGED alerts
  PROVE  VerdictsAreGenuine'
<1> SUFFICES ASSUME NEW id \in Ids
    PROVE  /\ alerts[id] = "verified" => \E k \in DOMAIN releases' : releases'[k].id = id /\ Genuine(releases[k])'
           /\ alerts[id] = "mismatch" => \E k \in DOMAIN releases' :
                 releases'[k].id = id /\ Logged(id)' /\ ~Genuine(releases[k])'
  BY DEF VerdictsAreGenuine
<1>1. ASSUME alerts[id] = "verified"
      PROVE  \E k \in DOMAIN releases' : releases'[k].id = id /\ Genuine(releases[k])'
  <2>1. PICK k \in DOMAIN releases : releases[k].id = id /\ Genuine(releases[k])
    BY <1>1 DEF VerdictsAreGenuine
  <2>2. k \in DOMAIN releases' /\ releases'[k] = releases[k] /\ Genuine(releases[k])'
    BY <2>1, LogsStay DEF Genuine, Logged
  <2>3. QED
    BY <2>1, <2>2
<1>2. ASSUME alerts[id] = "mismatch"
      PROVE  \E k \in DOMAIN releases' : releases'[k].id = id /\ Logged(id)' /\ ~Genuine(releases[k])'
  <2>1. PICK k \in DOMAIN releases : releases[k].id = id /\ Logged(id) /\ ~Genuine(releases[k])
    BY <1>2 DEF VerdictsAreGenuine
  <2>2. k \in DOMAIN releases' /\ releases'[k] = releases[k] /\ Logged(id)' /\ ~Genuine(releases[k])'
    BY <2>1, LogsStay DEF Genuine, Logged
  <2>3. QED
    BY <2>1, <2>2
<1>3. QED
  BY <1>1, <1>2

-----------------------------------------------------------------------------
(* A step of one task: the others stay, and this one becomes a good task. *)
LEMMA GotoGood ==
  ASSUME WatcherInv, NEW k \in Releases, NEW s \in Slots, NEW next \in Task,
         Goto(k, s, next), GoodTask(next, k), UNCHANGED chainVars
  PROVE  task' \in [Releases -> [Slots -> Task]] /\ TasksAreGood'
<1>1. task \in [Releases -> [Slots -> Task]] /\ task[k] \in [Slots -> Task]
  BY DEF WatcherInv, WatcherTypeOK
<1>2. task' = [task EXCEPT ![k][s] = next]
  BY DEF Goto
<1>3. task' \in [Releases -> [Slots -> Task]]
  BY <1>1, <1>2
<1>4. \A j \in Releases, r \in Slots : task'[j][r] = IF j = k /\ r = s THEN next ELSE task[j][r]
  BY <1>1, <1>2
<1>5. \A j \in Releases, r \in Slots : GoodTask(task'[j][r], j)
  BY <1>4 DEF WatcherInv, TasksAreGood
<1>6. \A t, j : GoodTask(t, j)' <=> GoodTask(t, j)
  BY DEF GoodTask, Judged, Genuine, Logged, chainVars
<1>7. TasksAreGood'
  BY <1>5 DEF TasksAreGood, GoodTask, Judged, Genuine, Logged, chainVars
<1>8. QED
  BY <1>3, <1>7

(* A step that leaves the logs alone. *)
LEMMA NoGrowth == UNCHANGED chainVars => Grows
BY DEF chainVars, Grows

(* The chains' part of the state. *)
LEMMA ChainFrame ==
  ASSUME WatcherInv, UNCHANGED chainVars
  PROVE  /\ LogsAreBounded'
         /\ (initiated \in Seq(Initiated))' /\ (releases \in Seq(Release))'
         /\ (paused \in [Chains -> BOOLEAN])' /\ (unpauses \in 0..MaxUnpauses)'
         /\ Len(initiated') = Len(initiated)
BY DEF WatcherInv, WatcherTypeOK, LogsAreBounded, chainVars, Initiated, Release

(* Transactions that nobody waits for any more are still transactions. *)
LEMMA AbandonedType ==
  ASSUME mempool \subseteq [log : Releases, slot : 0..WatcherSlots], NEW xs
  PROVE  abandoned(xs) \subseteq [log : Releases, slot : 0..WatcherSlots]
<1>1. \A x \in mempool : [x EXCEPT !.slot = 0] \in [log : Releases, slot : 0..WatcherSlots]
  BY WatcherAssumption
<1>2. QED
  BY <1>1 DEF abandoned

(* One step of verify_release. *)
LEMMA VerifyInv ==
  ASSUME WatcherInv, NEW k \in Releases, NEW s \in Slots, VerifyStep(k, s)
  PROVE  WatcherInv'
<1> DEFINE t == task[k][s]
<1>1. /\ WatcherTypeOK /\ t \in Task /\ GoodTask(t, k) /\ VerdictsAreGenuine
      /\ UNCHANGED <<chainVars, initCursor, relCursor, cache>>
  <2>1. UNCHANGED <<chainVars, initCursor, relCursor, cache>>
    BY DEF VerifyStep, already_verified, classify, submit_pause_once, wait_for_receipt,
       insert_alert, At
  <2>2. QED
    BY <2>1 DEF WatcherInv, WatcherTypeOK, TasksAreGood
<1>2. faults' \in 0..MaxWatcherFaults
  <2>1. faults \in 0..MaxWatcherFaults /\ MaxWatcherFaults \in Nat
    BY WatcherAssumption DEF WatcherInv, WatcherTypeOK
  <2>2. faults' = faults \/ (faults < MaxWatcherFaults /\ faults' = faults + 1)
    BY DEF VerifyStep, already_verified, classify, submit_pause_once, wait_for_receipt,
       insert_alert, Fault, NoFault
  <2>3. QED
    BY <2>1, <2>2
<1>3. ASSUME NEW next \in Task, GoodTask(next, k), Goto(k, s, next),
             mempool' \subseteq [log : Releases, slot : 0..WatcherSlots],
             alerts' \in [Ids -> AlertType \cup {"none"}], VerdictsAreGenuine'
      PROVE  WatcherInv'
  <2>1. task' \in [Releases -> [Slots -> Task]] /\ TasksAreGood'
    BY <1>1, <1>3, GotoGood
  <2>2. WatcherTypeOK'
    BY <1>1, <1>2, <1>3, <2>1, ChainFrame DEF WatcherTypeOK, Initiated, Release
  <2>3. QED
    BY <1>1, <1>3, <2>1, <2>2, ChainFrame DEF WatcherInv
<1>4. ASSUME UNCHANGED alerts
      PROVE  alerts' \in [Ids -> AlertType \cup {"none"}] /\ VerdictsAreGenuine'
  BY <1>1, <1>4, NoGrowth, VerdictsStay DEF WatcherTypeOK
<1>5. mempool \subseteq [log : Releases, slot : 0..WatcherSlots]
  BY <1>1 DEF WatcherTypeOK
<1>6. t.pc # "idle" => k \in DOMAIN releases
  BY <1>1 DEF GoodTask
<1> HIDE DEF t
<1>7. CASE already_verified(k, s)
  <2>1. PICK next \in {Idle, [Idle EXCEPT !.pc = "classify"]} : Goto(k, s, next)
    BY <1>7 DEF already_verified
  <2>2. UNCHANGED <<mempool, alerts>> /\ t.pc = "guard"
    BY <1>7 DEF already_verified, At, t
  <2>3. next \in Task /\ GoodTask(next, k)
    BY <1>6, <2>1, <2>2, TaskEdits, TaskFields DEF GoodTask
  <2>4. QED
    BY <1>3, <1>4, <1>5, <2>1, <2>2, <2>3
<1>8. CASE classify(k, s)
  <2> DEFINE v == verdict(releases[k])
             next == [Idle EXCEPT !.pc = IF v = "verified" THEN "insert" ELSE "pause", !.verdict = v]
  <2>1. Goto(k, s, next) /\ UNCHANGED <<mempool, alerts>> /\ t.pc = "classify"
    BY <1>8 DEF classify, At, t
  <2>2. v \in AlertType
    BY DEF verdict, verify_against, AlertType
  <2>3. Judged(v, k)
    <3>1. releases[k].id \in cache => Logged(releases[k].id)
      BY <1>1 DEF WatcherTypeOK, Logged
    <3>2. QED
      BY <3>1 DEF Judged, verdict, verify_against, Genuine
  <2>4. next \in Task /\ next.pc \in {"insert", "pause"} /\ next.verdict = v
    <3> HIDE DEF v
    <3> QED
      BY <2>2, TaskEdits DEF Idle
  <2>5. GoodTask(next, k)
    <3> HIDE DEF v, next
    <3> QED
      BY <1>6, <2>1, <2>3, <2>4 DEF GoodTask
  <2> HIDE DEF v, next
  <2>6. QED
    BY <1>3, <1>4, <1>5, <2>1, <2>4, <2>5
<1>9. CASE submit_pause_once(k, s)
  <2>1. t.pc = "pause" /\ UNCHANGED alerts
    BY <1>9 DEF submit_pause_once, At, t
  <2>2. PICK next \in {[t EXCEPT !.pc = "wait"], retry(t)} : Goto(k, s, next)
    BY <1>9 DEF submit_pause_once, t
  <2>3. \E r \in 0..WatcherSlots : mempool' \subseteq mempool \cup {[log |-> k, slot |-> r]}
    <3>1. 0 \in 0..WatcherSlots /\ s \in 0..WatcherSlots
      BY WatcherAssumption DEF Slots
    <3>2. \/ mempool' = mempool \cup {[log |-> k, slot |-> s]}
          \/ mempool' = mempool
          \/ mempool' = mempool \cup {[log |-> k, slot |-> 0]}
      BY <1>9 DEF submit_pause_once
    <3>3. QED
      BY <3>1, <3>2
  <2>4. mempool' \subseteq [log : Releases, slot : 0..WatcherSlots]
    BY <1>5, <2>3
  <2>5. next \in Task /\ next.verdict = t.verdict /\ next.pc \in {"wait", "pause", "insert"}
    BY <1>1, <2>2, TaskEdits, TaskFields, ZenonT(40)
  <2>6. GoodTask(next, k)
    BY <1>1, <1>6, <2>1, <2>5 DEF GoodTask
  <2>7. QED
    BY <1>3, <1>4, <2>1, <2>2, <2>4, <2>5, <2>6
<1>10. CASE wait_for_receipt(k, s)
  <2>1. t.pc = "wait" /\ UNCHANGED alerts
    BY <1>10 DEF wait_for_receipt, At, t
  <2>2. PICK next \in {[t EXCEPT !.pc = "insert"], retry(t)} : Goto(k, s, next)
    BY <1>10 DEF wait_for_receipt, t
  <2>3. mempool' \subseteq [log : Releases, slot : 0..WatcherSlots]
    <3>1. mempool' = mempool \/ mempool' = abandoned({[log |-> k, slot |-> s]})
      BY <1>10 DEF wait_for_receipt
    <3>2. QED
      BY <1>5, <3>1, AbandonedType
  <2>4. next \in Task /\ next.verdict = t.verdict /\ next.pc \in {"pause", "insert"}
    BY <1>1, <2>2, TaskEdits, TaskFields
  <2>5. GoodTask(next, k)
    BY <1>1, <1>6, <2>1, <2>4 DEF GoodTask
  <2>6. QED
    BY <1>3, <1>4, <2>1, <2>2, <2>3, <2>4, <2>5
<1>11. CASE insert_alert(k, s)
  <2> DEFINE id == releases[k].id
  <2>1. t.pc = "insert" /\ Goto(k, s, Idle) /\ UNCHANGED mempool
    BY <1>11 DEF insert_alert, At, t
  <2>2. k \in DOMAIN releases /\ Judged(t.verdict, k) /\ t.verdict \in AlertType
    BY <1>1, <1>6, <2>1 DEF GoodTask, Task
  <2>3. Idle \in Task /\ GoodTask(Idle, k)
    BY TaskEdits DEF GoodTask, Idle
  <2>4. CASE UNCHANGED alerts
    BY <1>3, <1>4, <1>5, <2>1, <2>3, <2>4
  <2>5. CASE alerts' = [alerts EXCEPT ![id] = IF @ = "none" THEN t.verdict ELSE @]
    <3>1. alerts \in [Ids -> AlertType \cup {"none"}]
      BY <1>1 DEF WatcherTypeOK
    <3>2. alerts' \in [Ids -> AlertType \cup {"none"}]
      BY <2>2, <2>5, <3>1
    <3>3. \A i \in Ids : alerts'[i] = alerts[i] \/ (i = id /\ alerts'[i] = t.verdict)
      BY <2>5, <3>1
    <3>4. \A i \in Ids :
            /\ alerts'[i] = "verified" => \E j \in DOMAIN releases : releases[j].id = i /\ Genuine(releases[j])
            /\ alerts'[i] = "mismatch" => \E j \in DOMAIN releases :
                   releases[j].id = i /\ Logged(i) /\ ~Genuine(releases[j])
      BY <1>1, <2>2, <3>3 DEF VerdictsAreGenuine, Judged
    <3>5. VerdictsAreGenuine'
      BY <1>1, <3>4 DEF VerdictsAreGenuine, Genuine, Logged, chainVars
    <3>6. QED
      BY <1>3, <1>5, <2>1, <2>3, <3>2, <3>5
  <2>6. QED
    BY <1>11, <2>4, <2>5 DEF insert_alert, t
<1>12. QED
  BY <1>7, <1>8, <1>9, <1>10, <1>11 DEF VerifyStep

-----------------------------------------------------------------------------
(* Positions of the chain's own logs, and the ranges a poll takes from them. *)
LEMMA OwnLogs ==
  ASSUME WatcherInv, NEW c \in Chains
  PROVE  /\ InitiatedOf(c) \subseteq 0..Len(initiated) /\ InitiatedOf(c) \subseteq 0..Unset
         /\ ReleasesOf(c) \subseteq 0..Len(releases) /\ ReleasesOf(c) \subseteq 0..Unset
<1>1. /\ Len(initiated) \in Nat /\ Len(releases) \in Nat
      /\ Len(initiated) <= Unset /\ Len(releases) <= Unset /\ Unset \in Nat
      /\ DOMAIN initiated = 1..Len(initiated) /\ DOMAIN releases = 1..Len(releases)
  BY WatcherAssumption DEF WatcherInv, WatcherTypeOK, LogsAreBounded, Unset
<1>2. QED
  BY <1>1 DEF InitiatedOf, ReleasesOf

(* A scan ends at a head of the chain's log and begins at the cursor or at a head. *)
LEMMA RangeHeads ==
  ASSUME NEW cursor, NEW own, NEW r \in NextRange(cursor, own) \cup FaultyRange(cursor, own)
  PROVE  r.head \in own /\ (cursor = Unset \/ r.from = cursor \/ r.from \in own) /\ (cursor = Unset => r.from \in own)
BY DEF NextRange, FaultyRange

(* A poll, with or without an RPC error, scans such a range. *)
LEMMA PollFaults ==
  ASSUME WatcherInv, NoFault \/ Fault("rpc") \/ Fault("restart")
  PROVE  faults' \in 0..MaxWatcherFaults
<1>1. faults \in 0..MaxWatcherFaults /\ MaxWatcherFaults \in Nat
  BY WatcherAssumption DEF WatcherInv, WatcherTypeOK
<1>2. QED
  BY <1>1 DEF NoFault, Fault

(* Tasks that stay are still good when the logs stay or grow. *)
LEMMA TasksStay ==
  ASSUME WatcherInv, Grows, \A k \in Releases, s \in Slots : GoodTask(task'[k][s], k)
  PROVE  TasksAreGood'
<1>1. WatcherTypeOK
  BY DEF WatcherInv
<1>2. ASSUME NEW k \in Releases, NEW s \in Slots
      PROVE  GoodTask(task[k][s], k)'
  <2> DEFINE t == task'[k][s]
  <2>1. GoodTask(t, k)
    BY <1>2
  <2>2. /\ \A i \in 1..Len(initiated) : i \in 1..Len(initiated') /\ initiated'[i] = initiated[i]
        /\ \A j \in DOMAIN releases : j \in DOMAIN releases' /\ releases'[j] = releases[j]
    BY <1>1, LogsStay
  <2>3. CASE t.pc = "idle"
    BY <2>3 DEF GoodTask
  <2>4. CASE t.pc # "idle"
    <3>1. k \in DOMAIN releases /\ k \in DOMAIN releases' /\ releases'[k] = releases[k]
      BY <2>1, <2>2, <2>4 DEF GoodTask
    <3>2. t.pc \in {"pause", "wait", "insert"} => Judged(t.verdict, k)
      BY <2>1 DEF GoodTask
    <3> HIDE DEF t
    <3>3. t.pc \in {"pause", "wait", "insert"} =>
            /\ t.verdict = "verified" => Genuine(releases[k])'
            /\ t.verdict = "mismatch" => Logged(releases[k].id)' /\ ~Genuine(releases[k])'
      BY <2>2, <3>1, <3>2 DEF Judged, Genuine, Logged
    <3>4. QED
      BY <3>1, <3>3 DEF GoodTask, Judged, t
  <2>5. QED
    BY <2>3, <2>4
<1>3. QED
  BY <1>2 DEF TasksAreGood

(* One round of poll_initiated_loop. *)
LEMMA PollInitiatedInv ==
  ASSUME WatcherInv, NEW c \in Chains, poll_initiated(c)
  PROVE  WatcherInv'
<1>1. PICK r \in NextRange(initCursor[c], InitiatedOf(c)) \cup FaultyRange(initCursor[c], InitiatedOf(c)) :
        InitiatedScan(c, r)
  BY DEF poll_initiated
<1>2. UNCHANGED <<chainVars, relCursor, task, mempool, alerts>> /\ (NoFault \/ Fault("rpc"))
  BY DEF poll_initiated
<1>3. r.head \in 0..Unset
  BY <1>1, RangeHeads, OwnLogs
<1>4. /\ WatcherTypeOK /\ TasksAreGood /\ VerdictsAreGenuine /\ faults' \in 0..MaxWatcherFaults
  BY <1>2, PollFaults DEF WatcherInv
<1>5. initCursor' \in [Chains -> 0..Unset]
  BY <1>1, <1>3, <1>4 DEF InitiatedScan, WatcherTypeOK
<1>6. cache' \subseteq 1..Len(initiated)
  <2>1. \A k \in InitiatedOf(c) : k > r.from => k \in 1..Len(initiated)
    <3>1. r.from \in 0..Unset
      <4>1. initCursor[c] \in 0..Unset
        BY <1>4 DEF WatcherTypeOK
      <4>2. QED
        BY <4>1, <1>1, RangeHeads, OwnLogs
    <3>2. QED
      BY <3>1, OwnLogs
  <2>2. QED
    BY <1>1, <1>4, <2>1 DEF InitiatedScan, WatcherTypeOK
<1>7. WatcherTypeOK'
  BY <1>2, <1>4, <1>5, <1>6, ChainFrame DEF WatcherTypeOK, Initiated, Release
<1>8. TasksAreGood'
  BY <1>2, <1>4, NoGrowth, TasksStay DEF TasksAreGood
<1>9. QED
  BY <1>2, <1>4, <1>7, <1>8, ChainFrame, NoGrowth, VerdictsStay DEF WatcherInv

(* One round of poll_released_loop: the tasks it spawns are about logs. *)
LEMMA PollReleasedInv ==
  ASSUME WatcherInv, NEW c \in Chains, poll_released(c)
  PROVE  WatcherInv'
<1>1. PICK r \in NextRange(relCursor[c], ReleasesOf(c)) \cup FaultyRange(relCursor[c], ReleasesOf(c)) :
        ReleasedScan(c, r)
  BY DEF poll_released
<1>2. UNCHANGED <<chainVars, initCursor, cache, mempool, alerts>> /\ (NoFault \/ Fault("rpc"))
  BY DEF poll_released
<1>3. r.head \in 0..Unset
  BY <1>1, RangeHeads, OwnLogs
<1>4. /\ WatcherTypeOK /\ TasksAreGood /\ VerdictsAreGenuine /\ faults' \in 0..MaxWatcherFaults
  BY <1>2, PollFaults DEF WatcherInv
<1>5. relCursor' \in [Chains -> 0..Unset]
  BY <1>1, <1>3, <1>4 DEF ReleasedScan, WatcherTypeOK
<1> DEFINE fetched == {k \in ReleasesOf(c) : r.from < k /\ k <= r.head}
           FreeSlot(k) == CHOOSE s \in Slots : task[k][s].pc = "idle"
           fresh == [Idle EXCEPT !.pc = "guard"]
<1>6. fetched \subseteq DOMAIN releases
  <2>1. r.from \in 0..Unset
    <3>1. relCursor[c] \in 0..Unset
      BY <1>4 DEF WatcherTypeOK
    <3>2. QED
      BY <3>1, <1>1, RangeHeads, OwnLogs
  <2>2. DOMAIN releases = 1..Len(releases)
    BY <1>4 DEF WatcherTypeOK
  <2>3. QED
    BY <2>1, <2>2, OwnLogs
<1>7. /\ \A k \in fetched : \E s \in Slots : task[k][s].pc = "idle"
      /\ task' = [k \in Releases |-> IF k \in fetched THEN [task[k] EXCEPT ![FreeSlot(k)] = fresh]
                                                      ELSE task[k]]
  BY <1>1 DEF ReleasedScan
<1>8. fresh \in Task /\ fresh.pc = "guard"
  BY TaskEdits, TaskFields
<1>9. \A k \in fetched : FreeSlot(k) \in Slots
  BY <1>7
<1>10. task \in [Releases -> [Slots -> Task]]
  BY <1>4 DEF WatcherTypeOK
<1> HIDE DEF fetched, FreeSlot, fresh
<1>11. task' \in [Releases -> [Slots -> Task]]
  BY <1>7, <1>8, <1>9, <1>10
<1>12. \A k \in Releases, s \in Slots :
         task'[k][s] = task[k][s] \/ (k \in fetched /\ task'[k][s] = fresh)
  BY <1>7, <1>9, <1>10
<1>13. \A k \in Releases, s \in Slots : GoodTask(task'[k][s], k)
  BY <1>4, <1>6, <1>8, <1>12 DEF TasksAreGood, GoodTask
<1>14. TasksAreGood'
  BY <1>2, <1>13, NoGrowth, TasksStay
<1>15. WatcherTypeOK'
  BY <1>2, <1>4, <1>5, <1>11, ChainFrame DEF WatcherTypeOK, Initiated, Release
<1>16. QED
  BY <1>2, <1>4, <1>14, <1>15, ChainFrame, NoGrowth, VerdictsStay DEF WatcherInv

(* A restart forgets all tasks and what is cached. *)
LEMMA RestartInv == ASSUME WatcherInv, restart PROVE WatcherInv'
<1>1. /\ WatcherTypeOK /\ VerdictsAreGenuine /\ UNCHANGED <<chainVars, alerts>>
      /\ faults' \in 0..MaxWatcherFaults
  BY PollFaults DEF WatcherInv, restart
<1>2. task' = NoTasks /\ NoTasks \in [Releases -> [Slots -> Task]]
  BY TaskEdits DEF restart, NoTasks
<1>3. \A k \in Releases, s \in Slots : GoodTask(task'[k][s], k)
  BY <1>2, TaskFields DEF NoTasks, GoodTask
<1>4. TasksAreGood'
  BY <1>1, <1>3, NoGrowth, TasksStay
<1>5. mempool' \subseteq [log : Releases, slot : 0..WatcherSlots]
  BY <1>1, AbandonedType DEF WatcherTypeOK, restart
<1>6. Unset \in 0..Unset
  BY WatcherAssumption DEF Unset
<1>7. WatcherTypeOK'
  BY <1>1, <1>2, <1>5, <1>6, ChainFrame DEF WatcherTypeOK, Initiated, Release, restart
<1>8. QED
  BY <1>1, <1>4, <1>7, ChainFrame, NoGrowth, VerdictsStay DEF WatcherInv

(* The chains add logs, and a pause or an unpause adds none. *)
LEMMA ChainInv == ASSUME WatcherInv, ChainStep PROVE WatcherInv'
<1>0. /\ WatcherTypeOK /\ TasksAreGood /\ VerdictsAreGenuine /\ LogsAreBounded
      /\ initiated \in Seq(Initiated) /\ releases \in Seq(Release)
  BY DEF WatcherInv, WatcherTypeOK, Initiated, Release
<1>1. CASE \E c \in Sources, content \in Locked : transferHotPath(c, content)
  <2>1. PICK c \in Sources, content \in Locked : transferHotPath(c, content)
    BY <1>1
  <2> DEFINE e == [src |-> c, content |-> content]
  <2>2. e \in Initiated
    BY WatcherAssumption DEF Initiated, Chains
  <2>3. /\ initiated' = Append(initiated, e) /\ Len(initiated) < MaxInitiated
        /\ UNCHANGED <<releases, paused, unpauses, watcherVars>>
    BY <2>1 DEF transferHotPath
  <2> HIDE DEF e
  <2>4. Grows
    BY <2>2, <2>3 DEF Grows
  <2>5. initiated' \in Seq(Initiated) /\ Len(initiated') = Len(initiated) + 1 /\ Len(initiated) \in Nat
    BY <1>0, <2>2, <2>3
  <2>6. LogsAreBounded'
    BY <1>0, <2>3, <2>5, WatcherAssumption DEF LogsAreBounded
  <2>7. cache' \subseteq 1..Len(initiated')
    BY <1>0, <2>3, <2>5 DEF WatcherTypeOK, watcherVars
  <2>8. WatcherTypeOK'
    BY <1>0, <2>3, <2>5, <2>7 DEF WatcherTypeOK, Initiated, watcherVars
  <2>9. TasksAreGood'
    BY <1>0, <2>3, <2>4, TasksStay DEF TasksAreGood, watcherVars
  <2>10. QED
    BY <1>0, <2>3, <2>4, <2>6, <2>8, <2>9, VerdictsStay DEF WatcherInv, watcherVars
<1>2. CASE \E c \in Chains, id \in Ids, content \in Contents : releaseHotPath(c, id, content)
  <2>1. PICK c \in Chains, id \in Ids, content \in Contents : releaseHotPath(c, id, content)
    BY <1>2
  <2> DEFINE e == [chain |-> c, id |-> id, content |-> content]
  <2>2. e \in Release
    BY DEF Release
  <2>3. /\ releases' = Append(releases, e) /\ Len(releases) < MaxReleases
        /\ UNCHANGED <<initiated, paused, unpauses, watcherVars>>
    BY <2>1 DEF releaseHotPath
  <2> HIDE DEF e
  <2>4. Grows
    BY <2>2, <2>3 DEF Grows
  <2>5. releases' \in Seq(Release) /\ Len(releases') = Len(releases) + 1 /\ Len(releases) \in Nat
    BY <1>0, <2>2, <2>3
  <2>6. LogsAreBounded'
    BY <1>0, <2>3, <2>5, WatcherAssumption DEF LogsAreBounded
  <2>7. WatcherTypeOK'
    BY <1>0, <2>3, <2>5 DEF WatcherTypeOK, Release, watcherVars
  <2>8. TasksAreGood'
    BY <1>0, <2>3, <2>4, TasksStay DEF TasksAreGood, watcherVars
  <2>9. QED
    BY <1>0, <2>3, <2>4, <2>6, <2>7, <2>8, VerdictsStay DEF WatcherInv, watcherVars
<1>3. CASE \E c \in Chains : unpause(c)
  <2>1. PICK c \in Chains : unpause(c)
    BY <1>3
  <2>2. UNCHANGED <<initiated, releases, watcherVars>>
    BY <2>1 DEF unpause
  <2>3. unpauses' \in 0..MaxUnpauses /\ paused' \in [Chains -> BOOLEAN]
    BY <1>0, <2>1, WatcherAssumption DEF unpause, WatcherTypeOK
  <2>4. WatcherTypeOK' /\ Grows
    BY <1>0, <2>2, <2>3 DEF WatcherTypeOK, watcherVars, Grows
  <2>5. TasksAreGood'
    BY <1>0, <2>2, <2>4, TasksStay DEF TasksAreGood, watcherVars
  <2>6. QED
    BY <1>0, <2>2, <2>4, <2>5, VerdictsStay DEF WatcherInv, watcherVars, LogsAreBounded
<1>4. CASE \E x \in mempool : includePause(x)
  <2>1. PICK x \in mempool : includePause(x)
    BY <1>4
  <2>2. UNCHANGED <<initiated, releases, unpauses, initCursor, relCursor, cache, alerts, faults>>
        /\ mempool' = mempool \ {x} /\ paused' = [paused EXCEPT ![releases[x.log].chain] = TRUE]
    BY <2>1 DEF includePause
  <2>3. x.log \in Releases /\ x.slot \in 0..WatcherSlots
    BY <1>0 DEF WatcherTypeOK
  <2>4. \/ task' = task
        \/ /\ x.slot \in Slots
           /\ \E receipt \in {"ok", "reverted"} : task' = [task EXCEPT ![x.log][x.slot].receipt = receipt]
    <3> DEFINE Edited(receipt) == [task EXCEPT ![x.log][x.slot].receipt = receipt]
    <3>1. task' = IF x.slot = 0 THEN task
                  ELSE Edited(IF paused[releases[x.log].chain] THEN "reverted" ELSE "ok")
      BY <2>1, Zenon DEF includePause
    <3>2. x.slot # 0 => x.slot \in Slots
      BY <2>3, WatcherAssumption DEF Slots
    <3>3. task' = task \/ (x.slot # 0 /\ \E receipt \in {"ok", "reverted"} : task' = Edited(receipt))
      <4> HIDE DEF Edited
      <4> QED
        BY <3>1
    <3>4. QED
      BY <3>2, <3>3
  <2>5. task \in [Releases -> [Slots -> Task]]
    BY <1>0 DEF WatcherTypeOK
  <2>6. task' \in [Releases -> [Slots -> Task]] /\
        \A k \in Releases, s \in Slots :
           task'[k][s].pc = task[k][s].pc /\ task'[k][s].verdict = task[k][s].verdict
    <3>1. CASE task' = task
      BY <2>5, <3>1
    <3>2. CASE x.slot \in Slots /\ \E receipt \in {"ok", "reverted"} :
                 task' = [task EXCEPT ![x.log][x.slot].receipt = receipt]
      <4>1. PICK receipt \in {"ok", "reverted"} : task' = [task EXCEPT ![x.log][x.slot].receipt = receipt]
        BY <3>2
      <4> DEFINE next == [task[x.log][x.slot] EXCEPT !.receipt = receipt]
      <4>2. task[x.log][x.slot] \in Task
        BY <2>3, <2>5, <3>2
      <4>3. next \in Task /\ next.pc = task[x.log][x.slot].pc /\ next.verdict = task[x.log][x.slot].verdict
        BY <4>2 DEF Task
      <4>4. task' = [task EXCEPT ![x.log][x.slot] = next]
        BY <4>1
      <4> HIDE DEF next
      <4>5. QED
        BY <2>3, <2>5, <3>2, <4>3, <4>4
    <3>3. QED
      BY <2>4, <3>1, <3>2
  <2>7. Grows /\ paused' \in [Chains -> BOOLEAN]
    BY <1>0, <2>2 DEF Grows, WatcherTypeOK
  <2>8. WatcherTypeOK'
    BY <1>0, <2>2, <2>6, <2>7 DEF WatcherTypeOK
  <2>9. \A k \in Releases, s \in Slots : GoodTask(task'[k][s], k)
    BY <1>0, <2>6 DEF TasksAreGood, GoodTask
  <2>10. QED
    BY <1>0, <2>2, <2>7, <2>8, <2>9, TasksStay, VerdictsStay DEF WatcherInv, LogsAreBounded
<1>5. QED
  BY <1>1, <1>2, <1>3, <1>4 DEF ChainStep

(* The initial state satisfies the invariant. *)
LEMMA WatcherInitInv == WatcherInit => WatcherInv
<1> SUFFICES ASSUME WatcherInit PROVE WatcherInv
  OBVIOUS
<1>1. NoTasks \in [Releases -> [Slots -> Task]] /\ Unset \in 0..Unset
  <2>1. Unset \in Nat
    BY WatcherAssumption DEF Unset
  <2>2. Idle \in Task
    BY TaskEdits
  <2>3. QED
    BY <2>1, <2>2 DEF NoTasks
<1>2. WatcherTypeOK
  <2>1. /\ initiated \in Seq([src : Chains, content : Contents])
        /\ releases \in Seq([chain : Chains, id : Ids, content : Contents])
    BY DEF WatcherInit
  <2>2. /\ paused \in [Chains -> BOOLEAN] /\ unpauses \in 0..MaxUnpauses
        /\ faults \in 0..MaxWatcherFaults
    BY WatcherAssumption DEF WatcherInit
  <2>3. /\ initCursor \in [Chains -> 0..Unset] /\ relCursor \in [Chains -> 0..Unset]
        /\ task \in [Releases -> [Slots -> Task]]
    BY <1>1 DEF WatcherInit
  <2>4. /\ cache \subseteq 1..Len(initiated)
        /\ mempool \subseteq [log : Releases, slot : 0..WatcherSlots]
        /\ alerts \in [Ids -> AlertType \cup {"none"}]
    BY DEF WatcherInit
  <2>5. QED
    BY <2>1, <2>2, <2>3, <2>4 DEF WatcherTypeOK
<1>3. TasksAreGood
  BY TaskFields DEF WatcherInit, NoTasks, TasksAreGood, GoodTask
<1>4. VerdictsAreGenuine /\ LogsAreBounded
  BY WatcherAssumption DEF WatcherInit, VerdictsAreGenuine, LogsAreBounded
<1>5. QED
  BY <1>2, <1>3, <1>4 DEF WatcherInv

(* WatcherInv is inductive. *)
LEMMA WatcherPreserved == WatcherInv /\ [WatcherNext]_vars => WatcherInv'
<1> SUFFICES ASSUME WatcherInv, [WatcherNext]_vars PROVE WatcherInv'
  OBVIOUS
<1>1. CASE ChainStep
  BY <1>1, ChainInv
<1>2. CASE WatcherStep
  BY <1>2, PollInitiatedInv, PollReleasedInv, VerifyInv, RestartInv DEF WatcherStep
<1>3. CASE UNCHANGED vars
  <2>1. UNCHANGED <<chainVars, watcherVars>> /\ Grows
    BY <1>3, NoGrowth DEF vars
  <2>2. WatcherTypeOK' /\ LogsAreBounded'
    BY <2>1 DEF WatcherInv, WatcherTypeOK, LogsAreBounded, chainVars, watcherVars
  <2>3. TasksAreGood'
    BY <2>1, TasksStay DEF WatcherInv, TasksAreGood, watcherVars
  <2>4. QED
    BY <2>1, <2>2, <2>3, VerdictsStay DEF WatcherInv, watcherVars
<1>4. QED
  BY <1>1, <1>2, <1>3 DEF WatcherNext

(* The watcher's state is well typed: no task retries a pause more often than
   MAX_PAUSE_RETRIES, and the cache holds only logs that exist. *)
THEOREM WatcherTyped == WatcherSpec => []WatcherTypeOK
<1>1. WatcherInv => WatcherTypeOK
  BY DEF WatcherInv
<1>2. QED
  BY <1>1, WatcherInitInv, WatcherPreserved, PTL DEF WatcherSpec

(* Every verdict in treasury.watcher_alerts was earned by a release, however
   many tasks, restarts, duplicates and database errors came between. *)
THEOREM VerdictsEarned == WatcherSpec => []VerdictsAreGenuine
<1>1. WatcherInv => VerdictsAreGenuine
  BY DEF WatcherInv
<1>2. QED
  BY <1>1, WatcherInitInv, WatcherPreserved, PTL DEF WatcherSpec
=============================================================================
