------------------------- MODULE DecommissionProofs -------------------------
(***************************************************************************)
(* Theorems about the drain of a chain, for any number of chains, holders, *)
(* requests, retries, disturbances and restarts: types, completed means    *)
(* moved, interrupted work belongs to the drain that can be resumed, and   *)
(* the completed are not bridged again.                                    *)
(*                                                                         *)
(* The argument: a task that holds a receipt, or is past it, works on a    *)
(* holder for whom a rebalance() was burned; the running drain is also the *)
(* resumable one, and owns every incomplete row; and the rows that a drain *)
(* completes belong to the holders it found completed or has passed in its *)
(* plan, which names no holder twice.                                      *)
(***************************************************************************)
EXTENDS Decommission, BankProofs, FiniteSetTheorems

(* Source and target of a drain, if there is one. *)
MaybePair == Requests \cup {None}

(* The locals of the task, and the two ids of drain_runtime. *)
TaskRecord ==
    [pc : {"idle", "gate", "next", "send", "wait", "home", "complete", "end"}, pair : MaybePair,
     plan : Seq(Item), at : Nat \ {0}, done : SUBSET Users, nonce : Nat,
     receipt : {"none", "ok", "reverted"}, complete : BOOLEAN]
Runtime == [running : MaybePair, resumable : MaybePair]
Burn == [pair : Requests, who : Users \cup {0}]

(* The task works on the item at hand. *)
Working == task.pc \in {"send", "wait", "home", "complete"}

(* The task works on the pair the runtime says is running, and inside its plan. *)
TaskTypes ==
    /\ drain_runtime \in Runtime /\ task \in TaskRecord
    /\ task.pair = drain_runtime.running /\ (task.pc = "idle" <=> task.pair = None)
    /\ task.at <= Len(task.plan) + 1 /\ (Working => task.at <= Len(task.plan))
    /\ task.pc \in {"gate", "next", "send"} => task.receipt = "none"
    /\ task.pc \in {"home", "complete"} => item.kind = "holder"

(* A plan names each holder once; the pool and the reserve belong to nobody. *)
PlanShape ==
    /\ \A j \in 1..Len(task.plan) : task.plan[j].kind = "holder" <=> task.plan[j].who # 0
    /\ \A j, k \in 1..Len(task.plan) :
          task.plan[j].who # 0 /\ task.plan[j].who = task.plan[k].who => j = k

(* The table of holders, and where they live. *)
RowTypes == decommission_ops \in Seq(Row) /\ homeChain \in [Users -> Chains]

(* The chains as the service knows them, the nonces of its account and what it has
   submitted. *)
ChainTypes ==
    /\ chainStatus \in [Chains -> {"active", "draining", "decommissioned"}]
    /\ active_chains \subseteq Chains
    /\ nonces \in [Chains -> Nat \ {0}] /\ nonce_cache \in [Chains -> Nat]
    /\ drainMempool \subseteq Tx /\ IsFiniteSet(drainMempool)
    /\ disturbances \in Seq(Disturbances) /\ Len(disturbances) <= MaxDisturbances

(* Every burn goes to the target of the operation behind it. *)
BurnTypes ==
    /\ burner \in Seq(Burn) /\ Len(burner) = Len(rebalances)
    /\ \A b \in 1..Len(burner) : rebalances[b].dst = burner[b].pair[2]

(* A rebalance() was burned for who; who lives where one of theirs went. *)
Burned(pair, who) == \E b \in 1..Len(burner) : burner[b] = [pair |-> pair, who |-> who]
Homed(who) == \E b \in 1..Len(burner) : burner[b].who = who /\ burner[b].pair[2] = homeChain[who]

(* A completed row had its rebalance() and its new home. *)
RowsMoved ==
    \A i \in 1..Len(decommission_ops) :
        decommission_ops[i].status = "completed" =>
            Burned(decommission_ops[i].pair, decommission_ops[i].who) /\ Homed(decommission_ops[i].who)

(* A task that has seen a successful receipt had the burn; one that completes a row
   has set the home. *)
TaskMoved ==
    /\ \/ task.pc \in {"home", "complete"}
       \/ task.pc = "wait" /\ task.receipt = "ok" /\ item.kind # "reserve"
       => Burned(task.pair, item.who)
    /\ task.pc = "complete" => Homed(item.who)

(* Incomplete rows belong to the drain that runs or can be resumed. *)
Resumable ==
    /\ drain_runtime.running # None => drain_runtime.resumable = drain_runtime.running
    /\ DatabaseAnswers => \A i \in 1..Len(decommission_ops) :
          decommission_ops[i].status \in Incomplete
              => decommission_ops[i].pair = drain_runtime.resumable

(* The holders a running drain has no more to do with. *)
Passed(who) ==
    who \in task.done \/ \E j \in 1..Len(task.plan) : j < task.at /\ task.plan[j].who = who

(* While the database answers, the holders completed for the running pair are behind
   the task or skipped by it. *)
CompletedPassed ==
    /\ DatabaseAnswers /\ task.pc \notin {"idle", "gate", "end"} =>
          \A i \in 1..Len(decommission_ops) :
              decommission_ops[i].status = "completed" /\ decommission_ops[i].pair = task.pair
                  => Passed(decommission_ops[i].who)
    /\ task.pc = "send" => item.who \notin task.done

(* The inductive invariant of the drain. *)
DrainInv ==
    /\ TypeOK /\ TaskTypes /\ PlanShape /\ RowTypes /\ ChainTypes /\ BurnTypes
    /\ RowsMoved /\ TaskMoved /\ Resumable /\ CompletedPassed

-----------------------------------------------------------------------------
(* What the records hold. *)
LEMMA Pairs ==
  /\ None \notin Requests
  /\ \A pair \in Requests : pair[1] \in Chains /\ pair[2] \in Chains
<1>1. \A pair \in Requests : pair \in Chains \X Chains
  BY DecommissionAssumption
<1>2. \A pair \in Chains \X Chains : pair[1] \in Chains /\ pair[2] \in Chains /\ Len(pair) = 2
  OBVIOUS
<1>3. Len(None) = 0
  BY DEF None
<1>4. QED
  BY <1>1, <1>2, <1>3

(* The fields of an item of a plan. *)
LEMMA ItemFacts ==
  \A x \in Item : /\ x.kind \in {"holder", "pool", "reserve"} /\ x.who \in Users \cup {0}
                  /\ x.amount \in Nat /\ x.amount # 0
BY DEF Item

(* The fields of a row. *)
LEMMA RowFacts ==
  \A r \in Row : /\ r.pair \in Requests /\ r.who \in Users
                 /\ r.status \in Incomplete \cup {"completed", "failed"}
BY DEF Row

(* The fields of a transaction. *)
LEMMA TxFacts ==
  \A x \in Tx : x.pair \in Requests /\ x.item \in Item /\ x.nonce \in Nat \ {0}
BY DEF Tx

(* The fields of the task. *)
LEMMA TaskFields ==
  ASSUME task \in TaskRecord
  PROVE  /\ task.pc \in {"idle", "gate", "next", "send", "wait", "home", "complete", "end"}
         /\ task.pair \in MaybePair /\ task.plan \in Seq(Item) /\ task.at \in Nat \ {0}
         /\ Len(task.plan) \in Nat /\ task.done \subseteq Users /\ task.nonce \in Nat
         /\ task.receipt \in {"none", "ok", "reverted"} /\ task.complete \in BOOLEAN
BY DEF TaskRecord

(* The pair and the item of a task that has an item at hand. *)
LEMMA ItemAt ==
  ASSUME TaskTypes, PlanShape, task.pc # "idle", task.at <= Len(task.plan)
  PROVE  /\ task.pair \in Requests /\ task.at \in 1..Len(task.plan)
         /\ item = task.plan[task.at] /\ item \in Item
         /\ item.kind = "holder" <=> item.who # 0
         /\ item.who \in Users \cup {0} /\ src \in Chains
<1>1. task \in TaskRecord /\ task.pair # None
  BY DEF TaskTypes
<1>2. task.at \in 1..Len(task.plan) /\ task.plan \in Seq(Item)
  BY <1>1, TaskFields
<1>3. task.pair \in Requests
  BY <1>1, TaskFields DEF MaybePair
<1>4. item = task.plan[task.at] /\ item \in Item
  BY <1>2 DEF item
<1>5. src \in Chains
  BY <1>3, Pairs DEF src
<1>6. QED
  BY <1>2, <1>3, <1>4, <1>5, ItemFacts DEF PlanShape

(* What a step does to the rows: those that change are of one operation. *)
RowsBecome(pair, who, status) ==
    /\ decommission_ops' \in Seq(Row)
    /\ \A i \in 1..Len(decommission_ops') :
          \/ i \in 1..Len(decommission_ops) /\ decommission_ops'[i] = decommission_ops[i]
          \/ /\ decommission_ops'[i].pair = pair /\ decommission_ops'[i].who = who
             /\ decommission_ops'[i].status = status

(* A step that leaves the table alone changes rows as any update may. *)
LEMMA SameRows ==
  ASSUME RowTypes, UNCHANGED decommission_ops, NEW pair, NEW who, NEW status
  PROVE  RowsBecome(pair, who, status)
BY DEF RowTypes, RowsBecome

(* An update by pair and holder changes no other row. *)
LEMMA MarkRows ==
  ASSUME RowTypes, NEW pair, NEW who, NEW status \in Incomplete \cup {"completed", "failed"},
         decommission_ops' = marked(pair, who, status)
  PROVE  RowsBecome(pair, who, status)
<1>1. decommission_ops \in Seq(Row) /\ DOMAIN decommission_ops = 1..Len(decommission_ops)
      /\ Len(decommission_ops) \in Nat
  BY DEF RowTypes
<1> DEFINE new(i) == IF i \in rowOf(pair, who) THEN [decommission_ops[i] EXCEPT !.status = status]
                     ELSE decommission_ops[i]
<1>2. decommission_ops' = [i \in 1..Len(decommission_ops) |-> new(i)]
  BY <1>1 DEF marked
<1>3. \A r \in Row : /\ [r EXCEPT !.status = status] \in Row
                     /\ [r EXCEPT !.status = status].status = status
                     /\ [r EXCEPT !.status = status].pair = r.pair
                     /\ [r EXCEPT !.status = status].who = r.who
  BY DEF Row
<1>4. \A i \in 1..Len(decommission_ops) : decommission_ops[i] \in Row
  BY <1>1
<1>5. ASSUME NEW i \in 1..Len(decommission_ops)
      PROVE  /\ new(i) \in Row
             /\ \/ new(i) = decommission_ops[i]
                \/ new(i).pair = pair /\ new(i).who = who /\ new(i).status = status
  <2>1. i \in rowOf(pair, who) => decommission_ops[i].pair = pair /\ decommission_ops[i].who = who
    BY DEF rowOf
  <2>2. QED
    BY <1>3, <1>4, <2>1
<1> HIDE DEF new
<1>6. /\ decommission_ops' \in Seq(Row) /\ Len(decommission_ops') = Len(decommission_ops)
      /\ \A i \in 1..Len(decommission_ops) : decommission_ops'[i] = new(i)
  BY <1>1, <1>2, <1>5
<1>7. QED
  BY <1>5, <1>6 DEF RowsBecome

(* The upsert of a holder makes only that holder's row pending. *)
LEMMA InsertRow ==
  ASSUME RowTypes, NEW pair \in Requests, NEW x \in Item, x.who \in Users, insert_holder_op(pair, x)
  PROVE  RowsBecome(pair, x.who, "pending")
<1> DEFINE new == [pair |-> pair, who |-> x.who, amount |-> x.amount, status |-> "pending"]
<1>1. CASE decommission_ops' = decommission_ops
  BY <1>1, SameRows
<1>2. CASE decommission_ops' = Append(decommission_ops, new)
  <2>1. /\ new \in Row /\ new.pair = pair /\ new.who = x.who /\ new.status = "pending"
    BY ItemFacts DEF Row, Incomplete
  <2> HIDE DEF new
  <2>2. decommission_ops \in Seq(Row) /\ Len(decommission_ops) \in Nat
    BY DEF RowTypes
  <2>3. /\ decommission_ops' \in Seq(Row) /\ Len(decommission_ops') = Len(decommission_ops) + 1
        /\ decommission_ops'[Len(decommission_ops) + 1] = new
        /\ \A i \in 1..Len(decommission_ops) : decommission_ops'[i] = decommission_ops[i]
    BY <1>2, <2>1, <2>2
  <2>4. \A i \in 1..(Len(decommission_ops) + 1) :
          i \in 1..Len(decommission_ops) \/ i = Len(decommission_ops) + 1
    BY <2>2
  <2>5. QED
    BY <2>1, <2>3, <2>4 DEF RowsBecome
<1>3. QED
  BY <1>1, <1>2 DEF insert_holder_op

(* Disturbances accumulate: a database that has failed has failed. *)
LEMMA Answers ==
  ASSUME ChainTypes, Undisturbed \/ \E kind : Disturbed(kind)
  PROVE  /\ disturbances' \in Seq(Disturbances) /\ Len(disturbances') <= MaxDisturbances
         /\ DatabaseAnswers' => DatabaseAnswers
         /\ Disturbed("db") => ~DatabaseAnswers'
<1>1. disturbances \in Seq(Disturbances) /\ Len(disturbances) \in Nat /\ MaxDisturbances \in Nat
  BY DecommissionAssumption DEF ChainTypes
<1>2. ASSUME NEW kind, Disturbed(kind)
      PROVE  /\ disturbances' \in Seq(Disturbances) /\ Len(disturbances') <= MaxDisturbances
             /\ DatabaseAnswers' => DatabaseAnswers
             /\ kind = "db" => ~DatabaseAnswers'
  <2>1. /\ disturbances' = Append(disturbances, kind) /\ kind \in Disturbances
        /\ Len(disturbances) < MaxDisturbances
    BY <1>2 DEF Disturbed
  <2>2. /\ disturbances' \in Seq(Disturbances) /\ Len(disturbances') = Len(disturbances) + 1
        /\ DOMAIN disturbances' = 1..(Len(disturbances) + 1)
        /\ disturbances'[Len(disturbances) + 1] = kind
        /\ \A i \in 1..Len(disturbances) : disturbances'[i] = disturbances[i]
    BY <1>1, <2>1
  <2>3. QED
    BY <1>1, <2>1, <2>2 DEF DatabaseAnswers
<1>3. CASE Undisturbed /\ ~\E kind : Disturbed(kind)
  BY <1>3 DEF Undisturbed, ChainTypes, DatabaseAnswers
<1>4. QED
  BY <1>2, <1>3

(* mark() and the calls that fail change at most the rows of one operation. *)
LEMMA MarkStep ==
  ASSUME RowTypes, ChainTypes, NEW pair, NEW who,
         NEW status \in Incomplete \cup {"completed", "failed"},
         \/ mark(pair, who, status)
         \/ decommission_ops' = marked(pair, who, status) /\ \E kind : Disturbed(kind)
  PROVE  RowsBecome(pair, who, status) /\ (Undisturbed \/ \E kind : Disturbed(kind))
BY SameRows, MarkRows DEF mark

-----------------------------------------------------------------------------
(* Steps of the task leave the Banks and the burns alone. *)
LEMMA Quiet ==
  ASSUME DrainInv, UNCHANGED <<bankVars, burner>>
  PROVE  /\ TypeOK' /\ BurnTypes'
         /\ \A pair, who : Burned(pair, who)' = Burned(pair, who)
<1>1. TypeOK'
  BY TypeStep DEF DrainInv
<1>2. UNCHANGED rebalances
  BY DEF bankVars, coldVars
<1>3. BurnTypes'
  BY <1>2 DEF DrainInv, BurnTypes
<1>4. QED
  BY <1>1, <1>3 DEF Burned

(* Rows that become completed are of a holder who has moved. *)
LEMMA MovedRows ==
  ASSUME RowsMoved, UNCHANGED <<burner, homeChain>>, NEW pair, NEW who, NEW status,
         RowsBecome(pair, who, status), status = "completed" => Burned(pair, who) /\ Homed(who)
  PROVE  RowsMoved'
<1>1. \A p, w : Burned(p, w)' = Burned(p, w) /\ Homed(w)' = Homed(w)
  BY DEF Burned, Homed
<1>2. QED
  BY <1>1 DEF RowsMoved, RowsBecome

(* Rows that become incomplete are of the drain that runs. *)
LEMMA ResumableRows ==
  ASSUME Resumable, UNCHANGED drain_runtime, NEW pair, NEW who, NEW status,
         RowsBecome(pair, who, status), DatabaseAnswers' => DatabaseAnswers,
         status \in Incomplete => pair = drain_runtime.running /\ pair # None
  PROVE  Resumable'
BY DEF Resumable, RowsBecome

(* The task goes on with its next item. *)
LEMMA NextItem ==
  ASSUME DrainInv, task.pc # "idle", task.at <= Len(task.plan), task' = nextItem,
         UNCHANGED drain_runtime
  PROVE  /\ task'.pc = "next" /\ task'.at = task.at + 1 /\ task'.receipt = "none"
         /\ task'.pair = task.pair /\ task'.plan = task.plan /\ task'.done = task.done
         /\ TaskTypes' /\ PlanShape' /\ TaskMoved'
<1>1. task \in TaskRecord
  BY DEF DrainInv, TaskTypes
<1>2. task.at + 1 \in Nat \ {0} /\ task.at + 1 <= Len(task.plan) + 1
  BY <1>1, TaskFields
<1>3. /\ task'.pc = "next" /\ task'.at = task.at + 1 /\ task'.receipt = "none"
      /\ task'.pair = task.pair /\ task'.plan = task.plan /\ task'.done = task.done
      /\ task' \in TaskRecord
  BY <1>1, <1>2 DEF TaskRecord, nextItem
<1>4. TaskTypes'
  BY <1>2, <1>3 DEF DrainInv, TaskTypes, Working
<1>5. PlanShape' /\ TaskMoved'
  BY <1>3 DEF DrainInv, PlanShape, TaskMoved
<1>6. QED
  BY <1>3, <1>4, <1>5

(* The item at hand is over: its row is failed or completed, or it has none. *)
LEMMA ItemEnds ==
  ASSUME DrainInv, task.pc \in {"next", "send", "wait", "home", "complete"},
         task.at <= Len(task.plan), task' = nextItem,
         NEW status \in {"failed", "completed"}, status = "completed" => task.pc = "complete",
         RowsBecome(task.pair, item.who, status),
         UNCHANGED <<bankVars, burner, homeChain, drain_runtime>>,
         DatabaseAnswers' => DatabaseAnswers, ChainTypes'
  PROVE  DrainInv'
<1>1. /\ task'.pc = "next" /\ task'.at = task.at + 1 /\ task'.receipt = "none"
      /\ task'.pair = task.pair /\ task'.plan = task.plan /\ task'.done = task.done
      /\ TaskTypes' /\ PlanShape' /\ TaskMoved'
  BY NextItem
<1>2. TypeOK' /\ BurnTypes'
  BY Quiet
<1>3. RowTypes'
  BY DEF DrainInv, RowTypes, RowsBecome
<1>4. RowsMoved'
  BY MovedRows DEF DrainInv, TaskMoved
<1>5. Resumable'
  <2>1. status \notin Incomplete
    BY DEF Incomplete
  <2>2. QED
    BY <2>1, ResumableRows DEF DrainInv
<1>6. task.at \in 1..Len(task.plan) /\ item = task.plan[task.at] /\ Len(task.plan) \in Nat
  BY ItemAt, TaskFields DEF DrainInv, TaskTypes
<1>7. \A who : Passed(who) \/ who = item.who => Passed(who)'
  <2>1. \A j \in 1..Len(task.plan) : j < task.at => j < task.at + 1
    BY <1>6
  <2>2. task.at < task.at + 1
    BY <1>6
  <2>3. QED
    BY <1>1, <1>6, <2>1, <2>2 DEF Passed
<1>8. CompletedPassed'
  BY <1>1, <1>7 DEF DrainInv, CompletedPassed, RowsBecome
<1>9. QED
  BY <1>1, <1>2, <1>3, <1>4, <1>5, <1>8 DEF DrainInv

-----------------------------------------------------------------------------
(* One action after the other. *)

(* A plan has the form the invariant wants. *)
LEMMA PlanTypes ==
  ASSUME TypeOK, NEW c \in Chains, NEW seen \in SUBSET Readable,
         NEW plan \in build_drain_plan(c, seen)
  PROVE  /\ plan \in Seq(Item)
         /\ \A j \in 1..Len(plan) : plan[j].kind = "holder" <=> plan[j].who # 0
         /\ \A j, k \in 1..Len(plan) : plan[j].who # 0 /\ plan[j].who = plan[k].who => j = k
<1> DEFINE call(k) == IF k \in Users THEN [kind |-> "holder", who |-> k, amount |-> balanceOf[c][k]]
                      ELSE IF k = NumUsers + 1 THEN [kind |-> "pool", who |-> 0, amount |-> pool[c]]
                      ELSE [kind |-> "reserve", who |-> 0, amount |-> usdc[c]]
           actionable == {k \in seen : call(k).amount > 0}
           ordered == {o \in [1..Cardinality(actionable) -> actionable] :
                          \A i, j \in DOMAIN o : i < j => o[i] < o[j]}
<1>1. PICK o \in ordered : plan = [i \in DOMAIN o |-> call(o[i])]
  BY DEF build_drain_plan
<1>2. NumUsers \in Nat /\ actionable \subseteq 1..(NumUsers + 2)
  BY BankAssumption DEF Readable
<1>3. \A k \in actionable :
        /\ k \in Nat /\ call(k) \in Item
        /\ call(k).kind = "holder" <=> call(k).who # 0
        /\ call(k).who # 0 => call(k).who = k
  <2>1. ASSUME NEW k \in actionable
        PROVE  /\ k \in Nat /\ call(k).amount \in Nat \ {0}
               /\ \/ k \in Users /\ call(k) = [kind |-> "holder", who |-> k, amount |-> call(k).amount]
                  \/ call(k) = [kind |-> "pool", who |-> 0, amount |-> call(k).amount]
                  \/ call(k) = [kind |-> "reserve", who |-> 0, amount |-> call(k).amount]
    <3>1. k \in Nat /\ call(k).amount > 0
      BY <1>2
    <3>2. pool[c] \in Nat /\ usdc[c] \in Nat /\ \A u \in Users : balanceOf[c][u] \in Nat
      BY DEF TypeOK, LedgerType
    <3>3. QED
      BY <3>1, <3>2
  <2>2. QED
    <3> HIDE DEF call, actionable
    <3>1. ASSUME NEW k \in actionable, NEW a \in Nat \ {0}, a = call(k).amount
          PROVE  /\ call(k) \in Item
                 /\ call(k).kind = "holder" <=> call(k).who # 0
                 /\ call(k).who # 0 => call(k).who = k
      <4>1. \A u \in Users : u # 0
        BY DEF Users
      <4>2. CASE k \in Users /\ call(k) = [kind |-> "holder", who |-> k, amount |-> a]
        BY <4>1, <4>2 DEF Item
      <4>3. CASE call(k) = [kind |-> "pool", who |-> 0, amount |-> a]
        BY <4>3 DEF Item
      <4>4. CASE call(k) = [kind |-> "reserve", who |-> 0, amount |-> a]
        BY <4>4 DEF Item
      <4>5. QED
        BY <2>1, <3>1, <4>2, <4>3, <4>4
    <3>2. QED
      BY <2>1, <3>1
<1>4. Cardinality(actionable) \in Nat
  <2>1. 1 \in Int /\ NumUsers + 2 \in Int
    BY <1>2
  <2>2. IsFiniteSet(1..(NumUsers + 2))
    BY <2>1, FS_Interval
  <2>3. IsFiniteSet(actionable)
    BY <1>2, <2>2, FS_Subset
  <2>4. QED
    BY <2>3, FS_CardinalityType
<1> DEFINE n == Cardinality(actionable)
<1>5. /\ DOMAIN o = 1..n /\ \A i \in 1..n : o[i] \in actionable
      /\ \A i, j \in 1..n : i < j => o[i] < o[j]
  BY <1>1
<1> HIDE DEF call, actionable, n
<1>6. n \in Nat
  BY <1>4 DEF n
<1>7. plan = [i \in 1..n |-> call(o[i])]
  BY <1>1, <1>5
<1>8. plan \in Seq(Item) /\ Len(plan) = n /\ \A i \in 1..n : plan[i] = call(o[i])
  BY <1>3, <1>5, <1>6, <1>7
<1>9. \A j, k \in 1..n : o[j] = o[k] => j = k
  BY <1>3, <1>5, <1>6
<1>10. \A j \in 1..n : /\ plan[j].kind = "holder" <=> plan[j].who # 0
                       /\ plan[j].who # 0 => plan[j].who = o[j]
  <2> TAKE j \in 1..n
  <2>1. o[j] \in actionable /\ plan[j] = call(o[j])
    BY <1>5, <1>8
  <2>2. QED
    BY <1>3, <2>1
<1>11. \A j, k \in 1..n : plan[j].who # 0 /\ plan[j].who = plan[k].who => j = k
  <2> SUFFICES ASSUME NEW j \in 1..n, NEW k \in 1..n, plan[j].who # 0, plan[j].who = plan[k].who
               PROVE  j = k
    OBVIOUS
  <2>1. o[j] = o[k]
    BY <1>10
  <2>2. QED
    BY <1>9, <2>1
<1>12. QED
  BY <1>8, <1>10, <1>11

(* start_decommission_drain() keeps the invariant. *)
LEMMA StartKeeps ==
  ASSUME DrainInv, NEW pair \in Requests, start_decommission_drain(pair)
  PROVE  DrainInv'
<1>0. PICK seen \in SUBSET Readable : \E plan \in build_drain_plan(pair[1], seen) :
        /\ task' = [Idle EXCEPT !.pc = "gate", !.pair = pair, !.plan = plan]
        /\ Undisturbed \/ Disturbed("rpc")
  BY DEF start_decommission_drain
<1>1. PICK plan \in build_drain_plan(pair[1], seen) :
        /\ task' = [Idle EXCEPT !.pc = "gate", !.pair = pair, !.plan = plan]
        /\ Undisturbed \/ Disturbed("rpc")
  BY <1>0
<1>2. /\ drain_runtime.running = None /\ drain_runtime.resumable \in {None, pair}
      /\ drain_runtime' = [running |-> pair, resumable |-> pair]
      /\ UNCHANGED <<bankVars, chainStatus, active_chains, decommission_ops, homeChain,
                     nonces, nonce_cache, drainMempool, burner>>
  BY DEF start_decommission_drain, admissible
<1>3. TypeOK /\ pair[1] \in Chains
  BY Pairs DEF DrainInv
<1>4. /\ plan \in Seq(Item) /\ Len(plan) \in Nat
      /\ \A j \in 1..Len(plan) : plan[j].kind = "holder" <=> plan[j].who # 0
      /\ \A j, k \in 1..Len(plan) : plan[j].who # 0 /\ plan[j].who = plan[k].who => j = k
  BY <1>3, PlanTypes
<1>5. /\ task' \in TaskRecord /\ task'.pc = "gate" /\ task'.pair = pair /\ task'.plan = plan
      /\ task'.at = 1 /\ task'.receipt = "none"
  <2>1. task' = [pc |-> "gate", pair |-> pair, plan |-> plan, at |-> 1, done |-> {},
                 nonce |-> 0, receipt |-> "none", complete |-> FALSE]
    BY <1>1 DEF Idle
  <2>2. 1 \in Nat \ {0} /\ {} \in SUBSET Users /\ pair \in MaybePair /\ FALSE \in BOOLEAN
    BY DEF MaybePair
  <2>3. QED
    BY <1>4, <2>1, <2>2 DEF TaskRecord
<1>6. drain_runtime' \in Runtime /\ drain_runtime'.running = pair /\ drain_runtime'.resumable = pair
  BY <1>2 DEF Runtime, MaybePair
<1>7. TaskTypes'
  BY <1>4, <1>5, <1>6, Pairs DEF TaskTypes, Working
<1>8. PlanShape' /\ TaskMoved' /\ CompletedPassed'
  BY <1>4, <1>5 DEF PlanShape, TaskMoved, CompletedPassed
<1>9. TypeOK' /\ BurnTypes' /\ \A p, who : Burned(p, who)' = Burned(p, who)
  BY <1>2, Quiet
<1>10. disturbances' \in Seq(Disturbances) /\ Len(disturbances') <= MaxDisturbances
       /\ (DatabaseAnswers' => DatabaseAnswers)
  BY <1>1, Answers DEF DrainInv
<1>11. ChainTypes' /\ RowTypes'
  BY <1>2, <1>10 DEF DrainInv, ChainTypes, RowTypes
<1>12. RowsMoved'
  BY <1>2 DEF DrainInv, RowsMoved, Burned, Homed
<1>13. Resumable'
  <2>1. \A i \in 1..Len(decommission_ops) : decommission_ops[i].pair # None
    BY Pairs, RowFacts DEF DrainInv, RowTypes
  <2>2. QED
    BY <1>2, <1>6, <1>10, <2>1 DEF DrainInv, Resumable
<1>14. QED
  BY <1>7, <1>8, <1>9, <1>11, <1>12, <1>13 DEF DrainInv

(* Steps of the task that keep runtime, rows, homes and burns. *)
LEMMA TaskOnly ==
  ASSUME DrainInv, UNCHANGED <<bankVars, burner, drain_runtime, decommission_ops, homeChain>>,
         TaskTypes', PlanShape', TaskMoved', CompletedPassed', ChainTypes',
         DatabaseAnswers' => DatabaseAnswers
  PROVE  DrainInv'
<1>1. TypeOK' /\ BurnTypes'
  BY Quiet
<1>2. RowTypes' /\ RowsMoved' /\ Resumable'
  BY DEF DrainInv, RowTypes, RowsMoved, Resumable, Burned, Homed
<1>3. QED
  BY <1>1, <1>2 DEF DrainInv

(* The check of the chain's status keeps the invariant. *)
LEMMA GateKeeps ==
  ASSUME DrainInv, gate
  PROVE  DrainInv'
<1>1. /\ task.pc = "gate" /\ UNCHANGED <<bankVars, chainStatus, active_chains, burner>>
      /\ UNCHANGED <<nonces, nonce_cache, drainMempool, drain_runtime, decommission_ops, homeChain>>
      /\ \/ task' = [task EXCEPT !.pc = "end"] /\ Undisturbed
         \/ task' = [task EXCEPT !.pc = "next", !.done = completed_holders(task.pair)] /\ Undisturbed
         \/ task' = [task EXCEPT !.pc = "next"] /\ Disturbed("db")
  BY DEF gate, Task, NoCall
<1>2. task \in TaskRecord
  BY DEF DrainInv, TaskTypes
<1>3. completed_holders(task.pair) \subseteq Users
  BY RowFacts DEF DrainInv, RowTypes, completed_holders
<1>4. /\ task' \in TaskRecord /\ task'.pair = task.pair /\ task'.plan = task.plan /\ task'.at = task.at
      /\ task'.receipt = task.receipt
      /\ \/ task'.pc = "end"
         \/ task'.pc = "next" /\ task'.done = completed_holders(task.pair)
         \/ task'.pc = "next" /\ Disturbed("db")
  BY <1>1, <1>2, <1>3 DEF TaskRecord
<1>5. TaskTypes'
  BY <1>1, <1>4 DEF DrainInv, TaskTypes, Working
<1>6. PlanShape' /\ TaskMoved'
  BY <1>4 DEF DrainInv, PlanShape, TaskMoved
<1>7. /\ disturbances' \in Seq(Disturbances) /\ Len(disturbances') <= MaxDisturbances
      /\ (DatabaseAnswers' => DatabaseAnswers) /\ (Disturbed("db") => ~DatabaseAnswers')
  BY <1>1, Answers DEF DrainInv
<1>8. ChainTypes'
  BY <1>1, <1>7 DEF DrainInv, ChainTypes
<1>9. CompletedPassed'
  <2>1. \A i \in 1..Len(decommission_ops) :
          decommission_ops[i].status = "completed" /\ decommission_ops[i].pair = task.pair
              => decommission_ops[i].who \in completed_holders(task.pair)
    BY DEF DrainInv, RowTypes, completed_holders
  <2>2. QED
    BY <1>1, <1>4, <1>7, <2>1 DEF CompletedPassed, Passed
<1>10. QED
  BY <1>1, <1>5, <1>6, <1>7, <1>8, <1>9, TaskOnly

(* Taking up the next item keeps the invariant. *)
LEMMA NextKeeps ==
  ASSUME DrainInv, next
  PROVE  DrainInv'
<1>1. /\ task.pc = "next" /\ UNCHANGED <<bankVars, chainStatus, active_chains, burner>>
      /\ UNCHANGED <<nonces, nonce_cache, drainMempool, drain_runtime, homeChain>>
      /\ \/ task.at > Len(task.plan) /\ task' = [task EXCEPT !.pc = "end", !.complete = TRUE]
            /\ Undisturbed /\ UNCHANGED decommission_ops
         \/ task.at <= Len(task.plan) /\ task' = nextItem
            /\ Undisturbed /\ UNCHANGED decommission_ops
         \/ /\ task.at <= Len(task.plan) /\ item.who \notin task.done
            /\ task' = [task EXCEPT !.pc = "send"]
            /\ \/ item.kind = "holder" /\ insert_holder_op(task.pair, item) /\ Undisturbed
               \/ UNCHANGED decommission_ops /\ Undisturbed
               \/ UNCHANGED decommission_ops /\ Disturbed("db")
  BY DEF next, Task, NoCall
<1>2. /\ disturbances' \in Seq(Disturbances) /\ Len(disturbances') <= MaxDisturbances
      /\ (DatabaseAnswers' => DatabaseAnswers)
  BY <1>1, Answers DEF DrainInv
<1>3. ChainTypes'
  BY <1>1, <1>2 DEF DrainInv, ChainTypes
<1>4. task \in TaskRecord
  BY DEF DrainInv, TaskTypes
<1>5. CASE task' = [task EXCEPT !.pc = "end", !.complete = TRUE] /\ UNCHANGED decommission_ops
  <2>1. /\ task' \in TaskRecord /\ task'.pc = "end" /\ task'.pair = task.pair
        /\ task'.plan = task.plan /\ task'.at = task.at
    BY <1>4, <1>5 DEF TaskRecord
  <2>2. TaskTypes' /\ PlanShape' /\ TaskMoved' /\ CompletedPassed'
    BY <1>1, <2>1 DEF DrainInv, TaskTypes, Working, PlanShape, TaskMoved, CompletedPassed
  <2>3. QED
    BY <1>1, <1>2, <1>3, <1>5, <2>2, TaskOnly
<1>6. CASE task.at <= Len(task.plan) /\ task' = nextItem /\ UNCHANGED decommission_ops
  <2>1. RowsBecome(task.pair, item.who, "failed")
    BY <1>6, SameRows DEF DrainInv
  <2>2. QED
    BY <1>1, <1>2, <1>3, <1>6, <2>1, ItemEnds
<1>7. CASE task.at <= Len(task.plan) /\ item.who \notin task.done /\ task' = [task EXCEPT !.pc = "send"]
           /\ (UNCHANGED decommission_ops \/ (item.kind = "holder" /\ insert_holder_op(task.pair, item)))
  <2>1. /\ task' \in TaskRecord /\ task'.pc = "send" /\ task'.pair = task.pair
        /\ task'.plan = task.plan /\ task'.at = task.at /\ task'.done = task.done
        /\ task'.receipt = task.receipt
    BY <1>4, <1>7 DEF TaskRecord
  <2>2. TaskTypes' /\ PlanShape' /\ TaskMoved'
    BY <1>1, <1>7, <2>1 DEF DrainInv, TaskTypes, Working, PlanShape, TaskMoved
  <2>3. /\ task.pair \in Requests /\ item \in Item /\ (item.kind = "holder" => item.who \in Users)
    BY <1>1, <1>7, ItemAt DEF DrainInv
  <2>4. RowsBecome(task.pair, item.who, "pending")
    BY <1>7, <2>3, SameRows, InsertRow DEF DrainInv
  <2>5. TypeOK' /\ BurnTypes'
    BY <1>1, Quiet
  <2>6. RowTypes'
    BY <1>1, <2>4 DEF DrainInv, RowTypes, RowsBecome
  <2>7. RowsMoved'
    BY <1>1, <2>4, MovedRows DEF DrainInv
  <2>8. Resumable'
    BY <1>1, <1>2, <2>3, <2>4, Pairs, ResumableRows DEF DrainInv, TaskTypes
  <2>9. \A who : Passed(who)' = Passed(who)
    BY <2>1 DEF Passed
  <2>10. CompletedPassed'
    BY <1>1, <1>2, <1>7, <2>1, <2>4, <2>9 DEF DrainInv, CompletedPassed, RowsBecome, item
  <2>11. QED
    BY <1>3, <2>2, <2>5, <2>6, <2>7, <2>8, <2>10 DEF DrainInv
<1>8. QED
  BY <1>1, <1>5, <1>6, <1>7

(* eth_getTransactionCount always has an answer: among more nonces than there
   are transactions in the mempool, one is free. *)
LEMMA PendingNonce ==
  ASSUME ChainTypes, NEW c \in Chains
  PROVE  pendingNonce(c) \in Nat \ {0}
<1> DEFINE m == Cardinality(drainMempool)
           taken(n) == \E x \in drainMempool : x.pair[1] = c /\ x.nonce = n
           range == nonces[c]..(nonces[c] + m)
           good(n) == (\A k \in nonces[c]..(n - 1) : taken(k)) /\ ~taken(n)
<1>1. nonces[c] \in Nat /\ nonces[c] # 0 /\ IsFiniteSet(drainMempool) /\ m \in Nat
  BY FS_CardinalityType DEF ChainTypes
<1> HIDE DEF m
<1>2. \E n \in range : ~taken(n)
  <2>1. SUFFICES ASSUME \A n \in range : taken(n) PROVE FALSE
    OBVIOUS
  <2> DEFINE f == [n \in range |-> CHOOSE x \in drainMempool : x.pair[1] = c /\ x.nonce = n]
  <2>2. \A n \in range : f[n] \in drainMempool /\ f[n].nonce = n
    BY <2>1
  <2>3. f \in [range -> drainMempool]
    BY <2>2
  <2>4. nonces[c] \in Int /\ nonces[c] + m \in Int
    BY <1>1
  <2>5. IsFiniteSet(range) /\ Cardinality(range) = m + 1
    <3>1. \A a, b \in Int : IsFiniteSet(a..b) /\ Cardinality(a..b) = IF a > b THEN 0 ELSE b - a + 1
      BY FS_Interval
    <3>2. /\ IsFiniteSet(range)
          /\ Cardinality(range) = IF nonces[c] > nonces[c] + m THEN 0 ELSE (nonces[c] + m) - nonces[c] + 1
      BY <2>4, <3>1
    <3>3. ~(nonces[c] > nonces[c] + m) /\ (nonces[c] + m) - nonces[c] + 1 = m + 1
      BY <1>1
    <3>4. QED
      BY <3>2, <3>3
  <2>6. m < Cardinality(range)
    BY <1>1, <2>5
  <2> HIDE DEF f, range
  <2>7. PICK x \in range, y \in range : x # y /\ f[x] = f[y]
    BY <1>1, <2>3, <2>5, <2>6, FS_PigeonHole DEF m
  <2>8. QED
    BY <2>2, <2>7
<1>3. PICK n \in range : ~taken(n) /\ \A k \in {k \in range : ~taken(k)} : n <= k
  <2> HIDE DEF taken
  <2>1. {k \in range : ~taken(k)} \subseteq Nat /\ {k \in range : ~taken(k)} # {}
    BY <1>1, <1>2
  <2> DEFINE free == {k \in range : ~taken(k)}
  <2> HIDE DEF free
  <2>2. \E x \in free : \A y \in free : x <= y
    BY <2>1, LeastNat DEF free
  <2>3. QED
    BY <2>2 DEF free
<1>4. n \in Nat /\ nonces[c] <= n /\ n <= nonces[c] + m
  BY <1>1
<1>5. good(n)
  <2> HIDE DEF taken
  <2>1. \A k \in nonces[c]..(n - 1) : k \in range /\ ~(n <= k)
    BY <1>1, <1>4
  <2>2. QED
    BY <1>3, <2>1
<1>6. pendingNonce(c) = CHOOSE k \in range : good(k)
  BY DEF pendingNonce, m
<1> HIDE DEF good
<1>7. pendingNonce(c) \in range
  BY <1>5, <1>6
<1>8. QED
  BY <1>1, <1>7

(* A call that failed, with or without a disturbance, ends the item. *)
LEMMA FailedStep ==
  ASSUME DrainInv, callFailed \/ \E kind : callDisturbed(kind)
  PROVE  /\ task' = nextItem /\ RowsBecome(task.pair, item.who, "failed")
         /\ Undisturbed \/ \E kind : Disturbed(kind)
<1>1. RowTypes /\ ChainTypes /\ "failed" \in Incomplete \cup {"completed", "failed"}
  BY DEF DrainInv
<1>2. QED
  BY <1>1, MarkStep DEF callFailed, callDisturbed

(* submit_bank_call: the transaction is under way, or the item is over. *)
LEMMA SendKeeps ==
  ASSUME DrainInv, send
  PROVE  DrainInv'
<1> DEFINE n == IF nonce_cache[src] = 0 THEN pendingNonce(src) ELSE nonce_cache[src]
           tx == [pair |-> task.pair, item |-> item, nonce |-> n]
           rivals == {x \in drainMempool : x.pair[1] = src /\ x.nonce = n}
<1>1. /\ task.pc = "send" /\ UNCHANGED <<bankVars, chainStatus, active_chains, burner>>
      /\ UNCHANGED <<drain_runtime, homeChain, nonces>>
      /\ nonce_cache' = [nonce_cache EXCEPT ![src] = n] \/ UNCHANGED nonce_cache
      /\ drainMempool' = (drainMempool \ rivals) \cup {tx} \/ UNCHANGED drainMempool
      /\ \/ /\ task' = [task EXCEPT !.pc = "wait", !.nonce = n]
            /\ Undisturbed /\ UNCHANGED decommission_ops
         \/ callFailed \/ callDisturbed("rpc")
  BY DEF send, Task
<1>2. task \in TaskRecord /\ task.at <= Len(task.plan)
  BY <1>1 DEF DrainInv, TaskTypes, Working
<1>3. task.pair \in Requests /\ item \in Item /\ src \in Chains
  BY <1>1, <1>2, ItemAt DEF DrainInv
<1>4. n \in Nat /\ n # 0
  BY <1>3, PendingNonce DEF DrainInv, ChainTypes
<1> HIDE DEF n
<1>5. tx \in Tx
  BY <1>3, <1>4 DEF Tx
<1> HIDE DEF tx, rivals
<1>6. drainMempool' \subseteq Tx /\ IsFiniteSet(drainMempool')
  <2>1. drainMempool \subseteq Tx /\ IsFiniteSet(drainMempool)
    BY DEF DrainInv, ChainTypes
  <2>2. IsFiniteSet(drainMempool \ rivals)
    BY <2>1, FS_Subset
  <2>3. IsFiniteSet((drainMempool \ rivals) \cup {tx})
    BY <2>2, FS_AddElement
  <2>4. QED
    BY <1>1, <1>5, <2>1, <2>3
<1>7. /\ disturbances' \in Seq(Disturbances) /\ Len(disturbances') <= MaxDisturbances
      /\ (DatabaseAnswers' => DatabaseAnswers)
  BY <1>1, FailedStep, Answers DEF DrainInv
<1>8. nonce_cache' \in [Chains -> Nat]
  BY <1>1, <1>3, <1>4 DEF DrainInv, ChainTypes
<1>9. ChainTypes'
  BY <1>1, <1>6, <1>7, <1>8 DEF DrainInv, ChainTypes
<1>10. CASE callFailed \/ callDisturbed("rpc")
  BY <1>1, <1>2, <1>7, <1>9, <1>10, FailedStep, ItemEnds
<1>11. CASE task' = [task EXCEPT !.pc = "wait", !.nonce = n] /\ UNCHANGED decommission_ops
  <2>1. /\ task' \in TaskRecord /\ task'.pc = "wait" /\ task'.pair = task.pair
        /\ task'.plan = task.plan /\ task'.at = task.at /\ task'.done = task.done
        /\ task'.receipt = task.receipt
    BY <1>2, <1>4, <1>11 DEF TaskRecord
  <2>2. TaskTypes' /\ PlanShape' /\ TaskMoved'
    BY <1>1, <1>2, <2>1 DEF DrainInv, TaskTypes, Working, PlanShape, TaskMoved
  <2>3. CompletedPassed'
    BY <1>1, <1>7, <1>11, <2>1 DEF DrainInv, CompletedPassed, Passed
  <2>4. QED
    BY <1>1, <1>7, <1>9, <1>11, <2>2, <2>3, TaskOnly
<1>12. QED
  BY <1>1, <1>10, <1>11

(* wait_for_receipt_logs: a holder's call succeeded, or the item is over. *)
LEMMA AwaitKeeps ==
  ASSUME DrainInv, await
  PROVE  DrainInv'
<1>1. /\ task.pc = "wait" /\ UNCHANGED <<bankVars, chainStatus, active_chains, burner>>
      /\ UNCHANGED <<drain_runtime, homeChain, nonces, drainMempool>>
      /\ \/ UNCHANGED nonce_cache
         \/ nonce_cache' = [nonce_cache EXCEPT ![src] = task.nonce + 1]
      /\ \/ /\ task.receipt = "ok" /\ item.kind = "holder"
            /\ task' = [task EXCEPT !.pc = "home"] /\ mark(task.pair, item.who, "submitted")
         \/ task' = nextItem /\ Undisturbed /\ UNCHANGED decommission_ops
         \/ callFailed \/ callDisturbed("timeout")
  BY DEF await, Task, succeeded
<1>2. task \in TaskRecord /\ task.at <= Len(task.plan) /\ task.pair = drain_runtime.running
  BY <1>1 DEF DrainInv, TaskTypes, Working
<1>3. task.pair \in Requests /\ item \in Item /\ src \in Chains
  BY <1>1, <1>2, ItemAt DEF DrainInv
<1>4. RowTypes /\ ChainTypes /\ "submitted" \in Incomplete \cup {"completed", "failed"}
  BY DEF DrainInv, Incomplete
<1>5. /\ disturbances' \in Seq(Disturbances) /\ Len(disturbances') <= MaxDisturbances
      /\ (DatabaseAnswers' => DatabaseAnswers)
  BY <1>1, <1>4, FailedStep, MarkStep, Answers
<1>6. nonce_cache' \in [Chains -> Nat]
  <2>1. task.nonce + 1 \in Nat
    BY <1>2, TaskFields
  <2>2. QED
    BY <1>1, <1>3, <1>4, <2>1 DEF ChainTypes
<1>7. ChainTypes'
  BY <1>1, <1>4, <1>5, <1>6 DEF ChainTypes
<1>8. CASE callFailed \/ callDisturbed("timeout")
  BY <1>1, <1>2, <1>5, <1>7, <1>8, FailedStep, ItemEnds
<1>9. CASE task' = nextItem /\ UNCHANGED decommission_ops
  <2>1. RowsBecome(task.pair, item.who, "failed")
    BY <1>4, <1>9, SameRows
  <2>2. QED
    BY <1>1, <1>2, <1>5, <1>7, <1>9, <2>1, ItemEnds
<1>10. CASE /\ task.receipt = "ok" /\ item.kind = "holder"
            /\ task' = [task EXCEPT !.pc = "home"] /\ mark(task.pair, item.who, "submitted")
  <2>1. /\ task' \in TaskRecord /\ task'.pc = "home" /\ task'.pair = task.pair
        /\ task'.plan = task.plan /\ task'.at = task.at /\ task'.done = task.done
        /\ task'.receipt = task.receipt
    BY <1>2, <1>10 DEF TaskRecord
  <2>2. item' = item
    BY <2>1 DEF item
  <2>3. TaskTypes' /\ PlanShape'
    BY <1>1, <1>2, <1>10, <2>1, <2>2 DEF DrainInv, TaskTypes, Working, PlanShape
  <2>4. TypeOK' /\ BurnTypes' /\ \A pair, who : Burned(pair, who)' = Burned(pair, who)
    BY <1>1, Quiet
  <2>5. Burned(task.pair, item.who)
    BY <1>1, <1>10 DEF DrainInv, TaskMoved
  <2>6. Burned(task.pair, item.who)'
    BY <1>1, <2>1, <2>2, <2>5 DEF Burned
  <2>7. TaskMoved'
    BY <2>1, <2>2, <2>6 DEF TaskMoved
  <2>8. RowsBecome(task.pair, item.who, "submitted")
    BY <1>4, <1>10, MarkStep
  <2>9. RowTypes'
    BY <1>1, <1>4, <2>8 DEF RowTypes, RowsBecome
  <2>10. RowsMoved'
    BY <1>1, <2>8, MovedRows DEF DrainInv
  <2>11. Resumable'
    BY <1>1, <1>2, <1>3, <1>5, <2>8, Pairs, ResumableRows DEF DrainInv
  <2>12. \A who : Passed(who)' = Passed(who)
    BY <2>1 DEF Passed
  <2>13. CompletedPassed'
    BY <1>1, <1>5, <2>1, <2>8, <2>12 DEF DrainInv, CompletedPassed, RowsBecome
  <2>14. QED
    BY <1>7, <2>3, <2>4, <2>7, <2>9, <2>10, <2>11, <2>13 DEF DrainInv
<1>11. QED
  BY <1>1, <1>8, <1>9, <1>10

(* set_user_home_chain: the holder moves to where the burn went. *)
LEMMA SetHomeKeeps ==
  ASSUME DrainInv, setHome
  PROVE  DrainInv'
<1>1. /\ task.pc = "home" /\ UNCHANGED <<bankVars, chainStatus, active_chains, burner>>
      /\ UNCHANGED <<nonces, nonce_cache, drainMempool, drain_runtime>>
      /\ \/ /\ item.who \in Registered
            /\ homeChain' = [homeChain EXCEPT ![item.who] = task.pair[2]]
            /\ task' = [task EXCEPT !.pc = "complete"]
            /\ Undisturbed /\ UNCHANGED decommission_ops
         \/ (callFailed \/ callDisturbed("rpc")) /\ UNCHANGED homeChain
  BY DEF setHome, Task, NoCall
<1>2. task \in TaskRecord /\ task.at <= Len(task.plan) /\ item.kind = "holder"
  BY <1>1 DEF DrainInv, TaskTypes, Working
<1>3. task.pair \in Requests /\ item \in Item /\ item.who \in Users
  BY <1>1, <1>2, ItemAt DEF DrainInv
<1>4. /\ disturbances' \in Seq(Disturbances) /\ Len(disturbances') <= MaxDisturbances
      /\ (DatabaseAnswers' => DatabaseAnswers)
  BY <1>1, FailedStep, Answers DEF DrainInv
<1>5. ChainTypes'
  BY <1>1, <1>4 DEF DrainInv, ChainTypes
<1>6. CASE (callFailed \/ callDisturbed("rpc")) /\ UNCHANGED homeChain
  BY <1>1, <1>2, <1>4, <1>5, <1>6, FailedStep, ItemEnds
<1>7. CASE /\ homeChain' = [homeChain EXCEPT ![item.who] = task.pair[2]]
           /\ task' = [task EXCEPT !.pc = "complete"] /\ UNCHANGED decommission_ops
  <2>1. /\ task' \in TaskRecord /\ task'.pc = "complete" /\ task'.pair = task.pair
        /\ task'.plan = task.plan /\ task'.at = task.at /\ task'.done = task.done
        /\ task'.receipt = task.receipt
    BY <1>2, <1>7 DEF TaskRecord
  <2>2. item' = item
    BY <2>1 DEF item
  <2>3. TaskTypes' /\ PlanShape'
    BY <1>1, <1>2, <2>1, <2>2 DEF DrainInv, TaskTypes, Working, PlanShape
  <2>4. TypeOK' /\ BurnTypes' /\ \A pair, who : Burned(pair, who)' = Burned(pair, who)
    BY <1>1, Quiet
  <2>5. Burned(task.pair, item.who)
    BY <1>1 DEF DrainInv, TaskMoved
  <2>6. homeChain \in [Users -> Chains] /\ task.pair[2] \in Chains
    BY <1>3, Pairs DEF DrainInv, RowTypes
  <2>7. /\ homeChain' \in [Users -> Chains] /\ homeChain'[item.who] = task.pair[2]
        /\ \A u \in Users : u # item.who => homeChain'[u] = homeChain[u]
    BY <1>3, <1>7, <2>6
  <2>8. \E b \in 1..Len(burner) : burner[b].who = item.who /\ burner[b].pair[2] = homeChain'[item.who]
    BY <2>5, <2>7 DEF Burned
  <2>9. \A u \in Users : Homed(u) \/ u = item.who => Homed(u)'
    BY <1>1, <2>7, <2>8 DEF Homed
  <2>10. RowTypes'
    BY <1>7, <2>7 DEF DrainInv, RowTypes
  <2>11. RowsMoved'
    <3>1. \A i \in 1..Len(decommission_ops) : decommission_ops[i].who \in Users
      BY RowFacts DEF DrainInv, RowTypes
    <3>2. QED
      BY <1>7, <2>4, <2>9, <3>1 DEF DrainInv, RowsMoved
  <2>12. TaskMoved'
    <3>1. Burned(task.pair, item.who)'
      BY <1>1, <2>1, <2>2, <2>5 DEF Burned
    <3>2. Homed(item.who)'
      BY <1>1, <2>1, <2>2, <2>8 DEF Homed
    <3>3. QED
      BY <2>1, <2>2, <3>1, <3>2 DEF TaskMoved
  <2>13. Resumable'
    BY <1>1, <1>4, <1>7 DEF DrainInv, Resumable
  <2>14. CompletedPassed'
    BY <1>1, <1>4, <1>7, <2>1 DEF DrainInv, CompletedPassed, Passed
  <2>15. QED
    BY <1>5, <2>3, <2>4, <2>10, <2>11, <2>12, <2>13, <2>14 DEF DrainInv
<1>8. QED
  BY <1>1, <1>6, <1>7

(* mark_holder_completed. *)
LEMMA CompleteKeeps ==
  ASSUME DrainInv, complete
  PROVE  DrainInv'
<1>1. /\ task.pc = "complete" /\ UNCHANGED <<bankVars, chainStatus, active_chains, burner>>
      /\ UNCHANGED <<nonces, nonce_cache, drainMempool, drain_runtime, homeChain>>
      /\ mark(task.pair, item.who, "completed") /\ task' = nextItem
  BY DEF complete, Task, NoCall
<1>2. /\ RowsBecome(task.pair, item.who, "completed") /\ (Undisturbed \/ \E kind : Disturbed(kind))
  <2>1. RowTypes /\ ChainTypes /\ "completed" \in Incomplete \cup {"completed", "failed"}
    BY DEF DrainInv
  <2>2. QED
    BY <1>1, <2>1, MarkStep
<1>3. task.at <= Len(task.plan)
  BY <1>1 DEF DrainInv, TaskTypes, Working
<1>4. /\ disturbances' \in Seq(Disturbances) /\ Len(disturbances') <= MaxDisturbances
      /\ (DatabaseAnswers' => DatabaseAnswers)
  BY <1>2, Answers DEF DrainInv
<1>5. ChainTypes'
  BY <1>1, <1>4 DEF DrainInv, ChainTypes
<1>6. QED
  BY <1>1, <1>2, <1>3, <1>4, <1>5, ItemEnds

(* A task that has ended: what end and restart leave. *)
LEMMA IdleKeeps ==
  ASSUME DrainInv, task' = Idle, drain_runtime' \in Runtime, drain_runtime'.running = None,
         UNCHANGED <<bankVars, burner, decommission_ops, homeChain>>, ChainTypes',
         DatabaseAnswers' => \A i \in 1..Len(decommission_ops) :
             decommission_ops[i].status \in Incomplete
                 => decommission_ops[i].pair = drain_runtime'.resumable
  PROVE  DrainInv'
<1>1. /\ task' \in TaskRecord /\ task'.pc = "idle" /\ task'.pair = None /\ task'.plan = <<>>
      /\ task'.at = 1
  BY DEF Idle, TaskRecord, MaybePair
<1>2. TaskTypes' /\ PlanShape' /\ TaskMoved' /\ CompletedPassed'
  BY <1>1 DEF TaskTypes, Working, PlanShape, TaskMoved, CompletedPassed
<1>3. TypeOK' /\ BurnTypes'
  BY Quiet
<1>4. RowTypes' /\ RowsMoved'
  BY DEF DrainInv, RowTypes, RowsMoved, Burned, Homed
<1>5. Resumable'
  BY DEF Resumable
<1>6. QED
  BY <1>2, <1>3, <1>4, <1>5 DEF DrainInv

(* The end of the spawned task: what is incomplete stays resumable. *)
LEMMA EndKeeps ==
  ASSUME DrainInv, end
  PROVE  DrainInv'
<1>1. /\ task.pc = "end" /\ task' = Idle
      /\ UNCHANGED <<bankVars, chainStatus, active_chains, burner, decommission_ops, homeChain>>
      /\ UNCHANGED <<nonces, nonce_cache, drainMempool>>
      /\ \/ /\ drain_runtime' = [running |-> None,
                                 resumable |-> IF has_incomplete_ops THEN task.pair ELSE None]
            /\ Undisturbed
         \/ drain_runtime' = [running |-> None, resumable |-> None] /\ Disturbed("db")
  BY DEF end, Task, NoCall
<1>2. /\ disturbances' \in Seq(Disturbances) /\ Len(disturbances') <= MaxDisturbances
      /\ (DatabaseAnswers' => DatabaseAnswers) /\ (Disturbed("db") => ~DatabaseAnswers')
  BY <1>1, Answers DEF DrainInv
<1>3. ChainTypes'
  BY <1>1, <1>2 DEF DrainInv, ChainTypes
<1>4. task.pair \in MaybePair /\ task.pair = drain_runtime.running /\ task.pair # None
  BY <1>1, TaskFields DEF DrainInv, TaskTypes
<1>5. drain_runtime' \in Runtime /\ drain_runtime'.running = None
  BY <1>1, <1>4 DEF Runtime, MaybePair
<1>6. ASSUME DatabaseAnswers', NEW i \in 1..Len(decommission_ops),
             decommission_ops[i].status \in Incomplete
      PROVE  decommission_ops[i].pair = drain_runtime'.resumable
  <2>1. i \in incompleteOps
    BY <1>6 DEF incompleteOps, DrainInv, RowTypes
  <2>2. decommission_ops[i].pair = task.pair
    BY <1>2, <1>4, <1>6 DEF DrainInv, Resumable
  <2>3. drain_runtime'.resumable = task.pair
    BY <1>1, <1>2, <1>6, <2>1 DEF has_incomplete_ops
  <2>4. QED
    BY <2>2, <2>3
<1>7. QED
  BY <1>1, <1>3, <1>5, <1>6, IdleKeeps

(* The newest incomplete row exists when there is an incomplete one. *)
LEMMA NewestRow ==
  ASSUME RowTypes, incompleteOps # {}
  PROVE  \E i \in incompleteOps :
            i \in 1..Len(decommission_ops) /\ latest_incomplete_pair = decommission_ops[i].pair
<1> DEFINE n == Len(decommission_ops)
           back == {n - i : i \in incompleteOps}
<1>1. n \in Nat /\ \A i \in incompleteOps : i \in 1..n
  BY DEF RowTypes, incompleteOps
<1> HIDE DEF n
<1>2. back \subseteq Nat /\ back # {}
  BY <1>1
<1> HIDE DEF back
<1>3. PICK b \in back : \A y \in back : b <= y
  BY <1>2, LeastNat
<1>4. PICK top \in incompleteOps : b = n - top
  BY DEF back
<1>5. \A k \in incompleteOps : k <= top
  <2>1. ASSUME NEW k \in incompleteOps PROVE k <= top
    <3>1. n - top <= n - k
      BY <1>3, <1>4 DEF back
    <3>2. QED
      BY <1>1, <3>1
  <2>2. QED
    BY <2>1
<1> DEFINE i == CHOOSE i \in incompleteOps : \A k \in incompleteOps : k <= i
<1>6. i \in incompleteOps
  BY <1>5
<1>7. latest_incomplete_pair = decommission_ops[i].pair
  BY DEF latest_incomplete_pair
<1> HIDE DEF i
<1>8. QED
  BY <1>1, <1>6, <1>7 DEF n

(* A restart resumes the pair of the newest incomplete row. *)
LEMMA RestartKeeps ==
  ASSUME DrainInv, restart
  PROVE  DrainInv'
<1>1. /\ Disturbed("restart") /\ task' = Idle
      /\ drain_runtime' = [running |-> None, resumable |-> latest_incomplete_pair]
      /\ nonce_cache' = [c \in Chains |-> 0] /\ active_chains' = Chains
      /\ UNCHANGED <<bankVars, chainStatus, decommission_ops, homeChain, nonces, drainMempool, burner>>
  BY DEF restart
<1>2. /\ disturbances' \in Seq(Disturbances) /\ Len(disturbances') <= MaxDisturbances
      /\ (DatabaseAnswers' => DatabaseAnswers)
  BY <1>1, Answers DEF DrainInv
<1>3. nonce_cache' \in [Chains -> Nat]
  BY <1>1
<1>4. ChainTypes'
  BY <1>1, <1>2, <1>3 DEF DrainInv, ChainTypes
<1>5. latest_incomplete_pair \in MaybePair
  <2>1. CASE incompleteOps = {}
    BY <2>1 DEF latest_incomplete_pair, MaybePair
  <2>2. CASE incompleteOps # {}
    BY <2>2, NewestRow, RowFacts DEF DrainInv, RowTypes, MaybePair
  <2>3. QED
    BY <2>1, <2>2
<1>6. drain_runtime' \in Runtime /\ drain_runtime'.running = None
      /\ drain_runtime'.resumable = latest_incomplete_pair
  BY <1>1, <1>5 DEF Runtime, MaybePair
<1>7. ASSUME DatabaseAnswers', NEW i \in 1..Len(decommission_ops),
             decommission_ops[i].status \in Incomplete
      PROVE  decommission_ops[i].pair = drain_runtime'.resumable
  <2>1. i \in incompleteOps
    BY <1>7 DEF incompleteOps, DrainInv, RowTypes
  <2>2. PICK k \in incompleteOps :
          k \in 1..Len(decommission_ops) /\ latest_incomplete_pair = decommission_ops[k].pair
    BY <2>1, NewestRow DEF DrainInv
  <2>3. decommission_ops[k].status \in Incomplete
    BY DEF incompleteOps
  <2>4. QED
    BY <1>2, <1>6, <1>7, <2>2, <2>3 DEF DrainInv, Resumable
<1>8. QED
  BY <1>1, <1>4, <1>6, <1>7, IdleKeeps

-----------------------------------------------------------------------------
(* The chains, RouteReceiver and the other users of the key. *)

(* Steps outside the task that burn nothing. *)
LEMMA OutsideKeeps ==
  ASSUME DrainInv, UNCHANGED <<drain_runtime, task, decommission_ops, homeChain, burner, rebalances>>,
         TypeOK', ChainTypes', Undisturbed \/ \E kind : Disturbed(kind)
  PROVE  DrainInv'
<1>1. DatabaseAnswers' => DatabaseAnswers
  BY Answers DEF DrainInv
<1>2. TaskTypes' /\ PlanShape' /\ RowTypes'
  BY DEF DrainInv, TaskTypes, Working, item, PlanShape, RowTypes
<1>3. BurnTypes' /\ RowsMoved' /\ TaskMoved'
  BY DEF DrainInv, BurnTypes, RowsMoved, TaskMoved, Burned, Homed, item
<1>4. Resumable' /\ CompletedPassed'
  BY <1>1 DEF DrainInv, Resumable, CompletedPassed, Passed, item
<1>5. QED
  BY <1>2, <1>3, <1>4 DEF DrainInv

(* A transaction that is dropped, or a nonce that another task uses. *)
LEMMA MempoolKeeps ==
  ASSUME DrainInv, (\E x \in drainMempool : drop(x)) \/ \E pair \in Requests : otherTx(pair[1])
  PROVE  DrainInv'
<1>1. /\ UNCHANGED <<drain_runtime, decommission_ops, homeChain, nonce_cache>>
      /\ UNCHANGED <<bankVars, chainStatus, active_chains, task, burner>>
      /\ drainMempool' \in SUBSET drainMempool /\ \E kind : Disturbed(kind)
      /\ \/ UNCHANGED nonces
         \/ \E pair \in Requests : nonces' = [nonces EXCEPT ![pair[1]] = @ + 1]
  BY DEF drop, otherTx, NotTheTask
<1>2. nonces' \in [Chains -> Nat \ {0}]
  BY <1>1, Pairs DEF DrainInv, ChainTypes
<1>3. drainMempool' \subseteq Tx /\ IsFiniteSet(drainMempool')
  <2>1. drainMempool \subseteq Tx /\ IsFiniteSet(drainMempool)
    BY DEF DrainInv, ChainTypes
  <2>2. QED
    BY <1>1, <2>1, FS_Subset
<1>4. disturbances' \in Seq(Disturbances) /\ Len(disturbances') <= MaxDisturbances
  BY <1>1, Answers DEF DrainInv
<1>5. ChainTypes'
  BY <1>1, <1>2, <1>3, <1>4 DEF DrainInv, ChainTypes
<1>6. TypeOK' /\ UNCHANGED rebalances
  BY <1>1, Quiet DEF bankVars, coldVars
<1>7. QED
  BY <1>1, <1>5, <1>6, OutsideKeeps

(* RouteReceiver's transitions, and what the hot path learns of them. *)
LEMMA RouteKeeps ==
  ASSUME DrainInv, \/ \E pair \in Requests : markDecommissioning(pair[1])
                   \/ \E c \in Finalizable : finalizeDecommission(c)
                   \/ \E pair \in Requests : deactivate(pair[2])
  PROVE  DrainInv'
<1>1. /\ UNCHANGED <<drain_runtime, decommission_ops, homeChain, nonce_cache>>
      /\ UNCHANGED <<bankVars, task, nonces, drainMempool, burner>>
      /\ active_chains' \subseteq active_chains /\ (Undisturbed \/ \E kind : Disturbed(kind))
      /\ \/ UNCHANGED chainStatus
         \/ \E c \in Chains, s \in {"draining", "decommissioned"} :
               chainStatus' = [chainStatus EXCEPT ![c] = s]
  <2>1. CASE \E pair \in Requests : markDecommissioning(pair[1])
    BY <2>1, Pairs DEF markDecommissioning, NotTheTask, Undisturbed
  <2>2. CASE \E c \in Finalizable : finalizeDecommission(c)
    BY <2>2, DecommissionAssumption DEF finalizeDecommission, NotTheTask
  <2>3. CASE \E pair \in Requests : deactivate(pair[2])
    BY <2>3 DEF deactivate, NotTheTask
  <2>4. QED
    BY <2>1, <2>2, <2>3
<1>2. chainStatus' \in [Chains -> {"active", "draining", "decommissioned"}]
  BY <1>1 DEF DrainInv, ChainTypes
<1>3. disturbances' \in Seq(Disturbances) /\ Len(disturbances') <= MaxDisturbances
  BY <1>1, Answers DEF DrainInv
<1>4. ChainTypes'
  BY <1>1, <1>2, <1>3 DEF DrainInv, ChainTypes
<1>5. TypeOK' /\ UNCHANGED rebalances
  BY <1>1, Quiet DEF bankVars, coldVars
<1>6. QED
  BY <1>1, <1>4, <1>5, OutsideKeeps

(* A holder withdraws. *)
LEMMA UserKeeps ==
  ASSUME DrainInv, NEW pair \in Requests, NEW u \in Users, NEW amount \in Amounts,
         userWithdraws(pair[1], u, amount)
  PROVE  DrainInv'
<1>1. /\ UNCHANGED <<drain_runtime, decommission_ops, homeChain, nonce_cache>>
      /\ UNCHANGED <<chainStatus, active_chains, task, nonces, drainMempool, burner>>
      /\ withdraw(pair[1], u, amount) /\ Disturbed("user")
  BY DEF userWithdraws, NotTheTask
<1>2. pair[1] \in Chains /\ amount \in Nat /\ TypeOK
  BY Pairs, BankAssumption DEF DrainInv
<1>3. TypeOK'
  BY <1>1, <1>2, WithdrawType
<1>4. UNCHANGED rebalances
  BY <1>1 DEF withdraw, coldVars
<1>5. disturbances' \in Seq(Disturbances) /\ Len(disturbances') <= MaxDisturbances
  BY <1>1, Answers DEF DrainInv
<1>6. ChainTypes'
  BY <1>1, <1>5 DEF DrainInv, ChainTypes
<1>7. QED
  BY <1>1, <1>3, <1>4, <1>6, OutsideKeeps

(* A transaction is included: the burn it made, if any, is on record, and the
   task that waits for it is told. *)
LEMMA IncludeKeeps ==
  ASSUME DrainInv, NEW x \in drainMempool, include(x)
  PROVE  DrainInv'
<1> DEFINE c == x.pair[1]
           d == x.pair[2]
           a == x.item.amount
           told(r) == task' = IF task.pc = "wait" /\ x = currentTx THEN [task EXCEPT !.receipt = r]
                              ELSE task
           log == [src |-> c, dst |-> d, amount |-> a, nonce |-> rebalanceNonce[c]]
           burn == [pair |-> x.pair, who |-> x.item.who]
<1>1. /\ UNCHANGED <<drain_runtime, decommission_ops, homeChain, nonce_cache>>
      /\ UNCHANGED <<chainStatus, active_chains, disturbances>>
      /\ nonces' = [nonces EXCEPT ![c] = @ + 1] /\ drainMempool' = drainMempool \ {x}
      /\ \/ /\ rebalance(c, d, a) /\ burner' = Append(burner, burn) /\ told("ok")
         \/ /\ x.item.kind = "reserve" /\ bridgeReserve(c, d, a) /\ UNCHANGED burner /\ told("ok")
         \/ UNCHANGED <<bankVars, burner>> /\ told("reverted")
  BY DEF include, NotTheTask
<1>2. /\ x \in Tx /\ x.pair \in Requests /\ x.item \in Item
      /\ c \in Chains /\ d \in Chains /\ a \in Nat /\ x.item.who \in Users \cup {0}
  BY TxFacts, ItemFacts, Pairs DEF DrainInv, ChainTypes
<1>3. ChainTypes'
  <2>1. drainMempool \subseteq Tx /\ IsFiniteSet(drainMempool) /\ drainMempool' \subseteq drainMempool
    BY <1>1 DEF DrainInv, ChainTypes
  <2>2. IsFiniteSet(drainMempool')
    BY <2>1, FS_Subset
  <2>3. nonces' \in [Chains -> Nat \ {0}]
    BY <1>1, <1>2 DEF DrainInv, ChainTypes
  <2>4. QED
    BY <1>1, <2>1, <2>2, <2>3 DEF DrainInv, ChainTypes
<1>4. /\ task' \in TaskRecord /\ task'.pc = task.pc /\ task'.pair = task.pair
      /\ task'.plan = task.plan /\ task'.at = task.at /\ task'.done = task.done
      /\ \/ task' = task
         \/ /\ task.pc = "wait" /\ x.pair = task.pair /\ x.item = item
            /\ \/ task'.receipt = "ok" /\ (burner' = Append(burner, burn) \/ x.item.kind = "reserve")
               \/ task'.receipt = "reverted"
  <2>1. task \in TaskRecord
    BY DEF DrainInv, TaskTypes
  <2>2. x = currentTx => x.pair = task.pair /\ x.item = item
    BY DEF currentTx
  <2>3. \A r \in {"ok", "reverted"} :
           /\ [task EXCEPT !.receipt = r] \in TaskRecord
           /\ [task EXCEPT !.receipt = r].receipt = r /\ [task EXCEPT !.receipt = r].pc = task.pc
           /\ [task EXCEPT !.receipt = r].pair = task.pair /\ [task EXCEPT !.receipt = r].plan = task.plan
           /\ [task EXCEPT !.receipt = r].at = task.at /\ [task EXCEPT !.receipt = r].done = task.done
    BY <2>1 DEF TaskRecord
  <2>4. \E r \in {"ok", "reverted"} :
          told(r) /\ (r = "ok" => burner' = Append(burner, burn) \/ x.item.kind = "reserve")
    BY <1>1
  <2>5. QED
    BY <2>1, <2>2, <2>3, <2>4
<1>5. item' = item
  BY <1>4 DEF item
<1>6. TaskTypes' /\ PlanShape'
  BY <1>1, <1>4, <1>5 DEF DrainInv, TaskTypes, Working, PlanShape
<1>7. RowTypes' /\ Resumable'
  BY <1>1 DEF DrainInv, RowTypes, Resumable, DatabaseAnswers
<1>8. CompletedPassed'
  BY <1>1, <1>4, <1>5 DEF DrainInv, CompletedPassed, Passed, DatabaseAnswers
<1>9. TypeOK'
  BY <1>1, <1>2, RebalanceType, BridgeReserveType, Quiet DEF DrainInv
<1> HIDE DEF told
<1>10. BurnTypes'
  <2>1. CASE rebalance(c, d, a) /\ burner' = Append(burner, burn)
    <3>1. rebalances' = Append(rebalances, log)
      BY <2>1 DEF rebalance
    <3>2. burn \in Burn /\ burn.pair = x.pair /\ log.dst = d
      BY <1>2 DEF Burn
    <3> HIDE DEF burn, log
    <3>3. /\ burner \in Seq(Burn) /\ rebalances \in Seq(Rebalance) /\ Len(burner) = Len(rebalances)
          /\ Len(burner) \in Nat
      BY DEF DrainInv, BurnTypes, TypeOK, ColdType
    <3>4. /\ burner' \in Seq(Burn) /\ Len(burner') = Len(burner) + 1
          /\ burner'[Len(burner) + 1] = burn
          /\ \A b \in 1..Len(burner) : burner'[b] = burner[b]
      BY <2>1, <3>2, <3>3
    <3>5. /\ Len(rebalances') = Len(burner) + 1 /\ rebalances'[Len(burner) + 1] = log
          /\ \A b \in 1..Len(burner) : rebalances'[b] = rebalances[b]
      BY <3>1, <3>3
    <3>6. \A b \in 1..(Len(burner) + 1) : b \in 1..Len(burner) \/ b = Len(burner) + 1
      BY <3>3
    <3>7. \A b \in 1..Len(burner') : rebalances'[b].dst = burner'[b].pair[2]
      BY <3>2, <3>4, <3>5, <3>6 DEF DrainInv, BurnTypes
    <3>8. QED
      BY <3>4, <3>5, <3>7 DEF BurnTypes
  <2>2. CASE UNCHANGED burner /\ UNCHANGED rebalances
    BY <2>2 DEF DrainInv, BurnTypes
  <2>3. QED
    BY <1>1, <2>1, <2>2 DEF bridgeReserve, bankVars, coldVars
<1>11. /\ \A pair, who : Burned(pair, who) => Burned(pair, who)'
       /\ \A who : Homed(who) => Homed(who)'
       /\ burner' = Append(burner, burn) => Burned(x.pair, x.item.who)'
  <2>1. CASE burner' = Append(burner, burn)
    <3>1. burn \in Burn
      BY <1>2 DEF Burn
    <3>2. burner \in Seq(Burn) /\ Len(burner) \in Nat
      BY DEF DrainInv, BurnTypes
    <3>3. /\ Len(burner') = Len(burner) + 1 /\ burner'[Len(burner) + 1] = burn
          /\ \A b \in 1..Len(burner) : burner'[b] = burner[b] /\ b \in 1..Len(burner')
          /\ Len(burner) + 1 \in 1..Len(burner')
      BY <2>1, <3>1, <3>2
    <3>4. \E b \in 1..Len(burner') : burner'[b] = [pair |-> x.pair, who |-> x.item.who]
      BY <3>3
    <3> HIDE DEF burn
    <3>5. /\ \A pair, who : Burned(pair, who) => Burned(pair, who)'
          /\ \A who : Homed(who) => Homed(who)'
      BY <1>1, <3>3 DEF Burned, Homed
    <3>6. ASSUME NEW pair, pair = x.pair, NEW who, who = x.item.who PROVE Burned(pair, who)'
      BY <3>4, <3>6 DEF Burned
    <3>7. QED
      BY <3>5, <3>6
  <2>2. CASE UNCHANGED burner /\ ~(burner' = Append(burner, burn))
    BY <1>1, <2>2 DEF Burned, Homed
  <2>3. QED
    BY <1>1, <2>1, <2>2
<1>12. RowsMoved'
  BY <1>1, <1>11 DEF DrainInv, RowsMoved
<1>13. TaskMoved'
  <2>1. \/ task'.pc \in {"home", "complete"}
        \/ task'.pc = "wait" /\ task'.receipt = "ok" /\ item'.kind # "reserve"
        => Burned(task.pair, item.who)'
    <3>1. CASE task' = task
      BY <1>4, <1>5, <1>11, <3>1 DEF DrainInv, TaskMoved
    <3>2. CASE /\ task.pc = "wait" /\ x.pair = task.pair /\ x.item = item
               /\ task'.receipt = "ok" => burner' = Append(burner, burn)
      BY <1>4, <1>5, <1>11, <3>2
    <3>3. CASE x.item = item /\ x.item.kind = "reserve" /\ task.pc = "wait"
      BY <1>4, <1>5, <3>3
    <3>4. QED
      BY <1>4, <3>1, <3>2, <3>3
  <2>2. task'.pc = "complete" => Homed(item.who)'
    BY <1>4, <1>5, <1>11 DEF DrainInv, TaskMoved
  <2>3. QED
    BY <2>1, <2>2 DEF TaskMoved
<1>14. QED
  BY <1>3, <1>6, <1>7, <1>8, <1>9, <1>10, <1>12, <1>13 DEF DrainInv

-----------------------------------------------------------------------------
(* Before the first drain there is nothing to show. *)
LEMMA InitDrain == DecommissionInit => DrainInv
<1> SUFFICES ASSUME DecommissionInit PROVE DrainInv
  OBVIOUS
<1>1. TypeOK /\ rebalances = <<>>
  BY DEF DecommissionInit, Operating
<1>2. /\ task = Idle /\ drain_runtime = [running |-> None, resumable |-> None]
      /\ decommission_ops = <<>> /\ burner = <<>> /\ disturbances = <<>> /\ drainMempool = {}
      /\ homeChain \in [Users -> Chains] /\ active_chains = Chains
      /\ chainStatus = [c \in Chains |-> "active"]
      /\ nonces = [c \in Chains |-> 1] /\ nonce_cache = [c \in Chains |-> 0]
  BY DEF DecommissionInit, ServiceInit
<1>3. /\ task \in TaskRecord /\ task.pc = "idle" /\ task.pair = None /\ task.plan = <<>> /\ task.at = 1
  BY <1>2 DEF Idle, TaskRecord, MaybePair
<1>4. drain_runtime \in Runtime /\ drain_runtime.running = None
  BY <1>2 DEF Runtime, MaybePair
<1>5. TaskTypes /\ PlanShape /\ TaskMoved /\ CompletedPassed
  BY <1>3, <1>4 DEF TaskTypes, Working, PlanShape, TaskMoved, CompletedPassed
<1>6. RowTypes /\ RowsMoved /\ Resumable
  BY <1>2, <1>4 DEF RowTypes, RowsMoved, Resumable
<1>7. BurnTypes
  BY <1>1, <1>2 DEF BurnTypes
<1>8. ChainTypes
  <2>1. IsFiniteSet(drainMempool)
    BY <1>2, FS_EmptySet
  <2>2. disturbances \in Seq(Disturbances) /\ Len(disturbances) <= MaxDisturbances
    BY <1>2, DecommissionAssumption
  <2>3. nonces \in [Chains -> Nat \ {0}] /\ nonce_cache \in [Chains -> Nat]
    BY <1>2
  <2>4. QED
    BY <1>2, <2>1, <2>2, <2>3 DEF ChainTypes
<1>9. QED
  BY <1>1, <1>5, <1>6, <1>7, <1>8 DEF DrainInv

(* The steps by component: the request, the task, the mempool, the rest. *)
LEMMA NextDrain == DrainInv /\ [DecommissionNext]_allVars => DrainInv'
<1>1. ASSUME DrainInv, UNCHANGED allVars PROVE DrainInv'
  <2>1. UNCHANGED <<bankVars, drainVars>>
    BY <1>1 DEF allVars
  <2>2. TypeOK' /\ ChainTypes'
    BY <1>1, <2>1, Quiet DEF DrainInv, ChainTypes, drainVars
  <2>3. QED
    BY <1>1, <2>1, <2>2, OutsideKeeps DEF drainVars, bankVars, coldVars, Undisturbed
<1>2. ASSUME DrainInv, TaskStep PROVE DrainInv'
  BY <1>2, GateKeeps, NextKeeps, SendKeeps, AwaitKeeps, SetHomeKeeps, CompleteKeeps, EndKeeps
  DEF TaskStep
<1>3. ASSUME DrainInv, DecommissionNext PROVE DrainInv'
  BY <1>2, <1>3, StartKeeps, IncludeKeeps, MempoolKeeps, UserKeeps, RouteKeeps, RestartKeeps
  DEF DecommissionNext
<1>4. QED
  BY <1>1, <1>3

(* The drain keeps its invariant. *)
LEMMA DrainInvariant == DecommissionSpec => []DrainInv
BY InitDrain, NextDrain, PTL DEF DecommissionSpec

(* The drain's state is well typed: the task that runs is the one
   running_drain_id names, it never reads past its plan, and every burn has
   one operation behind it. *)
THEOREM DrainTyped == DecommissionSpec => []DecommissionTypeOK
<1>1. DrainInv => DecommissionTypeOK
  <2> SUFFICES ASSUME DrainInv PROVE DecommissionTypeOK
    OBVIOUS
  <2>1. drain_runtime.running \in Requests \cup {None} /\ drain_runtime.resumable \in Requests \cup {None}
    BY DEF DrainInv, TaskTypes, Runtime, MaybePair
  <2>2. /\ task.pc \in {"idle", "gate", "next", "send", "wait", "home", "complete", "end"}
        /\ task.pair = drain_runtime.running /\ task.plan \in Seq(Item)
        /\ task.at \in 1..(Len(task.plan) + 1) /\ task.done \subseteq Users
    BY TaskFields DEF DrainInv, TaskTypes
  <2>3. QED
    BY <2>1, <2>2 DEF DrainInv, RowTypes, ChainTypes, BurnTypes, DecommissionTypeOK
<1>2. QED
  BY <1>1, DrainInvariant, PTL

(* A row that says "completed" has been moved, on any number of chains and
   whatever was retried, resumed, timed out or included late. *)
THEOREM CompletedAreMoved == DecommissionSpec => []CompletedMeansMoved
<1>1. DrainInv => CompletedMeansMoved
  <2> SUFFICES ASSUME DrainInv, NEW i \in 1..Len(decommission_ops),
                      decommission_ops[i].status = "completed"
               PROVE  /\ \E b \in DOMAIN burner :
                            /\ burner[b] = [pair |-> decommission_ops[i].pair, who |-> decommission_ops[i].who]
                            /\ rebalances[b].dst = decommission_ops[i].pair[2]
                      /\ \E b \in DOMAIN burner :
                            /\ burner[b].who = decommission_ops[i].who
                            /\ burner[b].pair[2] = homeChain[decommission_ops[i].who]
    BY DEF CompletedMeansMoved, DrainInv, RowTypes
  <2>1. Burned(decommission_ops[i].pair, decommission_ops[i].who) /\ Homed(decommission_ops[i].who)
    BY DEF DrainInv, RowsMoved
  <2>2. DOMAIN burner = 1..Len(burner)
    BY DEF DrainInv, BurnTypes
  <2>3. \A b \in 1..Len(burner) : rebalances[b].dst = burner[b].pair[2]
    BY DEF DrainInv, BurnTypes
  <2>4. QED
    BY <2>1, <2>2, <2>3 DEF Burned, Homed
<1>2. QED
  BY <1>1, DrainInvariant, PTL

(* While the database answers, interrupted work belongs to the drain that runs
   or is the only one that can be started. *)
THEOREM InterruptedAreResumable == DecommissionSpec => []IncompleteIsResumable
<1>1. DrainInv => IncompleteIsResumable
  BY DEF DrainInv, RowTypes, Resumable, IncompleteIsResumable, incompleteOps
<1>2. QED
  BY <1>1, DrainInvariant, PTL

(* While the database answers, no step sends a transaction for a holder who is
   completed: a drain has either found them completed or has passed them. *)
THEOREM CompletedAreDone == DecommissionSpec => CompletedStayDone
<1> DEFINE Done ==
      \A i \in DOMAIN decommission_ops :
          (decommission_ops[i].status = "completed" /\ DatabaseAnswers) =>
              \A x \in drainMempool' \ drainMempool :
                  ~(x.pair = decommission_ops[i].pair /\ x.item.who = decommission_ops[i].who)
<1>1. ASSUME DrainInv, [DecommissionNext]_allVars PROVE [Done]_allVars
  <2>1. CASE send
    <3>1. /\ task.pc = "send" /\ task.at <= Len(task.plan)
      BY <1>1, <2>1 DEF send, Task, DrainInv, TaskTypes, Working
    <3>2. \A x \in drainMempool' \ drainMempool : x.pair = task.pair /\ x.item = item
      BY <2>1 DEF send
    <3>3. /\ task.at \in 1..Len(task.plan) /\ item = task.plan[task.at] /\ Len(task.plan) \in Nat
      BY <1>1, <3>1, ItemAt, TaskFields DEF DrainInv, TaskTypes
    <3>4. ASSUME NEW i \in 1..Len(decommission_ops), decommission_ops[i].status = "completed",
                 DatabaseAnswers, decommission_ops[i].pair = task.pair,
                 decommission_ops[i].who = item.who
          PROVE  FALSE
      <4>1. Passed(item.who)
        BY <1>1, <3>1, <3>4 DEF DrainInv, CompletedPassed
      <4>2. item.who \notin task.done
        BY <1>1, <3>1 DEF DrainInv, CompletedPassed
      <4>3. item.who # 0
        BY <1>1, <3>4, RowFacts DEF DrainInv, RowTypes, Users
      <4>4. PICK j \in 1..Len(task.plan) : j < task.at /\ task.plan[j].who = item.who
        BY <4>1, <4>2 DEF Passed
      <4>5. j = task.at
        BY <1>1, <3>3, <4>3, <4>4 DEF DrainInv, PlanShape
      <4>6. QED
        BY <3>3, <4>4, <4>5
    <3>5. DOMAIN decommission_ops = 1..Len(decommission_ops)
      BY <1>1 DEF DrainInv, RowTypes
    <3>6. QED
      BY <3>2, <3>4, <3>5
  <2>2. CASE drainMempool' \subseteq drainMempool
    BY <2>2
  <2>3. CASE DecommissionNext /\ ~send
    <3>1. drainMempool' \subseteq drainMempool
      <4>1. CASE gate \/ next \/ setHome \/ complete \/ end
        BY <4>1 DEF gate, next, setHome, complete, end, NoCall
      <4>2. CASE await \/ restart \/ \E pair \in Requests : start_decommission_drain(pair)
        BY <4>2 DEF await, restart, start_decommission_drain
      <4>3. CASE \E x \in drainMempool : include(x) \/ drop(x)
        BY <4>3 DEF include, drop
      <4>4. CASE \/ \E pair \in Requests : otherTx(pair[1]) \/ markDecommissioning(pair[1])
                                             \/ deactivate(pair[2])
                 \/ \E c \in Finalizable : finalizeDecommission(c)
                 \/ \E pair \in Requests, u \in Users, amount \in Amounts :
                        userWithdraws(pair[1], u, amount)
        BY <4>4 DEF otherTx, markDecommissioning, deactivate, finalizeDecommission, userWithdraws
      <4>5. QED
        BY <2>3, <4>1, <4>2, <4>3, <4>4 DEF DecommissionNext, TaskStep
    <3>2. QED
      BY <2>2, <3>1
  <2>4. CASE UNCHANGED allVars
    BY <2>4
  <2>5. QED
    BY <1>1, <2>1, <2>3, <2>4
<1>2. DecommissionSpec => [][Done]_allVars
  BY <1>1, DrainInvariant, PTL DEF DecommissionSpec
<1>3. QED
  BY <1>2 DEF CompletedStayDone

-----------------------------------------------------------------------------
(* The Banks under a drain. *)

(* An included transaction of the drain is a call with its amount. *)
LEMMA IncludeCalls ==
  ASSUME DrainInv, NEW x \in drainMempool, include(x)
  PROVE  BankCall \/ UNCHANGED bankVars
<1> DEFINE c == x.pair[1]
           d == x.pair[2]
           a == x.item.amount
<1>1. x.pair \in Requests /\ x.item \in Item
  BY TxFacts DEF DrainInv, ChainTypes
<1>2. c \in Chains /\ d \in Chains /\ a \in Nat
  BY <1>1, Pairs, ItemFacts
<1>3. rebalance(c, d, a) \/ bridgeReserve(c, d, a) \/ UNCHANGED bankVars
  BY DEF include
<1> HIDE DEF c, d, a
<1>4. QED
  BY <1>2, <1>3 DEF BankCall, TreasuryCall

(* Whatever a drain does, the Banks see calls of theirs. *)
LEMMA DrainCalls == DrainInv /\ [DecommissionNext]_allVars => [BankCall]_bankVars
<1> SUFFICES ASSUME DrainInv, [DecommissionNext]_allVars PROVE BankCall \/ UNCHANGED bankVars
  OBVIOUS
<1>1. CASE TaskStep
  BY <1>1 DEF TaskStep, gate, next, send, await, setHome, complete, end, Task
<1>2. CASE \E x \in drainMempool : include(x)
  BY <1>2, IncludeCalls
<1>3. CASE \E pair \in Requests, u \in Users, amount \in Amounts : userWithdraws(pair[1], u, amount)
  <2>1. PICK pair \in Requests, u \in Users, amount \in Amounts : withdraw(pair[1], u, amount)
    BY <1>3 DEF userWithdraws
  <2>2. pair[1] \in Chains /\ amount \in Nat
    BY Pairs, BankAssumption
  <2>3. QED
    BY <2>1, <2>2 DEF BankCall, UserCall
<1>4. CASE \/ \E pair \in Requests : start_decommission_drain(pair) \/ otherTx(pair[1])
           \/ \E x \in drainMempool : drop(x)
           \/ restart
  BY <1>4 DEF start_decommission_drain, otherTx, drop, restart
<1>5. CASE \/ \E pair \in Requests : markDecommissioning(pair[1]) \/ deactivate(pair[2])
           \/ \E c \in Finalizable : finalizeDecommission(c)
  BY <1>5 DEF markDecommissioning, deactivate, finalizeDecommission
<1>6. CASE UNCHANGED allVars
  BY <1>6 DEF allVars
<1>7. QED
  BY <1>1, <1>2, <1>3, <1>4, <1>5, <1>6 DEF DecommissionNext

(* The Banks stay safe under a drain: what run_drain_plan burns from the pool and
   sends from the reserve of the source stays on the books until it arrives, also
   when a call is repeated after a restart or included late. *)
THEOREM DrainIsSafe ==
  DecommissionSpec => [](Backed /\ TransfersCovered /\ SupplyIsHeld /\ IdsAreUnique)
<1>1. DecommissionInit => BankInv
  BY OperatingKept DEF DecommissionInit
<1>2. DrainInv /\ BankInv /\ [DecommissionNext]_allVars => BankInv'
  BY DrainCalls, CallKeeps
<1>3. DecommissionSpec => []BankInv
  BY <1>1, <1>2, DrainInvariant, PTL DEF DecommissionSpec
<1>4. QED
  BY <1>3, BankInvFacts, PTL
=============================================================================
