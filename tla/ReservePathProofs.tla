-------------------------- MODULE ReservePathProofs -------------------------
(***************************************************************************)
(* What the reserve path of the Treasury guarantees for every number of    *)
(* chains, rows, retries and disturbances: types, success means credited,  *)
(* who reopens a completed row, how often a row may be burned, and the     *)
(* safety of the Banks it calls.                                           *)
(*                                                                         *)
(* The three loops share the table, so the argument separates what a step  *)
(* does to the logs of the Banks, to the table, to the mempool and to the  *)
(* locals of each loop.  Every action is shown once to do only what the    *)
(* six effects below allow, and each part of the invariants is kept by the *)
(* effects together.  What makes it work: a row's move never changes, its  *)
(* message changes only while the planner holds the row and is never lost, *)
(* logs only grow, and a credit is never taken back.                       *)
(***************************************************************************)
EXTENDS ReservePath, PlanProofs

(* The locals of the planner and of the relayer. *)
Receipts == {"none", "ok", "reverted"}
Op == [src : Chains, dst : Chains, amount : Nat \ {0}]
PlannerShape(y) == DOMAIN y = {"pc", "chains", "depths", "ops", "at", "attempt", "receipt", "msg"}
RelayerShape(y) == DOMAIN y = {"pc", "queue", "attempt", "receipt"}

(* The types of the planner's locals: a planner that works on an operation has
   one, and only one that waits has a receipt. *)
PlannerOK(y) ==
    /\ PlannerShape(y) /\ y.pc \in {"idle", "depths", "check", "submit", "wait", "fail"}
    /\ y.chains \subseteq Chains /\ DOMAIN y.depths \subseteq y.chains
    /\ y.depths \in [DOMAIN y.depths -> Nat]
    /\ y.ops \in Seq(Op) /\ y.at \in Nat \ {0} /\ y.attempt \in 1..MAX_RETRIES
    /\ y.receipt \in Receipts /\ y.msg \in 0..MaxBridges
    /\ y.pc = "depths" => y.at = 1 /\ y.ops = <<>>
    /\ y.pc \in {"check", "submit", "wait", "fail"} => y.at <= Len(y.ops)
    /\ y.pc # "wait" => y.receipt = "none"

(* The types of the relayer's locals: a relayer in a round has rows left. *)
RelayerOK(y) ==
    /\ RelayerShape(y) /\ y.pc \in {"idle", "attest", "submit", "wait", "fail"}
    /\ y.queue \in Seq(1..MaxOps) /\ y.attempt \in 1..MAX_RETRIES /\ y.receipt \in Receipts
    /\ y.pc # "idle" => y.queue # <<>>
    /\ y.pc # "wait" => y.receipt = "none"

(* Between cycles. *)
LEMMA PlannerAtRest ==
  /\ PlannerOK(PlannerIdle) /\ PlannerIdle.pc = "idle" /\ PlannerIdle.receipt = "none"
  /\ PlannerIdle.ops = <<>> /\ PlannerIdle.at = 1 /\ PlannerIdle.depths = <<>>
<1>1. /\ PlannerIdle.pc = "idle" /\ PlannerIdle.chains = {} /\ PlannerIdle.depths = <<>>
      /\ PlannerIdle.ops = <<>> /\ PlannerIdle.at = 1 /\ PlannerIdle.attempt = 1
      /\ PlannerIdle.receipt = "none" /\ PlannerIdle.msg = 0 /\ PlannerShape(PlannerIdle)
  BY DEF PlannerIdle, PlannerShape
<1>2. <<>> \in [DOMAIN <<>> -> Nat] /\ DOMAIN <<>> = {} /\ <<>> \in Seq(Op)
  OBVIOUS
<1>3. 1 \in 1..MAX_RETRIES /\ 0 \in 0..MaxBridges
  BY ReservePathAssumption, BankAssumption
<1>4. QED
  BY <1>1, <1>2, <1>3 DEF PlannerOK, Receipts

(* Between rounds. *)
LEMMA RelayerAtRest ==
  /\ RelayerOK(RelayerIdle) /\ RelayerIdle.pc = "idle" /\ RelayerIdle.receipt = "none"
  /\ RelayerIdle.queue = <<>> /\ RelayerIdle.attempt = 1 /\ RelayerShape(RelayerIdle)
<1>1. /\ RelayerIdle.pc = "idle" /\ RelayerIdle.queue = <<>> /\ RelayerIdle.attempt = 1
      /\ RelayerIdle.receipt = "none" /\ RelayerShape(RelayerIdle)
  BY DEF RelayerIdle, RelayerShape
<1>2. <<>> \in Seq(1..MaxOps) /\ 1 \in 1..MAX_RETRIES
  BY ReservePathAssumption
<1>3. QED
  BY <1>1, <1>2 DEF RelayerOK, Receipts

(* A cycle starts. *)
LEMMA CycleBegins ==
  ASSUME NEW S \in SUBSET Chains, NEW z, z = [PlannerIdle EXCEPT !.pc = "depths", !.chains = S]
  PROVE  PlannerOK(z) /\ z.pc = "depths" /\ z.receipt = "none"
<1>1. PlannerOK(PlannerIdle) /\ PlannerShape(PlannerIdle)
  BY PlannerAtRest DEF PlannerOK
<1>2. /\ PlannerShape(z) /\ z.pc = "depths" /\ z.chains = S /\ z.depths = PlannerIdle.depths
      /\ z.ops = PlannerIdle.ops /\ z.at = PlannerIdle.at /\ z.attempt = PlannerIdle.attempt
      /\ z.receipt = PlannerIdle.receipt /\ z.msg = PlannerIdle.msg
  BY <1>1 DEF PlannerShape
<1>3. DOMAIN <<>> = {}
  OBVIOUS
<1>4. QED
  BY <1>1, <1>2, <1>3, PlannerAtRest DEF PlannerOK

(* A cycle reads one more reserve. *)
LEMMA CycleReads ==
  ASSUME NEW y, PlannerOK(y), y.pc = "depths", NEW d, d \in [DOMAIN d -> Nat],
         DOMAIN d \subseteq y.chains, NEW z, z = [y EXCEPT !.depths = d]
  PROVE  PlannerOK(z) /\ z.pc = "depths" /\ z.receipt = "none"
<1>1. PlannerShape(y) /\ y.receipt = "none"
  BY DEF PlannerOK
<1>2. /\ PlannerShape(z) /\ z.pc = y.pc /\ z.chains = y.chains /\ z.depths = d /\ z.ops = y.ops
      /\ z.at = y.at /\ z.attempt = y.attempt /\ z.receipt = y.receipt /\ z.msg = y.msg
  BY <1>1 DEF PlannerShape
<1>3. QED
  BY <1>1, <1>2 DEF PlannerOK

(* A cycle has its plan. *)
WithPlan(y, d, w) == [y EXCEPT !.pc = "check", !.depths = d, !.ops = w]

(* It turns to the first operation of the plan. *)
LEMMA CyclePlans ==
  ASSUME NEW y, PlannerOK(y), y.pc = "depths", NEW d, d \in [DOMAIN d -> Nat],
         DOMAIN d \subseteq y.chains, NEW w \in Seq(Op), w # <<>>,
         NEW z, z = WithPlan(y, d, w)
  PROVE  PlannerOK(z) /\ z.pc = "check" /\ z.receipt = "none"
<1>1. PlannerShape(y) /\ y.receipt = "none" /\ y.at = 1
  BY DEF PlannerOK
<1>2. /\ PlannerShape(z) /\ z.pc = "check" /\ z.chains = y.chains /\ z.depths = d /\ z.ops = w
      /\ z.at = y.at /\ z.attempt = y.attempt /\ z.receipt = y.receipt /\ z.msg = y.msg
  BY <1>1 DEF PlannerShape, WithPlan
<1>3. Len(w) \in Nat /\ Len(w) # 0
  OBVIOUS
<1>4. QED
  BY <1>1, <1>2, <1>3 DEF PlannerOK

(* The operation of a cycle. *)
LEMMA OpInHand ==
  ASSUME NEW y, PlannerOK(y), y.pc \in {"check", "submit", "wait", "fail"}
  PROVE  /\ y.at \in 1..Len(y.ops) /\ Len(y.ops) \in Nat
         /\ y.ops[y.at].src \in Chains /\ y.ops[y.at].dst \in Chains
         /\ y.ops[y.at].amount \in Nat \ {0}
<1>1. y.ops \in Seq(Op) /\ y.at \in Nat \ {0} /\ y.at <= Len(y.ops)
  BY DEF PlannerOK
<1>2. y.at \in 1..Len(y.ops) /\ Len(y.ops) \in Nat /\ y.ops[y.at] \in Op
  BY <1>1
<1>3. QED
  BY <1>2 DEF Op

(* Done with an operation, the planner turns to the next or ends its cycle. *)
LEMMA CycleGoesOn ==
  ASSUME PlannerOK(planner), planner.pc \in {"check", "submit", "wait", "fail"}, NEW z, z = nextOp
  PROVE  PlannerOK(z) /\ z.pc \in {"idle", "check"} /\ z.receipt = "none"
<1>1. CASE planner.at = Len(planner.ops)
  BY <1>1, PlannerAtRest DEF nextOp
<1>2. CASE planner.at # Len(planner.ops)
  <2>1. PlannerShape(planner)
    BY DEF PlannerOK
  <2>2. z = [planner EXCEPT !.pc = "check", !.at = @ + 1, !.attempt = 1, !.receipt = "none"]
    BY <1>2 DEF nextOp
  <2>3. /\ PlannerShape(z) /\ z.pc = "check" /\ z.chains = planner.chains
        /\ z.depths = planner.depths /\ z.ops = planner.ops /\ z.at = planner.at + 1
        /\ z.attempt = 1 /\ z.receipt = "none" /\ z.msg = planner.msg
    BY <2>1, <2>2 DEF PlannerShape
  <2>4. planner.at + 1 \in Nat \ {0} /\ planner.at + 1 <= Len(planner.ops)
    BY <1>2, OpInHand
  <2>5. 1 \in 1..MAX_RETRIES
    BY ReservePathAssumption
  <2>6. QED
    BY <2>3, <2>4, <2>5 DEF PlannerOK, Receipts
<1>3. QED
  BY <1>1, <1>2

(* The planner goes on to the next step of its operation. *)
LEMMA PlannerTurns ==
  ASSUME NEW y, PlannerOK(y), y.pc \in {"check", "submit"}, NEW pc \in {"submit", "wait"},
         NEW z, z = [y EXCEPT !.pc = pc]
  PROVE  PlannerOK(z) /\ z.pc = pc /\ z.receipt = "none" /\ z.attempt = y.attempt
<1>1. PlannerShape(y) /\ y.receipt = "none"
  BY DEF PlannerOK
<1>2. /\ PlannerShape(z) /\ z.pc = pc /\ z.chains = y.chains /\ z.depths = y.depths /\ z.ops = y.ops
      /\ z.at = y.at /\ z.attempt = y.attempt /\ z.receipt = y.receipt /\ z.msg = y.msg
  BY <1>1 DEF PlannerShape
<1>3. QED
  BY <1>1, <1>2 DEF PlannerOK

(* The planner tries once more. *)
LEMMA PlannerRetries ==
  ASSUME NEW y, PlannerOK(y), y.pc \in {"submit", "wait"}, y.attempt < MAX_RETRIES,
         NEW z, z = [y EXCEPT !.pc = "submit", !.attempt = @ + 1, !.receipt = "none"]
  PROVE  PlannerOK(z) /\ z.pc = "submit" /\ z.receipt = "none" /\ z.attempt = y.attempt + 1
<1>1. PlannerShape(y)
  BY DEF PlannerOK
<1>2. /\ PlannerShape(z) /\ z.pc = "submit" /\ z.chains = y.chains /\ z.depths = y.depths
      /\ z.ops = y.ops /\ z.at = y.at /\ z.attempt = y.attempt + 1 /\ z.receipt = "none"
      /\ z.msg = y.msg
  BY <1>1 DEF PlannerShape
<1>3. y.attempt + 1 \in 1..MAX_RETRIES
  BY ReservePathAssumption, SMTT(30) DEF PlannerOK
<1>4. QED
  BY <1>2, <1>3 DEF PlannerOK, Receipts

(* The planner gives up. *)
LEMMA PlannerFails ==
  ASSUME NEW y, PlannerOK(y), y.pc \in {"submit", "wait"},
         NEW z, z = [y EXCEPT !.pc = "fail", !.receipt = "none"]
  PROVE  PlannerOK(z) /\ z.pc = "fail" /\ z.receipt = "none"
<1>1. PlannerShape(y)
  BY DEF PlannerOK
<1>2. /\ PlannerShape(z) /\ z.pc = "fail" /\ z.chains = y.chains /\ z.depths = y.depths
      /\ z.ops = y.ops /\ z.at = y.at /\ z.attempt = y.attempt /\ z.receipt = "none"
      /\ z.msg = y.msg
  BY <1>1 DEF PlannerShape
<1>3. QED
  BY <1>2 DEF PlannerOK, Receipts

(* A receipt, with the message that it names. *)
WithReceipt(y, v, m) == [y EXCEPT !.receipt = v, !.msg = m]

(* The planner hears of its transaction. *)
LEMMA PlannerHears ==
  ASSUME NEW y, PlannerOK(y), y.pc = "wait", NEW v \in Receipts, NEW m \in 0..MaxBridges,
         NEW z, z = WithReceipt(y, v, m)
  PROVE  PlannerOK(z) /\ z.pc = "wait" /\ z.receipt = v /\ z.msg = m /\ z.attempt = y.attempt
<1>1. PlannerShape(y)
  BY DEF PlannerOK
<1>2. /\ PlannerShape(z) /\ z.pc = y.pc /\ z.chains = y.chains /\ z.depths = y.depths
      /\ z.ops = y.ops /\ z.at = y.at /\ z.attempt = y.attempt /\ z.receipt = v /\ z.msg = m
  BY <1>1 DEF PlannerShape, WithReceipt
<1>3. QED
  BY <1>2 DEF PlannerOK

(* Head and tail of what is left of a round. *)
LEMMA QueueFacts ==
  ASSUME NEW y, RelayerOK(y), y.pc # "idle"
  PROVE  /\ Len(y.queue) \in Nat /\ Len(y.queue) # 0 /\ Head(y.queue) = y.queue[1]
         /\ 1 \in 1..Len(y.queue) /\ Head(y.queue) \in 1..MaxOps
         /\ Tail(y.queue) \in Seq(1..MaxOps) /\ Len(Tail(y.queue)) = Len(y.queue) - 1
         /\ \A k \in 1..Len(Tail(y.queue)) : Tail(y.queue)[k] = y.queue[k + 1]
<1> DEFINE q == y.queue
           S == 1..MaxOps
<1>1. q \in Seq(S) /\ q # <<>>
  BY DEF RelayerOK
<1> HIDE DEF q, S
<1>2. /\ Len(q) \in Nat /\ Len(q) # 0 /\ Head(q) = q[1] /\ 1 \in 1..Len(q) /\ Head(q) \in S
      /\ Tail(q) \in Seq(S) /\ Len(Tail(q)) = Len(q) - 1
      /\ \A k \in 1..Len(Tail(q)) : Tail(q)[k] = q[k + 1]
  BY <1>1
<1>3. QED
  BY <1>2 DEF q, S

(* A round starts with its rows. *)
LEMMA RoundBegins ==
  ASSUME NEW w \in Seq(1..MaxOps), w # <<>>, NEW z, z = [RelayerIdle EXCEPT !.pc = "attest", !.queue = w]
  PROVE  RelayerOK(z) /\ z.pc = "attest" /\ z.receipt = "none" /\ z.queue = w
<1>1. /\ RelayerShape(z) /\ z.pc = "attest" /\ z.queue = w /\ z.attempt = RelayerIdle.attempt
      /\ z.receipt = RelayerIdle.receipt
  BY RelayerAtRest DEF RelayerShape
<1>2. QED
  BY <1>1, RelayerAtRest DEF RelayerOK

(* Done with a row, the relayer turns to the next or ends its round. *)
LEMMA RoundGoesOn ==
  ASSUME RelayerOK(relayer), relayer.pc # "idle", NEW z, z = nextRow
  PROVE  /\ RelayerOK(z) /\ z.receipt = "none"
         /\ z.queue = <<>> \/ z.queue = Tail(relayer.queue)
<1>1. CASE Len(relayer.queue) = 1
  BY <1>1, RelayerAtRest DEF nextRow
<1>2. CASE Len(relayer.queue) # 1
  <2> DEFINE w == Tail(relayer.queue)
  <2>1. w \in Seq(1..MaxOps) /\ Len(w) # 0
    BY <1>2, QueueFacts
  <2>2. z = [RelayerIdle EXCEPT !.pc = "attest", !.queue = w]
    BY <1>2 DEF nextRow
  <2> HIDE DEF w
  <2>3. w # <<>>
    BY <2>1
  <2>4. RelayerOK(z) /\ z.receipt = "none" /\ z.queue = w
    BY <2>1, <2>2, <2>3, RoundBegins
  <2>5. QED
    BY <2>4 DEF w
<1>3. QED
  BY <1>1, <1>2

(* The relayer goes on to the next step of its row. *)
LEMMA RelayerTurns ==
  ASSUME NEW y, RelayerOK(y), y.pc \in {"attest", "submit"}, NEW pc \in {"submit", "wait", "fail"},
         NEW z, z = [y EXCEPT !.pc = pc]
  PROVE  RelayerOK(z) /\ z.pc = pc /\ z.receipt = "none" /\ z.queue = y.queue
<1>1. RelayerShape(y) /\ y.receipt = "none"
  BY DEF RelayerOK
<1>2. /\ RelayerShape(z) /\ z.pc = pc /\ z.queue = y.queue /\ z.attempt = y.attempt
      /\ z.receipt = y.receipt
  BY <1>1 DEF RelayerShape
<1>3. QED
  BY <1>1, <1>2 DEF RelayerOK

(* The relayer tries once more. *)
LEMMA RelayerRetries ==
  ASSUME NEW y, RelayerOK(y), y.pc \in {"submit", "wait"}, y.attempt < MAX_RETRIES,
         NEW z, z = [y EXCEPT !.pc = "submit", !.attempt = @ + 1, !.receipt = "none"]
  PROVE  RelayerOK(z) /\ z.pc = "submit" /\ z.receipt = "none" /\ z.queue = y.queue
<1>1. RelayerShape(y)
  BY DEF RelayerOK
<1>2. /\ RelayerShape(z) /\ z.pc = "submit" /\ z.queue = y.queue /\ z.attempt = y.attempt + 1
      /\ z.receipt = "none"
  BY <1>1 DEF RelayerShape
<1>3. y.attempt + 1 \in 1..MAX_RETRIES
  BY ReservePathAssumption, SMTT(30) DEF RelayerOK
<1>4. QED
  BY <1>2, <1>3 DEF RelayerOK, Receipts

(* The relayer gives up. *)
LEMMA RelayerFails ==
  ASSUME NEW y, RelayerOK(y), y.pc \in {"submit", "wait"},
         NEW z, z = [y EXCEPT !.pc = "fail", !.receipt = "none"]
  PROVE  RelayerOK(z) /\ z.pc = "fail" /\ z.receipt = "none" /\ z.queue = y.queue
<1>1. RelayerShape(y)
  BY DEF RelayerOK
<1>2. /\ RelayerShape(z) /\ z.pc = "fail" /\ z.queue = y.queue /\ z.attempt = y.attempt
      /\ z.receipt = "none"
  BY <1>1 DEF RelayerShape
<1>3. QED
  BY <1>2 DEF RelayerOK, Receipts

(* The relayer hears of its transaction. *)
LEMMA RelayerHears ==
  ASSUME NEW y, RelayerOK(y), y.pc = "wait", NEW v \in Receipts, NEW z, z = [y EXCEPT !.receipt = v]
  PROVE  RelayerOK(z) /\ z.pc = "wait" /\ z.receipt = v /\ z.queue = y.queue
<1>1. RelayerShape(y)
  BY DEF RelayerOK
<1>2. /\ RelayerShape(z) /\ z.pc = y.pc /\ z.queue = y.queue /\ z.attempt = y.attempt /\ z.receipt = v
  BY <1>1 DEF RelayerShape
<1>3. QED
  BY <1>2 DEF RelayerOK

(* The target is a number whenever the planner needs it. *)
LEMMA ReserveTarget ==
  ASSUME NEW d, d \in [DOMAIN d -> Nat], DOMAIN d \subseteq Chains, any_deficit(d)
  PROVE  target(d) \in Nat /\ IsFiniteSet(DOMAIN d)
<1> DEFINE n == Cardinality(DOMAIN d)
           f == [i \in 1..N |-> IF i \in DOMAIN d THEN d[i] ELSE 0]
           total == Total(f, N)
<1>1. N \in Nat /\ 1 \in Int /\ N \in Int
  BY BankAssumption
<1>2. IsFiniteSet(Chains)
  BY <1>1, FS_Interval DEF Chains
<1>3. IsFiniteSet(DOMAIN d)
  BY <1>2, FS_Subset
<1>4. DOMAIN d # {}
  BY DEF any_deficit
<1>5. n \in Nat /\ n # 0
  BY <1>3, <1>4, FS_CardinalityType, FS_EmptySet
<1>6. f \in [1..N -> Nat]
  OBVIOUS
<1>t. target(d) = total \div n
  BY DEF target
<1> HIDE DEF f
<1>7. total \in Nat
  BY <1>1, <1>6, TotalNat
<1> HIDE DEF n, total
<1>8. total \div n \in Nat
  BY <1>5, <1>7
<1>9. QED
  BY <1>3, <1>t, <1>8

(* The plan of a cycle moves USDC between chains that it has read. *)
LEMMA PlannedOps ==
  ASSUME NEW d, d \in [DOMAIN d -> Nat], DOMAIN d \subseteq Chains, NEW w \in planned(d)
  PROVE  w \in Seq(Op)
<1>1. CASE ~any_deficit(d)
  <2>1. w = <<>>
    BY <1>1 DEF planned
  <2>2. QED
    BY <2>1
<1>2. CASE any_deficit(d)
  <2> DEFINE D == DOMAIN d
             t == target(d)
             S == [src : D, dst : D, amount : Nat \ {0}]
  <2>1. t \in Nat /\ IsFiniteSet(D)
    BY <1>2, ReserveTarget
  <2>2. RESERVE_PATH_MAX_WEI \in Nat \ {0}
    BY ReservePathAssumption
  <2>3. d \in [D -> Nat] /\ w \in plans(d, t, RESERVE_PATH_MAX_WEI) /\ D \subseteq Chains
    BY <1>2 DEF planned
  <2> HIDE DEF D, t
  <2>4. w \in Seq(S)
    BY <2>1, <2>2, <2>3, PlanExact
  <2>5. S \subseteq Op
    BY <2>3 DEF Op
  <2> HIDE DEF S
  <2>6. QED
    BY <2>4, <2>5
<1>3. QED
  BY <1>1, <1>2

-----------------------------------------------------------------------------
(* The invariant. *)

(* Message m is the burn of row i. *)
SameMove(q, r) == q.src = r.src /\ q.dst = r.dst /\ q.amount = r.amount
Burned(m, i) == m \in 1..Len(bridges) /\ burner[m] = i /\ SameMove(bridges[m], reserve_ops[i])
Settled == {"relayed", "completed"}

(* The types of what surrounds the loops. *)
Around ==
    /\ BankInv /\ servable \subseteq Chains /\ watching \subseteq Chains
    /\ watcherSeen \in [Chains -> SUBSET Bridge] /\ attested \subseteq 1..Len(bridges)
    /\ disturbances \in Seq(Disturbances) /\ Len(disturbances) <= MaxDisturbances

(* The types of what the loops work on. *)
Tables ==
    /\ PlannerOK(planner) /\ RelayerOK(relayer)
    /\ reserve_ops \in Seq(Row) /\ Len(reserve_ops) <= MaxOps
    /\ Len(bridges) <= MaxBridges /\ burner \in Seq(1..MaxOps) /\ Len(burner) = Len(bridges)

(* A transaction in a mempool is about a row, or about a message. *)
Pending ==
    /\ sent \subseteq OutTx \cup InTx
    /\ \A x \in sent : /\ x \in OutTx => x.op <= Len(reserve_ops)
                       /\ x \in InTx => x.msg <= Len(bridges)

(* The row that the planner holds has no message yet; a successful receipt names
   the burn of that row. *)
Working == {"submit", "wait"}
Held ==
    /\ planner.pc \in Working \cup {"fail"} =>
          Len(reserve_ops) # 0 /\ reserve_ops[Len(reserve_ops)].msg = 0
    /\ planner.receipt = "ok" => Burned(planner.msg, Len(reserve_ops))

(* The rows of a round have messages; a successful receipt is about a message
   that was credited. *)
Queued ==
    /\ \A k \in 1..Len(relayer.queue) :
          relayer.queue[k] \in 1..Len(reserve_ops) /\ reserve_ops[relayer.queue[k]].msg # 0
    /\ relayer.receipt = "ok" => Credited(reserve_ops[relayer.queue[1]].msg)

(* SuccessMeansCredited, with messages that exist. *)
RowGood(i) ==
    /\ reserve_ops[i].msg # 0 => Burned(reserve_ops[i].msg, i)
    /\ reserve_ops[i].status \in Settled => reserve_ops[i].msg # 0 /\ Credited(reserve_ops[i].msg)
Rows == \A i \in 1..Len(reserve_ops) : RowGood(i)

(* The inductive invariant. *)
ReservePathInv == Around /\ Tables /\ Pending /\ Held /\ Queued /\ Rows

-----------------------------------------------------------------------------
(* What the steps do. *)

(* Logs only grow, and nothing credited is taken back. *)
LogsGrow ==
    /\ Len(bridges) <= Len(bridges') /\ Len(bridges') <= MaxBridges
    /\ burner' \in Seq(1..MaxOps) /\ Len(burner') = Len(bridges')
    /\ \A m \in 1..Len(bridges) : bridges'[m] = bridges[m] /\ burner'[m] = burner[m]
    /\ \A c \in Chains : processedReserveMessages[c] \subseteq processedReserveMessages'[c]

(* A row keeps its move and its message, is called a success only if its message
   is credited, and does not vanish. *)
RowKept(q, r) ==
    /\ q \in Row /\ SameMove(q, r) /\ q.msg = r.msg
    /\ q.status \in Settled => r.status \in Settled \/ (r.msg # 0 /\ Credited(r.msg))
    /\ q.status = "none" => r.status = "none"

(* No row appears and none gets a message. *)
TableKept ==
    /\ reserve_ops' \in Seq(Row) /\ Len(reserve_ops') = Len(reserve_ops)
    /\ \A i \in 1..Len(reserve_ops) : RowKept(reserve_ops'[i], reserve_ops[i])

(* The planner inserts a row without a message; only the database loses it. *)
TableInserted ==
    /\ Len(reserve_ops) < MaxOps
    /\ \E r \in Row : /\ r.msg = 0 /\ r.status \notin Settled
                      /\ r.status = "none" => Disturbed("db")
                      /\ reserve_ops' = Append(reserve_ops, r)

(* The planner stores the message of its receipt in the row it holds, and lets go
   of the row. *)
TableSubmitted ==
    /\ planner.pc = "wait" /\ planner.receipt = "ok" /\ planner'.pc \notin Working
    /\ reserve_ops' \in Seq(Row) /\ Len(reserve_ops') = Len(reserve_ops)
    /\ \A i \in 1..Len(reserve_ops) :
          IF i = Len(reserve_ops)
          THEN /\ SameMove(reserve_ops'[i], reserve_ops[i]) /\ reserve_ops'[i].msg = planner.msg
               /\ reserve_ops'[i].status \notin Settled /\ reserve_ops'[i].status # "none"
          ELSE reserve_ops'[i] = reserve_ops[i]

(* What a step does to the table. *)
TableEffect == TableKept \/ TableInserted \/ TableSubmitted

(* What a step adds to the mempool. *)
SentEffect ==
    \A x \in sent' : \/ x \in sent
                     \/ planner.pc = "submit" /\ x = currentOut
                     \/ relayer.pc = "submit" /\ x = currentIn

(* The planner takes hold of a row by inserting it, and hears of its own burn. *)
PlannerEffect ==
    /\ planner'.pc \in Working => (planner.pc \in Working /\ TableKept) \/ TableInserted
    /\ planner'.receipt = "ok" =>
          TableKept /\ (planner' = planner \/ Burned(planner.msg, Len(reserve_ops))')
    /\ planner'.pc = "fail" => planner.pc \in Working \cup {"fail"} /\ TableKept

(* The relayer takes rows that await an attestation, and hears of its own credit. *)
RelayerEffect ==
    /\ \A k \in 1..Len(relayer'.queue) :
          \/ relayer'.queue[k] \in list_awaiting_attestation
          \/ \E j \in 1..Len(relayer.queue) : relayer'.queue[k] = relayer.queue[j]
    /\ relayer'.receipt = "ok" =>
          /\ relayer' = relayer \/ Credited(reserve_ops[relayer.queue[1]].msg)'

(* Disturbances are counted. *)
Later == Undisturbed \/ \E kind \in Disturbances : Disturbed(kind)

(* The bridgeReserve() transactions in the mempools. *)
Outs == sent \cap OutTx

(* What the steps do to burns, attempts and these transactions.  Most do nothing
   to them, except that the planner lets go of a row; *)
NoBurn == UNCHANGED burner /\ Len(reserve_ops') = Len(reserve_ops) /\ Later
Calm == NoBurn /\ UNCHANGED Outs /\ (UNCHANGED planner \/ planner'.pc \notin Working)

(* the planner takes a new row; *)
Taken ==
    /\ UNCHANGED burner /\ Len(reserve_ops') = Len(reserve_ops) + 1 /\ Later
    /\ UNCHANGED Outs /\ planner'.pc = "submit"

(* it sends an attempt, and waits; *)
Sending ==
    /\ NoBurn /\ planner.pc = "submit" /\ Outs' = Outs \cup {currentOut}
    /\ planner'.pc = "wait" /\ planner'.attempt = planner.attempt /\ planner'.receipt = "none"

(* it misses the answer, or the receipt, and tries again or gives up; *)
AgainOrNot ==
    \/ planner'.pc = "submit" /\ planner'.attempt = planner.attempt + 1
    \/ planner'.pc \notin Working
Unanswered ==
    /\ NoBurn /\ planner.pc = "submit" /\ AgainOrNot
    /\ Outs' \in {Outs, Outs \cup {currentOut}} /\ Disturbed("rpc")
Missed ==
    /\ NoBurn /\ planner.pc = "wait" /\ AgainOrNot /\ UNCHANGED Outs
    /\ \/ planner.receipt = "reverted"
       \/ planner.receipt = "none" /\ currentOut \notin Outs
       \/ Disturbed("timeout")

(* a transaction burns the USDC of its row, or reverts, and a planner that waits
   for it hears of it; *)
Hears(x) ==
    IF planner.pc = "wait" /\ x = currentOut
    THEN /\ planner'.pc = "wait" /\ planner'.attempt = planner.attempt
         /\ planner'.receipt = "ok" \/ UNCHANGED burner
    ELSE UNCHANGED planner
Mined(x) ==
    /\ Outs' = Outs \ {x} /\ Len(reserve_ops') = Len(reserve_ops) /\ UNCHANGED disturbances
    /\ \/ UNCHANGED burner
       \/ /\ burner' = Append(burner, x.op) /\ x.op \in 1..Len(reserve_ops)
          /\ SameMove(bridges'[Len(bridges')], reserve_ops[x.op])
    /\ Hears(x)

(* or it is lost. *)
Lost(x) == NoBurn /\ Outs' = Outs \ {x} /\ UNCHANGED planner /\ Disturbed("timeout")

(* The cases together. *)
BurnEffect ==
    \/ Calm \/ Taken \/ Sending \/ Unanswered \/ Missed
    \/ \E x \in Outs : Mined(x) \/ Lost(x)

(* All that a step does. *)
Effect == LogsGrow /\ TableEffect /\ SentEffect /\ PlannerEffect /\ RelayerEffect /\ BurnEffect

(* What every effect on the table has in common. *)
RowsGrow ==
    /\ reserve_ops' \in Seq(Row) /\ Len(reserve_ops') <= MaxOps /\ Len(reserve_ops) <= Len(reserve_ops')
    /\ \A i \in 1..Len(reserve_ops) :
          /\ SameMove(reserve_ops'[i], reserve_ops[i])
          /\ reserve_ops[i].msg # 0 => reserve_ops'[i].msg = reserve_ops[i].msg

(* The fields of a row. *)
LEMMA RowFields ==
  ASSUME NEW r \in Row
  PROVE  /\ r.src \in Chains /\ r.dst \in Chains /\ r.amount \in Nat \ {0}
         /\ r.status \in Live \cup {"none", "completed", "failed"} /\ r.msg \in 0..MaxBridges
         /\ r.attestation \in BOOLEAN /\ r.stuck \in BOOLEAN /\ r.aged \in BOOLEAN
BY DEF Row

(* A row keeps itself. *)
LEMMA KeptReflexive == \A r \in Row : RowKept(r, r)
BY DEF RowKept, SameMove

(* An untouched table is kept. *)
LEMMA UntouchedTable == Tables /\ UNCHANGED reserve_ops => TableKept
<1> SUFFICES ASSUME Tables, UNCHANGED reserve_ops PROVE TableKept
  OBVIOUS
<1>1. reserve_ops \in Seq(Row)
  BY DEF Tables
<1>2. \A i \in 1..Len(reserve_ops) : reserve_ops[i] \in Row
  BY <1>1
<1>3. QED
  BY <1>1, <1>2, KeptReflexive DEF TableKept

(* The inserted row comes last. *)
LEMMA InsertedRow ==
  ASSUME Tables, TableInserted
  PROVE  /\ reserve_ops' \in Seq(Row) /\ Len(reserve_ops') = Len(reserve_ops) + 1
         /\ Len(reserve_ops) \in Nat /\ Len(reserve_ops') <= MaxOps
         /\ reserve_ops'[Len(reserve_ops')].msg = 0
         /\ reserve_ops'[Len(reserve_ops')].status \notin Settled
         /\ reserve_ops'[Len(reserve_ops')].status = "none" => Disturbed("db")
         /\ \A i \in 1..Len(reserve_ops) : reserve_ops'[i] = reserve_ops[i]
<1>1. PICK r \in Row : /\ r.msg = 0 /\ r.status \notin Settled
                       /\ r.status = "none" => Disturbed("db")
                       /\ reserve_ops' = Append(reserve_ops, r)
  BY DEF TableInserted
<1>2. reserve_ops \in Seq(Row) /\ Len(reserve_ops) < MaxOps /\ MaxOps \in Nat
  BY ReservePathAssumption DEF Tables, TableInserted
<1>3. /\ reserve_ops' \in Seq(Row) /\ Len(reserve_ops') = Len(reserve_ops) + 1
      /\ Len(reserve_ops) \in Nat /\ reserve_ops'[Len(reserve_ops')] = r
      /\ \A i \in 1..Len(reserve_ops) : reserve_ops'[i] = reserve_ops[i]
  BY <1>1, <1>2
<1>4. QED
  BY <1>1, <1>2, <1>3

(* Whatever a step does to the table, moves and messages stay. *)
LEMMA TableGrows ==
  ASSUME Tables, Held, TableEffect
  PROVE  RowsGrow
<1>1. reserve_ops \in Seq(Row) /\ Len(reserve_ops) <= MaxOps /\ Len(reserve_ops) \in Nat
  BY DEF Tables
<1>2. CASE TableKept
  BY <1>1, <1>2 DEF TableKept, RowKept, RowsGrow
<1>3. CASE TableInserted
  BY <1>1, <1>3, InsertedRow DEF RowsGrow, SameMove
<1>4. CASE TableSubmitted
  <2>1. Len(reserve_ops) # 0 /\ reserve_ops[Len(reserve_ops)].msg = 0
    BY <1>4 DEF Held, Working, TableSubmitted
  <2>2. QED
    BY <1>1, <1>4, <2>1 DEF TableSubmitted, RowsGrow, SameMove
<1>5. QED
  BY <1>2, <1>3, <1>4 DEF TableEffect

(* A burn of a row stays its burn. *)
LEMMA BurnedStays ==
  ASSUME LogsGrow, RowsGrow, bridges \in Seq(Bridge), bridges' \in Seq(Bridge), NEW m,
         NEW i \in 1..Len(reserve_ops), Burned(m, i)
  PROVE  Burned(m, i)'
<1>1. Len(bridges) \in Nat /\ Len(bridges') \in Nat
  OBVIOUS
<1>2. m \in 1..Len(bridges) /\ m \in 1..Len(bridges')
  BY <1>1 DEF Burned, LogsGrow
<1>3. QED
  BY <1>2 DEF Burned, LogsGrow, RowsGrow, SameMove

(* A credited message stays credited. *)
LEMMA CreditedStays ==
  ASSUME LogsGrow, bridges \in Seq(Bridge), NEW m \in 1..Len(bridges), Credited(m)
  PROVE  Credited(m)'
<1>1. bridges[m] \in Bridge
  OBVIOUS
<1>2. bridges[m].dst \in Chains /\ bridges'[m] = bridges[m]
  BY <1>1, MessageFields DEF LogsGrow
<1>3. QED
  BY <1>2 DEF Credited, LogsGrow

(* The transaction that the planner submits. *)
LEMMA CurrentOut ==
  ASSUME Tables, Held, planner.pc \in Working
  PROVE  currentOut \in OutTx /\ currentOut.op = Len(reserve_ops)
<1>1. /\ Len(reserve_ops) # 0 /\ reserve_ops \in Seq(Row) /\ Len(reserve_ops) <= MaxOps
      /\ planner.attempt \in 1..MAX_RETRIES
  BY DEF Tables, Held, PlannerOK
<1>2. Len(reserve_ops) \in 1..MaxOps
  BY <1>1, ReservePathAssumption
<1>3. QED
  BY <1>1, <1>2 DEF currentOut, OutTx, row

(* The row that the relayer works on, and the transaction it submits. *)
LEMMA CurrentIn ==
  ASSUME Tables, Queued, Rows, relayer.pc # "idle"
  PROVE  /\ relayed = relayer.queue[1] /\ relayed \in 1..Len(reserve_ops) /\ reserve_ops[relayed] \in Row
         /\ reserve_ops[relayed].msg # 0 /\ reserve_ops[relayed].msg \in 1..Len(bridges)
         /\ currentIn \in InTx /\ currentIn.msg = reserve_ops[relayed].msg
<1>1. RelayerOK(relayer) /\ reserve_ops \in Seq(Row) /\ relayer.attempt \in 1..MAX_RETRIES
  BY DEF Tables, RelayerOK
<1>2. relayed = relayer.queue[1] /\ 1 \in 1..Len(relayer.queue)
  BY <1>1, QueueFacts DEF relayed
<1>3. relayed \in 1..Len(reserve_ops) /\ reserve_ops[relayed].msg # 0
  BY <1>2 DEF Queued
<1>4. reserve_ops[relayed] \in Row /\ reserve_ops[relayed].msg \in 1..Len(bridges)
  BY <1>1, <1>3 DEF Rows, RowGood, Burned
<1>5. reserve_ops[relayed].msg \in 1..MaxBridges
  BY <1>3, <1>4, RowFields, BankAssumption
<1>6. QED
  BY <1>1, <1>2, <1>3, <1>4, <1>5 DEF currentIn, InTx

(* Transactions to and from a chain are different things. *)
LEMMA OutIsNotIn == \A x : ~(x \in OutTx /\ x \in InTx)
<1>1. ASSUME NEW x \in OutTx PROVE DOMAIN x = {"op", "attempt"}
  BY DEF OutTx
<1>2. ASSUME NEW x \in InTx PROVE DOMAIN x = {"msg", "attempt"}
  BY DEF InTx
<1>3. "op" # "msg" /\ "op" # "attempt"
  OBVIOUS
<1>4. QED
  BY <1>1, <1>2, <1>3

(* The logs of a well-typed state. *)
LEMMA LogTypes == Around => bridges \in Seq(Bridge) /\ Len(bridges) \in Nat
BY BankInvFacts DEF Around, TypeOK, ReserveType

(* The mempool stays about rows and messages. *)
LEMMA PendingKept ==
  ASSUME ReservePathInv, LogsGrow, RowsGrow, SentEffect, bridges' \in Seq(Bridge)
  PROVE  Pending'
<1>1. /\ Tables /\ Pending /\ Held /\ Queued /\ Rows /\ Len(bridges) \in Nat /\ Len(bridges') \in Nat
      /\ Len(reserve_ops) \in Nat /\ Len(reserve_ops') \in Nat
  BY LogTypes DEF ReservePathInv, Tables, RowsGrow
<1>2. Len(bridges) <= Len(bridges') /\ Len(reserve_ops) <= Len(reserve_ops')
  BY DEF LogsGrow, RowsGrow
<1>3. ASSUME NEW x \in sent'
      PROVE  /\ x \in OutTx \cup InTx
             /\ x \in OutTx => x.op <= Len(reserve_ops')
             /\ x \in InTx => x.msg <= Len(bridges')
  <2>1. CASE x \in sent
    <3>1. x \in OutTx => x.op \in Nat
      BY ReservePathAssumption DEF OutTx
    <3>2. x \in InTx => x.msg \in Nat
      BY BankAssumption DEF InTx
    <3>3. QED
      BY <1>1, <1>2, <2>1, <3>1, <3>2 DEF Pending
  <2>2. CASE planner.pc = "submit" /\ x = currentOut
    <3>1. x \in OutTx /\ x.op = Len(reserve_ops)
      BY <1>1, <2>2, CurrentOut DEF Working
    <3>2. QED
      BY <1>1, <1>2, <3>1, OutIsNotIn
  <2>3. CASE relayer.pc = "submit" /\ x = currentIn
    <3>1. x \in InTx /\ x.msg \in 1..Len(bridges)
      BY <1>1, <2>3, CurrentIn
    <3>2. QED
      BY <1>1, <1>2, <3>1, OutIsNotIn
  <2>4. QED
    BY <2>1, <2>2, <2>3 DEF SentEffect
<1>4. QED
  BY <1>3 DEF Pending

(* The planner holds a row without a message, or knows its burn. *)
LEMMA HeldKept ==
  ASSUME ReservePathInv, LogsGrow, RowsGrow, PlannerEffect, bridges' \in Seq(Bridge), PlannerOK(planner')
  PROVE  Held'
<1>1. /\ Tables /\ Held /\ bridges \in Seq(Bridge) /\ Len(reserve_ops) \in Nat
  BY LogTypes DEF ReservePathInv, Tables
<1>2. ASSUME planner'.pc \in Working \cup {"fail"}
      PROVE  Len(reserve_ops') # 0 /\ reserve_ops'[Len(reserve_ops')].msg = 0
  <2>1. CASE planner.pc \in Working \cup {"fail"} /\ TableKept
    <3>1. Len(reserve_ops) # 0 /\ reserve_ops[Len(reserve_ops)].msg = 0
      BY <1>1, <2>1 DEF Held
    <3>2. Len(reserve_ops) \in 1..Len(reserve_ops) /\ Len(reserve_ops') = Len(reserve_ops)
      BY <1>1, <2>1, <3>1 DEF TableKept
    <3>3. QED
      BY <2>1, <3>1, <3>2 DEF TableKept, RowKept
  <2>2. CASE TableInserted
    BY <1>1, <2>2, InsertedRow
  <2>3. QED
    BY <1>2, <2>1, <2>2 DEF PlannerEffect
<1>3. ASSUME planner'.receipt = "ok", ~Burned(planner.msg, Len(reserve_ops))'
      PROVE  FALSE
  <2>1. TableKept /\ planner' = planner
    BY <1>3 DEF PlannerEffect
  <2>2. Burned(planner.msg, Len(reserve_ops)) /\ planner.pc = "wait"
    BY <1>1, <1>3, <2>1 DEF Held, Tables, PlannerOK
  <2>3. Len(reserve_ops) \in 1..Len(reserve_ops) /\ Len(reserve_ops') = Len(reserve_ops)
    BY <1>1, <2>1, <2>2 DEF TableKept, Held, Working
  <2> DEFINE m == planner.msg
             i == Len(reserve_ops)
  <2>4. Burned(m, i) /\ i \in 1..Len(reserve_ops)
    BY <2>2, <2>3
  <2>5. planner'.msg = m /\ Len(reserve_ops') = i
    BY <2>1, <2>3
  <2>6. ASSUME NEW mm, NEW ii \in 1..Len(reserve_ops), Burned(mm, ii), planner'.msg = mm,
               Len(reserve_ops') = ii
        PROVE  Burned(planner.msg, Len(reserve_ops))'
    <3>1. Burned(mm, ii)'
      BY <1>1, <2>6, BurnedStays
    <3>2. QED
      BY <2>6, <3>1 DEF Burned
  <2> HIDE DEF m, i
  <2>7. QED
    BY <1>3, <2>4, <2>5, <2>6
<1>4. QED
  BY <1>2, <1>3 DEF Held

(* A row of the round keeps its message. *)
LEMMA RowOfRound ==
  ASSUME ReservePathInv, LogsGrow, RowsGrow, NEW i \in 1..Len(reserve_ops), reserve_ops[i].msg # 0
  PROVE  /\ i \in 1..Len(reserve_ops') /\ reserve_ops'[i].msg = reserve_ops[i].msg
         /\ reserve_ops[i].msg \in 1..Len(bridges)
         /\ Credited(reserve_ops[i].msg) => Credited(reserve_ops[i].msg)'
<1>1. /\ Len(reserve_ops) \in Nat /\ Len(reserve_ops') \in Nat /\ Len(reserve_ops) <= Len(reserve_ops')
      /\ bridges \in Seq(Bridge)
  BY LogTypes DEF ReservePathInv, Tables, RowsGrow
<1>2. i \in 1..Len(reserve_ops') /\ reserve_ops'[i].msg = reserve_ops[i].msg
  BY <1>1 DEF RowsGrow
<1>3. reserve_ops[i].msg \in 1..Len(bridges)
  BY DEF ReservePathInv, Rows, RowGood, Burned
<1>4. ASSUME NEW m \in 1..Len(bridges), Credited(m), reserve_ops'[i].msg = m
      PROVE  Credited(reserve_ops[i].msg)'
  <2>1. Credited(m)'
    BY <1>1, <1>4, CreditedStays
  <2>2. QED
    BY <1>4, <2>1 DEF Credited
<1>5. QED
  BY <1>2, <1>3, <1>4

(* The relayer's rows keep their messages, and its receipt stays about a credit. *)
LEMMA QueuedKept ==
  ASSUME ReservePathInv, LogsGrow, RowsGrow, RelayerEffect, RelayerOK(relayer')
  PROVE  Queued'
<1>1. Tables /\ Queued /\ RelayerOK(relayer) /\ reserve_ops \in Seq(Row)
  BY DEF ReservePathInv, Tables
<1>2. ASSUME NEW k \in 1..Len(relayer'.queue)
      PROVE  /\ relayer'.queue[k] \in 1..Len(reserve_ops) /\ reserve_ops[relayer'.queue[k]].msg # 0
  <2>1. CASE relayer'.queue[k] \in list_awaiting_attestation
    BY <1>1, <2>1 DEF list_awaiting_attestation
  <2>2. CASE \E j \in 1..Len(relayer.queue) : relayer'.queue[k] = relayer.queue[j]
    BY <1>1, <2>2 DEF Queued
  <2>3. QED
    BY <2>1, <2>2 DEF RelayerEffect
<1>3. ASSUME NEW k \in 1..Len(relayer'.queue)
      PROVE  relayer'.queue[k] \in 1..Len(reserve_ops') /\ reserve_ops'[relayer'.queue[k]].msg # 0
  BY <1>2, RowOfRound
<1>4. ASSUME relayer'.receipt = "ok", relayer' = relayer
      PROVE  Credited(reserve_ops[relayer.queue[1]].msg)'
  <2> DEFINE i == relayer.queue[1]
  <2>1. relayer.pc = "wait" /\ Credited(reserve_ops[i].msg)
    BY <1>1, <1>4 DEF Queued, RelayerOK
  <2>2. 1 \in 1..Len(relayer.queue)
    BY <1>1, <2>1, QueueFacts
  <2>3. i \in 1..Len(reserve_ops) /\ reserve_ops[i].msg # 0
    BY <1>1, <2>2 DEF Queued
  <2>4. relayer'.queue[1] = i
    BY <1>4
  <2>5. ASSUME NEW n \in 1..Len(reserve_ops), reserve_ops[n].msg # 0, Credited(reserve_ops[n].msg),
               relayer'.queue[1] = n
        PROVE  Credited(reserve_ops[relayer.queue[1]].msg)'
    <3>1. Credited(reserve_ops[n].msg)'
      BY <2>5, RowOfRound
    <3>2. QED
      BY <2>5, <3>1 DEF Credited
  <2> HIDE DEF i
  <2>6. QED
    BY <2>1, <2>3, <2>4, <2>5
<1>5. relayer'.receipt = "ok" => Credited(reserve_ops[relayer.queue[1]].msg)'
  BY <1>4 DEF RelayerEffect
<1>6. QED
  BY <1>3, <1>5 DEF Queued

(* Rows go on carrying their own burns, and success goes on meaning credited. *)
LEMMA RowsKept ==
  ASSUME ReservePathInv, LogsGrow, TableEffect, bridges' \in Seq(Bridge)
  PROVE  Rows'
<1>1. /\ Tables /\ Held /\ Rows /\ RowsGrow /\ bridges \in Seq(Bridge) /\ reserve_ops \in Seq(Row)
      /\ Len(reserve_ops) \in Nat
  BY TableGrows, LogTypes DEF ReservePathInv, Tables
<1>2. ASSUME NEW i \in 1..Len(reserve_ops), reserve_ops[i].msg # 0
      PROVE  Burned(reserve_ops[i].msg, i)'
  <2> DEFINE m == reserve_ops[i].msg
  <2>1. Burned(m, i) /\ reserve_ops'[i].msg = m
    BY <1>1, <1>2, RowOfRound DEF Rows, RowGood
  <2>2. ASSUME NEW mm, Burned(mm, i), reserve_ops'[i].msg = mm PROVE Burned(reserve_ops[i].msg, i)'
    <3>1. Burned(mm, i)'
      BY <1>1, <2>2, BurnedStays
    <3>2. QED
      BY <2>2, <3>1 DEF Burned
  <2> HIDE DEF m
  <2>3. QED
    BY <2>1, <2>2
<1>3. ASSUME NEW i \in 1..Len(reserve_ops), RowKept(reserve_ops'[i], reserve_ops[i]) PROVE RowGood(i)'
  <2>1. reserve_ops'[i].msg = reserve_ops[i].msg
    BY <1>3 DEF RowKept
  <2>2. reserve_ops'[i].status \in Settled => reserve_ops[i].msg # 0 /\ Credited(reserve_ops[i].msg)
    BY <1>1, <1>3 DEF RowKept, Rows, RowGood
  <2>3. QED
    BY <1>1, <1>2, <2>1, <2>2, RowOfRound DEF RowGood
<1>4. CASE TableKept
  <2>1. Len(reserve_ops') = Len(reserve_ops) /\ \A i \in 1..Len(reserve_ops) : RowGood(i)'
    BY <1>3, <1>4 DEF TableKept
  <2>2. QED
    BY <2>1 DEF Rows
<1>5. CASE TableInserted
  <2>1. \A i \in 1..Len(reserve_ops) : RowKept(reserve_ops'[i], reserve_ops[i])
    <3>1. \A i \in 1..Len(reserve_ops) : reserve_ops'[i] = reserve_ops[i] /\ reserve_ops[i] \in Row
      BY <1>1, <1>5, InsertedRow
    <3>2. QED
      BY <3>1, KeptReflexive
  <2>2. \A i \in 1..Len(reserve_ops) : RowGood(i)'
    BY <1>3, <2>1
  <2>3. ASSUME NEW i \in 1..Len(reserve_ops'), i \notin 1..Len(reserve_ops) PROVE RowGood(i)'
    <3>1. i = Len(reserve_ops')
      BY <1>1, <1>5, <2>3, InsertedRow
    <3>2. reserve_ops'[i].msg = 0 /\ reserve_ops'[i].status \notin Settled
      BY <1>1, <1>5, <3>1, InsertedRow
    <3>3. QED
      BY <3>2 DEF RowGood
  <2>4. QED
    BY <2>2, <2>3 DEF Rows
<1>6. CASE TableSubmitted
  <2>1. /\ planner.receipt = "ok" /\ Len(reserve_ops) # 0 /\ Len(reserve_ops') = Len(reserve_ops)
        /\ Burned(planner.msg, Len(reserve_ops))
    BY <1>1, <1>6 DEF TableSubmitted, Held, Working
  <2>2. ASSUME NEW i \in 1..Len(reserve_ops), i # Len(reserve_ops) PROVE RowGood(i)'
    <3>1. reserve_ops'[i] = reserve_ops[i] /\ reserve_ops[i] \in Row
      BY <1>1, <1>6, <2>2 DEF TableSubmitted
    <3>2. RowKept(reserve_ops'[i], reserve_ops[i])
      BY <3>1, KeptReflexive
    <3>3. QED
      BY <1>3, <3>2
  <2>3. ASSUME NEW i \in 1..Len(reserve_ops), i = Len(reserve_ops) PROVE RowGood(i)'
    <3>1. reserve_ops'[i].msg = planner.msg /\ reserve_ops'[i].status \notin Settled
      BY <1>6, <2>3 DEF TableSubmitted
    <3>2. ASSUME NEW mm, Burned(mm, i), reserve_ops'[i].msg = mm PROVE Burned(reserve_ops[i].msg, i)'
      <4>1. Burned(mm, i)'
        BY <1>1, <3>2, BurnedStays
      <4>2. QED
        BY <3>2, <4>1 DEF Burned
    <3> DEFINE m == planner.msg
    <3>3. Burned(m, i) /\ reserve_ops'[i].msg = m
      BY <2>1, <2>3, <3>1
    <3> HIDE DEF m
    <3>4. Burned(reserve_ops[i].msg, i)'
      BY <3>2, <3>3
    <3>5. QED
      BY <3>1, <3>4 DEF RowGood
  <2>4. QED
    BY <2>1, <2>2, <2>3 DEF Rows
<1>7. QED
  BY <1>4, <1>5, <1>6 DEF TableEffect

(* A step that does no more than the effects allow keeps the invariant. *)
LEMMA EffectKeeps ==
  ASSUME ReservePathInv, Effect, Around', PlannerOK(planner'), RelayerOK(relayer')
  PROVE  ReservePathInv'
<1>1. LogsGrow /\ TableEffect /\ SentEffect /\ PlannerEffect /\ RelayerEffect /\ RowsGrow
  BY TableGrows DEF Effect, ReservePathInv
<1>2. bridges' \in Seq(Bridge)
  <2>1. TypeOK'
    BY DEF Around, BankInv, LedgerInv
  <2>2. QED
    BY <2>1 DEF TypeOK, ReserveType
<1>3. Tables'
  BY <1>1 DEF Tables, LogsGrow, RowsGrow
<1>4. Pending' /\ Held' /\ Queued' /\ Rows'
  BY <1>1, <1>2, PendingKept, HeldKept, QueuedKept, RowsKept
<1>5. QED
  BY <1>3, <1>4 DEF ReservePathInv

-----------------------------------------------------------------------------
(* The steps, one by one. *)

(* A disturbance is added to the earlier ones. *)
LEMMA DisturbedLater == \A kind : Disturbed(kind) => Later
BY DEF Disturbed, Later

(* The count stays within its bound. *)
LEMMA LaterTyped ==
  ASSUME disturbances \in Seq(Disturbances), Len(disturbances) <= MaxDisturbances, Later
  PROVE  disturbances' \in Seq(Disturbances) /\ Len(disturbances') <= MaxDisturbances
<1>1. CASE Undisturbed
  BY <1>1 DEF Undisturbed
<1>2. ASSUME NEW kind \in Disturbances, Disturbed(kind)
      PROVE  disturbances' \in Seq(Disturbances) /\ Len(disturbances') <= MaxDisturbances
  <2>1. disturbances' = Append(disturbances, kind) /\ Len(disturbances) < MaxDisturbances
    BY <1>2 DEF Disturbed
  <2>2. disturbances' \in Seq(Disturbances) /\ Len(disturbances') = Len(disturbances) + 1
        /\ Len(disturbances) \in Nat
    BY <2>1
  <2>3. QED
    BY <2>1, <2>2, ReservePathAssumption
<1>3. QED
  BY <1>1, <1>2 DEF Later

(* What a step leaves alone: the Banks, the table, the mempool, a loop. *)
LEMMA Quiet ==
  ASSUME ReservePathInv
  PROVE  /\ UNCHANGED <<bankVars, burner>> => LogsGrow /\ UNCHANGED bridges /\ BankInv'
         /\ UNCHANGED reserve_ops => TableKept /\ TableEffect
         /\ sent' \subseteq sent => SentEffect
         /\ UNCHANGED planner /\ TableKept => PlannerOK(planner') /\ PlannerEffect
         /\ UNCHANGED relayer => RelayerOK(relayer') /\ RelayerEffect
<1>1. Around /\ Tables /\ Held /\ bridges \in Seq(Bridge)
  BY LogTypes DEF ReservePathInv
<1>2. ASSUME UNCHANGED <<bankVars, burner>> PROVE LogsGrow /\ UNCHANGED bridges /\ BankInv'
  <2>1. UNCHANGED <<bridges, burner, processedReserveMessages>> /\ UNCHANGED bankVars
    BY <1>2 DEF bankVars, reserveVars
  <2>2. LogsGrow
    BY <1>1, <2>1 DEF LogsGrow, Tables
  <2>3. BankInv'
    BY <1>1, <2>1, CallKeeps DEF Around
  <2>4. QED
    BY <2>1, <2>2, <2>3
<1>3. UNCHANGED reserve_ops => TableKept /\ TableEffect
  BY <1>1, UntouchedTable DEF TableEffect
<1>4. sent' \subseteq sent => SentEffect
  BY DEF SentEffect
<1>5. UNCHANGED planner /\ TableKept => PlannerOK(planner') /\ PlannerEffect
  BY <1>1 DEF Tables, PlannerEffect
<1>6. UNCHANGED relayer => RelayerOK(relayer') /\ RelayerEffect
  BY <1>1 DEF Tables, RelayerEffect
<1>7. QED
  BY <1>2, <1>3, <1>4, <1>5, <1>6

(* The planner's steps leave the Banks and the other loops alone. *)
LEMMA PlannerFrame ==
  ASSUME ReservePathInv, NEW pc, Planner(pc), Later
  PROVE  /\ planner.pc = pc /\ PlannerOK(planner) /\ Around' /\ LogsGrow
         /\ RelayerOK(relayer') /\ RelayerEffect
<1>1. /\ planner.pc = pc /\ UNCHANGED <<bankVars, burner>> /\ UNCHANGED relayer
      /\ UNCHANGED <<servable, watcherSeen, watching, attested>>
  BY DEF Planner
<1>2. LogsGrow /\ UNCHANGED bridges /\ BankInv' /\ RelayerOK(relayer') /\ RelayerEffect
  BY <1>1, Quiet
<1>3. Around'
  BY <1>1, <1>2, LaterTyped DEF ReservePathInv, Around
<1>4. QED
  BY <1>1, <1>2, <1>3 DEF ReservePathInv, Tables

(* A planner that lets go of its row, or has none. *)
LEMMA PlannerCalm ==
  ASSUME NEW pc, Planner(pc), Later, UNCHANGED sent, Len(reserve_ops') = Len(reserve_ops),
         planner'.pc \notin Working
  PROVE  BurnEffect
<1>1. UNCHANGED burner
  BY DEF Planner
<1>2. Calm
  BY <1>1 DEF Calm, NoBurn, Outs
<1>3. QED
  BY <1>2 DEF BurnEffect

(* A step that leaves the planner and the burns alone. *)
LEMMA OthersCalm ==
  ASSUME UNCHANGED burner, UNCHANGED planner, Later, UNCHANGED Outs,
         Len(reserve_ops') = Len(reserve_ops)
  PROVE  BurnEffect
BY DEF BurnEffect, Calm, NoBurn

(* A planner step that leaves the rows alone, and holds or lets go of a row. *)
LEMMA PlannerAlone ==
  ASSUME ReservePathInv, NEW pc, Planner(pc), Later, UNCHANGED reserve_ops, SentEffect, BurnEffect,
         PlannerOK(planner'), planner'.receipt # "ok", planner'.pc \in Working => pc \in Working,
         planner'.pc # "fail"
  PROVE  ReservePathInv' /\ Effect
<1>1. planner.pc = pc /\ Around' /\ LogsGrow /\ RelayerOK(relayer') /\ RelayerEffect
  BY PlannerFrame
<1>2. TableKept /\ TableEffect
  BY Quiet
<1>3. PlannerEffect
  BY <1>1, <1>2 DEF PlannerEffect
<1>4. Effect
  BY <1>1, <1>2, <1>3 DEF Effect
<1>5. QED
  BY <1>1, <1>4, EffectKeeps

(* A cycle starts. *)
LEMMA StartKeeps == ReservePathInv /\ startCycle => ReservePathInv' /\ Effect
<1> SUFFICES ASSUME ReservePathInv, startCycle PROVE ReservePathInv' /\ Effect
  OBVIOUS
<1>1. /\ Planner("idle") /\ Later /\ UNCHANGED <<sent, reserve_ops>>
      /\ planner' = [PlannerIdle EXCEPT !.pc = "depths", !.chains = servable]
  BY DEF startCycle, Later
<1>2. PlannerOK(planner') /\ planner'.pc = "depths" /\ planner'.receipt = "none"
  BY <1>1, CycleBegins DEF ReservePathInv, Around
<1>3. SentEffect /\ BurnEffect
  BY <1>1, <1>2, Quiet, PlannerCalm DEF Working
<1>4. QED
  BY <1>1, <1>2, <1>3, PlannerAlone DEF Working

(* One more reserve is read, and the last one yields the plan. *)
LEMMA ReadKeeps ==
  ASSUME ReservePathInv, NEW c \in Chains, readDepth(c)
  PROVE  ReservePathInv' /\ Effect
<1> DEFINE D == DOMAIN planner.depths \cup {c}
           d == [x \in D |-> IF x = c THEN usdc[c] ELSE planner.depths[x]]
<1>1. /\ Planner("depths") /\ UNCHANGED <<sent, reserve_ops>> /\ c \in planner.chains
      /\ \/ planner' = [planner EXCEPT !.depths = d] /\ Undisturbed
         \/ /\ Undisturbed
            /\ \E ops \in planned(d) :
                  planner' = IF ops = <<>> THEN PlannerIdle
                             ELSE [planner EXCEPT !.pc = "check", !.depths = d, !.ops = ops]
         \/ planner' = PlannerIdle /\ Disturbed("rpc")
  BY DEF readDepth
<1>2. Later
  BY <1>1, DisturbedLater DEF Later
<1>3. PlannerOK(planner) /\ planner.pc = "depths"
  BY <1>1 DEF ReservePathInv, Tables, Planner
<1>4. usdc[c] \in Nat
  BY BankInvFacts DEF ReservePathInv, Around, TypeOK, LedgerType
<1>5. DOMAIN d = D /\ D \subseteq planner.chains /\ D \subseteq Chains
  BY <1>1, <1>3 DEF PlannerOK
<1>6. d \in [DOMAIN d -> Nat]
  BY <1>3, <1>4 DEF PlannerOK
<1> HIDE DEF d, D
<1>7. PlannerOK(planner') /\ planner'.receipt = "none" /\ planner'.pc \notin Working \cup {"fail"}
  <2>1. CASE planner' = [planner EXCEPT !.depths = d]
    BY <1>3, <1>5, <1>6, <2>1, CycleReads DEF Working
  <2>2. CASE planner' = PlannerIdle
    BY <2>2, PlannerAtRest DEF Working
  <2>3. ASSUME NEW ops \in planned(d), ops # <<>>,
               planner' = [planner EXCEPT !.pc = "check", !.depths = d, !.ops = ops]
        PROVE  /\ PlannerOK(planner') /\ planner'.receipt = "none"
               /\ planner'.pc \notin Working \cup {"fail"}
    <3>0. ops # <<>>
      BY <2>3
    <3>1. ops \in Seq(Op)
      BY <1>5, <1>6, PlannedOps
    <3>2. planner' = WithPlan(planner, d, ops) /\ DOMAIN d \subseteq planner.chains
      BY <1>5, <2>3 DEF WithPlan
    <3>3. PlannerOK(planner') /\ planner'.pc = "check" /\ planner'.receipt = "none"
      BY <1>3, <1>6, <3>0, <3>1, <3>2, CyclePlans
    <3>4. QED
      BY <3>3 DEF Working
  <2>4. QED
    BY <1>1, <2>1, <2>2, <2>3
<1>8. SentEffect /\ BurnEffect
  BY <1>1, <1>2, <1>7, Quiet, PlannerCalm
<1>9. QED
  BY <1>1, <1>2, <1>7, <1>8, PlannerAlone

(* One row replaced. *)
Replaced(i, q) == [reserve_ops EXCEPT ![i] = q]

(* The other rows stay. *)
LEMMA RowReplaced ==
  ASSUME Tables, NEW i \in 1..Len(reserve_ops), NEW q \in Row, reserve_ops' = Replaced(i, q)
  PROVE  /\ reserve_ops' \in Seq(Row) /\ Len(reserve_ops') = Len(reserve_ops)
         /\ \A k \in 1..Len(reserve_ops) : reserve_ops'[k] = IF k = i THEN q ELSE reserve_ops[k]
BY DEF Tables, Replaced

(* Replacing a row by what it may become keeps the table. *)
LEMMA ReplacedKept ==
  ASSUME Tables, NEW i \in 1..Len(reserve_ops), NEW q, RowKept(q, reserve_ops[i]),
         reserve_ops' = Replaced(i, q)
  PROVE  TableKept
<1>1. q \in Row /\ reserve_ops \in Seq(Row)
  BY DEF RowKept, Tables
<1>2. /\ reserve_ops' \in Seq(Row) /\ Len(reserve_ops') = Len(reserve_ops)
      /\ \A k \in 1..Len(reserve_ops) : reserve_ops'[k] = IF k = i THEN q ELSE reserve_ops[k]
  BY <1>1, RowReplaced
<1>3. \A k \in 1..Len(reserve_ops) : reserve_ops[k] \in Row
  BY <1>1
<1>4. \A k \in 1..Len(reserve_ops) : RowKept(reserve_ops'[k], reserve_ops[k])
  BY <1>2, <1>3, KeptReflexive
<1>5. QED
  BY <1>2, <1>4 DEF TableKept

(* An update adds no row. *)
LEMMA UpdatedTable ==
  ASSUME Tables, NEW i, NEW r, update(i, r)
  PROVE  Len(reserve_ops') = Len(reserve_ops)
BY DEF Tables, update

(* What the updates make of a row. *)
Statuses == Live \cup {"none", "completed", "failed"}
Restated(r, st) == [[r EXCEPT !.status = st] EXCEPT !.stuck = FALSE]
Attested(r) == [[r EXCEPT !.attestation = TRUE] EXCEPT !.stuck = FALSE]
WithMessage(r, m) == [[r EXCEPT !.status = "submitted", !.msg = m] EXCEPT !.stuck = FALSE]

(* update_status changes the status of a row only. *)
LEMMA RestatedRow ==
  ASSUME NEW r \in Row, NEW st \in Statuses, NEW q, q = Restated(r, st)
  PROVE  q \in Row /\ SameMove(q, r) /\ q.msg = r.msg /\ q.status = st
BY DEF Row, SameMove, Restated, Statuses

(* update_attestation leaves status and message alone. *)
LEMMA AttestedRow ==
  ASSUME NEW r \in Row, NEW q, q = Attested(r)
  PROVE  q \in Row /\ SameMove(q, r) /\ q.msg = r.msg /\ q.status = r.status
BY DEF Row, SameMove, Attested

(* update_submitted stores a message. *)
LEMMA NumberedRow ==
  ASSUME NEW r \in Row, NEW m \in 0..MaxBridges, NEW q, q = WithMessage(r, m)
  PROVE  q \in Row /\ SameMove(q, r) /\ q.msg = m /\ q.status = "submitted"
BY DEF Row, SameMove, WithMessage, Live

(* Giving up on a row, or calling it relayed after a credit, keeps the table. *)
LEMMA StatusUpdated ==
  ASSUME Tables, NEW i \in 1..Len(reserve_ops), NEW st \in {"failed", "relayed"}, update_status(i, st),
         st = "relayed" => reserve_ops[i].msg # 0 /\ Credited(reserve_ops[i].msg)
  PROVE  TableKept
<1> DEFINE r == reserve_ops[i]
           q == Restated(r, st)
<1>1. r \in Row
  BY DEF Tables
<1>2. st \in Statuses
  BY DEF Statuses, Live
<1>3. q \in Row /\ SameMove(q, r) /\ q.msg = r.msg /\ q.status = st
  BY <1>1, <1>2, RestatedRow
<1>4. UNCHANGED reserve_ops \/ reserve_ops' = Replaced(i, q)
  BY DEF update_status, update, Replaced, Restated
<1> HIDE DEF q
<1>5. RowKept(q, reserve_ops[i])
  BY <1>3 DEF RowKept, Settled
<1>6. QED
  BY <1>4, <1>5, ReplacedKept, UntouchedTable

(* Storing an attestation keeps the table. *)
LEMMA AttestationStored ==
  ASSUME Tables, NEW i \in 1..Len(reserve_ops), update_attestation(i)
  PROVE  TableKept
<1> DEFINE r == reserve_ops[i]
           q == Attested(r)
<1>1. r \in Row
  BY DEF Tables
<1>2. q \in Row /\ SameMove(q, r) /\ q.msg = r.msg /\ q.status = r.status
  BY <1>1, AttestedRow
<1>3. UNCHANGED reserve_ops \/ reserve_ops' = Replaced(i, q)
  BY DEF update_attestation, update, Replaced, Attested
<1> HIDE DEF q
<1>4. RowKept(q, reserve_ops[i])
  BY <1>2 DEF RowKept
<1>5. QED
  BY <1>3, <1>4, ReplacedKept, UntouchedTable

(* Storing the message of a receipt in the row that the planner lets go of. *)
LEMMA MessageStored ==
  ASSUME Tables, Held, planner.pc = "wait", planner.receipt = "ok", planner'.pc \notin Working,
         update_submitted(row, planner.msg)
  PROVE  TableEffect
<1> DEFINE n == Len(reserve_ops)
           r == reserve_ops[n]
           q == WithMessage(r, planner.msg)
<1>1. n \in 1..Len(reserve_ops) /\ r \in Row /\ planner.msg \in 0..MaxBridges
  BY DEF Tables, Held, Working, PlannerOK
<1>2. q \in Row /\ SameMove(q, r) /\ q.msg = planner.msg /\ q.status = "submitted"
  BY <1>1, NumberedRow
<1>3. UNCHANGED reserve_ops \/ reserve_ops' = Replaced(n, q)
  BY DEF update_submitted, update, Replaced, WithMessage, row
<1> HIDE DEF q
<1>4. CASE UNCHANGED reserve_ops
  BY <1>4, UntouchedTable DEF TableEffect
<1>5. CASE reserve_ops' = Replaced(n, q)
  <2>1. /\ reserve_ops' \in Seq(Row) /\ Len(reserve_ops') = Len(reserve_ops)
        /\ \A k \in 1..Len(reserve_ops) : reserve_ops'[k] = IF k = n THEN q ELSE reserve_ops[k]
    BY <1>1, <1>2, <1>5, RowReplaced
  <2>2. TableSubmitted
    BY <1>2, <2>1 DEF TableSubmitted, Settled
  <2>3. QED
    BY <2>2 DEF TableEffect
<1>6. QED
  BY <1>3, <1>4, <1>5

(* A new row. *)
NewRow(o, status) ==
    [src |-> o.src, dst |-> o.dst, amount |-> o.amount, status |-> status,
     msg |-> 0, attestation |-> FALSE, stuck |-> FALSE, aged |-> FALSE]

(* insert_reserve_op adds a row without a message. *)
LEMMA Inserted ==
  ASSUME PlannerOK(planner), planner.pc = "check", NEW status \in {"pending", "none"},
         insert_reserve_op(status), status = "none" => Disturbed("db")
  PROVE  TableInserted
<1> DEFINE r == NewRow(op, status)
<1>1. op.src \in Chains /\ op.dst \in Chains /\ op.amount \in Nat \ {0}
  BY OpInHand DEF op
<1>2. 0 \in 0..MaxBridges
  BY BankAssumption
<1>3. r \in Row /\ r.msg = 0 /\ r.status \notin Settled /\ r.status = status
  BY <1>1, <1>2 DEF NewRow, Row, Live, Settled
<1>4. Len(reserve_ops) < MaxOps /\ reserve_ops' = Append(reserve_ops, r)
  BY DEF insert_reserve_op, row, NewRow
<1> HIDE DEF r
<1>5. QED
  BY <1>3, <1>4 DEF TableInserted

(* The planner checks an operation: it inserts the row or turns to the next. *)
LEMMA CheckKeeps == ReservePathInv /\ checkOp => ReservePathInv' /\ Effect
<1> SUFFICES ASSUME ReservePathInv, checkOp PROVE ReservePathInv' /\ Effect
  OBVIOUS
<1>1. /\ Planner("check") /\ UNCHANGED sent
      /\ \/ /\ planner' = nextOp /\ UNCHANGED reserve_ops
            /\ Undisturbed \/ Disturbed("rpc")
         \/ /\ \E status \in {"pending", "none"} :
                  insert_reserve_op(status) /\ (status = "none" => Disturbed("db"))
            /\ planner' = [planner EXCEPT !.pc = "submit"]
            /\ Undisturbed \/ Disturbed("db")
  BY DEF checkOp
<1>2. Later
  BY <1>1, DisturbedLater DEF Later
<1>3. /\ planner.pc = "check" /\ PlannerOK(planner) /\ Around' /\ LogsGrow
      /\ RelayerOK(relayer') /\ RelayerEffect
  BY <1>1, <1>2, PlannerFrame
<1>4. SentEffect
  BY <1>1, Quiet
<1>5. CASE planner' = nextOp /\ UNCHANGED reserve_ops
  <2>1. PlannerOK(planner') /\ planner'.pc \in {"idle", "check"} /\ planner'.receipt = "none"
    BY <1>3, <1>5, CycleGoesOn
  <2>2. BurnEffect
    BY <1>1, <1>2, <1>5, <2>1, PlannerCalm DEF Working
  <2>3. QED
    BY <1>1, <1>2, <1>4, <1>5, <2>1, <2>2, PlannerAlone DEF Working
<1>6. CASE /\ \E status \in {"pending", "none"} :
                insert_reserve_op(status) /\ (status = "none" => Disturbed("db"))
           /\ planner' = [planner EXCEPT !.pc = "submit"]
  <2>1. PlannerOK(planner') /\ planner'.pc = "submit" /\ planner'.receipt = "none"
    BY <1>3, <1>6, PlannerTurns
  <2>2. TableInserted
    BY <1>3, <1>6, Inserted
  <2>3. PlannerEffect
    BY <2>1, <2>2 DEF PlannerEffect
  <2>4. BurnEffect
    <3>1. Len(reserve_ops') = Len(reserve_ops) + 1
      BY <2>2, InsertedRow DEF ReservePathInv
    <3>2. Taken
      BY <1>1, <1>2, <2>1, <3>1 DEF Taken, Outs, Planner
    <3>3. QED
      BY <3>2 DEF BurnEffect
  <2>5. Effect
    BY <1>3, <1>4, <2>2, <2>3, <2>4 DEF Effect, TableEffect
  <2>6. QED
    BY <1>3, <2>1, <2>5, EffectKeeps
<1>7. QED
  BY <1>1, <1>5, <1>6

(* Another attempt of the planner, or none. *)
LEMMA RetryOutFacts ==
  ASSUME ReservePathInv, planner.pc \in Working, retryOut
  PROVE  /\ PlannerOK(planner') /\ planner'.receipt = "none" /\ TableKept
         /\ PlannerEffect /\ AgainOrNot
<1>1. Tables /\ Held /\ PlannerOK(planner)
  BY DEF ReservePathInv, Tables
<1>2. CASE planner.attempt < MAX_RETRIES
  <2>1. /\ planner' = [planner EXCEPT !.pc = "submit", !.attempt = @ + 1, !.receipt = "none"]
        /\ UNCHANGED reserve_ops
    BY <1>2 DEF retryOut
  <2>2. /\ PlannerOK(planner') /\ planner'.pc = "submit" /\ planner'.receipt = "none"
        /\ planner'.attempt = planner.attempt + 1
    BY <1>1, <1>2, <2>1, PlannerRetries DEF Working
  <2>3. TableKept
    BY <1>1, <2>1, UntouchedTable
  <2>4. QED
    BY <2>2, <2>3 DEF PlannerEffect, AgainOrNot
<1>3. CASE ~(planner.attempt < MAX_RETRIES)
  <2>1. planner' = [planner EXCEPT !.pc = "fail", !.receipt = "none"] /\ UNCHANGED reserve_ops
    BY <1>3 DEF retryOut
  <2>2. PlannerOK(planner') /\ planner'.pc = "fail" /\ planner'.receipt = "none"
    BY <1>1, <2>1, PlannerFails DEF Working
  <2>3. TableKept
    BY <1>1, <2>1, UntouchedTable
  <2>4. QED
    BY <2>2, <2>3 DEF PlannerEffect, Working, AgainOrNot
<1>4. QED
  BY <1>2, <1>3

(* What the planner sends is one of its transactions. *)
LEMMA OutsSent ==
  ASSUME ReservePathInv, planner.pc \in Working, sent' = sent \cup {currentOut}
  PROVE  Outs' = Outs \cup {currentOut}
<1>1. currentOut \in OutTx
  BY CurrentOut DEF ReservePathInv
<1>2. QED
  BY <1>1 DEF Outs

(* bridgeReserve() is sent, or seems not to be. *)
LEMMA SubmitOutKeeps == ReservePathInv /\ submitOut => ReservePathInv' /\ Effect
<1> SUFFICES ASSUME ReservePathInv, submitOut PROVE ReservePathInv' /\ Effect
  OBVIOUS
<1>1. /\ Planner("submit") /\ sent' \in {sent, sent \cup {currentOut}}
      /\ \/ /\ sent' = sent \cup {currentOut}
            /\ planner' = [planner EXCEPT !.pc = "wait"] /\ Undisturbed /\ UNCHANGED reserve_ops
         \/ retryOut /\ Disturbed("rpc")
  BY DEF submitOut
<1>2. Later
  BY <1>1, DisturbedLater DEF Later
<1>3. /\ planner.pc = "submit" /\ PlannerOK(planner) /\ Around' /\ LogsGrow
      /\ RelayerOK(relayer') /\ RelayerEffect
  BY <1>1, <1>2, PlannerFrame
<1>4. SentEffect
  BY <1>1, <1>3 DEF SentEffect
<1>o. Outs' = Outs \/ Outs' = Outs \cup {currentOut}
  BY <1>1, <1>3, OutsSent DEF Working, Outs
<1>5. CASE /\ sent' = sent \cup {currentOut}
           /\ planner' = [planner EXCEPT !.pc = "wait"] /\ UNCHANGED reserve_ops
  <2>1. /\ PlannerOK(planner') /\ planner'.pc = "wait" /\ planner'.receipt = "none"
        /\ planner'.attempt = planner.attempt
    BY <1>3, <1>5, PlannerTurns
  <2>2. Outs' = Outs \cup {currentOut}
    BY <1>3, <1>5, OutsSent DEF Working
  <2>3. Sending
    BY <1>1, <1>2, <1>3, <1>5, <2>1, <2>2 DEF Sending, NoBurn, Planner
  <2>4. BurnEffect
    BY <2>3 DEF BurnEffect
  <2>5. QED
    BY <1>1, <1>2, <1>4, <1>5, <2>1, <2>4, PlannerAlone DEF Working
<1>6. CASE retryOut /\ Disturbed("rpc")
  <2>1. PlannerOK(planner') /\ TableKept /\ PlannerEffect /\ AgainOrNot
    BY <1>3, <1>6, RetryOutFacts DEF Working
  <2>2. Unanswered
    BY <1>o, <1>1, <1>2, <1>3, <1>6, <2>1 DEF Unanswered, NoBurn, Planner, TableKept
  <2>3. Effect
    BY <1>3, <1>4, <2>1, <2>2 DEF Effect, TableEffect, BurnEffect
  <2>4. QED
    BY <1>3, <2>1, <2>3, EffectKeeps
<1>7. QED
  BY <1>1, <1>5, <1>6

(* The planner has a receipt, or none in time. *)
LEMMA AwaitOutKeeps == ReservePathInv /\ awaitOut => ReservePathInv' /\ Effect
<1> SUFFICES ASSUME ReservePathInv, awaitOut PROVE ReservePathInv' /\ Effect
  OBVIOUS
<1>1. /\ Planner("wait") /\ UNCHANGED sent
      /\ \/ /\ planner.receipt = "ok" /\ planner' = nextOp
            /\ \/ update_submitted(row, planner.msg) /\ Undisturbed
               \/ UNCHANGED reserve_ops /\ Disturbed("db")
         \/ /\ retryOut
            /\ \/ planner.receipt = "reverted" /\ Undisturbed
               \/ planner.receipt = "none" /\ currentOut \notin sent /\ Undisturbed
               \/ Disturbed("timeout")
  BY DEF awaitOut, succeeded, recordBurn
<1>2. Later
  BY <1>1, DisturbedLater DEF Later
<1>3. /\ planner.pc = "wait" /\ PlannerOK(planner) /\ Around' /\ LogsGrow
      /\ RelayerOK(relayer') /\ RelayerEffect
  BY <1>1, <1>2, PlannerFrame
<1>4. SentEffect
  BY <1>1, Quiet
<1>5. CASE planner' = nextOp /\ UNCHANGED reserve_ops
  <2>1. PlannerOK(planner') /\ planner'.pc \in {"idle", "check"} /\ planner'.receipt = "none"
    BY <1>3, <1>5, CycleGoesOn
  <2>2. BurnEffect
    BY <1>1, <1>2, <1>5, <2>1, PlannerCalm DEF Working
  <2>3. QED
    BY <1>1, <1>2, <1>4, <1>5, <2>1, <2>2, PlannerAlone DEF Working
<1>6. CASE planner.receipt = "ok" /\ planner' = nextOp /\ update_submitted(row, planner.msg)
  <2>1. PlannerOK(planner') /\ planner'.pc \in {"idle", "check"} /\ planner'.receipt = "none"
    BY <1>3, <1>6, CycleGoesOn
  <2>2. TableEffect
    BY <1>3, <1>6, <2>1, MessageStored DEF ReservePathInv, Working
  <2>3. PlannerEffect
    BY <2>1 DEF PlannerEffect, Working
  <2>4. BurnEffect
    <3>1. Len(reserve_ops') = Len(reserve_ops)
      BY <1>6, UpdatedTable DEF update_submitted, ReservePathInv
    <3>2. QED
      BY <1>1, <1>2, <2>1, <3>1, PlannerCalm DEF Working
  <2>5. Effect
    BY <1>3, <1>4, <2>2, <2>3, <2>4 DEF Effect
  <2>6. QED
    BY <1>3, <2>1, <2>5, EffectKeeps
<1>7. CASE /\ retryOut
           /\ \/ planner.receipt = "reverted"
              \/ planner.receipt = "none" /\ currentOut \notin sent
              \/ Disturbed("timeout")
  <2>1. PlannerOK(planner') /\ TableKept /\ PlannerEffect /\ AgainOrNot
    BY <1>3, <1>7, RetryOutFacts DEF Working
  <2>2. Missed
    BY <1>1, <1>2, <1>3, <1>7, <2>1 DEF Missed, NoBurn, Planner, TableKept, Outs
  <2>3. Effect
    BY <1>3, <1>4, <2>1, <2>2 DEF Effect, TableEffect, BurnEffect
  <2>4. QED
    BY <1>3, <2>1, <2>3, EffectKeeps
<1>8. QED
  BY <1>1, <1>5, <1>6, <1>7

(* The planner marks the row that it gives up, unless the database fails. *)
LEMMA OutFailureKeeps == ReservePathInv /\ recordOutFailure => ReservePathInv' /\ Effect
<1> SUFFICES ASSUME ReservePathInv, recordOutFailure PROVE ReservePathInv' /\ Effect
  OBVIOUS
<1>1. /\ Planner("fail") /\ UNCHANGED sent /\ planner' = nextOp
      /\ update_status(row, "failed") \/ UNCHANGED reserve_ops
      /\ Undisturbed \/ Disturbed("db")
  BY DEF recordOutFailure, update_failed
<1>2. Later
  BY <1>1, DisturbedLater DEF Later
<1>3. /\ planner.pc = "fail" /\ PlannerOK(planner) /\ Around' /\ LogsGrow
      /\ RelayerOK(relayer') /\ RelayerEffect /\ Tables /\ Held
  BY <1>1, <1>2, PlannerFrame DEF ReservePathInv
<1>4. SentEffect
  BY <1>1, Quiet
<1>5. PlannerOK(planner') /\ planner'.pc \in {"idle", "check"} /\ planner'.receipt = "none"
  BY <1>1, <1>3, CycleGoesOn
<1>6. TableKept
  <2>1. row \in 1..Len(reserve_ops)
    BY <1>3 DEF row, Held, Tables
  <2>2. QED
    BY <1>1, <1>3, <2>1, StatusUpdated, UntouchedTable
<1>7. PlannerEffect /\ TableEffect
  BY <1>5, <1>6 DEF PlannerEffect, TableEffect, Working
<1>8. BurnEffect
  BY <1>1, <1>2, <1>5, <1>6, PlannerCalm DEF Working, TableKept
<1>9. QED
  BY <1>3, <1>4, <1>5, <1>7, <1>8, EffectKeeps DEF Effect

(* A relayer step keeps the invariant when it keeps the table and its rows. *)
LEMMA RelayerAlone ==
  ASSUME ReservePathInv, NEW pc, Relayer(pc), Later, TableKept, SentEffect, UNCHANGED Outs,
         RelayerOK(relayer'), RelayerEffect
  PROVE  ReservePathInv' /\ Effect
<1>1. /\ UNCHANGED <<bankVars, burner>> /\ UNCHANGED planner
      /\ UNCHANGED <<servable, watcherSeen, watching, attested>>
  BY DEF Relayer
<1>2. LogsGrow /\ UNCHANGED bridges /\ BankInv' /\ PlannerOK(planner') /\ PlannerEffect
  BY <1>1, Quiet
<1>3. Around'
  BY <1>1, <1>2, LaterTyped DEF ReservePathInv, Around
<1>4. BurnEffect
  BY <1>1, OthersCalm DEF TableKept
<1>5. Effect
  BY <1>2, <1>4 DEF Effect, TableEffect
<1>6. QED
  BY <1>2, <1>3, <1>5, EffectKeeps

(* What is left of a round are rows of the round. *)
LEMMA RoundShrinks ==
  ASSUME RelayerOK(relayer), relayer.pc # "idle", relayer'.receipt = "none",
         \/ relayer'.queue = <<>>
         \/ relayer'.queue = Tail(relayer.queue)
         \/ relayer'.queue = relayer.queue
  PROVE  RelayerEffect
<1> DEFINE q == relayer.queue
           w == relayer'.queue
<1>1. /\ Len(q) \in Nat /\ Len(Tail(q)) = Len(q) - 1
      /\ \A k \in 1..Len(Tail(q)) : Tail(q)[k] = q[k + 1]
  BY QueueFacts
<1>2. w = <<>> \/ w = Tail(q) \/ w = q
  OBVIOUS
<1> HIDE DEF q, w
<1>3. ASSUME NEW k \in 1..Len(w) PROVE \E j \in 1..Len(q) : w[k] = q[j]
  <2>1. CASE w = <<>>
    BY <2>1
  <2>2. CASE w = Tail(q)
    <3>1. k + 1 \in 1..Len(q) /\ w[k] = q[k + 1]
      BY <1>1, <2>2
    <3>2. QED
      BY <3>1
  <2>3. CASE w = q
    BY <2>3
  <2>4. QED
    BY <1>2, <2>1, <2>2, <2>3
<1>4. QED
  BY <1>3 DEF RelayerEffect, q, w

(* A round starts with the rows that await an attestation. *)
LEMMA RoundKeeps == ReservePathInv /\ startRound => ReservePathInv' /\ Effect
<1> SUFFICES ASSUME ReservePathInv, startRound PROVE ReservePathInv' /\ Effect
  OBVIOUS
<1> DEFINE S == list_awaiting_attestation
           n == Cardinality(S)
<1>1. Relayer("idle") /\ S # {} /\ Later /\ UNCHANGED sent /\ UNCHANGED reserve_ops
  BY DEF startRound, Later
<1>2. PICK w \in [1..n -> S] : relayer' = [RelayerIdle EXCEPT !.pc = "attest", !.queue = w]
  BY DEF startRound
<1>3. Len(reserve_ops) \in Nat /\ Len(reserve_ops) <= MaxOps /\ DOMAIN reserve_ops = 1..Len(reserve_ops)
  BY DEF ReservePathInv, Tables
<1>4. S \subseteq 1..Len(reserve_ops) /\ S \subseteq 1..MaxOps
  BY <1>3, ReservePathAssumption DEF list_awaiting_attestation
<1>5. IsFiniteSet(S)
  <2>1. IsFiniteSet(1..Len(reserve_ops))
    BY <1>3, FS_Interval
  <2>2. QED
    BY <1>4, <2>1, FS_Subset
<1> HIDE DEF S
<1>6. n \in Nat /\ n # 0
  BY <1>1, <1>5, FS_CardinalityType, FS_EmptySet
<1> HIDE DEF n
<1>7. w \in Seq(1..MaxOps) /\ w # <<>> /\ Len(w) = n
  <2> DEFINE T == 1..MaxOps
  <2>1. w \in [1..n -> T]
    BY <1>4
  <2> HIDE DEF T
  <2>2. w \in Seq(T)
    BY <1>6, <2>1
  <2>3. Len(w) = n
    BY <1>6, <2>1, <2>2
  <2>4. QED
    BY <1>6, <2>2, <2>3 DEF T
<1>8. RelayerOK(relayer') /\ relayer'.receipt = "none" /\ relayer'.queue = w
  BY <1>2, <1>7, RoundBegins
<1>9. RelayerEffect
  BY <1>7, <1>8 DEF RelayerEffect, S
<1>10. SentEffect /\ TableKept /\ UNCHANGED Outs
  BY <1>1, Quiet DEF Outs
<1>11. QED
  BY <1>1, <1>8, <1>9, <1>10, RelayerAlone

(* The relayer asks Circle. *)
LEMMA AttestKeeps == ReservePathInv /\ attest => ReservePathInv' /\ Effect
<1> SUFFICES ASSUME ReservePathInv, attest PROVE ReservePathInv' /\ Effect
  OBVIOUS
<1>1. /\ Relayer("attest") /\ UNCHANGED sent
      /\ \/ relayer' = nextRow /\ UNCHANGED reserve_ops
         \/ \E pc \in {"submit", "fail"} : relayer' = [relayer EXCEPT !.pc = pc]
      /\ update_attestation(relayed) \/ UNCHANGED reserve_ops
      /\ Undisturbed \/ Disturbed("db") \/ Disturbed("rpc")
  BY DEF attest
<1>2. Later
  BY <1>1, DisturbedLater DEF Later
<1>3. relayer.pc = "attest" /\ Tables /\ Queued /\ Rows /\ RelayerOK(relayer)
  BY <1>1 DEF Relayer, ReservePathInv, Tables
<1>4. relayed \in 1..Len(reserve_ops)
  BY <1>3, CurrentIn
<1>5. TableKept /\ SentEffect /\ UNCHANGED Outs
  BY <1>1, <1>3, <1>4, AttestationStored, Quiet DEF Outs
<1>6. /\ RelayerOK(relayer') /\ relayer'.receipt = "none"
      /\ relayer'.queue = <<>> \/ relayer'.queue = Tail(relayer.queue) \/ relayer'.queue = relayer.queue
  <2>1. CASE relayer' = nextRow
    BY <1>3, <2>1, RoundGoesOn
  <2>2. ASSUME NEW pc \in {"submit", "fail"}, relayer' = [relayer EXCEPT !.pc = pc]
        PROVE  RelayerOK(relayer') /\ relayer'.receipt = "none" /\ relayer'.queue = relayer.queue
    BY <1>3, <2>2, RelayerTurns
  <2>3. QED
    BY <1>1, <2>1, <2>2
<1>7. RelayerEffect
  BY <1>3, <1>6, RoundShrinks
<1>8. QED
  BY <1>1, <1>2, <1>5, <1>6, <1>7, RelayerAlone

(* Another attempt of the relayer, or none. *)
LEMMA RetryInFacts ==
  ASSUME ReservePathInv, relayer.pc \in Working, retryIn
  PROVE  RelayerOK(relayer') /\ TableKept /\ RelayerEffect
<1>1. Tables /\ Queued /\ Rows /\ RelayerOK(relayer) /\ relayer.pc # "idle"
  BY DEF ReservePathInv, Tables, Working
<1>2. CASE relayer.attempt < MAX_RETRIES
  <2>1. /\ relayer' = [relayer EXCEPT !.pc = "submit", !.attempt = @ + 1, !.receipt = "none"]
        /\ UNCHANGED reserve_ops
    BY <1>2 DEF retryIn
  <2>2. RelayerOK(relayer') /\ relayer'.receipt = "none" /\ relayer'.queue = relayer.queue
    BY <1>1, <1>2, <2>1, RelayerRetries DEF Working
  <2>3. QED
    BY <1>1, <2>1, <2>2, UntouchedTable, RoundShrinks
<1>3. CASE ~(relayer.attempt < MAX_RETRIES)
  <2>1. relayer' = [relayer EXCEPT !.pc = "fail", !.receipt = "none"] /\ UNCHANGED reserve_ops
    BY <1>3 DEF retryIn
  <2>2. RelayerOK(relayer') /\ relayer'.receipt = "none" /\ relayer'.queue = relayer.queue
    BY <1>1, <2>1, RelayerFails DEF Working
  <2>3. QED
    BY <1>1, <2>1, <2>2, UntouchedTable, RoundShrinks
<1>4. QED
  BY <1>2, <1>3

(* bridgeIn() is sent, or seems not to be. *)
LEMMA SubmitInKeeps == ReservePathInv /\ submitIn => ReservePathInv' /\ Effect
<1> SUFFICES ASSUME ReservePathInv, submitIn PROVE ReservePathInv' /\ Effect
  OBVIOUS
<1>1. /\ Relayer("submit") /\ sent' \in {sent, sent \cup {currentIn}}
      /\ \/ relayer' = [relayer EXCEPT !.pc = "wait"] /\ Undisturbed /\ UNCHANGED reserve_ops
         \/ retryIn /\ Disturbed("rpc")
  BY DEF submitIn
<1>2. Later
  BY <1>1, DisturbedLater DEF Later
<1>3. relayer.pc = "submit" /\ RelayerOK(relayer)
  BY <1>1 DEF Relayer, ReservePathInv, Tables
<1>4. SentEffect /\ UNCHANGED Outs
  <2>1. currentIn \in InTx
    BY <1>3, CurrentIn DEF ReservePathInv
  <2>2. currentIn \notin OutTx
    BY <2>1, OutIsNotIn
  <2>3. QED
    BY <1>1, <1>3, <2>2 DEF SentEffect, Outs
<1>5. CASE relayer' = [relayer EXCEPT !.pc = "wait"] /\ UNCHANGED reserve_ops
  <2>1. RelayerOK(relayer') /\ relayer'.receipt = "none" /\ relayer'.queue = relayer.queue
    BY <1>3, <1>5, RelayerTurns
  <2>2. RelayerEffect /\ TableKept
    BY <1>3, <1>5, <2>1, RoundShrinks, Quiet
  <2>3. QED
    BY <1>1, <1>2, <1>4, <2>1, <2>2, RelayerAlone
<1>6. CASE retryIn
  BY <1>1, <1>2, <1>3, <1>4, <1>6, RetryInFacts, RelayerAlone DEF Working
<1>7. QED
  BY <1>1, <1>5, <1>6

(* The relayer has a receipt, or none in time. *)
LEMMA AwaitInKeeps == ReservePathInv /\ awaitIn => ReservePathInv' /\ Effect
<1> SUFFICES ASSUME ReservePathInv, awaitIn PROVE ReservePathInv' /\ Effect
  OBVIOUS
<1>1. /\ Relayer("wait") /\ UNCHANGED sent
      /\ \/ /\ relayer.receipt = "ok" /\ relayer' = nextRow
            /\ update_status(relayed, "relayed") \/ UNCHANGED reserve_ops
         \/ retryIn
      /\ Undisturbed \/ Disturbed("db") \/ Disturbed("timeout")
  BY DEF awaitIn, succeeded
<1>2. Later
  BY <1>1, DisturbedLater DEF Later
<1>3. relayer.pc = "wait" /\ Tables /\ Queued /\ Rows /\ RelayerOK(relayer)
  BY <1>1 DEF Relayer, ReservePathInv, Tables
<1>4. SentEffect /\ UNCHANGED Outs
  BY <1>1, Quiet DEF Outs
<1>5. CASE /\ relayer.receipt = "ok" /\ relayer' = nextRow
           /\ update_status(relayed, "relayed") \/ UNCHANGED reserve_ops
  <2>1. relayed = relayer.queue[1] /\ relayed \in 1..Len(reserve_ops) /\ reserve_ops[relayed].msg # 0
    BY <1>3, CurrentIn
  <2>2. Credited(reserve_ops[relayed].msg)
    BY <1>3, <1>5, <2>1 DEF Queued
  <2>3. TableKept
    BY <1>3, <1>5, <2>1, <2>2, StatusUpdated, UntouchedTable
  <2>4. /\ RelayerOK(relayer') /\ relayer'.receipt = "none"
        /\ relayer'.queue = <<>> \/ relayer'.queue = Tail(relayer.queue)
    BY <1>3, <1>5, RoundGoesOn
  <2>5. RelayerEffect
    BY <1>3, <2>4, RoundShrinks
  <2>6. QED
    BY <1>1, <1>2, <1>4, <2>3, <2>4, <2>5, RelayerAlone
<1>6. CASE retryIn
  BY <1>1, <1>2, <1>3, <1>4, <1>6, RetryInFacts, RelayerAlone DEF Working
<1>7. QED
  BY <1>1, <1>5, <1>6

(* The relayer marks the row that it gives up, unless the database fails. *)
LEMMA InFailureKeeps == ReservePathInv /\ recordInFailure => ReservePathInv' /\ Effect
<1> SUFFICES ASSUME ReservePathInv, recordInFailure PROVE ReservePathInv' /\ Effect
  OBVIOUS
<1>1. /\ Relayer("fail") /\ UNCHANGED sent /\ relayer' = nextRow
      /\ update_status(relayed, "failed") \/ UNCHANGED reserve_ops
      /\ Undisturbed \/ Disturbed("db")
  BY DEF recordInFailure, update_failed
<1>2. Later
  BY <1>1, DisturbedLater DEF Later
<1>3. relayer.pc = "fail" /\ Tables /\ Queued /\ Rows /\ RelayerOK(relayer)
  BY <1>1 DEF Relayer, ReservePathInv, Tables
<1>4. SentEffect /\ UNCHANGED Outs
  BY <1>1, Quiet DEF Outs
<1>5. relayed \in 1..Len(reserve_ops)
  BY <1>3, CurrentIn
<1>6. TableKept
  BY <1>1, <1>3, <1>5, StatusUpdated, UntouchedTable
<1>7. /\ RelayerOK(relayer') /\ relayer'.receipt = "none"
      /\ relayer'.queue = <<>> \/ relayer'.queue = Tail(relayer.queue)
  BY <1>1, <1>3, RoundGoesOn
<1>8. RelayerEffect
  BY <1>3, <1>7, RoundShrinks
<1>9. QED
  BY <1>1, <1>2, <1>4, <1>6, <1>7, <1>8, RelayerAlone

(* A step that leaves the Banks and both loops alone. *)
LEMMA LoopsAlone ==
  ASSUME ReservePathInv, UNCHANGED <<bankVars, burner>>, UNCHANGED <<planner, relayer>>, Later, TableKept,
         sent' \subseteq sent, UNCHANGED sent \/ BurnEffect, servable' \subseteq Chains, watching' \subseteq Chains,
         watcherSeen' \in [Chains -> SUBSET Bridge], attested' \subseteq 1..Len(bridges)
  PROVE  ReservePathInv' /\ Effect
<1>1. LogsGrow /\ UNCHANGED bridges /\ BankInv'
  BY Quiet
<1>2. PlannerOK(planner') /\ PlannerEffect /\ RelayerOK(relayer') /\ RelayerEffect /\ SentEffect
  BY Quiet
<1>3. disturbances' \in Seq(Disturbances) /\ Len(disturbances') <= MaxDisturbances
  BY LaterTyped DEF ReservePathInv, Around
<1>4. Around'
  BY <1>1, <1>3 DEF Around
<1>5. BurnEffect
  BY OthersCalm DEF TableKept, Outs
<1>6. Effect
  BY <1>1, <1>2, <1>5 DEF Effect, TableEffect
<1>7. QED
  BY <1>2, <1>4, <1>6, EffectKeeps

(* What the watcher and time make of a row. *)
Completed(r) == [r EXCEPT !.status = "completed", !.stuck = FALSE]
Stuck(r) == [r EXCEPT !.stuck = TRUE]
Aged(r) == [r EXCEPT !.aged = TRUE]

(* Completing a row changes its status only. *)
LEMMA CompletedRow ==
  ASSUME NEW r \in Row, NEW q, q = Completed(r)
  PROVE  q \in Row /\ SameMove(q, r) /\ q.msg = r.msg /\ q.status = "completed"
BY DEF Row, SameMove, Completed

(* Time passes over a row. *)
LEMMA OlderRow ==
  ASSUME NEW r \in Row, NEW q, q = Stuck(r) \/ q = Aged(r)
  PROVE  q \in Row /\ SameMove(q, r) /\ q.msg = r.msg /\ q.status = r.status
BY DEF Row, SameMove, Stuck, Aged

(* The watcher completes rows of messages that the chain has credited. *)
LEMMA ScanKeeps ==
  ASSUME ReservePathInv, NEW c \in Chains, scanCompleted(c)
  PROVE  ReservePathInv' /\ Effect
<1> DEFINE P == processedReserveMessages[c]
           Done(found, i) == /\ reserve_ops[i].dst = c /\ reserve_ops[i].msg # 0
                             /\ bridges[reserve_ops[i].msg] \in found
<1>1. /\ Watcher /\ watching' = watching \cup {c} /\ watcherSeen' = [watcherSeen EXCEPT ![c] = P]
      /\ Undisturbed \/ Disturbed("rpc")
      /\ \/ UNCHANGED reserve_ops
         \/ \E found \in SUBSET P :
              reserve_ops' = [i \in DOMAIN reserve_ops |->
                  IF Done(found, i) /\ reserve_ops[i].status # "none"
                  THEN Completed(reserve_ops[i]) ELSE reserve_ops[i]]
  BY DEF scanCompleted, Completed
<1>2. Around /\ Tables /\ Rows /\ reserve_ops \in Seq(Row)
  BY DEF ReservePathInv, Tables
<1>3. Later
  BY <1>1, DisturbedLater DEF Later
<1>4. ASSUME NEW found \in SUBSET P,
             reserve_ops' = [i \in DOMAIN reserve_ops |->
                 IF Done(found, i) /\ reserve_ops[i].status # "none"
                 THEN Completed(reserve_ops[i]) ELSE reserve_ops[i]]
      PROVE  TableKept
  <2>0. DOMAIN reserve_ops = 1..Len(reserve_ops) /\ Len(reserve_ops) \in Nat
    BY <1>2
  <2>1. ASSUME NEW i \in 1..Len(reserve_ops) PROVE RowKept(reserve_ops'[i], reserve_ops[i])
    <3> DEFINE r == reserve_ops[i]
               q == reserve_ops'[i]
    <3>1. r \in Row
      BY <1>2
    <3>2. q = IF Done(found, i) /\ r.status # "none" THEN Completed(r) ELSE r
      BY <1>4, <2>0
    <3>3. CASE q = r
      BY <3>1, <3>3, KeptReflexive
    <3>4. CASE q = Completed(r) /\ Done(found, i)
      <4>1. r.dst = c /\ r.msg # 0 /\ bridges[r.msg] \in P
        BY <3>4
      <4>2. bridges[r.msg].dst = c
        BY <1>2, <4>1 DEF Rows, RowGood, Burned, SameMove
      <4>3. Credited(r.msg)
        BY <4>1, <4>2 DEF Credited
      <4> HIDE DEF r, q
      <4>4. q \in Row /\ SameMove(q, r) /\ q.msg = r.msg /\ q.status = "completed"
        BY <3>1, <3>4, CompletedRow
      <4>5. RowKept(q, r)
        BY <4>1, <4>3, <4>4 DEF RowKept
      <4>6. QED
        BY <4>5 DEF q, r
    <3>5. QED
      BY <3>2, <3>3, <3>4
  <2>2. DOMAIN reserve_ops' = 1..Len(reserve_ops)
    BY <1>4, <2>0
  <2>3. reserve_ops' \in [1..Len(reserve_ops) -> Row]
    <3>1. \A i \in 1..Len(reserve_ops) : reserve_ops'[i] \in Row
      BY <2>1 DEF RowKept
    <3> DEFINE n == Len(reserve_ops)
               F(i) == IF Done(found, i) /\ reserve_ops[i].status # "none"
                       THEN Completed(reserve_ops[i]) ELSE reserve_ops[i]
    <3>2. reserve_ops' = [i \in 1..n |-> F(i)]
      BY <1>4, <2>0
    <3> HIDE DEF F, n
    <3>3. \A i \in 1..n : F(i) \in Row
      BY <3>1, <3>2 DEF n
    <3>4. reserve_ops' \in [1..n -> Row]
      BY <3>2, <3>3
    <3>5. QED
      BY <3>4 DEF n
  <2>4. reserve_ops' \in Seq(Row) /\ Len(reserve_ops') = Len(reserve_ops)
    BY <2>0, <2>3
  <2>5. QED
    BY <2>1, <2>4 DEF TableKept
<1>5. TableKept
  BY <1>1, <1>2, <1>4, UntouchedTable
<1>6. /\ UNCHANGED <<bankVars, burner>> /\ UNCHANGED <<planner, relayer>>
      /\ UNCHANGED <<servable, attested, sent>>
  BY <1>1 DEF Watcher
<1>7. watching' \subseteq Chains /\ watcherSeen' \in [Chains -> SUBSET Bridge]
  <2>1. P \in SUBSET Bridge
    BY <1>2, BankInvFacts DEF Around, TypeOK, ReserveType
  <2> HIDE DEF P
  <2>2. QED
    BY <1>1, <1>2, <2>1 DEF Around
<1>8. QED
  BY <1>2, <1>3, <1>5, <1>6, <1>7, LoopsAlone DEF Around

(* The stuck timeout fails a row. *)
LEMMA ExpireKeeps ==
  ASSUME ReservePathInv, NEW i \in DOMAIN reserve_ops, expire(i)
  PROVE  ReservePathInv' /\ Effect
<1>1. /\ Watcher /\ UNCHANGED <<watching, watcherSeen>>
      /\ update_status(i, "failed") \/ UNCHANGED reserve_ops
      /\ Undisturbed \/ Disturbed("db")
  BY DEF expire, update_failed
<1>2. Around /\ Tables /\ i \in 1..Len(reserve_ops)
  BY DEF ReservePathInv, Tables
<1>3. Later
  BY <1>1, DisturbedLater DEF Later
<1>4. TableKept
  BY <1>1, <1>2, StatusUpdated, UntouchedTable
<1>5. /\ UNCHANGED <<bankVars, burner>> /\ UNCHANGED <<planner, relayer>>
      /\ UNCHANGED <<servable, attested, sent>>
  BY <1>1 DEF Watcher
<1>6. QED
  BY <1>1, <1>2, <1>3, <1>4, <1>5, LoopsAlone DEF Around

(* Time passes over a row. *)
LEMMA GrowKeeps ==
  ASSUME ReservePathInv, NEW i \in DOMAIN reserve_ops, grow(i)
  PROVE  ReservePathInv' /\ Effect
<1> DEFINE r == reserve_ops[i]
<1>1. /\ Others /\ UNCHANGED <<bankVars, planner, relayer, attested, sent, burner, disturbances>>
      /\ reserve_ops' = Replaced(i, Stuck(r)) \/ reserve_ops' = Replaced(i, Aged(r))
  BY DEF grow, Replaced, Stuck, Aged
<1>2. Around /\ Tables /\ i \in 1..Len(reserve_ops) /\ r \in Row
  BY DEF ReservePathInv, Tables
<1>3. PICK q : (q = Stuck(r) \/ q = Aged(r)) /\ reserve_ops' = Replaced(i, q)
  BY <1>1
<1>4. q \in Row /\ SameMove(q, r) /\ q.msg = r.msg /\ q.status = r.status
  BY <1>2, <1>3, OlderRow
<1>5. RowKept(q, reserve_ops[i])
  BY <1>4 DEF RowKept
<1>6. TableKept
  BY <1>2, <1>3, <1>5, ReplacedKept
<1>7. /\ UNCHANGED <<bankVars, burner>> /\ UNCHANGED <<planner, relayer>> /\ Later
      /\ UNCHANGED <<servable, watcherSeen, watching, attested, sent>>
  BY <1>1 DEF Others, Later, Undisturbed
<1>8. QED
  BY <1>2, <1>6, <1>7, LoopsAlone DEF Around

(* A transaction is lost. *)
LEMMA DropKeeps ==
  ASSUME ReservePathInv, NEW x \in sent, drop(x)
  PROVE  ReservePathInv' /\ Effect
<1>1. /\ UNCHANGED <<bankVars, burner>> /\ UNCHANGED <<planner, relayer>> /\ UNCHANGED reserve_ops
      /\ UNCHANGED <<servable, watcherSeen, watching, attested>> /\ sent' = sent \ {x}
      /\ Disturbed("timeout")
  BY DEF drop, Others
<1>2. Later /\ TableKept
  BY <1>1, DisturbedLater, Quiet
<1>3. CASE x \in Outs
  <2>1. Lost(x)
    BY <1>1, <1>2 DEF Lost, NoBurn, Outs
  <2>2. BurnEffect
    BY <1>3, <2>1 DEF BurnEffect
  <2>3. QED
    BY <1>1, <1>2, <2>2, LoopsAlone DEF ReservePathInv, Around
<1>4. CASE x \notin Outs
  <2>1. UNCHANGED Outs
    BY <1>1, <1>4 DEF Outs
  <2>2. BurnEffect
    BY <1>1, <1>2, <2>1, OthersCalm
  <2>3. QED
    BY <1>1, <1>2, <2>2, LoopsAlone DEF ReservePathInv, Around
<1>5. QED
  BY <1>3, <1>4

(* Circle attests a burn. *)
LEMMA BurnAttested ==
  ASSUME ReservePathInv, NEW b \in DOMAIN bridges, attestBurn(b)
  PROVE  ReservePathInv' /\ Effect
<1>1. /\ UNCHANGED <<bankVars, burner>> /\ UNCHANGED <<planner, relayer>> /\ UNCHANGED reserve_ops
      /\ UNCHANGED <<servable, watcherSeen, watching, sent>> /\ attested' = attested \cup {b}
      /\ UNCHANGED disturbances
  BY DEF attestBurn, Others
<1>2. Later /\ TableKept
  BY <1>1, Quiet DEF Later, Undisturbed
<1>3. attested' \subseteq 1..Len(bridges)
  <2>1. attested \subseteq 1..Len(bridges) /\ bridges \in Seq(Bridge)
    BY LogTypes DEF ReservePathInv, Around
  <2>2. b \in 1..Len(bridges)
    BY <2>1
  <2>3. QED
    BY <1>1, <2>1, <2>2
<1>4. QED
  BY <1>1, <1>2, <1>3, LoopsAlone DEF ReservePathInv, Around

(* A chain is finalized. *)
LEMMA LearnKeeps ==
  ASSUME ReservePathInv, NEW c, learnDecommission(c)
  PROVE  ReservePathInv' /\ Effect
<1>1. /\ UNCHANGED <<bankVars, burner>> /\ UNCHANGED <<planner, relayer>> /\ UNCHANGED reserve_ops
      /\ UNCHANGED <<watcherSeen, watching, attested, sent>> /\ servable' = servable \ {c}
      /\ Disturbed("route")
  BY DEF learnDecommission
<1>2. Later /\ TableKept
  BY <1>1, DisturbedLater, Quiet
<1>3. QED
  BY <1>1, <1>2, LoopsAlone DEF ReservePathInv, Around

(* The service restarts: both loops forget what they held. *)
LEMMA RestartKeeps == ReservePathInv /\ restart => ReservePathInv' /\ Effect
<1> SUFFICES ASSUME ReservePathInv, restart PROVE ReservePathInv' /\ Effect
  OBVIOUS
<1>1. /\ UNCHANGED <<bankVars, burner>> /\ UNCHANGED reserve_ops /\ planner' = PlannerIdle
      /\ UNCHANGED <<watcherSeen, attested, sent>> /\ relayer' = RelayerIdle
      /\ servable' = Chains /\ watching' = {} /\ Disturbed("restart")
  BY DEF restart
<1>2. Later /\ LogsGrow /\ UNCHANGED bridges /\ BankInv' /\ TableKept /\ TableEffect /\ SentEffect
  BY <1>1, DisturbedLater, Quiet
<1>3. Around'
  BY <1>1, <1>2, LaterTyped DEF ReservePathInv, Around
<1>4. PlannerOK(planner') /\ PlannerEffect
  BY <1>1, PlannerAtRest DEF PlannerEffect, Working
<1>5. RelayerOK(relayer') /\ RelayerEffect
  <2>1. RelayerOK(relayer') /\ relayer'.receipt = "none" /\ relayer'.queue = <<>>
    BY <1>1, RelayerAtRest
  <2>2. 1..Len(<<>>) = {}
    OBVIOUS
  <2>3. QED
    BY <2>1, <2>2 DEF RelayerEffect
<1>6. BurnEffect
  <2>1. Calm
    BY <1>1, <1>2, PlannerAtRest DEF Calm, NoBurn, Outs, Working
  <2>2. QED
    BY <2>1 DEF BurnEffect
<1>7. QED
  BY <1>2, <1>3, <1>4, <1>5, <1>6, EffectKeeps DEF Effect

(* What surrounds the loops, after a call to a Bank. *)
LEMMA CallAround ==
  ASSUME ReservePathInv, BankCall, LogsGrow, Others, UNCHANGED attested, Later
  PROVE  Around'
<1>1. Around
  BY DEF ReservePathInv
<1>2. BankInv'
  BY <1>1, CallKeeps DEF Around
<1>3. bridges \in Seq(Bridge) /\ bridges' \in Seq(Bridge)
  <2>1. TypeOK'
    BY <1>2 DEF BankInv, LedgerInv
  <2>2. QED
    BY <1>1, <2>1, LogTypes DEF TypeOK, ReserveType
<1>4. attested' \subseteq 1..Len(bridges')
  <2>1. Len(bridges) \in Nat /\ Len(bridges') \in Nat /\ Len(bridges) <= Len(bridges')
    BY <1>3 DEF LogsGrow
  <2>2. 1..Len(bridges) \subseteq 1..Len(bridges')
    BY <2>1
  <2>3. QED
    BY <1>1, <2>2 DEF Around
<1>5. QED
  BY <1>1, <1>2, <1>4, LaterTyped DEF Around, Others

(* bridgeReserve() logs the move of a row. *)
LEMMA BurnLogged ==
  ASSUME ReservePathInv, NEW i \in 1..Len(reserve_ops), NEW o, o = reserve_ops[i],
         bridgeReserve(o.src, o.dst, o.amount), burner' = Append(burner, i)
  PROVE  /\ BankCall /\ LogsGrow /\ Len(bridges') \in 1..MaxBridges
         /\ burner'[Len(bridges')] = i /\ SameMove(bridges'[Len(bridges')], o)
<1>1. Tables /\ bridges \in Seq(Bridge) /\ o \in Row /\ BankInv
  BY LogTypes DEF ReservePathInv, Tables, Around
<1>2. o.src \in Chains /\ o.dst \in Chains /\ o.amount \in Nat
  BY <1>1, RowFields
<1>3. BankCall
  BY <1>2 DEF BankCall, TreasuryCall
<1> DEFINE b == [src |-> o.src, dst |-> o.dst, amount |-> o.amount, nonce |-> bridgeNonce[o.src]]
<1>4. /\ Len(bridges) < MaxBridges /\ bridges' = Append(bridges, b) /\ UNCHANGED processedReserveMessages
  BY DEF bridgeReserve
<1>5. SameMove(b, o)
  BY DEF SameMove
<1>6. b \in Bridge
  BY <1>1, <1>2, BankInvFacts DEF Bridge, TypeOK, ReserveType
<1> HIDE DEF b
<1>7. /\ Len(bridges) \in Nat /\ Len(bridges') = Len(bridges) + 1 /\ bridges'[Len(bridges')] = b
      /\ \A m \in 1..Len(bridges) : bridges'[m] = bridges[m]
  BY <1>1, <1>4, <1>6
<1>8. MaxBridges \in Nat /\ MaxOps \in Nat
  BY BankAssumption, ReservePathAssumption
<1>9. /\ burner' \in Seq(1..MaxOps) /\ Len(burner') = Len(bridges')
      /\ burner'[Len(bridges')] = i /\ \A m \in 1..Len(bridges) : burner'[m] = burner[m]
  <2> DEFINE S == 1..MaxOps
  <2>1. i \in S /\ burner \in Seq(S) /\ Len(burner) = Len(bridges)
    BY <1>1, <1>8 DEF Tables
  <2> HIDE DEF S
  <2>2. /\ burner' \in Seq(S) /\ Len(burner') = Len(burner) + 1 /\ burner'[Len(burner) + 1] = i
        /\ \A m \in 1..Len(burner) : burner'[m] = burner[m]
    BY <2>1
  <2>3. QED
    BY <1>7, <2>1, <2>2 DEF S
<1>10. LogsGrow
  BY <1>4, <1>7, <1>8, <1>9 DEF LogsGrow
<1>11. QED
  BY <1>3, <1>4, <1>5, <1>7, <1>8, <1>9, <1>10

(* A bridgeReserve() transaction is included. *)
LEMMA IncludeOutKeeps ==
  ASSUME ReservePathInv, NEW x \in sent, x \in OutTx, includeOut(x)
  PROVE  ReservePathInv' /\ Effect
<1> DEFINE i == x.op
           o == reserve_ops[i]
           mine == planner.pc = "wait" /\ x = currentOut
           n == Len(bridges')
<1>1. /\ Others /\ sent' = sent \ {x} /\ UNCHANGED relayer /\ UNCHANGED attested
      /\ UNCHANGED reserve_ops /\ Later /\ UNCHANGED disturbances
      /\ \/ /\ bridgeReserve(o.src, o.dst, o.amount) /\ burner' = Append(burner, i)
            /\ planner' = IF mine THEN WithReceipt(planner, "ok", n) ELSE planner
         \/ /\ planner' = IF mine THEN WithReceipt(planner, "reverted", 0) ELSE planner
            /\ UNCHANGED <<bankVars, burner>>
  BY DEF includeOut, Later, Undisturbed, WithReceipt
<1>2. Tables /\ Held /\ Pending /\ PlannerOK(planner) /\ Len(reserve_ops) \in Nat
  BY DEF ReservePathInv, Tables
<1>3. i \in 1..Len(reserve_ops)
  <2>1. i \in 1..MaxOps /\ i <= Len(reserve_ops)
    BY <1>2 DEF OutTx, Pending
  <2>2. QED
    BY <1>2, <2>1, ReservePathAssumption
<1>4. TableKept /\ TableEffect /\ SentEffect /\ RelayerOK(relayer') /\ RelayerEffect
  BY <1>1, Quiet
<1>5. mine => i = Len(reserve_ops)
  BY <1>2, CurrentOut DEF Working
<1>o. x \in Outs /\ Outs' = Outs \ {x} /\ Len(reserve_ops') = Len(reserve_ops)
  BY <1>1 DEF Outs
<1>6. CASE /\ bridgeReserve(o.src, o.dst, o.amount) /\ burner' = Append(burner, i)
           /\ planner' = IF mine THEN WithReceipt(planner, "ok", n) ELSE planner
  <2>1. /\ BankCall /\ LogsGrow /\ n \in 1..MaxBridges
        /\ burner'[n] = i /\ SameMove(bridges'[n], o)
    BY <1>3, <1>6, BurnLogged
  <2>2. Around'
    BY <1>1, <2>1, CallAround
  <2>3. PlannerOK(planner') /\ PlannerEffect /\ Hears(x)
    <3>1. CASE mine
      <4>1. planner.pc = "wait" /\ planner' = WithReceipt(planner, "ok", n)
        BY <1>6, <3>1
      <4>2. n \in 0..MaxBridges /\ n \in 1..n
        BY <2>1, BankAssumption
      <4>3. /\ n \in 1..Len(bridges') /\ burner'[n] = Len(reserve_ops')
            /\ SameMove(bridges'[n], reserve_ops'[Len(reserve_ops')])
        BY <1>1, <1>5, <2>1, <3>1, <4>2
      <4> HIDE DEF n
      <4>4. /\ PlannerOK(planner') /\ planner'.pc = "wait" /\ planner'.receipt = "ok"
            /\ planner'.msg = n /\ planner'.attempt = planner.attempt
        BY <1>2, <4>1, <4>2, PlannerHears DEF Receipts
      <4>5. Burned(planner.msg, Len(reserve_ops))'
        BY <4>3, <4>4 DEF Burned
      <4>6. Hears(x)
        BY <3>1, <4>4 DEF Hears
      <4>7. QED
        BY <1>4, <4>1, <4>4, <4>5, <4>6 DEF PlannerEffect, Working
    <3>2. CASE ~mine
      BY <1>4, <1>6, <3>2, Quiet DEF Hears
    <3>3. QED
      BY <3>1, <3>2
  <2>4. BurnEffect
    <3>1. Mined(x)
      BY <1>o, <1>1, <1>3, <1>6, <2>1, <2>3 DEF Mined
    <3>2. QED
      BY <1>o, <3>1 DEF BurnEffect
  <2>5. QED
    BY <1>4, <2>1, <2>2, <2>3, <2>4, EffectKeeps DEF Effect
<1>7. CASE /\ planner' = IF mine THEN WithReceipt(planner, "reverted", 0) ELSE planner
           /\ UNCHANGED <<bankVars, burner>>
  <2>1. LogsGrow /\ UNCHANGED bridges /\ BankInv'
    BY <1>7, Quiet
  <2>2. Around'
    BY <1>1, <2>1, LaterTyped DEF ReservePathInv, Around, Others
  <2>3. PlannerOK(planner') /\ PlannerEffect /\ Hears(x)
    <3>1. CASE mine
      <4>1. planner.pc = "wait" /\ planner' = WithReceipt(planner, "reverted", 0)
        BY <1>7, <3>1
      <4>2. 0 \in 0..MaxBridges
        BY BankAssumption
      <4>3. /\ PlannerOK(planner') /\ planner'.pc = "wait" /\ planner'.receipt = "reverted"
            /\ planner'.attempt = planner.attempt
        BY <1>2, <4>1, <4>2, PlannerHears DEF Receipts
      <4>4. QED
        BY <1>4, <1>7, <3>1, <4>3 DEF PlannerEffect, Working, Hears
    <3>2. CASE ~mine
      BY <1>4, <1>7, <3>2, Quiet DEF Hears
    <3>3. QED
      BY <3>1, <3>2
  <2>4. BurnEffect
    <3>1. Mined(x)
      BY <1>o, <1>1, <1>7, <2>3 DEF Mined
    <3>2. QED
      BY <1>o, <3>1 DEF BurnEffect
  <2>5. QED
    BY <1>4, <2>1, <2>2, <2>3, <2>4, EffectKeeps DEF Effect
<1>8. QED
  BY <1>1, <1>6, <1>7

(* bridgeIn() credits a logged message. *)
LEMMA CreditLogged ==
  ASSUME ReservePathInv, NEW m \in 1..Len(bridges), bridgeIn(bridges[m]), UNCHANGED burner
  PROVE  BankCall /\ LogsGrow /\ UNCHANGED bridges /\ Credited(m)'
<1>1. Tables /\ bridges \in Seq(Bridge) /\ BankInv
  BY LogTypes DEF ReservePathInv, Around
<1> DEFINE b == bridges[m]
<1>2. b \in Bridge /\ DOMAIN bridges = 1..Len(bridges) /\ Len(bridges) \in Nat
  BY <1>1
<1>3. BankCall
  BY <1>2 DEF BankCall, DeliveryStep
<1>4. /\ UNCHANGED bridges
      /\ processedReserveMessages' = [processedReserveMessages EXCEPT ![b.dst] = @ \cup {b}]
  BY DEF bridgeIn
<1>5. b.dst \in Chains /\ processedReserveMessages \in [Chains -> SUBSET Bridge]
  BY <1>1, <1>2, MessageFields, BankInvFacts DEF TypeOK, ReserveType
<1>6. /\ \A c \in Chains : processedReserveMessages[c] \subseteq processedReserveMessages'[c]
      /\ b \in processedReserveMessages'[b.dst]
  BY <1>4, <1>5
<1>7. LogsGrow
  BY <1>1, <1>2, <1>4, <1>6 DEF LogsGrow, Tables
<1>8. Credited(m)'
  BY <1>4, <1>6 DEF Credited
<1>9. QED
  BY <1>3, <1>4, <1>7, <1>8

(* A bridgeIn() transaction is included. *)
LEMMA IncludeInKeeps ==
  ASSUME ReservePathInv, NEW x \in sent, x \in InTx, includeIn(x)
  PROVE  ReservePathInv' /\ Effect
<1> DEFINE m == x.msg
           mine == relayer.pc = "wait" /\ x = currentIn
           Heard(v) == relayer' = IF mine THEN [relayer EXCEPT !.receipt = v] ELSE relayer
<1>1. /\ Others /\ sent' = sent \ {x} /\ UNCHANGED planner /\ UNCHANGED attested /\ UNCHANGED burner
      /\ UNCHANGED reserve_ops /\ Later
      /\ \/ bridgeIn(bridges[m]) /\ Heard("ok")
         \/ Heard("reverted") /\ UNCHANGED bankVars
  BY DEF includeIn, Later, Undisturbed
<1>2. Tables /\ Queued /\ Rows /\ Pending /\ RelayerOK(relayer) /\ Len(bridges) \in Nat
  BY LogTypes DEF ReservePathInv, Tables
<1>3. m \in 1..Len(bridges)
  <2>1. m \in 1..MaxBridges /\ m <= Len(bridges)
    BY <1>2 DEF InTx, Pending
  <2>2. QED
    BY <1>2, <2>1, BankAssumption
<1>o. BurnEffect
  <2>1. UNCHANGED Outs
    BY <1>1, OutIsNotIn DEF Outs
  <2>2. QED
    BY <1>1, <2>1, OthersCalm
<1>4. TableKept /\ TableEffect /\ SentEffect /\ PlannerOK(planner') /\ PlannerEffect /\ BurnEffect
  BY <1>o, <1>1, Quiet
<1>5. mine => m = reserve_ops[relayer.queue[1]].msg
  BY <1>2, CurrentIn
<1>6. ASSUME NEW v \in {"ok", "reverted"}, Heard(v), v = "ok" => Credited(m)'
      PROVE  RelayerOK(relayer') /\ RelayerEffect
  <2>1. CASE mine
    <3>1. relayer.pc = "wait" /\ relayer' = [relayer EXCEPT !.receipt = v]
      BY <1>6, <2>1
    <3>2. RelayerOK(relayer') /\ relayer'.receipt = v /\ relayer'.queue = relayer.queue
      BY <1>2, <3>1, RelayerHears DEF Receipts
    <3>3. ASSUME v = "ok" PROVE Credited(reserve_ops[relayer.queue[1]].msg)'
      <4>1. reserve_ops'[relayer'.queue[1]].msg = m
        BY <1>1, <1>5, <2>1, <3>2
      <4> HIDE DEF m
      <4>2. QED
        BY <1>6, <3>3, <4>1 DEF Credited
    <3>4. QED
      BY <3>2, <3>3 DEF RelayerEffect
  <2>2. CASE ~mine
    BY <1>6, <2>2, Quiet
  <2>3. QED
    BY <2>1, <2>2
<1>7. CASE bridgeIn(bridges[m]) /\ Heard("ok")
  <2>1. BankCall /\ LogsGrow /\ Credited(m)'
    BY <1>1, <1>3, <1>7, CreditLogged
  <2>2. Around'
    BY <1>1, <2>1, CallAround
  <2>3. RelayerOK(relayer') /\ RelayerEffect
    BY <1>6, <1>7, <2>1
  <2>4. QED
    BY <1>4, <2>1, <2>2, <2>3, EffectKeeps DEF Effect
<1>8. CASE Heard("reverted") /\ UNCHANGED bankVars
  <2>1. LogsGrow /\ UNCHANGED bridges /\ BankInv'
    BY <1>1, <1>8, Quiet
  <2>2. Around'
    BY <1>1, <2>1, LaterTyped DEF ReservePathInv, Around, Others
  <2>3. RelayerOK(relayer') /\ RelayerEffect
    BY <1>6, <1>8
  <2>4. QED
    BY <1>4, <2>1, <2>2, <2>3, EffectKeeps DEF Effect
<1>9. QED
  BY <1>1, <1>7, <1>8

(* A user takes USDC out of a reserve. *)
LEMMA WithdrawalKeeps ==
  ASSUME ReservePathInv, NEW c \in Chains, NEW u \in Users, NEW amount \in Amounts,
         userWithdraws(c, u, amount)
  PROVE  ReservePathInv' /\ Effect
<1>1. /\ Others /\ withdraw(c, u, amount) /\ Disturbed("user")
      /\ UNCHANGED <<planner, relayer, attested, sent, reserve_ops, burner>>
  BY DEF userWithdraws
<1>2. amount \in Nat
  BY BankAssumption
<1>3. BankCall
  BY <1>1, <1>2 DEF BankCall, UserCall
<1>4. UNCHANGED reserveVars
  BY <1>1 DEF withdraw
<1>5. Later
  BY <1>1, DisturbedLater
<1>6. LogsGrow
  <2>1. UNCHANGED <<bridges, processedReserveMessages, burner>>
    BY <1>1, <1>4 DEF reserveVars
  <2>2. QED
    BY <2>1, LogTypes DEF LogsGrow, ReservePathInv, Tables
<1>7. Around'
  BY <1>1, <1>3, <1>5, <1>6, CallAround
<1>8. UNCHANGED planner /\ UNCHANGED relayer /\ UNCHANGED reserve_ops /\ sent' \subseteq sent
  BY <1>1
<1>9. /\ TableKept /\ TableEffect /\ SentEffect /\ PlannerOK(planner') /\ PlannerEffect
      /\ RelayerOK(relayer') /\ RelayerEffect /\ BurnEffect
  BY <1>1, <1>5, <1>8, Quiet, OthersCalm DEF Outs
<1>10. QED
  BY <1>6, <1>7, <1>9, EffectKeeps DEF Effect

-----------------------------------------------------------------------------
(* The results. *)

(* Banks in use, and a Treasury that has just started. *)
LEMMA InitKept == ReservePathInit => ReservePathInv
<1> SUFFICES ASSUME ReservePathInit PROVE ReservePathInv
  OBVIOUS
<1>1. Operating /\ ServiceInit /\ bridges = <<>>
  BY DEF ReservePathInit, Operating
<1>2. Len(<<>>) = 0 /\ 1..0 = {} /\ <<>> \in Seq(Row) /\ <<>> \in Seq(1..MaxOps)
  OBVIOUS
<1>3. MaxOps \in Nat /\ MaxBridges \in Nat /\ MaxDisturbances \in Nat
  BY BankAssumption, ReservePathAssumption
<1>4. Around
  <2>1. BankInv
    BY <1>1, OperatingKept
  <2>2. watcherSeen \in [Chains -> SUBSET Bridge]
    BY <1>1 DEF ServiceInit
  <2>3. disturbances \in Seq(Disturbances) /\ Len(disturbances) <= MaxDisturbances
    BY <1>1, <1>3 DEF ServiceInit
  <2>4. servable \subseteq Chains /\ watching \subseteq Chains /\ attested \subseteq 1..Len(bridges)
    BY <1>1 DEF ServiceInit
  <2>5. QED
    BY <2>1, <2>2, <2>3, <2>4 DEF Around
<1>5. /\ planner = PlannerIdle /\ relayer = RelayerIdle /\ reserve_ops = <<>> /\ burner = <<>>
      /\ sent = {}
  BY <1>1 DEF ServiceInit
<1>6. Tables
  BY <1>1, <1>2, <1>3, <1>5, PlannerAtRest, RelayerAtRest DEF Tables
<1>7. Pending /\ Rows
  BY <1>2, <1>5 DEF Pending, Rows
<1>8. Held
  BY <1>5, PlannerAtRest DEF Held, Working
<1>9. Queued
  BY <1>2, <1>5, RelayerAtRest DEF Queued
<1>10. QED
  BY <1>4, <1>6, <1>7, <1>8, <1>9 DEF ReservePathInv

(* Every step keeps the invariant. *)
LEMMA NextKeeps == ReservePathInv /\ [ReservePathNext]_allVars => ReservePathInv' /\ Effect
<1> SUFFICES ASSUME ReservePathInv, [ReservePathNext]_allVars PROVE ReservePathInv' /\ Effect
  OBVIOUS
<1>1. CASE PlannerStep
  BY <1>1, StartKeeps, ReadKeeps, CheckKeeps, SubmitOutKeeps, AwaitOutKeeps, OutFailureKeeps
     DEF PlannerStep
<1>2. CASE RelayerLoop
  BY <1>2, RoundKeeps, AttestKeeps, SubmitInKeeps, AwaitInKeeps, InFailureKeeps DEF RelayerLoop
<1>3. CASE WatcherStep
  BY <1>3, ScanKeeps, ExpireKeeps DEF WatcherStep
<1>4. CASE include
  BY <1>4, IncludeOutKeeps, IncludeInKeeps DEF include
<1>5. CASE \E x \in sent : drop(x)
  BY <1>5, DropKeeps
<1>6. CASE \E b \in DOMAIN bridges : attestBurn(b)
  BY <1>6, BurnAttested
<1>7. CASE \E c \in Chains, u \in Users, amount \in Amounts : userWithdraws(c, u, amount)
  BY <1>7, WithdrawalKeeps
<1>8. CASE \E i \in DOMAIN reserve_ops : grow(i)
  BY <1>8, GrowKeeps
<1>9. CASE \E c \in Decommissionable : learnDecommission(c)
  BY <1>9, LearnKeeps
<1>10. CASE restart
  BY <1>10, RestartKeeps
<1>11. CASE UNCHANGED allVars
  <2>1. /\ UNCHANGED <<bankVars, burner>> /\ UNCHANGED <<planner, relayer>> /\ UNCHANGED reserve_ops
        /\ UNCHANGED <<servable, watcherSeen, watching, attested, sent, disturbances>>
    BY <1>11 DEF allVars, reservePathVars
  <2>2. Later /\ TableKept
    BY <2>1, Quiet DEF Later, Undisturbed
  <2>3. QED
    BY <2>1, <2>2, LoopsAlone DEF ReservePathInv, Around
<1>12. QED
  BY <1>1, <1>2, <1>3, <1>4, <1>5, <1>6, <1>7, <1>8, <1>9, <1>10, <1>11 DEF ReservePathNext

(* The invariant holds always. *)
LEMMA ReservePathInvariant == ReservePathSpec => []ReservePathInv
BY InitKept, NextKeeps, PTL DEF ReservePathSpec

(* The three loops of reserve_path.rs and the table between them are well-typed:
   the planner's plan moves positive amounts between chains, a relayer in a round
   has a row to work on, and every burn of the Banks has its row. *)
THEOREM ReservePathTypeCorrect == ReservePathSpec => []ReservePathTypeOK
<1>1. ReservePathInv => ReservePathTypeOK
  BY DEF ReservePathInv, Around, Tables, Pending, PlannerOK, RelayerOK, Op, ReservePathTypeOK
<1>2. QED
  BY <1>1, ReservePathInvariant, PTL

(* Success is never claimed for USDC that has not arrived: for every number of
   chains, operations and retries, and whatever restarts, lost answers, dropped
   transactions, late receipts and failed database writes come between the loops,
   a row carries the message of its own burn, and "relayed" or "completed" means
   that this message was credited. *)
THEOREM SuccessIsCredited == ReservePathSpec => []SuccessMeansCredited
<1>1. ReservePathInv => SuccessMeansCredited
  <2> SUFFICES ASSUME ReservePathInv, NEW i \in DOMAIN reserve_ops
               PROVE  LET r == reserve_ops[i] IN
                      /\ r.msg # 0 => /\ burner[r.msg] = i
                                      /\ bridges[r.msg].src = r.src /\ bridges[r.msg].dst = r.dst
                                      /\ bridges[r.msg].amount = r.amount
                      /\ r.status \in {"relayed", "completed"} => r.msg # 0 /\ Credited(r.msg)
    BY DEF SuccessMeansCredited
  <2>1. i \in 1..Len(reserve_ops)
    BY DEF ReservePathInv, Tables
  <2>2. RowGood(i)
    BY <2>1 DEF ReservePathInv, Rows
  <2>3. QED
    BY <2>2 DEF RowGood, Burned, SameMove, Settled
<1>2. QED
  BY <1>1, ReservePathInvariant, PTL

(* An update leaves the other rows alone, *)
LEMMA OtherRowsKept ==
  ASSUME Tables, NEW j, NEW r, update(j, r), NEW i \in DOMAIN reserve_ops, i # j
  PROVE  reserve_ops'[i] = reserve_ops[i]
BY DEF update, Tables

(* and an attestation leaves the status alone. *)
LEMMA AttestationKeepsStatus ==
  ASSUME Tables, NEW j \in DOMAIN reserve_ops, update_attestation(j), NEW i \in DOMAIN reserve_ops
  PROVE  reserve_ops'[i].status = reserve_ops[i].status
<1>1. reserve_ops[j] \in Row /\ reserve_ops \in Seq(Row)
  BY DEF Tables
<1>2. [reserve_ops[j] EXCEPT !.attestation = TRUE, !.stuck = FALSE].status = reserve_ops[j].status
  BY <1>1 DEF Row
<1>3. CASE i = j
  BY <1>1, <1>2, <1>3 DEF update_attestation, update, Row
<1>4. CASE i # j
  BY <1>4, OtherRowsKept DEF update_attestation
<1>5. QED
  BY <1>3, <1>4

(* The row that the planner holds is not completed: it has no message. *)
LEMMA HeldIsOpen ==
  ASSUME ReservePathInv, planner.pc \in Working \cup {"fail"}
  PROVE  row \in DOMAIN reserve_ops /\ reserve_ops[row].status # "completed"
<1>1. row \in 1..Len(reserve_ops) /\ reserve_ops[row].msg = 0
  BY DEF ReservePathInv, Held, Tables, row
<1>2. RowGood(row)
  BY <1>1 DEF ReservePathInv, Rows
<1>3. QED
  BY <1>1, <1>2 DEF RowGood, Settled, ReservePathInv, Tables

(* A step that reopens a completed row is one of the relayer that works on it. *)
LEMMA Reopened ==
  ASSUME ReservePathInv, ReservePathNext, NEW i \in DOMAIN reserve_ops,
         reserve_ops[i].status = "completed", reserve_ops'[i].status # "completed"
  PROVE  relayer.pc \in {"wait", "fail"} /\ i = relayed
<1>t. Tables /\ i \in 1..Len(reserve_ops) /\ reserve_ops \in Seq(Row)
  BY DEF ReservePathInv, Tables
<1>1. ~UNCHANGED reserve_ops
  OBVIOUS
<1>2. CASE PlannerStep
  <2>1. ~(checkOp /\ ~UNCHANGED reserve_ops)
    <3>1. ASSUME NEW status, insert_reserve_op(status)
          PROVE  FALSE
      BY <1>t, <3>1 DEF insert_reserve_op
    <3>2. QED
      BY <1>1, <3>1 DEF checkOp
  <2>2. ~submitOut
    BY <1>1 DEF submitOut, retryOut
  <2>3. ~awaitOut
    <3>1. SUFFICES ASSUME awaitOut PROVE FALSE
      OBVIOUS
    <3>2. planner.pc = "wait" /\ update_submitted(row, planner.msg)
      BY <1>1, <3>1 DEF awaitOut, retryOut, recordBurn, Planner
    <3>3. i # row
      BY <3>2, HeldIsOpen DEF Working
    <3>4. QED
      BY <1>t, <3>2, <3>3, OtherRowsKept DEF update_submitted
  <2>4. ~recordOutFailure
    <3>1. SUFFICES ASSUME recordOutFailure PROVE FALSE
      OBVIOUS
    <3>2. planner.pc = "fail" /\ update_status(row, "failed")
      BY <1>1, <3>1 DEF recordOutFailure, update_failed, Planner
    <3>3. i # row
      BY <3>2, HeldIsOpen
    <3>4. QED
      BY <1>t, <3>2, <3>3, OtherRowsKept DEF update_status
  <2>5. QED
    BY <1>1, <1>2, <2>1, <2>2, <2>3, <2>4 DEF PlannerStep, startCycle, readDepth
<1>3. CASE RelayerLoop
  <2>1. ~attest
    <3>1. SUFFICES ASSUME attest PROVE FALSE
      OBVIOUS
    <3>2. relayer.pc = "attest" /\ update_attestation(relayed)
      BY <1>1, <3>1 DEF attest, Relayer
    <3>3. relayed \in DOMAIN reserve_ops
      BY <1>t, <3>2 DEF ReservePathInv, Queued, Tables, RelayerOK, relayed
    <3>4. QED
      BY <1>t, <3>2, <3>3, AttestationKeepsStatus
  <2>2. ASSUME awaitIn \/ recordInFailure
        PROVE  relayer.pc \in {"wait", "fail"} /\ i = relayed
    <3>1. /\ relayer.pc \in {"wait", "fail"}
          /\ \E status \in {"relayed", "failed"} : update_status(relayed, status)
      BY <1>1, <2>2 DEF awaitIn, retryIn, recordInFailure, update_failed, Relayer
    <3>2. QED
      BY <1>t, <3>1, OtherRowsKept DEF update_status
  <2>3. QED
    BY <1>1, <1>3, <2>1, <2>2 DEF RelayerLoop, startRound, submitIn, retryIn
<1>4. CASE WatcherStep
  <2>1. ASSUME NEW c \in Chains, scanCompleted(c) PROVE FALSE
    <3>1. reserve_ops'[i] \in {Completed(reserve_ops[i]), reserve_ops[i]}
      BY <1>1, <2>1 DEF scanCompleted, Completed
    <3>2. reserve_ops[i] \in Row
      BY <1>t
    <3>3. Completed(reserve_ops[i]).status = "completed"
      BY <3>2 DEF Completed, Row
    <3>4. QED
      BY <3>1, <3>3
  <2>2. ASSUME NEW j \in DOMAIN reserve_ops, expire(j) PROVE FALSE
    <3>1. update_status(j, "failed") /\ reserve_ops[j].status \in Live
      BY <1>1, <2>2 DEF expire, update_failed, list_stuck
    <3>2. i # j
      BY <3>1 DEF Live
    <3>3. QED
      BY <1>t, <3>1, <3>2, OtherRowsKept DEF update_status
  <2>3. QED
    BY <1>4, <2>1, <2>2 DEF WatcherStep
<1>5. CASE \E j \in DOMAIN reserve_ops : grow(j)
  <2>1. PICK j \in DOMAIN reserve_ops : grow(j)
    BY <1>5
  <2>2. reserve_ops[j] \in Row
    BY <1>t, <2>1
  <2>3. PICK q : /\ q = Stuck(reserve_ops[j]) \/ q = Aged(reserve_ops[j])
                 /\ reserve_ops' = [reserve_ops EXCEPT ![j] = q]
    BY <2>1 DEF grow, Stuck, Aged
  <2>4. q.status = reserve_ops[j].status
    BY <2>2, <2>3, OlderRow
  <2>5. QED
    BY <1>t, <2>3, <2>4
<1>6. CASE include
  BY <1>1, <1>6 DEF include, includeOut, includeIn
<1>7. CASE \/ \E x \in sent : drop(x)
           \/ \E b \in DOMAIN bridges : attestBurn(b)
           \/ \E c \in Chains, u \in Users, amount \in Amounts : userWithdraws(c, u, amount)
           \/ \E c \in Decommissionable : learnDecommission(c)
           \/ restart
  BY <1>1, <1>7 DEF drop, attestBurn, userWithdraws, learnDecommission, restart
<1>8. QED
  BY <1>2, <1>3, <1>4, <1>5, <1>6, <1>7 DEF ReservePathNext

(* A completed row is reopened by nobody but the relayer that works on it: for
   every number of rows and retries, and whatever fails, is late or restarts, the
   planner and the stuck timeout of reserve_path.rs never write to one. *)
THEOREM CompletedAreKept == ReservePathSpec => OnlyRelayerReopens
<1> DEFINE Step == \A i \in DOMAIN reserve_ops :
                     reserve_ops[i].status = "completed" /\ reserve_ops'[i].status # "completed"
                         => relayer.pc \in {"wait", "fail"} /\ i = relayed
<1>1. ReservePathInv /\ [ReservePathNext]_allVars => [Step]_allVars
  BY Reopened
<1>2. QED
  BY <1>1, ReservePathInvariant, PTL DEF ReservePathSpec, OnlyRelayerReopens

(* The Banks stay backed under the reserve path: the USDC that the planner burns
   and the relayer has yet to credit is never lost from the books, and no message
   is credited twice, however often a loop repeats a transaction. *)
THEOREM ReservePathIsSafe ==
  ReservePathSpec => [](Backed /\ TransfersCovered /\ SupplyIsHeld /\ IdsAreUnique)
<1>1. ReservePathInv => Backed /\ TransfersCovered /\ SupplyIsHeld /\ IdsAreUnique
  BY BankInvFacts DEF ReservePathInv, Around
<1>2. QED
  BY <1>1, ReservePathInvariant, PTL
-----------------------------------------------------------------------------
(* How often the USDC of a row was burned: the burns of the row, and the
   transactions for it that are still in a mempool. *)
Stamped(i, log) == {b \in 1..Len(log) : log[b] = i}
Waiting(i, txs) == {x \in txs : x.op = i}
Tries(i, txs, log) == Cardinality(Stamped(i, log)) + Cardinality(Waiting(i, txs))

(* What the service may have missed. *)
Misses(log) == {d \in DOMAIN log : log[d] \in {"rpc", "timeout"}}

(* One more burn in the log. *)
LEMMA StampedAppend ==
  ASSUME NEW log \in Seq(1..MaxOps), NEW i, NEW w, NEW more, more = Append(log, w)
  PROVE  /\ IsFiniteSet(Stamped(i, log)) /\ Cardinality(Stamped(i, log)) \in Nat
         /\ w # i => Cardinality(Stamped(i, more)) = Cardinality(Stamped(i, log))
         /\ w = i => Cardinality(Stamped(i, more)) = Cardinality(Stamped(i, log)) + 1
<1>1. /\ Len(log) \in Nat /\ Len(more) = Len(log) + 1 /\ more[Len(log) + 1] = w
      /\ \A b \in 1..Len(log) : more[b] = log[b]
  <2> DEFINE T == 1..MaxOps
  <2>1. log \in Seq(T)
    OBVIOUS
  <2> HIDE DEF T
  <2>2. QED
    BY <2>1
<1> DEFINE n == Len(log)
           S == Stamped(i, log)
<1>2. IsFiniteSet(1..n)
  <2>1. 1 \in Int /\ n \in Int
    BY <1>1
  <2> HIDE DEF n
  <2>2. QED
    BY <2>1, FS_Interval
<1>3. IsFiniteSet(S) /\ n + 1 \notin S
  <2>1. S \subseteq 1..n /\ n + 1 \notin 1..n
    BY <1>1 DEF Stamped
  <2> HIDE DEF S, n
  <2>2. QED
    BY <1>2, <2>1, FS_Subset
<1>4. Cardinality(S) \in Nat
  BY <1>3, FS_CardinalityType
<1>s. 1..Len(more) = 1..n \cup {n + 1} /\ \A b \in 1..n : b # n + 1
  BY <1>1
<1>5. CASE w # i
  <2>1. Stamped(i, more) = S
    <3>1. more[n + 1] # i
      BY <1>1, <1>5
    <3> HIDE DEF n
    <3>2. QED
      BY <1>1, <1>s, <3>1 DEF Stamped, n
  <2>2. QED
    BY <1>3, <1>4, <1>5, <2>1
<1>6. CASE w = i
  <2>1. Stamped(i, more) = S \cup {n + 1}
    <3>1. more[n + 1] = i
      BY <1>1, <1>6
    <3> HIDE DEF n
    <3>2. QED
      BY <1>1, <1>s, <3>1 DEF Stamped, n
  <2> HIDE DEF S, n
  <2>2. Cardinality(S \cup {n + 1}) = Cardinality(S) + 1
    BY <1>3, FS_AddElement
  <2>3. QED
    BY <1>3, <1>4, <1>6, <2>1, <2>2 DEF S
<1>7. QED
  BY <1>5, <1>6

(* A transaction enters a mempool. *)
LEMMA WaitingAdd ==
  ASSUME NEW txs, IsFiniteSet(txs), NEW i, NEW x
  PROVE  /\ IsFiniteSet(Waiting(i, txs)) /\ Cardinality(Waiting(i, txs)) \in Nat
         /\ Cardinality(Waiting(i, txs \cup {x})) \in Nat
         /\ Cardinality(Waiting(i, txs \cup {x})) <= Cardinality(Waiting(i, txs)) + 1
         /\ x.op # i => Cardinality(Waiting(i, txs \cup {x})) = Cardinality(Waiting(i, txs))
<1> DEFINE S == Waiting(i, txs)
           T == Waiting(i, txs \cup {x})
<1>1. IsFiniteSet(S)
  BY FS_Subset DEF Waiting
<1>2. Cardinality(S) \in Nat
  BY <1>1, FS_CardinalityType
<1>3. CASE x.op = i
  <2>1. T = S \cup {x}
    BY <1>3 DEF Waiting
  <2> HIDE DEF S, T
  <2>2. Cardinality(S \cup {x}) = IF x \in S THEN Cardinality(S) ELSE Cardinality(S) + 1
    BY <1>1, FS_AddElement
  <2>3. Cardinality(T) \in Nat /\ Cardinality(T) <= Cardinality(S) + 1
    BY <1>2, <2>1, <2>2
  <2>4. QED
    BY <1>1, <1>2, <1>3, <2>3 DEF S, T
<1>4. CASE x.op # i
  <2>1. T = S
    BY <1>4 DEF Waiting
  <2>2. QED
    BY <1>1, <1>2, <1>4, <2>1
<1>5. QED
  BY <1>3, <1>4

(* A transaction that leaves a mempool leaves one wait less. *)
LEMMA WaitingRemove ==
  ASSUME NEW txs, IsFiniteSet(txs), NEW i, NEW x \in txs
  PROVE  /\ Cardinality(Waiting(i, txs)) \in Nat
         /\ Cardinality(Waiting(i, txs \ {x})) \in Nat
         /\ x.op = i => Cardinality(Waiting(i, txs)) = Cardinality(Waiting(i, txs \ {x})) + 1
         /\ x.op # i => Cardinality(Waiting(i, txs \ {x})) = Cardinality(Waiting(i, txs))
<1> DEFINE S == Waiting(i, txs)
           T == Waiting(i, txs \ {x})
<1>1. IsFiniteSet(S)
  BY FS_Subset DEF Waiting
<1>2. Cardinality(S) \in Nat
  BY <1>1, FS_CardinalityType
<1>3. CASE x.op = i
  <2>1. T = S \ {x} /\ x \in S
    BY <1>3 DEF Waiting
  <2> HIDE DEF S, T
  <2>2. Cardinality(S \ {x}) = Cardinality(S) - 1 /\ IsFiniteSet(S \ {x})
    BY <1>1, <2>1, FS_RemoveElement
  <2>3. Cardinality(T) \in Nat
    BY <2>1, <2>2, FS_CardinalityType
  <2>4. Cardinality(S) = Cardinality(T) + 1
    BY <1>2, <2>1, <2>2
  <2>5. QED
    BY <1>2, <1>3, <2>3, <2>4 DEF S, T
<1>4. CASE x.op # i
  <2>1. T = S
    BY <1>4 DEF Waiting
  <2>2. QED
    BY <1>1, <1>2, <1>4, <2>1
<1>5. QED
  BY <1>3, <1>4

(* What the service may have missed grows with every "rpc" and "timeout". *)
LEMMA MissesGrow ==
  ASSUME disturbances \in Seq(Disturbances), Later
  PROVE  /\ Cardinality(Misses(disturbances)) \in Nat /\ Cardinality(Misses(disturbances')) \in Nat
         /\ Cardinality(Misses(disturbances)) <= Cardinality(Misses(disturbances'))
         /\ Disturbed("rpc") \/ Disturbed("timeout")
              => Cardinality(Misses(disturbances')) = Cardinality(Misses(disturbances)) + 1
<1> DEFINE n == Len(disturbances)
           S == Misses(disturbances)
           T == Misses(disturbances')
<1>1. n \in Nat /\ DOMAIN disturbances = 1..n
  OBVIOUS
<1>2. IsFiniteSet(1..n)
  <2>1. 1 \in Int /\ n \in Int
    BY <1>1
  <2> HIDE DEF n
  <2>2. QED
    BY <2>1, FS_Interval
<1>3. IsFiniteSet(S) /\ n + 1 \notin S
  BY <1>1, <1>2, FS_Subset DEF Misses
<1>4. Cardinality(S) \in Nat
  BY <1>3, FS_CardinalityType
<1>5. ASSUME NEW kind, Disturbed(kind)
      PROVE  T = IF kind \in {"rpc", "timeout"} THEN S \cup {n + 1} ELSE S
  <2>1. disturbances' = Append(disturbances, kind)
    BY <1>5 DEF Disturbed
  <2>2. /\ DOMAIN disturbances' = 1..(n + 1) /\ disturbances'[n + 1] = kind
        /\ \A d \in 1..n : disturbances'[d] = disturbances[d]
    BY <2>1
  <2>3. 1..(n + 1) = 1..n \cup {n + 1} /\ \A d \in 1..n : d # n + 1
    BY <1>1
  <2> HIDE DEF n
  <2>4. QED
    BY <1>1, <2>2, <2>3 DEF Misses
<1>6. Undisturbed => T = S
  BY DEF Undisturbed
<1> HIDE DEF S, T, n
<1>7. Cardinality(S \cup {n + 1}) = Cardinality(S) + 1
  BY <1>3, FS_AddElement
<1>8. Disturbed("rpc") \/ Disturbed("timeout") => T = S \cup {n + 1}
  BY <1>5
<1>9. T = S \/ T = S \cup {n + 1}
  BY <1>5, <1>6 DEF Later
<1> DEFINE U == S \cup {n + 1}
<1>a. /\ Cardinality(U) = Cardinality(S) + 1 /\ (T = S \/ T = U)
      /\ Disturbed("rpc") \/ Disturbed("timeout") => T = U
  BY <1>7, <1>8, <1>9
<1> HIDE DEF U
<1>10. /\ Cardinality(T) \in Nat /\ Cardinality(S) <= Cardinality(T)
       /\ Disturbed("rpc") \/ Disturbed("timeout") => Cardinality(T) = Cardinality(S) + 1
  BY <1>4, <1>a
<1>11. QED
  BY <1>4, <1>10 DEF S, T
(* How often the USDC of row i may have been burned or be about to (t), given the
   answers missed so far (m), the last row (r), the planner (y), and whether the
   receipt of its transaction, a success or still to come, allows for one try
   more (e). *)
Within(i, t, m, r, y, e) ==
    /\ t <= MAX_RETRIES /\ t <= m + 1
    /\ i > r => t = 0
    /\ i = r /\ y.pc = "submit" => t <= y.attempt - 1 /\ t <= m
    /\ i = r /\ y.pc = "wait" => t <= y.attempt /\ t <= m + e

(* Whether the attempt at hand may have or get its burn. *)
Hope == IF planner.receipt = "ok" \/ (planner.receipt = "none" /\ currentOut \in Outs) THEN 1 ELSE 0

(* The bound for every row. *)
Counted ==
    \A i \in Nat \ {0} :
        Within(i, Tries(i, Outs, burner), Cardinality(Misses(disturbances)), row, planner, Hope)

(* A burn is of the move of its row. *)
Traced ==
    \A b \in 1..Len(burner) :
        burner[b] \in 1..Len(reserve_ops) /\ SameMove(bridges[b], reserve_ops[burner[b]])

(* A database that answers has every row. *)
Filed == DatabaseAnswers => \A i \in 1..Len(reserve_ops) : reserve_ops[i].status # "none"

(* The invariant of the burns. *)
BurnInv == IsFiniteSet(Outs) /\ Counted /\ Traced /\ Filed

(* The numbers of Within. *)
LEMMA WithinTypes ==
  ASSUME ReservePathInv
  PROVE  /\ row \in Nat /\ planner.attempt \in Nat /\ planner.attempt <= MAX_RETRIES
         /\ planner.attempt >= 1 /\ MAX_RETRIES \in Nat /\ Hope \in {0, 1}
<1>1. reserve_ops \in Seq(Row) /\ planner.attempt \in 1..MAX_RETRIES /\ MAX_RETRIES \in Nat
  BY ReservePathAssumption DEF ReservePathInv, Tables, PlannerOK
<1>2. QED
  BY <1>1 DEF row, Hope

(* Sending a transaction adds at most one try, of its row. *)
LEMMA TriesMore ==
  ASSUME ReservePathInv, IsFiniteSet(Outs), NEW i
  PROVE  /\ Tries(i, Outs, burner) \in Nat
         /\ Tries(i, Outs \cup {currentOut}, burner) \in Nat
         /\ Tries(i, Outs \cup {currentOut}, burner) <= Tries(i, Outs, burner) + 1
         /\ i # row => Tries(i, Outs \cup {currentOut}, burner) = Tries(i, Outs, burner)
<1> DEFINE A == Cardinality(Stamped(i, burner))
           B == Cardinality(Waiting(i, Outs))
           C == Cardinality(Waiting(i, Outs \cup {currentOut}))
<1>1. burner \in Seq(1..MaxOps)
  BY DEF ReservePathInv, Tables
<1>2. A \in Nat
  BY <1>1, StampedAppend
<1>3. currentOut.op = row
  BY DEF currentOut
<1>4. B \in Nat /\ C \in Nat /\ C <= B + 1 /\ (currentOut.op # i => C = B)
  BY WaitingAdd
<1>5. /\ Tries(i, Outs, burner) = A + B
      /\ Tries(i, Outs \cup {currentOut}, burner) = A + C
  BY DEF Tries
<1> HIDE DEF A, B, C
<1>6. QED
  BY <1>2, <1>3, <1>4, <1>5

(* Including or losing a transaction adds no try, and reverting or losing one
   takes it away. *)
LEMMA TriesLess ==
  ASSUME ReservePathInv, IsFiniteSet(Outs), NEW i, NEW x \in Outs, NEW more,
         more = burner \/ more = Append(burner, x.op)
  PROVE  /\ Tries(i, Outs \ {x}, more) \in Nat
         /\ Tries(i, Outs \ {x}, more) <= Tries(i, Outs, burner)
         /\ more = burner /\ i = x.op => Tries(i, Outs \ {x}, more) + 1 <= Tries(i, Outs, burner)
<1> DEFINE A == Cardinality(Stamped(i, burner))
           D == Cardinality(Stamped(i, more))
           B == Cardinality(Waiting(i, Outs))
           C == Cardinality(Waiting(i, Outs \ {x}))
           w == x.op
<1>1. burner \in Seq(1..MaxOps)
  BY DEF ReservePathInv, Tables
<1>2. A \in Nat
  BY <1>1, StampedAppend
<1> HIDE DEF w
<1>3. \/ more = burner /\ D = A
      \/ more = Append(burner, w) /\ D = IF w = i THEN A + 1 ELSE A
  <2>1. CASE more = burner
    BY <2>1
  <2>2. CASE more = Append(burner, w)
    BY <1>1, <2>2, StampedAppend, ZenonT(40)
  <2>3. QED
    BY <2>1, <2>2 DEF w
<1>4. /\ B \in Nat /\ C \in Nat
      /\ w = i => B = C + 1
      /\ w # i => C = B
  BY WaitingRemove DEF w
<1>5. /\ Tries(i, Outs, burner) = A + B
      /\ Tries(i, Outs \ {x}, more) = D + C
  BY DEF Tries
<1>6. more = burner => D = A
  OBVIOUS
<1> HIDE DEF A, B, C, D
<1>7. QED
  BY <1>2, <1>3, <1>4, <1>5, <1>6 DEF w

(* The mempools stay finite. *)
LEMMA FiniteKeeps ==
  ASSUME IsFiniteSet(Outs), BurnEffect
  PROVE  IsFiniteSet(Outs')
<1>1. CASE Outs' = Outs
  BY <1>1
<1>2. CASE Outs' = Outs \cup {currentOut}
  BY <1>2, FS_AddElement
<1>3. ASSUME NEW x, Outs' = Outs \ {x} PROVE IsFiniteSet(Outs')
  BY <1>3, FS_Subset
<1>4. QED
  BY <1>1, <1>2, <1>3 DEF BurnEffect, Calm, Taken, Sending, Unanswered, Missed, Mined, Lost

(* A step that adds no burn or one of its row keeps burns and rows together. *)
LEMMA TracedKeeps ==
  ASSUME ReservePathInv, Effect, Traced
  PROVE  Traced'
<1>1. LogsGrow /\ BurnEffect /\ RowsGrow
  BY TableGrows DEF Effect, ReservePathInv
<1>2. burner \in Seq(1..MaxOps) /\ burner' \in Seq(1..MaxOps) /\ Len(burner) = Len(bridges)
      /\ Len(burner') = Len(bridges') /\ reserve_ops \in Seq(Row) /\ reserve_ops' \in Seq(Row)
  BY <1>1 DEF ReservePathInv, Tables, LogsGrow, RowsGrow
<1>3. /\ Len(burner) \in Nat /\ Len(burner') \in Nat
      /\ Len(reserve_ops) \in Nat /\ Len(reserve_ops') \in Nat /\ Len(reserve_ops) <= Len(reserve_ops')
  BY <1>1, <1>2 DEF RowsGrow
<1>4. ASSUME NEW b \in 1..Len(burner)
      PROVE  burner'[b] \in 1..Len(reserve_ops') /\ SameMove(bridges'[b], reserve_ops'[burner'[b]])
  <2>1. bridges'[b] = bridges[b] /\ burner'[b] = burner[b]
    BY <1>1, <1>2, <1>4 DEF LogsGrow
  <2> DEFINE i == burner[b]
  <2>2. i \in 1..Len(reserve_ops) /\ SameMove(bridges[b], reserve_ops[i])
    BY <1>4 DEF Traced
  <2> HIDE DEF i
  <2>3. i \in 1..Len(reserve_ops') /\ SameMove(bridges[b], reserve_ops'[i])
    BY <1>1, <1>3, <2>2 DEF RowsGrow, SameMove
  <2>4. QED
    BY <2>1, <2>3 DEF i
<1>5. CASE UNCHANGED burner
  BY <1>4, <1>5 DEF Traced
<1>6. ASSUME NEW x \in Outs, burner' = Append(burner, x.op), x.op \in 1..Len(reserve_ops),
             SameMove(bridges'[Len(bridges')], reserve_ops[x.op])
      PROVE  Traced'
  <2> DEFINE i == x.op
             n == Len(burner')
  <2>1. n = Len(burner) + 1 /\ burner'[n] = i
    <3> DEFINE T == 1..MaxOps
    <3>1. burner \in Seq(T) /\ burner' = Append(burner, i)
      BY <1>2, <1>6
    <3> HIDE DEF T, i
    <3>2. QED
      BY <3>1
  <2>2. i \in 1..Len(reserve_ops) /\ SameMove(bridges'[n], reserve_ops[i])
    BY <1>2, <1>6
  <2> HIDE DEF i
  <2>3. i \in 1..Len(reserve_ops') /\ SameMove(bridges'[n], reserve_ops'[i])
    BY <1>1, <1>3, <2>2 DEF RowsGrow, SameMove
  <2>4. \A b \in 1..n : b \in 1..Len(burner) \/ b = n
    BY <1>3, <2>1
  <2>5. QED
    BY <1>4, <2>1, <2>3, <2>4 DEF Traced
<1>7. QED
  BY <1>1, <1>5, <1>6
     DEF BurnEffect, Calm, Taken, Sending, Unanswered, Missed, Mined, Lost, NoBurn

(* The history of disturbances only grows. *)
LEMMA AnswersBefore ==
  ASSUME disturbances \in Seq(Disturbances), Later, DatabaseAnswers'
  PROVE  DatabaseAnswers /\ ~Disturbed("db")
<1>1. ASSUME NEW kind, Disturbed(kind) PROVE DatabaseAnswers /\ kind # "db"
  <2> DEFINE n == Len(disturbances)
  <2>1. disturbances' = Append(disturbances, kind) /\ n \in Nat /\ DOMAIN disturbances = 1..n
    BY <1>1 DEF Disturbed
  <2>2. /\ DOMAIN disturbances' = 1..(n + 1) /\ disturbances'[n + 1] = kind
        /\ \A d \in 1..n : disturbances'[d] = disturbances[d]
    BY <2>1
  <2>3. n + 1 \in 1..(n + 1) /\ \A d \in 1..n : d \in 1..(n + 1)
    BY <2>1
  <2> HIDE DEF n
  <2>4. \A d \in 1..(n + 1) : disturbances'[d] # "db"
    BY <2>2 DEF DatabaseAnswers
  <2>5. QED
    BY <2>1, <2>2, <2>3, <2>4 DEF DatabaseAnswers
<1>2. Undisturbed => DatabaseAnswers
  BY DEF Undisturbed, DatabaseAnswers
<1>3. QED
  BY <1>1, <1>2 DEF Later

(* Every step counts its disturbances. *)
LEMMA EffectLater == BurnEffect => Later
BY DisturbedLater DEF BurnEffect, Calm, Taken, Sending, Unanswered, Missed, Mined, Lost, NoBurn, Later,
   Undisturbed

(* No row is lost while the database answers. *)
LEMMA FiledKeeps ==
  ASSUME ReservePathInv, Effect, Filed
  PROVE  Filed'
<1> SUFFICES ASSUME DatabaseAnswers'
             PROVE  \A i \in 1..Len(reserve_ops') : reserve_ops'[i].status # "none"
  BY DEF Filed
<1>1. Later /\ TableEffect
  BY EffectLater DEF Effect
<1>2. DatabaseAnswers /\ ~Disturbed("db")
  BY <1>1, AnswersBefore DEF ReservePathInv, Around
<1>3. (\A i \in 1..Len(reserve_ops) : reserve_ops[i].status # "none") /\ Tables
  BY <1>2 DEF Filed, ReservePathInv
<1>4. CASE TableKept
  BY <1>3, <1>4 DEF TableKept, RowKept
<1>5. CASE TableInserted
  <2>1. /\ Len(reserve_ops') = Len(reserve_ops) + 1 /\ Len(reserve_ops) \in Nat
        /\ reserve_ops'[Len(reserve_ops')].status # "none"
        /\ \A i \in 1..Len(reserve_ops) : reserve_ops'[i] = reserve_ops[i]
    BY <1>2, <1>3, <1>5, InsertedRow
  <2>2. \A i \in 1..Len(reserve_ops') : i \in 1..Len(reserve_ops) \/ i = Len(reserve_ops')
    BY <2>1
  <2>3. QED
    BY <1>3, <2>1, <2>2
<1>6. CASE TableSubmitted
  BY <1>3, <1>6 DEF TableSubmitted
<1>7. QED
  BY <1>1, <1>4, <1>5, <1>6 DEF TableEffect
(* Every step keeps the count: a try is added only when a transaction is sent,
   and a retry costs an answer or a receipt that was missed. *)
LEMMA CountedKeeps ==
  ASSUME ReservePathInv, Effect, ReservePathInv', IsFiniteSet(Outs), Counted
  PROVE  Counted'
<1> SUFFICES ASSUME NEW i \in Nat \ {0}
             PROVE  Within(i, Tries(i, Outs', burner'), Cardinality(Misses(disturbances')),
                           row', planner', Hope')
  BY DEF Counted
<1> DEFINE t == Tries(i, Outs, burner)
           t2 == Tries(i, Outs', burner')
           m == Cardinality(Misses(disturbances))
           m2 == Cardinality(Misses(disturbances'))
           h == Hope'
           Goal == Within(i, t2, m2, row', planner', h)
<1>1. Within(i, t, m, row, planner, Hope)
  BY DEF Counted
<1>2. /\ row \in Nat /\ planner.attempt \in Nat /\ planner.attempt <= MAX_RETRIES
      /\ planner.attempt >= 1 /\ MAX_RETRIES \in Nat /\ Hope \in {0, 1}
  BY WithinTypes
<1>3. /\ row' \in Nat /\ planner'.attempt \in Nat /\ planner'.attempt >= 1 /\ h \in {0, 1}
  <2>1. (planner.attempt \in 1..MAX_RETRIES /\ reserve_ops \in Seq(Row))'
    BY DEF ReservePathInv, Tables, PlannerOK
  <2>2. (row \in Nat /\ Hope \in {0, 1})'
    BY <2>1 DEF row, Hope
  <2>3. QED
    BY <1>2, <2>1, <2>2
<1>4. /\ m \in Nat /\ m2 \in Nat /\ m <= m2
      /\ Disturbed("rpc") \/ Disturbed("timeout") => m2 = m + 1
  BY EffectLater, MissesGrow DEF Effect, ReservePathInv, Around
<1>5. t \in Nat
  BY TriesMore
<1>6. ASSUME UNCHANGED Outs, UNCHANGED burner PROVE t2 = t
  BY <1>6
<1>7. ASSUME Outs' \in {Outs, Outs \cup {currentOut}}, UNCHANGED burner
      PROVE  t2 \in Nat /\ t2 <= t + 1 /\ (i # row => t2 = t)
  <2>1. Outs' = Outs => t2 = t
    BY <1>7
  <2>2. CASE Outs' = Outs \cup {currentOut}
    <3>1. t2 = Tries(i, Outs \cup {currentOut}, burner)
      BY <1>7, <2>2
    <3>2. QED
      BY <3>1, TriesMore
  <2>3. QED
    BY <1>5, <1>7, <2>1, <2>2
<1>8. Len(reserve_ops') = Len(reserve_ops) <=> row' = row
  BY DEF row
<1>9. ASSUME UNCHANGED planner, UNCHANGED Outs, row' = row PROVE h = Hope
  BY <1>9 DEF Hope, currentOut
<1> HIDE DEF t, t2, m, m2, h
<1>h. h \in Nat
  BY <1>3
<1>10. ASSUME Calm PROVE Goal
  <2>1. t2 = t /\ row' = row /\ ((planner' = planner /\ h = Hope) \/ planner'.pc \notin Working)
    BY <1>6, <1>8, <1>9, <1>10 DEF Calm, NoBurn
  <2>2. QED
    BY <1>1, <1>2, <1>4, <1>5, <2>1 DEF Within, Working
<1>11. ASSUME Taken PROVE Goal
  <2>1. t2 = t /\ row' = row + 1 /\ planner'.pc = "submit"
    BY <1>6, <1>11 DEF Taken, row
  <2>2. i >= row + 1 => t = 0
    BY <1>1, <1>2 DEF Within
  <2>3. QED
    BY <1>1, <1>2, <1>3, <1>4, <1>5, <2>1, <2>2 DEF Within
<1>12. ASSUME Sending PROVE Goal
  <2>1. /\ row' = row /\ planner.pc = "submit" /\ planner'.pc = "wait"
        /\ planner'.attempt = planner.attempt
        /\ t2 \in Nat /\ t2 <= t + 1 /\ (i # row => t2 = t)
    BY <1>7, <1>8, <1>12 DEF Sending, NoBurn
  <2>2. currentOut' = currentOut
    BY <2>1 DEF currentOut
  <2>3. h = 1
    BY <1>12, <2>2 DEF Hope, Sending, h
  <2>4. QED
    BY <1>1, <1>2, <1>4, <1>5, <2>1, <2>3 DEF Within
<1>13. ASSUME Unanswered PROVE Goal
  <2>1. /\ row' = row /\ planner.pc = "submit" /\ AgainOrNot /\ m2 = m + 1
        /\ t2 \in Nat /\ t2 <= t + 1 /\ (i # row => t2 = t)
    BY <1>4, <1>7, <1>8, <1>13 DEF Unanswered, NoBurn
  <2>2. QED
    BY <1>1, <1>2, <1>4, <1>5, <2>1 DEF Within, AgainOrNot, Working
<1>14. ASSUME Missed PROVE Goal
  <2>1. row' = row /\ planner.pc = "wait" /\ AgainOrNot /\ t2 = t /\ (Hope = 0 \/ m2 = m + 1)
    BY <1>4, <1>6, <1>8, <1>14 DEF Missed, NoBurn, Hope
  <2>2. QED
    BY <1>1, <1>2, <1>4, <1>5, <2>1 DEF Within, AgainOrNot, Working
<1>15. ASSUME NEW x \in Outs, Mined(x) PROVE Goal
  <2>1. Outs' = Outs \ {x} /\ row' = row /\ UNCHANGED disturbances /\ Hears(x)
    BY <1>8, <1>15 DEF Mined
  <2>2. /\ t2 \in Nat /\ t2 <= t
        /\ UNCHANGED burner /\ i = x.op => t2 + 1 <= t
    <3>1. burner' = burner \/ burner' = Append(burner, x.op)
      BY <1>15 DEF Mined
    <3>2. QED
      BY <2>1, <3>1, TriesLess DEF t, t2
  <2>3. m2 = m
    BY <2>1 DEF m, m2
  <2>4. CASE ~(planner.pc = "wait" /\ x = currentOut)
    <3>1. UNCHANGED planner
      BY <2>1, <2>4 DEF Hears
    <3>2. currentOut' = currentOut
      BY <2>1, <3>1 DEF currentOut
    <3>3. planner.pc = "wait" => h = Hope
      BY <2>1, <2>4, <3>1, <3>2 DEF Hope, h
    <3>4. QED
      BY <1>1, <1>2, <1>4, <1>5, <2>1, <2>2, <2>3, <3>1, <3>3 DEF Within
  <2>5. CASE planner.pc = "wait" /\ x = currentOut
    <3>1. /\ planner'.pc = "wait" /\ planner'.attempt = planner.attempt
          /\ planner'.receipt = "ok" \/ UNCHANGED burner
      BY <2>1, <2>5 DEF Hears
    <3>2. x.op = row
      BY <2>5 DEF currentOut
    <3>3. planner'.receipt = "ok" => h = 1
      BY DEF Hope, h
    <3>4. i = row => t2 <= m2 + h
      <4>1. t <= m + 1
        BY <1>1 DEF Within
      <4>2. CASE planner'.receipt = "ok"
        BY <1>4, <1>5, <2>2, <2>3, <3>3, <4>1, <4>2
      <4>3. CASE UNCHANGED burner
        BY <1>3, <1>h, <1>4, <1>5, <2>2, <2>3, <3>2, <4>1, <4>3
      <4>4. QED
        BY <3>1, <4>2, <4>3
    <3>5. QED
      BY <1>1, <1>2, <1>4, <1>5, <2>1, <2>2, <2>3, <2>5, <3>1, <3>4 DEF Within
  <2>6. QED
    BY <2>4, <2>5
<1>16. ASSUME NEW x \in Outs, Lost(x) PROVE Goal
  <2>1. Outs' = Outs \ {x} /\ row' = row /\ UNCHANGED burner /\ UNCHANGED planner /\ m2 = m + 1
    BY <1>4, <1>8, <1>16 DEF Lost, NoBurn
  <2>2. t2 \in Nat /\ t2 <= t
    BY <2>1, TriesLess DEF t, t2
  <2>3. t2 <= m2 + h
    BY <1>1, <1>3, <1>h, <1>4, <1>5, <2>1, <2>2 DEF Within
  <2>4. QED
    BY <1>1, <1>2, <1>4, <1>5, <2>1, <2>2, <2>3 DEF Within
<1>17. Goal
  BY <1>10, <1>11, <1>12, <1>13, <1>14, <1>15, <1>16 DEF Effect, BurnEffect
<1>18. QED
  BY <1>17 DEF t2, m2, h

(* A Treasury that has just started has burned nothing. *)
LEMMA InitBurns == ReservePathInit => BurnInv
<1> SUFFICES ASSUME ReservePathInit PROVE BurnInv
  OBVIOUS
<1>1. /\ planner = PlannerIdle /\ sent = {} /\ reserve_ops = <<>> /\ burner = <<>> /\ disturbances = <<>>
  BY DEF ReservePathInit, ServiceInit
<1>2. planner.pc \notin Working
  BY <1>1, PlannerAtRest DEF Working
<1>3. Len(<<>>) = 0 /\ 1..0 = {} /\ DOMAIN <<>> = {}
  OBVIOUS
<1>4. Outs = {} /\ IsFiniteSet(Outs) /\ Traced /\ Filed
  BY <1>1, <1>3, FS_EmptySet DEF Outs, Traced, Filed
<1>5. ASSUME NEW i \in Nat \ {0}
      PROVE  Within(i, Tries(i, Outs, burner), Cardinality(Misses(disturbances)), row, planner, Hope)
  <2>1. Stamped(i, burner) = {} /\ Waiting(i, Outs) = {} /\ Misses(disturbances) = {}
    BY <1>1, <1>3, <1>4 DEF Stamped, Waiting, Misses
  <2>2. Cardinality({}) = 0
    BY FS_EmptySet
  <2>3. Tries(i, Outs, burner) = 0 /\ Cardinality(Misses(disturbances)) = 0
    BY <2>1, <2>2 DEF Tries
  <2>4. MAX_RETRIES \in Nat
    BY ReservePathAssumption
  <2>5. QED
    BY <1>2, <2>3, <2>4 DEF Within, Working
<1>6. QED
  BY <1>4, <1>5 DEF BurnInv, Counted

(* The burns stay accounted for. *)
LEMMA BurnInvariant == ReservePathSpec => [](ReservePathInv /\ BurnInv)
<1>1. ReservePathInv /\ BurnInv /\ [ReservePathNext]_allVars => (ReservePathInv /\ BurnInv)'
  <2> SUFFICES ASSUME ReservePathInv, BurnInv, [ReservePathNext]_allVars
               PROVE  (ReservePathInv /\ BurnInv)'
    OBVIOUS
  <2>1. ReservePathInv' /\ Effect
    BY NextKeeps
  <2>2. IsFiniteSet(Outs) /\ Counted /\ Traced /\ Filed /\ BurnEffect
    BY <2>1 DEF BurnInv, Effect
  <2>3. IsFiniteSet(Outs') /\ Counted' /\ Traced' /\ Filed'
    BY <2>1, <2>2, FiniteKeeps, CountedKeeps, TracedKeeps, FiledKeeps
  <2>4. QED
    BY <2>1, <2>3 DEF BurnInv
<1>2. QED
  BY <1>1, InitKept, InitBurns, PTL DEF ReservePathSpec

(* They are of the moves of their rows, within the bound. *)
LEMMA BurnsCounted == ReservePathInv /\ BurnInv => BurnsMatchRows
<1> SUFFICES ASSUME ReservePathInv, BurnInv PROVE BurnsMatchRows
  OBVIOUS
<1>1. /\ burner \in Seq(1..MaxOps) /\ DOMAIN burner = 1..Len(burner) /\ IsFiniteSet(Outs)
      /\ Counted /\ Traced /\ Filed /\ reserve_ops \in Seq(Row) /\ disturbances \in Seq(Disturbances)
  BY DEF BurnInv, ReservePathInv, Tables, Around
<1> DEFINE m == Cardinality(Misses(disturbances))
<1>2. m \in Nat
  <2>1. IsFiniteSet(1..Len(disturbances))
    <3>1. 1 \in Int /\ Len(disturbances) \in Int
      BY <1>1
    <3>2. QED
      BY <3>1, FS_Interval
  <2>2. Misses(disturbances) \subseteq 1..Len(disturbances)
    BY <1>1 DEF Misses
  <2>3. QED
    BY <2>1, <2>2, FS_Subset, FS_CardinalityType
<1>3. ASSUME NEW b \in DOMAIN burner
      PROVE  LET r == reserve_ops[burner[b]]
                 burns == {k \in DOMAIN burner : burner[k] = burner[b]}
             IN  /\ bridges[b].src = r.src /\ bridges[b].dst = r.dst /\ bridges[b].amount = r.amount
                 /\ Cardinality(burns) <= least(1 + m, MAX_RETRIES)
                 /\ DatabaseAnswers => r.status # "none"
  <2> DEFINE i == burner[b]
             burns == {k \in DOMAIN burner : burner[k] = i}
  <2>1. i \in 1..Len(reserve_ops) /\ SameMove(bridges[b], reserve_ops[i])
    BY <1>1 DEF Traced
  <2>2. i \in Nat \ {0}
    BY <1>1, <2>1
  <2>3. burns = Stamped(i, burner)
    BY <1>1 DEF Stamped
  <2> HIDE DEF i, m, burns
  <2>4. Within(i, Tries(i, Outs, burner), m, row, planner, Hope)
    BY <1>1, <2>2 DEF Counted, m
  <2>5. Cardinality(Stamped(i, burner)) \in Nat /\ Cardinality(Waiting(i, Outs)) \in Nat
    BY <1>1, StampedAppend, WaitingAdd
  <2>6. Cardinality(Stamped(i, burner)) <= Tries(i, Outs, burner) /\ Tries(i, Outs, burner) \in Nat
    BY <2>5 DEF Tries
  <2>7. MAX_RETRIES \in Nat
    BY ReservePathAssumption
  <2>8. Cardinality(burns) <= least(1 + m, MAX_RETRIES)
    BY <1>2, <2>3, <2>4, <2>5, <2>6, <2>7 DEF Within, least
  <2>9. DatabaseAnswers => reserve_ops[i].status # "none"
    BY <1>1, <2>1 DEF Filed
  <2>10. QED
    BY <2>1, <2>8, <2>9 DEF i, burns, SameMove
<1>4. QED
  BY <1>3 DEF BurnsMatchRows, Misses, m

(* The USDC of a row is burned once, and once more for every receipt or answer
   that the planner missed, at most MAX_RETRIES times, for the pair and the amount
   of the row, however late a transaction is included (submit_bridge_reserve);
   and while the database answers, every burn has its row (insert_reserve_op
   comes first). *)
THEOREM BurnsAreMatched == ReservePathSpec => []BurnsMatchRows
BY BurnInvariant, BurnsCounted, PTL
=============================================================================
