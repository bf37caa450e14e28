--------------------------- MODULE ColdPathProofs ---------------------------
(***************************************************************************)
(* What the cold path of the Treasury guarantees for every number of       *)
(* chains, rows, retries and disturbances: types, exact plans, submitted   *)
(* means burned, one operation in flight, and a bound on repeated burns.   *)
(*                                                                         *)
(* The argument: every action is shown once to have one of eleven effects on  *)
(* operations, mempool and burns, and each part of the invariant is kept   *)
(* by every effect.  The bound counts, for each chunk, its burns and its   *)
(* transactions still in the mempool: a new attempt follows an attempt     *)
(* that left neither, or an answer that the service has missed.            *)
(***************************************************************************)
EXTENDS ColdPath, PlanProofs

(* The locals of a cycle. *)
PCs == {"idle", "depths", "check", "cap", "submit", "wait", "fail"}
Receipts == {"none", "ok", "reverted"}
Shape(y) ==
    DOMAIN y = {"pc", "chains", "depths", "ops", "at", "chunks", "chunk", "attempt", "receipt"}

(* The types of the locals. *)
Typed(y) ==
    /\ Shape(y) /\ y.pc \in PCs
    /\ y.chains \subseteq Chains /\ DOMAIN y.depths \subseteq y.chains
    /\ y.depths \in [DOMAIN y.depths -> Nat]
    /\ y.ops \in Seq(Op) /\ y.at \in Nat \ {0} /\ y.at <= Len(y.ops) + 1
    /\ y.chunks \in Seq(Nat \ {0}) /\ y.chunk \in Nat \ {0} /\ y.attempt \in 1..MAX_RETRIES
    /\ y.receipt \in Receipts

(* A cycle that works on an operation has one; while it submits, it has a
   chunk of it; only one that waits has a receipt. *)
Busy(y) ==
    /\ y.pc = "depths" => y.at = 1 /\ y.ops = <<>>
    /\ y.pc \in {"check", "cap", "submit", "wait", "fail"} => y.at <= Len(y.ops)
    /\ y.pc \in {"submit", "wait"} => y.chunk <= Len(y.chunks)
    /\ y.pc \in {"submit", "wait"} =>
          \A k \in 1..Len(y.chunks) : y.chunks[k] <= y.ops[y.at].amount
    /\ y.pc # "wait" => y.receipt = "none"
    /\ y.pc \notin {"submit", "wait", "fail"} => y.chunk = 1 /\ y.attempt = 1

(* The operations of a cycle are a plan for the depths it has read. *)
Planned(y) ==
    y.ops # <<>> => /\ any_deficit(y.depths)
                    /\ y.ops \in plans(y.depths, target_depth(y.depths), COLD_PATH_MAX_WEI)

(* All that is claimed of the locals of a cycle. *)
CycleOK(y) == Typed(y) /\ Busy(y) /\ Planned(y)

(* Between cycles. *)
LEMMA IdleFacts ==
  /\ CycleOK(Idle) /\ Idle.pc = "idle" /\ Idle.chains = {} /\ Idle.depths = <<>> /\ Idle.ops = <<>>
  /\ Idle.at = 1 /\ Idle.chunks = <<>> /\ Idle.chunk = 1 /\ Idle.attempt = 1 /\ Idle.receipt = "none"
<1>1. /\ Idle.pc = "idle" /\ Idle.chains = {} /\ Idle.depths = <<>> /\ Idle.ops = <<>>
      /\ Idle.at = 1 /\ Idle.chunks = <<>> /\ Idle.chunk = 1 /\ Idle.attempt = 1
      /\ Idle.receipt = "none"
  BY DEF Idle
<1>2. Shape(Idle)
  BY DEF Shape, Idle
<1>3. <<>> \in [DOMAIN <<>> -> Nat] /\ DOMAIN <<>> = {} /\ Len(<<>>) = 0
  OBVIOUS
<1>4. <<>> \in Seq(Op) /\ <<>> \in Seq(Nat \ {0})
  OBVIOUS
<1>5. 1 \in 1..MAX_RETRIES
  BY ColdPathAssumption
<1>6. Typed(Idle)
  BY <1>1, <1>2, <1>3, <1>4, <1>5 DEF Typed, PCs, Receipts
<1>7. Busy(Idle) /\ Planned(Idle)
  BY <1>1 DEF Busy, Planned
<1>8. QED
  BY <1>1, <1>6, <1>7 DEF CycleOK

(* A cycle starts. *)
LEMMA Begins ==
  ASSUME NEW S \in SUBSET Chains, NEW z, z = [Idle EXCEPT !.pc = "depths", !.chains = S]
  PROVE  CycleOK(z) /\ z.pc = "depths"
<1>1. Shape(Idle)
  BY IdleFacts DEF CycleOK, Typed
<1>2. /\ Shape(z) /\ z.pc = "depths" /\ z.chains = S /\ z.depths = Idle.depths
      /\ z.ops = Idle.ops /\ z.at = Idle.at /\ z.chunks = Idle.chunks /\ z.chunk = Idle.chunk
      /\ z.attempt = Idle.attempt /\ z.receipt = Idle.receipt
  BY <1>1 DEF Shape
<1>3. Typed(Idle) /\ Idle.chains = {} /\ Idle.at = 1 /\ Idle.receipt = "none" /\ Idle.ops = <<>>
      /\ Idle.chunk = 1 /\ Idle.attempt = 1
  BY IdleFacts DEF CycleOK
<1>4. Typed(z)
  BY <1>2, <1>3 DEF Typed, PCs
<1>5. Busy(z) /\ Planned(z)
  BY <1>2, <1>3 DEF Busy, Planned
<1>6. QED
  BY <1>2, <1>4, <1>5 DEF CycleOK

(* A cycle reads one more pool. *)
LEMMA Reads ==
  ASSUME NEW y, CycleOK(y), y.pc = "depths", NEW d,
         d \in [DOMAIN d -> Nat], DOMAIN d \subseteq y.chains, NEW z, z = [y EXCEPT !.depths = d]
  PROVE  CycleOK(z) /\ z.pc = "depths"
<1>1. Typed(y) /\ Busy(y) /\ Shape(y)
  BY DEF CycleOK, Typed
<1>2. /\ Shape(z) /\ z.pc = y.pc /\ z.chains = y.chains /\ z.depths = d
      /\ z.ops = y.ops /\ z.at = y.at /\ z.chunks = y.chunks /\ z.chunk = y.chunk
      /\ z.attempt = y.attempt /\ z.receipt = y.receipt
  BY <1>1 DEF Shape
<1>3. Typed(z)
  BY <1>1, <1>2 DEF Typed
<1>4. Busy(z) /\ Planned(z)
  BY <1>1, <1>2 DEF Busy, Planned
<1>5. QED
  BY <1>2, <1>3, <1>4 DEF CycleOK

(* A cycle has its plan. *)
LEMMA Plans ==
  ASSUME NEW y, CycleOK(y), y.pc = "depths", NEW d,
         d \in [DOMAIN d -> Nat], DOMAIN d \subseteq y.chains, any_deficit(d),
         NEW w \in Seq(Op), w # <<>>, w \in plans(d, target_depth(d), COLD_PATH_MAX_WEI),
         NEW z, z = [y EXCEPT !.pc = "check", !.depths = d, !.ops = w]
  PROVE  CycleOK(z) /\ z.pc = "check"
<1>1. Typed(y) /\ Busy(y) /\ Shape(y)
  BY DEF CycleOK, Typed
<1>2. /\ Shape(z) /\ z.pc = "check" /\ z.chains = y.chains /\ z.depths = d
      /\ z.ops = w /\ z.at = y.at /\ z.chunks = y.chunks /\ z.chunk = y.chunk
      /\ z.attempt = y.attempt /\ z.receipt = y.receipt
  BY <1>1 DEF Shape
<1>3. Len(w) \in Nat /\ Len(w) # 0
  OBVIOUS
<1>4. y.at = 1 /\ y.chunk = 1 /\ y.attempt = 1 /\ y.receipt = "none"
  BY <1>1 DEF Busy
<1>5. Typed(z)
  BY <1>1, <1>2, <1>3, <1>4 DEF Typed, PCs
<1>6. Busy(z) /\ Planned(z)
  BY <1>2, <1>3, <1>4 DEF Busy, Planned
<1>7. QED
  BY <1>2, <1>5, <1>6 DEF CycleOK

(* An operation of the cycle. *)
LEMMA OpAt ==
  ASSUME NEW y, CycleOK(y), y.pc \in {"check", "cap", "submit", "wait", "fail"}
  PROVE  /\ y.at \in 1..Len(y.ops) /\ Len(y.ops) \in Nat /\ y.ops[y.at] \in Op
         /\ y.ops[y.at].src \in Chains /\ y.ops[y.at].dst \in Chains
         /\ y.ops[y.at].amount \in Nat /\ y.ops[y.at].amount # 0
<1>1. y.ops \in Seq(Op) /\ y.at \in Nat \ {0} /\ y.at <= Len(y.ops)
  BY DEF CycleOK, Typed, Busy
<1>2. y.at \in 1..Len(y.ops) /\ Len(y.ops) \in Nat /\ y.ops[y.at] \in Op
  BY <1>1
<1>3. QED
  BY <1>2 DEF Op

(* nextOp for the cycle y. *)
AfterOp(y) ==
    IF y.at = Len(y.ops) THEN Idle
    ELSE [y EXCEPT !.pc = "check", !.at = @ + 1, !.chunks = <<>>, !.chunk = 1,
                   !.attempt = 1, !.receipt = "none"]

(* Done with an operation, the cycle turns to the next or ends. *)
LEMMA GoesOn ==
  ASSUME NEW y, CycleOK(y), y.pc \in {"check", "cap", "submit", "wait", "fail"}
  PROVE  CycleOK(AfterOp(y)) /\ AfterOp(y).pc \in {"idle", "check"}
<1>1. CASE y.at = Len(y.ops)
  BY <1>1, IdleFacts DEF AfterOp
<1>2. CASE y.at # Len(y.ops)
  <2> DEFINE z == [y EXCEPT !.pc = "check", !.at = @ + 1, !.chunks = <<>>, !.chunk = 1,
                            !.attempt = 1, !.receipt = "none"]
  <2>1. Typed(y) /\ Planned(y) /\ Shape(y)
    BY DEF CycleOK, Typed
  <2>2. /\ Shape(z) /\ z.pc = "check" /\ z.chains = y.chains /\ z.depths = y.depths
        /\ z.ops = y.ops /\ z.at = y.at + 1 /\ z.chunks = <<>> /\ z.chunk = 1
        /\ z.attempt = 1 /\ z.receipt = "none"
    BY <2>1 DEF Shape
  <2>3. AfterOp(y) = z
    BY <1>2 DEF AfterOp
  <2> HIDE DEF z
  <2>4. y.at + 1 \in Nat \ {0} /\ y.at + 1 <= Len(y.ops) /\ y.at + 1 <= Len(y.ops) + 1
    BY <1>2, OpAt
  <2>5. 1 \in 1..MAX_RETRIES /\ <<>> \in Seq(Nat \ {0})
    BY ColdPathAssumption
  <2>6. Typed(z)
    BY <2>1, <2>2, <2>4, <2>5 DEF Typed, PCs, Receipts
  <2>7. Busy(z) /\ Planned(z)
    BY <2>1, <2>2, <2>4 DEF Busy, Planned
  <2>8. QED
    BY <2>2, <2>3, <2>6, <2>7 DEF CycleOK
<1>3. QED
  BY <1>1, <1>2

(* An operation is admitted. *)
LEMMA Admits ==
  ASSUME NEW y, CycleOK(y), y.pc = "check", NEW z, z = [y EXCEPT !.pc = "cap"]
  PROVE  /\ CycleOK(z) /\ z.pc = "cap" /\ z.ops = y.ops /\ z.at = y.at
<1>1. Typed(y) /\ Busy(y) /\ Planned(y) /\ Shape(y)
  BY DEF CycleOK, Typed
<1>2. /\ Shape(z) /\ z.pc = "cap" /\ z.chains = y.chains /\ z.depths = y.depths
      /\ z.ops = y.ops /\ z.at = y.at /\ z.chunks = y.chunks /\ z.chunk = y.chunk
      /\ z.attempt = y.attempt /\ z.receipt = y.receipt
  BY <1>1 DEF Shape
<1>3. Typed(z)
  BY <1>1, <1>2 DEF Typed, PCs
<1>4. Busy(z) /\ Planned(z)
  BY <1>1, <1>2 DEF Busy, Planned
<1>5. QED
  BY <1>2, <1>3, <1>4 DEF CycleOK

(* Its chunks are known. *)
InParts(y, w) == [y EXCEPT !.pc = "submit", !.chunks = w]

(* Splitting an operation starts on its first chunk. *)
LEMMA Splits ==
  ASSUME NEW y, CycleOK(y), y.pc = "cap", NEW w \in Seq(Nat \ {0}), Len(w) # 0,
         \A k \in 1..Len(w) : w[k] <= y.ops[y.at].amount,
         NEW z, z = InParts(y, w)
  PROVE  /\ CycleOK(z) /\ z.pc = "submit" /\ z.ops = y.ops /\ z.at = y.at
         /\ z.chunk = 1 /\ z.attempt = 1
<1>1. Typed(y) /\ Busy(y) /\ Planned(y) /\ Shape(y)
  BY DEF CycleOK, Typed
<1>2. /\ Shape(z) /\ z.pc = "submit" /\ z.chains = y.chains /\ z.depths = y.depths
      /\ z.ops = y.ops /\ z.at = y.at /\ z.chunks = w /\ z.chunk = y.chunk
      /\ z.attempt = y.attempt /\ z.receipt = y.receipt
  BY <1>1 DEF Shape, InParts
<1>3. Typed(z)
  BY <1>1, <1>2 DEF Typed, PCs
<1>4. Len(w) \in Nat /\ 1 <= Len(w) /\ y.chunk = 1 /\ y.attempt = 1
  BY <1>1 DEF Busy
<1>5. Busy(z) /\ Planned(z)
  BY <1>1, <1>2, <1>4 DEF Busy, Planned
<1>6. QED
  BY <1>2, <1>3, <1>4, <1>5 DEF CycleOK

(* A transaction is sent. *)
LEMMA Sends ==
  ASSUME NEW y, CycleOK(y), y.pc = "submit", NEW z, z = [y EXCEPT !.pc = "wait"]
  PROVE  /\ CycleOK(z) /\ z.pc = "wait" /\ z.ops = y.ops /\ z.at = y.at /\ z.chunks = y.chunks
         /\ z.chunk = y.chunk /\ z.attempt = y.attempt /\ z.receipt = "none"
<1>1. Typed(y) /\ Busy(y) /\ Planned(y) /\ Shape(y)
  BY DEF CycleOK, Typed
<1>2. /\ Shape(z) /\ z.pc = "wait" /\ z.chains = y.chains /\ z.depths = y.depths
      /\ z.ops = y.ops /\ z.at = y.at /\ z.chunks = y.chunks /\ z.chunk = y.chunk
      /\ z.attempt = y.attempt /\ z.receipt = y.receipt
  BY <1>1 DEF Shape
<1>3. Typed(z)
  BY <1>1, <1>2 DEF Typed, PCs
<1>4. Busy(z) /\ Planned(z) /\ y.receipt = "none"
  BY <1>1, <1>2 DEF Busy, Planned
<1>5. QED
  BY <1>2, <1>3, <1>4 DEF CycleOK

(* An attempt failed, and there is another one. *)
LEMMA Retries ==
  ASSUME NEW y, CycleOK(y), y.pc \in {"submit", "wait"}, y.attempt < MAX_RETRIES,
         NEW z, z = [y EXCEPT !.pc = "submit", !.attempt = @ + 1, !.receipt = "none"]
  PROVE  /\ CycleOK(z) /\ z.pc = "submit" /\ z.ops = y.ops /\ z.at = y.at /\ z.chunks = y.chunks
         /\ z.chunk = y.chunk /\ z.attempt = y.attempt + 1 /\ z.receipt = "none"
<1>1. Typed(y) /\ Busy(y) /\ Planned(y) /\ Shape(y)
  BY DEF CycleOK, Typed
<1>2. /\ Shape(z) /\ z.pc = "submit" /\ z.chains = y.chains /\ z.depths = y.depths
      /\ z.ops = y.ops /\ z.at = y.at /\ z.chunks = y.chunks /\ z.chunk = y.chunk
      /\ z.attempt = y.attempt + 1 /\ z.receipt = "none"
  BY <1>1 DEF Shape
<1>3. y.attempt + 1 \in 1..MAX_RETRIES
  BY <1>1, ColdPathAssumption, SMTT(30) DEF Typed
<1>4. Typed(z)
  BY <1>1, <1>2, <1>3 DEF Typed, PCs, Receipts
<1>5. Busy(z) /\ Planned(z)
  BY <1>1, <1>2 DEF Busy, Planned
<1>6. QED
  BY <1>2, <1>4, <1>5 DEF CycleOK

(* The operation in hand has failed. *)
Beaten(y) == [y EXCEPT !.pc = "fail", !.receipt = "none"]

(* A failed operation is still the one in hand. *)
LEMMA Fails ==
  ASSUME NEW y, CycleOK(y), y.pc \in {"cap", "submit", "wait"}, NEW z, z = Beaten(y)
  PROVE  CycleOK(z) /\ z.pc = "fail" /\ z.ops = y.ops /\ z.at = y.at
<1>1. Typed(y) /\ Busy(y) /\ Planned(y) /\ Shape(y)
  BY DEF CycleOK, Typed
<1>2. /\ Shape(z) /\ z.pc = "fail" /\ z.chains = y.chains /\ z.depths = y.depths
      /\ z.ops = y.ops /\ z.at = y.at /\ z.chunks = y.chunks /\ z.chunk = y.chunk
      /\ z.attempt = y.attempt /\ z.receipt = "none"
  BY <1>1 DEF Shape, Beaten
<1>3. Typed(z)
  BY <1>1, <1>2 DEF Typed, PCs, Receipts
<1>4. Busy(z) /\ Planned(z)
  BY <1>1, <1>2 DEF Busy, Planned
<1>5. QED
  BY <1>2, <1>3, <1>4 DEF CycleOK

(* A chunk is done, and there is another one. *)
LEMMA NextChunkOf ==
  ASSUME NEW y, CycleOK(y), y.pc = "wait", y.chunk # Len(y.chunks),
         NEW z, z = [y EXCEPT !.pc = "submit", !.chunk = @ + 1, !.attempt = 1, !.receipt = "none"]
  PROVE  /\ CycleOK(z) /\ z.pc = "submit" /\ z.ops = y.ops /\ z.at = y.at /\ z.chunks = y.chunks
         /\ z.chunk = y.chunk + 1 /\ z.attempt = 1 /\ z.receipt = "none"
<1>1. Typed(y) /\ Busy(y) /\ Planned(y) /\ Shape(y)
  BY DEF CycleOK, Typed
<1>2. /\ Shape(z) /\ z.pc = "submit" /\ z.chains = y.chains /\ z.depths = y.depths
      /\ z.ops = y.ops /\ z.at = y.at /\ z.chunks = y.chunks /\ z.chunk = y.chunk + 1
      /\ z.attempt = 1 /\ z.receipt = "none"
  BY <1>1 DEF Shape
<1>3. 1 \in 1..MAX_RETRIES /\ y.chunk \in Nat \ {0} /\ y.chunk <= Len(y.chunks) /\ Len(y.chunks) \in Nat
  BY <1>1, ColdPathAssumption DEF Typed, Busy
<1>4. y.chunk + 1 \in Nat \ {0} /\ y.chunk + 1 <= Len(y.chunks)
  BY <1>3
<1>5. Typed(z)
  BY <1>1, <1>2, <1>3, <1>4 DEF Typed, PCs, Receipts
<1>6. Busy(z) /\ Planned(z)
  BY <1>1, <1>2, <1>4 DEF Busy, Planned
<1>7. QED
  BY <1>2, <1>5, <1>6 DEF CycleOK

(* A receipt arrives. *)
LEMMA Hears ==
  ASSUME NEW y, CycleOK(y), y.pc = "wait", NEW v \in Receipts, NEW z, z = [y EXCEPT !.receipt = v]
  PROVE  /\ CycleOK(z) /\ z.pc = "wait" /\ z.ops = y.ops /\ z.at = y.at /\ z.chunks = y.chunks
         /\ z.chunk = y.chunk /\ z.attempt = y.attempt /\ z.receipt = v
<1>1. Typed(y) /\ Busy(y) /\ Planned(y) /\ Shape(y)
  BY DEF CycleOK, Typed
<1>2. /\ Shape(z) /\ z.pc = y.pc /\ z.chains = y.chains /\ z.depths = y.depths
      /\ z.ops = y.ops /\ z.at = y.at /\ z.chunks = y.chunks /\ z.chunk = y.chunk
      /\ z.attempt = y.attempt /\ z.receipt = v
  BY <1>1 DEF Shape
<1>3. Typed(z)
  BY <1>1, <1>2 DEF Typed
<1>4. Busy(z) /\ Planned(z)
  BY <1>1, <1>2 DEF Busy, Planned
<1>5. QED
  BY <1>2, <1>3, <1>4 DEF CycleOK

(* The operation in hand has a row, its own, that is not failed. *)
InHand == {"cap", "submit", "wait", "fail"}
Hand(y, rows) ==
    y.pc \in InHand =>
        LET r == rows[Len(rows)] IN
        /\ Len(rows) # 0 /\ r.status # "failed"
        /\ r.src = y.ops[y.at].src /\ r.dst = y.ops[y.at].dst /\ r.amount = y.ops[y.at].amount

(* What a row is about never changes; rows are only added. *)
SameMove(q, r) == q.src = r.src /\ q.dst = r.dst /\ q.amount = r.amount
Grown(rows, more) == Len(rows) <= Len(more) /\ \A i \in 1..Len(rows) : SameMove(more[i], rows[i])

(* A transaction is about a row, and never for more than its amount. *)
Sent(txs, rows) ==
    /\ txs \subseteq Tx
    /\ \A x \in txs : x.op <= Len(rows) /\ x.amount <= rows[x.op].amount

(* The fields of a row and of a transaction. *)
LEMMA RowFields ==
  ASSUME NEW r \in Row
  PROVE  /\ r.src \in Chains /\ r.dst \in Chains /\ r.amount \in Nat \ {0} /\ r.aged \in BOOLEAN
         /\ r.status \in {"none", "pending", "submitted", "failed"}
BY DEF Row

(* The fields of a transaction. *)
LEMMA TxFields ==
  ASSUME NEW x \in Tx
  PROVE  /\ x.op \in 1..MaxOps /\ x.chunk \in Nat \ {0} /\ x.attempt \in 1..MAX_RETRIES
         /\ x.amount \in Nat \ {0}
BY DEF Tx

(* A new row. *)
LEMMA RowInserted ==
  ASSUME NEW rows \in Seq(Row), NEW r \in Row, NEW more, more = Append(rows, r)
  PROVE  /\ more \in Seq(Row) /\ Len(more) = Len(rows) + 1 /\ Len(rows) \in Nat
         /\ more[Len(more)] = r /\ \A i \in 1..Len(rows) : more[i] = rows[i]
         /\ Grown(rows, more)
<1>1. /\ more \in Seq(Row) /\ Len(more) = Len(rows) + 1 /\ Len(rows) \in Nat
      /\ more[Len(more)] = r /\ \A i \in 1..Len(rows) : more[i] = rows[i]
  OBVIOUS
<1>2. QED
  BY <1>1 DEF Grown, SameMove

(* A row with another status, or aged. *)
LEMMA StatusChanged ==
  ASSUME NEW r \in Row, NEW st \in {"none", "pending", "submitted", "failed"}, NEW q,
         q = [r EXCEPT !.status = st]
  PROVE  q \in Row /\ SameMove(q, r) /\ q.aged = r.aged /\ q.status = st
BY DEF Row, SameMove

(* Ageing a row changes nothing else of it. *)
LEMMA AgedOne ==
  ASSUME NEW r \in Row, NEW q, q = [r EXCEPT !.aged = TRUE]
  PROVE  q \in Row /\ SameMove(q, r) /\ q.aged /\ q.status = r.status
BY DEF Row, SameMove

(* One row replaced. *)
Replaced(rows, i, q) == [rows EXCEPT ![i] = q]

(* Replacing a row by one with the same move leaves the others alone. *)
LEMMA RowReplaced ==
  ASSUME NEW rows \in Seq(Row), NEW i \in 1..Len(rows), NEW q \in Row, SameMove(q, rows[i]),
         NEW more, more = Replaced(rows, i, q)
  PROVE  /\ more \in Seq(Row) /\ Len(more) = Len(rows) /\ Len(rows) \in Nat
         /\ more[i] = q /\ \A k \in 1..Len(rows) : k # i => more[k] = rows[k]
         /\ Grown(rows, more)
<1>1. /\ more \in Seq(Row) /\ Len(more) = Len(rows) /\ Len(rows) \in Nat
      /\ more[i] = q /\ \A k \in 1..Len(rows) : k # i => more[k] = rows[k]
  BY DEF Replaced
<1>2. \A k \in 1..Len(rows) : SameMove(more[k], rows[k])
  BY <1>1 DEF SameMove
<1>3. QED
  BY <1>1, <1>2 DEF Grown

(* A table is a continuation of itself. *)
LEMMA GrownReflexive == \A rows \in Seq(Row) : Grown(rows, rows)
BY DEF Grown, SameMove

(* What was sent stays about its row. *)
LEMMA SentGrows ==
  ASSUME NEW rows \in Seq(Row), NEW more \in Seq(Row), Grown(rows, more), NEW txs, Sent(txs, rows)
  PROVE  Sent(txs, more)
<1>1. \A x \in txs : x.op \in 1..Len(rows) /\ Len(rows) \in Nat /\ Len(more) \in Nat
  BY TxFields DEF Sent
<1>2. QED
  BY <1>1 DEF Sent, Grown, SameMove

(* What is submitted for the current chunk fits the rows as well. *)
LEMMA SentOneMore ==
  ASSUME NEW rows \in Seq(Row), NEW txs, Sent(txs, rows), NEW x \in Tx, x.op <= Len(rows),
         x.amount <= rows[x.op].amount
  PROVE  Sent(txs \cup {x}, rows)
BY DEF Sent

(* What leaves the mempool leaves the rest as it was. *)
LEMMA SentOneLess ==
  ASSUME NEW rows, NEW txs, Sent(txs, rows), NEW x
  PROVE  Sent(txs \ {x}, rows)
BY DEF Sent

(* update_rebalance_op_submitted and update_rebalance_op_failed. *)
LEMMA MarkedRows ==
  ASSUME rebalance_ops \in Seq(Row), Len(rebalance_ops) # 0, NEW st \in {"submitted", "failed"}
  PROVE  /\ marked(st) \in Seq(Row) /\ Len(marked(st)) = Len(rebalance_ops)
         /\ Len(rebalance_ops) \in Nat /\ Len(rebalance_ops) \in 1..Len(rebalance_ops)
         /\ \A k \in 1..Len(rebalance_ops) : k # row => marked(st)[k] = rebalance_ops[k]
         /\ SameMove(marked(st)[row], rebalance_ops[row])
         /\ marked(st)[row].aged = rebalance_ops[row].aged
         /\ marked(st)[row].status = IF rebalance_ops[row].status = "none" THEN "none" ELSE st
         /\ Grown(rebalance_ops, marked(st))
<1> DEFINE i == Len(rebalance_ops)
           r == rebalance_ops[i]
           ns == IF r.status = "none" THEN "none" ELSE st
           q == [r EXCEPT !.status = ns]
<1>1. i \in Nat /\ i \in 1..Len(rebalance_ops) /\ r \in Row
  OBVIOUS
<1>2. marked(st) = Replaced(rebalance_ops, i, q)
  BY DEF marked, row, Replaced
<1>3. ns \in {"none", "pending", "submitted", "failed"}
  OBVIOUS
<1> HIDE DEF ns
<1>4. q \in Row /\ SameMove(q, r) /\ q.aged = r.aged /\ q.status = ns
  BY <1>1, <1>3, StatusChanged
<1> HIDE DEF q, r
<1>5. SameMove(q, rebalance_ops[i])
  BY <1>4 DEF r
<1> HIDE DEF i
<1>6. /\ marked(st) \in Seq(Row) /\ Len(marked(st)) = Len(rebalance_ops)
      /\ marked(st)[i] = q /\ \A k \in 1..Len(rebalance_ops) : k # i => marked(st)[k] = rebalance_ops[k]
      /\ Grown(rebalance_ops, marked(st))
  BY <1>1, <1>2, <1>4, <1>5, RowReplaced
<1>7. QED
  BY <1>1, <1>4, <1>5, <1>6 DEF row, i, r, ns

(* The row becomes a day old. *)
Older(i) == [rebalance_ops EXCEPT ![i].aged = TRUE]

(* Ageing one row leaves the others and its own move alone. *)
LEMMA AgedRows ==
  ASSUME rebalance_ops \in Seq(Row), NEW i \in 1..Len(rebalance_ops), NEW more,
         more = Older(i)
  PROVE  /\ more \in Seq(Row) /\ Len(more) = Len(rebalance_ops)
         /\ \A k \in 1..Len(rebalance_ops) : k # i => more[k] = rebalance_ops[k]
         /\ SameMove(more[i], rebalance_ops[i])
         /\ more[i].aged /\ more[i].status = rebalance_ops[i].status
         /\ Grown(rebalance_ops, more)
<1> DEFINE r == rebalance_ops[i]
           q == [r EXCEPT !.aged = TRUE]
<1>1. r \in Row /\ more = Replaced(rebalance_ops, i, q)
  BY DEF Replaced, Older
<1>2. q \in Row /\ SameMove(q, r) /\ q.aged /\ q.status = r.status
  BY <1>1, AgedOne
<1> HIDE DEF q
<1>3. SameMove(q, rebalance_ops[i]) /\ q \in Row /\ more = Replaced(rebalance_ops, i, q)
  BY <1>1, <1>2
<1> HIDE DEF r
<1>4. /\ more \in Seq(Row) /\ Len(more) = Len(rebalance_ops) /\ Grown(rebalance_ops, more)
      /\ more[i] = q /\ \A k \in 1..Len(rebalance_ops) : k # i => more[k] = rebalance_ops[k]
  BY <1>3, RowReplaced
<1>5. QED
  BY <1>2, <1>3, <1>4 DEF r

(* What split_amount_by_cap returns: at least one chunk, each positive and no
   larger than the amount. *)
LEMMA SplitFacts ==
  ASSUME NEW amount \in Nat \ {0}, NEW cap \in Nat \ {0}, NEW w, w = split_amount_by_cap(amount, cap)
  PROVE  w \in Seq(Nat \ {0}) /\ Len(w) # 0 /\ \A k \in 1..Len(w) : w[k] <= amount
<1> DEFINE x == amount + cap - 1
           n == x \div cap
           r == x % cap
<1>1. x \in Nat /\ n \in Nat /\ r \in Nat /\ r < cap
  OBVIOUS
<1>2. x = cap * n + r
  OBVIOUS
<1>w. w = [k \in 1..n |-> least(cap, amount - (k - 1) * cap)]
  BY DEF split_amount_by_cap
<1> HIDE DEF n, r
<1>3. n # 0
  BY <1>1, <1>2
<1>4. ASSUME NEW k \in 1..n
      PROVE  least(cap, amount - (k - 1) * cap) \in Nat \ {0} /\ least(cap, amount - (k - 1) * cap) <= amount
  <2>1. n - k \in Nat /\ k - 1 \in Nat
    BY <1>1
  <2>2. cap * (n - k) \in Nat /\ (k - 1) * cap \in Nat
    BY <2>1
  <2>3. cap * n = cap * (n - k) + (k - 1) * cap + cap
    BY <1>1, <2>1
  <2> DEFINE A == cap * (n - k)
             B == (k - 1) * cap
             C == cap * n
  <2>4. A \in Nat /\ B \in Nat /\ C = A + B + cap /\ x = C + r
    BY <1>2, <2>2, <2>3
  <2> HIDE DEF A, B, C
  <2>5. amount - B \in Nat \ {0} /\ amount - B <= amount
    BY <1>1, <2>4 DEF x
  <2>6. least(cap, amount - B) \in Nat \ {0} /\ least(cap, amount - B) <= amount
    BY <2>5 DEF least
  <2>7. QED
    BY <2>6 DEF B
<1> DEFINE g(k) == least(cap, amount - (k - 1) * cap)
<1>5. \A k \in 1..n : g(k) \in Nat \ {0} /\ g(k) <= amount
  BY <1>4
<1>6. w = [k \in 1..n |-> g(k)]
  BY <1>w
<1> HIDE DEF g
<1>7. w \in [1..n -> Nat \ {0}] /\ \A k \in 1..n : w[k] <= amount
  BY <1>5, <1>6
<1>8. w \in Seq(Nat \ {0}) /\ Len(w) = n
  BY <1>1, <1>7
<1>9. QED
  BY <1>3, <1>7, <1>8

(* The target is a number whenever the planner needs it. *)
LEMMA TargetNat ==
  ASSUME NEW d, d \in [DOMAIN d -> Nat], DOMAIN d \subseteq Chains, any_deficit(d)
  PROVE  target_depth(d) \in Nat /\ IsFiniteSet(DOMAIN d)
<1> DEFINE n == Cardinality(DOMAIN d)
           f == [i \in 1..N |-> IF i \in DOMAIN d THEN d[i] ELSE 0]
           total == Total(f, N)
<1>1. N \in Nat /\ 1 \in Int /\ N \in Int
  BY BankAssumption
<1>2. IsFiniteSet(Chains)
  BY <1>1, FS_Interval DEF Chains
<1>3. IsFiniteSet(DOMAIN d)
  BY <1>2, FS_Subset
<1>4. DOMAIN d # {}
  BY DEF any_deficit
<1>5. n \in Nat /\ n # 0
  BY <1>3, <1>4, FS_CardinalityType, FS_EmptySet
<1>6. f \in [1..N -> Nat]
  OBVIOUS
<1>t. target_depth(d) = IF COLD_PATH_TARGET_BPS = 0 THEN total \div n
                        ELSE (total * COLD_PATH_TARGET_BPS) \div 10000
  BY DEF target_depth
<1> HIDE DEF f
<1>7. total \in Nat
  BY <1>1, <1>6, TotalNat
<1> HIDE DEF n, total
<1>8. COLD_PATH_TARGET_BPS \in Nat
  BY ColdPathAssumption
<1>9. total \div n \in Nat
  BY <1>5, <1>7
<1>10. total * COLD_PATH_TARGET_BPS \in Nat
  BY <1>7, <1>8
<1>11. (total * COLD_PATH_TARGET_BPS) \div 10000 \in Nat
  BY <1>10
<1>12. QED
  BY <1>3, <1>t, <1>9, <1>11

(* The plan of a cycle moves between chains that it has read, and is exact. *)
LEMMA PlanOfCycle ==
  ASSUME NEW d, d \in [DOMAIN d -> Nat], DOMAIN d \subseteq Chains, any_deficit(d),
         NEW w \in plans(d, target_depth(d), COLD_PATH_MAX_WEI)
  PROVE  w \in Seq(Op) /\ Exact(w, d, target_depth(d), COLD_PATH_MAX_WEI)
<1> DEFINE D == DOMAIN d
           t == target_depth(d)
<1>1. t \in Nat /\ IsFiniteSet(D)
  BY TargetNat
<1>2. COLD_PATH_MAX_WEI \in Nat \ {0}
  BY ColdPathAssumption
<1>3. d \in [D -> Nat] /\ w \in plans(d, t, COLD_PATH_MAX_WEI) /\ D \subseteq Chains
  OBVIOUS
<1> HIDE DEF D, t
<1>4. Exact(w, d, t, COLD_PATH_MAX_WEI) /\ w \in Seq([src : D, dst : D, amount : Nat \ {0}])
  BY <1>1, <1>2, <1>3, PlanExact
<1>5. [src : D, dst : D, amount : Nat \ {0}] \subseteq Op
  BY <1>3 DEF Op
<1> DEFINE S == [src : D, dst : D, amount : Nat \ {0}]
<1>6. w \in Seq(S) /\ S \subseteq Op
  BY <1>4, <1>5
<1> HIDE DEF S
<1>7. w \in Seq(Op)
  BY <1>6
<1>8. QED
  BY <1>4, <1>7 DEF t

-----------------------------------------------------------------------------
(* What the steps do to the cycle, the table, the mempool and the burns. *)

(* The cycle works on the same operation. *)
SameOp == cycle'.ops = cycle.ops /\ cycle'.at = cycle.at
Later == Undisturbed \/ \E kind \in Disturbances : Disturbed(kind)
Away == {"idle", "depths", "check"}

(* Nothing happens to the operations: the ledgers move, or the cycle is between two of
   them. *)
Quiet ==
    /\ UNCHANGED <<rebalance_ops, coldMempool, burner, rebalances>> /\ Later
    /\ cycle' = cycle \/ cycle'.pc \in Away

(* An operation passes its checks and gets a row. *)
Admitted ==
    /\ cycle.pc = "check" /\ cycle'.pc = "cap" /\ SameOp
    /\ UNCHANGED <<coldMempool, burner, rebalances>> /\ Len(rebalance_ops) < MaxOps
    /\ \E r \in Row : /\ ~r.aged /\ rebalance_ops' = Append(rebalance_ops, r)
                      /\ r.src = op.src /\ r.dst = op.dst /\ r.amount = op.amount
                      /\ \/ Undisturbed /\ r.status = "pending" /\ ~op_in_flight(r.src, r.dst)
                         \/ Disturbed("db") /\ r.status \in {"pending", "none"}

(* The operation in hand is split into chunks. *)
Parted ==
    /\ cycle.pc = "cap" /\ cycle'.pc = "submit" /\ cycle'.chunk = 1 /\ cycle'.attempt = 1 /\ SameOp
    /\ UNCHANGED <<rebalance_ops, coldMempool, burner, rebalances, disturbances>>

(* The answer to a submission is lost: the node may or may not have the transaction.
   *)
MaybeSent ==
    /\ cycle.pc = "submit" /\ Disturbed("rpc")
    /\ coldMempool' \in {coldMempool, coldMempool \cup {currentTx}}

(* The operation in hand fails: no cap, or no attempt left. *)
Failing ==
    /\ cycle.pc \in InHand /\ cycle'.pc = "fail" /\ SameOp
    /\ MaybeSent \/ (UNCHANGED coldMempool /\ Later)
    /\ UNCHANGED <<rebalance_ops, burner, rebalances>>

(* It is recorded as failed. *)
GivenUp ==
    /\ cycle.pc \in InHand /\ cycle'.pc \in Away /\ rebalance_ops' = marked("failed")
    /\ UNCHANGED <<coldMempool, burner, rebalances, disturbances>>

(* An attempt ends without a successful receipt. *)
Missed ==
    /\ cycle.pc = "wait" /\ UNCHANGED coldMempool
    /\ \/ cycle.receipt = "reverted" /\ Undisturbed
       \/ cycle.receipt = "none" /\ currentTx \notin coldMempool /\ Undisturbed
       \/ cycle.receipt = "none" /\ Disturbed("timeout")

(* The chunk in hand is tried once more. *)
Again ==
    /\ cycle'.pc = "submit" /\ SameOp
    /\ cycle'.chunk = cycle.chunk /\ cycle'.attempt = cycle.attempt + 1
    /\ MaybeSent \/ Missed
    /\ UNCHANGED <<rebalance_ops, burner, rebalances>>

(* The cycle stays with its chunk and attempt. *)
SameTx == cycle'.chunks = cycle.chunks /\ cycle'.chunk = cycle.chunk /\ cycle'.attempt = cycle.attempt

(* A transaction is submitted. *)
Sending ==
    /\ cycle.pc = "submit" /\ cycle'.pc = "wait" /\ cycle'.receipt = "none" /\ SameOp /\ SameTx
    /\ coldMempool' = coldMempool \cup {currentTx}
    /\ UNCHANGED <<rebalance_ops, burner, rebalances, disturbances>>

(* A successful receipt is recorded, unless the database fails. *)
Landed ==
    /\ cycle.pc = "wait" /\ cycle.receipt = "ok"
    /\ \/ cycle'.pc \in Away
       \/ cycle'.pc = "submit" /\ cycle'.chunk = cycle.chunk + 1 /\ cycle'.attempt = 1 /\ SameOp
    /\ \/ rebalance_ops' = marked("submitted") /\ Undisturbed
       \/ UNCHANGED rebalance_ops /\ Disturbed("db")
    /\ UNCHANGED <<coldMempool, burner, rebalances>>

(* A receipt reaches the cycle if it waits for this transaction. *)
Notified(x, r) ==
    \/ ~(cycle.pc = "wait" /\ x = currentTx) /\ UNCHANGED cycle
    \/ /\ cycle.pc = "wait" /\ x = currentTx
       /\ cycle'.pc = "wait" /\ cycle'.receipt = r /\ SameOp /\ SameTx

(* A transaction burns on its source and is noted in the history. *)
Burned(x) ==
    /\ \E q : /\ rebalances' = Append(rebalances, q) /\ q.amount = x.amount
              /\ q.src = rebalance_ops[x.op].src /\ q.dst = rebalance_ops[x.op].dst
    /\ burner' = Append(burner, [op |-> x.op, chunk |-> x.chunk])
    /\ Notified(x, "ok")

(* A transaction is included; it burns or reverts. *)
Included(x) ==
    /\ coldMempool' = coldMempool \ {x}
    /\ UNCHANGED <<rebalance_ops, disturbances>>
    /\ Burned(x) \/ (Notified(x, "reverted") /\ UNCHANGED <<burner, rebalances>>)

(* A transaction leaves the mempool without being included. *)
Dropped(x) ==
    /\ coldMempool' = coldMempool \ {x} /\ Disturbed("timeout")
    /\ UNCHANGED <<rebalance_ops, burner, rebalances, cycle>>

(* 24 hours pass for a row. *)
Aging(i) ==
    /\ rebalance_ops' = Older(i)
    /\ UNCHANGED <<coldMempool, burner, rebalances, cycle, disturbances>>

(* What a step of the composition can do to operations, mempool and burns. *)
Effect ==
    \/ Quiet \/ Admitted \/ Parted \/ Failing \/ GivenUp \/ Again \/ Sending \/ Landed
    \/ \E x \in coldMempool : Included(x) \/ Dropped(x)
    \/ \E i \in 1..Len(rebalance_ops) : Aging(i)

(* The types of what surrounds the cycle, and of what it works on. *)
Around ==
    /\ TypeOK /\ active_chains \subseteq Chains /\ decommissioned_chains \subseteq Chains
    /\ disturbances \in Seq(Disturbances) /\ Len(disturbances) <= MaxDisturbances

(* Rows, mempool and history are in their types and agree with the cycle. *)
Burn == [op : 1..MaxOps, chunk : Nat \ {0}]
Books ==
    /\ CycleOK(cycle)
    /\ rebalance_ops \in Seq(Row) /\ Len(rebalance_ops) <= MaxOps
    /\ Sent(coldMempool, rebalance_ops) /\ IsFiniteSet(coldMempool)
    /\ Hand(cycle, rebalance_ops)
    /\ burner \in Seq(Burn) /\ Len(burner) = Len(rebalances)

(* The part of the invariant that the others are proved from. *)
Grounded == Around /\ Books

(* The transaction of the current chunk. *)
LEMMA CurrentTx ==
  ASSUME Books, cycle.pc \in {"submit", "wait"}
  PROVE  /\ currentTx \in Tx /\ currentTx.op = row /\ currentTx.op <= Len(rebalance_ops)
         /\ currentTx.amount <= rebalance_ops[currentTx.op].amount
         /\ currentTx.chunk = cycle.chunk /\ currentTx.attempt = cycle.attempt
<1>1. /\ CycleOK(cycle) /\ rebalance_ops \in Seq(Row) /\ Len(rebalance_ops) <= MaxOps
      /\ Len(rebalance_ops) # 0 /\ rebalance_ops[Len(rebalance_ops)].amount = cycle.ops[cycle.at].amount
  BY DEF Books, Hand, InHand
<1>2. /\ cycle.chunks \in Seq(Nat \ {0}) /\ cycle.chunk \in Nat \ {0} /\ cycle.attempt \in 1..MAX_RETRIES
      /\ cycle.chunk <= Len(cycle.chunks)
      /\ \A k \in 1..Len(cycle.chunks) : cycle.chunks[k] <= cycle.ops[cycle.at].amount
  BY <1>1 DEF CycleOK, Typed, Busy
<1>3. cycle.chunk \in 1..Len(cycle.chunks)
  BY <1>2
<1>4. cycle.chunks[cycle.chunk] \in Nat \ {0} /\ cycle.chunks[cycle.chunk] <= cycle.ops[cycle.at].amount
  BY <1>2, <1>3
<1>5. Len(rebalance_ops) \in 1..MaxOps
  BY <1>1, ColdPathAssumption
<1>6. QED
  BY <1>1, <1>2, <1>4, <1>5 DEF currentTx, Tx, row

(* The operation in hand keeps its row. *)
LEMMA HandKeeps ==
  ASSUME Books, cycle.pc \in InHand \/ cycle'.pc \notin InHand, SameOp \/ cycle'.pc \notin InHand,
         UNCHANGED rebalance_ops
  PROVE  Hand(cycle, rebalance_ops)'
BY DEF Books, Hand, SameOp

(* Every effect keeps the books in order. *)
LEMMA EffectKeeps ==
  ASSUME Books, Effect, CycleOK(cycle'), rebalances \in Seq(Rebalance)
  PROVE  Books'
<1> DEFINE Table == rebalance_ops' \in Seq(Row) /\ Len(rebalance_ops') <= MaxOps
           Pending == Sent(coldMempool', rebalance_ops') /\ IsFiniteSet(coldMempool')
           Held == Hand(cycle, rebalance_ops)'
           Log == burner' \in Seq(Burn) /\ Len(burner') = Len(rebalances')
<1>1. /\ CycleOK(cycle) /\ rebalance_ops \in Seq(Row) /\ Len(rebalance_ops) <= MaxOps
      /\ Sent(coldMempool, rebalance_ops) /\ IsFiniteSet(coldMempool)
      /\ Hand(cycle, rebalance_ops) /\ burner \in Seq(Burn) /\ Len(burner) = Len(rebalances)
  BY DEF Books
<1>2. ASSUME Table, Pending, Held, Log PROVE Books'
  BY <1>2 DEF Books
<1>3. ASSUME UNCHANGED rebalance_ops PROVE Table
  BY <1>1, <1>3
<1>4. ASSUME UNCHANGED <<burner, rebalances>> PROVE Log
  BY <1>1, <1>4
<1>5. ASSUME UNCHANGED <<rebalance_ops, coldMempool>> PROVE Pending
  BY <1>1, <1>5
<1>6. ASSUME cycle'.pc \notin InHand PROVE Held
  BY <1>6 DEF Hand
<1>7. ASSUME rebalance_ops' \in Seq(Row), Grown(rebalance_ops, rebalance_ops'), UNCHANGED coldMempool
      PROVE  Pending
  BY <1>1, <1>7, SentGrows
<1>8. ASSUME cycle.pc = "submit", rebalance_ops' \in Seq(Row), Grown(rebalance_ops, rebalance_ops'),
             coldMempool' \in {coldMempool, coldMempool \cup {currentTx}}
      PROVE  Pending
  <2>1. Sent(coldMempool \cup {currentTx}, rebalance_ops)
    BY <1>1, <1>8, CurrentTx, SentOneMore
  <2>2. Sent(coldMempool', rebalance_ops)
    BY <1>1, <1>8, <2>1
  <2>3. Sent(coldMempool', rebalance_ops')
    BY <1>1, <1>8, <2>2, SentGrows
  <2>4. IsFiniteSet(coldMempool \cup {currentTx})
    BY <1>1, FS_AddElement
  <2>5. QED
    BY <1>1, <1>8, <2>3, <2>4
<1>9. ASSUME NEW x, coldMempool' = coldMempool \ {x}, UNCHANGED rebalance_ops PROVE Pending
  BY <1>1, <1>9, SentOneLess, FS_RemoveElement
<1>10. rebalance_ops' = rebalance_ops => rebalance_ops' \in Seq(Row) /\ Grown(rebalance_ops, rebalance_ops')
  BY <1>1, GrownReflexive
<1>11. ASSUME cycle.pc \in InHand, NEW st \in {"submitted", "failed"}, rebalance_ops' = marked(st)
       PROVE  /\ Table /\ Grown(rebalance_ops, rebalance_ops')
              /\ Len(rebalance_ops') # 0 /\ Len(rebalance_ops') = Len(rebalance_ops)
              /\ SameMove(rebalance_ops'[row], rebalance_ops[row])
              /\ st = "submitted" => rebalance_ops'[row].status # "failed"
  <2>1. Len(rebalance_ops) # 0
    BY <1>1, <1>11 DEF Hand
  <2>2. QED
    BY <1>1, <1>11, <2>1, MarkedRows
<1>12. InHand \cap Away = {} /\ {"submit", "wait"} \subseteq InHand /\ "cap" \in InHand
  BY DEF InHand, Away
<1> HIDE DEF Table, Pending, Held, Log
<1>13. CASE Quiet
  <2>1. Held
    BY <1>6, <1>12, <1>13, HandKeeps DEF Quiet, SameOp, Held
  <2>2. QED
    BY <1>2, <1>3, <1>4, <1>5, <1>13, <2>1 DEF Quiet
<1>14. CASE Admitted
  <2>1. PICK r \in Row : /\ rebalance_ops' = Append(rebalance_ops, r)
                         /\ r.src = op.src /\ r.dst = op.dst /\ r.amount = op.amount
                         /\ r.status # "failed"
    BY <1>14 DEF Admitted
  <2>2. /\ rebalance_ops' \in Seq(Row) /\ Len(rebalance_ops') = Len(rebalance_ops) + 1
        /\ Len(rebalance_ops) \in Nat /\ rebalance_ops'[Len(rebalance_ops')] = r
        /\ Grown(rebalance_ops, rebalance_ops')
    BY <1>1, <2>1, RowInserted
  <2>3. Table
    BY <1>14, <2>2, ColdPathAssumption DEF Table, Admitted
  <2>4. Held
    BY <1>14, <2>1, <2>2 DEF Held, Hand, Admitted, SameOp, op
  <2>5. QED
    BY <1>2, <1>4, <1>7, <1>14, <2>2, <2>3, <2>4 DEF Admitted
<1>15. CASE Parted
  <2>1. Held
    BY <1>12, <1>15, HandKeeps DEF Parted, Held
  <2>2. QED
    BY <1>2, <1>3, <1>4, <1>5, <1>15, <2>1 DEF Parted
<1>16. CASE GivenUp
  <2>1. Table /\ Grown(rebalance_ops, rebalance_ops') /\ rebalance_ops' \in Seq(Row)
    BY <1>11, <1>16 DEF GivenUp, Table
  <2>2. Held
    BY <1>6, <1>12, <1>16 DEF GivenUp
  <2>3. Pending
    BY <1>7, <1>16, <2>1 DEF GivenUp
  <2>4. QED
    BY <1>2, <1>4, <1>16, <2>1, <2>2, <2>3 DEF GivenUp
<1>a. CASE Failing
  <2>1. Held
    BY <1>a, HandKeeps DEF Failing, Held
  <2>2. Pending
    BY <1>5, <1>8, <1>10, <1>a DEF Failing, MaybeSent
  <2>3. QED
    BY <1>2, <1>3, <1>4, <1>a, <2>1, <2>2 DEF Failing
<1>17. CASE Again
  <2>1. cycle.pc \in InHand
    BY <1>12, <1>17 DEF Again, MaybeSent, Missed
  <2>2. Held
    BY <1>17, <2>1, HandKeeps DEF Again, Held
  <2>3. Pending
    BY <1>5, <1>8, <1>10, <1>17 DEF Again, MaybeSent, Missed
  <2>4. QED
    BY <1>2, <1>3, <1>4, <1>17, <2>2, <2>3 DEF Again
<1>18. CASE Sending
  <2>1. Held
    BY <1>12, <1>18, HandKeeps DEF Sending, Held
  <2>2. Pending
    BY <1>8, <1>10, <1>18 DEF Sending
  <2>3. QED
    BY <1>2, <1>3, <1>4, <1>18, <2>1, <2>2 DEF Sending
<1>19. CASE Landed
  <2>1. cycle.pc \in InHand
    BY <1>12, <1>19 DEF Landed
  <2>2. CASE rebalance_ops' = marked("submitted")
    <3>1. /\ Table /\ Grown(rebalance_ops, rebalance_ops') /\ rebalance_ops' \in Seq(Row)
          /\ Len(rebalance_ops') # 0 /\ Len(rebalance_ops') = Len(rebalance_ops)
          /\ SameMove(rebalance_ops'[row], rebalance_ops[row])
          /\ rebalance_ops'[row].status # "failed"
      BY <1>11, <2>1, <2>2 DEF Table
    <3>2. Held
      BY <1>1, <1>12, <1>19, <2>1, <3>1 DEF Landed, SameOp, Held, Hand, SameMove, row
    <3>3. Pending
      BY <1>7, <1>19, <3>1 DEF Landed
    <3>4. QED
      BY <1>2, <1>4, <1>19, <3>1, <3>2, <3>3 DEF Landed
  <2>3. CASE UNCHANGED rebalance_ops
    <3>1. Held
      BY <1>6, <1>12, <1>19, <2>1, <2>3, HandKeeps DEF Landed, Held
    <3>2. QED
      BY <1>2, <1>3, <1>4, <1>5, <1>19, <2>3, <3>1 DEF Landed
  <2>4. QED
    BY <1>19, <2>2, <2>3 DEF Landed
<1>20. ASSUME NEW x \in coldMempool, Included(x) PROVE Books'
  <2>1. Pending /\ Table
    BY <1>3, <1>9, <1>20 DEF Included
  <2>2. Held
    <3>1. ASSUME NEW r, Notified(x, r) PROVE Held
      BY <1>12, <1>20, <3>1, HandKeeps DEF Notified, Included, SameOp, Held
    <3>2. QED
      BY <1>20, <3>1 DEF Included, Burned
  <2>3. Log
    <3>1. CASE Burned(x)
      <4>1. x \in Tx
        BY <1>1 DEF Sent
      <4>2. [op |-> x.op, chunk |-> x.chunk] \in Burn
        BY <4>1, TxFields DEF Burn
      <4> DEFINE w == [op |-> x.op, chunk |-> x.chunk]
      <4>3. PICK q : rebalances' = Append(rebalances, q) /\ burner' = Append(burner, w)
        BY <3>1 DEF Burned
      <4> HIDE DEF w
      <4>4. burner' \in Seq(Burn) /\ Len(burner') = Len(burner) + 1
        BY <1>1, <4>2, <4>3 DEF w
      <4>5. Len(rebalances') = Len(rebalances) + 1
        BY <4>3
      <4>6. QED
        BY <1>1, <4>4, <4>5 DEF Log
    <3>2. CASE UNCHANGED <<burner, rebalances>>
      BY <1>4, <3>2
    <3>3. QED
      BY <1>20, <3>1, <3>2 DEF Included
  <2>4. QED
    BY <1>2, <2>1, <2>2, <2>3
<1>21. ASSUME NEW x \in coldMempool, Dropped(x) PROVE Books'
  <2>1. Held
    BY <1>21, HandKeeps DEF Dropped, SameOp, Held
  <2>2. QED
    BY <1>2, <1>3, <1>4, <1>9, <1>21, <2>1 DEF Dropped
<1>22. ASSUME NEW i \in 1..Len(rebalance_ops), Aging(i) PROVE Books'
  <2>1. /\ rebalance_ops' \in Seq(Row) /\ Len(rebalance_ops') = Len(rebalance_ops)
        /\ \A k \in 1..Len(rebalance_ops) : k # i => rebalance_ops'[k] = rebalance_ops[k]
        /\ SameMove(rebalance_ops'[i], rebalance_ops[i])
        /\ rebalance_ops'[i].status = rebalance_ops[i].status
        /\ Grown(rebalance_ops, rebalance_ops')
    BY <1>1, <1>22, AgedRows DEF Aging
  <2>2. Table
    BY <1>1, <2>1 DEF Table
  <2>3. Len(rebalance_ops) \in Nat
    BY <1>1
  <2>4. Held
    BY <1>1, <1>22, <2>1, <2>3 DEF Aging, Held, Hand, SameMove
  <2>5. QED
    BY <1>2, <1>4, <1>7, <1>22, <2>1, <2>2, <2>4 DEF Aging
<1>23. QED
  BY <1>13, <1>14, <1>15, <1>16, <1>a, <1>17, <1>18, <1>19, <1>20, <1>21, <1>22 DEF Effect

(* Disturbances are counted. *)
LEMMA LaterTyped ==
  ASSUME disturbances \in Seq(Disturbances), Len(disturbances) <= MaxDisturbances, Later
  PROVE  disturbances' \in Seq(Disturbances) /\ Len(disturbances') <= MaxDisturbances
<1>1. CASE Undisturbed
  BY <1>1 DEF Undisturbed
<1>2. ASSUME NEW kind \in Disturbances, Disturbed(kind)
      PROVE  disturbances' \in Seq(Disturbances) /\ Len(disturbances') <= MaxDisturbances
  <2>1. disturbances' = Append(disturbances, kind) /\ Len(disturbances) < MaxDisturbances
    BY <1>2 DEF Disturbed
  <2>2. disturbances' \in Seq(Disturbances) /\ Len(disturbances') = Len(disturbances) + 1
        /\ Len(disturbances) \in Nat
    BY <2>1
  <2>3. QED
    BY <2>1, <2>2, ColdPathAssumption
<1>3. QED
  BY <1>1, <1>2 DEF Later

(* A disturbance is added to the earlier ones. *)
LEMMA DisturbedLater == \A kind : Disturbed(kind) => Later
BY DEF Disturbed, Later

(* The next operation, or the end of the cycle. *)
LEMMA NextOpFacts ==
  ASSUME CycleOK(cycle), cycle.pc \in {"check", "cap", "submit", "wait", "fail"}, cycle' = nextOp
  PROVE  CycleOK(cycle') /\ cycle'.pc \in Away
<1>1. nextOp = AfterOp(cycle)
  BY Zenon DEF nextOp, AfterOp
<1>2. QED
  BY <1>1, GoesOn DEF Away

(* What an attempt that failed leads to. *)
LEMMA RetryFacts ==
  ASSUME CycleOK(cycle), cycle.pc \in {"submit", "wait"}, retry
  PROVE  /\ CycleOK(cycle') /\ SameOp /\ UNCHANGED rebalance_ops
         /\ \/ /\ cycle'.pc = "submit" /\ cycle'.chunk = cycle.chunk
               /\ cycle'.attempt = cycle.attempt + 1
            \/ cycle'.pc = "fail"
<1>1. CASE cycle.attempt < MAX_RETRIES
  <2>1. /\ cycle' = [cycle EXCEPT !.pc = "submit", !.attempt = @ + 1, !.receipt = "none"]
        /\ UNCHANGED rebalance_ops
    BY <1>1 DEF retry
  <2>2. /\ CycleOK(cycle') /\ cycle'.pc = "submit" /\ cycle'.ops = cycle.ops /\ cycle'.at = cycle.at
        /\ cycle'.chunk = cycle.chunk /\ cycle'.attempt = cycle.attempt + 1
    BY <1>1, <2>1, Retries
  <2>3. QED
    BY <2>1, <2>2 DEF SameOp
<1>2. CASE ~(cycle.attempt < MAX_RETRIES)
  <2>1. cycle' = Beaten(cycle) /\ UNCHANGED rebalance_ops
    BY <1>2 DEF retry, Beaten
  <2>2. cycle.pc \in {"cap", "submit", "wait"}
    OBVIOUS
  <2>3. CycleOK(cycle') /\ cycle'.pc = "fail" /\ cycle'.ops = cycle.ops /\ cycle'.at = cycle.at
    BY <2>1, <2>2, Fails
  <2>4. QED
    BY <2>1, <2>3 DEF SameOp
<1>3. QED
  BY <1>1, <1>2

(* A service step leaves what surrounds the cycle alone. *)
LEMMA ServiceAround ==
  ASSUME Grounded, NEW pc, Service(pc), Later
  PROVE  Around' /\ UNCHANGED <<burner, rebalances>> /\ cycle.pc = pc
<1>1. /\ UNCHANGED bankVars /\ UNCHANGED <<active_chains, decommissioned_chains, burner>> /\ cycle.pc = pc
  BY DEF Service
<1>2. TypeOK'
  BY <1>1, TypeStep DEF Grounded, Around
<1>3. QED
  BY <1>1, <1>2, LaterTyped DEF Grounded, Around, bankVars, coldVars

(* The steps of the loop. *)
LEMMA StartEffect ==
  ASSUME Grounded, startCycle
  PROVE  CycleOK(cycle') /\ Around' /\ Effect
<1> DEFINE S == active_chains \ decommissioned_chains
<1>1. /\ Service("idle") /\ Later /\ cycle' = [Idle EXCEPT !.pc = "depths", !.chains = S]
      /\ UNCHANGED <<coldMempool, rebalance_ops>>
  BY DEF startCycle, Later
<1>2. S \in SUBSET Chains
  BY DEF Grounded, Around
<1> HIDE DEF S
<1>3. CycleOK(cycle') /\ cycle'.pc = "depths"
  BY <1>1, <1>2, Begins
<1>4. Around' /\ UNCHANGED <<burner, rebalances>>
  BY <1>1, ServiceAround
<1>5. QED
  BY <1>1, <1>3, <1>4 DEF Effect, Quiet, Away

(* One lemma for every action: its effect, and what it leaves the cycle with. *)
LEMMA ReadEffect ==
  ASSUME Grounded, NEW c \in Chains, readDepth(c)
  PROVE  CycleOK(cycle') /\ Around' /\ Effect
<1> DEFINE d == [x \in DOMAIN cycle.depths \cup {c} |-> IF x = c THEN pool[c] ELSE cycle.depths[x]]
<1>1. /\ Service("depths") /\ c \in cycle.chains \ DOMAIN cycle.depths
      /\ \/ cycle' = [cycle EXCEPT !.depths = d] /\ Undisturbed
         \/ /\ \E w \in planned(d) :
                  cycle' = IF w = <<>> THEN Idle
                           ELSE [cycle EXCEPT !.pc = "check", !.depths = d, !.ops = w]
            /\ Undisturbed
         \/ cycle' = Idle /\ Disturbed("rpc")
      /\ UNCHANGED <<coldMempool, rebalance_ops>>
  BY DEF readDepth
<1>2. Later
  BY <1>1, DisturbedLater DEF Later
<1>3. CycleOK(cycle) /\ cycle.pc = "depths" /\ Around' /\ UNCHANGED <<burner, rebalances>>
  BY <1>1, <1>2, ServiceAround DEF Grounded, Books
<1>4. /\ cycle.chains \subseteq Chains /\ DOMAIN cycle.depths \subseteq cycle.chains
      /\ cycle.depths \in [DOMAIN cycle.depths -> Nat]
  BY <1>3 DEF CycleOK, Typed
<1>5. pool[c] \in Nat
  BY DEF Grounded, Around, TypeOK, LedgerType
<1>6. d \in [DOMAIN d -> Nat] /\ DOMAIN d \subseteq cycle.chains /\ DOMAIN d \subseteq Chains
  BY <1>1, <1>4, <1>5
<1> HIDE DEF d
<1>7. CycleOK(cycle') /\ cycle'.pc \in {"depths", "check", "idle"}
  <2>1. CASE cycle' = [cycle EXCEPT !.depths = d]
    BY <1>3, <1>6, <2>1, Reads
  <2>2. CASE cycle' = Idle
    BY <2>2, IdleFacts
  <2>3. ASSUME NEW w \in planned(d), w # <<>>,
               cycle' = [cycle EXCEPT !.pc = "check", !.depths = d, !.ops = w]
        PROVE  CycleOK(cycle') /\ cycle'.pc = "check"
    <3>1. any_deficit(d) /\ w \in plans(d, target_depth(d), COLD_PATH_MAX_WEI)
      BY <2>3 DEF planned
    <3>2. w \in Seq(Op)
      BY <1>6, <3>1, PlanOfCycle
    <3>3. QED
      BY <1>3, <1>6, <2>3, <3>1, <3>2, Plans
  <2>4. QED
    BY <1>1, <2>1, <2>2, <2>3
<1>8. QED
  BY <1>1, <1>2, <1>3, <1>7 DEF Effect, Quiet, Away

(* The checks of an operation. *)
LEMMA CheckEffect ==
  ASSUME Grounded, checkOp
  PROVE  CycleOK(cycle') /\ Around' /\ Effect
<1>1. /\ Service("check") /\ UNCHANGED coldMempool
      /\ \/ cycle' = nextOp /\ Later /\ UNCHANGED rebalance_ops
         \/ /\ cycle' = [cycle EXCEPT !.pc = "cap"]
            /\ \/ /\ ~op_in_flight(op.src, op.dst) /\ insert_rebalance_op("pending") /\ Undisturbed
               \/ \E st \in {"pending", "none"} : insert_rebalance_op(st) /\ Disturbed("db")
  BY DisturbedLater DEF checkOp, evaluate_rebalance_op, Later
<1>2. Later
  BY <1>1, DisturbedLater DEF Later
<1>3. CycleOK(cycle) /\ cycle.pc = "check" /\ Around' /\ UNCHANGED <<burner, rebalances>>
  BY <1>1, <1>2, ServiceAround DEF Grounded, Books
<1>4. CASE cycle' = nextOp /\ UNCHANGED rebalance_ops
  <2>1. CycleOK(cycle') /\ cycle'.pc \in Away
    BY <1>3, <1>4, NextOpFacts
  <2>2. QED
    BY <1>1, <1>2, <1>3, <1>4, <2>1 DEF Effect, Quiet
<1>5. ASSUME cycle' = [cycle EXCEPT !.pc = "cap"], NEW st \in {"pending", "none"}, insert_rebalance_op(st),
             (st = "pending" /\ ~op_in_flight(op.src, op.dst) /\ Undisturbed) \/ Disturbed("db")
      PROVE  CycleOK(cycle') /\ Effect
  <2>1. /\ CycleOK(cycle') /\ cycle'.pc = "cap" /\ cycle'.ops = cycle.ops /\ cycle'.at = cycle.at
    BY <1>3, <1>5, Admits
  <2>2. op.src \in Chains /\ op.dst \in Chains /\ op.amount \in Nat \ {0}
    BY <1>3, OpAt DEF op
  <2> DEFINE r == [src |-> op.src, dst |-> op.dst, amount |-> op.amount, aged |-> FALSE, status |-> st]
  <2>3. /\ r \in Row /\ r.src = op.src /\ r.dst = op.dst /\ r.amount = op.amount /\ ~r.aged
        /\ r.status = st
    BY <2>2 DEF Row
  <2>4. rebalance_ops' = Append(rebalance_ops, r) /\ Len(rebalance_ops) < MaxOps
    BY <1>5 DEF insert_rebalance_op, row
  <2> HIDE DEF r
  <2>5. Admitted
    BY <1>1, <1>3, <1>5, <2>1, <2>3, <2>4 DEF Admitted, SameOp
  <2>6. QED
    BY <2>1, <2>5 DEF Effect
<1>6. QED
  BY <1>1, <1>3, <1>4, <1>5

(* Reading the cap and splitting by it. *)
LEMMA CapEffect ==
  ASSUME Grounded, readCap
  PROVE  CycleOK(cycle') /\ Around' /\ Effect
<1> DEFINE cap == config[op.src].cap
           w == split_amount_by_cap(op.amount, cap)
<1>1. /\ Service("cap") /\ UNCHANGED coldMempool
      /\ \/ /\ cap > 0 /\ cycle' = [cycle EXCEPT !.pc = "submit", !.chunks = w]
            /\ Undisturbed /\ UNCHANGED rebalance_ops
         \/ cycle' = Beaten(cycle) /\ UNCHANGED rebalance_ops /\ Later
  BY DisturbedLater DEF readCap, Later, Beaten
<1>2. Later
  BY <1>1 DEF Later
<1>3. CycleOK(cycle) /\ cycle.pc = "cap" /\ Around' /\ UNCHANGED <<burner, rebalances>>
  BY <1>1, <1>2, ServiceAround DEF Grounded, Books
<1>4. op.src \in Chains /\ op.amount \in Nat \ {0} /\ op = cycle.ops[cycle.at]
  BY <1>3, OpAt DEF op
<1>5. cap \in Nat
  BY <1>4 DEF Grounded, Around, TypeOK, GovType, Config
<1> HIDE DEF cap
<1>6. CASE /\ cap > 0 /\ cycle' = [cycle EXCEPT !.pc = "submit", !.chunks = w]
           /\ Undisturbed /\ UNCHANGED rebalance_ops
  <2>1. cap \in Nat \ {0}
    BY <1>5, <1>6
  <2>2. w \in Seq(Nat \ {0}) /\ Len(w) # 0 /\ \A k \in 1..Len(w) : w[k] <= op.amount
    BY <1>4, <2>1, SplitFacts
  <2> HIDE DEF w
  <2>a. w \in Seq(Nat \ {0}) /\ Len(w) # 0 /\ \A k \in 1..Len(w) : w[k] <= cycle.ops[cycle.at].amount
    BY <1>4, <2>2
  <2>b. CycleOK(cycle) /\ cycle.pc = "cap" /\ cycle' = InParts(cycle, w)
    BY <1>3, <1>6 DEF InParts
  <2>3. /\ CycleOK(cycle') /\ cycle'.pc = "submit" /\ cycle'.ops = cycle.ops /\ cycle'.at = cycle.at
        /\ cycle'.chunk = 1 /\ cycle'.attempt = 1
    BY <2>a, <2>b, Splits
  <2>4. QED
    BY <1>1, <1>3, <1>6, <2>3 DEF Effect, Parted, SameOp, Undisturbed
<1>7. CASE cycle' = Beaten(cycle) /\ UNCHANGED rebalance_ops
  <2>1. CycleOK(cycle') /\ cycle'.pc = "fail" /\ SameOp
    BY <1>3, <1>7, Fails DEF SameOp
  <2>2. QED
    BY <1>1, <1>2, <1>3, <1>7, <2>1 DEF Effect, Failing, InHand
<1>8. QED
  BY <1>1, <1>6, <1>7

(* Submitting a chunk. *)
LEMMA SubmitEffect ==
  ASSUME Grounded, submit
  PROVE  CycleOK(cycle') /\ Around' /\ Effect
<1>1. /\ Service("submit")
      /\ \/ /\ coldMempool' = coldMempool \cup {currentTx}
            /\ cycle' = [cycle EXCEPT !.pc = "wait"]
            /\ Undisturbed /\ UNCHANGED rebalance_ops
         \/ /\ coldMempool' \in {coldMempool, coldMempool \cup {currentTx}}
            /\ retry /\ Disturbed("rpc")
  BY DEF submit
<1>2. Later
  BY <1>1, DisturbedLater DEF Later
<1>3. CycleOK(cycle) /\ cycle.pc = "submit" /\ Around' /\ UNCHANGED <<burner, rebalances>>
  BY <1>1, <1>2, ServiceAround DEF Grounded, Books
<1>4. CASE /\ coldMempool' = coldMempool \cup {currentTx} /\ cycle' = [cycle EXCEPT !.pc = "wait"]
           /\ Undisturbed /\ UNCHANGED rebalance_ops
  <2>1. /\ CycleOK(cycle') /\ cycle'.pc = "wait" /\ cycle'.ops = cycle.ops /\ cycle'.at = cycle.at
        /\ cycle'.chunks = cycle.chunks /\ cycle'.chunk = cycle.chunk
        /\ cycle'.attempt = cycle.attempt /\ cycle'.receipt = "none"
    BY <1>3, <1>4, Sends
  <2>2. Sending
    BY <1>3, <1>4, <2>1 DEF Sending, SameOp, SameTx, Undisturbed
  <2>3. QED
    BY <1>3, <2>1, <2>2 DEF Effect
<1>5. CASE /\ coldMempool' \in {coldMempool, coldMempool \cup {currentTx}}
           /\ retry /\ Disturbed("rpc")
  <2>1. MaybeSent
    BY <1>3, <1>5 DEF MaybeSent
  <2>2. CycleOK(cycle')
    BY <1>3, <1>5, RetryFacts
  <2>3. Again \/ Failing
    BY <1>3, <1>5, <2>1, RetryFacts DEF Again, Failing, InHand
  <2>4. QED
    BY <1>3, <2>2, <2>3 DEF Effect
<1>6. QED
  BY <1>1, <1>4, <1>5

(* Waiting for its receipt. *)
LEMMA AwaitEffect ==
  ASSUME Grounded, awaitReceipt
  PROVE  CycleOK(cycle') /\ Around' /\ Effect
<1>1. /\ Service("wait") /\ UNCHANGED coldMempool
      /\ \/ /\ cycle.receipt = "ok" /\ cycle' = nextChunk
            /\ \/ rebalance_ops' = marked("submitted") /\ Undisturbed
               \/ UNCHANGED rebalance_ops /\ Disturbed("db")
         \/ cycle.receipt = "reverted" /\ retry /\ Undisturbed
         \/ /\ cycle.receipt = "none" /\ retry
            /\ (currentTx \notin coldMempool /\ Undisturbed) \/ Disturbed("timeout")
  BY DEF awaitReceipt, succeeded
<1>2. Later
  BY <1>1, DisturbedLater DEF Later
<1>3. CycleOK(cycle) /\ cycle.pc = "wait" /\ Around' /\ UNCHANGED <<burner, rebalances>>
  BY <1>1, <1>2, ServiceAround DEF Grounded, Books
<1>4. CASE /\ cycle.receipt = "ok" /\ cycle' = nextChunk
           /\ \/ rebalance_ops' = marked("submitted") /\ Undisturbed
              \/ UNCHANGED rebalance_ops /\ Disturbed("db")
  <2>1. CASE cycle.chunk = Len(cycle.chunks)
    <3>1. cycle' = nextOp
      BY <1>4, <2>1 DEF nextChunk
    <3>2. CycleOK(cycle') /\ cycle'.pc \in Away
      BY <1>3, <3>1, NextOpFacts
    <3>3. QED
      BY <1>1, <1>3, <1>4, <3>2 DEF Effect, Landed
  <2>2. CASE cycle.chunk # Len(cycle.chunks)
    <3>1. cycle' = [cycle EXCEPT !.pc = "submit", !.chunk = @ + 1, !.attempt = 1, !.receipt = "none"]
      BY <1>4, <2>2 DEF nextChunk
    <3>2. /\ CycleOK(cycle') /\ cycle'.pc = "submit" /\ cycle'.ops = cycle.ops /\ cycle'.at = cycle.at
          /\ cycle'.chunk = cycle.chunk + 1 /\ cycle'.attempt = 1
      BY <1>3, <2>2, <3>1, NextChunkOf
    <3>3. QED
      BY <1>1, <1>3, <1>4, <3>2 DEF Effect, Landed, SameOp
  <2>3. QED
    BY <2>1, <2>2
<1>5. CASE /\ retry
           /\ \/ cycle.receipt = "reverted" /\ Undisturbed
              \/ cycle.receipt = "none" /\ currentTx \notin coldMempool /\ Undisturbed
              \/ cycle.receipt = "none" /\ Disturbed("timeout")
  <2>1. Missed
    BY <1>1, <1>3, <1>5 DEF Missed
  <2>2. CycleOK(cycle')
    BY <1>3, <1>5, RetryFacts
  <2>3. Again \/ Failing
    BY <1>1, <1>2, <1>3, <1>5, <2>1, RetryFacts DEF Again, Failing, InHand
  <2>4. QED
    BY <1>3, <2>2, <2>3 DEF Effect
<1>6. QED
  BY <1>1, <1>4, <1>5

(* Recording a failure, which the database may lose. *)
LEMMA FailureEffect ==
  ASSUME Grounded, recordFailure
  PROVE  CycleOK(cycle') /\ Around' /\ Effect
<1>1. /\ Service("fail") /\ UNCHANGED coldMempool /\ cycle' = nextOp
      /\ \/ rebalance_ops' = marked("failed") /\ Undisturbed
         \/ UNCHANGED rebalance_ops /\ Disturbed("db")
  BY DEF recordFailure
<1>2. Later
  BY <1>1, DisturbedLater DEF Later
<1>3. CycleOK(cycle) /\ cycle.pc = "fail" /\ Around' /\ UNCHANGED <<burner, rebalances>>
  BY <1>1, <1>2, ServiceAround DEF Grounded, Books
<1>4. CycleOK(cycle') /\ cycle'.pc \in Away
  BY <1>1, <1>3, NextOpFacts
<1>5. GivenUp \/ Quiet
  BY <1>1, <1>2, <1>3, <1>4 DEF GivenUp, Quiet, InHand, Undisturbed
<1>6. QED
  BY <1>3, <1>4, <1>5 DEF Effect

(* The steps of the chains, of time and of RouteReceiver. *)
LEMMA IncludeEffect ==
  ASSUME Grounded, NEW x \in coldMempool, includeRebalance(x)
  PROVE  CycleOK(cycle') /\ Around' /\ Effect
<1> DEFINE o == rebalance_ops[x.op]
<1>1. /\ CycleOK(cycle) /\ rebalance_ops \in Seq(Row) /\ Sent(coldMempool, rebalance_ops)
  BY DEF Grounded, Books
<1>2. x \in Tx /\ x.op \in 1..Len(rebalance_ops) /\ x.amount \in Nat
  BY <1>1, TxFields DEF Sent
<1>3. o \in Row
  BY <1>1, <1>2
<1>4. o.src \in Chains /\ o.dst \in Chains
  BY <1>3, RowFields
<1>5. /\ coldMempool' = coldMempool \ {x}
      /\ UNCHANGED <<active_chains, decommissioned_chains, rebalance_ops, disturbances>>
      /\ \E r \in {"ok", "reverted"} :
            /\ cycle' = IF cycle.pc = "wait" /\ x = currentTx
                        THEN [cycle EXCEPT !.receipt = r] ELSE cycle
            /\ \/ /\ r = "ok" /\ rebalance(o.src, o.dst, x.amount)
                  /\ burner' = Append(burner, [op |-> x.op, chunk |-> x.chunk])
               \/ r = "reverted" /\ UNCHANGED <<bankVars, burner>>
  BY DEF includeRebalance
<1> HIDE DEF o
<1>6. PICK r \in {"ok", "reverted"} :
            /\ cycle' = IF cycle.pc = "wait" /\ x = currentTx
                        THEN [cycle EXCEPT !.receipt = r] ELSE cycle
            /\ \/ /\ r = "ok" /\ rebalance(o.src, o.dst, x.amount)
                  /\ burner' = Append(burner, [op |-> x.op, chunk |-> x.chunk])
               \/ r = "reverted" /\ UNCHANGED <<bankVars, burner>>
  BY <1>5
<1>7. CycleOK(cycle') /\ Notified(x, r)
  <2>1. CASE cycle.pc = "wait" /\ x = currentTx
    <3>1. cycle' = [cycle EXCEPT !.receipt = r] /\ r \in Receipts
      BY <1>6, <2>1 DEF Receipts
    <3>2. /\ CycleOK(cycle') /\ cycle'.pc = "wait" /\ cycle'.ops = cycle.ops /\ cycle'.at = cycle.at
          /\ cycle'.chunks = cycle.chunks /\ cycle'.chunk = cycle.chunk
          /\ cycle'.attempt = cycle.attempt /\ cycle'.receipt = r
      BY <1>1, <2>1, <3>1, Hears
    <3>3. QED
      BY <2>1, <3>2 DEF Notified, SameOp, SameTx
  <2>2. CASE ~(cycle.pc = "wait" /\ x = currentTx)
    BY <1>1, <1>6, <2>2 DEF Notified
  <2>3. QED
    BY <2>1, <2>2
<1>8. TypeOK' /\ (Burned(x) \/ (Notified(x, "reverted") /\ UNCHANGED <<burner, rebalances>>))
  <2>1. CASE /\ r = "ok" /\ rebalance(o.src, o.dst, x.amount)
             /\ burner' = Append(burner, [op |-> x.op, chunk |-> x.chunk])
    <3>1. TypeOK'
      BY <1>2, <1>4, <2>1, RebalanceType DEF Grounded, Around
    <3> DEFINE q == [src |-> o.src, dst |-> o.dst, amount |-> x.amount, nonce |-> rebalanceNonce[o.src]]
    <3>2. rebalances' = Append(rebalances, q)
      BY <2>1 DEF rebalance
    <3>3. q.amount = x.amount /\ q.src = o.src /\ q.dst = o.dst
      OBVIOUS
    <3> HIDE DEF q
    <3>4. Burned(x)
      BY <1>7, <2>1, <3>2, <3>3 DEF Burned, o
    <3>5. QED
      BY <3>1, <3>4
  <2>2. CASE r = "reverted" /\ UNCHANGED <<bankVars, burner>>
    <3>1. TypeOK'
      BY <2>2, TypeStep DEF Grounded, Around
    <3>2. UNCHANGED rebalances
      BY <2>2 DEF bankVars, coldVars
    <3>3. QED
      BY <1>7, <2>2, <3>1, <3>2
  <2>3. QED
    BY <1>6, <2>1, <2>2
<1>9. Included(x)
  BY <1>5, <1>8 DEF Included
<1>10. Around'
  BY <1>5, <1>8 DEF Grounded, Around
<1>11. QED
  BY <1>7, <1>9, <1>10 DEF Effect

(* The steps that touch neither the cycle nor its books. *)
LEMMA QuietEffect ==
  ASSUME Grounded, TypeOK', active_chains' \subseteq Chains, decommissioned_chains' \subseteq Chains,
         Later, cycle' = cycle \/ cycle' = Idle,
         UNCHANGED <<coldMempool, rebalance_ops, burner, rebalances>>
  PROVE  CycleOK(cycle') /\ Around' /\ Effect
<1>1. CycleOK(cycle') /\ (cycle' = cycle \/ cycle'.pc \in Away)
  BY IdleFacts DEF Grounded, Books, Away
<1>2. Around'
  BY LaterTyped DEF Grounded, Around
<1>3. QED
  BY <1>1, <1>2 DEF Effect, Quiet

(* The ledgers, governance, what the service learns, and a restart. *)
LEMMA OtherEffect ==
  ASSUME Grounded,
         \/ LedgerStep
         \/ \E c \in Chains, m \in Caps : setCap(c, m)
         \/ \E S \in Activations : learnActivation(S)
         \/ \E c \in Decommissionable : learnDecommission(c)
         \/ restart
         \/ UNCHANGED allVars
  PROVE  CycleOK(cycle') /\ Around' /\ Effect
<1>1. TypeOK /\ active_chains \subseteq Chains /\ decommissioned_chains \subseteq Chains
  BY DEF Grounded, Around
<1>2. UNCHANGED bankVars => TypeOK' /\ UNCHANGED rebalances
  BY <1>1, TypeStep DEF bankVars, coldVars
<1>3. CASE LedgerStep
  <2>1. UNCHANGED coldPathVars
    BY <1>3 DEF LedgerStep
  <2>2. CASE \E c \in Chains, u \in Users, amount \in Amounts : seedPool(c, u, amount)
    <3>1. UserStep
      BY <2>2 DEF UserStep
    <3>2. UNCHANGED rebalances
      BY <2>2 DEF seedPool, coldVars
    <3>3. TypeOK'
      BY <1>1, <3>1, TypeStep DEF Next
    <3>4. QED
      BY <1>1, <2>1, <3>2, <3>3, QuietEffect DEF coldPathVars, Later, Undisturbed
  <2>3. CASE RelayerStep
    <3>1. UNCHANGED rebalances
      BY <2>3 DEF RelayerStep, releaseHotPath, coldVars
    <3>2. TypeOK'
      BY <1>1, <2>3, RelayerType
    <3>3. QED
      BY <1>1, <2>1, <3>1, <3>2, QuietEffect DEF coldPathVars, Later, Undisturbed
  <2>4. CASE \E i \in DOMAIN rebalances : ccipReceive(rebalances[i])
    <3>1. UNCHANGED rebalances
      BY <2>4 DEF ccipReceive
    <3>2. TypeOK'
      BY <1>1, <2>4, DeliveryType DEF DeliveryStep
    <3>3. QED
      BY <1>1, <2>1, <3>1, <3>2, QuietEffect DEF coldPathVars, Later, Undisturbed
  <2>5. QED
    BY <1>3, <2>2, <2>3, <2>4 DEF LedgerStep
<1>4. ASSUME NEW c \in Chains, NEW m \in Caps, setCap(c, m) PROVE CycleOK(cycle') /\ Around' /\ Effect
  <2>1. /\ setMaxRebalanceAmount(c, m) /\ Disturbed("cap")
        /\ UNCHANGED <<active_chains, decommissioned_chains, cycle, coldMempool, rebalance_ops, burner>>
    BY <1>4 DEF setCap
  <2>2. TypeOK'
    BY <1>1, <2>1, GovernanceType DEF GovernanceStep
  <2>3. UNCHANGED rebalances
    BY <2>1 DEF setMaxRebalanceAmount, Set, Govern, coldVars
  <2>4. QED
    BY <1>1, <2>1, <2>2, <2>3, QuietEffect, DisturbedLater
<1>5. ASSUME NEW S \in Activations, learnActivation(S) PROVE CycleOK(cycle') /\ Around' /\ Effect
  <2>1. S \subseteq Chains
    BY ColdPathAssumption
  <2>2. /\ active_chains' = S /\ UNCHANGED bankVars
        /\ UNCHANGED <<decommissioned_chains, cycle, coldMempool, rebalance_ops, burner, disturbances>>
    BY <1>5 DEF learnActivation
  <2>3. QED
    BY <1>1, <1>2, <2>1, <2>2, QuietEffect DEF Later, Undisturbed
<1>6. ASSUME NEW c \in Decommissionable, learnDecommission(c) PROVE CycleOK(cycle') /\ Around' /\ Effect
  <2>1. c \in Chains
    BY ColdPathAssumption
  <2>2. /\ Disturbed("route") /\ decommissioned_chains' = decommissioned_chains \cup {c}
        /\ active_chains' = active_chains \ {c} /\ UNCHANGED bankVars
        /\ UNCHANGED <<cycle, coldMempool, rebalance_ops, burner>>
    BY <1>6 DEF learnDecommission
  <2>3. active_chains' \subseteq Chains /\ decommissioned_chains' \subseteq Chains
    BY <1>1, <2>1, <2>2
  <2>4. QED
    BY <1>2, <2>2, <2>3, QuietEffect, DisturbedLater
<1>7. CASE restart
  <2>1. /\ Disturbed("restart") /\ active_chains' = Chains /\ decommissioned_chains' = {}
        /\ cycle' = Idle /\ UNCHANGED bankVars /\ UNCHANGED <<coldMempool, rebalance_ops, burner>>
    BY <1>7 DEF restart
  <2>2. active_chains' \subseteq Chains /\ decommissioned_chains' \subseteq Chains
    BY <2>1
  <2>3. QED
    BY <1>2, <2>1, <2>2, QuietEffect, DisturbedLater
<1>8. CASE UNCHANGED allVars
  <2>1. UNCHANGED bankVars /\ UNCHANGED coldPathVars
    BY <1>8 DEF allVars
  <2>2. QED
    BY <1>1, <1>2, <2>1, QuietEffect DEF coldPathVars, Later, Undisturbed
<1>9. QED
  BY <1>3, <1>4, <1>5, <1>6, <1>7, <1>8

(* A dropped transaction. *)
LEMMA DropEffect ==
  ASSUME Grounded, NEW x \in coldMempool, dropRebalance(x)
  PROVE  CycleOK(cycle') /\ Around' /\ Effect
<1>1. /\ Disturbed("timeout") /\ coldMempool' = coldMempool \ {x} /\ UNCHANGED bankVars
      /\ UNCHANGED <<active_chains, decommissioned_chains, cycle, rebalance_ops, burner>>
  BY DEF dropRebalance
<1>2. TypeOK' /\ UNCHANGED rebalances
  BY <1>1, TypeStep DEF Grounded, Around, bankVars, coldVars
<1>3. Around'
  BY <1>1, <1>2, DisturbedLater, LaterTyped DEF Grounded, Around
<1>4. Dropped(x)
  BY <1>1, <1>2 DEF Dropped
<1>5. QED
  BY <1>1, <1>3, <1>4 DEF Effect, Grounded, Books

(* Time passing for a row. *)
LEMMA AgeEffect ==
  ASSUME Grounded, NEW i \in DOMAIN rebalance_ops, age(i)
  PROVE  CycleOK(cycle') /\ Around' /\ Effect
<1>1. /\ rebalance_ops' = Older(i) /\ UNCHANGED bankVars
      /\ UNCHANGED <<active_chains, decommissioned_chains, cycle, coldMempool, burner, disturbances>>
  BY DEF age, Older
<1>2. TypeOK' /\ UNCHANGED rebalances
  BY <1>1, TypeStep DEF Grounded, Around, bankVars, coldVars
<1>3. i \in 1..Len(rebalance_ops)
  BY DEF Grounded, Books
<1>4. Around' /\ CycleOK(cycle')
  BY <1>1, <1>2 DEF Grounded, Around, Books
<1>5. Aging(i)
  BY <1>1, <1>2 DEF Aging
<1>6. QED
  BY <1>3, <1>4, <1>5 DEF Effect

(* Every step has one of the effects, and keeps the types. *)
LEMMA StepEffect ==
  ASSUME Grounded, [ColdPathNext]_allVars
  PROVE  Grounded' /\ Effect
<1>1. CycleOK(cycle') /\ Around' /\ Effect
  BY StartEffect, ReadEffect, CheckEffect, CapEffect, SubmitEffect, AwaitEffect, FailureEffect, IncludeEffect,
     DropEffect, AgeEffect, OtherEffect, Zenon
     DEF ColdPathNext, CycleStep
<1>2. Books'
  BY <1>1, EffectKeeps DEF Grounded, Around, TypeOK, ColdType
<1>3. QED
  BY <1>1, <1>2 DEF Grounded

(* Banks in use and a service that has just started. *)
LEMMA InitGrounded == ColdPathInit => Grounded
<1> SUFFICES ASSUME ColdPathInit PROVE Grounded
  OBVIOUS
<1>1. /\ Operating /\ active_chains = Chains /\ decommissioned_chains = {} /\ cycle = Idle
      /\ coldMempool = {} /\ rebalance_ops = <<>> /\ burner = <<>> /\ disturbances = <<>>
  BY DEF ColdPathInit, ServiceInit
<1>2. Around
  BY <1>1, ColdPathAssumption DEF Around, Operating
<1>3. CycleOK(cycle) /\ Hand(cycle, rebalance_ops)
  BY <1>1, IdleFacts DEF Hand, InHand
<1>4. Sent(coldMempool, rebalance_ops) /\ IsFiniteSet(coldMempool)
  BY <1>1, FS_EmptySet DEF Sent
<1>5. rebalances = <<>>
  BY <1>1 DEF Operating
<1>6. Books
  BY <1>1, <1>3, <1>4, <1>5, ColdPathAssumption DEF Books
<1>7. QED
  BY <1>2, <1>6 DEF Grounded

(* The first part of the invariant holds throughout. *)
LEMMA ColdPathGrounded == ColdPathSpec => []Grounded
<1>1. Grounded /\ [ColdPathNext]_allVars => Grounded'
  BY StepEffect
<1>2. QED
  BY <1>1, InitGrounded, PTL DEF ColdPathSpec

(* It implies the types, *)
LEMMA GroundedTyped == Grounded => ColdPathTypeOK
<1> SUFFICES ASSUME Grounded PROVE ColdPathTypeOK
  OBVIOUS
<1>1. Typed(cycle)
  BY DEF Grounded, Books, CycleOK
<1>2. cycle.at \in 1..(Len(cycle.ops) + 1)
  BY <1>1 DEF Typed
<1>3. QED
  BY <1>1, <1>2 DEF Grounded, Around, Books, Typed, PCs, ColdPathTypeOK, Sent

(* and that plans are exact. *)
LEMMA GroundedExact == Grounded => PlansAreExact
<1> SUFFICES ASSUME Grounded, cycle.ops # <<>>
             PROVE  /\ Exact(cycle.ops, cycle.depths, target_depth(cycle.depths), COLD_PATH_MAX_WEI)
                    /\ AllPlansAreExact
  BY DEF PlansAreExact
<1> DEFINE d == cycle.depths
           w == cycle.ops
<1>1. /\ d \in [DOMAIN d -> Nat] /\ DOMAIN d \subseteq Chains /\ any_deficit(d)
      /\ w \in plans(d, target_depth(d), COLD_PATH_MAX_WEI)
  BY DEF Grounded, Books, CycleOK, Typed, Planned
<1> HIDE DEF d, w
<1>2. Exact(w, d, target_depth(d), COLD_PATH_MAX_WEI)
  BY <1>1, PlanOfCycle
<1>3. AllPlansAreExact
  BY ExactEverywhere, BankAssumption, ColdPathAssumption DEF AllPlansAreExact
<1>4. QED
  BY <1>2, <1>3 DEF d, w

(* The locals of a cycle, the mempool and the table of operations keep their
   types, and there is a log of burns for every rebalance() on chain. *)
THEOREM ColdPathTyped == ColdPathSpec => []ColdPathTypeOK
BY ColdPathGrounded, GroundedTyped, PTL

(* Every plan that a cycle works on is exact for the depths it has read:
   whatever the pools hold when they are read, one after the other, the moves
   of compute_rebalance_ops are those of the reference. *)
THEOREM PlansExact == ColdPathSpec => []PlansAreExact
BY ColdPathGrounded, GroundedExact, PTL

-----------------------------------------------------------------------------
(* What can become of a row: q is what the step leaves of row i, which was r. *)
Live(r) == r.status \in {"pending", "submitted"} /\ ~r.aged
Confirms(i) == i = row /\ cycle.pc = "wait" /\ cycle.receipt = "ok"

(* What may become of a row in one step: it keeps its move, is submitted only by a
   successful receipt, and comes to life only by being admitted. *)
Follows(q, r, i) ==
    /\ SameMove(q, r)
    /\ q.status = "submitted" => r.status = "submitted" \/ Confirms(i)
    /\ q.status = "none" => r.status = "none"
    /\ Live(q) => Live(r)

(* Every effect treats the rows this way. *)
LEMMA RowsFollow ==
  ASSUME Books, Effect
  PROVE  /\ rebalance_ops \in Seq(Row) /\ rebalance_ops' \in Seq(Row)
         /\ Len(rebalance_ops) \in Nat /\ Len(rebalance_ops') \in Nat
         /\ Admitted \/ Len(rebalance_ops') = Len(rebalance_ops)
         /\ Admitted => Len(rebalance_ops') = Len(rebalance_ops) + 1
         /\ \A i \in 1..Len(rebalance_ops) : Follows(rebalance_ops'[i], rebalance_ops[i], i)
<1>1. rebalance_ops \in Seq(Row) /\ Len(rebalance_ops) \in Nat
  BY DEF Books
<1>2. \A r, i : Follows(r, r, i)
  BY DEF Follows, SameMove
<1>3. ASSUME UNCHANGED rebalance_ops
      PROVE  /\ rebalance_ops' \in Seq(Row) /\ Len(rebalance_ops') = Len(rebalance_ops)
             /\ \A i \in 1..Len(rebalance_ops) : Follows(rebalance_ops'[i], rebalance_ops[i], i)
  BY <1>1, <1>2, <1>3
<1>4. ASSUME cycle.pc \in InHand, NEW st \in {"submitted", "failed"}, rebalance_ops' = marked(st),
             st = "submitted" => cycle.pc = "wait" /\ cycle.receipt = "ok"
      PROVE  /\ rebalance_ops' \in Seq(Row) /\ Len(rebalance_ops') = Len(rebalance_ops)
             /\ \A i \in 1..Len(rebalance_ops) : Follows(rebalance_ops'[i], rebalance_ops[i], i)
  <2>1. Len(rebalance_ops) # 0 /\ rebalance_ops[row].status # "failed"
    BY <1>4 DEF Books, Hand, row
  <2>2. /\ rebalance_ops' \in Seq(Row) /\ Len(rebalance_ops') = Len(rebalance_ops)
        /\ row \in 1..Len(rebalance_ops)
        /\ \A k \in 1..Len(rebalance_ops) : k # row => rebalance_ops'[k] = rebalance_ops[k]
        /\ SameMove(rebalance_ops'[row], rebalance_ops[row])
        /\ rebalance_ops'[row].aged = rebalance_ops[row].aged
        /\ rebalance_ops'[row].status = IF rebalance_ops[row].status = "none" THEN "none" ELSE st
    BY <1>1, <1>4, <2>1, MarkedRows DEF row
  <2>3. rebalance_ops[row].status \in {"none", "pending", "submitted"}
    BY <1>1, <2>1, <2>2, RowFields
  <2>4. Follows(rebalance_ops'[row], rebalance_ops[row], row)
    BY <1>4, <2>2, <2>3 DEF Follows, Live, Confirms
  <2>5. QED
    BY <1>2, <2>2, <2>4
<1>5. CASE Admitted
  <2>1. PICK r \in Row : rebalance_ops' = Append(rebalance_ops, r)
    BY <1>5 DEF Admitted
  <2>2. /\ rebalance_ops' \in Seq(Row) /\ Len(rebalance_ops') = Len(rebalance_ops) + 1
        /\ \A i \in 1..Len(rebalance_ops) : rebalance_ops'[i] = rebalance_ops[i]
    BY <1>1, <2>1, RowInserted
  <2>3. QED
    BY <1>1, <1>2, <1>5, <2>2
<1>6. ASSUME GivenUp
      PROVE  /\ rebalance_ops' \in Seq(Row) /\ Len(rebalance_ops') = Len(rebalance_ops)
             /\ \A i \in 1..Len(rebalance_ops) : Follows(rebalance_ops'[i], rebalance_ops[i], i)
  BY <1>1, <1>4, <1>6 DEF GivenUp
<1>7. ASSUME Landed
      PROVE  /\ rebalance_ops' \in Seq(Row) /\ Len(rebalance_ops') = Len(rebalance_ops)
             /\ \A i \in 1..Len(rebalance_ops) : Follows(rebalance_ops'[i], rebalance_ops[i], i)
  BY <1>1, <1>3, <1>4, <1>7 DEF Landed, InHand
<1>8. ASSUME NEW i \in 1..Len(rebalance_ops), Aging(i)
      PROVE  /\ rebalance_ops' \in Seq(Row) /\ Len(rebalance_ops') = Len(rebalance_ops)
             /\ \A k \in 1..Len(rebalance_ops) : Follows(rebalance_ops'[k], rebalance_ops[k], k)
  <2>1. /\ rebalance_ops' \in Seq(Row) /\ Len(rebalance_ops') = Len(rebalance_ops)
        /\ \A k \in 1..Len(rebalance_ops) : k # i => rebalance_ops'[k] = rebalance_ops[k]
        /\ SameMove(rebalance_ops'[i], rebalance_ops[i]) /\ rebalance_ops'[i].aged
        /\ rebalance_ops'[i].status = rebalance_ops[i].status
    BY <1>1, <1>8, AgedRows DEF Aging
  <2>2. Follows(rebalance_ops'[i], rebalance_ops[i], i)
    BY <2>1 DEF Follows, Live
  <2>3. QED
    BY <1>2, <2>1, <2>2
<1>9. CASE Quiet \/ Parted \/ Failing \/ Again \/ Sending \/ \E x \in coldMempool : Included(x) \/ Dropped(x)
  <2>1. UNCHANGED rebalance_ops
    BY <1>9 DEF Quiet, Parted, Failing, Again, Sending, Included, Dropped
  <2>2. ~Admitted
    BY <1>1, <2>1 DEF Admitted
  <2>3. QED
    BY <1>1, <1>3, <2>1, <2>2
<1>10. Admitted => Len(rebalance_ops') = Len(rebalance_ops) + 1
  BY <1>5
<1>11. QED
  BY <1>1, <1>5, <1>6, <1>7, <1>8, <1>9, <1>10 DEF Effect

(* A burn is only logged, by a transaction that was included. *)
LEMMA BurnsFollow ==
  ASSUME Books, Effect
  PROVE  \/ UNCHANGED <<burner, rebalances>>
         \/ \E x \in coldMempool : Included(x) /\ Burned(x)
BY DEF Effect, Quiet, Admitted, Parted, Failing, GivenUp, Again, Sending, Landed, Included, Dropped, Aging

(* A cycle that has just learned of a receipt has it from a transaction of its
   own; else it knew it before. *)
LEMMA ReceiptFollows ==
  ASSUME Books, Effect, cycle'.pc = "wait", cycle'.receipt = "ok"
  PROVE  /\ row' = row /\ cycle.pc = "wait" /\ cycle'.chunk = cycle.chunk
         /\ \/ cycle.receipt = "ok"
            \/ \E x \in coldMempool : Included(x) /\ Burned(x) /\ x = currentTx
<1>1. ~Admitted /\ Len(rebalance_ops') = Len(rebalance_ops)
  BY RowsFollow DEF Admitted
<1>2. row' = row
  BY <1>1 DEF row
<1>3. CASE UNCHANGED cycle
  BY <1>2, <1>3
<1>4. CASE cycle' # cycle
  <2>1. ~Quiet /\ ~Parted /\ ~Failing /\ ~GivenUp /\ ~Again /\ ~Sending /\ ~Landed
    BY <1>4 DEF Quiet, Parted, Failing, GivenUp, Again, Sending, Landed, Away
  <2>2. PICK x \in coldMempool : Included(x)
    BY <1>1, <1>4, <2>1 DEF Effect, Aging, Dropped
  <2>3. Burned(x) /\ x = currentTx /\ cycle.pc = "wait" /\ SameTx
    BY <1>4, <2>2 DEF Included, Burned, Notified
  <2>4. QED
    BY <1>2, <2>2, <2>3 DEF SameTx
<1>5. QED
  BY <1>3, <1>4

(* The burns so far are those of the table's rows. *)
Burnt(i, log) == \E b \in 1..Len(log) : log[b].op = i

(* Every burn in the history is one of its operation: same chains, no more than its
   amount. *)
Traced ==
    \A b \in 1..Len(burner) :
        LET i == burner[b].op IN
        /\ i <= Len(rebalance_ops)
        /\ rebalances[b].src = rebalance_ops[i].src /\ rebalances[b].dst = rebalance_ops[i].dst
        /\ rebalances[b].amount <= rebalance_ops[i].amount

(* A submitted row has a burn, and so has the row whose receipt is at hand. *)
Confirmed ==
    /\ \A i \in 1..Len(rebalance_ops) : rebalance_ops[i].status = "submitted" => Burnt(i, burner)
    /\ cycle.pc = "wait" /\ cycle.receipt = "ok" => Burnt(row, burner)

(* While the database answers, every operation has a row, and at most one of a
   pair is in flight. *)
Exclusive ==
    DatabaseAnswers =>
        /\ \A i \in 1..Len(rebalance_ops) : rebalance_ops[i].status # "none"
        /\ \A i, k \in 1..Len(rebalance_ops) :
              /\ Live(rebalance_ops[i]) /\ Live(rebalance_ops[k])
              /\ rebalance_ops[i].src = rebalance_ops[k].src
              /\ rebalance_ops[i].dst = rebalance_ops[k].dst
              => i = k

(* Whether the database has failed is known from the disturbances. *)
LEMMA DatabaseAnswered ==
  ASSUME Around, Later
  PROVE  /\ DatabaseAnswers' => DatabaseAnswers
         /\ Disturbed("db") => ~DatabaseAnswers'
<1>1. disturbances \in Seq(Disturbances)
  BY DEF Around
<1>2. ASSUME NEW kind, Disturbed(kind)
      PROVE  /\ \A i \in DOMAIN disturbances : i \in DOMAIN disturbances' /\ disturbances'[i] = disturbances[i]
             /\ \E i \in DOMAIN disturbances' : disturbances'[i] = kind
  <2>1. disturbances' = Append(disturbances, kind)
    BY <1>2 DEF Disturbed
  <2>2. Len(disturbances) \in Nat /\ DOMAIN disturbances = 1..Len(disturbances)
    BY <1>1
  <2>3. /\ DOMAIN disturbances' = 1..(Len(disturbances) + 1)
        /\ disturbances'[Len(disturbances) + 1] = kind
        /\ \A i \in 1..Len(disturbances) : disturbances'[i] = disturbances[i]
    BY <1>1, <2>1
  <2>4. QED
    BY <2>2, <2>3
<1>3. QED
  BY <1>2 DEF Later, Undisturbed, DatabaseAnswers

(* The table, the mempool and the burns under every effect. *)
LEMMA TracedKeeps ==
  ASSUME Grounded, Effect, Traced
  PROVE  Traced'
<1>1. /\ rebalance_ops \in Seq(Row) /\ rebalance_ops' \in Seq(Row)
      /\ Len(rebalance_ops) \in Nat /\ Len(rebalance_ops') \in Nat
      /\ Len(rebalance_ops) <= Len(rebalance_ops')
      /\ \A i \in 1..Len(rebalance_ops) : SameMove(rebalance_ops'[i], rebalance_ops[i])
  BY RowsFollow DEF Follows, Grounded
<1>2. burner \in Seq(Burn) /\ Len(burner) = Len(rebalances) /\ rebalances \in Seq(Rebalance)
      /\ Sent(coldMempool, rebalance_ops)
  BY DEF Grounded, Around, Books, TypeOK, ColdType
<1>3. ASSUME NEW b \in 1..Len(burner)
      PROVE  /\ burner[b].op \in 1..Len(rebalance_ops) /\ burner[b].op <= Len(rebalance_ops')
             /\ rebalances[b].src = rebalance_ops'[burner[b].op].src
             /\ rebalances[b].dst = rebalance_ops'[burner[b].op].dst
             /\ rebalances[b].amount <= rebalance_ops'[burner[b].op].amount
  <2>1. burner[b] \in Burn
    BY <1>2
  <2>2. burner[b].op \in Nat /\ burner[b].op # 0
    BY <2>1, ColdPathAssumption DEF Burn
  <2> DEFINE i == burner[b].op
  <2>3. /\ i <= Len(rebalance_ops) /\ rebalances[b].src = rebalance_ops[i].src
        /\ rebalances[b].dst = rebalance_ops[i].dst /\ rebalances[b].amount <= rebalance_ops[i].amount
    BY DEF Traced
  <2> HIDE DEF i
  <2>4. i \in 1..Len(rebalance_ops) /\ i <= Len(rebalance_ops')
    BY <1>1, <2>2, <2>3 DEF i
  <2>5. QED
    BY <1>1, <2>3, <2>4 DEF SameMove, i
<1>4. CASE UNCHANGED <<burner, rebalances>>
  BY <1>3, <1>4 DEF Traced
<1>5. ASSUME NEW x \in coldMempool, Included(x), Burned(x) PROVE Traced'
  <2> DEFINE w == [op |-> x.op, chunk |-> x.chunk]
  <2>1. PICK q : /\ rebalances' = Append(rebalances, q) /\ q.amount = x.amount
                 /\ q.src = rebalance_ops[x.op].src /\ q.dst = rebalance_ops[x.op].dst
    BY <1>5 DEF Burned
  <2>2. burner' = Append(burner, w) /\ w.op = x.op
    BY <1>5 DEF Burned
  <2>3. x.op <= Len(rebalance_ops) /\ x.amount <= rebalance_ops[x.op].amount
    BY <1>2 DEF Sent
  <2>4. UNCHANGED rebalance_ops
    BY <1>5 DEF Included
  <2> HIDE DEF w
  <2>5. /\ Len(burner') = Len(burner) + 1 /\ burner'[Len(burner) + 1] = w
        /\ \A b \in 1..Len(burner) : burner'[b] = burner[b]
        /\ rebalances'[Len(burner) + 1] = q
        /\ \A b \in 1..Len(burner) : rebalances'[b] = rebalances[b]
        /\ Len(burner) \in Nat
    BY <1>2, <2>1, <2>2
  <2>6. ASSUME NEW b \in 1..Len(burner')
        PROVE  /\ burner'[b].op <= Len(rebalance_ops')
               /\ rebalances'[b].src = rebalance_ops'[burner'[b].op].src
               /\ rebalances'[b].dst = rebalance_ops'[burner'[b].op].dst
               /\ rebalances'[b].amount <= rebalance_ops'[burner'[b].op].amount
    <3>1. CASE b = Len(burner) + 1
      BY <2>1, <2>2, <2>3, <2>4, <2>5, <3>1
    <3>2. CASE b # Len(burner) + 1
      <4>1. b \in 1..Len(burner)
        BY <2>5, <3>2
      <4>2. QED
        BY <1>3, <2>5, <4>1
    <3>3. QED
      BY <3>1, <3>2
  <2>7. QED
    BY <2>6 DEF Traced
<1>6. QED
  BY <1>4, <1>5, BurnsFollow DEF Grounded

(* A row that has a burn keeps it. *)
LEMMA BurntGrows ==
  ASSUME Books, Effect
  PROVE  /\ \A i : Burnt(i, burner) => Burnt(i, burner')
         /\ \A x : Burned(x) => Burnt(x.op, burner')
<1>1. burner \in Seq(Burn)
  BY DEF Books
<1>2. ASSUME NEW x, Burned(x)
      PROVE  Burnt(x.op, burner') /\ \A i : Burnt(i, burner) => Burnt(i, burner')
  <2> DEFINE w == [op |-> x.op, chunk |-> x.chunk]
  <2>1. burner' = Append(burner, w) /\ w.op = x.op
    BY <1>2 DEF Burned
  <2> HIDE DEF w
  <2>2. /\ Len(burner') = Len(burner) + 1 /\ burner'[Len(burner) + 1] = w
        /\ \A b \in 1..Len(burner) : burner'[b] = burner[b]
        /\ Len(burner) \in Nat
    BY <1>1, <2>1
  <2>3. Len(burner) + 1 \in 1..Len(burner') /\ 1..Len(burner) \subseteq 1..Len(burner')
    BY <2>2
  <2>4. QED
    BY <2>1, <2>2, <2>3 DEF Burnt
<1>3. QED
  BY <1>2, BurnsFollow

(* Every effect keeps submitted rows burned. *)
LEMMA ConfirmedKeeps ==
  ASSUME Books, Effect, Confirmed
  PROVE  Confirmed'
<1>1. ASSUME NEW i \in 1..Len(rebalance_ops'), rebalance_ops'[i].status = "submitted"
      PROVE  Burnt(i, burner')
  <2>1. i \in 1..Len(rebalance_ops)
    <3>1. CASE Admitted
      <4>1. PICK r \in Row : rebalance_ops' = Append(rebalance_ops, r) /\ r.status # "submitted"
        BY <3>1 DEF Admitted
      <4>2. /\ Len(rebalance_ops') = Len(rebalance_ops) + 1 /\ Len(rebalance_ops) \in Nat
            /\ rebalance_ops'[Len(rebalance_ops')] = r
        BY <4>1, RowInserted DEF Books
      <4>3. QED
        BY <1>1, <4>1, <4>2
    <3>2. CASE ~Admitted
      BY <3>2, RowsFollow
    <3>3. QED
      BY <3>1, <3>2
  <2>2. rebalance_ops[i].status = "submitted" \/ Confirms(i)
    BY <1>1, <2>1, RowsFollow DEF Follows
  <2>3. Burnt(i, burner)
    BY <2>1, <2>2 DEF Confirmed, Confirms
  <2>4. QED
    BY <2>3, BurntGrows
<1>2. ASSUME cycle'.pc = "wait", cycle'.receipt = "ok" PROVE Burnt(row', burner')
  <2>1. row' = row /\ cycle.pc = "wait"
    BY <1>2, ReceiptFollows
  <2>2. CASE cycle.receipt = "ok"
    BY <2>1, <2>2, BurntGrows DEF Confirmed
  <2>3. ASSUME NEW x \in coldMempool, Burned(x), x = currentTx PROVE Burnt(row', burner')
    <3>1. x.op = row
      BY <2>1, <2>3, CurrentTx
    <3>2. QED
      BY <2>1, <2>3, <3>1, BurntGrows
  <2>4. QED
    BY <1>2, <2>2, <2>3, ReceiptFollows
<1>3. QED
  BY <1>1, <1>2 DEF Confirmed

(* Every effect only adds to the disturbances. *)
LEMMA EffectLater == Effect => Later
BY DisturbedLater DEF Effect, Quiet, Admitted, Parted, Failing, GivenUp, MaybeSent, Missed, Again, Sending, Landed, Included,
   Dropped, Aging, Later, Undisturbed

(* Every effect keeps live rows of a pair of chains single. *)
LEMMA ExclusiveKeeps ==
  ASSUME Grounded, Effect, Exclusive
  PROVE  Exclusive'
<1> SUFFICES ASSUME DatabaseAnswers'
             PROVE  /\ \A i \in 1..Len(rebalance_ops') : rebalance_ops'[i].status # "none"
                    /\ \A i, k \in 1..Len(rebalance_ops') :
                          /\ Live(rebalance_ops'[i]) /\ Live(rebalance_ops'[k])
                          /\ rebalance_ops'[i].src = rebalance_ops'[k].src
                          /\ rebalance_ops'[i].dst = rebalance_ops'[k].dst
                          => i = k
  BY DEF Exclusive, Live
<1>1. DatabaseAnswers /\ ~Disturbed("db")
  BY EffectLater, DatabaseAnswered DEF Grounded
<1>2. /\ \A i \in 1..Len(rebalance_ops) : rebalance_ops[i].status # "none"
      /\ \A i, k \in 1..Len(rebalance_ops) :
            /\ Live(rebalance_ops[i]) /\ Live(rebalance_ops[k])
            /\ rebalance_ops[i].src = rebalance_ops[k].src
            /\ rebalance_ops[i].dst = rebalance_ops[k].dst
            => i = k
  BY <1>1 DEF Exclusive
<1>3. /\ rebalance_ops \in Seq(Row) /\ Len(rebalance_ops) \in Nat
      /\ Admitted \/ Len(rebalance_ops') = Len(rebalance_ops)
      /\ \A i \in 1..Len(rebalance_ops) : Follows(rebalance_ops'[i], rebalance_ops[i], i)
  BY RowsFollow DEF Grounded
<1>4. \A i \in 1..Len(rebalance_ops) :
         /\ rebalance_ops'[i].status # "none"
         /\ Live(rebalance_ops'[i]) => Live(rebalance_ops[i])
         /\ rebalance_ops'[i].src = rebalance_ops[i].src /\ rebalance_ops'[i].dst = rebalance_ops[i].dst
  BY <1>2, <1>3 DEF Follows, SameMove
<1>5. CASE ~Admitted
  BY <1>2, <1>3, <1>4, <1>5
<1>6. CASE Admitted
  <2>1. PICK r \in Row : /\ rebalance_ops' = Append(rebalance_ops, r)
                         /\ r.status = "pending" /\ ~op_in_flight(r.src, r.dst)
    BY <1>1, <1>6 DEF Admitted
  <2>2. /\ Len(rebalance_ops') = Len(rebalance_ops) + 1
        /\ rebalance_ops'[Len(rebalance_ops')] = r
    BY <1>3, <2>1, RowInserted
  <2>3. \A i \in 1..Len(rebalance_ops) :
           ~(Live(rebalance_ops[i]) /\ rebalance_ops[i].src = r.src /\ rebalance_ops[i].dst = r.dst)
    BY <1>3, <2>1 DEF op_in_flight, Live
  <2>4. \A i \in 1..Len(rebalance_ops') : i # Len(rebalance_ops') => i \in 1..Len(rebalance_ops)
    BY <1>3, <2>2
  <2>5. \A i \in 1..Len(rebalance_ops') : rebalance_ops'[i].status # "none"
    BY <1>4, <2>1, <2>2, <2>4
  <2>6. ASSUME NEW i \in 1..Len(rebalance_ops'), NEW k \in 1..Len(rebalance_ops'),
               Live(rebalance_ops'[i]), Live(rebalance_ops'[k]),
               rebalance_ops'[i].src = rebalance_ops'[k].src,
               rebalance_ops'[i].dst = rebalance_ops'[k].dst
        PROVE  i = k
    <3>1. CASE i = Len(rebalance_ops') \/ k = Len(rebalance_ops')
      BY <1>4, <2>2, <2>3, <2>4, <2>6, <3>1
    <3>2. CASE i # Len(rebalance_ops') /\ k # Len(rebalance_ops')
      BY <1>2, <1>4, <2>4, <2>6, <3>2
    <3>3. QED
      BY <3>1, <3>2
  <2>7. QED
    BY <2>5, <2>6
<1>7. QED
  BY <1>5, <1>6

-----------------------------------------------------------------------------
(* How often a chunk was tried: the burns that carry its stamp, and the
   transactions for it that are still in the mempool. *)
Stamp(i, ch) == [op |-> i, chunk |-> ch]
Stamped(i, ch, log) == {b \in 1..Len(log) : log[b] = Stamp(i, ch)}
Waiting(i, ch, txs) == {x \in txs : x.op = i /\ x.chunk = ch}
Tries(i, ch, txs, log) == Cardinality(Stamped(i, ch, log)) + Cardinality(Waiting(i, ch, txs))

(* What the service may have missed. *)
Misses(log) == {d \in DOMAIN log : log[d] \in {"rpc", "timeout"}}

(* An entry of the history names one chunk of one operation. *)
LEMMA StampEq == \A i, k, ch, cq : Stamp(i, ch) = Stamp(k, cq) <=> i = k /\ ch = cq
BY DEF Stamp

(* A sequence of stamps that grows by one. *)
LEMMA StampedAppend ==
  ASSUME NEW log \in Seq(Burn), NEW i, NEW ch, NEW w, NEW more, more = Append(log, w)
  PROVE  /\ IsFiniteSet(Stamped(i, ch, log)) /\ Cardinality(Stamped(i, ch, log)) \in Nat
         /\ w # Stamp(i, ch) => Cardinality(Stamped(i, ch, more)) = Cardinality(Stamped(i, ch, log))
         /\ w = Stamp(i, ch) => Cardinality(Stamped(i, ch, more)) = Cardinality(Stamped(i, ch, log)) + 1
<1>1. /\ Len(log) \in Nat /\ Len(more) = Len(log) + 1 /\ more[Len(log) + 1] = w
      /\ \A b \in 1..Len(log) : more[b] = log[b]
  OBVIOUS
<1> DEFINE n == Len(log)
           S == Stamped(i, ch, log)
<1>2. IsFiniteSet(1..n)
  <2>1. 1 \in Int /\ n \in Int
    BY <1>1
  <2> HIDE DEF n
  <2>2. QED
    BY <2>1, FS_Interval
<1>3. IsFiniteSet(S) /\ n + 1 \notin S
  BY <1>1, <1>2, FS_Subset DEF Stamped
<1>4. Cardinality(S) \in Nat
  BY <1>3, FS_CardinalityType
<1>5. CASE w # Stamp(i, ch)
  <2>1. Stamped(i, ch, more) = S
    BY <1>1, <1>5 DEF Stamped
  <2>2. QED
    BY <1>3, <1>4, <1>5, <2>1
<1>6. CASE w = Stamp(i, ch)
  <2>1. Stamped(i, ch, more) = S \cup {n + 1}
    <3>1. 1..Len(more) = 1..n \cup {n + 1}
      BY <1>1
    <3>2. \A b \in 1..n : b # n + 1 /\ (more[b] = Stamp(i, ch) <=> log[b] = Stamp(i, ch))
      BY <1>1
    <3>3. more[n + 1] = Stamp(i, ch)
      BY <1>1, <1>6
    <3> HIDE DEF n
    <3>4. QED
      BY <3>1, <3>2, <3>3 DEF Stamped, n
  <2> HIDE DEF S, n
  <2>2. Cardinality(S \cup {n + 1}) = Cardinality(S) + 1
    BY <1>3, FS_AddElement
  <2>3. QED
    BY <1>3, <1>4, <1>6, <2>1, <2>2 DEF S
<1>7. QED
  BY <1>5, <1>6

(* A transaction enters the mempool, or leaves it. *)
LEMMA WaitingAdd ==
  ASSUME NEW txs, IsFiniteSet(txs), NEW i, NEW ch, NEW x
  PROVE  /\ IsFiniteSet(Waiting(i, ch, txs)) /\ Cardinality(Waiting(i, ch, txs)) \in Nat
         /\ Cardinality(Waiting(i, ch, txs \cup {x})) \in Nat
         /\ Cardinality(Waiting(i, ch, txs \cup {x})) <= Cardinality(Waiting(i, ch, txs)) + 1
         /\ x.op # i \/ x.chunk # ch
               => Cardinality(Waiting(i, ch, txs \cup {x})) = Cardinality(Waiting(i, ch, txs))
<1> DEFINE S == Waiting(i, ch, txs)
           T == Waiting(i, ch, txs \cup {x})
<1>1. IsFiniteSet(S)
  BY FS_Subset DEF Waiting
<1>2. Cardinality(S) \in Nat
  BY <1>1, FS_CardinalityType
<1>3. CASE x.op = i /\ x.chunk = ch
  <2>1. T = S \cup {x}
    BY <1>3 DEF Waiting
  <2> HIDE DEF S, T
  <2>2. Cardinality(S \cup {x}) = IF x \in S THEN Cardinality(S) ELSE Cardinality(S) + 1
    BY <1>1, FS_AddElement
  <2>3. QED
    BY <1>1, <1>2, <1>3, <2>1, <2>2 DEF S, T
<1>4. CASE ~(x.op = i /\ x.chunk = ch)
  <2>1. T = S
    BY <1>4 DEF Waiting
  <2>2. QED
    BY <1>1, <1>2, <1>4, <2>1
<1>5. QED
  BY <1>3, <1>4

(* A transaction that leaves the mempool leaves one wait less. *)
LEMMA WaitingRemove ==
  ASSUME NEW txs, IsFiniteSet(txs), NEW i, NEW ch, NEW x \in txs
  PROVE  /\ Cardinality(Waiting(i, ch, txs)) \in Nat
         /\ Cardinality(Waiting(i, ch, txs \ {x})) \in Nat
         /\ x.op = i /\ x.chunk = ch
               => Cardinality(Waiting(i, ch, txs)) = Cardinality(Waiting(i, ch, txs \ {x})) + 1
         /\ x.op # i \/ x.chunk # ch
               => Cardinality(Waiting(i, ch, txs \ {x})) = Cardinality(Waiting(i, ch, txs))
<1> DEFINE S == Waiting(i, ch, txs)
           T == Waiting(i, ch, txs \ {x})
<1>1. IsFiniteSet(S)
  BY FS_Subset DEF Waiting
<1>2. Cardinality(S) \in Nat
  BY <1>1, FS_CardinalityType
<1>3. CASE x.op = i /\ x.chunk = ch
  <2>1. T = S \ {x} /\ x \in S
    BY <1>3 DEF Waiting
  <2> HIDE DEF S, T
  <2>2. Cardinality(S \ {x}) = Cardinality(S) - 1 /\ IsFiniteSet(S \ {x})
    BY <1>1, <2>1, FS_RemoveElement
  <2>3. Cardinality(T) \in Nat
    BY <2>1, <2>2, FS_CardinalityType
  <2>4. Cardinality(S) = Cardinality(T) + 1
    BY <1>2, <2>1, <2>2
  <2>5. QED
    BY <1>2, <1>3, <2>3, <2>4 DEF S, T
<1>4. CASE ~(x.op = i /\ x.chunk = ch)
  <2>1. T = S
    BY <1>4 DEF Waiting
  <2>2. QED
    BY <1>1, <1>2, <1>4, <2>1
<1>5. QED
  BY <1>3, <1>4

(* What the service may have missed grows with every "rpc" and "timeout". *)
LEMMA MissesGrow ==
  ASSUME disturbances \in Seq(Disturbances), Later
  PROVE  /\ Cardinality(Misses(disturbances)) \in Nat /\ Cardinality(Misses(disturbances')) \in Nat
         /\ Cardinality(Misses(disturbances)) <= Cardinality(Misses(disturbances'))
         /\ Disturbed("rpc") \/ Disturbed("timeout")
              => Cardinality(Misses(disturbances')) = Cardinality(Misses(disturbances)) + 1
<1> DEFINE n == Len(disturbances)
           S == Misses(disturbances)
           T == Misses(disturbances')
<1>1. n \in Nat /\ DOMAIN disturbances = 1..n
  OBVIOUS
<1>2. IsFiniteSet(1..n)
  <2>1. 1 \in Int /\ n \in Int
    BY <1>1
  <2> HIDE DEF n
  <2>2. QED
    BY <2>1, FS_Interval
<1>3. IsFiniteSet(S) /\ n + 1 \notin S
  BY <1>1, <1>2, FS_Subset DEF Misses
<1>4. Cardinality(S) \in Nat
  BY <1>3, FS_CardinalityType
<1>5. ASSUME NEW kind, Disturbed(kind)
      PROVE  T = IF kind \in {"rpc", "timeout"} THEN S \cup {n + 1} ELSE S
  <2>1. disturbances' = Append(disturbances, kind)
    BY <1>5 DEF Disturbed
  <2>2. /\ DOMAIN disturbances' = 1..(n + 1) /\ disturbances'[n + 1] = kind
        /\ \A d \in 1..n : disturbances'[d] = disturbances[d]
    BY <2>1
  <2>3. 1..(n + 1) = 1..n \cup {n + 1} /\ \A d \in 1..n : d # n + 1
    BY <1>1
  <2> HIDE DEF n
  <2>4. QED
    BY <1>1, <2>2, <2>3 DEF Misses
<1>6. Undisturbed => T = S
  BY DEF Undisturbed
<1> HIDE DEF S, T, n
<1>7. Cardinality(S \cup {n + 1}) = Cardinality(S) + 1
  BY <1>3, FS_AddElement
<1>8. Disturbed("rpc") \/ Disturbed("timeout") => T = S \cup {n + 1}
  BY <1>5
<1>9. T = S \/ T = S \cup {n + 1}
  BY <1>5, <1>6 DEF Later
<1> DEFINE U == S \cup {n + 1}
<1>a. /\ Cardinality(U) = Cardinality(S) + 1 /\ (T = S \/ T = U)
      /\ Disturbed("rpc") \/ Disturbed("timeout") => T = U
  BY <1>7, <1>8, <1>9
<1> HIDE DEF U
<1>10. /\ Cardinality(T) \in Nat /\ Cardinality(S) <= Cardinality(T)
       /\ Disturbed("rpc") \/ Disturbed("timeout") => Cardinality(T) = Cardinality(S) + 1
  BY <1>4, <1>a
<1>11. QED
  BY <1>4, <1>10 DEF S, T

(* How often a chunk may have been tried (t), given the answers missed so far
   (m), the last row (r), the cycle (y), and whether the receipt of the current
   transaction, a success or still to come, allows for one try more (e). *)
Within(i, ch, t, m, r, y, e) ==
    /\ t <= MAX_RETRIES /\ t <= m + 1
    /\ i > r => t = 0
    /\ i = r /\ y.pc = "cap" => t = 0
    /\ i = r /\ y.pc \in {"submit", "wait"} /\ ch > y.chunk => t = 0
    /\ i = r /\ y.pc = "submit" /\ ch = y.chunk => t <= y.attempt - 1 /\ t <= m
    /\ i = r /\ y.pc = "wait" /\ ch = y.chunk => t <= y.attempt /\ t <= m + e

(* Whether the attempt at hand may have or get its burn. *)
Hope == IF cycle.receipt = "ok" \/ (cycle.receipt = "none" /\ currentTx \in coldMempool) THEN 1 ELSE 0

(* The bound for every chunk of every operation. *)
Counted ==
    \A i, ch \in Nat \ {0} :
        Within(i, ch, Tries(i, ch, coldMempool, burner), Cardinality(Misses(disturbances)),
               row, cycle, Hope)

(* The numbers of Within are natural numbers. *)
LEMMA WithinTypes ==
  ASSUME Grounded
  PROVE  /\ row \in Nat /\ cycle.chunk \in Nat /\ cycle.attempt \in Nat /\ cycle.attempt <= MAX_RETRIES
         /\ MAX_RETRIES \in Nat /\ Hope \in {0, 1}
BY ColdPathAssumption DEF Grounded, Books, CycleOK, Typed, row, Hope

(* The mempool and the burns under each effect. *)
LEMMA TriesMore ==
  ASSUME Books, NEW i, NEW ch
  PROVE  /\ Tries(i, ch, coldMempool, burner) \in Nat
         /\ Tries(i, ch, coldMempool \cup {currentTx}, burner) \in Nat
         /\ Tries(i, ch, coldMempool \cup {currentTx}, burner) <= Tries(i, ch, coldMempool, burner) + 1
         /\ cycle.pc = "submit" /\ ~(i = row /\ ch = cycle.chunk)
               => Tries(i, ch, coldMempool \cup {currentTx}, burner) = Tries(i, ch, coldMempool, burner)
<1> DEFINE A == Cardinality(Stamped(i, ch, burner))
           B == Cardinality(Waiting(i, ch, coldMempool))
           C == Cardinality(Waiting(i, ch, coldMempool \cup {currentTx}))
<1>1. IsFiniteSet(coldMempool) /\ burner \in Seq(Burn)
  BY DEF Books
<1>2. A \in Nat
  BY <1>1, StampedAppend
<1>3. /\ B \in Nat /\ C \in Nat /\ C <= B + 1
      /\ currentTx.op # i \/ currentTx.chunk # ch => C = B
  BY <1>1, WaitingAdd
<1>4. cycle.pc = "submit" => currentTx.op = row /\ currentTx.chunk = cycle.chunk
  BY CurrentTx
<1>5. /\ Tries(i, ch, coldMempool, burner) = A + B
      /\ Tries(i, ch, coldMempool \cup {currentTx}, burner) = A + C
  BY DEF Tries
<1> HIDE DEF A, B, C
<1>6. QED
  BY <1>2, <1>3, <1>4, <1>5

(* Including or dropping a transaction adds no try, and reverting or dropping one
   takes it away. *)
LEMMA TriesLess ==
  ASSUME Books, NEW i, NEW ch, NEW x \in coldMempool, NEW more,
         more = burner \/ more = Append(burner, Stamp(x.op, x.chunk))
  PROVE  /\ Tries(i, ch, coldMempool \ {x}, more) \in Nat
         /\ Tries(i, ch, coldMempool \ {x}, more) <= Tries(i, ch, coldMempool, burner)
         /\ more = burner /\ i = x.op /\ ch = x.chunk
               => Tries(i, ch, coldMempool \ {x}, more) + 1 <= Tries(i, ch, coldMempool, burner)
<1> DEFINE A == Cardinality(Stamped(i, ch, burner))
           D == Cardinality(Stamped(i, ch, more))
           B == Cardinality(Waiting(i, ch, coldMempool))
           C == Cardinality(Waiting(i, ch, coldMempool \ {x}))
           w == Stamp(x.op, x.chunk)
<1>1. IsFiniteSet(coldMempool) /\ burner \in Seq(Burn)
  BY DEF Books
<1>2. A \in Nat
  BY <1>1, StampedAppend
<1>3. w = Stamp(i, ch) <=> x.op = i /\ x.chunk = ch
  BY StampEq
<1> HIDE DEF w
<1>4. \/ more = burner /\ D = A
      \/ more = Append(burner, w) /\ D = IF w = Stamp(i, ch) THEN A + 1 ELSE A
  <2>1. CASE more = burner
    BY <2>1
  <2>2. CASE more = Append(burner, w)
    BY <1>1, <2>2, StampedAppend, ZenonT(40)
  <2>3. QED
    BY <2>1, <2>2 DEF w
<1>5. /\ B \in Nat /\ C \in Nat
      /\ x.op = i /\ x.chunk = ch => B = C + 1
      /\ x.op # i \/ x.chunk # ch => C = B
  BY <1>1, WaitingRemove
<1>6. /\ Tries(i, ch, coldMempool, burner) = A + B
      /\ Tries(i, ch, coldMempool \ {x}, more) = D + C
  BY DEF Tries
<1>7. more = burner => D = A
  OBVIOUS
<1> HIDE DEF A, B, C, D
<1>8. QED
  BY <1>2, <1>3, <1>4, <1>5, <1>6, <1>7

(* Every effect keeps the count: a try is added only when a transaction is
   sent, and a retry costs an answer or a receipt that was missed. *)
LEMMA CountedKeeps ==
  ASSUME Grounded, Effect, Grounded', Counted
  PROVE  Counted'
<1> SUFFICES ASSUME NEW i \in Nat \ {0}, NEW ch \in Nat \ {0}
             PROVE  Within(i, ch, Tries(i, ch, coldMempool', burner'),
                           Cardinality(Misses(disturbances')), row', cycle', Hope')
  BY DEF Counted
<1> DEFINE t == Tries(i, ch, coldMempool, burner)
           t2 == Tries(i, ch, coldMempool', burner')
           m == Cardinality(Misses(disturbances))
           m2 == Cardinality(Misses(disturbances'))
           h == Hope'
           Goal == Within(i, ch, t2, m2, row', cycle', h)
<1>1. Within(i, ch, t, m, row, cycle, Hope)
  BY DEF Counted
<1>2. /\ row \in Nat /\ cycle.chunk \in Nat /\ cycle.attempt \in Nat /\ cycle.attempt <= MAX_RETRIES
      /\ MAX_RETRIES \in Nat /\ Hope \in {0, 1}
  BY WithinTypes
<1>3. row' \in Nat /\ cycle'.chunk \in Nat /\ cycle'.attempt \in Nat /\ h \in {0, 1}
  <2>1. (row \in Nat /\ cycle.chunk \in Nat /\ cycle.attempt \in Nat /\ Hope \in {0, 1})'
    BY ColdPathAssumption, SMTT(30) DEF Grounded, Books, CycleOK, Typed, row, Hope
  <2>2. QED
    BY <2>1
<1>4. /\ m \in Nat /\ m2 \in Nat /\ m <= m2
      /\ Disturbed("rpc") \/ Disturbed("timeout") => m2 = m + 1
  BY EffectLater, MissesGrow DEF Grounded, Around
<1>5. t \in Nat
  BY TriesMore DEF Grounded
<1>6. ASSUME UNCHANGED <<coldMempool, burner>> PROVE t2 = t
  BY <1>6
<1>7. ASSUME cycle.pc = "submit", coldMempool' \in {coldMempool, coldMempool \cup {currentTx}}, UNCHANGED burner
      PROVE  t2 \in Nat /\ t2 <= t + 1 /\ (~(i = row /\ ch = cycle.chunk) => t2 = t)
  <2>1. coldMempool' = coldMempool => t2 = t
    BY <1>7
  <2>2. CASE coldMempool' = coldMempool \cup {currentTx}
    <3>1. t2 = Tries(i, ch, coldMempool \cup {currentTx}, burner)
      BY <1>7, <2>2
    <3>2. QED
      BY <1>7, <3>1, TriesMore DEF Grounded
  <2>3. QED
    BY <1>5, <1>7, <2>1, <2>2
<1>8. ASSUME UNCHANGED <<cycle, rebalance_ops, coldMempool>> PROVE h = Hope
  BY <1>8 DEF Hope, currentTx, row
<1>9. Admitted \/ row' = row
  BY RowsFollow DEF Grounded, row
<1> HIDE DEF t, t2, m, m2, h
<1>h. h \in Nat
  BY <1>3
<1>10. ASSUME Quiet PROVE Goal
  <2>1. t2 = t /\ row' = row /\ ((cycle' = cycle /\ h = Hope) \/ cycle'.pc \in Away)
    BY <1>6, <1>8, <1>10 DEF Quiet, row
  <2>2. QED
    BY <1>1, <1>2, <1>4, <1>5, <2>1 DEF Within, Away
<1>11. ASSUME Admitted PROVE Goal
  <2>1. t2 = t /\ row' = row + 1 /\ cycle'.pc = "cap"
    BY <1>6, <1>11, RowsFollow DEF Admitted, Grounded, row
  <2>2. i >= row + 1 => t = 0
    BY <1>1, <1>2 DEF Within
  <2>3. QED
    BY <1>1, <1>2, <1>4, <1>5, <2>1, <2>2 DEF Within
<1>12. ASSUME Parted PROVE Goal
  <2>1. /\ t2 = t /\ row' = row /\ cycle.pc = "cap" /\ cycle'.pc = "submit" /\ cycle'.chunk = 1
        /\ cycle'.attempt = 1
    BY <1>6, <1>12 DEF Parted, row
  <2>2. QED
    BY <1>1, <1>2, <1>4, <1>5, <2>1 DEF Within
<1>13. ASSUME GivenUp PROVE Goal
  <2>1. row' = row /\ cycle'.pc \in Away /\ t2 = t
    BY <1>6, <1>9, <1>13 DEF GivenUp, Admitted, Away
  <2>2. QED
    BY <1>1, <1>2, <1>4, <1>5, <2>1 DEF Within, Away
<1>f. ASSUME Failing PROVE Goal
  <2>1. row' = row /\ cycle'.pc = "fail" /\ UNCHANGED burner
    BY <1>f DEF Failing, row
  <2>2. CASE UNCHANGED coldMempool
    BY <1>1, <1>2, <1>4, <1>5, <1>6, <2>1, <2>2 DEF Within
  <2>3. CASE MaybeSent
    <3>1. /\ cycle.pc = "submit" /\ t2 \in Nat /\ t2 <= t + 1
          /\ ~(i = row /\ ch = cycle.chunk) => t2 = t
      BY <1>7, <2>1, <2>3 DEF MaybeSent
    <3>2. QED
      BY <1>1, <1>2, <1>4, <1>5, <2>1, <3>1 DEF Within
  <2>4. QED
    BY <1>f, <2>2, <2>3 DEF Failing
<1>14. ASSUME Again PROVE Goal
  <2>1. /\ row' = row /\ cycle'.pc = "submit" /\ UNCHANGED burner
        /\ cycle'.chunk = cycle.chunk /\ cycle'.attempt = cycle.attempt + 1
    BY <1>14 DEF Again, row
  <2>2. CASE MaybeSent
    <3>1. /\ cycle.pc = "submit" /\ t2 \in Nat /\ t2 <= t + 1 /\ m2 = m + 1
          /\ ~(i = row /\ ch = cycle.chunk) => t2 = t
      BY <1>4, <1>7, <2>1, <2>2 DEF MaybeSent
    <3>2. QED
      BY <1>1, <1>2, <1>4, <1>5, <2>1, <3>1 DEF Within
  <2>3. CASE Missed
    <3>1. cycle.pc = "wait" /\ t2 = t /\ (Hope = 0 \/ m2 = m + 1)
      BY <1>4, <1>6, <2>1, <2>3 DEF Missed, Hope
    <3>2. QED
      BY <1>1, <1>2, <1>4, <1>5, <2>1, <3>1 DEF Within
  <2>4. QED
    BY <1>14, <2>2, <2>3 DEF Again
<1>15. ASSUME Sending PROVE Goal
  <2>1. /\ row' = row /\ cycle.pc = "submit" /\ cycle'.pc = "wait"
        /\ cycle'.chunk = cycle.chunk /\ cycle'.attempt = cycle.attempt
        /\ t2 \in Nat /\ t2 <= t + 1 /\ (~(i = row /\ ch = cycle.chunk) => t2 = t)
    BY <1>7, <1>15 DEF Sending, SameTx, row
  <2>2. currentTx' = currentTx
    BY <1>15, <2>1 DEF currentTx, Sending, SameTx
  <2>3. h = 1
    BY <1>15, <2>2 DEF Hope, Sending, h
  <2>4. QED
    BY <1>1, <1>2, <1>4, <1>5, <2>1, <2>3 DEF Within
<1>16. ASSUME Landed PROVE Goal
  <2>1. /\ row' = row /\ cycle.pc = "wait" /\ t2 = t
        /\ \/ cycle'.pc \in Away
           \/ cycle'.pc = "submit" /\ cycle'.chunk = cycle.chunk + 1 /\ cycle'.attempt = 1
    BY <1>6, <1>9, <1>16 DEF Landed, Admitted
  <2>2. QED
    BY <1>1, <1>2, <1>4, <1>5, <2>1 DEF Within, Away
<1>17. ASSUME NEW x \in coldMempool, Included(x) PROVE Goal
  <2>1. coldMempool' = coldMempool \ {x} /\ row' = row /\ UNCHANGED <<rebalance_ops, disturbances>>
    BY <1>17 DEF Included, row
  <2>2. /\ t2 \in Nat /\ t2 <= t
        /\ UNCHANGED burner /\ i = x.op /\ ch = x.chunk => t2 + 1 <= t
    <3>1. burner' = burner \/ burner' = Append(burner, Stamp(x.op, x.chunk))
      BY <1>17 DEF Included, Burned, Stamp
    <3>2. QED
      BY <2>1, <3>1, TriesLess DEF Grounded, t, t2
  <2>3. m2 = m
    BY <2>1 DEF m, m2
  <2>4. CASE ~(cycle.pc = "wait" /\ x = currentTx)
    <3>1. UNCHANGED cycle
      BY <1>17, <2>4 DEF Included, Burned, Notified
    <3>2. currentTx' = currentTx
      BY <2>1, <3>1 DEF currentTx
    <3>3. cycle.pc = "wait" => h = Hope
      BY <2>1, <2>4, <3>1, <3>2 DEF Hope, h
    <3>4. i = row /\ cycle.pc = "wait" /\ ch = cycle.chunk => t2 <= m2 + h
      BY <1>1, <1>2, <1>4, <1>5, <2>2, <2>3, <3>3 DEF Within
    <3>a. /\ i \in Nat /\ ch \in Nat /\ t \in Nat /\ t2 \in Nat /\ t2 <= t /\ m \in Nat /\ m2 \in Nat
          /\ m <= m2 /\ row \in Nat /\ Hope \in {0, 1} /\ h \in {0, 1}
          /\ cycle.chunk \in Nat /\ cycle.attempt \in Nat /\ Within(i, ch, t, m, row, cycle, Hope)
          /\ cycle'.pc = cycle.pc /\ cycle'.chunk = cycle.chunk /\ cycle'.attempt = cycle.attempt
          /\ (i = row /\ cycle.pc = "wait" /\ ch = cycle.chunk => t2 <= m2 + h)
      BY <1>1, <1>2, <1>3, <1>4, <1>5, <2>2, <3>1, <3>4
    <3>5. Within(i, ch, t2, m2, row, cycle', h)
      BY <1>2, <3>a DEF Within
    <3>6. QED
      BY <2>1, <3>5
  <2>5. CASE cycle.pc = "wait" /\ x = currentTx
    <3>1. /\ cycle'.pc = "wait" /\ cycle'.chunk = cycle.chunk /\ cycle'.attempt = cycle.attempt
          /\ cycle'.receipt = "ok" \/ UNCHANGED burner
      BY <1>17, <2>5 DEF Included, Burned, Notified, SameTx
    <3>2. x.op = row /\ x.chunk = cycle.chunk
      BY <2>5, CurrentTx DEF Grounded
    <3>3. cycle'.receipt = "ok" => h = 1
      BY DEF Hope, h
    <3>4. i = row /\ ch = cycle.chunk => t2 <= m2 + h
      <4>1. t <= m + 1
        BY <1>1 DEF Within
      <4>2. CASE cycle'.receipt = "ok"
        BY <1>4, <1>5, <2>2, <2>3, <3>3, <4>1, <4>2
      <4>3. CASE UNCHANGED burner
        BY <1>3, <1>h, <1>4, <1>5, <2>2, <2>3, <3>2, <4>1, <4>3
      <4>4. QED
        BY <3>1, <4>2, <4>3
    <3>5. cycle'.pc = cycle.pc
      BY <2>5, <3>1
    <3>a. /\ i \in Nat /\ ch \in Nat /\ t \in Nat /\ t2 \in Nat /\ t2 <= t /\ m \in Nat /\ m2 \in Nat
          /\ m <= m2 /\ row \in Nat /\ Hope \in {0, 1} /\ h \in {0, 1}
          /\ cycle.chunk \in Nat /\ cycle.attempt \in Nat /\ Within(i, ch, t, m, row, cycle, Hope)
          /\ cycle'.pc = cycle.pc /\ cycle'.chunk = cycle.chunk /\ cycle'.attempt = cycle.attempt
          /\ (i = row /\ cycle.pc = "wait" /\ ch = cycle.chunk => t2 <= m2 + h)
      BY <1>1, <1>2, <1>3, <1>4, <1>5, <2>2, <3>1, <3>4, <3>5
    <3>6. Within(i, ch, t2, m2, row, cycle', h)
      BY <1>2, <3>a DEF Within
    <3>7. QED
      BY <2>1, <3>6
  <2>6. QED
    BY <2>4, <2>5
<1>18. ASSUME NEW x \in coldMempool, Dropped(x) PROVE Goal
  <2>1. /\ coldMempool' = coldMempool \ {x} /\ row' = row /\ UNCHANGED <<rebalance_ops, burner, cycle>>
        /\ m2 = m + 1
    BY <1>4, <1>18 DEF Dropped, row
  <2>2. t2 \in Nat /\ t2 <= t
    BY <2>1, TriesLess DEF Grounded, t, t2
  <2>3. t2 <= m2 + h
    BY <1>1, <1>3, <1>h, <1>4, <1>5, <2>1, <2>2 DEF Within
  <2>a. /\ i \in Nat /\ ch \in Nat /\ t \in Nat /\ t2 \in Nat /\ t2 <= t /\ m \in Nat /\ m2 \in Nat
        /\ m <= m2 /\ row \in Nat /\ Hope \in {0, 1} /\ h \in {0, 1}
        /\ cycle.chunk \in Nat /\ cycle.attempt \in Nat /\ Within(i, ch, t, m, row, cycle, Hope)
        /\ cycle'.pc = cycle.pc /\ cycle'.chunk = cycle.chunk /\ cycle'.attempt = cycle.attempt
        /\ (i = row /\ cycle.pc = "wait" /\ ch = cycle.chunk => t2 <= m2 + h)
    BY <1>1, <1>2, <1>3, <1>4, <1>5, <2>1, <2>2, <2>3
  <2>4. Within(i, ch, t2, m2, row, cycle', h)
    BY <1>2, <2>a DEF Within
  <2>5. QED
    BY <2>1, <2>4
<1>19. ASSUME NEW k \in 1..Len(rebalance_ops), Aging(k) PROVE Goal
  <2>1. t2 = t /\ UNCHANGED <<cycle, coldMempool>>
    BY <1>6, <1>19 DEF Aging
  <2>2. row' = row
    BY <1>9, <2>1 DEF Admitted
  <2>3. h = Hope
    BY <2>1, <2>2 DEF Hope, currentTx, h
  <2>4. QED
    BY <1>1, <1>2, <1>4, <1>5, <2>1, <2>2, <2>3 DEF Within
<1>20. Goal
  BY <1>10, <1>11, <1>12, <1>13, <1>f, <1>14, <1>15, <1>16, <1>17, <1>18, <1>19 DEF Effect
<1>21. QED
  BY <1>20 DEF t2, m2, h

-----------------------------------------------------------------------------
(* The inductive invariant of the cold path. *)
ColdInv == Grounded /\ Traced /\ Confirmed /\ Exclusive /\ Counted

(* Banks in use and a service that has just started satisfy the invariant. *)
LEMMA InitCold == ColdPathInit => ColdInv
<1> SUFFICES ASSUME ColdPathInit PROVE ColdInv
  OBVIOUS
<1>1. /\ cycle = Idle /\ coldMempool = {} /\ rebalance_ops = <<>> /\ burner = <<>> /\ disturbances = <<>>
  BY DEF ColdPathInit, ServiceInit
<1>2. cycle.pc = "idle"
  BY <1>1, IdleFacts
<1>3. Len(<<>>) = 0 /\ 1..0 = {} /\ DOMAIN <<>> = {}
  OBVIOUS
<1>4. Traced /\ Confirmed /\ Exclusive
  BY <1>1, <1>2, <1>3 DEF Traced, Confirmed, Exclusive
<1>5. ASSUME NEW i \in Nat \ {0}, NEW ch \in Nat \ {0}
      PROVE  Within(i, ch, Tries(i, ch, coldMempool, burner), Cardinality(Misses(disturbances)),
                    row, cycle, Hope)
  <2>1. Stamped(i, ch, burner) = {} /\ Waiting(i, ch, coldMempool) = {} /\ Misses(disturbances) = {}
    BY <1>1, <1>3 DEF Stamped, Waiting, Misses
  <2>2. Cardinality({}) = 0
    BY FS_EmptySet
  <2>3. Tries(i, ch, coldMempool, burner) = 0 /\ Cardinality(Misses(disturbances)) = 0
    BY <2>1, <2>2 DEF Tries
  <2>4. MAX_RETRIES \in Nat
    BY ColdPathAssumption
  <2>5. QED
    BY <1>2, <2>3, <2>4 DEF Within
<1>6. QED
  BY <1>4, <1>5, InitGrounded DEF ColdInv, Counted

(* Every step of the composition keeps it. *)
LEMMA NextCold == ColdInv /\ [ColdPathNext]_allVars => ColdInv'
<1> SUFFICES ASSUME ColdInv, [ColdPathNext]_allVars PROVE ColdInv'
  OBVIOUS
<1>1. Grounded /\ Traced /\ Confirmed /\ Exclusive /\ Counted /\ Books
  BY DEF ColdInv, Grounded
<1>2. Grounded' /\ Effect
  BY <1>1, StepEffect
<1>3. Traced' /\ Confirmed' /\ Exclusive' /\ Counted'
  BY <1>1, <1>2, TracedKeeps, ConfirmedKeeps, ExclusiveKeeps, CountedKeeps
<1>4. QED
  BY <1>2, <1>3 DEF ColdInv

(* It holds throughout. *)
LEMMA ColdPathInvariant == ColdPathSpec => []ColdInv
BY InitCold, NextCold, PTL DEF ColdPathSpec

(* It implies that submitted rows were burned, *)
LEMMA ConfirmedBurned == ColdInv => SubmittedMeansBurned
<1> SUFFICES ASSUME ColdInv, NEW i \in DOMAIN rebalance_ops, rebalance_ops[i].status = "submitted"
             PROVE  BurnsOf(i) # {}
  BY DEF SubmittedMeansBurned
<1>1. i \in 1..Len(rebalance_ops) /\ DOMAIN burner = 1..Len(burner)
  BY DEF ColdInv, Grounded, Books
<1>2. Burnt(i, burner)
  BY <1>1 DEF ColdInv, Confirmed
<1>3. QED
  BY <1>1, <1>2 DEF Burnt, BurnsOf

(* that one operation is in flight, *)
LEMMA ExclusiveOne == ColdInv => OneOpInFlight
<1> SUFFICES ASSUME ColdInv PROVE OneOpInFlight
  OBVIOUS
<1>1. DOMAIN rebalance_ops = 1..Len(rebalance_ops) /\ Exclusive
  BY DEF ColdInv, Grounded, Books
<1>2. QED
  BY <1>1 DEF Exclusive, OneOpInFlight, Live

(* and that burns are accounted for. *)
LEMMA CountedAccounted == ColdInv => BurnsAreAccountedFor
<1> SUFFICES ASSUME ColdInv PROVE BurnsAreAccountedFor
  OBVIOUS
<1>1. /\ burner \in Seq(Burn) /\ DOMAIN burner = 1..Len(burner)
      /\ IsFiniteSet(coldMempool) /\ Traced /\ Counted /\ Exclusive
      /\ rebalance_ops \in Seq(Row) /\ disturbances \in Seq(Disturbances)
  BY DEF ColdInv, Grounded, Around, Books
<1> DEFINE m == Cardinality(Misses(disturbances))
<1>2. m \in Nat
  <2>1. IsFiniteSet(1..Len(disturbances))
    <3>1. 1 \in Int /\ Len(disturbances) \in Int
      BY <1>1
    <3>2. QED
      BY <3>1, FS_Interval
  <2>2. Misses(disturbances) \subseteq 1..Len(disturbances)
    BY <1>1 DEF Misses
  <2>3. QED
    BY <2>1, <2>2, FS_Subset, FS_CardinalityType
<1>3. ASSUME NEW b \in DOMAIN burner
      PROVE  LET i == burner[b].op IN
             /\ rebalances[b].src = rebalance_ops[i].src /\ rebalances[b].dst = rebalance_ops[i].dst
             /\ rebalances[b].amount <= rebalance_ops[i].amount
             /\ Cardinality(Burns(i, burner[b].chunk)) <= least(1 + m, MAX_RETRIES)
             /\ DatabaseAnswers => rebalance_ops[i].status # "none"
  <2> DEFINE i == burner[b].op
             ch == burner[b].chunk
  <2>1. burner[b] \in Burn /\ b \in 1..Len(burner)
    BY <1>1
  <2>2. i \in Nat \ {0} /\ ch \in Nat \ {0}
    BY <2>1, ColdPathAssumption DEF Burn
  <2>3. /\ i <= Len(rebalance_ops)
        /\ rebalances[b].src = rebalance_ops[i].src /\ rebalances[b].dst = rebalance_ops[i].dst
        /\ rebalances[b].amount <= rebalance_ops[i].amount
    BY <1>1, <2>1 DEF Traced
  <2>4. Burns(i, ch) = Stamped(i, ch, burner)
    BY <1>1 DEF Burns, Stamped, Stamp
  <2> HIDE DEF i, ch, m
  <2>5. Within(i, ch, Tries(i, ch, coldMempool, burner), m, row, cycle, Hope)
    BY <1>1, <2>2 DEF Counted, m
  <2>6. Cardinality(Stamped(i, ch, burner)) \in Nat /\ Cardinality(Waiting(i, ch, coldMempool)) \in Nat
    BY <1>1, StampedAppend, WaitingAdd
  <2>7. Cardinality(Stamped(i, ch, burner)) <= Tries(i, ch, coldMempool, burner)
        /\ Tries(i, ch, coldMempool, burner) \in Nat
    BY <2>6 DEF Tries
  <2>8. MAX_RETRIES \in Nat
    BY ColdPathAssumption
  <2>9. Cardinality(Burns(i, ch)) <= least(1 + m, MAX_RETRIES)
    BY <1>2, <2>4, <2>5, <2>6, <2>7, <2>8 DEF Within, least
  <2>10. DatabaseAnswers => rebalance_ops[i].status # "none"
    BY <1>1, <2>2, <2>3 DEF Exclusive
  <2>11. QED
    BY <2>3, <2>9, <2>10 DEF i, ch
<1>4. QED
  BY <1>3 DEF BurnsAreAccountedFor, Misses, m

(* A row says "submitted" only if a chunk of it was burned on chain, whatever
   was lost, dropped, late or restarted in between (awaitReceipt,
   update_rebalance_op_submitted). *)
THEOREM SubmittedAreBurned == ColdPathSpec => []SubmittedMeansBurned
BY ColdPathInvariant, ConfirmedBurned, PTL

(* At most one operation of a pair of chains is in flight while the database
   answers, for every number of cycles and restarts (op_in_flight). *)
THEOREM OneInFlight == ColdPathSpec => []OneOpInFlight
BY ColdPathInvariant, ExclusiveOne, PTL

(* A chunk is burned at most MAX_RETRIES times, once more than the service has
   missed an answer or a receipt, for the pair and within the amount of its
   row; late transactions of earlier attempts, operations and processes are
   counted (submit_rebalance_with_retry). *)
THEOREM BurnsAccounted == ColdPathSpec => []BurnsAreAccountedFor
BY ColdPathInvariant, CountedAccounted, PTL

-----------------------------------------------------------------------------
(* The Banks under the cold path. *)

(* An included rebalance() is a call with the move of its row. *)
LEMMA IncludeCalls ==
  ASSUME Grounded, NEW x \in coldMempool, includeRebalance(x)
  PROVE  BankCall \/ UNCHANGED bankVars
<1> DEFINE o == rebalance_ops[x.op]
<1>1. rebalance_ops \in Seq(Row) /\ Sent(coldMempool, rebalance_ops)
  BY DEF Grounded, Books
<1>2. x.op \in 1..Len(rebalance_ops) /\ x.amount \in Nat
  BY <1>1, TxFields DEF Sent
<1>3. o \in Row
  BY <1>1, <1>2
<1>4. o.src \in Chains /\ o.dst \in Chains
  BY <1>3, RowFields
<1>5. rebalance(o.src, o.dst, x.amount) \/ UNCHANGED bankVars
  BY DEF includeRebalance
<1> HIDE DEF o
<1>6. QED
  BY <1>2, <1>4, <1>5 DEF BankCall, TreasuryCall

(* Whatever the cold path does, the Banks see calls of theirs. *)
LEMMA ColdPathCalls == Grounded /\ [ColdPathNext]_allVars => [BankCall]_bankVars
<1> SUFFICES ASSUME Grounded, [ColdPathNext]_allVars PROVE BankCall \/ UNCHANGED bankVars
  OBVIOUS
<1>1. CASE LedgerStep
  <2>1. CASE \E c \in Chains, u \in Users, amount \in Amounts : seedPool(c, u, amount)
    BY <2>1, BankAssumption DEF BankCall, UserCall
  <2>2. CASE RelayerStep \/ \E i \in DOMAIN rebalances : ccipReceive(rebalances[i])
    BY <2>2 DEF BankCall, DeliveryStep
  <2>3. QED
    BY <1>1, <2>1, <2>2 DEF LedgerStep
<1>2. CASE \E c \in Chains, m \in Caps : setCap(c, m)
  BY <1>2 DEF setCap, BankCall, GovernanceStep
<1>3. CASE CycleStep
  BY <1>3 DEF CycleStep, startCycle, readDepth, checkOp, readCap, submit, awaitReceipt, recordFailure, Service
<1>4. CASE \E x \in coldMempool : includeRebalance(x)
  BY <1>4, IncludeCalls
<1>5. CASE \/ \E x \in coldMempool : dropRebalance(x)
           \/ \E i \in DOMAIN rebalance_ops : age(i)
           \/ \E S \in Activations : learnActivation(S)
           \/ \E c \in Decommissionable : learnDecommission(c)
           \/ restart
  BY <1>5 DEF dropRebalance, age, learnActivation, learnDecommission, restart
<1>6. CASE UNCHANGED allVars
  BY <1>6 DEF allVars
<1>7. QED
  BY <1>1, <1>2, <1>3, <1>4, <1>5, <1>6 DEF ColdPathNext

(* The Banks stay safe under the cold path: liquidity that run_rebalance_cycle
   burns stays on the books until CCIP delivers it, however often a chunk is
   retried, and hot-path transfers stay covered while it travels. *)
THEOREM ColdPathIsSafe ==
  ColdPathSpec => [](Backed /\ TransfersCovered /\ SupplyIsHeld /\ IdsAreUnique)
<1>1. ColdPathInit => BankInv
  BY OperatingKept DEF ColdPathInit
<1>2. Grounded /\ BankInv /\ [ColdPathNext]_allVars => BankInv'
  BY ColdPathCalls, CallKeeps
<1>3. ColdPathSpec => []BankInv
  BY <1>1, <1>2, ColdPathGrounded, PTL DEF ColdPathSpec
<1>4. QED
  BY <1>3, BankInvFacts, PTL
=============================================================================
