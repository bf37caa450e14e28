--------------------------- MODULE RebalancePlan ----------------------------
(***************************************************************************)
(* How the Treasury plans the moves between chains (domain/rebalance.rs),  *)
(* for pool liquidity (cold path) and for USDC reserves (reserve path).    *)
(* The caller pairs every chain's excess over the target with the          *)
(* shortfalls of the others; compute_rebalance_ops matches them greedily,  *)
(* largest first, and cuts every move at max_per_op.                       *)
(*                                                                         *)
(* Callers iterate over a HashMap, so the order of chains with the same    *)
(* amount is arbitrary: a plan is any member of plans(...).                *)
(***************************************************************************)
EXTENDS Integers, Sequences, FiniteSets, Sums

least(a, b) == IF a <= b THEN a ELSE b

(* The chains of amt, largest amount first (sort_by_key Reverse), ties in any
   order.  amt maps chains to positive amounts. *)
sortedBy(amt) ==
    {o \in [1..Cardinality(DOMAIN amt) -> DOMAIN amt] :
        /\ {o[i] : i \in DOMAIN o} = DOMAIN amt
        /\ \A i, j \in DOMAIN o : i < j => amt[o[i]] >= amt[o[j]]}

(* The loop of compute_rebalance_ops over the surplus chains o and the deficit
   chains p; s holds its locals: what remains, the two indices, the moves. *)
step_Uncapped(o, p, max_per_op, s) ==
    LET amount == least(s.sur[o[s.si]], s.def[p[s.di]])
    IN  [s EXCEPT !.sur[o[s.si]] = @ - amount, !.def[p[s.di]] = @ - amount,
                  !.ops = Append(@, [src |-> o[s.si], dst |-> p[s.di], amount |-> amount])]

step(o, p, max_per_op, s) ==
    LET amount == least(least(s.sur[o[s.si]], s.def[p[s.di]]), max_per_op)
    IN  [s EXCEPT !.sur[o[s.si]] = @ - amount, !.def[p[s.di]] = @ - amount,
                  !.ops = Append(@, [src |-> o[s.si], dst |-> p[s.di], amount |-> amount])]

(* The locals the loop can have. *)
Locals(surplus, deficit) ==
    [sur : [DOMAIN surplus -> Nat], def : [DOMAIN deficit -> Nat],
     si : Nat \ {0}, di : Nat \ {0},
     ops : Seq([src : DOMAIN surplus, dst : DOMAIN deficit, amount : Nat \ {0}])]

(* One iteration; nothing happens any more once the loop has ended.  An index
   that a move leaves on an empty chain is advanced by the next iteration. *)
iteration(o, p, surplus, deficit, max_per_op) ==
    [s \in Locals(surplus, deficit) |->
        IF s.si > Len(o) \/ s.di > Len(p) THEN s
        ELSE IF s.sur[o[s.si]] = 0 THEN [s EXCEPT !.si = @ + 1]
        ELSE IF s.def[p[s.di]] = 0 THEN [s EXCEPT !.di = @ + 1]
        ELSE step(o, p, max_per_op, s)]

(* s, f[s], f[f[s]], ... *)
Iterates(f, s, n) == LET a[k \in 0..n] == IF k = 0 THEN s ELSE f[a[k - 1]] IN a

(* Every iteration leaves a chain behind or moves something. *)
iterations(o, p, surplus) == Total([i \in 1..Len(o) |-> surplus[o[i]]], Len(o)) + Len(o) + Len(p)

(* The moves the loop ends with. *)
matchedOps(o, p, surplus, deficit, max_per_op) ==
    LET start == [sur |-> surplus, def |-> deficit, si |-> 1, di |-> 1, ops |-> <<>>]
        n == iterations(o, p, surplus)
    IN  Iterates(iteration(o, p, surplus, deficit, max_per_op), start, n)[n].ops

compute_rebalance_ops(surplus, deficit, max_per_op) ==
    {matchedOps(o, p, surplus, deficit, max_per_op) : o \in sortedBy(surplus), p \in sortedBy(deficit)}

(* The caller's part: what each chain has above or lacks below the target. *)
surpluses(depths, target) ==
    [c \in {x \in DOMAIN depths : depths[x] > target} |-> depths[c] - target]
deficits(depths, target) ==
    [c \in {x \in DOMAIN depths : depths[x] < target} |-> target - depths[c]]

(* Every plan that the planner may compute for these depths. *)
plans(depths, target, max_per_op) ==
    compute_rebalance_ops(surpluses(depths, target), deficits(depths, target), max_per_op)

-----------------------------------------------------------------------------
(* The reference: lay the surpluses end to end on a line, and the deficits on
   another one; what chain o[i] sends to chain p[j] is what their two segments
   have in common. *)
Before(o, amt, i) == Partial([k \in DOMAIN o |-> amt[o[k]]], Len(o))[i]

Overlap(o, surplus, i, p, deficit, j) ==
    LET from(x, y) == IF x >= y THEN x ELSE y
        size == least(Before(o, surplus, i), Before(p, deficit, j))
                    - from(Before(o, surplus, i - 1), Before(p, deficit, j - 1))
    IN  from(size, 0)

Moves(ops, src, dst) == {k \in DOMAIN ops : ops[k].src = src /\ ops[k].dst = dst}

Moved(ops, src, dst) ==
    Total([k \in DOMAIN ops |-> IF k \in Moves(ops, src, dst) THEN ops[k].amount ELSE 0],
          Len(ops))

(* The moves between each pair of chains add up to the reference amount, in
   the fewest positive moves that respect the cap. *)
Exact(ops, depths, target, max_per_op) ==
    LET sur == surpluses(depths, target)
        def == deficits(depths, target)
    IN  /\ \A k \in DOMAIN ops : /\ ops[k].amount \in 1..max_per_op
                                 /\ ops[k].src \in DOMAIN sur /\ ops[k].dst \in DOMAIN def
        /\ \E o \in sortedBy(sur), p \in sortedBy(def) :
              \A i \in DOMAIN o, j \in DOMAIN p :
                 LET a == Overlap(o, sur, i, p, def, j) IN
                 /\ Moved(ops, o[i], p[j]) = a
                 /\ Cardinality(Moves(ops, o[i], p[j])) = (a + max_per_op - 1) \div max_per_op

(* The same for every way to spread up to limit per chain over n chains, for
   every target and every cap. *)
ExactUpTo(n, limit) ==
    \A depths \in [1..n -> 0..limit], goal \in 0..limit, cap \in 1..limit :
        \A ops \in plans(depths, goal, cap) : Exact(ops, depths, goal, cap)
=============================================================================
