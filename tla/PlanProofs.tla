----------------------------- MODULE PlanProofs -----------------------------
(***************************************************************************)
(* The planner of RebalancePlan is exact, for every finite set of chains,  *)
(* distribution of funds, target and cap: what compute_rebalance_ops       *)
(* returns are positive moves from chains above the target to chains below *)
(* it, and they add up to the reference plan.                              *)
(*                                                                         *)
(* The argument: the moves made so far cover the two lines of surpluses    *)
(* and deficits up to the same point, at every iteration of the loop, and  *)
(* an iteration makes a move or passes a chain, so that the loop reaches   *)
(* the end of one of the lines.                                            *)
(*                                                                         *)
(* The loop is a function on its locals, iterated: the recursive equation  *)
(* of Iterates is solved by least counterexample, as that of Partial.      *)
(***************************************************************************)
EXTENDS RebalancePlan, BankProofs, FiniteSetTheorems

(* The equation that Iterates solves. *)
IteratesEqn(f, s, n, a) == a = [k \in 0..n |-> IF k = 0 THEN s ELSE f[a[k - 1]]]

(* A function on a set can be iterated. *)
LEMMA IteratesExists ==
  ASSUME NEW S, NEW s \in S, NEW f \in [S -> S], NEW n \in Nat
  PROVE  \E a \in [0..n -> S] : IteratesEqn(f, s, n, a)
<1> DEFINE T == {m \in 0..n : ~ \E a \in [0..m -> S] : IteratesEqn(f, s, m, a)}
<1> SUFFICES ASSUME T # {} PROVE FALSE
  BY n \in T \/ n \notin T
<1>1. PICK m \in T : \A k \in T : m <= k
  BY LeastNat, T \subseteq Nat
<1>2. m # 0
  <2> DEFINE z == [k \in 0..0 |-> s]
  <2>1. z \in [0..0 -> S] /\ IteratesEqn(f, s, 0, z)
    BY DEF IteratesEqn
  <2>2. QED
    BY <2>1
<1>3. m - 1 \in 0..n /\ m - 1 \notin T
  BY <1>1, <1>2
<1>4. PICK a \in [0..(m-1) -> S] : IteratesEqn(f, s, m - 1, a)
  BY <1>3
<1>5. \A k \in 0..(m-1) : a[k] = IF k = 0 THEN s ELSE f[a[k - 1]]
  <2> DEFINE q == [k \in 0..(m-1) |-> IF k = 0 THEN s ELSE f[a[k - 1]]]
  <2>1. a = q
    BY <1>4 DEF IteratesEqn
  <2>2. \A k \in 0..(m-1) : q[k] = IF k = 0 THEN s ELSE f[a[k - 1]]
    OBVIOUS
  <2> HIDE DEF q
  <2>3. QED
    BY <2>1, <2>2
<1> DEFINE t == [k \in 0..m |-> IF k = m THEN f[a[m - 1]] ELSE a[k]]
<1>6. t \in [0..m -> S]
  BY <1>1, <1>2, <1>4
<1>7. \A k \in 0..m : t[k] = IF k = 0 THEN s ELSE f[t[k - 1]]
  <2> TAKE k \in 0..m
  <2>1. CASE k = m
    BY <1>1, <1>2, <2>1
  <2>2. CASE k # m
    BY <1>1, <1>2, <1>5, <2>2
  <2>3. QED
    BY <2>1, <2>2
<1>8. IteratesEqn(f, s, m, t)
  <2> DEFINE u == [k \in 0..m |-> IF k = 0 THEN s ELSE f[t[k - 1]]]
  <2>1. \A k \in 0..m : t[k] = u[k]
    BY <1>7
  <2>2. DOMAIN t = DOMAIN u
    OBVIOUS
  <2> HIDE DEF t
  <2>3. t = u
    BY <1>6, <2>1, <2>2
  <2>4. QED
    BY <2>3 DEF IteratesEqn
<1>9. QED
  BY <1>1, <1>6, <1>8

(* Iterates is that solution. *)
LEMMA IteratesStep ==
  ASSUME NEW S, NEW s \in S, NEW f \in [S -> S], NEW n \in Nat
  PROVE  \A k \in 0..n : Iterates(f, s, n)[k] = IF k = 0 THEN s ELSE f[Iterates(f, s, n)[k - 1]]
<1> DEFINE P == Iterates(f, s, n)
<1>1. \E a : IteratesEqn(f, s, n, a)
  BY IteratesExists
<1>2. P = CHOOSE a : IteratesEqn(f, s, n, a)
  BY Zenon DEF Iterates, IteratesEqn
<1>3. IteratesEqn(f, s, n, P)
  BY <1>1, <1>2
<1> HIDE DEF P
<1> DEFINE q == [k \in 0..n |-> IF k = 0 THEN s ELSE f[P[k - 1]]]
<1>4. P = q
  BY <1>3 DEF IteratesEqn
<1>5. \A k \in 0..n : q[k] = IF k = 0 THEN s ELSE f[P[k - 1]]
  OBVIOUS
<1> HIDE DEF q
<1>6. \A k \in 0..n : P[k] = IF k = 0 THEN s ELSE f[P[k - 1]]
  BY <1>4, <1>5
<1>7. QED
  BY <1>6 DEF P

(* What holds at first and is kept by f holds of every iterate. *)
LEMMA IteratesInvariant ==
  ASSUME NEW S, NEW s, NEW f \in [S -> S], NEW n \in Nat,
         NEW I \in SUBSET S, s \in I, \A x \in I : f[x] \in I, NEW k \in 0..n
  PROVE  Iterates(f, s, n)[k] \in I
<1> DEFINE P == Iterates(f, s, n)
           T == {m \in 0..n : P[m] \notin I}
<1>0. \A j \in 0..n : P[j] = IF j = 0 THEN s ELSE f[P[j - 1]]
  BY IteratesStep
<1> HIDE DEF P
<1> SUFFICES ASSUME T # {} PROVE FALSE
  BY DEF P
<1>1. PICK m \in T : \A j \in T : m <= j
  BY LeastNat, T \subseteq Nat
<1>2. m # 0
  BY <1>0
<1>3. P[m - 1] \in I
  BY <1>1, <1>2
<1>4. QED
  BY <1>0, <1>1, <1>2, <1>3

-----------------------------------------------------------------------------
(* The fields of the loop's locals. *)
LEMMA LocalsFields ==
  ASSUME NEW surplus, NEW deficit, NEW s \in Locals(surplus, deficit)
  PROVE  /\ s.sur \in [DOMAIN surplus -> Nat] /\ s.def \in [DOMAIN deficit -> Nat]
         /\ s.si \in Nat /\ s.si # 0 /\ s.di \in Nat /\ s.di # 0
         /\ s.ops \in Seq([src : DOMAIN surplus, dst : DOMAIN deficit, amount : Nat \ {0}])
         /\ s = [sur |-> s.sur, def |-> s.def, si |-> s.si, di |-> s.di, ops |-> s.ops]
BY DEF Locals

(* What a move does to the locals. *)
LEMMA StepFacts ==
  ASSUME NEW surplus, NEW deficit, NEW o \in Seq(DOMAIN surplus), NEW p \in Seq(DOMAIN deficit),
         NEW max \in Nat \ {0}, NEW s \in Locals(surplus, deficit), s.si <= Len(o), s.di <= Len(p),
         s.sur[o[s.si]] # 0, s.def[p[s.di]] # 0
  PROVE  \E a \in 1..max :
            /\ o[s.si] \in DOMAIN surplus /\ p[s.di] \in DOMAIN deficit
            /\ a <= s.sur[o[s.si]] /\ a <= s.def[p[s.di]]
            /\ a = max \/ a = s.sur[o[s.si]] \/ a = s.def[p[s.di]]
            /\ step(o, p, max, s) =
                  [sur |-> [s.sur EXCEPT ![o[s.si]] = @ - a],
                   def |-> [s.def EXCEPT ![p[s.di]] = @ - a], si |-> s.si, di |-> s.di,
                   ops |-> Append(s.ops, [src |-> o[s.si], dst |-> p[s.di], amount |-> a])]
            /\ step(o, p, max, s) \in Locals(surplus, deficit)
<1> DEFINE c == o[s.si]
           d == p[s.di]
           a == least(least(s.sur[c], s.def[d]), max)
           move == [src |-> c, dst |-> d, amount |-> a]
           Op == [src : DOMAIN surplus, dst : DOMAIN deficit, amount : Nat \ {0}]
<1>1. /\ s.sur \in [DOMAIN surplus -> Nat] /\ s.def \in [DOMAIN deficit -> Nat]
      /\ s.si \in Nat /\ s.si # 0 /\ s.di \in Nat /\ s.di # 0 /\ s.ops \in Seq(Op)
      /\ s = [sur |-> s.sur, def |-> s.def, si |-> s.si, di |-> s.di, ops |-> s.ops]
  BY LocalsFields
<1>2. c \in DOMAIN surplus /\ d \in DOMAIN deficit
  BY <1>1
<1>3. s.sur[c] \in Nat /\ s.def[d] \in Nat
  BY <1>1, <1>2
<1>4. /\ a \in 1..max /\ a <= s.sur[c] /\ a <= s.def[d]
      /\ a = max \/ a = s.sur[c] \/ a = s.def[d]
  BY <1>3 DEF least
<1>5. step(o, p, max, s) = [s EXCEPT !.sur[c] = @ - a, !.def[d] = @ - a, !.ops = Append(@, move)]
  BY DEF step
<1> HIDE DEF c, d, a
<1>6. move \in Op
  BY <1>2, <1>4
<1> HIDE DEF move, Op
<1> DEFINE sur2 == [s.sur EXCEPT ![c] = @ - a]
           def2 == [s.def EXCEPT ![d] = @ - a]
           ops2 == Append(s.ops, move)
<1>7. /\ sur2 \in [DOMAIN surplus -> Nat] /\ def2 \in [DOMAIN deficit -> Nat] /\ ops2 \in Seq(Op)
  <2>1. s.sur[c] - a \in Nat /\ s.def[d] - a \in Nat
    BY <1>3, <1>4
  <2>2. sur2 \in [DOMAIN surplus -> Nat]
    BY <1>1, <1>2, <2>1
  <2>3. def2 \in [DOMAIN deficit -> Nat]
    BY <1>1, <1>2, <2>1
  <2>4. QED
    BY <1>1, <1>6, <2>2, <2>3
<1>8. step(o, p, max, s) = [sur |-> sur2, def |-> def2, si |-> s.si, di |-> s.di, ops |-> ops2]
  BY <1>1, <1>5
<1> HIDE DEF sur2, def2, ops2
<1>9. [sur |-> sur2, def |-> def2, si |-> s.si, di |-> s.di, ops |-> ops2] \in Locals(surplus, deficit)
  BY <1>1, <1>7 DEF Locals, Op
<1>10. QED
  BY <1>2, <1>4, <1>8, <1>9 DEF c, d, a, sur2, def2, ops2, move

(* The other iterations of the loop. *)
LEMMA SkipFacts ==
  ASSUME NEW surplus, NEW deficit, NEW s \in Locals(surplus, deficit)
  PROVE  /\ [s EXCEPT !.si = @ + 1] =
               [sur |-> s.sur, def |-> s.def, si |-> s.si + 1, di |-> s.di, ops |-> s.ops]
         /\ [s EXCEPT !.di = @ + 1] =
               [sur |-> s.sur, def |-> s.def, si |-> s.si, di |-> s.di + 1, ops |-> s.ops]
         /\ [s EXCEPT !.si = @ + 1] \in Locals(surplus, deficit)
         /\ [s EXCEPT !.di = @ + 1] \in Locals(surplus, deficit)
<1>1. /\ s.sur \in [DOMAIN surplus -> Nat] /\ s.def \in [DOMAIN deficit -> Nat]
      /\ s.si \in Nat /\ s.si # 0 /\ s.di \in Nat /\ s.di # 0
      /\ s.ops \in Seq([src : DOMAIN surplus, dst : DOMAIN deficit, amount : Nat \ {0}])
      /\ s = [sur |-> s.sur, def |-> s.def, si |-> s.si, di |-> s.di, ops |-> s.ops]
  BY LocalsFields
<1>2. s.si + 1 \in Nat \ {0} /\ s.di + 1 \in Nat \ {0}
  BY <1>1
<1>3. /\ [s EXCEPT !.si = @ + 1] =
            [sur |-> s.sur, def |-> s.def, si |-> s.si + 1, di |-> s.di, ops |-> s.ops]
      /\ [s EXCEPT !.di = @ + 1] =
            [sur |-> s.sur, def |-> s.def, si |-> s.si, di |-> s.di + 1, ops |-> s.ops]
  <2>1. s = [sur |-> s.sur, def |-> s.def, si |-> s.si, di |-> s.di, ops |-> s.ops]
    BY <1>1
  <2>2. \A u, v, x, y, z :
          /\ [[sur |-> u, def |-> v, si |-> x, di |-> y, ops |-> z] EXCEPT !.si = @ + 1] =
                [sur |-> u, def |-> v, si |-> x + 1, di |-> y, ops |-> z]
          /\ [[sur |-> u, def |-> v, si |-> x, di |-> y, ops |-> z] EXCEPT !.di = @ + 1] =
                [sur |-> u, def |-> v, si |-> x, di |-> y + 1, ops |-> z]
    OBVIOUS
  <2> DEFINE u == s.sur
             v == s.def
             x == s.si
             y == s.di
             z == s.ops
  <2>3. s = [sur |-> u, def |-> v, si |-> x, di |-> y, ops |-> z]
    BY <2>1
  <2> HIDE DEF u, v, x, y, z
  <2>4. /\ [s EXCEPT !.si = @ + 1] = [sur |-> u, def |-> v, si |-> x + 1, di |-> y, ops |-> z]
        /\ [s EXCEPT !.di = @ + 1] = [sur |-> u, def |-> v, si |-> x, di |-> y + 1, ops |-> z]
    BY <2>2, <2>3
  <2>5. QED
    BY <2>4 DEF u, v, x, y, z
<1>4. QED
  BY <1>1, <1>2, <1>3 DEF Locals

(* The iteration of the loop, and that it keeps the types. *)
LEMMA IterationFacts ==
  ASSUME NEW surplus, NEW deficit, NEW o \in Seq(DOMAIN surplus), NEW p \in Seq(DOMAIN deficit),
         NEW max \in Nat \ {0}
  PROVE  /\ iteration(o, p, surplus, deficit, max)
               \in [Locals(surplus, deficit) -> Locals(surplus, deficit)]
         /\ \A s \in Locals(surplus, deficit) :
               iteration(o, p, surplus, deficit, max)[s] =
                  IF s.si > Len(o) \/ s.di > Len(p) THEN s
                  ELSE IF s.sur[o[s.si]] = 0 THEN [s EXCEPT !.si = @ + 1]
                  ELSE IF s.def[p[s.di]] = 0 THEN [s EXCEPT !.di = @ + 1]
                  ELSE step(o, p, max, s)
<1> DEFINE next(s) == IF s.si > Len(o) \/ s.di > Len(p) THEN s
                      ELSE IF s.sur[o[s.si]] = 0 THEN [s EXCEPT !.si = @ + 1]
                      ELSE IF s.def[p[s.di]] = 0 THEN [s EXCEPT !.di = @ + 1]
                      ELSE step(o, p, max, s)
<1>1. ASSUME NEW s \in Locals(surplus, deficit) PROVE next(s) \in Locals(surplus, deficit)
  <2>0. s.si \in Nat /\ s.di \in Nat
    BY LocalsFields
  <2>1. s.si \in Nat /\ s.di \in Nat /\ Len(o) \in Nat /\ Len(p) \in Nat
    BY <2>0
  <2>2. CASE s.si > Len(o) \/ s.di > Len(p)
    BY <2>2
  <2>3. CASE ~(s.si > Len(o) \/ s.di > Len(p)) /\ s.sur[o[s.si]] = 0
    BY <2>3, SkipFacts
  <2>4. CASE ~(s.si > Len(o) \/ s.di > Len(p)) /\ s.sur[o[s.si]] # 0 /\ s.def[p[s.di]] = 0
    BY <2>4, SkipFacts
  <2>5. CASE ~(s.si > Len(o) \/ s.di > Len(p)) /\ s.sur[o[s.si]] # 0 /\ s.def[p[s.di]] # 0
    <3>1. s.si <= Len(o) /\ s.di <= Len(p)
      BY <2>1, <2>5
    <3>2. step(o, p, max, s) \in Locals(surplus, deficit)
      BY <2>5, <3>1, StepFacts
    <3>3. QED
      BY <2>5, <3>2
  <2>6. QED
    BY <2>2, <2>3, <2>4, <2>5
<1>2. iteration(o, p, surplus, deficit, max) = [s \in Locals(surplus, deficit) |-> next(s)]
  BY DEF iteration
<1> HIDE DEF next
<1>3. /\ iteration(o, p, surplus, deficit, max)
               \in [Locals(surplus, deficit) -> Locals(surplus, deficit)]
      /\ \A s \in Locals(surplus, deficit) : iteration(o, p, surplus, deficit, max)[s] = next(s)
  BY <1>1, <1>2
<1>4. QED
  BY <1>3 DEF next

-----------------------------------------------------------------------------
(* The lines that the reference lays chains on: o lists chains with positive
   amounts, none of them twice. *)
Line(o, amt) ==
    /\ amt \in [DOMAIN amt -> Nat \ {0}] /\ o \in Seq(DOMAIN amt)
    /\ \A i, j \in 1..Len(o) : o[i] = o[j] => i = j

(* Where the segments begin and end. *)
LEMMA LineFacts ==
  ASSUME NEW o, NEW amt, Line(o, amt)
  PROVE  /\ Len(o) \in Nat /\ DOMAIN o = 1..Len(o)
         /\ \A i \in 1..Len(o) : o[i] \in DOMAIN amt /\ amt[o[i]] \in Nat /\ amt[o[i]] # 0
         /\ Before(o, amt, 0) = 0
         /\ \A i \in 0..Len(o) : Before(o, amt, i) \in Int
         /\ \A i \in 1..Len(o) : Before(o, amt, i) = Before(o, amt, i - 1) + amt[o[i]]
         /\ \A i, j \in 0..Len(o) : i <= j => Before(o, amt, i) <= Before(o, amt, j)
         /\ Total([i \in 1..Len(o) |-> amt[o[i]]], Len(o)) = Before(o, amt, Len(o))
<1> DEFINE n == Len(o)
           f == [k \in 1..n |-> amt[o[k]]]
           B(i) == Before(o, amt, i)
<1>1. n \in Nat /\ DOMAIN o = 1..n
  BY DEF Line
<1>2. \A i \in 1..n : o[i] \in DOMAIN amt /\ amt[o[i]] \in Nat /\ amt[o[i]] # 0
  BY DEF Line
<1> HIDE DEF n
<1>3. f \in [1..n -> Int] /\ \A i \in 1..n : f[i] = amt[o[i]]
  BY <1>2
<1>4. \A i : B(i) = Partial(f, n)[i]
  BY <1>1 DEF Before, n
<1> HIDE DEF f, B
<1>5. \A i \in 0..n : B(i) = IF i = 0 THEN 0 ELSE B(i - 1) + f[i]
  BY <1>1, <1>3, <1>4, PartialStep
<1>6. \A i \in 0..n : B(i) \in Int
  BY <1>1, <1>3, <1>4, PartialInt
<1>7. B(0) = 0 /\ \A i \in 1..n : B(i) = B(i - 1) + amt[o[i]]
  BY <1>1, <1>3, <1>5
<1>8. ASSUME NEW i \in 0..n, NEW j \in 0..n, i <= j PROVE B(i) <= B(j)
  <2> DEFINE T == {m \in 0..n : i <= m /\ ~(B(i) <= B(m))}
  <2> SUFFICES ASSUME T # {} PROVE FALSE
    BY <1>8
  <2>1. PICK m \in T : \A k \in T : m <= k
    BY LeastNat, T \subseteq Nat
  <2>2. m # i /\ m \in 1..n /\ m - 1 \in 0..n /\ i <= m - 1
    BY <1>1, <1>6, <2>1
  <2>3. B(i) <= B(m - 1)
    BY <1>1, <2>1, <2>2
  <2>4. B(m) = B(m - 1) + amt[o[m]] /\ amt[o[m]] \in Nat /\ B(m - 1) \in Int /\ B(i) \in Int
    BY <1>2, <1>6, <1>7, <2>2
  <2>5. QED
    BY <2>1, <2>3, <2>4
<1>9. Total([i \in 1..n |-> amt[o[i]]], n) = B(n)
  BY <1>4 DEF Total, f
<1>10. QED
  BY <1>1, <1>2, <1>6, <1>7, <1>8, <1>9 DEF n, B

(* What a move does to the list of moves, and to what a chain has left. *)
OneMore(ops, c, d, a) == Append(ops, [src |-> c, dst |-> d, amount |-> a])
Less(rem, c, a) == [rem EXCEPT ![c] = @ - a]

(* The lists of moves between these chains. *)
OpsOf(C, D) == Seq([src : C, dst : D, amount : Nat \ {0}])

(* One more move. *)
LEMMA MoveAppended ==
  ASSUME NEW C, NEW D, NEW ops \in OpsOf(C, D),
         NEW c \in C, NEW d \in D, NEW a \in Nat \ {0}, NEW x, NEW y,
         NEW ops2, ops2 = OneMore(ops, c, d, a)
  PROVE  /\ Moved(ops, x, y) \in Int /\ Cardinality(Moves(ops, x, y)) \in Nat
         /\ Moved(ops2, x, y) = Moved(ops, x, y) + IF x = c /\ y = d THEN a ELSE 0
         /\ Cardinality(Moves(ops2, x, y)) =
               Cardinality(Moves(ops, x, y)) + IF x = c /\ y = d THEN 1 ELSE 0
<1> DEFINE n == Len(ops)
           move == [src |-> c, dst |-> d, amount |-> a]
           f == [k \in 1..n |-> IF k \in Moves(ops, x, y) THEN ops[k].amount ELSE 0]
           g == [k \in 1..(n + 1) |-> IF k \in Moves(ops2, x, y) THEN ops2[k].amount ELSE 0]
<1>1. n \in Nat /\ DOMAIN ops = 1..n /\ \A k \in 1..n : ops[k].amount \in Nat
  <2>1. n \in Nat /\ DOMAIN ops = 1..n
    BY DEF OpsOf
  <2>2. \A k \in 1..n : ops[k] \in [src : C, dst : D, amount : Nat \ {0}]
    <3> DEFINE S == [src : C, dst : D, amount : Nat \ {0}]
    <3>1. ops \in Seq(S)
      BY DEF OpsOf
    <3> HIDE DEF S
    <3>2. \A k \in 1..n : ops[k] \in S
      BY <3>1
    <3>3. QED
      BY <3>2 DEF S
  <2>3. QED
    BY <2>1, <2>2
<1>2. move.src = c /\ move.dst = d /\ move.amount = a
      /\ move \in [src : C, dst : D, amount : Nat \ {0}]
  OBVIOUS
<1> HIDE DEF move
<1>3. /\ Len(ops2) = n + 1 /\ DOMAIN ops2 = 1..(n + 1) /\ ops2[n + 1] = move
      /\ \A k \in 1..n : ops2[k] = ops[k]
  BY <1>1, <1>2 DEF move, OneMore, OpsOf
<1> HIDE DEF n
<1>4. /\ \A k \in 1..n : k \in Moves(ops2, x, y) <=> k \in Moves(ops, x, y)
      /\ n + 1 \in Moves(ops2, x, y) <=> (x = c /\ y = d)
      /\ Moves(ops, x, y) \subseteq 1..n /\ Moves(ops2, x, y) \subseteq 1..(n + 1)
  BY <1>1, <1>2, <1>3 DEF Moves
<1>5. f \in [1..n -> Int] /\ g \in [1..(n + 1) -> Int]
  BY <1>1, <1>2, <1>3
<1>6. \A k \in 1..n : f[k] = g[k]
  BY <1>1, <1>3, <1>4
<1>7. g[n + 1] = IF x = c /\ y = d THEN a ELSE 0
  BY <1>1, <1>2, <1>3, <1>4
<1>8. Moved(ops, x, y) = Total(f, n)
  BY <1>1 DEF Moved, n
<1>9. Moved(ops2, x, y) = Total(g, n + 1)
  BY <1>3 DEF Moved
<1> HIDE DEF f, g
<1>10. Moved(ops, x, y) \in Int /\ Moved(ops2, x, y) = Moved(ops, x, y) + g[n + 1]
  BY <1>1, <1>5, <1>6, <1>8, <1>9, TotalAppend, TotalInt
<1>11. 1 \in Int /\ n \in Int
  BY <1>1
<1>12. IsFiniteSet(Moves(ops, x, y)) /\ Cardinality(Moves(ops, x, y)) \in Nat
  BY <1>4, <1>11, FS_Interval, FS_Subset, FS_CardinalityType
<1>13. CASE x = c /\ y = d
  <2>1. Moves(ops2, x, y) = Moves(ops, x, y) \cup {n + 1} /\ n + 1 \notin Moves(ops, x, y)
    BY <1>1, <1>4, <1>13
  <2>2. Cardinality(Moves(ops2, x, y)) = Cardinality(Moves(ops, x, y)) + 1
    BY <1>12, <2>1, FS_AddElement
  <2>3. QED
    BY <1>7, <1>10, <1>12, <1>13, <2>2
<1>14. CASE ~(x = c /\ y = d)
  <2>0. \A k \in 1..(n + 1) : k \in 1..n \/ k = n + 1
    BY <1>1
  <2>1. Moves(ops2, x, y) = Moves(ops, x, y)
    BY <1>4, <1>14, <2>0
  <2>2. QED
    BY <1>7, <1>10, <1>12, <1>14, <2>1
<1>15. QED
  BY <1>13, <1>14

(* What the segments a0..a1 and b0..b1 have in common up to t. *)
Common(a0, a1, b0, b1, t) ==
    LET from == IF a0 >= b0 THEN a0 ELSE b0
        to == least(least(a1, b1), t)
    IN  IF to >= from THEN to - from ELSE 0

(* Moving on by m inside both segments, and outside of one of them. *)
LEMMA CommonMoves ==
  ASSUME NEW a0 \in Int, NEW a1 \in Int, NEW b0 \in Int, NEW b1 \in Int, NEW t \in Int, NEW m \in Nat
  PROVE  /\ Common(a0, a1, b0, b1, t) \in Nat
         /\ a0 <= t /\ b0 <= t /\ t + m <= a1 /\ t + m <= b1
               => Common(a0, a1, b0, b1, t + m) = Common(a0, a1, b0, b1, t) + m
         /\ a1 <= t \/ b1 <= t \/ t + m <= a0 \/ t + m <= b0
               => Common(a0, a1, b0, b1, t + m) = Common(a0, a1, b0, b1, t)
         /\ t <= a0 \/ t <= b0 => Common(a0, a1, b0, b1, t) = 0
BY DEF Common, least

(* The number of pieces, none larger than max, that a is cut into. *)
LEMMA Pieces ==
  ASSUME NEW a \in Nat, NEW max \in Nat \ {0}, NEW k \in Nat,
         k * max - max < a, a <= k * max
  PROVE  k = (a + max - 1) \div max
<1> DEFINE x == a + max - 1
           q == x \div max
           r == x % max
<1>1. x \in Nat /\ q \in Nat /\ r \in Nat /\ r < max
  OBVIOUS
<1>2. x = max * q + r
  OBVIOUS
<1> HIDE DEF x, q, r
<1>3. ASSUME q < k PROVE FALSE
  <2>1. q + 1 <= k
    BY <1>1, <1>3
  <2>2. max * (q + 1) <= max * k
    BY <1>1, <2>1
  <2>3. QED
    BY <1>1, <1>2, <2>2 DEF x
<1>4. ASSUME k < q PROVE FALSE
  <2>1. k + 1 <= q
    BY <1>1, <1>4
  <2>2. max * (k + 1) <= max * q
    BY <1>1, <2>1
  <2>3. max * (k + 1) = k * max + max /\ k * max \in Nat /\ max * q \in Nat
    BY <1>1
  <2>4. a + max - 1 >= k * max + max
    BY <1>1, <1>2, <2>2, <2>3 DEF x
  <2> DEFINE K == k * max
  <2>5. K \in Nat /\ a <= K /\ a + max - 1 >= K + max /\ max \in Nat
    BY <2>3, <2>4
  <2> HIDE DEF K
  <2>6. QED
    BY <2>5
<1>5. k = q
  BY <1>1, <1>3, <1>4
<1>6. QED
  BY <1>5 DEF q, x

-----------------------------------------------------------------------------
(* How far the loop has come on a line: the amounts of the chains before i,
   and what chain i has given up. *)
Reached(o, amt, rem, i) ==
    IF i <= Len(o) THEN Before(o, amt, i) - rem[o[i]] ELSE Before(o, amt, Len(o))

(* What segments i and j have in common up to t. *)
Shared(o, surplus, i, p, deficit, j, t) ==
    Common(Before(o, surplus, i - 1), Before(o, surplus, i),
           Before(p, deficit, j - 1), Before(p, deficit, j), t)

(* The chains after i are untouched, and chain i has given up some. *)
Untouched(o, amt, rem, i) ==
    /\ i <= Len(o) + 1
    /\ i <= Len(o) => rem[o[i]] <= amt[o[i]]
    /\ \A k \in 1..Len(o) : k > i => rem[o[k]] = amt[o[k]]

(* Each pair has moved what the segments share so far, in full pieces but for
   the last one. *)
PairInv(o, p, surplus, deficit, max, ops, t) ==
    \A i \in 1..Len(o), j \in 1..Len(p) :
        /\ Moved(ops, o[i], p[j]) = Shared(o, surplus, i, p, deficit, j, t)
        /\ Cardinality(Moves(ops, o[i], p[j])) * max - max < Shared(o, surplus, i, p, deficit, j, t)
        /\ Shared(o, surplus, i, p, deficit, j, t) <= Cardinality(Moves(ops, o[i], p[j])) * max

(* The pair at hand, while both have something left, has moved full pieces. *)
HandInv(o, p, surplus, deficit, max, s, t) ==
    s.si <= Len(o) /\ s.di <= Len(p) /\ s.sur[o[s.si]] # 0 /\ s.def[p[s.di]] # 0
        => Shared(o, surplus, s.si, p, deficit, s.di, t)
              = Cardinality(Moves(s.ops, o[s.si], p[s.di])) * max

(* The invariant of the loop of compute_rebalance_ops. *)
LoopInv(o, p, surplus, deficit, max, s) ==
    /\ Untouched(o, surplus, s.sur, s.si) /\ Untouched(p, deficit, s.def, s.di)
    /\ Reached(o, surplus, s.sur, s.si) = Reached(p, deficit, s.def, s.di)
    /\ PairInv(o, p, surplus, deficit, max, s.ops, Reached(o, surplus, s.sur, s.si))
    /\ HandInv(o, p, surplus, deficit, max, s, Reached(o, surplus, s.sur, s.si))
    /\ \A k \in 1..Len(s.ops) : s.ops[k].amount <= max

(* An exhausted chain is left behind: the loop stays where it is. *)
LEMMA LeaveBehind ==
  ASSUME NEW o, NEW amt, Line(o, amt), NEW rem \in [DOMAIN amt -> Nat], NEW i \in Nat \ {0},
         Untouched(o, amt, rem, i), i <= Len(o), rem[o[i]] = 0
  PROVE  /\ Untouched(o, amt, rem, i + 1)
         /\ Reached(o, amt, rem, i + 1) = Reached(o, amt, rem, i)
         /\ Reached(o, amt, rem, i) = Before(o, amt, i)
<1>1. /\ Len(o) \in Nat
      /\ \A k \in 1..Len(o) : o[k] \in DOMAIN amt /\ amt[o[k]] \in Nat
      /\ \A k \in 0..Len(o) : Before(o, amt, k) \in Int
      /\ \A k \in 1..Len(o) : Before(o, amt, k) = Before(o, amt, k - 1) + amt[o[k]]
  BY LineFacts
<1>2. Untouched(o, amt, rem, i + 1)
  <2>1. \A k \in 1..Len(o) : k > i => rem[o[k]] = amt[o[k]]
    BY DEF Untouched
  <2>2. i + 1 <= Len(o) + 1 /\ \A k \in 1..Len(o) : k > i + 1 => k > i
    BY <1>1
  <2>3. i + 1 <= Len(o) => rem[o[i + 1]] = amt[o[i + 1]] /\ amt[o[i + 1]] \in Nat
    BY <1>1, <2>1
  <2>4. QED
    BY <2>1, <2>2, <2>3 DEF Untouched
<1>3. i \in 1..Len(o) /\ Before(o, amt, i) \in Int
  BY <1>1
<1>4. Reached(o, amt, rem, i) = Before(o, amt, i)
  BY <1>3 DEF Reached
<1>5. CASE i + 1 <= Len(o)
  <2>1. i + 1 \in 1..Len(o) /\ rem[o[i + 1]] = amt[o[i + 1]] /\ (i + 1) - 1 = i
    BY <1>1, <1>5 DEF Untouched
  <2>2. Before(o, amt, i + 1) = Before(o, amt, i) + amt[o[i + 1]] /\ amt[o[i + 1]] \in Nat
    BY <1>1, <2>1
  <2>3. Reached(o, amt, rem, i + 1) = Before(o, amt, i + 1) - amt[o[i + 1]]
    BY <1>5, <2>1 DEF Reached
  <2>4. Reached(o, amt, rem, i + 1) = Before(o, amt, i)
    BY <1>3, <2>2, <2>3
  <2>5. QED
    BY <1>2, <1>4, <2>4
<1>6. CASE ~(i + 1 <= Len(o))
  <2>1. i = Len(o)
    BY <1>1, <1>3, <1>6
  <2>2. QED
    BY <1>2, <1>4, <1>6, <2>1 DEF Reached
<1>7. QED
  BY <1>5, <1>6

(* A chain gives up a. *)
LEMMA GiveUp ==
  ASSUME NEW o, NEW amt, Line(o, amt), NEW rem \in [DOMAIN amt -> Nat], NEW i \in Nat \ {0},
         Untouched(o, amt, rem, i), i <= Len(o), NEW a \in Nat, a <= rem[o[i]],
         NEW rem2, rem2 = Less(rem, o[i], a)
  PROVE  /\ Untouched(o, amt, rem2, i) /\ rem2[o[i]] = rem[o[i]] - a
         /\ Reached(o, amt, rem2, i) = Reached(o, amt, rem, i) + a
         /\ Reached(o, amt, rem, i) \in Int
         /\ Before(o, amt, i - 1) <= Reached(o, amt, rem, i)
         /\ Reached(o, amt, rem, i) + a <= Before(o, amt, i)
<1>1. /\ Len(o) \in Nat
      /\ \A k \in 1..Len(o) : o[k] \in DOMAIN amt /\ amt[o[k]] \in Nat
      /\ \A k \in 0..Len(o) : Before(o, amt, k) \in Int
      /\ \A k \in 1..Len(o) : Before(o, amt, k) = Before(o, amt, k - 1) + amt[o[k]]
  BY LineFacts
<1>2. i \in 1..Len(o) /\ i - 1 \in 0..Len(o)
  BY <1>1
<1>3. \A k \in 1..Len(o) : k > i => o[k] # o[i]
  <2>1. \A k \in 1..Len(o) : o[k] = o[i] => k = i
    BY <1>2 DEF Line
  <2>2. \A k \in 1..Len(o) : k > i => k # i
    BY <1>1, <1>2
  <2>3. QED
    BY <2>1, <2>2
<1>4. /\ rem2[o[i]] = rem[o[i]] - a /\ rem[o[i]] \in Nat /\ amt[o[i]] \in Nat
      /\ \A k \in 1..Len(o) : k > i => rem2[o[k]] = rem[o[k]]
  BY <1>1, <1>2, <1>3 DEF Less
<1>5. rem[o[i]] <= amt[o[i]] /\ rem2[o[i]] <= amt[o[i]]
  BY <1>4 DEF Untouched
<1>6. Untouched(o, amt, rem2, i)
  BY <1>4, <1>5 DEF Untouched
<1>7. /\ Reached(o, amt, rem, i) = Before(o, amt, i) - rem[o[i]]
      /\ Reached(o, amt, rem2, i) = Before(o, amt, i) - rem2[o[i]]
  BY DEF Reached
<1>8. /\ Before(o, amt, i) \in Int /\ Before(o, amt, i - 1) \in Int
      /\ Before(o, amt, i) = Before(o, amt, i - 1) + amt[o[i]]
  BY <1>1, <1>2
<1> DEFINE b == Before(o, amt, i)
           b0 == Before(o, amt, i - 1)
           r == rem[o[i]]
           m == amt[o[i]]
<1> HIDE DEF b, b0, r, m
<1>9. /\ b \in Int /\ b0 \in Int /\ r \in Nat /\ m \in Nat /\ b = b0 + m /\ r <= m /\ a <= r
      /\ Reached(o, amt, rem, i) = b - r /\ Reached(o, amt, rem2, i) = b - (r - a)
  BY <1>4, <1>5, <1>7, <1>8 DEF b, b0, r, m
<1>10. /\ Reached(o, amt, rem2, i) = Reached(o, amt, rem, i) + a
       /\ Reached(o, amt, rem, i) \in Int /\ b0 <= Reached(o, amt, rem, i)
       /\ Reached(o, amt, rem, i) + a <= b
  BY <1>9
<1>11. QED
  BY <1>4, <1>6, <1>10 DEF b, b0

(* A pair of which nothing has moved has no pieces. *)
LEMMA NoPieces ==
  ASSUME NEW k \in Nat, NEW max \in Nat \ {0}, k * max - max < 0
  PROVE  k * max = 0
<1>1. CASE k = 0
  BY <1>1
<1>2. CASE k # 0
  <2>1. k - 1 \in Nat
    BY <1>2
  <2>2. k * max - max = (k - 1) * max
    BY <2>1
  <2>3. (k - 1) * max >= 0
    BY <2>1
  <2>4. QED
    BY <2>2, <2>3
<1>3. QED
  BY <1>1, <1>2

(* The numbers the invariant speaks of. *)
LEMMA SharedFacts ==
  ASSUME NEW o, NEW surplus, Line(o, surplus), NEW p, NEW deficit, Line(p, deficit),
         NEW i \in 1..Len(o), NEW j \in 1..Len(p), NEW t \in Int
  PROVE  /\ Shared(o, surplus, i, p, deficit, j, t) \in Nat
         /\ t <= Before(o, surplus, i - 1) \/ t <= Before(p, deficit, j - 1)
               => Shared(o, surplus, i, p, deficit, j, t) = 0
         /\ Before(o, surplus, i - 1) \in Int /\ Before(o, surplus, i) \in Int
         /\ Before(p, deficit, j - 1) \in Int /\ Before(p, deficit, j) \in Int
<1>1. /\ Len(o) \in Nat /\ \A k \in 0..Len(o) : Before(o, surplus, k) \in Int
      /\ Len(p) \in Nat /\ \A k \in 0..Len(p) : Before(p, deficit, k) \in Int
  BY LineFacts
<1>2. i - 1 \in 0..Len(o) /\ i \in 0..Len(o) /\ j - 1 \in 0..Len(p) /\ j \in 0..Len(p)
  BY <1>1
<1>3. /\ Before(o, surplus, i - 1) \in Int /\ Before(o, surplus, i) \in Int
      /\ Before(p, deficit, j - 1) \in Int /\ Before(p, deficit, j) \in Int
  BY <1>1, <1>2
<1>4. \A a0, a1, b0, b1 \in Int :
        /\ Common(a0, a1, b0, b1, t) \in Nat
        /\ t <= a0 \/ t <= b0 => Common(a0, a1, b0, b1, t) = 0
  BY DEF Common, least
<1>5. QED
  BY <1>3, <1>4 DEF Shared

(* The sequences of moves are finite. *)
LEMMA MovesCount ==
  ASSUME NEW S, NEW ops \in Seq(S), NEW x, NEW y
  PROVE  Cardinality(Moves(ops, x, y)) \in Nat
<1>1. Len(ops) \in Nat /\ DOMAIN ops = 1..Len(ops) /\ Moves(ops, x, y) \subseteq 1..Len(ops)
  BY DEF Moves
<1>2. 1 \in Int /\ Len(ops) \in Int
  BY <1>1
<1>3. IsFiniteSet(1..Len(ops))
  BY <1>2, FS_Interval
<1>4. IsFiniteSet(Moves(ops, x, y))
  BY <1>1, <1>3, FS_Subset
<1>5. QED
  BY <1>4, FS_CardinalityType

(* A pair that the loop turns to has moved nothing yet. *)
LEMMA FreshPair ==
  ASSUME NEW o, NEW surplus, Line(o, surplus), NEW p, NEW deficit, Line(p, deficit),
         NEW max \in Nat \ {0}, NEW S, NEW ops \in Seq(S), NEW t \in Int,
         PairInv(o, p, surplus, deficit, max, ops, t), NEW i \in 1..Len(o), NEW j \in 1..Len(p),
         t <= Before(o, surplus, i - 1) \/ t <= Before(p, deficit, j - 1)
  PROVE  Shared(o, surplus, i, p, deficit, j, t) = Cardinality(Moves(ops, o[i], p[j])) * max
<1> DEFINE k == Cardinality(Moves(ops, o[i], p[j]))
<1>1. Shared(o, surplus, i, p, deficit, j, t) = 0
  BY SharedFacts
<1>2. k \in Nat
  BY MovesCount
<1>3. k * max - max < Shared(o, surplus, i, p, deficit, j, t)
  BY DEF PairInv
<1> HIDE DEF k
<1>4. k * max - max < 0
  BY <1>1, <1>3
<1>5. k * max = 0
  BY <1>2, <1>4, NoPieces
<1>6. QED
  BY <1>1, <1>5 DEF k

(* Passing an exhausted source keeps the invariant. *)
LEMMA SkipSource ==
  ASSUME NEW o, NEW surplus, Line(o, surplus), NEW p, NEW deficit, Line(p, deficit),
         NEW max \in Nat \ {0}, NEW s \in Locals(surplus, deficit),
         LoopInv(o, p, surplus, deficit, max, s), s.si <= Len(o), s.sur[o[s.si]] = 0,
         NEW u, u = [sur |-> s.sur, def |-> s.def, si |-> s.si + 1, di |-> s.di, ops |-> s.ops]
  PROVE  /\ LoopInv(o, p, surplus, deficit, max, u)
         /\ Reached(o, surplus, u.sur, u.si) = Reached(o, surplus, s.sur, s.si)
<1> DEFINE t == Reached(o, surplus, s.sur, s.si)
           Op == [src : DOMAIN surplus, dst : DOMAIN deficit, amount : Nat \ {0}]
<1>1. /\ s.sur \in [DOMAIN surplus -> Nat] /\ s.si \in Nat \ {0} /\ s.di \in Nat \ {0}
      /\ s.ops \in Seq(Op)
  BY LocalsFields
<1>2. u.sur = s.sur /\ u.def = s.def /\ u.si = s.si + 1 /\ u.di = s.di /\ u.ops = s.ops
  OBVIOUS
<1>3. /\ Untouched(o, surplus, s.sur, s.si) /\ Untouched(p, deficit, s.def, s.di)
      /\ t = Reached(p, deficit, s.def, s.di)
      /\ PairInv(o, p, surplus, deficit, max, s.ops, t)
      /\ \A k \in 1..Len(s.ops) : s.ops[k].amount <= max
  BY DEF LoopInv
<1>4. /\ Untouched(o, surplus, s.sur, s.si + 1) /\ Reached(o, surplus, s.sur, s.si + 1) = t
      /\ t = Before(o, surplus, s.si)
  BY <1>1, <1>3, LeaveBehind
<1>5. Len(o) \in Nat /\ Len(p) \in Nat /\ \A k \in 0..Len(o) : Before(o, surplus, k) \in Int
  BY LineFacts
<1>6. t \in Int /\ (s.si + 1) - 1 = s.si
  <2>1. s.si \in 0..Len(o)
    BY <1>1, <1>5
  <2>2. QED
    BY <1>1, <1>4, <1>5, <2>1
<1> HIDE DEF t, Op
<1>7. HandInv(o, p, surplus, deficit, max, u, t)
  <2> SUFFICES ASSUME s.si + 1 <= Len(o), s.di <= Len(p)
               PROVE  Shared(o, surplus, s.si + 1, p, deficit, s.di, t)
                         = Cardinality(Moves(s.ops, o[s.si + 1], p[s.di])) * max
    BY <1>2 DEF HandInv
  <2>1. s.si + 1 \in 1..Len(o) /\ s.di \in 1..Len(p)
    BY <1>1, <1>5
  <2>2. t <= Before(o, surplus, (s.si + 1) - 1)
    BY <1>4, <1>6
  <2>3. QED
    BY <1>1, <1>3, <1>6, <2>1, <2>2, FreshPair, SMTT(30)
<1>8. QED
  BY <1>2, <1>3, <1>4, <1>7 DEF LoopInv, t

(* Passing a filled destination keeps the invariant. *)
LEMMA SkipTarget ==
  ASSUME NEW o, NEW surplus, Line(o, surplus), NEW p, NEW deficit, Line(p, deficit),
         NEW max \in Nat \ {0}, NEW s \in Locals(surplus, deficit),
         LoopInv(o, p, surplus, deficit, max, s), s.di <= Len(p), s.def[p[s.di]] = 0,
         NEW u, u = [sur |-> s.sur, def |-> s.def, si |-> s.si, di |-> s.di + 1, ops |-> s.ops]
  PROVE  /\ LoopInv(o, p, surplus, deficit, max, u)
         /\ Reached(o, surplus, u.sur, u.si) = Reached(o, surplus, s.sur, s.si)
<1> DEFINE t == Reached(o, surplus, s.sur, s.si)
           Op == [src : DOMAIN surplus, dst : DOMAIN deficit, amount : Nat \ {0}]
<1>1. /\ s.def \in [DOMAIN deficit -> Nat] /\ s.si \in Nat \ {0} /\ s.di \in Nat \ {0}
      /\ s.ops \in Seq(Op)
  BY LocalsFields
<1>2. u.sur = s.sur /\ u.def = s.def /\ u.si = s.si /\ u.di = s.di + 1 /\ u.ops = s.ops
  OBVIOUS
<1>3. /\ Untouched(o, surplus, s.sur, s.si) /\ Untouched(p, deficit, s.def, s.di)
      /\ t = Reached(p, deficit, s.def, s.di)
      /\ PairInv(o, p, surplus, deficit, max, s.ops, t)
      /\ \A k \in 1..Len(s.ops) : s.ops[k].amount <= max
  BY DEF LoopInv
<1>4. /\ Untouched(p, deficit, s.def, s.di + 1) /\ Reached(p, deficit, s.def, s.di + 1) = t
      /\ t = Before(p, deficit, s.di)
  BY <1>1, <1>3, LeaveBehind, SMTT(30)
<1>5. Len(o) \in Nat /\ Len(p) \in Nat /\ \A k \in 0..Len(p) : Before(p, deficit, k) \in Int
  BY LineFacts
<1>6. t \in Int /\ (s.di + 1) - 1 = s.di
  <2>1. s.di \in 0..Len(p)
    BY <1>1, <1>5
  <2>2. QED
    BY <1>1, <1>4, <1>5, <2>1
<1> HIDE DEF t, Op
<1>7. HandInv(o, p, surplus, deficit, max, u, t)
  <2> SUFFICES ASSUME s.di + 1 <= Len(p), s.si <= Len(o)
               PROVE  Shared(o, surplus, s.si, p, deficit, s.di + 1, t)
                         = Cardinality(Moves(s.ops, o[s.si], p[s.di + 1])) * max
    BY <1>2 DEF HandInv
  <2>1. s.di + 1 \in 1..Len(p) /\ s.si \in 1..Len(o)
    BY <1>1, <1>5, SMTT(30)
  <2>2. t <= Before(p, deficit, (s.di + 1) - 1)
    BY <1>4, <1>6
  <2>3. QED
    BY <1>1, <1>3, <1>6, <2>1, <2>2, FreshPair
<1>8. QED
  BY <1>2, <1>3, <1>4, <1>7 DEF LoopInv, t

(* What a move of a does to what a pair shares: it moves on inside the segments
   of the pair at hand, and outside of one segment of any other pair. *)
LEMMA SharedMoves ==
  ASSUME NEW o, NEW surplus, Line(o, surplus), NEW p, NEW deficit, Line(p, deficit),
         NEW si \in 1..Len(o), NEW di \in 1..Len(p), NEW t \in Int, NEW a \in Nat,
         Before(o, surplus, si - 1) <= t, t + a <= Before(o, surplus, si),
         Before(p, deficit, di - 1) <= t, t + a <= Before(p, deficit, di),
         NEW i \in 1..Len(o), NEW j \in 1..Len(p)
  PROVE  Shared(o, surplus, i, p, deficit, j, t + a)
            = Shared(o, surplus, i, p, deficit, j, t) + IF i = si /\ j = di THEN a ELSE 0
<1> DEFINE A(k) == Before(o, surplus, k)
           B(k) == Before(p, deficit, k)
<1>1. /\ Len(o) \in Nat /\ Len(p) \in Nat
      /\ \A k \in 0..Len(o) : A(k) \in Int
      /\ \A k \in 0..Len(p) : B(k) \in Int
      /\ \A k, l \in 0..Len(o) : k <= l => A(k) <= A(l)
      /\ \A k, l \in 0..Len(p) : k <= l => B(k) <= B(l)
  BY LineFacts
<1> HIDE DEF A, B
<1>2. /\ i - 1 \in 0..Len(o) /\ i \in 0..Len(o) /\ j - 1 \in 0..Len(p) /\ j \in 0..Len(p)
      /\ si - 1 \in 0..Len(o) /\ si \in 0..Len(o) /\ di - 1 \in 0..Len(p) /\ di \in 0..Len(p)
  BY <1>1
<1>3. /\ A(i - 1) \in Int /\ A(i) \in Int /\ B(j - 1) \in Int /\ B(j) \in Int
      /\ A(si - 1) \in Int /\ A(si) \in Int /\ B(di - 1) \in Int /\ B(di) \in Int
  BY <1>1, <1>2
<1>4. A(si - 1) <= t /\ t + a <= A(si) /\ B(di - 1) <= t /\ t + a <= B(di)
  BY DEF A, B
<1>5. \A x : Shared(o, surplus, i, p, deficit, j, x) = Common(A(i - 1), A(i), B(j - 1), B(j), x)
  BY DEF Shared, A, B
<1>6. Common(A(i - 1), A(i), B(j - 1), B(j), t) \in Nat
  BY <1>3, CommonMoves
<1>7. CASE i = si /\ j = di
  <2>1. Common(A(i - 1), A(i), B(j - 1), B(j), t + a) = Common(A(i - 1), A(i), B(j - 1), B(j), t) + a
    <3>1. \A x0, x1, y0, y1 \in Int : x0 <= t /\ y0 <= t /\ t + a <= x1 /\ t + a <= y1
            => Common(x0, x1, y0, y1, t + a) = Common(x0, x1, y0, y1, t) + a
      BY DEF Common, least
    <3>2. QED
      BY <1>3, <1>4, <1>7, <3>1
  <2>2. QED
    BY <1>5, <1>7, <2>1
<1>8. CASE ~(i = si /\ j = di)
  <2>1. A(i) <= t \/ B(j) <= t \/ t + a <= A(i - 1) \/ t + a <= B(j - 1)
    <3>1. CASE i < si
      <4>1. i <= si - 1
        BY <1>2, <3>1
      <4>2. A(i) <= A(si - 1)
        BY <1>1, <1>2, <4>1
      <4>3. QED
        BY <1>3, <1>4, <4>2, SMTT(30)
    <3>2. CASE i > si
      <4>1. si <= i - 1
        BY <1>2, <3>2
      <4>2. A(si) <= A(i - 1)
        BY <1>1, <1>2, <4>1
      <4>3. QED
        BY <1>3, <1>4, <4>2, SMTT(30)
    <3>3. CASE j < di
      <4>1. j <= di - 1
        BY <1>2, <3>3
      <4>2. B(j) <= B(di - 1)
        BY <1>1, <1>2, <4>1
      <4>3. QED
        BY <1>3, <1>4, <4>2, SMTT(30)
    <3>4. CASE j > di
      <4>1. di <= j - 1
        BY <1>2, <3>4
      <4>2. B(di) <= B(j - 1)
        BY <1>1, <1>2, <4>1
      <4>3. QED
        BY <1>3, <1>4, <4>2, SMTT(30)
    <3>5. QED
      BY <1>2, <1>8, <3>1, <3>2, <3>3, <3>4
  <2>2. Common(A(i - 1), A(i), B(j - 1), B(j), t + a) = Common(A(i - 1), A(i), B(j - 1), B(j), t)
    <3>1. \A x0, x1, y0, y1 \in Int : x1 <= t \/ y1 <= t \/ t + a <= x0 \/ t + a <= y0
            => Common(x0, x1, y0, y1, t + a) = Common(x0, x1, y0, y1, t)
      BY DEF Common, least
    <3>2. QED
      BY <1>3, <2>1, <3>1
  <2>3. QED
    BY <1>5, <1>6, <1>8, <2>2
<1>9. QED
  BY <1>7, <1>8

(* The pair has moved full pieces only. *)
Whole(o, p, surplus, deficit, max, ops, i, j, t) ==
    Shared(o, surplus, i, p, deficit, j, t) = Cardinality(Moves(ops, o[i], p[j])) * max

(* A move counts for the pair at hand only. *)
LEMMA MoveCounts ==
  ASSUME NEW o, NEW surplus, Line(o, surplus), NEW p, NEW deficit, Line(p, deficit),
         NEW si \in 1..Len(o), NEW di \in 1..Len(p),
         NEW ops \in OpsOf(DOMAIN surplus, DOMAIN deficit), NEW a \in Nat, a # 0,
         NEW ops2, ops2 = OneMore(ops, o[si], p[di], a), NEW i \in 1..Len(o), NEW j \in 1..Len(p)
  PROVE  /\ Moved(ops, o[i], p[j]) \in Int /\ Cardinality(Moves(ops, o[i], p[j])) \in Nat
         /\ Moved(ops2, o[i], p[j]) = Moved(ops, o[i], p[j]) + IF i = si /\ j = di THEN a ELSE 0
         /\ Cardinality(Moves(ops2, o[i], p[j]))
               = Cardinality(Moves(ops, o[i], p[j])) + IF i = si /\ j = di THEN 1 ELSE 0
<1> DEFINE c == o[si]
           d == p[di]
           C == DOMAIN surplus
           D == DOMAIN deficit
<1>1. (o[i] = c <=> i = si) /\ (p[j] = d <=> j = di)
  BY DEF Line
<1>2. c \in C /\ d \in D
  BY LineFacts
<1>3. a \in Nat \ {0} /\ ops \in OpsOf(C, D) /\ ops2 = OneMore(ops, c, d, a)
  OBVIOUS
<1> HIDE DEF c, d, C, D
<1>4. \A x, y : /\ Moved(ops, x, y) \in Int /\ Cardinality(Moves(ops, x, y)) \in Nat
                /\ Moved(ops2, x, y) = Moved(ops, x, y) + IF x = c /\ y = d THEN a ELSE 0
                /\ Cardinality(Moves(ops2, x, y)) =
                      Cardinality(Moves(ops, x, y)) + IF x = c /\ y = d THEN 1 ELSE 0
  BY <1>2, <1>3, MoveAppended
<1>5. QED
  BY <1>1, <1>4

(* A move keeps what is known of the pairs. *)
LEMMA MoveKeepsPairs ==
  ASSUME NEW o, NEW surplus, Line(o, surplus), NEW p, NEW deficit, Line(p, deficit),
         NEW max \in Nat \ {0}, NEW si \in 1..Len(o), NEW di \in 1..Len(p), NEW t \in Int,
         NEW ops \in OpsOf(DOMAIN surplus, DOMAIN deficit),
         PairInv(o, p, surplus, deficit, max, ops, t),
         Whole(o, p, surplus, deficit, max, ops, si, di, t),
         NEW a \in Nat, a # 0, a <= max,
         Before(o, surplus, si - 1) <= t, t + a <= Before(o, surplus, si),
         Before(p, deficit, di - 1) <= t, t + a <= Before(p, deficit, di),
         NEW ops2, ops2 = OneMore(ops, o[si], p[di], a)
  PROVE  /\ PairInv(o, p, surplus, deficit, max, ops2, t + a)
         /\ a = max => Whole(o, p, surplus, deficit, max, ops2, si, di, t + a)
<1> DEFINE count(i, j) == Cardinality(Moves(ops, o[i], p[j]))
           count2(i, j) == Cardinality(Moves(ops2, o[i], p[j]))
           shared(i, j, x) == Shared(o, surplus, i, p, deficit, j, x)
<1>2. ASSUME NEW i \in 1..Len(o), NEW j \in 1..Len(p)
      PROVE  /\ Moved(ops, o[i], p[j]) \in Int /\ count(i, j) \in Nat
             /\ Moved(ops2, o[i], p[j]) = Moved(ops, o[i], p[j]) + IF i = si /\ j = di THEN a ELSE 0
             /\ count2(i, j) = count(i, j) + IF i = si /\ j = di THEN 1 ELSE 0
  BY MoveCounts
<1>3. ASSUME NEW i \in 1..Len(o), NEW j \in 1..Len(p)
      PROVE  /\ shared(i, j, t) \in Nat
             /\ shared(i, j, t + a) = shared(i, j, t) + IF i = si /\ j = di THEN a ELSE 0
  <2>1. shared(i, j, t) \in Nat
    BY SharedFacts
  <2>2. QED
    BY <2>1, SharedMoves
<1>4. /\ \A i \in 1..Len(o), j \in 1..Len(p) :
            /\ Moved(ops, o[i], p[j]) = shared(i, j, t)
            /\ count(i, j) * max - max < shared(i, j, t) /\ shared(i, j, t) <= count(i, j) * max
      /\ shared(si, di, t) = count(si, di) * max
  BY DEF PairInv, Whole
<1> HIDE DEF count, count2, shared
<1> DEFINE K == count(si, di) * max
<1>5. count2(si, di) * max = K + max /\ K \in Nat
  <2>1. count(si, di) \in Nat /\ count2(si, di) = count(si, di) + 1
    BY <1>2
  <2>2. \A k \in Nat : (k + 1) * max = k * max + max /\ k * max \in Nat
    OBVIOUS
  <2>3. QED
    BY <2>1, <2>2
<1>6. shared(si, di, t) = K /\ shared(si, di, t + a) = K + a
  BY <1>3, <1>4
<1>7. ASSUME NEW i \in 1..Len(o), NEW j \in 1..Len(p)
      PROVE  /\ Moved(ops2, o[i], p[j]) = shared(i, j, t + a)
             /\ count2(i, j) * max - max < shared(i, j, t + a)
             /\ shared(i, j, t + a) <= count2(i, j) * max
  <2>1. CASE i = si /\ j = di
    <3>1. Moved(ops2, o[i], p[j]) = shared(i, j, t + a)
      BY <1>2, <1>3, <1>4, <2>1
    <3> HIDE DEF K
    <3>2. (K + max) - max < K + a /\ K + a <= K + max
      BY <1>5
    <3>3. QED
      BY <1>5, <1>6, <2>1, <3>1, <3>2
  <2>2. CASE ~(i = si /\ j = di)
    <3>1. /\ count(i, j) \in Nat /\ Moved(ops, o[i], p[j]) \in Int /\ shared(i, j, t) \in Nat
          /\ count2(i, j) = count(i, j) + 0 /\ shared(i, j, t + a) = shared(i, j, t) + 0
          /\ Moved(ops2, o[i], p[j]) = Moved(ops, o[i], p[j]) + 0
      BY <1>2, <1>3, <2>2
    <3>2. /\ count2(i, j) = count(i, j) /\ shared(i, j, t + a) = shared(i, j, t)
          /\ Moved(ops2, o[i], p[j]) = Moved(ops, o[i], p[j])
      BY <3>1
    <3>3. QED
      BY <1>4, <3>2
  <2>3. QED
    BY <2>1, <2>2
<1>8. PairInv(o, p, surplus, deficit, max, ops2, t + a)
  BY <1>7 DEF PairInv, shared, count2
<1>9. QED
  BY <1>5, <1>6, <1>8 DEF shared, count2, Whole

(* A move keeps the invariant, and moves on by its amount. *)
LEMMA StepKeeps ==
  ASSUME NEW o, NEW surplus, Line(o, surplus), NEW p, NEW deficit, Line(p, deficit),
         NEW max \in Nat \ {0}, NEW s \in Locals(surplus, deficit),
         LoopInv(o, p, surplus, deficit, max, s), s.si <= Len(o), s.di <= Len(p),
         s.sur[o[s.si]] # 0, s.def[p[s.di]] # 0,
         NEW a \in Nat, a # 0, a <= max, a <= s.sur[o[s.si]], a <= s.def[p[s.di]],
         a = max \/ a = s.sur[o[s.si]] \/ a = s.def[p[s.di]],
         NEW u, u.sur = Less(s.sur, o[s.si], a), u.def = Less(s.def, p[s.di], a),
         u.si = s.si, u.di = s.di, u.ops = OneMore(s.ops, o[s.si], p[s.di], a)
  PROVE  /\ LoopInv(o, p, surplus, deficit, max, u)
         /\ Reached(o, surplus, u.sur, u.si) = Reached(o, surplus, s.sur, s.si) + a
<1> DEFINE t == Reached(o, surplus, s.sur, s.si)
           si == s.si
           di == s.di
           ops == s.ops
           sur == s.sur
           def == s.def
           sur2 == u.sur
           def2 == u.def
<1>1. /\ sur \in [DOMAIN surplus -> Nat] /\ si \in Nat \ {0} /\ di \in Nat \ {0}
      /\ def \in [DOMAIN deficit -> Nat] /\ ops \in OpsOf(DOMAIN surplus, DOMAIN deficit)
  BY LocalsFields DEF OpsOf
<1>0. /\ sur2 = Less(sur, o[si], a) /\ def2 = Less(def, p[di], a) /\ si <= Len(o) /\ di <= Len(p)
      /\ a <= sur[o[si]] /\ a <= def[p[di]]
  OBVIOUS
<1>2. /\ Untouched(o, surplus, sur, si) /\ Untouched(p, deficit, def, di)
      /\ t = Reached(p, deficit, def, di)
      /\ PairInv(o, p, surplus, deficit, max, ops, t)
      /\ HandInv(o, p, surplus, deficit, max, s, t)
      /\ \A k \in 1..Len(ops) : ops[k].amount <= max
  BY DEF LoopInv
<1> HIDE DEF t, si, di, ops, sur, def, sur2, def2
<1>3. /\ Untouched(o, surplus, sur2, si) /\ sur2[o[si]] = sur[o[si]] - a
      /\ Reached(o, surplus, sur2, si) = Reached(o, surplus, sur, si) + a
      /\ Reached(o, surplus, sur, si) \in Int
      /\ Before(o, surplus, si - 1) <= Reached(o, surplus, sur, si)
      /\ Reached(o, surplus, sur, si) + a <= Before(o, surplus, si)
  <2>1. /\ sur \in [DOMAIN surplus -> Nat] /\ si \in Nat \ {0} /\ Untouched(o, surplus, sur, si)
        /\ si <= Len(o) /\ a <= sur[o[si]] /\ sur2 = Less(sur, o[si], a)
    BY <1>0, <1>1, <1>2
  <2>2. QED
    BY <2>1, GiveUp
<1>4. /\ Untouched(p, deficit, def2, di) /\ def2[p[di]] = def[p[di]] - a
      /\ Reached(p, deficit, def2, di) = Reached(p, deficit, def, di) + a
      /\ Before(p, deficit, di - 1) <= Reached(p, deficit, def, di)
      /\ Reached(p, deficit, def, di) + a <= Before(p, deficit, di)
  <2>1. /\ def \in [DOMAIN deficit -> Nat] /\ di \in Nat \ {0} /\ Untouched(p, deficit, def, di)
        /\ di <= Len(p) /\ a <= def[p[di]] /\ def2 = Less(def, p[di], a)
    BY <1>0, <1>1, <1>2
  <2>2. QED
    BY <2>1, GiveUp
<1>5. /\ Len(o) \in Nat /\ \A k \in 1..Len(o) : o[k] \in DOMAIN surplus
      /\ Len(p) \in Nat /\ \A k \in 1..Len(p) : p[k] \in DOMAIN deficit
  BY LineFacts
<1>6. si \in 1..Len(o) /\ di \in 1..Len(p)
  BY <1>0, <1>1, <1>5
<1>7. o[si] \in DOMAIN surplus /\ p[di] \in DOMAIN deficit
  BY <1>5, <1>6
<1>8. sur[o[si]] \in Nat /\ def[p[di]] \in Nat
  BY <1>1, <1>7
<1>9. Whole(o, p, surplus, deficit, max, ops, si, di, t)
  BY <1>2 DEF HandInv, Whole, si, di, ops
<1>10. u.ops = OneMore(ops, o[si], p[di], a)
  BY DEF ops, si, di
<1>11. u.si = si /\ u.di = di
  BY DEF si, di
<1>11a. t = Reached(o, surplus, sur, si)
  BY DEF t, sur, si
<1>12. /\ PairInv(o, p, surplus, deficit, max, u.ops, t + a)
       /\ a = max => Whole(o, p, surplus, deficit, max, u.ops, si, di, t + a)
  <2>1. Before(p, deficit, di - 1) <= t /\ t + a <= Before(p, deficit, di)
    BY <1>2, <1>4
  <2>2. t \in Int /\ Before(o, surplus, si - 1) <= t /\ t + a <= Before(o, surplus, si)
    BY <1>3, <1>11a
  <2>3. PairInv(o, p, surplus, deficit, max, ops, t)
    BY <1>2
  <2>4. QED
    BY <1>1, <1>6, <1>9, <1>10, <2>1, <2>2, <2>3, MoveKeepsPairs
<1>13. HandInv(o, p, surplus, deficit, max, u, t + a)
  <2> SUFFICES ASSUME sur2[o[si]] # 0, def2[p[di]] # 0
               PROVE  Whole(o, p, surplus, deficit, max, u.ops, si, di, t + a)
    BY <1>11 DEF HandInv, Whole, sur2, def2
  <2>1. a = max
    <3>1. a = max \/ a = sur[o[si]] \/ a = def[p[di]]
      BY DEF sur, def, si, di
    <3>2. QED
      BY <1>3, <1>4, <1>8, <3>1
  <2>2. QED
    BY <1>12, <2>1
<1>14. \A k \in 1..Len(u.ops) : u.ops[k].amount <= max
  <2> DEFINE move == [src |-> o[si], dst |-> p[di], amount |-> a]
             Op == [src : DOMAIN surplus, dst : DOMAIN deficit, amount : Nat \ {0}]
  <2>1. move.amount = a /\ ops \in Seq(Op) /\ u.ops = Append(ops, move)
    BY <1>1, <1>10 DEF OneMore, OpsOf
  <2> HIDE DEF move, Op
  <2>2. Len(ops) \in Nat
    BY <2>1
  <2>3. /\ Len(u.ops) = Len(ops) + 1 /\ u.ops[Len(ops) + 1] = move
        /\ \A k \in 1..Len(ops) : u.ops[k] = ops[k]
    BY <2>1
  <2>4. \A k \in 1..(Len(ops) + 1) : k \in 1..Len(ops) \/ k = Len(ops) + 1
    BY <2>2
  <2>5. QED
    BY <1>2, <2>1, <2>3, <2>4
<1>15. LoopInv(o, p, surplus, deficit, max, u)
  <2>1. Reached(o, surplus, u.sur, u.si) = t + a /\ Reached(p, deficit, u.def, u.di) = t + a
    BY <1>2, <1>3, <1>4, <1>11, <1>11a DEF sur2, def2
  <2>2. Untouched(o, surplus, u.sur, u.si) /\ Untouched(p, deficit, u.def, u.di)
    BY <1>3, <1>4, <1>11 DEF sur2, def2
  <2>3. QED
    BY <1>12, <1>13, <1>14, <2>1, <2>2 DEF LoopInv
<1>16. QED
  BY <1>3, <1>11, <1>15 DEF sur, sur2, si

(* The locals at the start of the loop. *)
Start(surplus, deficit) == [sur |-> surplus, def |-> deficit, si |-> 1, di |-> 1, ops |-> <<>>]

(* The loop has come to the end of one of the lists. *)
Finished(o, p, s) == s.si > Len(o) \/ s.di > Len(p)

(* Nothing has moved on either line yet. *)
LEMMA AtTheStart ==
  ASSUME NEW o, NEW amt, Line(o, amt)
  PROVE  Untouched(o, amt, amt, 1) /\ Reached(o, amt, amt, 1) = 0
<1>1. /\ Len(o) \in Nat
      /\ \A k \in 1..Len(o) : o[k] \in DOMAIN amt /\ amt[o[k]] \in Nat
      /\ Before(o, amt, 0) = 0
      /\ \A k \in 1..Len(o) : Before(o, amt, k) = Before(o, amt, k - 1) + amt[o[k]]
  BY LineFacts
<1>2. Untouched(o, amt, amt, 1)
  <2>1. 1 <= Len(o) => amt[o[1]] \in Nat
    BY <1>1
  <2>2. QED
    BY <1>1, <2>1 DEF Untouched
<1>3. CASE 1 <= Len(o)
  <2>1. 1 \in 1..Len(o) /\ 1 - 1 = 0
    BY <1>1, <1>3
  <2>2. Before(o, amt, 1) = 0 + amt[o[1]] /\ amt[o[1]] \in Nat
    BY <1>1, <2>1
  <2>3. Reached(o, amt, amt, 1) = Before(o, amt, 1) - amt[o[1]]
    BY <1>3 DEF Reached
  <2>4. QED
    BY <1>2, <2>2, <2>3
<1>4. CASE ~(1 <= Len(o))
  <2>1. Len(o) = 0
    BY <1>1, <1>4
  <2>2. QED
    BY <1>1, <1>2, <1>4, <2>1 DEF Reached
<1>5. QED
  BY <1>3, <1>4

(* The loop starts in the invariant. *)
LEMMA StartHolds ==
  ASSUME NEW o, NEW surplus, Line(o, surplus), NEW p, NEW deficit, Line(p, deficit),
         NEW max \in Nat \ {0}
  PROVE  /\ Start(surplus, deficit) \in Locals(surplus, deficit)
         /\ LoopInv(o, p, surplus, deficit, max, Start(surplus, deficit))
         /\ Reached(o, surplus, Start(surplus, deficit).sur, Start(surplus, deficit).si) = 0
<1> DEFINE s == Start(surplus, deficit)
<1>1. s.sur = surplus /\ s.def = deficit /\ s.si = 1 /\ s.di = 1 /\ s.ops = <<>>
  BY DEF Start
<1>2. surplus \in [DOMAIN surplus -> Nat] /\ deficit \in [DOMAIN deficit -> Nat]
  BY DEF Line
<1>3. s \in Locals(surplus, deficit)
  <2> DEFINE Op == [src : DOMAIN surplus, dst : DOMAIN deficit, amount : Nat \ {0}]
  <2> HIDE DEF Op
  <2>1. <<>> \in Seq(Op)
    OBVIOUS
  <2>2. QED
    BY <1>2, <2>1 DEF Start, Locals, Op
<1> HIDE DEF s
<1>4. /\ Untouched(o, surplus, surplus, 1) /\ Reached(o, surplus, surplus, 1) = 0
      /\ Untouched(p, deficit, deficit, 1) /\ Reached(p, deficit, deficit, 1) = 0
  BY AtTheStart
<1>5. \A x, y : Moved(<<>>, x, y) = 0 /\ Cardinality(Moves(<<>>, x, y)) = 0
  <2> TAKE x, y
  <2>1. Moves(<<>>, x, y) = {}
    BY DEF Moves
  <2>2. Cardinality({}) = 0
    BY FS_EmptySet
  <2> DEFINE f == [k \in DOMAIN <<>> |-> IF k \in Moves(<<>>, x, y) THEN <<>>[k].amount ELSE 0]
  <2>3. f \in [1..0 -> Int] /\ 0 \in Nat
    OBVIOUS
  <2>4. Moved(<<>>, x, y) = Total(f, 0)
    BY DEF Moved
  <2> HIDE DEF f
  <2>5. Total(f, 0) = 0
    <3>1. \A i \in 0..0 : Partial(f, 0)[i] = IF i = 0 THEN 0 ELSE Partial(f, 0)[i - 1] + f[i]
      BY <2>3, PartialStep
    <3>2. QED
      BY <3>1 DEF Total
  <2>6. QED
    BY <2>1, <2>2, <2>4, <2>5
<1>6. \A i \in 1..Len(o), j \in 1..Len(p) : Shared(o, surplus, i, p, deficit, j, 0) = 0
  <2> TAKE i \in 1..Len(o), j \in 1..Len(p)
  <2>1. /\ Len(o) \in Nat /\ Before(o, surplus, 0) = 0
        /\ \A k, l \in 0..Len(o) : k <= l => Before(o, surplus, k) <= Before(o, surplus, l)
    BY LineFacts
  <2>2. 0 \in 0..Len(o) /\ i - 1 \in 0..Len(o) /\ 0 <= i - 1
    BY <2>1
  <2>3. 0 <= Before(o, surplus, i - 1)
    BY <2>1, <2>2
  <2>4. 0 \in Int
    OBVIOUS
  <2>5. QED
    BY <2>3, <2>4, SharedFacts
<1>7. 0 * max = 0 /\ 0 * max - max < 0
  OBVIOUS
<1>8. PairInv(o, p, surplus, deficit, max, <<>>, 0)
  BY <1>5, <1>6, <1>7 DEF PairInv
<1>9. HandInv(o, p, surplus, deficit, max, s, 0)
  <2> SUFFICES ASSUME 1 <= Len(o), 1 <= Len(p)
               PROVE  Shared(o, surplus, 1, p, deficit, 1, 0)
                         = Cardinality(Moves(<<>>, o[1], p[1])) * max
    BY <1>1 DEF HandInv
  <2>1. Len(o) \in Nat /\ Len(p) \in Nat
    BY LineFacts
  <2>2. 1 \in 1..Len(o) /\ 1 \in 1..Len(p)
    BY <2>1
  <2>3. QED
    BY <1>5, <1>6, <1>7, <2>2
<1>10. \A k \in 1..Len(s.ops) : s.ops[k].amount <= max
  BY <1>1
<1>11. Reached(o, surplus, s.sur, s.si) = 0 /\ Reached(p, deficit, s.def, s.di) = 0
  BY <1>1, <1>4
<1>12. LoopInv(o, p, surplus, deficit, max, s)
  BY <1>1, <1>4, <1>8, <1>9, <1>10, <1>11 DEF LoopInv
<1>13. QED
  BY <1>3, <1>11, <1>12 DEF s

(* How far the loop has come. *)
Progress(o, surplus, s) == Reached(o, surplus, s.sur, s.si) + s.si + s.di

(* Where the loop has come to, and that it is inside the lines. *)
LEMMA ReachedFacts ==
  ASSUME NEW o, NEW amt, Line(o, amt), NEW rem \in [DOMAIN amt -> Nat], NEW i \in Nat \ {0},
         Untouched(o, amt, rem, i)
  PROVE  /\ Reached(o, amt, rem, i) \in Int /\ Reached(o, amt, rem, i) <= Before(o, amt, Len(o))
         /\ i > Len(o) => Reached(o, amt, rem, i) = Before(o, amt, Len(o))
<1>1. /\ Len(o) \in Nat /\ Len(o) \in 0..Len(o)
      /\ \A k \in 1..Len(o) : o[k] \in DOMAIN amt
      /\ \A k \in 0..Len(o) : Before(o, amt, k) \in Int
      /\ \A k, l \in 0..Len(o) : k <= l => Before(o, amt, k) <= Before(o, amt, l)
  <2>1. Len(o) \in Nat
    BY LineFacts
  <2>2. Len(o) \in 0..Len(o)
    BY <2>1
  <2>3. /\ \A k \in 1..Len(o) : o[k] \in DOMAIN amt
        /\ \A k \in 0..Len(o) : Before(o, amt, k) \in Int
        /\ \A k, l \in 0..Len(o) : k <= l => Before(o, amt, k) <= Before(o, amt, l)
    BY LineFacts
  <2>4. QED
    BY <2>1, <2>2, <2>3
<1>2. CASE i <= Len(o)
  <2>1. i \in 1..Len(o) /\ i \in 0..Len(o)
    BY <1>1, <1>2
  <2>2. Before(o, amt, i) <= Before(o, amt, Len(o)) /\ rem[o[i]] \in Nat
    BY <1>1, <1>2, <2>1
  <2>3. Before(o, amt, i) \in Int /\ Before(o, amt, Len(o)) \in Int
    BY <1>1, <2>1
  <2>4. Reached(o, amt, rem, i) = Before(o, amt, i) - rem[o[i]] /\ ~(i > Len(o))
    BY <1>1, <1>2 DEF Reached
  <2>5. QED
    BY <2>2, <2>3, <2>4
<1>3. CASE ~(i <= Len(o))
  <2>1. Reached(o, amt, rem, i) = Before(o, amt, Len(o))
    BY <1>3 DEF Reached
  <2>2. QED
    BY <1>1, <2>1
<1>4. QED
  BY <1>2, <1>3

(* The iterations that only pass a chain. *)
PassSource(s) == [sur |-> s.sur, def |-> s.def, si |-> s.si + 1, di |-> s.di, ops |-> s.ops]
PassTarget(s) == [sur |-> s.sur, def |-> s.def, si |-> s.si, di |-> s.di + 1, ops |-> s.ops]

(* The four kinds of iterations. *)
LEMMA IterationCases ==
  ASSUME NEW surplus, NEW deficit, NEW o \in Seq(DOMAIN surplus), NEW p \in Seq(DOMAIN deficit),
         NEW max \in Nat \ {0}, NEW s \in Locals(surplus, deficit)
  PROVE  iteration(o, p, surplus, deficit, max)[s] =
            IF Finished(o, p, s) THEN s
            ELSE IF s.sur[o[s.si]] = 0 THEN PassSource(s)
            ELSE IF s.def[p[s.di]] = 0 THEN PassTarget(s)
            ELSE step(o, p, max, s)
<1>1. [s EXCEPT !.si = @ + 1] = PassSource(s) /\ [s EXCEPT !.di = @ + 1] = PassTarget(s)
  BY SkipFacts DEF PassSource, PassTarget
<1>2. iteration(o, p, surplus, deficit, max)[s] =
         IF s.si > Len(o) \/ s.di > Len(p) THEN s
         ELSE IF s.sur[o[s.si]] = 0 THEN [s EXCEPT !.si = @ + 1]
         ELSE IF s.def[p[s.di]] = 0 THEN [s EXCEPT !.di = @ + 1]
         ELSE step(o, p, max, s)
  <2> DEFINE next(x) == IF x.si > Len(o) \/ x.di > Len(p) THEN x
                        ELSE IF x.sur[o[x.si]] = 0 THEN [x EXCEPT !.si = @ + 1]
                        ELSE IF x.def[p[x.di]] = 0 THEN [x EXCEPT !.di = @ + 1]
                        ELSE step(o, p, max, x)
  <2>1. iteration(o, p, surplus, deficit, max) = [x \in Locals(surplus, deficit) |-> next(x)]
    BY DEF iteration
  <2> HIDE DEF next
  <2>2. iteration(o, p, surplus, deficit, max)[s] = next(s)
    BY <2>1
  <2>3. QED
    BY <2>2 DEF next
<1>3. QED
  BY <1>1, <1>2, Zenon DEF Finished

(* An iteration keeps the invariant, and gets on until the loop has ended. *)
LEMMA IterationKeeps ==
  ASSUME NEW o, NEW surplus, Line(o, surplus), NEW p, NEW deficit, Line(p, deficit),
         NEW max \in Nat \ {0}, NEW s \in Locals(surplus, deficit),
         LoopInv(o, p, surplus, deficit, max, s),
         NEW u, u = iteration(o, p, surplus, deficit, max)[s]
  PROVE  /\ LoopInv(o, p, surplus, deficit, max, u)
         /\ Finished(o, p, s) => u = s
         /\ ~Finished(o, p, s) => Progress(o, surplus, u) >= Progress(o, surplus, s) + 1
<1>1. o \in Seq(DOMAIN surplus) /\ p \in Seq(DOMAIN deficit)
  BY DEF Line
<1>2. u = IF Finished(o, p, s) THEN s
          ELSE IF s.sur[o[s.si]] = 0 THEN PassSource(s)
          ELSE IF s.def[p[s.di]] = 0 THEN PassTarget(s)
          ELSE step(o, p, max, s)
  BY <1>1, IterationCases
<1>3. s.si \in Nat \ {0} /\ s.di \in Nat \ {0} /\ s.sur \in [DOMAIN surplus -> Nat]
  BY LocalsFields
<1>4. Len(o) \in Nat /\ Len(p) \in Nat
  BY LineFacts
<1> DEFINE t == Reached(o, surplus, s.sur, s.si)
<1>5. t \in Int
  BY <1>3, ReachedFacts DEF LoopInv
<1>6. CASE Finished(o, p, s)
  BY <1>2, <1>6 DEF Finished
<1>7. CASE ~Finished(o, p, s) /\ s.sur[o[s.si]] = 0
  <2>1. u = PassSource(s) /\ s.si <= Len(o)
    BY <1>2, <1>3, <1>4, <1>7 DEF Finished
  <2>2. u = [sur |-> s.sur, def |-> s.def, si |-> s.si + 1, di |-> s.di, ops |-> s.ops]
    BY <2>1 DEF PassSource
  <2>3. u.si = s.si + 1 /\ u.di = s.di
    BY <2>2
  <2>4. LoopInv(o, p, surplus, deficit, max, u) /\ Reached(o, surplus, u.sur, u.si) = t
    BY <1>7, <2>1, <2>2, SkipSource
  <2> HIDE DEF t
  <2>5. Progress(o, surplus, u) = t + (s.si + 1) + s.di /\ Progress(o, surplus, s) = t + s.si + s.di
    BY <2>3, <2>4 DEF Progress, t
  <2>6. QED
    BY <1>3, <1>5, <1>7, <2>4, <2>5
<1>8. CASE ~Finished(o, p, s) /\ s.sur[o[s.si]] # 0 /\ s.def[p[s.di]] = 0
  <2>1. u = PassTarget(s) /\ s.di <= Len(p)
    BY <1>2, <1>3, <1>4, <1>8 DEF Finished
  <2>2. u = [sur |-> s.sur, def |-> s.def, si |-> s.si, di |-> s.di + 1, ops |-> s.ops]
    BY <2>1 DEF PassTarget
  <2>3. u.si = s.si /\ u.di = s.di + 1
    BY <2>2
  <2>4. LoopInv(o, p, surplus, deficit, max, u) /\ Reached(o, surplus, u.sur, u.si) = t
    BY <1>8, <2>1, <2>2, SkipTarget
  <2> HIDE DEF t
  <2>5. Progress(o, surplus, u) = t + s.si + (s.di + 1) /\ Progress(o, surplus, s) = t + s.si + s.di
    BY <2>3, <2>4 DEF Progress, t
  <2>6. QED
    BY <1>3, <1>5, <1>8, <2>4, <2>5
<1>9. CASE ~Finished(o, p, s) /\ s.sur[o[s.si]] # 0 /\ s.def[p[s.di]] # 0
  <2>1. u = step(o, p, max, s) /\ s.si <= Len(o) /\ s.di <= Len(p)
    BY <1>2, <1>3, <1>4, <1>9 DEF Finished
  <2>2. PICK a \in 1..max :
            /\ a <= s.sur[o[s.si]] /\ a <= s.def[p[s.di]]
            /\ a = max \/ a = s.sur[o[s.si]] \/ a = s.def[p[s.di]]
            /\ u = [sur |-> Less(s.sur, o[s.si], a), def |-> Less(s.def, p[s.di], a),
                    si |-> s.si, di |-> s.di, ops |-> OneMore(s.ops, o[s.si], p[s.di], a)]
    <3>1. \E a \in 1..max :
            /\ o[s.si] \in DOMAIN surplus /\ p[s.di] \in DOMAIN deficit
            /\ a <= s.sur[o[s.si]] /\ a <= s.def[p[s.di]]
            /\ a = max \/ a = s.sur[o[s.si]] \/ a = s.def[p[s.di]]
            /\ step(o, p, max, s) =
                  [sur |-> [s.sur EXCEPT ![o[s.si]] = @ - a],
                   def |-> [s.def EXCEPT ![p[s.di]] = @ - a], si |-> s.si, di |-> s.di,
                   ops |-> Append(s.ops, [src |-> o[s.si], dst |-> p[s.di], amount |-> a])]
            /\ step(o, p, max, s) \in Locals(surplus, deficit)
      BY <1>1, <1>9, <2>1, StepFacts
    <3>2. QED
      BY <2>1, <3>1, Zenon DEF Less, OneMore
  <2>3. /\ u.sur = Less(s.sur, o[s.si], a) /\ u.def = Less(s.def, p[s.di], a)
        /\ u.si = s.si /\ u.di = s.di /\ u.ops = OneMore(s.ops, o[s.si], p[s.di], a)
    BY <2>2
  <2>4. a \in Nat /\ a # 0 /\ a <= max
    OBVIOUS
  <2>5. LoopInv(o, p, surplus, deficit, max, u) /\ Reached(o, surplus, u.sur, u.si) = t + a
    BY <1>9, <2>1, <2>2, <2>3, <2>4, StepKeeps, SMTT(30)
  <2> HIDE DEF t
  <2>6. Progress(o, surplus, u) = (t + a) + s.si + s.di /\ Progress(o, surplus, s) = t + s.si + s.di
    BY <2>3, <2>5 DEF Progress, t
  <2>7. QED
    BY <1>3, <1>5, <1>9, <2>4, <2>5, <2>6
<1>10. QED
  BY <1>6, <1>7, <1>8, <1>9

(* When the loop is over, a pair has moved all that its segments share. *)
LEMMA SharedAtTheEnd ==
  ASSUME NEW o, NEW surplus, Line(o, surplus), NEW p, NEW deficit, Line(p, deficit),
         NEW t \in Int, t = Before(o, surplus, Len(o)) \/ t = Before(p, deficit, Len(p)),
         NEW i \in 1..Len(o), NEW j \in 1..Len(p)
  PROVE  Shared(o, surplus, i, p, deficit, j, t) = Overlap(o, surplus, i, p, deficit, j)
<1> DEFINE a0 == Before(o, surplus, i - 1)
           a1 == Before(o, surplus, i)
           b0 == Before(p, deficit, j - 1)
           b1 == Before(p, deficit, j)
<1>1. a0 \in Int /\ a1 \in Int /\ b0 \in Int /\ b1 \in Int
  BY SharedFacts
<1>2. a1 <= Before(o, surplus, Len(o)) /\ b1 <= Before(p, deficit, Len(p))
  <2>1. /\ Len(o) \in Nat /\ Len(p) \in Nat
        /\ \A k, l \in 0..Len(o) : k <= l => Before(o, surplus, k) <= Before(o, surplus, l)
        /\ \A k, l \in 0..Len(p) : k <= l => Before(p, deficit, k) <= Before(p, deficit, l)
    BY LineFacts
  <2>2. /\ i \in 0..Len(o) /\ Len(o) \in 0..Len(o) /\ i <= Len(o)
        /\ j \in 0..Len(p) /\ Len(p) \in 0..Len(p) /\ j <= Len(p)
    BY <2>1
  <2>3. QED
    BY <2>1, <2>2
<1>3. Shared(o, surplus, i, p, deficit, j, t) = Common(a0, a1, b0, b1, t)
  BY DEF Shared
<1>4. Overlap(o, surplus, i, p, deficit, j) =
         LET from(x, y) == IF x >= y THEN x ELSE y
             size == least(a1, b1) - from(a0, b0)
         IN  from(size, 0)
  BY DEF Overlap
<1>5. a1 <= t \/ b1 <= t
  BY <1>2
<1> HIDE DEF a0, a1, b0, b1
<1>6. QED
  BY <1>1, <1>3, <1>4, <1>5 DEF Common, least

(* After its iterations the loop has ended, with its invariant. *)
LEMMA LoopEnds ==
  ASSUME NEW o, NEW surplus, Line(o, surplus), NEW p, NEW deficit, Line(p, deficit),
         NEW max \in Nat \ {0}
  PROVE  \E s \in Locals(surplus, deficit) :
            /\ LoopInv(o, p, surplus, deficit, max, s) /\ Finished(o, p, s)
            /\ matchedOps(o, p, surplus, deficit, max) = s.ops
<1> DEFINE L == Locals(surplus, deficit)
           f == iteration(o, p, surplus, deficit, max)
           n == iterations(o, p, surplus)
           a == Iterates(f, Start(surplus, deficit), n)
           I == {s \in L : LoopInv(o, p, surplus, deficit, max, s)}
           T == {k \in 0..n : ~(Finished(o, p, a[k]) \/ Progress(o, surplus, a[k]) >= k + 2)}
<1>1. f \in [L -> L]
  BY IterationFacts DEF Line
<1>2. Start(surplus, deficit) \in I /\ Reached(o, surplus, Start(surplus, deficit).sur, Start(surplus, deficit).si) = 0
  BY StartHolds
<1>3. Len(o) \in Nat /\ Len(p) \in Nat /\ Before(o, surplus, Len(o)) \in Nat
  <2>1. /\ Len(o) \in Nat /\ Len(p) \in Nat /\ Before(o, surplus, 0) = 0
        /\ \A k \in 0..Len(o) : Before(o, surplus, k) \in Int
        /\ \A k, l \in 0..Len(o) : k <= l => Before(o, surplus, k) <= Before(o, surplus, l)
    BY LineFacts
  <2>2. 0 \in 0..Len(o) /\ Len(o) \in 0..Len(o) /\ 0 <= Len(o)
    BY <2>1
  <2>3. 0 <= Before(o, surplus, Len(o)) /\ Before(o, surplus, Len(o)) \in Int
    BY <2>1, <2>2
  <2>4. QED
    BY <2>1, <2>3
<1>4. n = Before(o, surplus, Len(o)) + Len(o) + Len(p)
  BY LineFacts DEF iterations
<1>5. n \in Nat
  BY <1>3, <1>4
<1>6. matchedOps(o, p, surplus, deficit, max) = a[n].ops
  BY DEF matchedOps, Start
<1> HIDE DEF f, n
<1>7. \A x \in I : f[x] \in I
  <2> TAKE x \in I
  <2>1. f[x] \in L
    BY <1>1
  <2>2. LoopInv(o, p, surplus, deficit, max, f[x])
    BY IterationKeeps DEF f
  <2>3. QED
    BY <2>1, <2>2
<1>8. \A k \in 0..n : a[k] \in I
  <2>1. I \in SUBSET L
    OBVIOUS
  <2> HIDE DEF I
  <2>2. QED
    BY <1>1, <1>2, <1>5, <1>7, <2>1, IteratesInvariant
<1>9. \A k \in 0..n : a[k] = IF k = 0 THEN Start(surplus, deficit) ELSE f[a[k - 1]]
  <2>1. Start(surplus, deficit) \in L
    BY <1>2
  <2> HIDE DEF L
  <2>2. QED
    BY <1>1, <1>5, <2>1, IteratesStep
<1> HIDE DEF a
<1>10. \A s \in I : Progress(o, surplus, s) \in Int
  <2> TAKE s \in I
  <2>1. s.sur \in [DOMAIN surplus -> Nat] /\ s.si \in Nat \ {0} /\ s.di \in Nat \ {0}
    BY LocalsFields
  <2>2. Untouched(o, surplus, s.sur, s.si)
    BY DEF LoopInv
  <2>3. Reached(o, surplus, s.sur, s.si) \in Int
    BY <2>1, <2>2, ReachedFacts
  <2>4. QED
    BY <2>1, <2>3 DEF Progress
<1>11. T = {}
  <2> SUFFICES ASSUME T # {} PROVE FALSE
    OBVIOUS
  <2>1. PICK m \in T : \A k \in T : m <= k
    BY LeastNat, T \subseteq Nat
  <2>2. m # 0
    <3>1. Start(surplus, deficit).si = 1 /\ Start(surplus, deficit).di = 1
      BY DEF Start
    <3>2. Progress(o, surplus, Start(surplus, deficit)) = 2
      BY <1>2, <3>1 DEF Progress
    <3>3. 0 \in 0..n
      BY <1>5
    <3>4. QED
      BY <1>9, <2>1, <3>2, <3>3
  <2> DEFINE s == a[m - 1]
             u == a[m]
  <2>3. m - 1 \in 0..n /\ m - 1 \notin T /\ m \in 0..n
    BY <1>5, <2>1, <2>2
  <2>4. s \in I /\ u \in I /\ u = f[s]
    BY <1>8, <1>9, <2>2, <2>3
  <2>5. Finished(o, p, s) \/ Progress(o, surplus, s) >= (m - 1) + 2
    BY <2>3
  <2>6. ~Finished(o, p, u) /\ ~(Progress(o, surplus, u) >= m + 2)
    BY <2>1
  <2> HIDE DEF s, u
  <2>7. /\ Finished(o, p, s) => u = s
        /\ ~Finished(o, p, s) => Progress(o, surplus, u) >= Progress(o, surplus, s) + 1
    BY <2>4, IterationKeeps DEF f
  <2>8. Progress(o, surplus, s) \in Int /\ Progress(o, surplus, u) \in Int /\ m \in Int
    BY <1>5, <1>10, <2>3, <2>4
  <2>9. QED
    BY <2>5, <2>6, <2>7, <2>8
<1>12. a[n] \in I /\ (Finished(o, p, a[n]) \/ Progress(o, surplus, a[n]) >= n + 2)
  <2>1. n \in 0..n
    BY <1>5
  <2>2. QED
    BY <1>8, <1>11, <2>1
<1> DEFINE e == a[n]
<1>13. Finished(o, p, e)
  <2> SUFFICES ASSUME ~Finished(o, p, e) PROVE FALSE
    OBVIOUS
  <2>1. e \in I /\ Progress(o, surplus, e) >= n + 2
    BY <1>12
  <2> HIDE DEF e
  <2>2. e.sur \in [DOMAIN surplus -> Nat] /\ e.si \in Nat \ {0} /\ e.di \in Nat \ {0}
    BY <2>1, LocalsFields
  <2>3. Untouched(o, surplus, e.sur, e.si)
    BY <2>1 DEF LoopInv
  <2> DEFINE t == Reached(o, surplus, e.sur, e.si)
  <2>4. t \in Int /\ t <= Before(o, surplus, Len(o))
    BY <2>2, <2>3, ReachedFacts
  <2>5. e.si <= Len(o) /\ e.di <= Len(p)
    BY <1>3, <2>2 DEF Finished
  <2>6. Progress(o, surplus, e) = t + e.si + e.di
    BY DEF Progress
  <2> HIDE DEF t
  <2>7. QED
    BY <1>3, <1>4, <2>1, <2>2, <2>4, <2>5, <2>6
<1>14. QED
  BY <1>6, <1>12, <1>13

(* What the loop returns, for two lines of chains. *)
LEMMA MatchExact ==
  ASSUME NEW o, NEW surplus, Line(o, surplus), NEW p, NEW deficit, Line(p, deficit),
         NEW max \in Nat \ {0}, NEW ops, ops = matchedOps(o, p, surplus, deficit, max)
  PROVE  /\ ops \in OpsOf(DOMAIN surplus, DOMAIN deficit)
         /\ \A k \in 1..Len(ops) : ops[k].amount <= max
         /\ \A i \in 1..Len(o), j \in 1..Len(p) :
               /\ Moved(ops, o[i], p[j]) = Overlap(o, surplus, i, p, deficit, j)
               /\ Cardinality(Moves(ops, o[i], p[j]))
                     = (Overlap(o, surplus, i, p, deficit, j) + max - 1) \div max
<1>1. PICK s \in Locals(surplus, deficit) :
         /\ LoopInv(o, p, surplus, deficit, max, s) /\ Finished(o, p, s) /\ ops = s.ops
  <2>1. \E s \in Locals(surplus, deficit) :
          /\ LoopInv(o, p, surplus, deficit, max, s) /\ Finished(o, p, s)
          /\ matchedOps(o, p, surplus, deficit, max) = s.ops
    BY LoopEnds
  <2>2. QED
    BY <2>1, Zenon
<1>2. /\ s.sur \in [DOMAIN surplus -> Nat] /\ s.def \in [DOMAIN deficit -> Nat]
      /\ s.si \in Nat \ {0} /\ s.di \in Nat \ {0}
      /\ ops \in OpsOf(DOMAIN surplus, DOMAIN deficit)
  <2>1. /\ s.sur \in [DOMAIN surplus -> Nat] /\ s.def \in [DOMAIN deficit -> Nat]
        /\ s.si \in Nat \ {0} /\ s.di \in Nat \ {0}
        /\ s.ops \in Seq([src : DOMAIN surplus, dst : DOMAIN deficit, amount : Nat \ {0}])
    BY LocalsFields
  <2>2. QED
    BY <1>1, <2>1, Zenon DEF OpsOf
<1> DEFINE t == Reached(o, surplus, s.sur, s.si)
<1>3. /\ Untouched(o, surplus, s.sur, s.si) /\ Untouched(p, deficit, s.def, s.di)
      /\ t = Reached(p, deficit, s.def, s.di)
      /\ PairInv(o, p, surplus, deficit, max, ops, t)
      /\ \A k \in 1..Len(ops) : ops[k].amount <= max
  BY <1>1 DEF LoopInv
<1>4. /\ t \in Int
      /\ s.si > Len(o) => t = Before(o, surplus, Len(o))
  BY <1>2, <1>3, ReachedFacts
<1>5. s.di > Len(p) => Reached(p, deficit, s.def, s.di) = Before(p, deficit, Len(p))
  BY <1>2, <1>3, ReachedFacts
<1> HIDE DEF t
<1>6. t = Before(o, surplus, Len(o)) \/ t = Before(p, deficit, Len(p))
  BY <1>1, <1>3, <1>4, <1>5 DEF Finished
<1>7. ASSUME NEW i \in 1..Len(o), NEW j \in 1..Len(p)
      PROVE  /\ Moved(ops, o[i], p[j]) = Overlap(o, surplus, i, p, deficit, j)
             /\ Cardinality(Moves(ops, o[i], p[j]))
                   = (Overlap(o, surplus, i, p, deficit, j) + max - 1) \div max
  <2> DEFINE k == Cardinality(Moves(ops, o[i], p[j]))
             v == Overlap(o, surplus, i, p, deficit, j)
  <2>1. Shared(o, surplus, i, p, deficit, j, t) = v
    BY <1>4, <1>6, SharedAtTheEnd
  <2>2. v \in Nat
    BY <1>4, <2>1, SharedFacts
  <2>3. k \in Nat
    BY <1>2, MovesCount DEF OpsOf
  <2>4. Moved(ops, o[i], p[j]) = v /\ k * max - max < v /\ v <= k * max
    BY <1>3, <2>1 DEF PairInv
  <2> HIDE DEF k, v
  <2>5. k = (v + max - 1) \div max
    BY <2>2, <2>3, <2>4, Pieces
  <2>6. QED
    BY <2>4, <2>5 DEF k, v
<1>8. QED
  BY <1>2, <1>3, <1>7

(* The chains of a map sorted by amount make a line, each of them once. *)
LEMMA SortedLine ==
  ASSUME NEW amt, amt \in [DOMAIN amt -> Nat \ {0}], IsFiniteSet(DOMAIN amt),
         NEW o \in sortedBy(amt)
  PROVE  Line(o, amt) /\ DOMAIN o = 1..Len(o)
<1> DEFINE D == DOMAIN amt
           n == Cardinality(D)
<1>1. n \in Nat
  BY FS_CardinalityType
<1>2. o \in [1..n -> D] /\ {o[i] : i \in DOMAIN o} = D
  BY DEF sortedBy
<1> HIDE DEF n, D
<1>3. o \in Seq(D) /\ Len(o) = n /\ DOMAIN o = 1..n
  BY <1>1, <1>2
<1>4. o \in Surjection(1..n, D)
  BY <1>2 DEF Surjection
<1>5. IsFiniteSet(1..n) /\ Cardinality(1..n) = n
  <2>1. 1 \in Int /\ n \in Int
    BY <1>1
  <2>2. /\ IsFiniteSet(1..n)
        /\ Cardinality(1..n) = IF 1 > n THEN 0 ELSE n - 1 + 1
    BY <2>1, FS_Interval
  <2>3. QED
    BY <1>1, <2>2
<1>6. o \in Injection(1..n, D)
  BY <1>4, <1>5, FS_SurjSameCardinalityImpliesInj DEF n
<1>7. \A i, j \in 1..n : o[i] = o[j] => i = j
  BY <1>3, <1>6 DEF Injection, IsInjective
<1>8. QED
  BY <1>3, <1>7 DEF Line, D

(* What the caller hands to the planner. *)
LEMMA CallerFacts ==
  ASSUME NEW D, IsFiniteSet(D), NEW depths \in [D -> Nat], NEW target \in Nat
  PROVE  /\ surpluses(depths, target) \in [DOMAIN surpluses(depths, target) -> Nat \ {0}]
         /\ deficits(depths, target) \in [DOMAIN deficits(depths, target) -> Nat \ {0}]
         /\ DOMAIN surpluses(depths, target) \subseteq D /\ IsFiniteSet(DOMAIN surpluses(depths, target))
         /\ DOMAIN deficits(depths, target) \subseteq D /\ IsFiniteSet(DOMAIN deficits(depths, target))
<1> DEFINE S == {x \in D : depths[x] > target}
           T == {x \in D : depths[x] < target}
<1>1. surpluses(depths, target) = [c \in S |-> depths[c] - target]
  BY DEF surpluses
<1>2. deficits(depths, target) = [c \in T |-> target - depths[c]]
  BY DEF deficits
<1>3. IsFiniteSet(S) /\ IsFiniteSet(T)
  BY FS_Subset
<1>4. /\ \A c \in S : depths[c] - target \in Nat \ {0}
      /\ \A c \in T : target - depths[c] \in Nat \ {0}
  OBVIOUS
<1>5. S \subseteq D /\ T \subseteq D
  OBVIOUS
<1> HIDE DEF S, T
<1>6. /\ DOMAIN surpluses(depths, target) = S /\ surpluses(depths, target) \in [S -> Nat \ {0}]
      /\ DOMAIN deficits(depths, target) = T /\ deficits(depths, target) \in [T -> Nat \ {0}]
  BY <1>1, <1>2, <1>4
<1>7. QED
  BY <1>3, <1>5, <1>6

(* Every plan is exact, whatever the depths of a finite set of chains, the
   target and the cap: each pair of chains moves what the reference says, in
   the fewest moves under the cap, and nothing else moves
   (compute_rebalance_ops). *)
THEOREM PlanExact ==
  ASSUME NEW D, IsFiniteSet(D), NEW depths \in [D -> Nat], NEW target \in Nat,
         NEW max_per_op \in Nat \ {0}, NEW ops \in plans(depths, target, max_per_op)
  PROVE  /\ Exact(ops, depths, target, max_per_op)
         /\ ops \in Seq([src : D, dst : D, amount : Nat \ {0}])
<1> DEFINE sur == surpluses(depths, target)
           def == deficits(depths, target)
<1>1. /\ sur \in [DOMAIN sur -> Nat \ {0}] /\ DOMAIN sur \subseteq D /\ IsFiniteSet(DOMAIN sur)
      /\ def \in [DOMAIN def -> Nat \ {0}] /\ DOMAIN def \subseteq D /\ IsFiniteSet(DOMAIN def)
  BY CallerFacts
<1>c. ops \in compute_rebalance_ops(sur, def, max_per_op)
  BY DEF plans
<1>e. Exact(ops, depths, target, max_per_op) =
         (/\ \A k \in DOMAIN ops : /\ ops[k].amount \in 1..max_per_op
                                   /\ ops[k].src \in DOMAIN sur /\ ops[k].dst \in DOMAIN def
          /\ \E q \in sortedBy(sur), r \in sortedBy(def) :
                \A i \in DOMAIN q, j \in DOMAIN r :
                   /\ Moved(ops, q[i], r[j]) = Overlap(q, sur, i, r, def, j)
                   /\ Cardinality(Moves(ops, q[i], r[j]))
                         = (Overlap(q, sur, i, r, def, j) + max_per_op - 1) \div max_per_op)
  BY DEF Exact
<1> HIDE DEF sur, def
<1>2. PICK o \in sortedBy(sur), p \in sortedBy(def) : ops = matchedOps(o, p, sur, def, max_per_op)
  BY <1>c DEF compute_rebalance_ops
<1>3. Line(o, sur) /\ DOMAIN o = 1..Len(o) /\ Line(p, def) /\ DOMAIN p = 1..Len(p)
  BY <1>1, <1>2, SortedLine
<1>4. /\ ops \in OpsOf(DOMAIN sur, DOMAIN def)
      /\ \A k \in 1..Len(ops) : ops[k].amount <= max_per_op
      /\ \A i \in 1..Len(o), j \in 1..Len(p) :
            /\ Moved(ops, o[i], p[j]) = Overlap(o, sur, i, p, def, j)
            /\ Cardinality(Moves(ops, o[i], p[j]))
                  = (Overlap(o, sur, i, p, def, j) + max_per_op - 1) \div max_per_op
  BY <1>2, <1>3, MatchExact, SMTT(30)
<1> DEFINE Op == [src : DOMAIN sur, dst : DOMAIN def, amount : Nat \ {0}]
           Any == [src : D, dst : D, amount : Nat \ {0}]
<1>5. ops \in Seq(Op)
  BY <1>4 DEF OpsOf
<1>6. \A x \in Op : /\ x \in Any /\ x.amount \in Nat /\ x.amount # 0
                    /\ x.src \in DOMAIN sur /\ x.dst \in DOMAIN def
  BY <1>1
<1> HIDE DEF Op, Any
<1>7. DOMAIN ops = 1..Len(ops) /\ \A k \in 1..Len(ops) : ops[k] \in Op
  BY <1>5
<1>8. \A k \in DOMAIN ops : /\ ops[k].amount \in 1..max_per_op
                            /\ ops[k].src \in DOMAIN sur /\ ops[k].dst \in DOMAIN def
  BY <1>4, <1>6, <1>7
<1>9. ops \in Seq(Any)
  <2>1. Op \subseteq Any
    BY <1>6
  <2>2. QED
    BY <1>5, <2>1
<1>10. Exact(ops, depths, target, max_per_op)
  BY <1>e, <1>2, <1>3, <1>4, <1>8, Zenon
<1>11. QED
  BY <1>9, <1>10 DEF Any

(* The same for every number of chains and every depth, with any caller. *)
LEMMA ExactEverywhere == \A n, limit \in Nat : ExactUpTo(n, limit)
<1> TAKE n, limit \in Nat
<1> SUFFICES ASSUME NEW depths \in [1..n -> 0..limit], NEW goal \in 0..limit, NEW cap \in 1..limit,
                    NEW ops \in plans(depths, goal, cap)
             PROVE  Exact(ops, depths, goal, cap)
  BY DEF ExactUpTo
<1>1. 1 \in Int /\ n \in Int
  OBVIOUS
<1>2. IsFiniteSet(1..n)
  BY <1>1, FS_Interval
<1>3. depths \in [1..n -> Nat] /\ goal \in Nat /\ cap \in Nat \ {0}
  OBVIOUS
<1>4. QED
  BY <1>2, <1>3, PlanExact
=============================================================================
