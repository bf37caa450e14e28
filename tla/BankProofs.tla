----------------------------- MODULE BankProofs -----------------------------
(***************************************************************************)
(* What the Banks guarantee for every number of chains and users and every *)
(* bound.  First sums: what a single update does to a total.  Induction    *)
(* over a total is by least counterexample: WFMin, instantiated with the   *)
(* set of indices where a statement fails, needs no operator parameter.    *)
(*                                                                         *)
(* Then the value the Banks account for: the ledger is well typed, message *)
(* ids are unique, supply is held, SyncUSD is backed and unreleased        *)
(* transfers are covered.  Every call changes the totals by one amount on  *)
(* each side: it updates one chain or one user, appends one message to a   *)
(* log, or settles one message.  The last needs that no other entry of the *)
(* log is the same message, which the nonces guarantee.                    *)
(*                                                                         *)
(* Then the flags: a sealed Bank stays sealed and a frozen one only pays   *)
(* out.  Last the refinements of Transit: a message's nonce is the number  *)
(* of messages that left its chain before it, so that supply and reserves  *)
(* depart once and arrive once.                                            *)
(***************************************************************************)
EXTENDS Bank, BankTransit, FiniteSetTheorems, WellFoundedInduction, TLAPS

(* Every nonempty set of naturals has a least element. *)
LEMMA LeastNat ==
  ASSUME NEW T, T \subseteq Nat, T # {}
  PROVE  \E x \in T : \A y \in T : x <= y
<1>1. \E x \in T : \A y \in T : ~ (<<y, x>> \in OpToRel(<, Nat))
  BY NatLessThanWellFounded, WFMin, Zenon
<1>2. PICK x \in T : \A y \in T : ~ (<<y, x>> \in OpToRel(<, Nat))
  BY <1>1
<1>3. \A y \in T : ~ (y < x)
  BY <1>2, x \in Nat DEF OpToRel
<1>4. QED
  BY <1>3

(* The recursive equation of Partial has an integer solution. *)
LEMMA PartialExists ==
  ASSUME NEW n \in Nat, NEW f \in [1..n -> Int]
  PROVE  \E p \in [0..n -> Int] : PartialEqn(f, n, p)
<1> DEFINE T == {m \in 0..n : ~ \E p \in [0..m -> Int] : PartialEqn(f, m, p)}
<1> SUFFICES ASSUME T # {} PROVE FALSE
  BY n \in T \/ n \notin T
<1>1. PICK m \in T : \A k \in T : m <= k
  BY LeastNat, T \subseteq Nat
<1>2. m # 0
  <2> DEFINE z == [i \in 0..0 |-> 0]
  <2>1. z \in [0..0 -> Int] /\ PartialEqn(f, 0, z)
    BY DEF PartialEqn
  <2>2. QED
    BY <2>1
<1>3. m - 1 \in 0..n /\ m - 1 \notin T
  BY <1>1, <1>2
<1>4. PICK p \in [0..(m-1) -> Int] : PartialEqn(f, m - 1, p)
  BY <1>3
<1>5. \A i \in 0..(m-1) : p[i] = IF i = 0 THEN 0 ELSE p[i - 1] + f[i]
  <2> DEFINE q == [i \in 0..(m-1) |-> IF i = 0 THEN 0 ELSE p[i - 1] + f[i]]
  <2>1. p = q
    BY <1>4 DEF PartialEqn
  <2>2. \A i \in 0..(m-1) : q[i] = IF i = 0 THEN 0 ELSE p[i - 1] + f[i]
    OBVIOUS
  <2> HIDE DEF q
  <2>3. QED
    BY <2>1, <2>2
<1> DEFINE t == [i \in 0..m |-> IF i = m THEN p[m - 1] + f[m] ELSE p[i]]
<1>6. t \in [0..m -> Int]
  BY <1>1, <1>2, <1>4
<1>7. \A i \in 0..m : t[i] = IF i = 0 THEN 0 ELSE t[i - 1] + f[i]
  <2> TAKE i \in 0..m
  <2>1. CASE i = m
    BY <1>1, <1>2, <2>1
  <2>2. CASE i # m
    BY <1>1, <1>2, <1>5, <2>2, SMTT(30)
  <2>3. QED
    BY <2>1, <2>2
<1>8. PartialEqn(f, m, t)
  <2> DEFINE u == [i \in 0..m |-> IF i = 0 THEN 0 ELSE t[i - 1] + f[i]]
  <2>1. \A i \in 0..m : t[i] = u[i]
    BY <1>7
  <2>2. DOMAIN t = DOMAIN u
    OBVIOUS
  <2> HIDE DEF t
  <2>3. t = u
    BY <1>6, <2>1, <2>2
  <2>4. QED
    BY <2>3 DEF PartialEqn
<1>9. QED
  BY <1>1, <1>6, <1>8

(* Partial is that solution: its value at each index, and its type. *)
LEMMA PartialStep ==
  ASSUME NEW n \in Nat, NEW f \in [1..n -> Int]
  PROVE  \A i \in 0..n : Partial(f, n)[i] = IF i = 0 THEN 0 ELSE Partial(f, n)[i - 1] + f[i]
<1> DEFINE P == Partial(f, n)
<1>1. \E p : PartialEqn(f, n, p)
  BY PartialExists
<1>2. P = CHOOSE p : PartialEqn(f, n, p)
  BY Zenon DEF Partial, PartialEqn
<1>3. PartialEqn(f, n, P)
  BY <1>1, <1>2
<1> HIDE DEF P
<1> DEFINE q == [i \in 0..n |-> IF i = 0 THEN 0 ELSE P[i - 1] + f[i]]
<1>4. P = q
  BY <1>3 DEF PartialEqn
<1>5. \A i \in 0..n : q[i] = IF i = 0 THEN 0 ELSE P[i - 1] + f[i]
  OBVIOUS
<1> HIDE DEF q
<1>6. \A i \in 0..n : P[i] = IF i = 0 THEN 0 ELSE P[i - 1] + f[i]
  BY <1>4, <1>5
<1>7. QED
  BY <1>6 DEF P

(* Partial sums of integers are integers. *)
LEMMA PartialInt ==
  ASSUME NEW n \in Nat, NEW f \in [1..n -> Int], NEW i \in 0..n
  PROVE  Partial(f, n)[i] \in Int
<1> DEFINE P == Partial(f, n)
           T == {m \in 0..n : P[m] \notin Int}
<1>0. \A j \in 0..n : P[j] = IF j = 0 THEN 0 ELSE P[j - 1] + f[j]
  BY PartialStep
<1> HIDE DEF P
<1> SUFFICES ASSUME T # {} PROVE FALSE
  BY DEF P
<1>1. PICK m \in T : \A k \in T : m <= k
  BY LeastNat, T \subseteq Nat
<1>2. m # 0
  BY <1>0
<1>3. P[m - 1] \in Int
  BY <1>1, <1>2
<1>4. QED
  BY <1>0, <1>2, <1>3

(* Partial sums of the same numbers are equal, whatever the lengths. *)
LEMMA PartialCongruent ==
  ASSUME NEW n \in Nat, NEW f \in [1..n -> Int],
         NEW l \in Nat, NEW g \in [1..l -> Int],
         NEW k \in 0..n, k <= l, \A i \in 1..k : f[i] = g[i]
  PROVE  Partial(f, n)[k] = Partial(g, l)[k]
<1> DEFINE P == Partial(f, n)
           Q == Partial(g, l)
           T == {m \in 0..k : P[m] # Q[m]}
<1>0. /\ \A j \in 0..n : P[j] = IF j = 0 THEN 0 ELSE P[j - 1] + f[j]
      /\ \A j \in 0..l : Q[j] = IF j = 0 THEN 0 ELSE Q[j - 1] + g[j]
  BY PartialStep
<1> HIDE DEF P, Q
<1> SUFFICES ASSUME T # {} PROVE FALSE
  BY DEF P, Q
<1>1. PICK m \in T : \A j \in T : m <= j
  BY LeastNat, T \subseteq Nat
<1>2. m # 0
  BY <1>0
<1>3. P[m - 1] = Q[m - 1]
  BY <1>1, <1>2
<1>4. m \in 1..k /\ m \in 0..n /\ m \in 0..l
  BY <1>1, <1>2
<1>5. P[m] = P[m - 1] + f[m] /\ Q[m] = Q[m - 1] + g[m]
  BY <1>0, <1>2, <1>4
<1>6. QED
  BY <1>3, <1>4, <1>5

(* The total of nothing is 0. *)
LEMMA TotalEmpty ==
  ASSUME NEW f \in [1..0 -> Int]
  PROVE  Total(f, 0) = 0
<1>1. 0 \in Nat /\ 0 \in 0..0
  OBVIOUS
<1>2. QED
  BY <1>1, PartialStep DEF Total

(* A total of integers is an integer. *)
LEMMA TotalInt ==
  ASSUME NEW n \in Nat, NEW f \in [1..n -> Int]
  PROVE  Total(f, n) \in Int
BY PartialInt, n \in 0..n DEF Total

(* Adding one term at the end adds it to the total. *)
LEMMA TotalAppend ==
  ASSUME NEW n \in Nat, NEW f \in [1..n -> Int],
         NEW g \in [1..(n+1) -> Int], \A i \in 1..n : f[i] = g[i]
  PROVE  Total(g, n + 1) = Total(f, n) + g[n + 1]
<1>1. Partial(f, n)[n] = Partial(g, n + 1)[n]
  BY PartialCongruent, n + 1 \in Nat, n \in 0..n, n <= n + 1
<1>2. Partial(g, n + 1)[n + 1] = Partial(g, n + 1)[n] + g[n + 1]
  <2>1. n + 1 \in Nat /\ n + 1 \in 0..(n+1) /\ n + 1 # 0 /\ (n + 1) - 1 = n
    OBVIOUS
  <2>2. QED
    BY <2>1, PartialStep
<1>3. QED
  BY <1>1, <1>2 DEF Total

(* Changing one term changes the total by the difference. *)
LEMMA TotalUpdate ==
  ASSUME NEW n \in Nat, NEW f \in [1..n -> Int], NEW g \in [1..n -> Int],
         NEW k \in 1..n, \A i \in 1..n : i # k => f[i] = g[i]
  PROVE  Total(g, n) = Total(f, n) + (g[k] - f[k])
<1> DEFINE P == Partial(f, n)
           Q == Partial(g, n)
           T == {m \in k..n : Q[m] # P[m] + (g[k] - f[k])}
<1>0. \A j \in 0..n : /\ P[j] = IF j = 0 THEN 0 ELSE P[j - 1] + f[j]
                      /\ Q[j] = IF j = 0 THEN 0 ELSE Q[j - 1] + g[j]
  BY PartialStep
<1>a. \A j \in 0..n : P[j] \in Int /\ Q[j] \in Int
  BY PartialInt
<1>b. P[k - 1] = Q[k - 1]
  BY PartialCongruent, k - 1 \in 0..n, k - 1 <= n, \A i \in 1..(k-1) : f[i] = g[i]
<1> HIDE DEF P, Q
<1> SUFFICES ASSUME T # {} PROVE FALSE
  BY n \in k..n DEF P, Q, Total
<1>1. PICK m \in T : \A j \in T : m <= j
  BY LeastNat, T \subseteq Nat
<1>2. P[m] = P[m - 1] + f[m] /\ Q[m] = Q[m - 1] + g[m] /\ m \in 1..n
  BY <1>0
<1>3. P[m - 1] \in Int /\ Q[m - 1] \in Int
  BY <1>a, <1>2
<1>4. CASE m = k
  BY <1>b, <1>2, <1>3, <1>4
<1>5. CASE m # k
  <2>1. Q[m - 1] = P[m - 1] + (g[k] - f[k])
    BY <1>1, <1>2, <1>5
  <2>2. f[m] = g[m]
    BY <1>2, <1>5
  <2>3. QED
    BY <1>2, <1>3, <2>1, <2>2
<1>6. QED
  BY <1>4, <1>5

(* A total of naturals is a natural. *)
LEMMA TotalNat ==
  ASSUME NEW n \in Nat, NEW f \in [1..n -> Nat]
  PROVE  Total(f, n) \in Nat
<1> DEFINE P == Partial(f, n)
           T == {m \in 0..n : P[m] \notin Nat}
<1>0. \A j \in 0..n : P[j] = IF j = 0 THEN 0 ELSE P[j - 1] + f[j]
  BY PartialStep, f \in [1..n -> Int]
<1> HIDE DEF P
<1> SUFFICES ASSUME T # {} PROVE FALSE
  BY n \in 0..n DEF P, Total
<1>1. PICK m \in T : \A k \in T : m <= k
  BY LeastNat, T \subseteq Nat
<1>2. m # 0
  BY <1>0
<1>3. P[m - 1] \in Nat
  BY <1>1, <1>2
<1>4. QED
  BY <1>0, <1>2, <1>3

(* The total of zeros is 0. *)
LEMMA TotalZero ==
  ASSUME NEW n \in Nat
  PROVE  Total([i \in 1..n |-> 0], n) = 0
<1> DEFINE z == [i \in 1..n |-> 0]
           P == Partial(z, n)
           T == {m \in 0..n : P[m] # 0}
<1>a. z \in [1..n -> Int]
  OBVIOUS
<1>0. \A j \in 0..n : P[j] = IF j = 0 THEN 0 ELSE P[j - 1] + z[j]
  BY <1>a, PartialStep
<1>b. \A j \in 1..n : z[j] = 0
  OBVIOUS
<1> HIDE DEF P, z
<1> SUFFICES ASSUME T # {} PROVE FALSE
  BY n \in 0..n DEF P, z, Total
<1>1. PICK m \in T : \A k \in T : m <= k
  BY LeastNat, T \subseteq Nat
<1>2. m # 0
  BY <1>0
<1>3. P[m - 1] = 0
  BY <1>1, <1>2
<1>4. QED
  BY <1>0, <1>b, <1>2, <1>3

(* No term of a total of naturals exceeds it. *)
LEMMA TermBound ==
  ASSUME NEW n \in Nat, NEW f \in [1..n -> Nat], NEW k \in 1..n
  PROVE  f[k] <= Total(f, n)
<1> DEFINE g == [f EXCEPT ![k] = 0]
<1>1. g \in [1..n -> Nat] /\ g[k] = 0 /\ \A i \in 1..n : i # k => f[i] = g[i]
  OBVIOUS
<1> HIDE DEF g
<1>2. Total(g, n) \in Nat /\ Total(f, n) \in Nat
  BY <1>1, TotalNat
<1>3. Total(g, n) = Total(f, n) + (g[k] - f[k])
  BY <1>1, TotalUpdate, f \in [1..n -> Int], g \in [1..n -> Int]
<1>4. QED
  BY <1>1, <1>2, <1>3, f[k] \in Nat

-----------------------------------------------------------------------------
(* The accounts a call debits and credits: one entry per chain. *)
LEMMA ChainEntry ==
  ASSUME NEW f \in [Chains -> Nat], NEW c \in Chains, NEW a \in Nat
  PROVE  /\ [f EXCEPT ![c] = @ + a] \in [Chains -> Nat]
         /\ a <= f[c] => [f EXCEPT ![c] = @ - a] \in [Chains -> Nat]
<1>1. f[c] + a \in Nat
  OBVIOUS
<1>2. a <= f[c] => f[c] - a \in Nat
  OBVIOUS
<1>3. QED
  BY <1>1, <1>2

(* One entry per chain and user. *)
LEMMA UserEntry ==
  ASSUME NEW f \in [Chains -> [Users -> Nat]], NEW c \in Chains, NEW u \in Users, NEW a \in Nat
  PROVE  /\ [f EXCEPT ![c][u] = @ + a] \in [Chains -> [Users -> Nat]]
         /\ a <= f[c][u] => [f EXCEPT ![c][u] = @ - a] \in [Chains -> [Users -> Nat]]
<1>1. f[c] \in [Users -> Nat] /\ f[c][u] + a \in Nat
  OBVIOUS
<1>2. a <= f[c][u] => f[c][u] - a \in Nat
  OBVIOUS
<1>3. [f[c] EXCEPT ![u] = @ + a] \in [Users -> Nat]
  BY <1>1
<1>4. a <= f[c][u] => [f[c] EXCEPT ![u] = @ - a] \in [Users -> Nat]
  BY <1>1, <1>2
<1>5. QED
  BY <1>3, <1>4

(* The initial state of the Banks is well typed. *)
LEMMA InitType == Init => TypeOK
<1> SUFFICES ASSUME Init PROVE TypeOK
  OBVIOUS
<1>1. config \in [Chains -> Config]
  BY BankAssumption DEF Init, EmptyLedger, NoTransfers, Deployed, Config
<1>2. LedgerType
  BY BankAssumption DEF Init, EmptyLedger, NoTransfers, Deployed, LedgerType
<1>3. HotType /\ ColdType /\ ReserveType
  BY DEF Init, EmptyLedger, NoTransfers, Deployed, HotType, ColdType, ReserveType
<1>4. GovType
  BY <1>1 DEF Init, EmptyLedger, NoTransfers, Deployed, GovType
<1>5. QED
  BY <1>1, <1>2, <1>3, <1>4 DEF TypeOK

(* The groups of variables that a call leaves alone keep their types. *)
LEMMA FrameType ==
  /\ HotType /\ UNCHANGED hotVars => HotType'
  /\ ColdType /\ UNCHANGED coldVars => ColdType'
  /\ ReserveType /\ UNCHANGED reserveVars => ReserveType'
  /\ GovType /\ UNCHANGED govVars => GovType'
  /\ LedgerType /\ UNCHANGED ledgerVars => LedgerType'
<1>1. HotType /\ UNCHANGED hotVars => HotType'
  BY DEF HotType, hotVars
<1>2. ColdType /\ UNCHANGED coldVars => ColdType'
  BY DEF ColdType, coldVars
<1>3. ReserveType /\ UNCHANGED reserveVars => ReserveType'
  BY DEF ReserveType, reserveVars
<1>4. GovType /\ UNCHANGED govVars => GovType'
  BY DEF GovType, govVars, flagVars
<1>5. LedgerType /\ UNCHANGED ledgerVars => LedgerType'
  BY DEF LedgerType, ledgerVars
<1>6. QED
  BY <1>1, <1>2, <1>3, <1>4, <1>5

(* withdraw() keeps the types, whatever the amount. *)
LEMMA WithdrawType ==
  ASSUME TypeOK, NEW c \in Chains, NEW u \in Users, NEW amount \in Nat, withdraw(c, u, amount)
  PROVE  TypeOK'
<1>1. LedgerType /\ totalSupply[c] - amount \in Int
  BY DEF TypeOK, LedgerType
<1>2. LedgerType'
  BY <1>1, ChainEntry, UserEntry DEF LedgerType, withdraw
<1>3. QED
  BY <1>2, FrameType DEF TypeOK, withdraw

(* The calls of users and of the Treasury with any amounts: Amounts holds what
   TLC enumerates, the services compute theirs. *)
UserCall ==
    \E c \in Chains, u \in Users, amount \in Nat :
        \/ deposit(c, u, amount)
        \/ withdraw(c, u, amount)
        \/ seedPool(c, u, amount)
        \/ \E to \in Users : transfer(c, u, to, amount)
        \/ \E to \in Users, dst \in Destinations :
               transferHotPath(c, u, to, amount, dst)

(* What the Treasury may burn, in any amount. *)
TreasuryCall ==
    \E c \in Chains, dst \in Chains, amount \in Nat :
        rebalance(c, dst, amount) \/ bridgeReserve(c, dst, amount)

(* Any step of the Banks. *)
BankCall == UserCall \/ RelayerStep \/ TreasuryCall \/ DeliveryStep \/ GovernanceStep

(* The steps of Bank are such calls. *)
LEMMA NextIsCall == [Next]_bankVars => [BankCall]_bankVars
<1>1. UserStep => UserCall
  BY BankAssumption, Zenon DEF UserStep, UserCall
<1>2. TreasuryStep => TreasuryCall
  BY BankAssumption, Zenon DEF TreasuryStep, TreasuryCall
<1>3. QED
  BY <1>1, <1>2 DEF Next, BankCall

(* User calls keep every balance a natural number: each debit is guarded by
   the balance it debits. *)
LEMMA UserType == TypeOK /\ UserCall => TypeOK'
<1> SUFFICES ASSUME TypeOK, UserCall PROVE TypeOK'
  OBVIOUS
<1>1. PICK c \in Chains, u \in Users, amount \in Nat :
        \/ deposit(c, u, amount)
        \/ withdraw(c, u, amount)
        \/ seedPool(c, u, amount)
        \/ \E to \in Users : transfer(c, u, to, amount)
        \/ \E to \in Users, dst \in Destinations :
               transferHotPath(c, u, to, amount, dst)
  BY DEF UserCall
<1>2. amount \in Nat /\ LedgerType /\ totalSupply[c] + amount \in Int /\ totalSupply[c] - amount \in Int
  BY BankAssumption DEF TypeOK, LedgerType
<1>3. CASE deposit(c, u, amount)
  <2>1. LedgerType'
    BY <1>2, <1>3, ChainEntry, UserEntry DEF LedgerType, deposit
  <2>2. QED
    BY <1>3, <2>1, FrameType DEF TypeOK, deposit
<1>4. CASE withdraw(c, u, amount)
  BY <1>2, <1>4, WithdrawType
<1>5. CASE seedPool(c, u, amount)
  <2>1. LedgerType'
    BY <1>2, <1>5, ChainEntry, UserEntry DEF LedgerType, seedPool
  <2>2. QED
    BY <1>5, <2>1, FrameType DEF TypeOK, seedPool
<1>6. CASE \E to \in Users : transfer(c, u, to, amount)
  <2>1. PICK to \in Users : transfer(c, u, to, amount)
    BY <1>6
  <2> DEFINE debited == [balanceOf[c] EXCEPT ![u] = @ - amount]
  <2>2. balanceOf[c][u] - amount \in Nat
    BY <1>2, <2>1 DEF LedgerType, transfer
  <2>3. debited \in [Users -> Nat]
    BY <1>2, <2>2 DEF LedgerType
  <2>4. balanceOf' = [balanceOf EXCEPT ![c] = [debited EXCEPT ![to] = @ + amount]]
    BY <2>1 DEF transfer
  <2> HIDE DEF debited
  <2>5. [debited EXCEPT ![to] = @ + amount] \in [Users -> Nat]
    BY <1>2, <2>3
  <2> DEFINE credited == [debited EXCEPT ![to] = @ + amount]
  <2>8. credited \in [Users -> Nat] /\ balanceOf' = [balanceOf EXCEPT ![c] = credited]
    BY <2>4, <2>5
  <2> HIDE DEF credited
  <2>9. balanceOf' \in [Chains -> [Users -> Nat]]
    BY <1>2, <2>8 DEF LedgerType
  <2>10. UNCHANGED <<wallet, usdc, pool, totalSupply>>
    BY <2>1 DEF transfer
  <2>6. LedgerType'
    BY <1>2, <2>9, <2>10 DEF LedgerType
  <2>7. QED
    BY <2>1, <2>6, FrameType DEF TypeOK, transfer
<1>7. CASE \E to \in Users, dst \in Destinations : transferHotPath(c, u, to, amount, dst)
  <2>1. PICK to \in Users, dst \in Destinations : transferHotPath(c, u, to, amount, dst)
    BY <1>7
  <2>2. LedgerType'
    BY <1>2, <2>1, ChainEntry, UserEntry DEF LedgerType, transferHotPath
  <2>3. [sender |-> u, to |-> to, amount |-> amount, dst |-> dst, src |-> c, nonce |-> nonce[c]] \in Transfer
    BY <1>2, BankAssumption DEF Transfer, TypeOK, HotType
  <2>4. HotType'
    BY <2>1, <2>3 DEF TypeOK, HotType, transferHotPath, increment
  <2>5. QED
    BY <2>1, <2>2, <2>4, FrameType DEF TypeOK, transferHotPath
<1>8. QED
  BY <1>1, <1>3, <1>4, <1>5, <1>6, <1>7

(* The relayer's, the Treasury's and the bridges' calls keep the types. *)
LEMMA RelayerType == TypeOK /\ RelayerStep => TypeOK'
<1> SUFFICES ASSUME TypeOK, RelayerStep PROVE TypeOK'
  OBVIOUS
<1>1. PICK i \in DOMAIN transfers :
        chainOf(transfers[i].dst) \in Chains /\ releaseHotPath(chainOf(transfers[i].dst), transfers[i])
  BY DEF RelayerStep
<1> DEFINE t == transfers[i]
           c == chainOf(t.dst)
<1>2. t \in Transfer /\ c \in Chains /\ LedgerType
  BY <1>1 DEF TypeOK, HotType
<1>3. t.amount \in Nat /\ t.to \in Users
  BY <1>2 DEF Transfer
<1>4. releaseHotPath(c, t)
  BY <1>1
<1> HIDE DEF t, c
<1>5. LedgerType'
  BY <1>2, <1>3, <1>4, ChainEntry, UserEntry DEF LedgerType, releaseHotPath, releasable
<1>6. HotType'
  BY <1>2, <1>4 DEF TypeOK, HotType, releaseHotPath
<1>7. QED
  BY <1>4, <1>5, <1>6, FrameType DEF TypeOK, releaseHotPath

(* rebalance() and bridgeReserve() keep the types, whatever the amount. *)
LEMMA RebalanceType ==
  ASSUME TypeOK, NEW c \in Chains, NEW dst \in Chains, NEW amount \in Nat,
         rebalance(c, dst, amount)
  PROVE  TypeOK'
<1>1. LedgerType /\ totalSupply[c] - amount \in Int
  BY DEF TypeOK, LedgerType
<1>2. LedgerType'
  BY <1>1, ChainEntry DEF LedgerType, rebalance, rebalanceable
<1>3. [src |-> c, dst |-> dst, amount |-> amount, nonce |-> rebalanceNonce[c]] \in Rebalance
  BY DEF Rebalance, TypeOK, ColdType
<1>4. ColdType'
  BY <1>3 DEF TypeOK, ColdType, rebalance, rebalanceable, increment
<1>5. QED
  BY <1>2, <1>4, FrameType DEF TypeOK, rebalance, rebalanceable

(* bridgeReserve() keeps the reserve a natural number. *)
LEMMA BridgeReserveType ==
  ASSUME TypeOK, NEW c \in Chains, NEW dst \in Chains, NEW amount \in Nat,
         bridgeReserve(c, dst, amount)
  PROVE  TypeOK'
<1>1. LedgerType'
  BY ChainEntry DEF TypeOK, LedgerType, bridgeReserve, reserveBridgeable
<1>2. [src |-> c, dst |-> dst, amount |-> amount, nonce |-> bridgeNonce[c]] \in Bridge
  BY DEF Bridge, TypeOK, ReserveType
<1>3. ReserveType'
  BY <1>2 DEF TypeOK, ReserveType, bridgeReserve, reserveBridgeable, increment
<1>4. QED
  BY <1>1, <1>3, FrameType DEF TypeOK, bridgeReserve, reserveBridgeable

(* The calls of the Treasury keep the types. *)
LEMMA TreasuryType == TypeOK /\ TreasuryCall => TypeOK'
<1> SUFFICES ASSUME TypeOK, TreasuryCall PROVE TypeOK'
  OBVIOUS
<1>1. PICK c \in Chains, dst \in Chains, amount \in Nat :
        rebalance(c, dst, amount) \/ bridgeReserve(c, dst, amount)
  BY DEF TreasuryCall
<1>2. amount \in Nat
  BY BankAssumption
<1>3. QED
  BY <1>1, <1>2, RebalanceType, BridgeReserveType

(* Deliveries of logged messages keep the types. *)
LEMMA DeliveryType == TypeOK /\ DeliveryStep => TypeOK'
<1> SUFFICES ASSUME TypeOK, DeliveryStep PROVE TypeOK'
  OBVIOUS
<1>1. CASE \E i \in DOMAIN rebalances : ccipReceive(rebalances[i])
  <2>1. PICK i \in DOMAIN rebalances : ccipReceive(rebalances[i])
    BY <1>1
  <2> DEFINE m == rebalances[i]
  <2>2. m \in Rebalance /\ LedgerType /\ ccipReceive(m)
    BY <2>1 DEF TypeOK, ColdType
  <2> HIDE DEF m
  <2>3. m.amount \in Nat /\ m.dst \in Chains
    BY <2>2 DEF Rebalance
  <2>4. totalSupply[m.dst] + m.amount \in Int
    BY <2>2, <2>3 DEF LedgerType
  <2>5. LedgerType'
    BY <2>2, <2>3, <2>4, ChainEntry DEF LedgerType, ccipReceive
  <2>6. ColdType'
    BY <2>2, <2>3 DEF TypeOK, ColdType, ccipReceive
  <2>7. QED
    BY <2>2, <2>5, <2>6, FrameType DEF TypeOK, ccipReceive
<1>2. CASE \E i \in DOMAIN bridges : bridgeIn(bridges[i])
  <2>1. PICK i \in DOMAIN bridges : bridgeIn(bridges[i])
    BY <1>2
  <2> DEFINE m == bridges[i]
  <2>2. m \in Bridge /\ LedgerType /\ bridgeIn(m)
    BY <2>1 DEF TypeOK, ReserveType
  <2> HIDE DEF m
  <2>3. m.amount \in Nat /\ m.dst \in Chains
    BY <2>2 DEF Bridge
  <2>4. LedgerType'
    BY <2>2, <2>3, ChainEntry DEF LedgerType, bridgeIn, creditable
  <2>5. ReserveType'
    BY <2>2, <2>3 DEF TypeOK, ReserveType, bridgeIn, creditable
  <2>6. QED
    BY <2>2, <2>4, <2>5, FrameType DEF TypeOK, bridgeIn, creditable
<1>3. QED
  BY <1>1, <1>2 DEF DeliveryStep

(* A governance setter stores well-typed settings and nothing else. *)
LEMMA SetType ==
  ASSUME TypeOK, NEW c \in Chains, NEW settings \in Config, Set(c, settings)
  PROVE  TypeOK'
<1>1. GovType'
  BY DEF TypeOK, GovType, Set, Govern, flagVars
<1>2. QED
  BY <1>1, FrameType DEF TypeOK, Set, Govern

(* Governance keeps the types. *)
LEMMA GovernanceType == TypeOK /\ GovernanceStep => TypeOK'
<1> SUFFICES ASSUME TypeOK, GovernanceStep PROVE TypeOK'
  OBVIOUS
<1>1. PICK c \in Chains :
        \/ pause(c) \/ unpause(c) \/ freezeForDecommission(c) \/ pausePermanently(c)
        \/ toggleTokenPause(c)
        \/ allowToken(c) \/ disallowToken(c) \/ setReserveToken(c) \/ setFeeCollector(c)
        \/ setReserveBridge(c) \/ setCcipRouter(c)
        \/ \E m \in Caps : setMaxRebalanceAmount(c, m) \/ setMaxReserveRebalanceAmount(c, m)
        \/ \E d \in Chains : \/ setAllowlistedDestChain(c, d)
                             \/ setAllowlistedSourceContract(c, d)
                             \/ setReserveDestination(c, d)
  BY Zenon DEF GovernanceStep
<1>2. CASE pause(c) \/ unpause(c) \/ freezeForDecommission(c) \/ pausePermanently(c)
           \/ toggleTokenPause(c)
  <2>0. GovType /\ governance + 1 \in Nat /\ (~ tokenPaused[c]) \in BOOLEAN
    BY DEF TypeOK, GovType
  <2>a. ASSUME pause(c) \/ unpause(c) PROVE GovType'
    BY <2>0, <2>a DEF GovType, pause, unpause, Govern
  <2>b. ASSUME freezeForDecommission(c) PROVE GovType'
    BY <2>0, <2>b DEF GovType, freezeForDecommission, Govern
  <2>c. ASSUME pausePermanently(c) PROVE GovType'
    BY <2>0, <2>c DEF GovType, pausePermanently, Govern
  <2>d. ASSUME toggleTokenPause(c) PROVE GovType'
    BY <2>0, <2>d DEF GovType, toggleTokenPause, Govern
  <2>1. GovType'
    BY <1>2, <2>a, <2>b, <2>c, <2>d
  <2>2. Govern
    BY <1>2 DEF pause, unpause, freezeForDecommission, pausePermanently, toggleTokenPause
  <2>3. QED
    BY <2>1, <2>2, FrameType DEF TypeOK, Govern
<1>3. config[c] \in Config
  BY DEF TypeOK, GovType
<1>4. CASE \/ allowToken(c) \/ disallowToken(c) \/ setReserveToken(c) \/ setFeeCollector(c)
           \/ setReserveBridge(c) \/ setCcipRouter(c)
  <2>1. /\ [config[c] EXCEPT !.allowed = TRUE, !.reserveToken = TRUE] \in Config
        /\ [config[c] EXCEPT !.allowed = FALSE] \in Config
        /\ [config[c] EXCEPT !.reserveToken = TRUE] \in Config
        /\ [config[c] EXCEPT !.bridge = TRUE] \in Config
        /\ [config[c] EXCEPT !.router = TRUE] \in Config
    BY <1>3 DEF Config
  <2>2. QED
    BY <1>3, <1>4, <2>1, SetType DEF allowToken, disallowToken, setReserveToken,
         setFeeCollector, setReserveBridge, setCcipRouter
<1>5. CASE \E m \in Caps : setMaxRebalanceAmount(c, m) \/ setMaxReserveRebalanceAmount(c, m)
  <2>1. PICK m \in Caps : setMaxRebalanceAmount(c, m) \/ setMaxReserveRebalanceAmount(c, m)
    BY <1>5
  <2>2. /\ [config[c] EXCEPT !.cap = m] \in Config
        /\ [config[c] EXCEPT !.reserveCap = m] \in Config
    BY <1>3, BankAssumption DEF Config
  <2>3. QED
    BY <2>1, <2>2, SetType DEF setMaxRebalanceAmount, setMaxReserveRebalanceAmount
<1>6. CASE \E d \in Chains : \/ setAllowlistedDestChain(c, d)
                             \/ setAllowlistedSourceContract(c, d)
                             \/ setReserveDestination(c, d)
  <2>1. PICK d \in Chains : \/ setAllowlistedDestChain(c, d)
                            \/ setAllowlistedSourceContract(c, d)
                            \/ setReserveDestination(c, d)
    BY <1>6
  <2>2. ASSUME NEW S \in SUBSET Chains
        PROVE  /\ [config[c] EXCEPT !.dests = S] \in Config
               /\ [config[c] EXCEPT !.sources = S] \in Config
               /\ [config[c] EXCEPT !.reserveDests = S] \in Config
    BY <1>3 DEF Config
  <2>4. config[c].dests \in SUBSET Chains /\ config[c].sources \in SUBSET Chains
        /\ config[c].reserveDests \in SUBSET Chains
    BY <1>3 DEF Config
  <2>5. CASE setAllowlistedDestChain(c, d)
    <3>1. PICK S \in {config[c].dests \cup {d}, config[c].dests \ {d}} :
            Set(c, [config[c] EXCEPT !.dests = S])
      BY <2>5, Zenon DEF setAllowlistedDestChain
    <3>2. S \in SUBSET Chains
      BY <2>4
    <3>3. [config[c] EXCEPT !.dests = S] \in Config
      BY <2>2, <3>2
    <3>4. QED
      BY <3>1, <3>3, SetType
  <2>6. CASE setAllowlistedSourceContract(c, d)
    <3>1. PICK S \in {config[c].sources \cup {d}, config[c].sources \ {d}} :
            Set(c, [config[c] EXCEPT !.sources = S])
      BY <2>6, Zenon DEF setAllowlistedSourceContract
    <3>2. S \in SUBSET Chains
      BY <2>4
    <3>3. [config[c] EXCEPT !.sources = S] \in Config
      BY <2>2, <3>2
    <3>4. QED
      BY <3>1, <3>3, SetType
  <2>7. CASE setReserveDestination(c, d)
    <3>1. PICK S \in {config[c].reserveDests \cup {d}, config[c].reserveDests \ {d}} :
            Set(c, [config[c] EXCEPT !.reserveDests = S])
      BY <2>7, Zenon DEF setReserveDestination
    <3>2. S \in SUBSET Chains
      BY <2>4
    <3>3. [config[c] EXCEPT !.reserveDests = S] \in Config
      BY <2>2, <3>2
    <3>4. QED
      BY <3>1, <3>3, SetType
  <2>8. QED
    BY <2>1, <2>5, <2>6, <2>7
<1>7. QED
  BY <1>1, <1>2, <1>4, <1>5, <1>6

(* Every call keeps the types. *)
LEMMA CallType == TypeOK /\ [BankCall]_bankVars => TypeOK'
<1>1. TypeOK /\ UNCHANGED bankVars => TypeOK'
  BY FrameType DEF TypeOK, bankVars
<1>2. QED
  BY <1>1, UserType, RelayerType, TreasuryType, DeliveryType, GovernanceType DEF BankCall

(* TypeOK is inductive. *)
LEMMA TypeStep == TypeOK /\ [Next]_bankVars => TypeOK'
BY CallType, NextIsCall

(* Every reachable state of the Banks is well typed: no pool, reserve, user
   balance or wallet is ever negative, whatever the calls and their order. *)
THEOREM TypeCorrect == Spec => []TypeOK
BY InitType, TypeStep, PTL DEF Spec

-----------------------------------------------------------------------------
(* The value the Banks account for. *)

(* Crediting or debiting one chain moves the total over the chains. *)
LEMMA ChainTotal ==
  ASSUME NEW f \in [Chains -> Int], NEW c \in Chains, NEW a \in Int
  PROVE  /\ Total([f EXCEPT ![c] = @ + a], N) = Total(f, N) + a
         /\ Total([f EXCEPT ![c] = @ - a], N) = Total(f, N) - a
         /\ Total(f, N) \in Int
<1>0. f \in [1..N -> Int] /\ N \in Nat /\ c \in 1..N
  BY BankAssumption DEF Chains
<1>1. Total(f, N) \in Int
  BY <1>0, TotalInt
<1> DEFINE g == [f EXCEPT ![c] = @ + a]
           h == [f EXCEPT ![c] = @ - a]
<1>2. g \in [1..N -> Int] /\ g[c] - f[c] = a /\ \A i \in 1..N : i # c => f[i] = g[i]
  BY <1>0
<1>3. h \in [1..N -> Int] /\ h[c] - f[c] = - a /\ \A i \in 1..N : i # c => f[i] = h[i]
  BY <1>0
<1> HIDE DEF g, h
<1>4. Total(g, N) = Total(f, N) + a
  BY <1>0, <1>2, TotalUpdate
<1>5. Total(h, N) = Total(f, N) + (- a)
  BY <1>0, <1>3, TotalUpdate
<1>6. QED
  BY <1>1, <1>4, <1>5 DEF g, h

(* Crediting or debiting one user moves the total over the users. *)
LEMMA UserTotal ==
  ASSUME NEW b \in [Users -> Nat], NEW u \in Users, NEW a \in Int
  PROVE  /\ Total([b EXCEPT ![u] = @ + a], NumUsers) = Total(b, NumUsers) + a
         /\ Total([b EXCEPT ![u] = @ - a], NumUsers) = Total(b, NumUsers) - a
         /\ Total(b, NumUsers) \in Int
<1>0. b \in [1..NumUsers -> Int] /\ NumUsers \in Nat /\ u \in 1..NumUsers
  BY BankAssumption DEF Users
<1>1. Total(b, NumUsers) \in Int
  BY <1>0, TotalInt
<1> DEFINE g == [b EXCEPT ![u] = @ + a]
           h == [b EXCEPT ![u] = @ - a]
<1>2. g \in [1..NumUsers -> Int] /\ g[u] - b[u] = a /\ \A i \in 1..NumUsers : i # u => b[i] = g[i]
  BY <1>0
<1>3. h \in [1..NumUsers -> Int] /\ h[u] - b[u] = - a /\ \A i \in 1..NumUsers : i # u => b[i] = h[i]
  BY <1>0
<1> HIDE DEF g, h
<1>4. Total(g, NumUsers) = Total(b, NumUsers) + a
  BY <1>0, <1>2, TotalUpdate
<1>5. Total(h, NumUsers) = Total(b, NumUsers) + (- a)
  BY <1>0, <1>3, TotalUpdate
<1>6. QED
  BY <1>1, <1>4, <1>5 DEF g, h

(* What a log of messages with natural amounts has outstanding. *)
LEMMA OutstandingInt ==
  ASSUME NEW M, NEW log \in Seq(M), NEW done, \A m \in M : m.amount \in Nat
  PROVE  /\ \A i \in 1..Len(log) : Outstanding(log[i], done) \in Nat
         /\ OutstandingTotal(log, done) \in Nat
<1>1. \A i \in 1..Len(log) : Outstanding(log[i], done) \in Nat
  BY DEF Outstanding
<1>2. [i \in 1..Len(log) |-> Outstanding(log[i], done)] \in [1..Len(log) -> Nat]
  BY <1>1
<1>3. Len(log) \in Nat
  OBVIOUS
<1>4. QED
  BY <1>1, <1>2, <1>3, TotalNat DEF OutstandingTotal

(* A call that appends an unsettled message makes its amount outstanding. *)
LEMMA AppendLog ==
  ASSUME NEW M, NEW log \in Seq(M), NEW done, \A x \in M : x.amount \in Nat,
         NEW m \in M, ~ (chainOf(m.dst) \in Chains /\ m \in done[chainOf(m.dst)])
  PROVE  OutstandingTotal(Append(log, m), done) = OutstandingTotal(log, done) + m.amount
<1> DEFINE n == Len(log)
           log2 == Append(log, m)
           f == [i \in 1..n |-> Outstanding(log[i], done)]
           g == [i \in 1..(n+1) |-> Outstanding(log2[i], done)]
<1>1. log2 \in Seq(M) /\ Len(log2) = n + 1 /\ n \in Nat
      /\ log2[n + 1] = m /\ \A i \in 1..n : log2[i] = log[i]
  OBVIOUS
<1> HIDE DEF log2, n
<1>2. g[n + 1] = m.amount
  BY <1>1 DEF Outstanding
<1>3. \A i \in 1..n : f[i] = g[i]
  BY <1>1
<1>4. f \in [1..n -> Int]
  <2>1. \A i \in 1..n : Outstanding(log[i], done) \in Nat
    BY OutstandingInt DEF n
  <2>2. QED
    BY <2>1
<1>5. g \in [1..(n+1) -> Int]
  <2>1. \A i \in 1..(n+1) : Outstanding(log2[i], done) \in Nat
    BY <1>1, OutstandingInt
  <2>2. QED
    BY <2>1
<1>6. Total(g, n + 1) = Total(f, n) + g[n + 1]
  <2> HIDE DEF f, g
  <2> QED
    BY <1>1, <1>3, <1>4, <1>5, TotalAppend
<1>7. OutstandingTotal(log2, done) = Total(g, n + 1) /\ OutstandingTotal(log, done) = Total(f, n)
  BY <1>1 DEF OutstandingTotal, n
<1>8. QED
  BY <1>2, <1>6, <1>7 DEF log2

(* Settling an entry of a log without duplicates takes its amount, and no
   other, off what is outstanding. *)
LEMMA SettleLog ==
  ASSUME NEW M, NEW log \in Seq(M), NEW done \in [Chains -> SUBSET M],
         \A x \in M : x.amount \in Nat,
         Distinct(log), NEW k \in 1..Len(log), chainOf(log[k].dst) \in Chains,
         log[k] \notin done[chainOf(log[k].dst)]
  PROVE  OutstandingTotal(log, [done EXCEPT ![chainOf(log[k].dst)] = @ \cup {log[k]}])
           = OutstandingTotal(log, done) - log[k].amount
<1> DEFINE n == Len(log)
           m == log[k]
           done2 == [done EXCEPT ![chainOf(m.dst)] = @ \cup {m}]
           f == [i \in 1..n |-> Outstanding(log[i], done)]
           g == [i \in 1..n |-> Outstanding(log[i], done2)]
<1>1. n \in Nat /\ f \in [1..n -> Int] /\ g \in [1..n -> Int]
  <2>1. \A i \in 1..n : Outstanding(log[i], done) \in Nat
    BY OutstandingInt
  <2>2. \A i \in 1..n : Outstanding(log[i], done2) \in Nat
    <3> HIDE DEF done2
    <3> QED
      BY OutstandingInt
  <2>3. QED
    <3> HIDE DEF done2
    <3> QED
      BY <2>1, <2>2
<1>2. f[k] = m.amount /\ g[k] = 0 /\ m.amount \in Nat
  BY DEF Outstanding
<1>3. ASSUME NEW i \in 1..n, i # k PROVE f[i] = g[i]
  <2>1. log[i] # m
    BY <1>3 DEF Distinct
  <2>2. chainOf(log[i].dst) \in Chains => (log[i] \in done[chainOf(log[i].dst)] <=> log[i] \in done2[chainOf(log[i].dst)])
    BY <2>1
  <2>3. Outstanding(log[i], done) = Outstanding(log[i], done2)
    <3> HIDE DEF done2
    <3> QED
      BY <2>2 DEF Outstanding
  <2>4. QED
    BY <2>3
<1>4. OutstandingTotal(log, done) = Total(f, n) /\ OutstandingTotal(log, done2) = Total(g, n)
  BY DEF OutstandingTotal
<1>5. Total(f, n) \in Int
  BY <1>1, TotalInt
<1>6. Total(g, n) = Total(f, n) + (g[k] - f[k])
  <2>1. k \in 1..n /\ n \in Nat /\ f \in [1..n -> Int] /\ g \in [1..n -> Int]
    BY <1>1
  <2>2. \A i \in 1..n : i # k => f[i] = g[i]
    BY <1>3
  <2> HIDE DEF f, g, n
  <2>3. QED
    BY <2>1, <2>2, TotalUpdate, Zenon
<1>7. QED
  <2> HIDE DEF f, g, n
  <2> QED
    BY <1>2, <1>4, <1>5, <1>6

-----------------------------------------------------------------------------
(* IdsAreUnique with the bounds that make it inductive. *)
IdsInv ==
    /\ IdsAreUnique
    /\ NonceBound(transfers, nonce, released)
    /\ NonceBound(rebalances, rebalanceNonce, processedMessages)
    /\ NonceBound(bridges, bridgeNonce, processedReserveMessages)

(* A message that takes the counter's value is new, and stays covered by it. *)
LEMMA FreshMessage ==
  ASSUME NEW M, NEW log \in Seq(M), NEW done \in [Chains -> SUBSET M],
         NEW nonces \in [Chains -> Nat], \A x \in M : x.src \in Chains /\ x.nonce \in Nat,
         Distinct(log), NonceBound(log, nonces, done),
         NEW m \in M, NEW c \in Chains, m.src = c, m.nonce = nonces[c]
  PROVE  /\ Distinct(Append(log, m))
         /\ NonceBound(Append(log, m), [nonces EXCEPT ![c] = @ + 1], done)
         /\ \A d \in Chains : m \notin done[d]
<1> DEFINE n == Len(log)
           log2 == Append(log, m)
           nonces2 == [nonces EXCEPT ![c] = @ + 1]
<1>1. log2 \in Seq(M) /\ Len(log2) = n + 1 /\ n \in Nat
      /\ log2[n + 1] = m /\ \A i \in 1..n : log2[i] = log[i]
  OBVIOUS
<1>2. \A d \in Chains : nonces2[d] \in Nat /\ nonces[d] \in Nat /\ nonces[d] <= nonces2[d]
  OBVIOUS
<1>3. m.nonce < nonces2[m.src]
  OBVIOUS
<1> HIDE DEF log2, n, nonces2
<1>4. \A i \in 1..n : log[i] \in M /\ log[i] # m /\ log[i].nonce < nonces2[log[i].src]
  BY <1>2 DEF NonceBound, n
<1>5. \A d \in Chains : \A x \in done[d] : x # m /\ x.nonce < nonces2[x.src]
  <2> TAKE d \in Chains
  <2> TAKE x \in done[d]
  <2>1. x \in M /\ x.nonce < nonces[x.src]
    BY DEF NonceBound
  <2>2. QED
    BY <1>2, <2>1
<1>6. \A i \in 1..(n+1) : i \in 1..n \/ i = n + 1
  BY <1>1
<1>7. NonceBound(log2, nonces2, done)
  BY <1>1, <1>3, <1>4, <1>5, <1>6 DEF NonceBound
<1>8. Distinct(log2)
  <2> SUFFICES ASSUME NEW i \in 1..(n+1), NEW j \in 1..(n+1), log2[i] = log2[j] PROVE i = j
    BY <1>1 DEF Distinct
  <2>1. CASE i \in 1..n /\ j \in 1..n
    BY <1>1, <2>1 DEF Distinct, n
  <2>2. CASE i = n + 1 /\ j \in 1..n
    BY <1>1, <1>4, <2>2
  <2>3. CASE i \in 1..n /\ j = n + 1
    BY <1>1, <1>4, <2>3
  <2>4. QED
    BY <1>6, <2>1, <2>2, <2>3
<1>9. QED
  BY <1>5, <1>7, <1>8 DEF log2, nonces2

(* Settling a logged message keeps the nonces bounded. *)
LEMMA SettleBound ==
  ASSUME NEW M, NEW log \in Seq(M), NEW done \in [Chains -> SUBSET M], NEW nonces,
         NonceBound(log, nonces, done), NEW k \in 1..Len(log), NEW c \in Chains
  PROVE  NonceBound(log, nonces, [done EXCEPT ![c] = @ \cup {log[k]}])
<1> DEFINE done2 == [done EXCEPT ![c] = @ \cup {log[k]}]
<1>1. \A d \in Chains : \A m \in done2[d] : m \in done[d] \/ m = log[k]
  OBVIOUS
<1> HIDE DEF done2
<1>2. \A d \in Chains : \A m \in done2[d] : m.nonce < nonces[m.src]
  BY <1>1 DEF NonceBound
<1>3. NonceBound(log, nonces, done2)
  BY <1>2 DEF NonceBound
<1>4. QED
  BY <1>3 DEF done2

(* Governance and pauser calls move no tokens and no messages. *)
LEMMA GovernanceFrame == GovernanceStep => UNCHANGED <<ledgerVars, hotVars, coldVars, reserveVars>>
<1> SUFFICES ASSUME GovernanceStep PROVE UNCHANGED <<ledgerVars, hotVars, coldVars, reserveVars>>
  OBVIOUS
<1>1. Govern
  BY Zenon DEF GovernanceStep, pause, unpause, freezeForDecommission, pausePermanently,
     toggleTokenPause, allowToken, disallowToken, setReserveToken, setFeeCollector,
     setReserveBridge, setCcipRouter,
     setMaxRebalanceAmount, setMaxReserveRebalanceAmount, setAllowlistedDestChain,
     setAllowlistedSourceContract, setReserveDestination, Set
<1>2. QED
  BY <1>1 DEF Govern

(* The records of the logs. *)
LEMMA MessageFields ==
  /\ \A m \in Transfer : m.src \in Chains /\ m.nonce \in Nat /\ m.amount \in Nat /\ m.to \in Users
  /\ \A m \in Rebalance : m.src \in Chains /\ m.nonce \in Nat /\ m.amount \in Nat /\ m.dst \in Chains
  /\ \A m \in Bridge : m.src \in Chains /\ m.nonce \in Nat /\ m.amount \in Nat /\ m.dst \in Chains
BY DEF Transfer, Rebalance, Bridge

(* A step that leaves the messages alone keeps the ids unique. *)
LEMMA IdsFrame == IdsInv /\ UNCHANGED <<hotVars, coldVars, reserveVars>> => IdsInv'
BY DEF IdsInv, IdsAreUnique, Distinct, NonceBound, hotVars, coldVars, reserveVars

(* The id of a chain names that chain. *)
LEMMA ServedChain == \A d \in Chains : chainOf(d) = d
BY BankAssumption DEF chainOf, Chains

(* The three parts of IdsInv, one per kind of message. *)
LEMMA IdsParts ==
  IdsInv <=> /\ Distinct(transfers) /\ NonceBound(transfers, nonce, released)
             /\ Distinct(rebalances) /\ NonceBound(rebalances, rebalanceNonce, processedMessages)
             /\ Distinct(bridges) /\ NonceBound(bridges, bridgeNonce, processedReserveMessages)
BY DEF IdsInv, IdsAreUnique

(* transferHotPath() appends a transfer with a fresh id. *)
LEMMA IdsTransfer ==
  ASSUME TypeOK, IdsInv, NEW c \in Chains, NEW u \in Users, NEW to \in Users,
         NEW amount \in Nat, NEW dst \in Destinations,
         transferHotPath(c, u, to, amount, dst)
  PROVE  /\ IdsInv'
         /\ OutstandingTotal(transfers', released) = OutstandingTotal(transfers, released) + amount
<1> DEFINE m == [sender |-> u, to |-> to, amount |-> amount, dst |-> dst, src |-> c, nonce |-> nonce[c]]
<1>1. m \in Transfer /\ m.src = c /\ m.nonce = nonce[c] /\ m.amount = amount /\ m.dst = dst
  BY BankAssumption DEF Transfer, TypeOK, HotType
<1>2. transfers' = Append(transfers, m) /\ nonce' = [nonce EXCEPT ![c] = @ + 1]
      /\ released' = released /\ UNCHANGED <<coldVars, reserveVars>>
  BY DEF transferHotPath, increment
<1> HIDE DEF m
<1>3. HotType /\ Distinct(transfers) /\ NonceBound(transfers, nonce, released)
  BY IdsParts DEF TypeOK
<1>4. /\ Distinct(transfers') /\ NonceBound(transfers', nonce', released)
      /\ \A d \in Chains : m \notin released[d]
  BY <1>1, <1>2, <1>3, FreshMessage, MessageFields DEF HotType
<1>5. OutstandingTotal(transfers', released) = OutstandingTotal(transfers, released) + amount
  BY <1>1, <1>2, <1>3, <1>4, AppendLog, MessageFields DEF HotType
<1>6. IdsInv'
  BY <1>2, <1>4 DEF IdsInv, IdsAreUnique, coldVars, reserveVars
<1>7. QED
  BY <1>5, <1>6

(* rebalance() appends a message with a fresh id. *)
LEMMA IdsRebalance ==
  ASSUME TypeOK, IdsInv, NEW c \in Chains, NEW dst \in Chains, NEW amount \in Nat,
         rebalance(c, dst, amount)
  PROVE  /\ IdsInv'
         /\ OutstandingTotal(rebalances', processedMessages)
              = OutstandingTotal(rebalances, processedMessages) + amount
<1> DEFINE m == [src |-> c, dst |-> dst, amount |-> amount, nonce |-> rebalanceNonce[c]]
<1>1. m \in Rebalance /\ m.src = c /\ m.nonce = rebalanceNonce[c] /\ m.amount = amount /\ m.dst = dst
  BY DEF Rebalance, TypeOK, ColdType
<1>2. rebalances' = Append(rebalances, m) /\ rebalanceNonce' = [rebalanceNonce EXCEPT ![c] = @ + 1]
      /\ processedMessages' = processedMessages /\ UNCHANGED <<hotVars, reserveVars>>
  BY DEF rebalance, rebalanceable, increment
<1> HIDE DEF m
<1>3. ColdType /\ Distinct(rebalances) /\ NonceBound(rebalances, rebalanceNonce, processedMessages)
  BY IdsParts DEF TypeOK
<1>4. /\ Distinct(rebalances') /\ NonceBound(rebalances', rebalanceNonce', processedMessages)
      /\ \A d \in Chains : m \notin processedMessages[d]
  BY <1>1, <1>2, <1>3, FreshMessage, MessageFields DEF ColdType
<1>5. OutstandingTotal(rebalances', processedMessages)
        = OutstandingTotal(rebalances, processedMessages) + amount
  BY <1>1, <1>2, <1>3, <1>4, AppendLog, MessageFields DEF ColdType
<1>6. IdsInv'
  BY <1>2, <1>4 DEF IdsInv, IdsAreUnique, hotVars, reserveVars
<1>7. QED
  BY <1>5, <1>6

(* bridgeReserve() appends a CCTP message with a fresh id. *)
LEMMA IdsBridge ==
  ASSUME TypeOK, IdsInv, NEW c \in Chains, NEW dst \in Chains, NEW amount \in Nat,
         bridgeReserve(c, dst, amount)
  PROVE  /\ IdsInv'
         /\ OutstandingTotal(bridges', processedReserveMessages)
              = OutstandingTotal(bridges, processedReserveMessages) + amount
<1> DEFINE m == [src |-> c, dst |-> dst, amount |-> amount, nonce |-> bridgeNonce[c]]
<1>1. m \in Bridge /\ m.src = c /\ m.nonce = bridgeNonce[c] /\ m.amount = amount /\ m.dst = dst
  BY DEF Bridge, TypeOK, ReserveType
<1>2. bridges' = Append(bridges, m) /\ bridgeNonce' = [bridgeNonce EXCEPT ![c] = @ + 1]
      /\ processedReserveMessages' = processedReserveMessages /\ UNCHANGED <<hotVars, coldVars>>
  BY DEF bridgeReserve, reserveBridgeable, increment
<1> HIDE DEF m
<1>3. ReserveType /\ Distinct(bridges) /\ NonceBound(bridges, bridgeNonce, processedReserveMessages)
  BY IdsParts DEF TypeOK
<1>4. /\ Distinct(bridges') /\ NonceBound(bridges', bridgeNonce', processedReserveMessages)
      /\ \A d \in Chains : m \notin processedReserveMessages[d]
  BY <1>1, <1>2, <1>3, FreshMessage, MessageFields DEF ReserveType
<1>5. OutstandingTotal(bridges', processedReserveMessages)
        = OutstandingTotal(bridges, processedReserveMessages) + amount
  BY <1>1, <1>2, <1>3, <1>4, AppendLog, MessageFields DEF ReserveType
<1>6. IdsInv'
  BY <1>2, <1>4 DEF IdsInv, IdsAreUnique, hotVars, coldVars
<1>7. QED
  BY <1>5, <1>6

(* releaseHotPath(), ccipReceive() and bridgeIn() settle one logged message. *)
LEMMA IdsRelease ==
  ASSUME TypeOK, IdsInv, NEW k \in DOMAIN transfers, chainOf(transfers[k].dst) \in Chains,
         releaseHotPath(chainOf(transfers[k].dst), transfers[k])
  PROVE  /\ IdsInv'
         /\ OutstandingTotal(transfers, released')
              = OutstandingTotal(transfers, released) - transfers[k].amount
<1>1. HotType /\ Distinct(transfers) /\ NonceBound(transfers, nonce, released) /\ k \in 1..Len(transfers)
  BY IdsParts DEF TypeOK, HotType
<1>2. released' = [released EXCEPT ![chainOf(transfers[k].dst)] = @ \cup {transfers[k]}]
      /\ transfers[k] \notin released[chainOf(transfers[k].dst)]
      /\ transfers' = transfers /\ nonce' = nonce /\ UNCHANGED <<coldVars, reserveVars>>
  BY DEF releaseHotPath, releasable, unsettled
<1>3. NonceBound(transfers, nonce, released')
  BY <1>1, <1>2, SettleBound DEF HotType
<1>4. OutstandingTotal(transfers, released') = OutstandingTotal(transfers, released) - transfers[k].amount
  BY <1>1, <1>2, SettleLog, MessageFields DEF HotType
<1>5. IdsInv'
  BY <1>1, <1>2, <1>3 DEF IdsInv, IdsAreUnique, coldVars, reserveVars
<1>6. QED
  BY <1>4, <1>5

(* ccipReceive() settles one message and takes its amount out of transit. *)
LEMMA IdsReceive ==
  ASSUME TypeOK, IdsInv, NEW k \in DOMAIN rebalances, ccipReceive(rebalances[k])
  PROVE  /\ IdsInv'
         /\ OutstandingTotal(rebalances, processedMessages')
              = OutstandingTotal(rebalances, processedMessages) - rebalances[k].amount
<1>1. ColdType /\ Distinct(rebalances) /\ NonceBound(rebalances, rebalanceNonce, processedMessages)
      /\ k \in 1..Len(rebalances) /\ rebalances[k] \in Rebalance
  BY IdsParts DEF TypeOK, ColdType
<1>2. processedMessages' = [processedMessages EXCEPT ![rebalances[k].dst] = @ \cup {rebalances[k]}]
      /\ rebalances[k] \notin processedMessages[rebalances[k].dst]
      /\ rebalances' = rebalances /\ rebalanceNonce' = rebalanceNonce /\ UNCHANGED <<hotVars, reserveVars>>
  BY DEF ccipReceive, unsettled
<1>3. rebalances[k].dst \in Chains
  BY <1>1, MessageFields
<1>4. NonceBound(rebalances, rebalanceNonce, processedMessages')
  BY <1>1, <1>2, <1>3, SettleBound DEF ColdType
<1>5. OutstandingTotal(rebalances, processedMessages')
        = OutstandingTotal(rebalances, processedMessages) - rebalances[k].amount
  BY <1>1, <1>2, <1>3, SettleLog, MessageFields, ServedChain DEF ColdType
<1>6. IdsInv'
  BY <1>1, <1>2, <1>4 DEF IdsInv, IdsAreUnique, hotVars, reserveVars
<1>7. QED
  BY <1>5, <1>6

(* bridgeIn() does the same for reserves. *)
LEMMA IdsBridgeIn ==
  ASSUME TypeOK, IdsInv, NEW k \in DOMAIN bridges, bridgeIn(bridges[k])
  PROVE  /\ IdsInv'
         /\ OutstandingTotal(bridges, processedReserveMessages')
              = OutstandingTotal(bridges, processedReserveMessages) - bridges[k].amount
<1>1. ReserveType /\ Distinct(bridges) /\ NonceBound(bridges, bridgeNonce, processedReserveMessages)
      /\ k \in 1..Len(bridges) /\ bridges[k] \in Bridge
  BY IdsParts DEF TypeOK, ReserveType
<1>2. processedReserveMessages' = [processedReserveMessages EXCEPT ![bridges[k].dst] = @ \cup {bridges[k]}]
      /\ bridges[k] \notin processedReserveMessages[bridges[k].dst]
      /\ bridges' = bridges /\ bridgeNonce' = bridgeNonce /\ UNCHANGED <<hotVars, coldVars>>
  BY DEF bridgeIn, creditable, unsettled
<1>3. bridges[k].dst \in Chains
  BY <1>1, MessageFields
<1>4. NonceBound(bridges, bridgeNonce, processedReserveMessages')
  BY <1>1, <1>2, <1>3, SettleBound DEF ReserveType
<1>5. OutstandingTotal(bridges, processedReserveMessages')
        = OutstandingTotal(bridges, processedReserveMessages) - bridges[k].amount
  BY <1>1, <1>2, <1>3, SettleLog, MessageFields, ServedChain DEF ReserveType
<1>6. IdsInv'
  BY <1>1, <1>2, <1>4 DEF IdsInv, IdsAreUnique, hotVars, coldVars
<1>7. QED
  BY <1>5, <1>6

-----------------------------------------------------------------------------
(* The inductive invariant. *)
LedgerInv == TypeOK /\ IdsInv /\ Backed /\ TransfersCovered

(* Totals of a well-typed state are numbers. *)
LEMMA TotalsTyped ==
  ASSUME TypeOK
  PROVE  /\ usdc \in [Chains -> Int] /\ pool \in [Chains -> Int] /\ totalSupply \in [Chains -> Int]
         /\ Total(usdc, N) \in Int /\ Total(pool, N) \in Int /\ Total(totalSupply, N) \in Int
         /\ OutstandingTotal(transfers, released) \in Int
         /\ OutstandingTotal(rebalances, processedMessages) \in Int
         /\ OutstandingTotal(bridges, processedReserveMessages) \in Int
<1>1. usdc \in [Chains -> Int] /\ pool \in [Chains -> Int] /\ totalSupply \in [Chains -> Int]
  BY DEF TypeOK, LedgerType
<1>2. 1 \in Chains /\ 0 \in Int
  BY BankAssumption DEF Chains
<1>3. Total(usdc, N) \in Int /\ Total(pool, N) \in Int /\ Total(totalSupply, N) \in Int
  BY <1>1, <1>2, ChainTotal
<1>4. OutstandingTotal(transfers, released) \in Int
  BY OutstandingInt, MessageFields DEF TypeOK, HotType
<1>5. OutstandingTotal(rebalances, processedMessages) \in Int
  BY OutstandingInt, MessageFields DEF TypeOK, ColdType
<1>6. OutstandingTotal(bridges, processedReserveMessages) \in Int
  BY OutstandingInt, MessageFields DEF TypeOK, ReserveType
<1>7. QED
  BY <1>1, <1>3, <1>4, <1>5, <1>6

(* User calls: deposit and withdraw move supply and reserve together, a hot
   transfer moves into the pool what it makes outstanding. *)
LEMMA UserLedger == LedgerInv /\ UserCall => (IdsInv /\ Backed /\ TransfersCovered)'
<1> SUFFICES ASSUME LedgerInv, UserCall PROVE (IdsInv /\ Backed /\ TransfersCovered)'
  OBVIOUS
<1>1. PICK c \in Chains, u \in Users, amount \in Nat :
        \/ deposit(c, u, amount)
        \/ withdraw(c, u, amount)
        \/ seedPool(c, u, amount)
        \/ \E to \in Users : transfer(c, u, to, amount)
        \/ \E to \in Users, dst \in Destinations :
               transferHotPath(c, u, to, amount, dst)
  BY DEF UserCall
<1>2. TypeOK /\ IdsInv /\ Backed /\ TransfersCovered /\ amount \in Nat /\ amount \in Int
  BY BankAssumption DEF LedgerInv
<1>3. CASE deposit(c, u, amount)
  <2>1. Total(usdc', N) = Total(usdc, N) + amount /\ Total(totalSupply', N) = Total(totalSupply, N) + amount
    BY <1>2, <1>3, ChainTotal, TotalsTyped DEF deposit
  <2>2. UNCHANGED <<pool, hotVars, coldVars, reserveVars>>
    BY <1>3 DEF deposit
  <2>3. IdsInv'
    BY <1>2, <2>2, IdsFrame
  <2>4. Backed' /\ TransfersCovered'
    BY <1>2, <2>1, <2>2, TotalsTyped DEF Backed, TransfersCovered, hotVars, coldVars, reserveVars
  <2>5. QED
    BY <2>3, <2>4
<1>4. CASE withdraw(c, u, amount)
  <2>1. Total(usdc', N) = Total(usdc, N) - amount /\ Total(totalSupply', N) = Total(totalSupply, N) - amount
    BY <1>2, <1>4, ChainTotal, TotalsTyped DEF withdraw
  <2>2. UNCHANGED <<pool, hotVars, coldVars, reserveVars>>
    BY <1>4 DEF withdraw
  <2>3. IdsInv'
    BY <1>2, <2>2, IdsFrame
  <2>4. Backed' /\ TransfersCovered'
    BY <1>2, <2>1, <2>2, TotalsTyped DEF Backed, TransfersCovered, hotVars, coldVars, reserveVars
  <2>5. QED
    BY <2>3, <2>4
<1>5. CASE seedPool(c, u, amount)
  <2>1. Total(pool', N) = Total(pool, N) + amount
    BY <1>2, <1>5, ChainTotal, TotalsTyped DEF seedPool
  <2>2. UNCHANGED <<usdc, totalSupply, hotVars, coldVars, reserveVars>>
    BY <1>5 DEF seedPool
  <2>3. IdsInv'
    BY <1>2, <2>2, IdsFrame
  <2>4. Backed' /\ TransfersCovered'
    BY <1>2, <2>1, <2>2, TotalsTyped DEF Backed, TransfersCovered, hotVars, coldVars, reserveVars
  <2>5. QED
    BY <2>3, <2>4
<1>6. CASE \E to \in Users : transfer(c, u, to, amount)
  <2>1. UNCHANGED <<usdc, pool, totalSupply, hotVars, coldVars, reserveVars>>
    BY <1>6 DEF transfer
  <2>2. QED
    BY <1>2, <2>1, IdsFrame DEF Backed, TransfersCovered, hotVars, coldVars, reserveVars
<1>7. CASE \E to \in Users, dst \in Destinations : transferHotPath(c, u, to, amount, dst)
  <2>1. PICK to \in Users, dst \in Destinations : transferHotPath(c, u, to, amount, dst)
    BY <1>7
  <2>2. Total(pool', N) = Total(pool, N) + amount
    BY <1>2, <2>1, ChainTotal, TotalsTyped DEF transferHotPath
  <2>3. UNCHANGED <<usdc, totalSupply, released, coldVars, reserveVars>>
    BY <2>1 DEF transferHotPath
  <2>4. IdsInv' /\ OutstandingTotal(transfers', released) = OutstandingTotal(transfers, released) + amount
    BY <1>2, <2>1, IdsTransfer
  <2>5. Backed' /\ TransfersCovered'
    BY <1>2, <2>2, <2>3, <2>4, TotalsTyped DEF Backed, TransfersCovered, coldVars, reserveVars
  <2>6. QED
    BY <2>4, <2>5
<1>8. QED
  BY <1>1, <1>3, <1>4, <1>5, <1>6, <1>7

(* The relayer takes from the pool what it settles. *)
LEMMA RelayerLedger == LedgerInv /\ RelayerStep => (IdsInv /\ Backed /\ TransfersCovered)'
<1> SUFFICES ASSUME LedgerInv, RelayerStep PROVE (IdsInv /\ Backed /\ TransfersCovered)'
  OBVIOUS
<1>1. PICK k \in DOMAIN transfers :
        chainOf(transfers[k].dst) \in Chains /\ releaseHotPath(chainOf(transfers[k].dst), transfers[k])
  BY DEF RelayerStep
<1>2. TypeOK /\ IdsInv /\ Backed /\ TransfersCovered
  BY DEF LedgerInv
<1>3. transfers[k].amount \in Int
  BY <1>1, <1>2, MessageFields DEF TypeOK, HotType
<1>4. Total(pool', N) = Total(pool, N) - transfers[k].amount
  BY <1>1, <1>2, <1>3, ChainTotal, TotalsTyped DEF releaseHotPath
<1>5. UNCHANGED <<usdc, totalSupply, transfers, coldVars, reserveVars>>
  BY <1>1 DEF releaseHotPath
<1>6. IdsInv' /\ OutstandingTotal(transfers, released')
                   = OutstandingTotal(transfers, released) - transfers[k].amount
  BY <1>1, <1>2, IdsRelease
<1>7. Backed' /\ TransfersCovered'
  BY <1>2, <1>3, <1>4, <1>5, <1>6, TotalsTyped DEF Backed, TransfersCovered, coldVars, reserveVars
<1>8. QED
  BY <1>6, <1>7

(* The Treasury's calls put into flight what they take from a chain. *)
LEMMA TreasuryLedger == LedgerInv /\ TreasuryCall => (IdsInv /\ Backed /\ TransfersCovered)'
<1> SUFFICES ASSUME LedgerInv, TreasuryCall PROVE (IdsInv /\ Backed /\ TransfersCovered)'
  OBVIOUS
<1>1. PICK c \in Chains, dst \in Chains, amount \in Nat :
        rebalance(c, dst, amount) \/ bridgeReserve(c, dst, amount)
  BY DEF TreasuryCall
<1>2. TypeOK /\ IdsInv /\ Backed /\ TransfersCovered /\ amount \in Nat /\ amount \in Int
  BY BankAssumption DEF LedgerInv
<1>3. CASE rebalance(c, dst, amount)
  <2>1. Total(pool', N) = Total(pool, N) - amount /\ Total(totalSupply', N) = Total(totalSupply, N) - amount
    BY <1>2, <1>3, ChainTotal, TotalsTyped DEF rebalance, rebalanceable
  <2>2. UNCHANGED <<usdc, processedMessages, hotVars, reserveVars>>
    BY <1>3 DEF rebalance, rebalanceable
  <2>3. IdsInv' /\ OutstandingTotal(rebalances', processedMessages)
                     = OutstandingTotal(rebalances, processedMessages) + amount
    BY <1>2, <1>3, IdsRebalance
  <2>4. Backed' /\ TransfersCovered'
    BY <1>2, <2>1, <2>2, <2>3, TotalsTyped DEF Backed, TransfersCovered, hotVars, reserveVars
  <2>5. QED
    BY <2>3, <2>4
<1>4. CASE bridgeReserve(c, dst, amount)
  <2>1. Total(usdc', N) = Total(usdc, N) - amount
    BY <1>2, <1>4, ChainTotal, TotalsTyped DEF bridgeReserve, reserveBridgeable
  <2>2. UNCHANGED <<pool, totalSupply, processedReserveMessages, hotVars, coldVars>>
    BY <1>4 DEF bridgeReserve, reserveBridgeable
  <2>3. IdsInv' /\ OutstandingTotal(bridges', processedReserveMessages)
                     = OutstandingTotal(bridges, processedReserveMessages) + amount
    BY <1>2, <1>4, IdsBridge
  <2>4. Backed' /\ TransfersCovered'
    BY <1>2, <2>1, <2>2, <2>3, TotalsTyped DEF Backed, TransfersCovered, hotVars, coldVars
  <2>5. QED
    BY <2>3, <2>4
<1>5. QED
  BY <1>1, <1>3, <1>4

(* Deliveries put on a chain what they take out of flight. *)
LEMMA DeliveryLedger == LedgerInv /\ DeliveryStep => (IdsInv /\ Backed /\ TransfersCovered)'
<1> SUFFICES ASSUME LedgerInv, DeliveryStep PROVE (IdsInv /\ Backed /\ TransfersCovered)'
  OBVIOUS
<1>1. TypeOK /\ IdsInv /\ Backed /\ TransfersCovered
  BY DEF LedgerInv
<1>2. CASE \E k \in DOMAIN rebalances : ccipReceive(rebalances[k])
  <2>1. PICK k \in DOMAIN rebalances : ccipReceive(rebalances[k])
    BY <1>2
  <2>2. rebalances[k].amount \in Int /\ rebalances[k].dst \in Chains
    BY <1>1, MessageFields DEF TypeOK, ColdType
  <2>3. /\ Total(pool', N) = Total(pool, N) + rebalances[k].amount
        /\ Total(totalSupply', N) = Total(totalSupply, N) + rebalances[k].amount
    BY <1>1, <2>1, <2>2, ChainTotal, TotalsTyped DEF ccipReceive
  <2>4. UNCHANGED <<usdc, rebalances, hotVars, reserveVars>>
    BY <2>1 DEF ccipReceive
  <2>5. IdsInv' /\ OutstandingTotal(rebalances, processedMessages')
                     = OutstandingTotal(rebalances, processedMessages) - rebalances[k].amount
    BY <1>1, <2>1, IdsReceive
  <2>6. Backed' /\ TransfersCovered'
    BY <1>1, <2>2, <2>3, <2>4, <2>5, TotalsTyped DEF Backed, TransfersCovered, hotVars, reserveVars
  <2>7. QED
    BY <2>5, <2>6
<1>3. CASE \E k \in DOMAIN bridges : bridgeIn(bridges[k])
  <2>1. PICK k \in DOMAIN bridges : bridgeIn(bridges[k])
    BY <1>3
  <2>2. bridges[k].amount \in Int /\ bridges[k].dst \in Chains
    BY <1>1, MessageFields DEF TypeOK, ReserveType
  <2>3. Total(usdc', N) = Total(usdc, N) + bridges[k].amount
    BY <1>1, <2>1, <2>2, ChainTotal, TotalsTyped DEF bridgeIn, creditable
  <2>4. UNCHANGED <<pool, totalSupply, bridges, hotVars, coldVars>>
    BY <2>1 DEF bridgeIn, creditable
  <2>5. IdsInv' /\ OutstandingTotal(bridges, processedReserveMessages')
                     = OutstandingTotal(bridges, processedReserveMessages) - bridges[k].amount
    BY <1>1, <2>1, IdsBridgeIn
  <2>6. Backed' /\ TransfersCovered'
    BY <1>1, <2>2, <2>3, <2>4, <2>5, TotalsTyped DEF Backed, TransfersCovered, hotVars, coldVars
  <2>7. QED
    BY <2>5, <2>6
<1>4. QED
  BY <1>2, <1>3 DEF DeliveryStep

(* No funds and no messages at deployment. *)
LEMMA InitLedger == Init => LedgerInv
<1> SUFFICES ASSUME Init PROVE LedgerInv
  OBVIOUS
<1>1. TypeOK
  BY InitType
<1>2. transfers = <<>> /\ rebalances = <<>> /\ bridges = <<>>
  BY DEF Init, EmptyLedger, NoTransfers, Deployed
<1>3. IdsInv
  BY <1>2 DEF Init, EmptyLedger, NoTransfers, Deployed, IdsInv, IdsAreUnique, Distinct, NonceBound
<1>4. ASSUME NEW done PROVE OutstandingTotal(<<>>, done) = 0
  <2> DEFINE f == [i \in 1..0 |-> Outstanding(<<>>[i], done)]
  <2>1. f \in [1..0 -> Int]
    OBVIOUS
  <2>2. Len(<<>>) = 0
    OBVIOUS
  <2>3. OutstandingTotal(<<>>, done) = Total(f, 0)
    BY <2>2 DEF OutstandingTotal
  <2> HIDE DEF f
  <2>4. QED
    BY <2>1, <2>3, TotalEmpty
<1>5. totalSupply = usdc /\ Total(pool, N) \in Nat
  <2>1. pool \in [1..N -> Nat] /\ N \in Nat
    BY <1>1, BankAssumption DEF TypeOK, LedgerType, Chains
  <2>2. QED
    BY <2>1, TotalNat DEF Init, EmptyLedger, NoTransfers, Deployed
<1>6. Backed
  BY <1>2, <1>4, <1>5 DEF Backed
<1>7. TransfersCovered
  BY <1>2, <1>4, <1>5 DEF TransfersCovered
<1>8. QED
  BY <1>1, <1>3, <1>6, <1>7 DEF LedgerInv

(* Every call keeps LedgerInv. *)
LEMMA CallLedger == LedgerInv /\ [BankCall]_bankVars => LedgerInv'
<1> SUFFICES ASSUME LedgerInv, [BankCall]_bankVars PROVE LedgerInv'
  OBVIOUS
<1>1. TypeOK /\ IdsInv /\ Backed /\ TransfersCovered
  BY DEF LedgerInv
<1>2. TypeOK'
  BY <1>1, CallType
<1>3. ASSUME UNCHANGED <<ledgerVars, hotVars, coldVars, reserveVars>>
      PROVE  (IdsInv /\ Backed /\ TransfersCovered)'
  BY <1>1, <1>3, IdsFrame DEF Backed, TransfersCovered, ledgerVars, hotVars, coldVars, reserveVars
<1>4. (IdsInv /\ Backed /\ TransfersCovered)'
  <2>1. CASE UserCall \/ RelayerStep \/ TreasuryCall \/ DeliveryStep
    BY <2>1, UserLedger, RelayerLedger, TreasuryLedger, DeliveryLedger
  <2>2. CASE GovernanceStep
    BY <1>3, <2>2, GovernanceFrame
  <2>3. CASE UNCHANGED bankVars
    BY <1>3, <2>3 DEF bankVars
  <2>4. QED
    BY <2>1, <2>2, <2>3 DEF BankCall
<1>5. QED
  BY <1>2, <1>4 DEF LedgerInv

(* LedgerInv is inductive. *)
LEMMA LedgerPreserved == LedgerInv /\ [Next]_bankVars => LedgerInv'
BY CallLedger, NextIsCall

(* No two calls of the Banks ever share an idempotency key. *)
THEOREM UniqueIds == Spec => []IdsAreUnique
<1>1. LedgerInv => IdsAreUnique
  BY DEF LedgerInv, IdsInv
<1>2. QED
  BY <1>1, InitLedger, LedgerPreserved, PTL DEF Spec

(* SyncUSD is backed one to one by USDC on the chains and in flight, for any
   number of chains and users and any order of calls and deliveries. *)
THEOREM FullyBacked == Spec => []Backed
<1>1. LedgerInv => Backed
  BY DEF LedgerInv
<1>2. QED
  BY <1>1, InitLedger, LedgerPreserved, PTL DEF Spec

(* The pools, with cold-path liquidity in flight, always hold what unreleased
   hot-path transfers are owed. *)
THEOREM Covered == Spec => []TransfersCovered
<1>1. LedgerInv => TransfersCovered
  BY DEF LedgerInv
<1>2. QED
  BY <1>1, InitLedger, LedgerPreserved, PTL DEF Spec

-----------------------------------------------------------------------------
(* Crediting or debiting one user of one chain moves the total of that chain's
   users, and of no other chain's. *)
LEMMA HolderCredit ==
  ASSUME NEW b \in [Chains -> [Users -> Nat]], NEW b2, NEW c \in Chains, NEW u \in Users,
         NEW a \in Int, b2 = [b EXCEPT ![c][u] = @ + a]
  PROVE  \A d \in Chains :
           /\ Total(b[d], NumUsers) \in Int
           /\ Total(b2[d], NumUsers) = Total(b[d], NumUsers) + (IF d = c THEN a ELSE 0)
<1>1. \A d \in Chains : b[d] \in [Users -> Nat]
  OBVIOUS
<1>2. b2[c] = [b[c] EXCEPT ![u] = @ + a] /\ \A d \in Chains : d # c => b2[d] = b[d]
  OBVIOUS
<1>3. \A d \in Chains : Total(b[d], NumUsers) \in Int
  BY <1>1, UserTotal
<1>4. Total([b[c] EXCEPT ![u] = @ + a], NumUsers) = Total(b[c], NumUsers) + a
  BY <1>1, UserTotal
<1>5. QED
  BY <1>2, <1>3, <1>4

(* Debiting a holder changes the sum of that chain only. *)
LEMMA HolderDebit ==
  ASSUME NEW b \in [Chains -> [Users -> Nat]], NEW b2, NEW c \in Chains, NEW u \in Users,
         NEW a \in Nat, b2 = [b EXCEPT ![c][u] = @ - a]
  PROVE  \A d \in Chains : Total(b2[d], NumUsers) = Total(b[d], NumUsers) - (IF d = c THEN a ELSE 0)
<1>1. \A d \in Chains : b[d] \in [Users -> Nat]
  OBVIOUS
<1>2. b2[c] = [b[c] EXCEPT ![u] = @ - a] /\ \A d \in Chains : d # c => b2[d] = b[d]
  OBVIOUS
<1>3. \A d \in Chains : Total(b[d], NumUsers) \in Int
  BY <1>1, UserTotal, a \in Int
<1>4. Total([b[c] EXCEPT ![u] = @ - a], NumUsers) = Total(b[c], NumUsers) - a
  BY <1>1, UserTotal, a \in Int
<1>5. QED
  BY <1>2, <1>3, <1>4

(* What the users of a chain hold is a number. *)
LEMMA HoldersInt ==
  ASSUME NEW b \in [Chains -> [Users -> Nat]]
  PROVE  \A d \in Chains : Total(b[d], NumUsers) \in Nat
<1>1. \A d \in Chains : b[d] \in [1..NumUsers -> Nat]
  BY DEF Users
<1>2. QED
  BY <1>1, TotalNat, BankAssumption

(* A user call moves tokens between holders or mints and burns what it credits
   and debits. *)
LEMMA UserHeld == TypeOK /\ SupplyIsHeld /\ UserCall => SupplyIsHeld'
<1> SUFFICES ASSUME TypeOK, SupplyIsHeld, UserCall, NEW d \in Chains
    PROVE  totalSupply'[d] = pool'[d] + Total(balanceOf'[d], NumUsers)
  BY DEF SupplyIsHeld
<1>1. PICK c \in Chains, u \in Users, amount \in Nat :
        \/ deposit(c, u, amount)
        \/ withdraw(c, u, amount)
        \/ seedPool(c, u, amount)
        \/ \E to \in Users : transfer(c, u, to, amount)
        \/ \E to \in Users, dst \in Destinations :
               transferHotPath(c, u, to, amount, dst)
  BY DEF UserCall
<1>2. amount \in Nat /\ amount \in Int /\ LedgerType
  BY BankAssumption DEF TypeOK
<1>3. /\ totalSupply[d] \in Int /\ pool[d] \in Nat /\ Total(balanceOf[d], NumUsers) \in Int
      /\ totalSupply[d] = pool[d] + Total(balanceOf[d], NumUsers)
  BY <1>1, <1>2, HoldersInt DEF LedgerType, SupplyIsHeld
<1>4. CASE deposit(c, u, amount)
  <2>1. /\ balanceOf' = [balanceOf EXCEPT ![c][u] = @ + amount] /\ pool' = pool
        /\ totalSupply' = [totalSupply EXCEPT ![c] = @ + amount]
    BY <1>4 DEF deposit
  <2>2. Total(balanceOf'[d], NumUsers) = Total(balanceOf[d], NumUsers) + (IF d = c THEN amount ELSE 0)
    BY <1>2, <2>1, HolderCredit DEF LedgerType
  <2>3. QED
    BY <1>2, <1>3, <2>1, <2>2 DEF LedgerType
<1>5. CASE withdraw(c, u, amount)
  <2>1. /\ balanceOf' = [balanceOf EXCEPT ![c][u] = @ - amount] /\ pool' = pool
        /\ totalSupply' = [totalSupply EXCEPT ![c] = @ - amount]
    BY <1>5 DEF withdraw
  <2>2. Total(balanceOf'[d], NumUsers) = Total(balanceOf[d], NumUsers) - (IF d = c THEN amount ELSE 0)
    BY <1>2, <2>1, HolderDebit DEF LedgerType
  <2>3. QED
    BY <1>2, <1>3, <2>1, <2>2 DEF LedgerType
<1>6. CASE seedPool(c, u, amount) \/ \E to \in Users, dst \in Destinations :
                                        transferHotPath(c, u, to, amount, dst)
  <2>1. /\ balanceOf' = [balanceOf EXCEPT ![c][u] = @ - amount]
        /\ pool' = [pool EXCEPT ![c] = @ + amount] /\ totalSupply' = totalSupply
    BY <1>6 DEF seedPool, transferHotPath
  <2>2. Total(balanceOf'[d], NumUsers) = Total(balanceOf[d], NumUsers) - (IF d = c THEN amount ELSE 0)
    BY <1>2, <2>1, HolderDebit DEF LedgerType
  <2>3. QED
    BY <1>2, <1>3, <2>1, <2>2 DEF LedgerType
<1>7. CASE \E to \in Users : transfer(c, u, to, amount)
  <2>1. PICK to \in Users : transfer(c, u, to, amount)
    BY <1>7
  <2> DEFINE debited == [balanceOf[c] EXCEPT ![u] = @ - amount]
             credited == [debited EXCEPT ![to] = @ + amount]
  <2>2. /\ balanceOf' = [balanceOf EXCEPT ![c] = credited]
        /\ pool' = pool /\ totalSupply' = totalSupply /\ amount <= balanceOf[c][u]
    BY <2>1 DEF transfer
  <2>3. balanceOf[c] \in [Users -> Nat] /\ debited \in [Users -> Nat]
    BY <1>2, <2>2 DEF LedgerType
  <2>4. Total(debited, NumUsers) = Total(balanceOf[c], NumUsers) - amount
        /\ Total(balanceOf[c], NumUsers) \in Int
    BY <1>2, <2>3, UserTotal
  <2> HIDE DEF debited
  <2>5. Total(credited, NumUsers) = Total(debited, NumUsers) + amount
    BY <1>2, <2>3, UserTotal
  <2> HIDE DEF credited
  <2>6. IF d = c THEN balanceOf'[d] = credited ELSE balanceOf'[d] = balanceOf[d]
    BY <1>2, <2>2 DEF LedgerType
  <2>7. QED
    BY <1>2, <1>3, <2>2, <2>4, <2>5, <2>6
<1>8. QED
  BY <1>1, <1>4, <1>5, <1>6, <1>7

(* Every call keeps SupplyIsHeld in well-typed states. *)
LEMMA CallHeld == TypeOK /\ SupplyIsHeld /\ [BankCall]_bankVars => SupplyIsHeld'
<1> SUFFICES ASSUME TypeOK, SupplyIsHeld, [BankCall]_bankVars PROVE SupplyIsHeld'
  OBVIOUS
<1>0. LedgerType /\ \A d \in Chains : /\ totalSupply[d] \in Int /\ pool[d] \in Nat
                                       /\ Total(balanceOf[d], NumUsers) \in Int
                                       /\ totalSupply[d] = pool[d] + Total(balanceOf[d], NumUsers)
  BY HoldersInt DEF TypeOK, LedgerType, SupplyIsHeld
<1>1. CASE UserCall
  BY <1>1, UserHeld
<1>2. CASE RelayerStep
  <2>1. PICK i \in DOMAIN transfers :
          chainOf(transfers[i].dst) \in Chains /\ releaseHotPath(chainOf(transfers[i].dst), transfers[i])
    BY <1>2 DEF RelayerStep
  <2> DEFINE t == transfers[i]
             c == chainOf(t.dst)
  <2>2. t.amount \in Nat /\ t.amount \in Int /\ t.to \in Users /\ c \in Chains
    BY <2>1, MessageFields DEF TypeOK, HotType
  <2>3. /\ balanceOf' = [balanceOf EXCEPT ![c][t.to] = @ + t.amount]
        /\ pool' = [pool EXCEPT ![c] = @ - t.amount] /\ totalSupply' = totalSupply
    BY <2>1 DEF releaseHotPath
  <2> HIDE DEF t, c
  <2>4. \A d \in Chains :
          Total(balanceOf'[d], NumUsers) = Total(balanceOf[d], NumUsers) + (IF d = c THEN t.amount ELSE 0)
    BY <1>0, <2>2, <2>3, HolderCredit DEF LedgerType
  <2>5. \A d \in Chains : pool'[d] = IF d = c THEN pool[d] - t.amount ELSE pool[d]
    BY <1>0, <2>2, <2>3 DEF LedgerType
  <2>6. QED
    BY <1>0, <2>2, <2>3, <2>4, <2>5 DEF SupplyIsHeld
<1>3. CASE TreasuryCall
  <2>1. PICK c \in Chains, dst \in Chains, amount \in Nat :
          rebalance(c, dst, amount) \/ bridgeReserve(c, dst, amount)
    BY <1>3 DEF TreasuryCall
  <2>2. amount \in Nat
    BY BankAssumption
  <2>3. \/ UNCHANGED <<balanceOf, pool, totalSupply>>
        \/ /\ balanceOf' = balanceOf /\ pool' = [pool EXCEPT ![c] = @ - amount]
           /\ totalSupply' = [totalSupply EXCEPT ![c] = @ - amount]
    BY <2>1 DEF rebalance, bridgeReserve
  <2>4. QED
    BY <1>0, <2>2, <2>3 DEF SupplyIsHeld, LedgerType
<1>4. CASE DeliveryStep
  <2>1. \/ UNCHANGED <<balanceOf, pool, totalSupply>>
        \/ \E i \in DOMAIN rebalances : ccipReceive(rebalances[i])
    BY <1>4 DEF DeliveryStep, bridgeIn
  <2>2. CASE UNCHANGED <<balanceOf, pool, totalSupply>>
    BY <2>2 DEF SupplyIsHeld
  <2>3. ASSUME NEW i \in DOMAIN rebalances, ccipReceive(rebalances[i]) PROVE SupplyIsHeld'
    <3> DEFINE m == rebalances[i]
    <3>1. m.amount \in Nat /\ m.dst \in Chains
      BY MessageFields DEF TypeOK, ColdType
    <3>2. /\ balanceOf' = balanceOf /\ pool' = [pool EXCEPT ![m.dst] = @ + m.amount]
          /\ totalSupply' = [totalSupply EXCEPT ![m.dst] = @ + m.amount]
      BY <2>3 DEF ccipReceive
    <3> HIDE DEF m
    <3>3. QED
      BY <1>0, <3>1, <3>2 DEF SupplyIsHeld, LedgerType
  <2>4. QED
    BY <2>1, <2>2, <2>3
<1>5. CASE GovernanceStep \/ UNCHANGED bankVars
  <2>1. UNCHANGED <<balanceOf, pool, totalSupply>>
    BY <1>5, GovernanceFrame DEF bankVars, ledgerVars
  <2>2. QED
    BY <2>1 DEF SupplyIsHeld
<1>6. QED
  BY <1>1, <1>2, <1>3, <1>4, <1>5 DEF BankCall

(* SupplyIsHeld is inductive in well-typed states. *)
LEMMA HeldStep == TypeOK /\ SupplyIsHeld /\ [Next]_bankVars => SupplyIsHeld'
BY CallHeld, NextIsCall

(* Nobody holds anything at deployment. *)
LEMMA InitHeld == Init => SupplyIsHeld
<1> SUFFICES ASSUME Init, NEW c \in Chains
    PROVE  totalSupply[c] = pool[c] + Total(balanceOf[c], NumUsers)
  BY DEF SupplyIsHeld
<1> DEFINE z == [u \in 1..NumUsers |-> 0]
<1>1. totalSupply[c] = 0 /\ pool[c] = 0 /\ balanceOf[c] = z
  BY DEF Init, EmptyLedger, Users
<1>2. NumUsers \in Nat
  BY BankAssumption
<1>3. Total(z, NumUsers) = 0
  BY <1>2, TotalZero
<1>4. QED
  BY <1>1, <1>3

(* mint, burn, burnFrom and transfer of SyncUSD keep the supply of every chain
   equal to what its users and its Bank hold, for any number of users. *)
THEOREM SupplyHeld == Spec => []SupplyIsHeld
BY InitHeld, HeldStep, TypeCorrect, PTL DEF Spec

-----------------------------------------------------------------------------
(* A sealed Bank is paused: pausePermanently() sets both flags and unpause()
   checks the seal. *)
SealedIsPaused == \A c \in Chains : permanentPause[c] => paused[c]

(* A governance call that pauses or unpauses does so on one Bank, and unpauses
   only one that is not sealed. *)
LEMMA GovernanceFlags ==
  ASSUME TypeOK, GovernanceStep
  PROVE  \/ UNCHANGED <<paused, permanentPause>>
         \/ \E c \in Chains : /\ paused' = [paused EXCEPT ![c] = TRUE]
                              /\ \/ permanentPause' = permanentPause
                                 \/ permanentPause' = [permanentPause EXCEPT ![c] = TRUE]
         \/ \E c \in Chains : /\ ~ permanentPause[c] /\ paused' = [paused EXCEPT ![c] = FALSE]
                              /\ permanentPause' = permanentPause
<1>1. \/ \E c \in Chains : pause(c) \/ unpause(c) \/ freezeForDecommission(c) \/ pausePermanently(c)
                           \/ toggleTokenPause(c)
      \/ \E c \in Chains : \E settings : Set(c, settings)
  BY Zenon DEF GovernanceStep, allowToken, disallowToken, setReserveToken, setFeeCollector,
     setReserveBridge, setCcipRouter, setMaxRebalanceAmount, setMaxReserveRebalanceAmount,
     setAllowlistedDestChain, setAllowlistedSourceContract, setReserveDestination
<1>2. CASE \E c \in Chains : \E settings : Set(c, settings)
  BY <1>2 DEF Set, flagVars
<1>3. CASE \E c \in Chains : pause(c) \/ unpause(c) \/ freezeForDecommission(c) \/ pausePermanently(c)
                             \/ toggleTokenPause(c)
  BY <1>3 DEF pause, unpause, freezeForDecommission, pausePermanently, toggleTokenPause
<1>4. QED
  BY <1>1, <1>2, <1>3

(* Only governance touches the flags. *)
LEMMA CallsKeepFlags ==
  UserStep \/ RelayerStep \/ TreasuryStep \/ DeliveryStep => UNCHANGED govVars
<1>1. UserStep => UNCHANGED govVars
  <2>1. ASSUME NEW c, NEW u, NEW to, NEW amount, NEW dst,
               \/ deposit(c, u, amount) \/ withdraw(c, u, amount) \/ seedPool(c, u, amount)
               \/ transfer(c, u, to, amount) \/ transferHotPath(c, u, to, amount, dst)
        PROVE  UNCHANGED govVars
    BY <2>1 DEF deposit, withdraw, seedPool, transfer, transferHotPath
  <2>2. QED
    BY <2>1, Zenon DEF UserStep
<1>2. RelayerStep => UNCHANGED govVars
  BY Zenon DEF RelayerStep, releaseHotPath
<1>3. TreasuryStep => UNCHANGED govVars
  BY Zenon DEF TreasuryStep, rebalance, bridgeReserve
<1>4. DeliveryStep => UNCHANGED govVars
  BY Zenon DEF DeliveryStep, ccipReceive, bridgeIn
<1>5. QED
  BY <1>1, <1>2, <1>3, <1>4

(* No step reopens a sealed Bank. *)
LEMMA SealedStep == TypeOK /\ SealedIsPaused /\ [Next]_bankVars => SealedIsPaused'
<1> SUFFICES ASSUME TypeOK, SealedIsPaused, [Next]_bankVars PROVE SealedIsPaused'
  OBVIOUS
<1>1. CASE GovernanceStep
  BY <1>1, GovernanceFlags DEF SealedIsPaused, TypeOK, GovType
<1>2. CASE UserStep \/ RelayerStep \/ TreasuryStep \/ DeliveryStep \/ UNCHANGED bankVars
  <2>1. UNCHANGED <<paused, permanentPause>>
    BY <1>2, CallsKeepFlags DEF govVars, flagVars, bankVars
  <2>2. QED
    BY <2>1 DEF SealedIsPaused
<1>3. QED
  BY <1>1, <1>2 DEF Next

(* A call on a paused Bank leaves its reserve and its supply alone and takes
   nothing out of its pool. *)
LEMMA PausedCalls ==
  ASSUME TypeOK, UserStep \/ RelayerStep \/ TreasuryStep \/ DeliveryStep,
         NEW c \in Chains, paused[c]
  PROVE  usdc'[c] = usdc[c] /\ totalSupply'[c] = totalSupply[c] /\ pool'[c] >= pool[c]
<1>0. LedgerType /\ pool[c] \in Nat
  BY DEF TypeOK, LedgerType
<1>1. CASE UserStep
  <2>1. PICK d \in Chains, u \in Users, amount \in Amounts :
        \/ deposit(d, u, amount)
        \/ withdraw(d, u, amount)
        \/ seedPool(d, u, amount)
        \/ \E to \in Users : transfer(d, u, to, amount)
        \/ \E to \in Users, dst \in Destinations :
               transferHotPath(d, u, to, amount, dst)
    BY <1>1 DEF UserStep
  <2>2. amount \in Nat
    BY BankAssumption
  <2>3. CASE deposit(d, u, amount)
    BY <1>0, <2>3 DEF deposit, whenNotPaused, LedgerType
  <2>4. CASE withdraw(d, u, amount)
    BY <1>0, <2>4 DEF withdraw, whenNotPaused, LedgerType
  <2>5. CASE seedPool(d, u, amount)
    BY <1>0, <2>2, <2>5 DEF seedPool, LedgerType
  <2>6. CASE \E to \in Users : transfer(d, u, to, amount)
    BY <1>0, <2>6 DEF transfer
  <2>7. CASE \E to \in Users, dst \in Destinations : transferHotPath(d, u, to, amount, dst)
    BY <1>0, <2>7 DEF transferHotPath, whenNotPaused, LedgerType
  <2>8. QED
    BY <2>1, <2>3, <2>4, <2>5, <2>6, <2>7
<1>2. CASE RelayerStep
  BY <1>0, <1>2 DEF RelayerStep, releaseHotPath, releasable, whenNotPaused, LedgerType
<1>3. CASE TreasuryStep
  <2>1. PICK d \in Chains, dst \in Chains, amount \in Amounts :
          rebalance(d, dst, amount) \/ bridgeReserve(d, dst, amount)
    BY <1>3 DEF TreasuryStep
  <2>2. CASE rebalance(d, dst, amount)
    BY <1>0, <2>2 DEF rebalance, rebalanceable, whenNotPaused, LedgerType
  <2>3. CASE bridgeReserve(d, dst, amount)
    BY <1>0, <2>3 DEF bridgeReserve, reserveBridgeable, whenNotPaused, LedgerType
  <2>4. QED
    BY <2>1, <2>2, <2>3
<1>4. CASE DeliveryStep
  BY <1>0, <1>4, SMTT(30) DEF DeliveryStep, ccipReceive, bridgeIn, creditable, whenNotPaused, LedgerType
<1>5. QED
  BY <1>1, <1>2, <1>3, <1>4

(* The seal of pausePermanently() holds forever. *)
THEOREM SealHolds == Spec => SealedForever
<1>1. Init => SealedIsPaused
  BY DEF Init, Deployed, SealedIsPaused
<1>2. TypeOK /\ SealedIsPaused /\ SealedIsPaused' /\ [Next]_bankVars =>
        [\A c \in Chains : permanentPause[c] =>
          /\ usdc'[c] = usdc[c]
          /\ totalSupply'[c] = totalSupply[c]
          /\ pool'[c] >= pool[c]
          /\ paused'[c]]_bankVars
  <2> SUFFICES ASSUME TypeOK, SealedIsPaused, SealedIsPaused', Next,
                      NEW c \in Chains, permanentPause[c]
               PROVE  /\ usdc'[c] = usdc[c]
                      /\ totalSupply'[c] = totalSupply[c]
                      /\ pool'[c] >= pool[c]
                      /\ paused'[c]
    OBVIOUS
  <2>0. paused[c] /\ pool[c] \in Nat
    BY DEF SealedIsPaused, TypeOK, LedgerType
  <2>1. usdc'[c] = usdc[c] /\ totalSupply'[c] = totalSupply[c] /\ pool'[c] >= pool[c]
    <3>1. CASE GovernanceStep
      BY <2>0, <3>1, GovernanceFrame DEF ledgerVars
    <3>2. CASE UserStep \/ RelayerStep \/ TreasuryStep \/ DeliveryStep
      BY <2>0, <3>2, PausedCalls
    <3>3. QED
      BY <3>1, <3>2 DEF Next
  <2>2. permanentPause'[c]
    <3>1. CASE GovernanceStep
      BY <3>1, GovernanceFlags DEF TypeOK, GovType
    <3>2. CASE UserStep \/ RelayerStep \/ TreasuryStep \/ DeliveryStep
      BY <3>2, CallsKeepFlags DEF govVars, flagVars
    <3>3. QED
      BY <3>1, <3>2 DEF Next
  <2>3. QED
    BY <2>1, <2>2 DEF SealedIsPaused
<1>3. QED
  BY <1>1, <1>2, SealedStep, TypeCorrect, PTL DEF Spec, SealedForever

(* After freezeForDecommission() what users hold on the chain never grows. *)
THEOREM FrozenShrinks == Spec => FrozenOnlyShrinks
<1>1. TypeOK /\ [Next]_bankVars =>
        [\A c \in Chains : frozen[c] =>
          totalSupply'[c] - pool'[c] <= totalSupply[c] - pool[c]]_bankVars
  <2> SUFFICES ASSUME TypeOK, Next, NEW c \in Chains, frozen[c]
               PROVE  totalSupply'[c] - pool'[c] <= totalSupply[c] - pool[c]
    OBVIOUS
  <2>0. LedgerType /\ pool[c] \in Nat /\ totalSupply[c] \in Int
    BY DEF TypeOK, LedgerType
  <2>1. CASE UserStep
    <3>1. PICK d \in Chains, u \in Users, amount \in Amounts :
          \/ deposit(d, u, amount)
          \/ withdraw(d, u, amount)
          \/ seedPool(d, u, amount)
          \/ \E to \in Users : transfer(d, u, to, amount)
          \/ \E to \in Users, dst \in Destinations :
                 transferHotPath(d, u, to, amount, dst)
      BY <2>1 DEF UserStep
    <3>2. amount \in Nat
      BY BankAssumption
    <3>3. CASE deposit(d, u, amount)
      BY <2>0, <3>2, <3>3 DEF deposit, whenNotFrozen, LedgerType
    <3>4. CASE withdraw(d, u, amount)
      BY <2>0, <3>2, <3>4 DEF withdraw, LedgerType
    <3>5. CASE seedPool(d, u, amount)
      BY <2>0, <3>2, <3>5 DEF seedPool, LedgerType
    <3>6. CASE \E to \in Users : transfer(d, u, to, amount)
      BY <2>0, <3>6 DEF transfer
    <3>7. CASE \E to \in Users, dst \in Destinations : transferHotPath(d, u, to, amount, dst)
      <4>1. totalSupply' = totalSupply /\ pool' = [pool EXCEPT ![d] = @ + amount]
        BY <3>7 DEF transferHotPath
      <4>2. QED
        BY <2>0, <3>2, <4>1 DEF LedgerType
    <3>8. QED
      BY <3>1, <3>3, <3>4, <3>5, <3>6, <3>7
  <2>2. CASE RelayerStep
    <3>1. UNCHANGED totalSupply /\ pool'[c] = pool[c]
      BY <2>0, <2>2 DEF RelayerStep, releaseHotPath, releasable, whenNotFrozen, LedgerType
    <3>2. QED
      BY <2>0, <3>1
  <2>3. CASE TreasuryStep
    <3>1. PICK d \in Chains, dst \in Chains, amount \in Amounts :
            rebalance(d, dst, amount) \/ bridgeReserve(d, dst, amount)
      BY <2>3 DEF TreasuryStep
    <3>2. amount \in Nat
      BY BankAssumption
    <3>3. QED
      <4>1. \/ UNCHANGED <<pool, totalSupply>>
            \/ /\ pool' = [pool EXCEPT ![d] = @ - amount]
               /\ totalSupply' = [totalSupply EXCEPT ![d] = @ - amount]
        BY <3>1 DEF rebalance, bridgeReserve
      <4>2. QED
        BY <2>0, <3>2, <4>1 DEF LedgerType
  <2>4. CASE DeliveryStep
    <3>1. CASE \E i \in DOMAIN rebalances : ccipReceive(rebalances[i])
      <4>1. PICK i \in DOMAIN rebalances : ccipReceive(rebalances[i])
        BY <3>1
      <4>2. rebalances[i].amount \in Nat /\ rebalances[i].dst \in Chains
        BY MessageFields DEF TypeOK, ColdType
      <4>3. QED
        BY <2>0, <4>1, <4>2 DEF ccipReceive, LedgerType
    <3>2. CASE \E i \in DOMAIN bridges : bridgeIn(bridges[i])
      BY <2>0, <3>2 DEF bridgeIn
    <3>3. QED
      BY <2>4, <3>1, <3>2 DEF DeliveryStep
  <2>5. CASE GovernanceStep
    BY <2>0, <2>5, GovernanceFrame DEF ledgerVars
  <2>6. QED
    BY <2>1, <2>2, <2>3, <2>4, <2>5 DEF Next
<1>2. QED
  BY <1>1, TypeCorrect, PTL DEF Spec, FrozenOnlyShrinks

-----------------------------------------------------------------------------
(* How many messages of a log depart from chain c. *)
DepartedFrom(log, c) == {i \in DOMAIN log : log[i].src = c}

(* Appending a message adds one to the departures of its source. *)
LEMMA DepartedAppend ==
  ASSUME NEW M, NEW log \in Seq(M), NEW m \in M, NEW c
  PROVE  /\ IsFiniteSet(DepartedFrom(log, c))
         /\ Cardinality(DepartedFrom(log, c)) \in Nat
         /\ Cardinality(DepartedFrom(Append(log, m), c))
              = Cardinality(DepartedFrom(log, c)) + (IF m.src = c THEN 1 ELSE 0)
<1> DEFINE n == Len(log)
           D == DepartedFrom(log, c)
           log2 == Append(log, m)
<1>1. n \in Nat /\ log2[n + 1] = m /\ DOMAIN log2 = 1..(n+1) /\ DOMAIN log = 1..n
      /\ \A i \in 1..n : log2[i] = log[i]
  OBVIOUS
<1>2. IsFiniteSet(1..n)
  BY <1>1, FS_Interval
<1>3. D \subseteq 1..n /\ n + 1 \notin D
  BY <1>1 DEF DepartedFrom
<1>4. IsFiniteSet(D)
  BY <1>2, <1>3, FS_Subset
<1>5. Cardinality(D) \in Nat
  BY <1>4, FS_CardinalityType
<1>6. DepartedFrom(log2, c) = IF m.src = c THEN D \cup {n + 1} ELSE D
  <2> HIDE DEF log2, n
  <2> QED
    BY <1>1 DEF DepartedFrom
<1>7. Cardinality(D \cup {n + 1}) = Cardinality(D) + 1
  BY <1>3, <1>4, FS_AddElement
<1>8. QED
  <2> HIDE DEF D
  <2> QED
    BY <1>4, <1>5, <1>6, <1>7 DEF D

(* A chain's counter is the number of its messages in the log. *)
Numbered(log, nonces) ==
    \A c \in Chains : nonces[c] = Cardinality(DepartedFrom(log, c))

(* A message with the next nonce keeps a log numbered. *)
LEMMA NumberedAppend ==
  ASSUME NEW M, NEW log \in Seq(M), NEW nonces \in [Chains -> Nat],
         NEW m \in M, NEW c \in Chains, m.src = c, Numbered(log, nonces)
  PROVE  Numbered(Append(log, m), [nonces EXCEPT ![c] = @ + 1])
<1> SUFFICES ASSUME NEW d \in Chains
    PROVE  [nonces EXCEPT ![c] = @ + 1][d] = Cardinality(DepartedFrom(Append(log, m), d))
  BY DEF Numbered
<1>1. /\ nonces[d] = Cardinality(DepartedFrom(log, d))
      /\ Cardinality(DepartedFrom(Append(log, m), d))
              = Cardinality(DepartedFrom(log, d)) + (IF m.src = d THEN 1 ELSE 0)
  BY DepartedAppend DEF Numbered
<1>2. QED
  BY <1>1

(* The counters of rebalances and of CCTP messages count their logs. *)
TransitInv == /\ SupplyIsHeld
              /\ Numbered(rebalances, rebalanceNonce)
              /\ Numbered(bridges, bridgeNonce)

(* The empty logs are numbered. *)
LEMMA InitTransit == Init => TransitInv
<1> SUFFICES ASSUME Init PROVE TransitInv
  OBVIOUS
<1>1. rebalances = <<>> /\ bridges = <<>>
      /\ \A c \in Chains : rebalanceNonce[c] = 0 /\ bridgeNonce[c] = 0
  BY DEF Init, Deployed
<1>2. \A c : DepartedFrom(<<>>, c) = {}
  BY DEF DepartedFrom
<1>3. QED
  BY <1>1, <1>2, InitHeld, FS_EmptySet DEF TransitInv, Numbered

(* Every step keeps the logs numbered. *)
LEMMA TransitStep == TypeOK /\ TransitInv /\ [Next]_bankVars => TransitInv'
<1> SUFFICES ASSUME TypeOK, TransitInv, [Next]_bankVars PROVE TransitInv'
  OBVIOUS
<1>0. SupplyIsHeld' /\ Numbered(rebalances, rebalanceNonce) /\ Numbered(bridges, bridgeNonce)
  BY HeldStep DEF TransitInv
<1>1. CASE UNCHANGED <<rebalances, rebalanceNonce, bridges, bridgeNonce>>
  BY <1>0, <1>1 DEF TransitInv, Numbered
<1>2. CASE TreasuryStep
  <2>1. PICK c \in Chains, dst \in Chains, amount \in Amounts :
          rebalance(c, dst, amount) \/ bridgeReserve(c, dst, amount)
    BY <1>2 DEF TreasuryStep
  <2>2. amount \in Nat
    BY BankAssumption
  <2>3. CASE rebalance(c, dst, amount)
    <3> DEFINE m == [src |-> c, dst |-> dst, amount |-> amount, nonce |-> rebalanceNonce[c]]
    <3>1. m \in Rebalance /\ m.src = c
      BY <2>2 DEF Rebalance, TypeOK, ColdType
    <3>2. rebalances' = Append(rebalances, m) /\ rebalanceNonce' = [rebalanceNonce EXCEPT ![c] = @ + 1]
          /\ UNCHANGED <<bridges, bridgeNonce>>
      BY <2>3 DEF rebalance, increment, reserveVars
    <3> HIDE DEF m
    <3>3. Numbered(rebalances', rebalanceNonce')
      BY <1>0, <3>1, <3>2, NumberedAppend DEF TypeOK, ColdType
    <3>4. Numbered(bridges', bridgeNonce')
      BY <1>0, <3>2
    <3>5. QED
      BY <1>0, <3>3, <3>4 DEF TransitInv, Numbered
  <2>4. CASE bridgeReserve(c, dst, amount)
    <3> DEFINE m == [src |-> c, dst |-> dst, amount |-> amount, nonce |-> bridgeNonce[c]]
    <3>1. m \in Bridge /\ m.src = c
      BY <2>2 DEF Bridge, TypeOK, ReserveType
    <3>2. bridges' = Append(bridges, m) /\ bridgeNonce' = [bridgeNonce EXCEPT ![c] = @ + 1]
          /\ UNCHANGED <<rebalances, rebalanceNonce>>
      BY <2>4 DEF bridgeReserve, increment, coldVars
    <3> HIDE DEF m
    <3>3. Numbered(bridges', bridgeNonce')
      BY <1>0, <3>1, <3>2, NumberedAppend DEF TypeOK, ReserveType
    <3>4. Numbered(rebalances', rebalanceNonce')
      BY <1>0, <3>2
    <3>5. QED
      BY <1>0, <3>3, <3>4 DEF TransitInv, Numbered
  <2>5. QED
    BY <2>1, <2>3, <2>4
<1>3. CASE UserStep \/ RelayerStep \/ DeliveryStep \/ GovernanceStep \/ UNCHANGED bankVars
  <2>1. UserStep => UNCHANGED <<coldVars, reserveVars>>
    <3>1. ASSUME NEW c, NEW u, NEW to, NEW amount, NEW dst,
                 \/ deposit(c, u, amount) \/ withdraw(c, u, amount) \/ seedPool(c, u, amount)
                 \/ transfer(c, u, to, amount) \/ transferHotPath(c, u, to, amount, dst)
          PROVE  UNCHANGED <<coldVars, reserveVars>>
      BY <3>1 DEF deposit, withdraw, seedPool, transfer, transferHotPath
    <3>2. QED
      BY <3>1, Zenon DEF UserStep
  <2>2. RelayerStep => UNCHANGED <<coldVars, reserveVars>>
    BY DEF RelayerStep, releaseHotPath
  <2>3. DeliveryStep => UNCHANGED <<rebalances, rebalanceNonce, bridges, bridgeNonce>>
    BY DEF DeliveryStep, ccipReceive, bridgeIn, coldVars, reserveVars
  <2>4. UNCHANGED <<rebalances, rebalanceNonce, bridges, bridgeNonce>>
    BY <1>3, <2>1, <2>2, <2>3, GovernanceFrame DEF bankVars, coldVars, reserveVars
  <2>5. QED
    BY <1>1, <2>4
<1>4. QED
  BY <1>2, <1>3 DEF Next

-----------------------------------------------------------------------------
(* A deposit takes from the wallets, and a withdrawal gives to them, what it
   moves; a wallet never holds more than all of them. *)
LEMMA WalletsInt == TypeOK => Wallets \in Nat
<1> SUFFICES ASSUME TypeOK PROVE Wallets \in Nat
  OBVIOUS
<1> DEFINE W == [c \in Chains |-> Total(wallet[c], NumUsers)]
<1>1. W \in [1..N -> Nat] /\ N \in Nat
  BY BankAssumption, HoldersInt DEF TypeOK, LedgerType, Chains
<1>2. QED
  <2> HIDE DEF W
  <2>1. Total(W, N) \in Nat
    BY <1>1, TotalNat
  <2>2. QED
    BY <2>1 DEF Wallets, W

(* What a wallet gains or loses, all wallets together do. *)
LEMMA WalletsMove ==
  ASSUME TypeOK, NEW c \in Chains, NEW u \in Users, NEW a \in Int,
         wallet' = [wallet EXCEPT ![c][u] = @ + a]
  PROVE  Wallets' = Wallets + a
<1> DEFINE W == [d \in Chains |-> Total(wallet[d], NumUsers)]
           W2 == [d \in Chains |-> Total(wallet'[d], NumUsers)]
<1>1. W \in [Chains -> Int] /\ wallet \in [Chains -> [Users -> Nat]]
  BY HoldersInt DEF TypeOK, LedgerType
<1>2. \A d \in Chains : Total(wallet'[d], NumUsers) = Total(wallet[d], NumUsers) + (IF d = c THEN a ELSE 0)
  BY <1>1, HolderCredit
<1>3. W2 = [W EXCEPT ![c] = @ + a]
  BY <1>1, <1>2
<1>4. Total(W2, N) = Total(W, N) + a
  <2> HIDE DEF W, W2
  <2> QED
    BY <1>1, <1>3, ChainTotal
<1>5. QED
  BY <1>4 DEF Wallets

(* deposit() takes its amount from the wallets. *)
LEMMA DepositMoves ==
  ASSUME TypeOK, NEW c \in Chains, NEW u \in Users, NEW amount \in Nat, deposit(c, u, amount)
  PROVE  Wallets' = Wallets - amount /\ amount \in 1..Wallets
<1>1. wallet \in [Chains -> [Users -> Nat]] /\ amount <= wallet[c][u] /\ amount > 0
      /\ wallet' = [wallet EXCEPT ![c][u] = @ - amount]
  BY DEF deposit, TypeOK, LedgerType
<1>2. wallet' = [wallet EXCEPT ![c][u] = @ + (- amount)] /\ - amount \in Int
  <2>1. wallet[c][u] - amount = wallet[c][u] + (- amount) /\ - amount \in Int
    BY <1>1
  <2>2. QED
    BY <1>1, <2>1
<1>3. Wallets' = Wallets + (- amount) /\ Wallets \in Nat
  BY <1>2, WalletsMove, WalletsInt
<1>4. wallet[c][u] <= Total(wallet[c], NumUsers)
  BY <1>1, TermBound, BankAssumption DEF Users
<1>5. Total(wallet[c], NumUsers) <= Wallets
  <2> DEFINE W == [d \in Chains |-> Total(wallet[d], NumUsers)]
  <2>1. W \in [1..N -> Nat] /\ N \in Nat /\ c \in 1..N /\ W[c] = Total(wallet[c], NumUsers)
    BY <1>1, BankAssumption, HoldersInt DEF Chains
  <2>2. Wallets = Total(W, N)
    BY DEF Wallets
  <2> HIDE DEF W
  <2>3. QED
    BY <2>1, <2>2, TermBound
<1>6. Total(wallet[c], NumUsers) \in Nat /\ wallet[c][u] \in Nat
  BY <1>1, HoldersInt
<1>7. QED
  BY <1>1, <1>3, <1>4, <1>5, <1>6

(* withdraw() returns it to them, out of the supply and the reserve of its chain. *)
LEMMA WithdrawMoves ==
  ASSUME TypeOK, SupplyIsHeld, NEW c \in Chains, NEW u \in Users, NEW amount \in Nat,
         withdraw(c, u, amount)
  PROVE  Wallets' = Wallets + amount /\ amount \in 1..totalSupply[c] /\ amount \in 1..usdc[c]
<1>1. LedgerType /\ amount > 0 /\ amount <= balanceOf[c][u] /\ amount <= usdc[c]
      /\ wallet' = [wallet EXCEPT ![c][u] = @ + amount] /\ amount \in Int
  BY DEF withdraw, TypeOK
<1>2. Wallets' = Wallets + amount
  BY <1>1, WalletsMove
<1>3. balanceOf[c][u] <= Total(balanceOf[c], NumUsers)
  BY <1>1, TermBound, BankAssumption DEF Users, LedgerType
<1>4. Total(balanceOf[c], NumUsers) \in Nat /\ balanceOf[c][u] \in Nat
  BY <1>1, HoldersInt DEF LedgerType
<1>5. QED
  BY <1>1, <1>2, <1>3, <1>4 DEF SupplyIsHeld, LedgerType

(* Every step of the Banks is a step of Transit on the supply, or none. *)
LEMMA SupplyStep ==
  TypeOK /\ TransitInv /\ [Next]_bankVars => [Supply!TransitNext]_(Supply!transitVars)
<1> SUFFICES ASSUME TypeOK, TransitInv, [Next]_bankVars
    PROVE  Supply!TransitNext \/ UNCHANGED Supply!transitVars
  BY Zenon
<1>0. LedgerType /\ SupplyIsHeld /\ Numbered(rebalances, rebalanceNonce)
  BY DEF TypeOK, TransitInv
<1>1. CASE UNCHANGED <<wallet, totalSupply, rebalances, processedMessages>>
  BY <1>1 DEF Supply!transitVars, Wallets
<1>2. CASE UserStep
  <2>1. PICK c \in Chains, u \in Users, amount \in Amounts :
          \/ deposit(c, u, amount)
          \/ withdraw(c, u, amount)
          \/ seedPool(c, u, amount)
          \/ \E to \in Users : transfer(c, u, to, amount)
          \/ \E to \in Users, dst \in Destinations :
                 transferHotPath(c, u, to, amount, dst)
    BY <1>2 DEF UserStep
  <2>2. amount \in Nat
    BY BankAssumption
  <2>3. CASE deposit(c, u, amount)
    <3>1. amount \in 1..Wallets /\ Wallets' = Wallets - amount
      BY <2>2, <2>3, DepositMoves
    <3>2. Supply!Enter(c, amount)
      BY <2>3, <3>1 DEF Supply!Enter, deposit, coldVars
    <3>3. QED
      BY <3>1, <3>2 DEF Supply!TransitNext
  <2>4. CASE withdraw(c, u, amount)
    <3>1. amount \in 1..totalSupply[c] /\ Wallets' = Wallets + amount
      BY <1>0, <2>2, <2>4, WithdrawMoves
    <3>2. Supply!Leave(c, amount)
      BY <2>4, <3>1 DEF Supply!Leave, withdraw, coldVars
    <3>3. QED
      BY <3>1, <3>2 DEF Supply!TransitNext
  <2>5. CASE seedPool(c, u, amount)
    BY <1>1, <2>5 DEF seedPool, coldVars
  <2>6. CASE \E to \in Users : transfer(c, u, to, amount)
    BY <1>1, <2>6 DEF transfer, coldVars
  <2>7. CASE \E to \in Users, dst \in Destinations : transferHotPath(c, u, to, amount, dst)
    BY <1>1, <2>7 DEF transferHotPath, coldVars
  <2>8. QED
    BY <2>1, <2>3, <2>4, <2>5, <2>6, <2>7
<1>3. CASE RelayerStep
  BY <1>1, <1>3 DEF RelayerStep, releaseHotPath, coldVars
<1>4. CASE TreasuryStep
  <2>1. PICK c \in Chains, dst \in Chains, amount \in Amounts :
          rebalance(c, dst, amount) \/ bridgeReserve(c, dst, amount)
    BY <1>4 DEF TreasuryStep
  <2>2. CASE rebalance(c, dst, amount)
    <3>1. amount \in Nat /\ amount > 0 /\ amount <= pool[c]
      BY <2>2, BankAssumption DEF rebalance, rebalanceable
    <3>2. amount \in 1..totalSupply[c]
      <4>1. totalSupply[c] = pool[c] + Total(balanceOf[c], NumUsers)
            /\ Total(balanceOf[c], NumUsers) \in Nat /\ pool[c] \in Nat
        BY <1>0, HoldersInt DEF SupplyIsHeld, LedgerType
      <4>2. QED
        BY <3>1, <4>1
    <3>3. rebalanceNonce[c] = Supply!Departures(c)
      <4> DEFINE D == DepartedFrom(rebalances, c)
      <4>1. Supply!Cardinality(D) = Cardinality(D)
        BY Zenon DEF Supply!Cardinality, Cardinality, Supply!IsFiniteSet, IsFiniteSet
      <4>2. QED
        BY <1>0, <4>1 DEF Numbered, DepartedFrom, Supply!Departures
    <3>4. Supply!Depart(c, dst, amount)
      BY <2>2, <3>3 DEF Supply!Depart, rebalance, Wallets
    <3>5. QED
      BY <3>2, <3>4 DEF Supply!TransitNext
  <2>3. CASE bridgeReserve(c, dst, amount)
    BY <1>1, <2>3 DEF bridgeReserve, coldVars
  <2>4. QED
    BY <2>1, <2>2, <2>3
<1>5. CASE DeliveryStep
  <2>1. CASE \E i \in DOMAIN rebalances : ccipReceive(rebalances[i])
    <3>1. PICK i \in DOMAIN rebalances : ccipReceive(rebalances[i])
      BY <2>1
    <3>2. Supply!Arrive(rebalances[i])
      BY <3>1 DEF Supply!Arrive, ccipReceive, unsettled, Wallets
    <3>3. QED
      BY <3>2 DEF Supply!TransitNext
  <2>2. CASE \E i \in DOMAIN bridges : bridgeIn(bridges[i])
    BY <1>1, <2>2 DEF bridgeIn, coldVars
  <2>3. QED
    BY <1>5, <2>1, <2>2 DEF DeliveryStep
<1>6. CASE GovernanceStep \/ UNCHANGED bankVars
  BY <1>1, <1>6, GovernanceFrame DEF bankVars, ledgerVars, coldVars
<1>7. QED
  BY <1>2, <1>3, <1>4, <1>5, <1>6 DEF Next

(* The Banks implement Transit with the supply of SyncUSD: a chain's supply
   changes only by a deposit, a withdrawal, a rebalance() or the first
   ccipReceive() of a message sent to it, for any number of chains and users. *)
THEOREM SupplyImplementsTransit == Spec => SupplyTransits
<1>1. Init => Supply!TransitInit
  <2> SUFFICES ASSUME Init PROVE Supply!TransitInit
    OBVIOUS
  <2>1. Wallets \in Nat
    BY InitType, WalletsInt
  <2>2. QED
    BY <2>1 DEF Init, EmptyLedger, Deployed, Supply!TransitInit
<1>2. QED
  BY <1>1, InitTransit, TransitStep, SupplyStep, TypeCorrect, PTL
  DEF Spec, SupplyTransits, Supply!TransitSpec

(* Every step of the Banks is a step of Transit on the reserves, or none. *)
LEMMA ReserveStep ==
  TypeOK /\ TransitInv /\ [Next]_bankVars => [Reserve!TransitNext]_(Reserve!transitVars)
<1> SUFFICES ASSUME TypeOK, TransitInv, [Next]_bankVars
    PROVE  Reserve!TransitNext \/ UNCHANGED Reserve!transitVars
  BY Zenon
<1>0. LedgerType /\ SupplyIsHeld /\ Numbered(bridges, bridgeNonce)
  BY DEF TypeOK, TransitInv
<1>1. CASE UNCHANGED <<wallet, usdc, bridges, processedReserveMessages>>
  BY <1>1 DEF Reserve!transitVars, Wallets
<1>2. CASE UserStep
  <2>1. PICK c \in Chains, u \in Users, amount \in Amounts :
          \/ deposit(c, u, amount)
          \/ withdraw(c, u, amount)
          \/ seedPool(c, u, amount)
          \/ \E to \in Users : transfer(c, u, to, amount)
          \/ \E to \in Users, dst \in Destinations :
                 transferHotPath(c, u, to, amount, dst)
    BY <1>2 DEF UserStep
  <2>2. amount \in Nat
    BY BankAssumption
  <2>3. CASE deposit(c, u, amount)
    <3>1. amount \in 1..Wallets /\ Wallets' = Wallets - amount
      BY <2>2, <2>3, DepositMoves
    <3>2. Reserve!Enter(c, amount)
      BY <2>3, <3>1 DEF Reserve!Enter, deposit, reserveVars
    <3>3. QED
      BY <3>1, <3>2 DEF Reserve!TransitNext
  <2>4. CASE withdraw(c, u, amount)
    <3>1. amount \in 1..usdc[c] /\ Wallets' = Wallets + amount
      BY <1>0, <2>2, <2>4, WithdrawMoves
    <3>2. Reserve!Leave(c, amount)
      BY <2>4, <3>1 DEF Reserve!Leave, withdraw, reserveVars
    <3>3. QED
      BY <3>1, <3>2 DEF Reserve!TransitNext
  <2>5. CASE seedPool(c, u, amount)
    BY <1>1, <2>5 DEF seedPool, reserveVars
  <2>6. CASE \E to \in Users : transfer(c, u, to, amount)
    BY <1>1, <2>6 DEF transfer, reserveVars
  <2>7. CASE \E to \in Users, dst \in Destinations : transferHotPath(c, u, to, amount, dst)
    BY <1>1, <2>7 DEF transferHotPath, reserveVars
  <2>8. QED
    BY <2>1, <2>3, <2>4, <2>5, <2>6, <2>7
<1>3. CASE RelayerStep
  BY <1>1, <1>3 DEF RelayerStep, releaseHotPath, reserveVars
<1>4. CASE TreasuryStep
  <2>1. PICK c \in Chains, dst \in Chains, amount \in Amounts :
          rebalance(c, dst, amount) \/ bridgeReserve(c, dst, amount)
    BY <1>4 DEF TreasuryStep
  <2>2. CASE bridgeReserve(c, dst, amount)
    <3>1. amount \in Nat /\ amount > 0 /\ amount <= usdc[c]
      BY <2>2, BankAssumption DEF bridgeReserve, reserveBridgeable
    <3>2. amount \in 1..usdc[c]
      BY <1>0, <3>1 DEF LedgerType
    <3>3. bridgeNonce[c] = Reserve!Departures(c)
      <4> DEFINE D == DepartedFrom(bridges, c)
      <4>1. Reserve!Cardinality(D) = Cardinality(D)
        BY Zenon DEF Reserve!Cardinality, Cardinality, Reserve!IsFiniteSet, IsFiniteSet
      <4>2. QED
        BY <1>0, <4>1 DEF Numbered, DepartedFrom, Reserve!Departures
    <3>4. Reserve!Depart(c, dst, amount)
      BY <2>2, <3>3 DEF Reserve!Depart, bridgeReserve, Wallets
    <3>5. QED
      BY <3>2, <3>4 DEF Reserve!TransitNext
  <2>3. CASE rebalance(c, dst, amount)
    BY <1>1, <2>3 DEF rebalance, reserveVars
  <2>4. QED
    BY <2>1, <2>2, <2>3
<1>5. CASE DeliveryStep
  <2>1. CASE \E i \in DOMAIN bridges : bridgeIn(bridges[i])
    <3>1. PICK i \in DOMAIN bridges : bridgeIn(bridges[i])
      BY <2>1
    <3>2. Reserve!Arrive(bridges[i])
      BY <3>1 DEF Reserve!Arrive, bridgeIn, creditable, unsettled, Wallets
    <3>3. QED
      BY <3>2 DEF Reserve!TransitNext
  <2>2. CASE \E i \in DOMAIN rebalances : ccipReceive(rebalances[i])
    BY <1>1, <2>2 DEF ccipReceive, reserveVars
  <2>3. QED
    BY <1>5, <2>1, <2>2 DEF DeliveryStep
<1>6. CASE GovernanceStep \/ UNCHANGED bankVars
  BY <1>1, <1>6, GovernanceFrame DEF bankVars, ledgerVars, reserveVars
<1>7. QED
  BY <1>2, <1>3, <1>4, <1>5, <1>6 DEF Next

(* The Banks implement Transit with their USDC reserves: a reserve changes only
   by a deposit, a withdrawal, a bridgeReserve() or the first bridgeIn() of a
   message sent to the chain, and a chain never pays out what it does not hold. *)
THEOREM ReserveImplementsTransit == Spec => ReserveTransits
<1>1. Init => Reserve!TransitInit
  <2> SUFFICES ASSUME Init PROVE Reserve!TransitInit
    OBVIOUS
  <2>1. Wallets \in Nat
    BY InitType, WalletsInt
  <2>2. QED
    BY <2>1 DEF Init, EmptyLedger, Deployed, Reserve!TransitInit
<1>2. QED
  BY <1>1, InitTransit, TransitStep, ReserveStep, TypeCorrect, PTL
  DEF Spec, ReserveTransits, Reserve!TransitSpec

-----------------------------------------------------------------------------
(* For the services that run on top of the Banks. *)

(* What every call keeps. *)
BankInv == LedgerInv /\ SupplyIsHeld

(* Calls of any amount keep the invariant of the Banks. *)
LEMMA CallKeeps == BankInv /\ [BankCall]_bankVars => BankInv'
<1>1. LedgerInv => TypeOK
  BY DEF LedgerInv
<1>2. QED
  BY <1>1, CallLedger, CallHeld DEF BankInv

(* Banks in use satisfy it. *)
LEMMA OperatingKept == Operating => BankInv
<1> SUFFICES ASSUME Operating PROVE BankInv
  OBVIOUS
<1>1. /\ TypeOK /\ SupplyIsHeld /\ Backed /\ TransfersCovered
      /\ IdsAreUnique /\ NonceBound(transfers, nonce, released)
      /\ rebalances = <<>> /\ processedMessages = [c \in Chains |-> {}]
      /\ bridges = <<>> /\ processedReserveMessages = [c \in Chains |-> {}]
  BY DEF Operating
<1>2. ASSUME NEW nonces PROVE NonceBound(<<>>, nonces, [c \in Chains |-> {}])
  BY DEF NonceBound
<1>3. IdsInv
  BY <1>1, <1>2 DEF IdsInv
<1>4. QED
  BY <1>1, <1>3 DEF BankInv, LedgerInv

(* What the invariant is for. *)
LEMMA BankInvFacts == BankInv => TypeOK /\ IdsAreUnique /\ Backed /\ TransfersCovered /\ SupplyIsHeld
BY DEF BankInv, LedgerInv, IdsInv
=============================================================================
