------------------------- MODULE StakeLedgerProofs -------------------------
(***************************************************************************)
(* What every operator of StakeLedger preserves and changes.  The first    *)
(* part is about sums over a table.  In the second each lemma says that a  *)
(* ledger of the right types stays one, which fields it leaves alone, and  *)
(* its effect on those the invariants of StakeManager and JobRegistry talk *)
(* of.  The third part is about the books: the aggregates that are kept    *)
(* per role stay the sums of the accounts' balances, nobody's wallet is    *)
(* overdrawn, and the tokens held beyond what the ledger owes (Free)       *)
(* change by what is collected or paid for nothing in the ledger.          *)
(***************************************************************************)
EXTENDS StakeLedger, FiniteSetTheorems, TLAPS

-----------------------------------------------------------------------------
(* How a sum goes with the entries of its table. *)

\* The units of an entry, and those of all others.
Share(f, x) == {x} \X (1..f[x])
Rest(f, x) == UNION {Share(f, y) : y \in DOMAIN f \ {x}}

LEMMA ShareSize ==
  ASSUME NEW X, NEW f \in [X -> Nat], NEW x \in X
  PROVE  IsFiniteSet(Share(f, x)) /\ Cardinality(Share(f, x)) = f[x]
<1>1. f[x] \in Nat
  OBVIOUS
<1>2. IsFiniteSet(1..f[x]) /\ Cardinality(1..f[x]) = f[x]
  BY <1>1, FS_Interval
<1>3. IsFiniteSet({x}) /\ Cardinality({x}) = 1
  BY FS_Singleton
<1>4. /\ IsFiniteSet({x} \X (1..f[x]))
      /\ Cardinality({x} \X (1..f[x])) = Cardinality({x}) * Cardinality(1..f[x])
  BY <1>2, <1>3, FS_Product
<1> QED BY <1>1, <1>2, <1>3, <1>4 DEF Share

LEMMA UnitsSplit ==
  ASSUME NEW X, NEW f \in [X -> Nat], NEW x \in X
  PROVE  /\ Units(f) = Rest(f, x) \cup Share(f, x)
         /\ Rest(f, x) \cap Share(f, x) = {}
BY DEF Units, Rest, Share

\* A table has the sum of one entry and the rest.
LEMMA TotalSplit ==
  ASSUME NEW X, NEW f \in [X -> Nat], NEW x \in X
  PROVE  /\ Summable(f) <=> IsFiniteSet(Rest(f, x))
         /\ Summable(f) => /\ Cardinality(Rest(f, x)) \in Nat
                           /\ Total(f) = Cardinality(Rest(f, x)) + f[x]
<1>1. Units(f) = Rest(f, x) \cup Share(f, x) /\ Rest(f, x) \cap Share(f, x) = {}
  BY UnitsSplit
<1>2. IsFiniteSet(Share(f, x)) /\ Cardinality(Share(f, x)) = f[x] /\ f[x] \in Nat
  BY ShareSize
<1>3. ASSUME IsFiniteSet(Rest(f, x))
      PROVE  /\ IsFiniteSet(Units(f))
             /\ Cardinality(Rest(f, x)) \in Nat
             /\ Cardinality(Units(f)) = Cardinality(Rest(f, x)) + f[x]
  <2>1. /\ IsFiniteSet(Rest(f, x) \cup Share(f, x))
        /\ Cardinality(Rest(f, x) \cup Share(f, x)) =
             Cardinality(Rest(f, x)) + Cardinality(Share(f, x))
               - Cardinality(Rest(f, x) \cap Share(f, x))
    BY <1>2, <1>3, FS_Union
  <2>2. Cardinality(Rest(f, x) \cap Share(f, x)) = 0
    BY <1>1, FS_EmptySet
  <2>3. Cardinality(Rest(f, x)) \in Nat
    BY <1>3, FS_CardinalityType
  <2> QED BY <1>1, <1>2, <2>1, <2>2, <2>3
<1>4. IsFiniteSet(Units(f)) => IsFiniteSet(Rest(f, x))
  BY <1>1, FS_Subset
<1> QED BY <1>3, <1>4 DEF Summable, Total

\* One entry changes: the sum changes by as much.
LEMMA TotalChange ==
  ASSUME NEW X, NEW f \in [X -> Nat], Summable(f), NEW x \in X, NEW n \in Nat
  PROVE  LET g == [f EXCEPT ![x] = n] IN
         /\ Summable(g)
         /\ Total(f) \in Nat
         /\ Total(g) = Total(f) + n - f[x]
<1> DEFINE g == [f EXCEPT ![x] = n]
<1>1. g \in [X -> Nat] /\ g[x] = n
  OBVIOUS
<1>2. Rest(g, x) = Rest(f, x)
  BY DEF Rest, Share
<1> HIDE DEF g
<1>3. /\ Cardinality(Rest(f, x)) \in Nat
      /\ Total(f) = Cardinality(Rest(f, x)) + f[x]
      /\ IsFiniteSet(Rest(f, x))
  BY TotalSplit
<1>4. Summable(g) /\ Total(g) = Cardinality(Rest(g, x)) + g[x]
  BY <1>1, <1>2, <1>3, TotalSplit
<1>5. f[x] \in Nat
  OBVIOUS
<1> QED BY <1>1, <1>2, <1>3, <1>4, <1>5 DEF g

\* No entry exceeds the sum.
LEMMA TotalBounds ==
  ASSUME NEW X, NEW f \in [X -> Nat], Summable(f), NEW x \in X
  PROVE  Total(f) \in Nat /\ f[x] <= Total(f)
<1>1. f[x] \in Nat
  OBVIOUS
<1> QED BY <1>1, TotalSplit

\* An empty table.
LEMMA TotalZero ==
  ASSUME NEW X PROVE Summable([x \in X |-> 0]) /\ Total([x \in X |-> 0]) = 0
<1>1. Units([x \in X |-> 0]) = {}
  BY DEF Units
<1> QED BY <1>1, FS_EmptySet DEF Summable, Total

\* A finite table has a sum.
LEMMA FiniteTable ==
  ASSUME NEW X, IsFiniteSet(X), NEW f \in [X -> Nat]
  PROVE  Summable(f)
<1> DEFINE shares == {Share(f, x) : x \in X}
           h == [x \in X |-> Share(f, x)]
<1>1. h \in Surjection(X, shares)
  BY DEF Surjection
<1>2. IsFiniteSet(shares)
  BY <1>1, FS_Surjection
<1>3. \A S \in shares : IsFiniteSet(S)
  BY ShareSize
<1>4. Units(f) = UNION shares
  BY DEF Units, Share
<1> QED BY <1>2, <1>3, <1>4, FS_UNION DEF Summable
-----------------------------------------------------------------------------
(* Amounts divided in proportion to weights. *)

\* The entries of a table for some of its keys.
Part(f, S) == [x \in S |-> f[x]]

LEMMA PartSplit ==
  ASSUME NEW X, IsFiniteSet(X), NEW f \in [X -> Nat], NEW S \in SUBSET X, NEW x \in S
  PROVE  /\ Total(Part(f, S)) = Total(Part(f, S \ {x})) + f[x]
         /\ Total(Part(f, S \ {x})) \in Nat
<1>1. Part(f, S) \in [S -> Nat] /\ Part(f, S \ {x}) \in [S \ {x} -> Nat]
  BY DEF Part
<1>2. IsFiniteSet(S) /\ IsFiniteSet(S \ {x})
  BY FS_Subset
<1>3. Summable(Part(f, S)) /\ Summable(Part(f, S \ {x}))
  BY <1>1, <1>2, FiniteTable
<1>4. Rest(Part(f, S), x) = Units(Part(f, S \ {x}))
  BY DEF Rest, Units, Share, Part
<1>5. Part(f, S)[x] = f[x]
  BY DEF Part
<1>6. /\ Cardinality(Rest(Part(f, S), x)) \in Nat
      /\ Total(Part(f, S)) = Cardinality(Rest(Part(f, S), x)) + Part(f, S)[x]
  BY <1>1, <1>3, TotalSplit
<1> QED BY <1>4, <1>5, <1>6 DEF Total

\* Multiplication and division by a common factor.
LEMMA Quotient ==
  ASSUME NEW x \in Nat, NEW d \in Nat \ {0}
  PROVE  x \div d \in Nat /\ (x \div d) * d <= x
OBVIOUS

\* Shares of a in proportion to the weights w, rounded down, make up a at most.
LEMMA SharesWithin ==
  ASSUME NEW X, IsFiniteSet(X), NEW w \in [X -> Nat], NEW a \in Nat, Total(w) > 0
  PROVE  /\ Prorated(a, w) \in [X -> Nat]
         /\ Total(Prorated(a, w)) \in 0..a
<1> DEFINE t == Total(w)
           share == [x \in X |-> (a * w[x]) \div t]
           Sum(f, S) == Total(Part(f, S))
           bad == {S \in SUBSET X : ~ (Sum(share, S) * t <= a * Sum(w, S))}
<1>0. share = Prorated(a, w)
  BY DEF Prorated
<1>1. Summable(w) /\ t \in Nat \ {0}
  <2>1. Summable(w)
    BY FiniteTable
  <2> QED BY <2>1, FS_CardinalityType DEF Total, Summable
<1> HIDE DEF t
<1>2. \A x \in X : a * w[x] \in Nat
  OBVIOUS
<1>3. share \in [X -> Nat]
  BY <1>1, <1>2, Quotient
<1>4. \A x \in X : share[x] * t <= a * w[x]
  BY <1>1, <1>2, Quotient
<1> HIDE DEF share
<1>5. bad = {}
  <2> SUFFICES ASSUME bad # {} PROVE FALSE
    OBVIOUS
  <2>1. bad \subseteq FiniteSubsetsOf(X)
    BY FS_Subset DEF FiniteSubsetsOf
  <2>2. PICK S \in bad : \A R \in bad : <<R, S>> \notin StrictSubsetOrdering(X)
    BY <2>1, FS_StrictSubsetOrderingWellFounded, WFMin
  <2>3. CASE S = {}
    <3>1. Part(share, S) = [x \in {} |-> 0] /\ Part(w, S) = [x \in {} |-> 0]
      BY <2>3 DEF Part
    <3>2. Sum(share, S) = 0 /\ Sum(w, S) = 0
      BY <3>1, TotalZero
    <3> QED BY <1>1, <3>2
  <2>4. ASSUME NEW x \in S PROVE FALSE
    <3>1. S \ {x} \notin bad
      BY <2>2 DEF StrictSubsetOrdering
    <3>2. Sum(share, S \ {x}) * t <= a * Sum(w, S \ {x})
      BY <3>1
    <3>3. /\ Sum(share, S) = Sum(share, S \ {x}) + share[x]
          /\ Sum(share, S \ {x}) \in Nat
      BY <1>3, PartSplit
    <3>4. /\ Sum(w, S) = Sum(w, S \ {x}) + w[x]
          /\ Sum(w, S \ {x}) \in Nat
      BY PartSplit
    <3>5. share[x] * t <= a * w[x] /\ share[x] \in Nat /\ w[x] \in Nat
      BY <1>3, <1>4
    <3> HIDE DEF Sum
    <3>6. /\ Sum(share, S) * t = Sum(share, S \ {x}) * t + share[x] * t
          /\ a * Sum(w, S) = a * Sum(w, S \ {x}) + a * w[x]
      BY <1>1, <3>3, <3>4, <3>5
    <3>7. Sum(share, S) * t <= a * Sum(w, S)
      BY <1>1, <3>2, <3>3, <3>4, <3>5, <3>6
    <3> QED BY <2>2, <3>7
  <2> QED BY <2>3, <2>4
<1>6. Part(share, X) = share /\ Part(w, X) = w
  BY <1>3 DEF Part
<1>7. Total(share) * t <= a * t
  BY <1>5, <1>6 DEF t
<1>8. Total(share) \in Nat
  <2>1. Summable(share)
    BY <1>3, FiniteTable
  <2> QED BY <2>1, FS_CardinalityType DEF Total, Summable
<1>9. Total(share) <= a
  BY <1>1, <1>7, <1>8
<1> QED BY <1>0, <1>3, <1>8, <1>9
-----------------------------------------------------------------------------
(* Ledgers. *)

\* M is a ledger that differs from L in the given fields only.
SameBut(M, L, fields) ==
  /\ DOMAIN M = LedgerFields
  /\ \A f \in LedgerFields \ fields : M[f] = L[f]

StakeFields == {"stakes", "totalStakes", "boosted", "totalBoosted"}
LockFields == {"locked", "unlockTime"}
TokenFields == {"balance", "wallet"}
-----------------------------------------------------------------------------
(* Percentages. *)

\* A percentage of a natural number is a natural number.
LEMMA PctNat == ASSUME NEW a \in Nat, NEW p \in Nat PROVE Pct(a, p) \in Nat
<1>1. a * p \in Nat
  OBVIOUS
<1>2. \A x \in Nat : x \div 100 \in Nat
  OBVIOUS
<1> QED BY <1>1, <1>2 DEF Pct

\* At most 100 percent is at most the amount.
LEMMA PctAtMost ==
  ASSUME NEW a \in Nat, NEW p \in 0..100
  PROVE  Pct(a, p) \in 0..a
<1>1. a * p \in Nat /\ a * p <= a * 100
  OBVIOUS
<1>2. \A x \in Nat : x <= a * 100 => x \div 100 <= a
  OBVIOUS
<1> QED BY <1>1, <1>2, PctNat DEF Pct

\* At least 100 percent is at least the amount.
LEMMA PctAtLeast ==
  ASSUME NEW a \in Nat, NEW p \in 100..200
  PROVE  Pct(a, p) \in Nat /\ Pct(a, p) >= a
<1>1. a * p \in Nat /\ a * p >= a * 100
  OBVIOUS
<1>2. \A x \in Nat : x >= a * 100 => x \div 100 >= a
  OBVIOUS
<1> QED BY <1>1, <1>2, PctNat DEF Pct

\* Two percentages that make up at most 100 together leave something.
LEMMA PctSum ==
  ASSUME NEW a \in Nat, NEW p \in 0..100, NEW q \in 0..100, p + q <= 100
  PROVE  Pct(a, p) + Pct(a, q) <= a
<1>1. a * p \in Nat /\ a * q \in Nat /\ a * p + a * q <= a * 100
  OBVIOUS
<1>2. \A x, y \in Nat : x + y <= a * 100 => (x \div 100) + (y \div 100) <= a
  OBVIOUS
<1> QED BY <1>1, <1>2 DEF Pct
-----------------------------------------------------------------------------
(* Token transfers. *)

\* A payment touches the balance and the recipient's wallet.
LEMMA PayEffect ==
  ASSUME NEW L, DOMAIN L = LedgerFields, DOMAIN L.wallet = Accounts, NEW to, NEW amount
  PROVE  LET M == Pay(L, to, amount) IN
         /\ SameBut(M, L, TokenFields)
         /\ M.balance = L.balance - amount
         /\ DOMAIN M.wallet = Accounts
<1>1. DOMAIN Credit(L.wallet, to, amount) = Accounts
  BY DEF Credit
<1> QED BY <1>1 DEF Pay, SameBut, TokenFields, LedgerFields

LEMMA PayType ==
  ASSUME NEW L, LedgerTypeOK(L), NEW to, NEW amount \in Nat, L.balance >= amount
  PROVE  LedgerTypeOK(Pay(L, to, amount))
<1>1. DOMAIN L = LedgerFields /\ DOMAIN L.wallet = Accounts /\ L.balance \in Nat
  BY DEF LedgerTypeOK
<1> DEFINE M == Pay(L, to, amount)
<1>2. SameBut(M, L, TokenFields) /\ M.balance \in Nat /\ DOMAIN M.wallet = Accounts
  BY <1>1, PayEffect
<1> QED BY <1>2 DEF LedgerTypeOK, SameBut, TokenFields, LedgerFields

\* A collection touches the balance and the payer's wallet.
LEMMA CollectEffect ==
  ASSUME NEW L, LedgerTypeOK(L), NEW from \in Accounts, NEW amount \in Nat
  PROVE  LET M == Collect(L, from, amount) IN
         /\ LedgerTypeOK(M)
         /\ SameBut(M, L, TokenFields)
<1>1. SameBut(Collect(L, from, amount), L, TokenFields)
      /\ Collect(L, from, amount).balance = L.balance + amount
      /\ DOMAIN Collect(L, from, amount).wallet = Accounts
  BY DEF Collect, LedgerTypeOK, SameBut, TokenFields, LedgerFields
<1> QED BY <1>1 DEF LedgerTypeOK, SameBut, TokenFields, LedgerFields
-----------------------------------------------------------------------------
(* Stakes and locks. *)

\* The deposit, the withdrawal and the slash of a role's stake.
LEMMA SetStakeEffect ==
  ASSUME NEW L, LedgerTypeOK(L), NEW u \in Accounts, NEW r \in Roles, NEW s \in Nat
  PROVE  LET S == SetStake(L, u, r, s) IN
         /\ LedgerTypeOK(S)
         /\ SameBut(S, L, StakeFields)
         /\ S.stakes = [L.stakes EXCEPT ![u][r] = s]
<1> DEFINE b == Pct(s, L.payoutPct[u])
           S == SetStake(L, u, r, s)
<1>1. b \in Nat
  <2>1. L.payoutPct[u] \in 100..200
    BY DEF LedgerTypeOK
  <2> QED BY <2>1, PctAtLeast
<1>2. /\ L.stakes[u][r] \in Nat /\ L.boosted[u][r] \in Nat
      /\ L.totalStakes[r] \in Int /\ L.totalBoosted[r] \in Int
  BY DEF LedgerTypeOK
<1>3. S = [L EXCEPT !.stakes[u][r] = s, !.totalStakes[r] = @ + s - L.stakes[u][r],
                    !.boosted[u][r] = b, !.totalBoosted[r] = @ + b - L.boosted[u][r]]
  BY DEF SetStake
<1> HIDE DEF b, S
<1>4. DOMAIN S = LedgerFields /\ S.stakes = [L.stakes EXCEPT ![u][r] = s]
  BY <1>3 DEF LedgerTypeOK, LedgerFields
<1>5. S.totalStakes \in [Roles -> Int]
  BY <1>3, <1>1, <1>2 DEF LedgerTypeOK, LedgerFields
<1>6. S.boosted \in [Accounts -> [Roles -> Nat]]
  BY <1>3, <1>1, <1>2 DEF LedgerTypeOK, LedgerFields
<1>7. S.totalBoosted \in [Roles -> Int]
  BY <1>3, <1>1, <1>2 DEF LedgerTypeOK, LedgerFields
<1>8. SameBut(S, L, StakeFields)
  BY <1>3, <1>4 DEF LedgerTypeOK, LedgerFields, SameBut, StakeFields
<1>9. S.stakes \in [Accounts -> [Roles -> Nat]]
  BY <1>4 DEF LedgerTypeOK
<1>10. LedgerTypeOK(S)
  BY <1>4, <1>5, <1>6, <1>7, <1>8, <1>9 DEF LedgerTypeOK, LedgerFields, SameBut, StakeFields
<1> QED BY <1>4, <1>8, <1>10 DEF S

\* The stake of all roles follows the stake of the role that is set.
LEMMA SetStakeTotal ==
  ASSUME NEW L, LedgerTypeOK(L), NEW u \in Accounts, NEW r \in Roles, NEW s \in Nat, NEW v \in Accounts
  PROVE  TotalStakeOf(SetStake(L, u, r, s), v) =
           IF v = u THEN TotalStakeOf(L, u) + s - L.stakes[u][r] ELSE TotalStakeOf(L, v)
<1>1. SetStake(L, u, r, s).stakes = [L.stakes EXCEPT ![u][r] = s]
  BY SetStakeEffect
<1>2. L.stakes \in [Accounts -> [Roles -> Nat]]
  BY DEF LedgerTypeOK
<1> QED BY <1>1, <1>2 DEF TotalStakeOf, Roles

LEMMA TotalStakeNat ==
  ASSUME NEW L, LedgerTypeOK(L), NEW u \in Accounts, NEW r \in Roles
  PROVE  TotalStakeOf(L, u) \in Nat /\ L.stakes[u][r] \in Nat /\ L.stakes[u][r] <= TotalStakeOf(L, u)
BY DEF LedgerTypeOK, TotalStakeOf, Roles

LEMMA DepositEffect ==
  ASSUME NEW L, LedgerTypeOK(L), NEW u \in Accounts, NEW r \in Roles, NEW amount \in Nat
  PROVE  LET M == Deposit(L, u, r, amount) IN
         /\ LedgerTypeOK(M)
         /\ SameBut(M, L, StakeFields \cup TokenFields)
         /\ \A v \in Accounts : TotalStakeOf(M, v) >= TotalStakeOf(L, v)
<1> DEFINE s == L.stakes[u][r] + amount
           S == SetStake(L, u, r, s)
<1>1. s \in Nat
  BY TotalStakeNat
<1> HIDE DEF s
<1>2. LedgerTypeOK(S) /\ SameBut(S, L, StakeFields)
  BY <1>1, SetStakeEffect
<1>3. \A v \in Accounts : TotalStakeOf(S, v) >= TotalStakeOf(L, v)
  BY <1>1, SetStakeTotal, TotalStakeNat DEF s
<1> HIDE DEF S
<1>4. LedgerTypeOK(Collect(S, u, amount)) /\ SameBut(Collect(S, u, amount), S, TokenFields)
  BY <1>2, CollectEffect
<1>5. \A v \in Accounts : TotalStakeOf(Collect(S, u, amount), v) = TotalStakeOf(S, v)
  BY <1>4 DEF TotalStakeOf, SameBut, TokenFields, LedgerFields
<1>6. SameBut(Collect(S, u, amount), L, StakeFields \cup TokenFields)
  BY <1>2, <1>4 DEF SameBut
<1> QED BY <1>3, <1>4, <1>5, <1>6 DEF Deposit, S, s

\* A lock grows, its end is never brought forward.
LEMMA LockStakeEffect ==
  ASSUME NEW L, LedgerTypeOK(L), NEW u \in Accounts, NEW amount \in Nat, NEW until \in Nat
  PROVE  LET M == LockStake(L, u, amount, until) IN
         /\ LedgerTypeOK(M)
         /\ SameBut(M, L, LockFields)
         /\ M.locked = [L.locked EXCEPT ![u] = @ + amount]
<1> DEFINE M == LockStake(L, u, amount, until)
<1>1. /\ SameBut(M, L, LockFields)
      /\ M.locked = [L.locked EXCEPT ![u] = @ + amount]
      /\ M.unlockTime \in [Accounts -> Nat]
  BY DEF LockStake, LedgerTypeOK, SameBut, LockFields, LedgerFields
<1> QED BY <1>1 DEF LedgerTypeOK, SameBut, LockFields, LedgerFields

LEMMA ReleaseStakeEffect ==
  ASSUME NEW L, LedgerTypeOK(L), NEW u \in Accounts, NEW amount \in Nat,
         CanReleaseStake(L, u, amount)
  PROVE  LET M == ReleaseStake(L, u, amount) IN
         /\ LedgerTypeOK(M)
         /\ SameBut(M, L, LockFields)
         /\ M.locked = [L.locked EXCEPT ![u] = @ - amount]
<1> DEFINE M == ReleaseStake(L, u, amount)
<1>1. /\ SameBut(M, L, LockFields)
      /\ M.locked = [L.locked EXCEPT ![u] = @ - amount]
      /\ M.unlockTime \in [Accounts -> Nat]
  BY DEF ReleaseStake, LedgerTypeOK, SameBut, LockFields, LedgerFields
<1>2. M.locked \in [Accounts -> Nat]
  BY <1>1 DEF CanReleaseStake, LedgerTypeOK
<1> HIDE DEF M
<1>3. DOMAIN M = LedgerFields /\ \A f \in LedgerFields \ LockFields : M[f] = L[f]
  BY <1>1 DEF SameBut
<1>4. /\ M.stakes = L.stakes /\ M.totalStakes = L.totalStakes
      /\ M.boosted = L.boosted /\ M.totalBoosted = L.totalBoosted
      /\ M.unbonds = L.unbonds /\ M.escrow = L.escrow /\ M.rewardPool = L.rewardPool
      /\ M.balance = L.balance /\ M.wallet = L.wallet
  BY <1>3 DEF LedgerFields, LockFields
<1>5. /\ M.payoutPct = L.payoutPct /\ M.minStake = L.minStake /\ M.feePct = L.feePct
      /\ M.burnPct = L.burnPct /\ M.treasuryOk = L.treasuryOk
      /\ M.unbondingPeriod = L.unbondingPeriod
  BY <1>3 DEF LedgerFields, LockFields
<1>6. M.unlockTime \in [Accounts -> Nat]
  BY <1>1
<1>7. LedgerTypeOK(M)
  BY <1>2, <1>3, <1>4, <1>5, <1>6 DEF LedgerTypeOK
<1> QED BY <1>1, <1>7 DEF M

LEMMA RequestWithdrawEffect ==
  ASSUME NEW L, LedgerTypeOK(L), NEW u \in Accounts, NEW amount \in Nat, NEW now \in Nat
  PROVE  LET M == RequestWithdraw(L, u, amount, now) IN
         /\ LedgerTypeOK(M)
         /\ SameBut(M, L, {"unbonds"})
         /\ M.unbonds = [L.unbonds EXCEPT ![u] = [amt |-> amount, unlockAt |-> now + L.unbondingPeriod]]
<1> DEFINE M == RequestWithdraw(L, u, amount, now)
<1>1. /\ SameBut(M, L, {"unbonds"})
      /\ M.unbonds = [L.unbonds EXCEPT ![u] = [amt |-> amount, unlockAt |-> now + L.unbondingPeriod]]
  BY DEF RequestWithdraw, LedgerTypeOK, SameBut, LedgerFields
<1>2. now + L.unbondingPeriod \in Nat
  BY DEF LedgerTypeOK
<1>3. M.unbonds \in [Accounts -> [amt : Nat, unlockAt : Nat]]
  BY <1>1, <1>2 DEF LedgerTypeOK
<1> QED BY <1>1, <1>3 DEF LedgerTypeOK, SameBut, LedgerFields

\* A withdrawal takes the stake out and drops an expired lock, and nothing else.
LEMMA WithdrawEffect ==
  ASSUME NEW L, LedgerTypeOK(L), NEW u \in Accounts, NEW r \in Roles, NEW amount \in Nat,
         NEW now \in Nat, CanWithdraw(L, u, r, amount, now)
  PROVE  LET M == Withdraw(L, u, r, amount, now) IN
         /\ LedgerTypeOK(M)
         /\ SameBut(M, L, StakeFields \cup LockFields \cup TokenFields)
         /\ \A v \in Accounts :
              M.locked[v] = IF v = u /\ LockExpired(L, u, now) THEN 0 ELSE L.locked[v]
         /\ \A v \in Accounts :
              TotalStakeOf(M, v) = IF v = u THEN TotalStakeOf(L, u) - amount ELSE TotalStakeOf(L, v)
<1> DEFINE U == IF LockExpired(L, u, now)
                THEN [L EXCEPT !.locked[u] = 0, !.unlockTime[u] = 0]
                ELSE L
           s == L.stakes[u][r] - amount
           S == SetStake(U, u, r, s)
           M == Pay(S, u, amount)
<1>1. LedgerTypeOK(U) /\ SameBut(U, L, LockFields)
  <2>1. CASE LockExpired(L, u, now)
    <3>1. /\ SameBut(U, L, LockFields)
          /\ U.locked = [L.locked EXCEPT ![u] = 0]
          /\ U.unlockTime = [L.unlockTime EXCEPT ![u] = 0]
      BY <2>1 DEF LedgerTypeOK, SameBut, LockFields, LedgerFields
    <3> QED BY <3>1 DEF LedgerTypeOK, SameBut, LockFields, LedgerFields
  <2>2. CASE ~LockExpired(L, u, now)
    BY <2>2 DEF LedgerTypeOK, SameBut
  <2> QED BY <2>1, <2>2
<1>2. \A v \in Accounts : U.locked[v] = IF v = u /\ LockExpired(L, u, now) THEN 0 ELSE L.locked[v]
  BY DEF LedgerTypeOK, LedgerFields
<1>3. U.stakes = L.stakes
  BY <1>1 DEF SameBut, LockFields, LedgerFields
<1>4. s \in Nat
  BY TotalStakeNat DEF CanWithdraw, CanTake
<1> HIDE DEF U, s
<1>5. LedgerTypeOK(S) /\ SameBut(S, U, StakeFields)
  BY <1>1, <1>4, SetStakeEffect
<1>6. \A v \in Accounts :
        TotalStakeOf(S, v) = IF v = u THEN TotalStakeOf(L, u) - amount ELSE TotalStakeOf(L, v)
  <2>1. \A v \in Accounts : TotalStakeOf(U, v) = TotalStakeOf(L, v)
    BY <1>3 DEF TotalStakeOf
  <2>2. \A v \in Accounts :
          TotalStakeOf(S, v) = IF v = u THEN TotalStakeOf(U, u) + s - U.stakes[u][r]
                               ELSE TotalStakeOf(U, v)
    BY <1>1, <1>4, SetStakeTotal
  <2> QED BY <2>1, <2>2, <1>3, TotalStakeNat DEF s
<1> HIDE DEF S
<1>7. S.balance >= amount
  BY <1>1, <1>5 DEF CanWithdraw, SameBut, StakeFields, LockFields, LedgerFields
<1>8. LedgerTypeOK(M) /\ SameBut(M, S, TokenFields)
  <2>1. DOMAIN S = LedgerFields /\ DOMAIN S.wallet = Accounts
    BY <1>5 DEF LedgerTypeOK
  <2> QED BY <1>5, <1>7, <2>1, PayType, PayEffect
<1> HIDE DEF M
<1>9. SameBut(M, L, StakeFields \cup LockFields \cup TokenFields)
  BY <1>1, <1>5, <1>8 DEF SameBut
<1>10. M.locked = U.locked /\ M.stakes = S.stakes
  BY <1>5, <1>8 DEF SameBut, TokenFields, StakeFields, LedgerFields
<1>11. \A v \in Accounts : TotalStakeOf(M, v) = TotalStakeOf(S, v)
  BY <1>10 DEF TotalStakeOf
<1>12. M = Withdraw(L, u, r, amount, now)
  BY DEF Withdraw, M, S, U, s
<1> QED BY <1>2, <1>6, <1>8, <1>9, <1>10, <1>11, <1>12

\* M is the ledger L after a pending withdrawal of u was paid out.
FinalizedFrom(M, L, u) ==
  /\ LedgerTypeOK(M)
  /\ SameBut(M, L, StakeFields \cup LockFields \cup TokenFields \cup {"unbonds"})
  /\ M.locked = L.locked
  /\ M.unbonds = [L.unbonds EXCEPT ![u] = NoUnbond]
  /\ \A v \in Accounts : v # u => TotalStakeOf(M, v) = TotalStakeOf(L, v)

LEMMA FinalizeWithdrawEffect ==
  ASSUME NEW L, LedgerTypeOK(L), NEW u \in Accounts, NEW r \in Roles,
         NEW now \in Nat, CanFinalizeWithdraw(L, u, r, now)
  PROVE  FinalizedFrom(FinalizeWithdraw(L, u, r, now), L, u)
<1> DEFINE N == [L EXCEPT !.unbonds[u] = NoUnbond]
           amount == L.unbonds[u].amt
           M == Withdraw(N, u, r, amount, now)
<1>1. SameBut(N, L, {"unbonds"}) /\ N.unbonds = [L.unbonds EXCEPT ![u] = NoUnbond]
  BY DEF LedgerTypeOK, SameBut, LedgerFields
<1>2. LedgerTypeOK(N) /\ amount \in Nat
  BY <1>1 DEF LedgerTypeOK, SameBut, LedgerFields, NoUnbond
<1>3. N.locked = L.locked /\ N.unlockTime = L.unlockTime /\ N.stakes = L.stakes
      /\ N.minStake = L.minStake /\ N.balance = L.balance
  BY <1>1 DEF SameBut, LedgerFields
<1>4. CanWithdraw(N, u, r, amount, now)
  BY <1>3 DEF CanFinalizeWithdraw, CanWithdraw, CanTake, TotalStakeOf
<1>5. L.locked[u] = 0
  BY DEF CanFinalizeWithdraw
<1>6. \A v \in Accounts : TotalStakeOf(N, v) = TotalStakeOf(L, v)
  BY <1>3 DEF TotalStakeOf
<1> HIDE DEF N, amount
<1>7. /\ LedgerTypeOK(M)
      /\ SameBut(M, N, StakeFields \cup LockFields \cup TokenFields)
      /\ \A v \in Accounts :
           M.locked[v] = IF v = u /\ LockExpired(N, u, now) THEN 0 ELSE N.locked[v]
      /\ \A v \in Accounts :
           TotalStakeOf(M, v) = IF v = u THEN TotalStakeOf(N, u) - amount ELSE TotalStakeOf(N, v)
  <2> HIDE DEF M
  <2>1. M = Withdraw(N, u, r, amount, now)
    BY DEF M
  <2>2. LedgerTypeOK(M) /\ SameBut(M, N, StakeFields \cup LockFields \cup TokenFields)
    BY <2>1, <1>2, <1>4, WithdrawEffect
  <2>3. \A v \in Accounts :
           M.locked[v] = IF v = u /\ LockExpired(N, u, now) THEN 0 ELSE N.locked[v]
    BY <2>1, <1>2, <1>4, WithdrawEffect
  <2>4. \A v \in Accounts :
           TotalStakeOf(M, v) = IF v = u THEN TotalStakeOf(N, u) - amount ELSE TotalStakeOf(N, v)
    BY <2>1, <1>2, <1>4, WithdrawEffect
  <2> QED BY <2>2, <2>3, <2>4
<1> HIDE DEF M
<1>8. ~LockExpired(N, u, now)
  BY <1>3, <1>5 DEF LockExpired
<1>9. M.locked = L.locked
  <2>1. \A v \in Accounts : M.locked[v] = L.locked[v]
    BY <1>3, <1>7, <1>8
  <2>2. M.locked \in [Accounts -> Nat] /\ L.locked \in [Accounts -> Nat]
    BY <1>7 DEF LedgerTypeOK
  <2> QED BY <2>1, <2>2
<1>10. M.unbonds = N.unbonds
  BY <1>7 DEF SameBut, StakeFields, LockFields, TokenFields, LedgerFields
<1>11. SameBut(M, L, StakeFields \cup LockFields \cup TokenFields \cup {"unbonds"})
  BY <1>1, <1>7 DEF SameBut
<1>12. M = FinalizeWithdraw(L, u, r, now)
  BY DEF FinalizeWithdraw, M, N, amount
<1> QED BY <1>1, <1>6, <1>7, <1>9, <1>10, <1>11, <1>12 DEF N, FinalizedFrom

LEMMA SyncBoostedType ==
  ASSUME NEW L, LedgerTypeOK(L), NEW u \in Accounts, NEW r \in Roles
  PROVE  LET M == SyncBoosted(L, u, r) IN
         LedgerTypeOK(M) /\ SameBut(M, L, {"boosted", "totalBoosted"})
<1> DEFINE b == Pct(L.stakes[u][r], L.payoutPct[u])
           M == [L EXCEPT !.boosted[u][r] = b, !.totalBoosted[r] = @ + b - L.boosted[u][r]]
<1>1. L.stakes[u][r] \in Nat /\ L.payoutPct[u] \in 100..200 /\ L.boosted[u][r] \in Nat
  BY DEF LedgerTypeOK
<1>2. b \in Nat
  BY <1>1, PctAtLeast
<1> HIDE DEF b
<1>3. SameBut(M, L, {"boosted", "totalBoosted"})
  BY DEF SameBut, LedgerTypeOK, LedgerFields
<1>4. M.boosted \in [Accounts -> [Roles -> Nat]]
  BY <1>2 DEF LedgerTypeOK, LedgerFields
<1>5. M.totalBoosted \in [Roles -> Int]
  BY <1>1, <1>2 DEF LedgerTypeOK, LedgerFields
<1> HIDE DEF M
<1>6. LedgerTypeOK(M)
  BY <1>3, <1>4, <1>5 DEF SameBut, LedgerTypeOK, LedgerFields
<1>7. M = SyncBoosted(L, u, r)
  BY DEF SyncBoosted, M, b
<1> QED BY <1>3, <1>6, <1>7

\* The escrow of job j becomes x; every other escrow is kept.
EscrowSet(M, L, j, x) ==
  \A k \in JobIds : M.escrow[k] = IF k = j THEN x ELSE L.escrow[k]

LEMMA LockRewardEffect ==
  ASSUME NEW L, LedgerTypeOK(L), NEW j \in JobIds, NEW from \in Accounts, NEW amount \in Nat
  PROVE  LET M == LockReward(L, j, from, amount) IN
         /\ LedgerTypeOK(M)
         /\ SameBut(M, L, {"escrow"} \cup TokenFields)
         /\ EscrowSet(M, L, j, L.escrow[j] + amount)
<1> DEFINE C == Collect(L, from, amount)
           M == [C EXCEPT !.escrow[j] = @ + amount]
<1>1. LedgerTypeOK(C) /\ SameBut(C, L, TokenFields)
  BY CollectEffect
<1>2. C.escrow = L.escrow
  BY <1>1 DEF SameBut, TokenFields, LedgerFields
<1> HIDE DEF C
<1>3. SameBut(M, C, {"escrow"}) /\ M.escrow = [C.escrow EXCEPT ![j] = @ + amount]
  BY <1>1 DEF SameBut, LedgerTypeOK, LedgerFields
<1>4. M.escrow \in [JobIds -> Nat]
  BY <1>1, <1>3 DEF LedgerTypeOK
<1> HIDE DEF M
<1>5. LedgerTypeOK(M)
  BY <1>1, <1>3, <1>4 DEF SameBut, LedgerTypeOK, LedgerFields
<1>6. SameBut(M, L, {"escrow"} \cup TokenFields)
  BY <1>1, <1>3 DEF SameBut
<1>7. EscrowSet(M, L, j, L.escrow[j] + amount)
  BY <1>1, <1>2, <1>3 DEF EscrowSet, LedgerTypeOK
<1>8. M = LockReward(L, j, from, amount)
  BY DEF LockReward, M, C
<1> QED BY <1>5, <1>6, <1>7, <1>8

\* What two payments to any recipients leave of a ledger.
LEMMA PayTwice ==
  ASSUME NEW L, DOMAIN L = LedgerFields, DOMAIN L.wallet = Accounts,
         NEW a, NEW x, NEW b, NEW y
  PROVE  LET M == Pay(Pay(L, a, x), b, y) IN
         /\ SameBut(M, L, TokenFields)
         /\ M.balance = L.balance - x - y
         /\ DOMAIN M.wallet = Accounts
<1> DEFINE P == Pay(L, a, x)
           M == Pay(P, b, y)
<1>1. /\ SameBut(P, L, TokenFields)
      /\ P.balance = L.balance - x
      /\ DOMAIN P.wallet = Accounts
  BY PayEffect
<1> HIDE DEF P
<1>2. DOMAIN P = LedgerFields
  BY <1>1 DEF SameBut
<1>3. /\ SameBut(M, P, TokenFields)
      /\ M.balance = P.balance - y
      /\ DOMAIN M.wallet = Accounts
  BY <1>1, <1>2, PayEffect
<1> HIDE DEF M
<1>4. SameBut(M, L, TokenFields)
  BY <1>1, <1>3 DEF SameBut
<1>5. M = Pay(Pay(L, a, x), b, y)
  BY DEF M, P
<1> QED BY <1>1, <1>3, <1>4, <1>5

LEMMA PayoutPctType ==
  ASSUME NEW L, LedgerTypeOK(L), NEW to
  PROVE  PayoutPctOf(L, to) \in 100..200
BY DEF PayoutPctOf, LedgerTypeOK

\* A release takes the boosted amount out of the escrow, or all that is left.
LEMMA ReleaseRewardEffect ==
  ASSUME NEW L, LedgerTypeOK(L), NEW j \in JobIds, NEW employer, NEW to, NEW amount \in Nat,
         CanReleaseReward(L, j, to, amount)
  PROVE  LET M == ReleaseReward(L, j, employer, to, amount) IN
         /\ LedgerTypeOK(M)
         /\ SameBut(M, L, {"escrow"} \cup TokenFields)
         /\ EscrowSet(M, L, j, Monus(L.escrow[j], Pct(amount, PayoutPctOf(L, to))))
<1> DEFINE modified == Pct(amount, PayoutPctOf(L, to))
           s == ReleaseSplit(L, j, to, amount)
           toEmployer == IF FeePoolSet THEN 0 ELSE s.fee
           gone == s.total - s.payout - toEmployer
           E == [L EXCEPT !.escrow[j] = @ - s.total, !.balance = @ - gone]
           M == Pay(Pay(E, employer, toEmployer), to, s.payout)
           fee == Pct(modified, L.feePct)
           burn == Pct(modified, L.burnPct)
<1>1. modified \in Nat /\ L.escrow[j] \in Nat /\ L.balance \in Nat
  <2>1. PayoutPctOf(L, to) \in 100..200
    BY PayoutPctType
  <2> QED BY <2>1, PctAtLeast DEF LedgerTypeOK
<1>2. fee \in Int /\ burn \in Int
  <2>1. L.feePct \in 0..100 /\ L.burnPct \in 0..100
    BY DEF LedgerTypeOK
  <2>2. fee \in 0..modified
    BY <1>1, <2>1, PctAtMost
  <2>3. burn \in 0..modified
    BY <1>1, <2>1, PctAtMost
  <2> QED BY <1>1, <2>2, <2>3
<1> HIDE DEF modified, fee, burn
<1>3. /\ s.total = modified - Monus(modified, L.escrow[j])
      /\ s.payout = modified - fee - burn
      /\ s.fee = fee - Lesser(Monus(modified, L.escrow[j])
                                - Lesser(Monus(modified, L.escrow[j]), burn), fee)
  BY DEF ReleaseSplit, modified, fee, burn
<1>4. s.total \in Nat /\ s.payout \in Int /\ s.fee \in Int
  BY <1>1, <1>2, <1>3 DEF Monus, Lesser
<1>5. /\ s.total <= L.escrow[j]
      /\ L.escrow[j] - s.total = Monus(L.escrow[j], modified)
  BY <1>1, <1>3 DEF Monus
<1>6. L.balance >= s.total
  BY DEF CanReleaseReward
<1> HIDE DEF s
<1>7. toEmployer \in Int /\ gone \in Int
  BY <1>4
<1> HIDE DEF toEmployer
<1>8. gone + toEmployer + s.payout = s.total
  BY <1>4, <1>7
<1> HIDE DEF gone
<1>9. /\ SameBut(E, L, {"escrow", "balance"})
      /\ E.escrow = [L.escrow EXCEPT ![j] = @ - s.total]
      /\ E.balance = L.balance - gone
  BY DEF SameBut, LedgerTypeOK, LedgerFields
<1> HIDE DEF E
<1>10. DOMAIN E = LedgerFields /\ DOMAIN E.wallet = Accounts
  BY <1>9 DEF SameBut, LedgerTypeOK, LedgerFields
<1>11. /\ SameBut(M, E, TokenFields)
       /\ M.balance = E.balance - toEmployer - s.payout
       /\ DOMAIN M.wallet = Accounts
  BY <1>10, PayTwice
<1> HIDE DEF M
<1>12. M.balance \in Nat
  BY <1>1, <1>4, <1>6, <1>7, <1>8, <1>9, <1>11
<1>13. M.escrow = E.escrow
  BY <1>11 DEF SameBut, TokenFields, LedgerFields
<1>14. M.escrow \in [JobIds -> Nat]
  BY <1>1, <1>4, <1>5, <1>9, <1>13 DEF LedgerTypeOK
<1>15. SameBut(M, L, {"escrow"} \cup TokenFields)
  BY <1>9, <1>11 DEF SameBut, TokenFields
<1>16. LedgerTypeOK(M)
  BY <1>11, <1>12, <1>14, <1>15 DEF SameBut, LedgerTypeOK, TokenFields, LedgerFields
<1>17. EscrowSet(M, L, j, Monus(L.escrow[j], modified))
  BY <1>5, <1>9, <1>13 DEF EscrowSet, LedgerTypeOK
<1>18. M = ReleaseReward(L, j, employer, to, amount)
  BY DEF ReleaseReward, M, E, gone, toEmployer, s
<1> QED BY <1>15, <1>16, <1>17, <1>18 DEF modified

\* Finalizing a job's funds leaves exactly the validators' reward in escrow.
LEMMA FinalizeJobFundsEffect ==
  ASSUME NEW L, LedgerTypeOK(L), NEW j \in JobIds, NEW employer, NEW payee,
         NEW pct \in 100..200, NEW reward \in Nat, NEW vr \in Nat, NEW fee \in Nat,
         NEW pool \in BOOLEAN, CanFinalizeJobFunds(L, j, pct, reward, vr, fee)
  PROVE  LET M == FinalizeJobFunds(L, j, employer, payee, pct, reward, vr, fee, pool) IN
         /\ LedgerTypeOK(M)
         /\ SameBut(M, L, {"escrow", "rewardPool"} \cup TokenFields)
         /\ EscrowSet(M, L, j, vr)
<1> DEFINE s == FinalizeSplit(L, j, pct, reward, vr, fee)
           toEmployer == IF pool THEN 0 ELSE s.fee
           gone == s.modified - s.payout + s.fee - toEmployer
           E == [L EXCEPT !.escrow[j] = s.left - s.surplus,
                          !.rewardPool = @ - s.extra + s.surplus,
                          !.balance = @ - gone]
           M == Pay(Pay(E, payee, s.payout), employer, toEmployer)
           deficit == Monus(reward + fee, L.escrow[j] - vr)
<1>1. L.escrow[j] \in Nat /\ L.balance \in Nat /\ L.rewardPool \in Nat /\ L.burnPct \in 0..100
  BY DEF LedgerTypeOK
<1>2. deficit \in Nat /\ deficit = IF reward + fee > L.escrow[j] - vr
                                   THEN reward + fee - (L.escrow[j] - vr) ELSE 0
  BY <1>1 DEF Monus
<1> HIDE DEF deficit
<1>3. /\ s.available = L.escrow[j] - vr
      /\ s.fee = fee - Lesser(deficit, fee)
      /\ s.spentReward = reward - Monus(deficit, fee)
      /\ s.left = L.escrow[j] - s.spentReward - s.fee
      /\ s.surplus = Monus(s.left, vr)
      /\ s.modified = Pct(s.spentReward, pct)
      /\ s.payout = s.modified - Pct(s.modified, L.burnPct)
      /\ s.extra = Monus(s.modified, s.spentReward)
  BY DEF FinalizeSplit, deficit, BonusOf
<1>4. /\ s.available >= 0
      /\ s.spentReward >= 0
      /\ L.rewardPool >= s.extra
      /\ L.balance >= s.modified + s.fee
  BY DEF CanFinalizeJobFunds
<1> HIDE DEF s
<1>5. s.fee \in Nat /\ s.spentReward \in Nat
  BY <1>2, <1>3, <1>4 DEF Monus, Lesser
<1>6. s.left \in Nat /\ s.left >= vr
  BY <1>1, <1>2, <1>3, <1>4 DEF Monus, Lesser
<1>7. s.surplus \in Nat /\ s.left - s.surplus = vr
  BY <1>3, <1>6 DEF Monus
<1>8. s.modified \in Nat
  BY <1>3, <1>5, PctAtLeast
<1>9. s.payout \in Int
  <2>1. Pct(s.modified, L.burnPct) \in 0..s.modified
    BY <1>1, <1>8, PctAtMost
  <2> QED BY <1>3, <1>8, <2>1
<1>10. s.extra \in Nat
  BY <1>3, <1>5, <1>8 DEF Monus
<1>11. toEmployer \in Int
  BY <1>5
<1> HIDE DEF toEmployer
<1>12. gone \in Int /\ gone + s.payout + toEmployer = s.modified + s.fee
  BY <1>5, <1>8, <1>9, <1>11
<1> HIDE DEF gone
<1>13. /\ SameBut(E, L, {"escrow", "rewardPool", "balance"})
       /\ E.escrow = [L.escrow EXCEPT ![j] = s.left - s.surplus]
       /\ E.rewardPool = L.rewardPool - s.extra + s.surplus
       /\ E.balance = L.balance - gone
  BY DEF SameBut, LedgerTypeOK, LedgerFields
<1> HIDE DEF E
<1>14. DOMAIN E = LedgerFields /\ DOMAIN E.wallet = Accounts
  BY <1>13 DEF SameBut, LedgerTypeOK, LedgerFields
<1>15. /\ SameBut(M, E, TokenFields)
       /\ M.balance = E.balance - s.payout - toEmployer
       /\ DOMAIN M.wallet = Accounts
  BY <1>14, PayTwice
<1> HIDE DEF M
<1>16. M.balance \in Nat
  BY <1>1, <1>4, <1>5, <1>8, <1>9, <1>11, <1>12, <1>13, <1>15
<1>17. M.escrow = E.escrow /\ M.rewardPool = E.rewardPool
  BY <1>15 DEF SameBut, TokenFields, LedgerFields
<1>18. M.escrow \in [JobIds -> Nat]
  BY <1>7, <1>13, <1>17 DEF LedgerTypeOK
<1>19. M.rewardPool \in Nat
  BY <1>1, <1>4, <1>7, <1>10, <1>13, <1>17
<1>20. SameBut(M, L, {"escrow", "rewardPool"} \cup TokenFields)
  BY <1>13, <1>15 DEF SameBut, TokenFields
<1>21. LedgerTypeOK(M)
  BY <1>15, <1>16, <1>18, <1>19, <1>20 DEF SameBut, LedgerTypeOK, TokenFields, LedgerFields
<1>22. EscrowSet(M, L, j, vr)
  BY <1>7, <1>13, <1>17 DEF EscrowSet, LedgerTypeOK
<1>23. M = FinalizeJobFunds(L, j, employer, payee, pct, reward, vr, fee, pool)
  BY DEF FinalizeJobFunds, M, E, gone, toEmployer, s
<1> QED BY <1>20, <1>21, <1>22, <1>23

LEMMA PaySharesEffect ==
  ASSUME NEW L, LedgerTypeOK(L), NEW vals, NEW shares
  PROVE  LET M == PayShares(L, vals, shares) IN
         LedgerTypeOK(M) /\ SameBut(M, L, {"wallet"})
<1> DEFINE M == PayShares(L, vals, shares)
<1>1. SameBut(M, L, {"wallet"}) /\ DOMAIN M.wallet = Accounts
  BY DEF PayShares, SameBut, LedgerTypeOK, LedgerFields
<1> HIDE DEF M
<1>2. LedgerTypeOK(M)
  BY <1>1 DEF SameBut, LedgerTypeOK, LedgerFields
<1> QED BY <1>1, <1>2 DEF M

LEMMA DistributeRewardsEffect ==
  ASSUME NEW L, LedgerTypeOK(L), NEW j \in JobIds, NEW vals, NEW amount \in Nat,
         CanDistribute(L, j, vals, amount)
  PROVE  LET M == DistributeRewards(L, j, vals, amount) IN
         /\ LedgerTypeOK(M)
         /\ SameBut(M, L, {"escrow"} \cup TokenFields)
         /\ EscrowSet(M, L, j, L.escrow[j] - amount)
<1> DEFINE M == DistributeRewards(L, j, vals, amount)
<1>0. L.escrow[j] \in Nat /\ L.balance \in Nat
  BY DEF LedgerTypeOK
<1>1. CASE amount = 0
  <2>1. M = L
    BY <1>1 DEF DistributeRewards
  <2> HIDE DEF M
  <2>2. SameBut(M, L, {"escrow"} \cup TokenFields) /\ EscrowSet(M, L, j, L.escrow[j] - amount)
    BY <1>0, <1>1, <2>1 DEF SameBut, EscrowSet, LedgerTypeOK
  <2> QED BY <2>1, <2>2 DEF M
<1>2. CASE amount # 0
  <2> DEFINE E == [L EXCEPT !.escrow[j] = @ - amount, !.balance = @ - amount]
             W == PayShares(E, vals, RewardShares(L, vals, amount))
  <2>1. L.escrow[j] >= amount /\ L.balance >= amount
    BY <1>2 DEF CanDistribute
  <2>2. /\ SameBut(E, L, {"escrow", "balance"})
        /\ E.escrow = [L.escrow EXCEPT ![j] = @ - amount]
        /\ E.balance = L.balance - amount
    BY DEF SameBut, LedgerTypeOK, LedgerFields
  <2> HIDE DEF E
  <2>3. E.escrow \in [JobIds -> Nat]
    BY <1>0, <2>1, <2>2 DEF LedgerTypeOK
  <2>4. E.balance \in Nat
    BY <1>0, <2>1, <2>2
  <2>5. LedgerTypeOK(E)
    BY <2>2, <2>3, <2>4 DEF SameBut, LedgerTypeOK, LedgerFields
  <2>6. LedgerTypeOK(W) /\ SameBut(W, E, {"wallet"})
    BY <2>5, PaySharesEffect
  <2>7. M = W
    BY <1>2 DEF DistributeRewards, E
  <2> HIDE DEF W, M
  <2>8. SameBut(M, L, {"escrow"} \cup TokenFields)
    BY <2>2, <2>6, <2>7 DEF SameBut, TokenFields
  <2>9. M.escrow = E.escrow
    BY <2>6, <2>7 DEF SameBut, LedgerFields
  <2>10. EscrowSet(M, L, j, L.escrow[j] - amount)
    BY <2>2, <2>9 DEF EscrowSet, LedgerTypeOK
  <2> QED BY <2>6, <2>7, <2>8, <2>10 DEF M
<1> QED BY <1>1, <1>2
-----------------------------------------------------------------------------
(* Slashing. *)

\* A slash never enlarges a pending withdrawal, and restarts its period.
\* n is at most the pending withdrawal b, and ends at again when it is changed.
ReducedFrom(n, b, again) ==
  /\ n \in [amt : Nat, unlockAt : Nat]
  /\ n.amt <= b.amt
  /\ n = b \/ n = NoUnbond \/ n.unlockAt = again

LEMMA SlashedUnbondType ==
  ASSUME NEW L, LedgerTypeOK(L), NEW u \in Accounts, NEW staked \in Nat,
         NEW amount \in Nat, NEW now \in Nat
  PROVE  ReducedFrom(SlashedUnbond(L, u, staked, amount, now), L.unbonds[u], now + L.unbondingPeriod)
<1> DEFINE pending == L.unbonds[u].amt
           reduction == IF staked = 0 THEN pending ELSE (pending * amount) \div staked
           updated == IF staked <= amount THEN 0
                      ELSE Lesser(Monus(pending, reduction), staked - amount)
           n == SlashedUnbond(L, u, staked, amount, now)
<1>1. L.unbonds[u] \in [amt : Nat, unlockAt : Nat] /\ pending \in Nat
  BY DEF LedgerTypeOK
<1> HIDE DEF pending
<1>2. reduction \in Nat
  <2>1. pending * amount \in Nat
    BY <1>1
  <2>2. \A x \in Nat, y \in Nat : y > 0 => x \div y \in Nat
    OBVIOUS
  <2> QED BY <1>1, <2>1, <2>2
<1> HIDE DEF reduction
<1>3. updated \in Nat /\ updated <= pending
  BY <1>1, <1>2 DEF Lesser, Monus
<1>4. n = IF pending = 0 THEN L.unbonds[u]
          ELSE IF updated = 0 THEN NoUnbond
          ELSE [amt |-> updated, unlockAt |-> now + L.unbondingPeriod]
  BY DEF SlashedUnbond, updated, pending, reduction
<1> HIDE DEF updated, n
<1>5. now + L.unbondingPeriod \in Nat
  BY DEF LedgerTypeOK
<1>6. n \in [amt : Nat, unlockAt : Nat]
  BY <1>1, <1>3, <1>4, <1>5 DEF NoUnbond
<1>7. n.amt <= pending
  BY <1>1, <1>3, <1>4 DEF NoUnbond, pending
<1>8. n = L.unbonds[u] \/ n = NoUnbond \/ n.unlockAt = now + L.unbondingPeriod
  BY <1>4
<1> QED BY <1>6, <1>7, <1>8 DEF n, pending, ReducedFrom

\* M is the ledger L after amount of u's stake in role r was slashed.
SlashedFrom(M, L, u, r, amount, now) ==
  /\ LedgerTypeOK(M)
  /\ SameBut(M, L, StakeFields \cup LockFields \cup TokenFields \cup {"unbonds"})
  /\ M.unbonds = [L.unbonds EXCEPT ![u] = SlashedUnbond(L, u, L.stakes[u][r], amount, now)]
  /\ M.locked = [L.locked EXCEPT ![u] = Monus(@, amount)]
  /\ M.stakes = [L.stakes EXCEPT ![u][r] = @ - amount]

LEMMA SlashEffect ==
  ASSUME NEW L, LedgerTypeOK(L), NEW u \in Accounts, NEW r \in Roles, NEW amount \in Nat,
         NEW recipient, NEW vals, NEW now \in Nat, CanSlash(L, u, r, amount)
  PROVE  SlashedFrom(Slash(L, u, r, amount, recipient, vals, now), L, u, r, amount, now)
<1> DEFINE employerShare == Pct(amount, EmployerSlashPct)
           burnShare == amount - employerShare - Pct(amount, TreasurySlashPct)
           pot == IF Len(vals) = 0 THEN 0
                  ELSE Pct(IF burnShare > 0 THEN burnShare
                           ELSE amount - employerShare, SlashRewardPct)
           s == L.stakes[u][r] - amount
           new == SlashedUnbond(L, u, L.stakes[u][r], amount, now)
           until == IF L.locked[u] > 0 /\ amount >= L.locked[u] THEN 0 ELSE L.unlockTime[u]
           S == SetStake(L, u, r, s)
           T == [S EXCEPT !.unbonds[u] = new,
                          !.locked[u] = Monus(@, amount),
                          !.unlockTime[u] =
                             IF L.locked[u] > 0 /\ amount >= L.locked[u] THEN 0 ELSE @,
                          !.balance = @ - (amount - employerShare)]
           P == Pay(T, recipient, employerShare)
           M == PayShares(P, vals, SlashShares(S, vals, pot))
<1>1. /\ L.stakes[u][r] \in Nat /\ L.balance \in Nat /\ L.locked[u] \in Nat
      /\ L.unlockTime[u] \in Nat
  BY DEF LedgerTypeOK
<1>2. s \in Nat /\ L.balance >= amount
  BY <1>1 DEF CanSlash
<1>3. employerShare \in 0..amount
  BY LedgerAssumption, PctAtMost
<1>4. new \in [amt : Nat, unlockAt : Nat]
  BY <1>1, SlashedUnbondType DEF ReducedFrom
<1>5. M = Slash(L, u, r, amount, recipient, vals, now)
  BY DEF Slash
<1> HIDE DEF new, pot, employerShare
<1>6. LedgerTypeOK(S) /\ SameBut(S, L, StakeFields)
  BY <1>2, SetStakeEffect
<1>7. S.stakes = [L.stakes EXCEPT ![u][r] = s]
  BY <1>2, SetStakeEffect
<1>8. S.unbonds = L.unbonds /\ S.locked = L.locked /\ S.unlockTime = L.unlockTime
      /\ S.balance = L.balance
  BY <1>6 DEF SameBut, StakeFields, LedgerFields
<1> HIDE DEF S
<1>9. /\ DOMAIN T = LedgerFields
      /\ T.unbonds = [S.unbonds EXCEPT ![u] = new]
      /\ T.locked = [S.locked EXCEPT ![u] = Monus(@, amount)]
      /\ T.unlockTime = [S.unlockTime EXCEPT ![u] =
                             IF L.locked[u] > 0 /\ amount >= L.locked[u] THEN 0 ELSE @]
      /\ T.balance = S.balance - (amount - employerShare)
  BY <1>6 DEF LedgerTypeOK, LedgerFields
<1>10. SameBut(T, S, LockFields \cup {"unbonds", "balance"})
  BY <1>6, <1>9 DEF LedgerTypeOK, SameBut, LockFields, LedgerFields
<1> HIDE DEF T
<1>11. T.unbonds \in [Accounts -> [amt : Nat, unlockAt : Nat]]
  BY <1>4, <1>6, <1>9 DEF LedgerTypeOK
<1>12. T.locked \in [Accounts -> Nat]
  <2>1. Monus(S.locked[u], amount) \in Nat
    BY <1>1, <1>8 DEF Monus
  <2> QED BY <1>6, <1>9, <2>1 DEF LedgerTypeOK
<1>13. T.unlockTime \in [Accounts -> Nat]
  BY <1>6, <1>9 DEF LedgerTypeOK
<1>14. T.balance \in Nat /\ T.balance >= employerShare
  BY <1>1, <1>2, <1>3, <1>8, <1>9
<1>15. LedgerTypeOK(T)
  BY <1>6, <1>9, <1>10, <1>11, <1>12, <1>13, <1>14
     DEF LedgerTypeOK, SameBut, LockFields, LedgerFields
<1>16. LedgerTypeOK(P) /\ SameBut(P, T, TokenFields)
  <2>1. DOMAIN T = LedgerFields /\ DOMAIN T.wallet = Accounts
    BY <1>15 DEF LedgerTypeOK
  <2> QED BY <1>3, <1>14, <1>15, <2>1, PayType, PayEffect
<1> HIDE DEF P
<1>17. LedgerTypeOK(M) /\ SameBut(M, P, {"wallet"})
  BY <1>16, PaySharesEffect
<1> HIDE DEF M
<1>18. SameBut(M, L, StakeFields \cup LockFields \cup TokenFields \cup {"unbonds"})
  BY <1>6, <1>10, <1>16, <1>17 DEF SameBut, TokenFields
<1>19. M.unbonds = T.unbonds /\ M.locked = T.locked /\ M.stakes = S.stakes
  BY <1>10, <1>16, <1>17 DEF SameBut, TokenFields, LockFields, LedgerFields
<1>20. M.unbonds = [L.unbonds EXCEPT ![u] = new]
  BY <1>8, <1>9, <1>19
<1>21. M.locked = [L.locked EXCEPT ![u] = Monus(@, amount)]
  BY <1>8, <1>9, <1>19
<1>22. M.stakes = [L.stakes EXCEPT ![u][r] = @ - amount]
  BY <1>7, <1>19 DEF s
<1> QED BY <1>5, <1>17, <1>18, <1>20, <1>21, <1>22 DEF new, SlashedFrom
-----------------------------------------------------------------------------
(* The books. *)

\* What the accounts hold for one role.
Column(f, r) == [u \in Accounts |-> f[u][r]]
Stakes(L, r) == Column(L.stakes, r)
Boosts(L, r) == Column(L.boosted, r)

Accounted(L) ==
  \A r \in Roles :
    /\ Summable(Stakes(L, r)) /\ L.totalStakes[r] = Total(Stakes(L, r))
    /\ Summable(Boosts(L, r)) /\ L.totalBoosted[r] = Total(Boosts(L, r))

\* The wallets are natural numbers, and a payout has something left for its
\* recipient after fee and burn.
Payable(L) == L.wallet \in [Accounts -> Nat] /\ L.feePct + L.burnPct <= 100

Sound(L) == LedgerTypeOK(L) /\ Accounted(L) /\ Payable(L)

\* What the ledger owes, and what it holds beyond that.
Held(L) == Total(L.totalStakes) + Total(L.escrow) + L.rewardPool
Free(L) == L.balance - Held(L)
-----------------------------------------------------------------------------
LEMMA RolesFinite == IsFiniteSet(Roles)
<1>1. IsFiniteSet({"Agent"} \cup {"Validator"})
  BY FS_Singleton, FS_Union
<1>2. IsFiniteSet(({"Agent"} \cup {"Validator"}) \cup {"Platform"})
  BY <1>1, FS_Singleton, FS_Union
<1>3. Roles = ({"Agent"} \cup {"Validator"}) \cup {"Platform"}
  BY DEF Roles
<1> QED BY <1>2, <1>3

LEMMA TotalNat == ASSUME NEW f, Summable(f) PROVE Total(f) \in Nat
BY FS_CardinalityType DEF Summable, Total

LEMMA SoundSums ==
  ASSUME NEW L, Sound(L)
  PROVE  /\ L.totalStakes \in [Roles -> Nat] /\ Summable(L.totalStakes)
         /\ L.escrow \in [JobIds -> Nat] /\ Summable(L.escrow)
         /\ Total(L.totalStakes) \in Nat /\ Total(L.escrow) \in Nat
         /\ L.rewardPool \in Nat /\ L.balance \in Nat
         /\ Held(L) \in Nat /\ Free(L) \in Int
<1>1. L.totalStakes \in [Roles -> Nat]
  BY TotalNat DEF Sound, Accounted, LedgerTypeOK
<1>2. L.escrow \in [JobIds -> Nat] /\ L.rewardPool \in Nat /\ L.balance \in Nat
  BY DEF Sound, LedgerTypeOK
<1>3. Summable(L.totalStakes) /\ Summable(L.escrow)
  BY <1>1, <1>2, RolesFinite, LedgerAssumption, FiniteTable
<1>4. Total(L.totalStakes) \in Nat /\ Total(L.escrow) \in Nat
  BY <1>3, TotalNat
<1> QED BY <1>1, <1>2, <1>3, <1>4 DEF Held, Free

\* What a solvent ledger can pay: a stake, an escrow and the pool together.
LEMMA SolventCovers ==
  ASSUME NEW L, Sound(L), Free(L) >= 0, NEW u \in Accounts, NEW j \in JobIds
  PROVE  L.balance >= L.stakes[u]["Agent"] + L.escrow[j] + L.rewardPool
<1>1. /\ "Agent" \in Roles /\ Summable(Stakes(L, "Agent"))
      /\ Stakes(L, "Agent") \in [Accounts -> Nat]
      /\ L.totalStakes["Agent"] = Total(Stakes(L, "Agent"))
      /\ Stakes(L, "Agent")[u] = L.stakes[u]["Agent"]
  BY DEF Sound, Accounted, LedgerTypeOK, Stakes, Column, Roles
<1>2. L.stakes[u]["Agent"] <= L.totalStakes["Agent"] /\ L.stakes[u]["Agent"] \in Nat
  BY <1>1, TotalBounds
<1>3. L.totalStakes["Agent"] <= Total(L.totalStakes) /\ L.totalStakes["Agent"] \in Nat
  BY <1>1, SoundSums, TotalBounds
<1>4. L.escrow[j] <= Total(L.escrow) /\ L.escrow[j] \in Nat
  BY SoundSums, TotalBounds
<1> QED BY <1>2, <1>3, <1>4, SoundSums DEF Held, Free
-----------------------------------------------------------------------------
(* Changes of single fields. *)

\* Fields no sum is about.
Loose == LockFields \cup TokenFields
           \cup {"unbonds", "payoutPct", "minStake", "feePct", "burnPct", "treasuryOk", "unbondingPeriod"}

LEMMA LooseMoved ==
  ASSUME NEW L, Sound(L), NEW M, LedgerTypeOK(M), SameBut(M, L, Loose), Payable(M)
  PROVE  Sound(M) /\ Free(M) = Free(L) + M.balance - L.balance
<1>1. /\ M.stakes = L.stakes /\ M.totalStakes = L.totalStakes
      /\ M.boosted = L.boosted /\ M.totalBoosted = L.totalBoosted
      /\ M.escrow = L.escrow /\ M.rewardPool = L.rewardPool
  BY DEF SameBut, Loose, LockFields, TokenFields, LedgerFields
<1>2. Sound(M)
  BY <1>1 DEF Sound, Accounted, Stakes, Boosts, Column
<1> QED BY <1>1, <1>2, SoundSums DEF Held, Free

LEMMA EscrowMoved ==
  ASSUME NEW L, Sound(L), NEW M, LedgerTypeOK(M),
         SameBut(M, L, {"escrow", "rewardPool"} \cup TokenFields), Payable(M),
         NEW j \in JobIds, NEW n \in Nat, EscrowSet(M, L, j, n)
  PROVE  /\ Sound(M)
         /\ Free(M) = Free(L) + (M.balance - L.balance) - (n - L.escrow[j])
                        - (M.rewardPool - L.rewardPool)
<1>1. /\ M.stakes = L.stakes /\ M.totalStakes = L.totalStakes
      /\ M.boosted = L.boosted /\ M.totalBoosted = L.totalBoosted
  BY DEF SameBut, TokenFields, LedgerFields
<1>2. Sound(M)
  BY <1>1 DEF Sound, Accounted, Stakes, Boosts, Column
<1>3. L.escrow \in [JobIds -> Nat] /\ M.escrow \in [JobIds -> Nat]
  BY <1>2, SoundSums
<1>4. M.escrow = [L.escrow EXCEPT ![j] = n]
  BY <1>3 DEF EscrowSet
<1>5. Total(M.escrow) = Total(L.escrow) + n - L.escrow[j]
  BY <1>3, <1>4, SoundSums, TotalChange
<1>6. L.escrow[j] \in Nat
  BY <1>3
<1> QED BY <1>1, <1>2, <1>5, <1>6, SoundSums DEF Held, Free

\* The table of stakes f with one cell changed.
CellSet(f, u, r, n) == [f EXCEPT ![u][r] = n]

\* One cell of a table of stakes changes: its column changes by the difference.
LEMMA ColumnChange ==
  ASSUME NEW f \in [Accounts -> [Roles -> Nat]], NEW u \in Accounts, NEW r \in Roles,
         NEW n \in Nat, Summable(Column(f, r))
  PROVE  /\ Summable(Column(CellSet(f, u, r, n), r))
         /\ Total(Column(CellSet(f, u, r, n), r)) = Total(Column(f, r)) + n - f[u][r]
         /\ \A q \in Roles \ {r} : Column(CellSet(f, u, r, n), q) = Column(f, q)
<1> DEFINE c == Column(f, r)
           g == CellSet(f, u, r, n)
<1>1. c \in [Accounts -> Nat] /\ c[u] = f[u][r]
  BY DEF Column
<1>2. \A v \in Accounts : g[v][r] = IF v = u THEN n ELSE f[v][r]
  BY DEF CellSet
<1> HIDE DEF g
<1>3. /\ Column(g, r) \in [Accounts -> Nat]
      /\ \A v \in Accounts : Column(g, r)[v] = IF v = u THEN n ELSE c[v]
  BY <1>2 DEF Column
<1>5. \A q \in Roles \ {r} : \A v \in Accounts : g[v][q] = f[v][q]
  BY DEF CellSet, g
<1>6. \A q \in Roles \ {r} : Column(g, q) = Column(f, q)
  BY <1>5 DEF Column
<1> HIDE DEF c
<1>7. Summable(c)
  BY DEF c
<1>4. Column(g, r) = [c EXCEPT ![u] = n]
  BY <1>1, <1>3
<1>8. Summable([c EXCEPT ![u] = n]) /\ Total([c EXCEPT ![u] = n]) = Total(c) + n - c[u]
  BY <1>1, <1>7, TotalChange
<1> QED BY <1>1, <1>4, <1>6, <1>8 DEF c, g

LEMMA StakeMoved ==
  ASSUME NEW L, Sound(L), NEW u \in Accounts, NEW r \in Roles, NEW s \in Nat
  PROVE  LET S == SetStake(L, u, r, s) IN
         /\ Sound(S)
         /\ Free(S) = Free(L) + L.stakes[u][r] - s
<1> DEFINE S == SetStake(L, u, r, s)
           b == Pct(s, L.payoutPct[u])
<1>0. LedgerTypeOK(L) /\ L.stakes[u][r] \in Nat /\ L.boosted[u][r] \in Nat
  BY DEF Sound, LedgerTypeOK
<1>1. b \in Nat
  <2>1. L.payoutPct[u] \in 100..200
    BY <1>0 DEF LedgerTypeOK
  <2> QED BY <2>1, PctAtLeast
<1>2. LedgerTypeOK(S) /\ SameBut(S, L, StakeFields)
  BY <1>0, SetStakeEffect
<1>3. /\ S.stakes = CellSet(L.stakes, u, r, s)
      /\ S.totalStakes = [L.totalStakes EXCEPT ![r] = @ + s - L.stakes[u][r]]
      /\ S.boosted = CellSet(L.boosted, u, r, b)
      /\ S.totalBoosted = [L.totalBoosted EXCEPT ![r] = @ + b - L.boosted[u][r]]
  BY <1>0 DEF SetStake, CellSet, LedgerTypeOK, LedgerFields
<1> HIDE DEF S, b
<1>4. /\ L.stakes \in [Accounts -> [Roles -> Nat]] /\ L.boosted \in [Accounts -> [Roles -> Nat]]
      /\ L.totalStakes \in [Roles -> Int] /\ L.totalBoosted \in [Roles -> Int]
  BY <1>0 DEF LedgerTypeOK
<1>5. \A q \in Roles :
        /\ Summable(Stakes(L, q)) /\ L.totalStakes[q] = Total(Stakes(L, q))
        /\ Summable(Boosts(L, q)) /\ L.totalBoosted[q] = Total(Boosts(L, q))
  BY DEF Sound, Accounted
<1>6. /\ Summable(Column(L.stakes, r)) /\ Total(Column(L.stakes, r)) = L.totalStakes[r]
      /\ Summable(Column(L.boosted, r)) /\ Total(Column(L.boosted, r)) = L.totalBoosted[r]
  BY <1>5 DEF Stakes, Boosts
<1>7. /\ Summable(Column(CellSet(L.stakes, u, r, s), r))
      /\ Total(Column(CellSet(L.stakes, u, r, s), r)) = Total(Column(L.stakes, r)) + s - L.stakes[u][r]
      /\ \A q \in Roles \ {r} : Column(CellSet(L.stakes, u, r, s), q) = Column(L.stakes, q)
  BY <1>4, <1>6, ColumnChange
<1>8. /\ Summable(Stakes(S, r)) /\ Total(Stakes(S, r)) = L.totalStakes[r] + s - L.stakes[u][r]
      /\ \A q \in Roles \ {r} : Stakes(S, q) = Stakes(L, q)
  BY <1>3, <1>6, <1>7 DEF Stakes
<1>b. /\ Summable(Column(CellSet(L.boosted, u, r, b), r))
      /\ Total(Column(CellSet(L.boosted, u, r, b), r)) = Total(Column(L.boosted, r)) + b - L.boosted[u][r]
      /\ \A q \in Roles \ {r} : Column(CellSet(L.boosted, u, r, b), q) = Column(L.boosted, q)
  BY <1>1, <1>4, <1>6, ColumnChange
<1>9. /\ Summable(Boosts(S, r)) /\ Total(Boosts(S, r)) = L.totalBoosted[r] + b - L.boosted[u][r]
      /\ \A q \in Roles \ {r} : Boosts(S, q) = Boosts(L, q)
  BY <1>3, <1>6, <1>b DEF Boosts
<1>10. Accounted(S)
  <2> SUFFICES ASSUME NEW q \in Roles
               PROVE  /\ Summable(Stakes(S, q)) /\ S.totalStakes[q] = Total(Stakes(S, q))
                      /\ Summable(Boosts(S, q)) /\ S.totalBoosted[q] = Total(Boosts(S, q))
    BY DEF Accounted
  <2>1. CASE q = r
    BY <1>3, <1>4, <1>8, <1>9, <2>1
  <2>2. CASE q # r
    BY <1>3, <1>4, <1>5, <1>8, <1>9, <2>2
  <2> QED BY <2>1, <2>2
<1>11. /\ S.wallet = L.wallet /\ S.feePct = L.feePct /\ S.burnPct = L.burnPct
       /\ S.balance = L.balance /\ S.escrow = L.escrow /\ S.rewardPool = L.rewardPool
  BY <1>2 DEF SameBut, StakeFields, LedgerFields
<1>12. Sound(S)
  BY <1>2, <1>10, <1>11 DEF Sound, Payable
<1>13. Total(S.totalStakes) = Total(L.totalStakes) + s - L.stakes[u][r]
  <2>1. S.totalStakes[r] \in Nat /\ S.totalStakes[r] = L.totalStakes[r] + s - L.stakes[u][r]
    BY <1>3, <1>4, <1>12, SoundSums
  <2>2. S.totalStakes = [L.totalStakes EXCEPT ![r] = S.totalStakes[r]]
    BY <1>3, <1>4
  <2>3. Total(S.totalStakes) = Total(L.totalStakes) + S.totalStakes[r] - L.totalStakes[r]
    BY <2>1, <2>2, SoundSums, TotalChange
  <2>4. L.totalStakes[r] \in Nat
    BY SoundSums
  <2> QED BY <1>0, <2>1, <2>3, <2>4, SoundSums
<1>14. Free(S) = Free(L) + L.stakes[u][r] - s
  BY <1>0, <1>11, <1>12, <1>13, SoundSums DEF Held, Free
<1> QED BY <1>12, <1>14 DEF S
-----------------------------------------------------------------------------
(* Token transfers. *)

\* M is sound, and holds d more than L beyond what it owes.
Books(M, L, d) == Sound(M) /\ Free(M) = Free(L) + d

LEMMA SoundParts ==
  ASSUME NEW L, Sound(L)
  PROVE  /\ LedgerTypeOK(L) /\ DOMAIN L = LedgerFields
         /\ L.wallet \in [Accounts -> Nat] /\ DOMAIN L.wallet = Accounts
         /\ L.feePct \in 0..100 /\ L.burnPct \in 0..100 /\ L.feePct + L.burnPct <= 100
         /\ L.balance \in Nat /\ L.rewardPool \in Nat /\ L.escrow \in [JobIds -> Nat]
         /\ L.stakes \in [Accounts -> [Roles -> Nat]]
         /\ L.payoutPct \in [Accounts -> 100..200]
BY DEF Sound, LedgerTypeOK, Payable

LEMMA BooksChain ==
  ASSUME NEW L, Sound(L), NEW d \in Int, NEW e \in Int, NEW N, Books(N, L, d),
         NEW M, Books(M, N, e)
  PROVE  Books(M, L, d + e)
BY SoundSums DEF Books

LEMMA PayBooks ==
  ASSUME NEW L, Sound(L), NEW to, NEW amount \in Nat, L.balance >= amount
  PROVE  Books(Pay(L, to, amount), L, 0 - amount) /\ Pay(L, to, amount).balance = L.balance - amount
<1> DEFINE M == Pay(L, to, amount)
<1>1. LedgerTypeOK(M) /\ SameBut(M, L, TokenFields) /\ M.balance = L.balance - amount
  BY SoundParts, PayType, PayEffect
<1>2. M.wallet = Credit(L.wallet, to, amount)
  BY SoundParts DEF Pay, LedgerFields
<1> HIDE DEF M
<1>3. M.wallet \in [Accounts -> Nat]
  BY <1>2, SoundParts DEF Credit
<1>4. M.feePct = L.feePct /\ M.burnPct = L.burnPct
  BY <1>1 DEF SameBut, TokenFields, LedgerFields
<1>5. Payable(M)
  BY <1>3, <1>4, SoundParts DEF Payable
<1>6. SameBut(M, L, Loose)
  BY <1>1 DEF SameBut, Loose
<1>7. Sound(M) /\ Free(M) = Free(L) + M.balance - L.balance
  BY <1>1, <1>5, <1>6, LooseMoved
<1> QED BY <1>1, <1>7, SoundParts, SoundSums DEF Books, M

LEMMA CollectBooks ==
  ASSUME NEW L, Sound(L), NEW from \in Accounts, NEW amount \in Nat, CanCollect(L, from, amount)
  PROVE  Books(Collect(L, from, amount), L, amount)
<1> DEFINE M == Collect(L, from, amount)
<1>1. LedgerTypeOK(M) /\ SameBut(M, L, TokenFields)
  BY SoundParts, CollectEffect
<1>2. M.balance = L.balance + amount /\ M.wallet = [L.wallet EXCEPT ![from] = @ - amount]
  BY SoundParts DEF Collect, LedgerFields
<1> HIDE DEF M
<1>3. M.wallet \in [Accounts -> Nat]
  <2>1. L.wallet[from] - amount \in Nat
    BY SoundParts DEF CanCollect
  <2> QED BY <1>2, <2>1, SoundParts
<1>4. M.feePct = L.feePct /\ M.burnPct = L.burnPct
  BY <1>1 DEF SameBut, TokenFields, LedgerFields
<1>5. Payable(M)
  BY <1>3, <1>4, SoundParts DEF Payable
<1>6. SameBut(M, L, Loose)
  BY <1>1 DEF SameBut, Loose
<1>7. Sound(M) /\ Free(M) = Free(L) + M.balance - L.balance
  BY <1>1, <1>5, <1>6, LooseMoved
<1> QED BY <1>2, <1>7, SoundParts, SoundSums DEF Books, M

\* Only the wallets gain, whatever the shares.
LEMMA PaySharesBooks ==
  ASSUME NEW L, Sound(L), NEW vals \in Seq(Accounts), NEW shares \in [DOMAIN vals -> Nat]
  PROVE  Books(PayShares(L, vals, shares), L, 0)
<1> DEFINE M == PayShares(L, vals, shares)
           Of(u) == {i \in DOMAIN vals : vals[i] = u}
           part(u) == [i \in Of(u) |-> shares[i]]
<1>1. LedgerTypeOK(M) /\ SameBut(M, L, {"wallet"})
  BY SoundParts, PaySharesEffect
<1>2. M.wallet = [u \in Accounts |-> L.wallet[u] + Total(part(u))]
  BY SoundParts DEF PayShares, LedgerFields
<1> HIDE DEF M
<1>3. ASSUME NEW u \in Accounts PROVE Total(part(u)) \in Nat
  <2>1. IsFiniteSet(DOMAIN vals)
    BY FS_Interval
  <2>2. IsFiniteSet(Of(u))
    BY <2>1, FS_Subset
  <2>3. part(u) \in [Of(u) -> Nat]
    OBVIOUS
  <2> HIDE DEF part, Of
  <2>4. Summable(part(u))
    BY <2>2, <2>3, FiniteTable
  <2> QED BY <2>4, TotalNat
<1> HIDE DEF part
<1>4. M.wallet \in [Accounts -> Nat]
  BY <1>2, <1>3, SoundParts
<1>5. M.feePct = L.feePct /\ M.burnPct = L.burnPct /\ M.balance = L.balance
  BY <1>1 DEF SameBut, LedgerFields
<1>6. Payable(M)
  BY <1>4, <1>5, SoundParts DEF Payable
<1>7. SameBut(M, L, Loose)
  BY <1>1 DEF SameBut, Loose, TokenFields
<1>8. Sound(M) /\ Free(M) = Free(L) + M.balance - L.balance
  BY <1>1, <1>6, <1>7, LooseMoved
<1> QED BY <1>5, <1>8, SoundParts, SoundSums DEF Books, M
-----------------------------------------------------------------------------
(* Stakes and locks: deposits and withdrawals move what is owed with what  *)
(* is held.                                                                *)

\* Fields of the locks and pending withdrawals do not count.
LEMMA LocksBooks ==
  ASSUME NEW L, Sound(L), NEW M, LedgerTypeOK(M), SameBut(M, L, LockFields \cup {"unbonds"})
  PROVE  Books(M, L, 0)
<1>1. M.wallet = L.wallet /\ M.feePct = L.feePct /\ M.burnPct = L.burnPct /\ M.balance = L.balance
  BY DEF SameBut, LockFields, LedgerFields
<1>2. Payable(M) /\ SameBut(M, L, Loose)
  BY <1>1, SoundParts DEF Payable, SameBut, Loose
<1>3. Sound(M) /\ Free(M) = Free(L) + M.balance - L.balance
  BY <1>2, LooseMoved
<1> QED BY <1>1, <1>3, SoundParts, SoundSums DEF Books

LEMMA DepositBooks ==
  ASSUME NEW L, Sound(L), NEW u \in Accounts, NEW r \in Roles, NEW amount \in Nat,
         CanDeposit(L, u, r, amount)
  PROVE  Books(Deposit(L, u, r, amount), L, 0)
<1> DEFINE s == L.stakes[u][r] + amount
           S == SetStake(L, u, r, s)
<1>1. L.stakes[u][r] \in Nat /\ s \in Nat
  BY SoundParts
<1>2. Sound(S) /\ Free(S) = Free(L) + L.stakes[u][r] - s
  BY <1>1, StakeMoved
<1>3. SameBut(S, L, StakeFields)
  BY <1>1, SoundParts, SetStakeEffect
<1> HIDE DEF S
<1>4. S.wallet = L.wallet
  BY <1>3 DEF SameBut, StakeFields, LedgerFields
<1>5. CanCollect(S, u, amount)
  BY <1>4 DEF CanCollect, CanDeposit
<1>6. Books(Collect(S, u, amount), S, amount)
  BY <1>2, <1>5, CollectBooks
<1>7. Books(Collect(S, u, amount), L, 0)
  BY <1>1, <1>2, <1>6, SoundSums DEF Books
<1> QED BY <1>7 DEF Deposit, S

LEMMA WithdrawBooks ==
  ASSUME NEW L, Sound(L), NEW u \in Accounts, NEW r \in Roles, NEW amount \in Nat,
         NEW now \in Nat, CanWithdraw(L, u, r, amount, now)
  PROVE  Books(Withdraw(L, u, r, amount, now), L, 0)
<1> DEFINE U == IF LockExpired(L, u, now)
                THEN [L EXCEPT !.locked[u] = 0, !.unlockTime[u] = 0]
                ELSE L
           s == L.stakes[u][r] - amount
           S == SetStake(U, u, r, s)
           M == Pay(S, u, amount)
<1>1. LedgerTypeOK(U) /\ SameBut(U, L, LockFields)
  <2>0. LedgerTypeOK(L)
    BY SoundParts
  <2>1. CASE LockExpired(L, u, now)
    <3>1. /\ SameBut(U, L, LockFields)
          /\ U.locked = [L.locked EXCEPT ![u] = 0]
          /\ U.unlockTime = [L.unlockTime EXCEPT ![u] = 0]
      BY <2>0, <2>1 DEF LedgerTypeOK, SameBut, LockFields, LedgerFields
    <3> QED BY <2>0, <3>1 DEF LedgerTypeOK, SameBut, LockFields, LedgerFields
  <2>2. CASE ~LockExpired(L, u, now)
    BY <2>0, <2>2 DEF LedgerTypeOK, SameBut
  <2> QED BY <2>1, <2>2
<1>2. M = Withdraw(L, u, r, amount, now)
  BY DEF Withdraw
<1> HIDE DEF U
<1>3. Books(U, L, 0) /\ U.stakes = L.stakes /\ U.balance = L.balance
  <2>1. SameBut(U, L, LockFields \cup {"unbonds"})
    BY <1>1 DEF SameBut
  <2> QED BY <1>1, <2>1, LocksBooks DEF SameBut, LockFields, LedgerFields
<1>4. L.stakes[u][r] \in Nat /\ s \in Nat /\ U.stakes[u][r] - s = amount
  <2>1. L.stakes[u][r] \in Nat
    BY SoundParts
  <2>2. s >= 0
    BY DEF CanWithdraw, CanTake
  <2> QED BY <1>3, <2>1, <2>2
<1> HIDE DEF s
<1>5. Sound(S) /\ Free(S) = Free(U) + U.stakes[u][r] - s
  BY <1>3, <1>4, StakeMoved DEF Books
<1>6. SameBut(S, U, StakeFields)
  BY <1>1, <1>4, SetStakeEffect
<1> HIDE DEF S
<1>7. S.balance = L.balance
  BY <1>3, <1>6 DEF SameBut, StakeFields, LedgerFields
<1>8. Books(M, S, 0 - amount)
  BY <1>5, <1>7, PayBooks DEF CanWithdraw
<1>9. Books(M, L, 0)
  <2>1. U.stakes[u][r] = s + amount
    BY <1>3, <1>4
  <2>2. Free(L) \in Int /\ Free(U) \in Int
    BY <1>3, SoundSums DEF Books
  <2> QED BY <1>3, <1>4, <1>5, <1>8, <2>1, <2>2 DEF Books
<1> QED BY <1>2, <1>9

LEMMA FinalizeWithdrawBooks ==
  ASSUME NEW L, Sound(L), NEW u \in Accounts, NEW r \in Roles, NEW now \in Nat,
         CanFinalizeWithdraw(L, u, r, now)
  PROVE  Books(FinalizeWithdraw(L, u, r, now), L, 0)
<1> DEFINE N == [L EXCEPT !.unbonds[u] = NoUnbond]
           amount == L.unbonds[u].amt
           M == Withdraw(N, u, r, amount, now)
<1>0. LedgerTypeOK(L)
  BY SoundParts
<1>1. SameBut(N, L, {"unbonds"}) /\ N.unbonds = [L.unbonds EXCEPT ![u] = NoUnbond]
  BY <1>0 DEF LedgerTypeOK, SameBut, LedgerFields
<1>2. LedgerTypeOK(N) /\ amount \in Nat
  BY <1>0, <1>1 DEF LedgerTypeOK, SameBut, LedgerFields, NoUnbond
<1>3. M = FinalizeWithdraw(L, u, r, now)
  BY DEF FinalizeWithdraw
<1> HIDE DEF N
<1>4. N.locked = L.locked /\ N.unlockTime = L.unlockTime /\ N.stakes = L.stakes
      /\ N.minStake = L.minStake /\ N.balance = L.balance
  BY <1>1 DEF SameBut, LedgerFields
<1>5. CanWithdraw(N, u, r, amount, now)
  BY <1>4 DEF CanFinalizeWithdraw, CanWithdraw, CanTake, TotalStakeOf
<1> HIDE DEF amount
<1>6. Books(N, L, 0)
  <2>1. SameBut(N, L, LockFields \cup {"unbonds"})
    BY <1>1 DEF SameBut
  <2> QED BY <1>2, <2>1, LocksBooks
<1>7. Books(M, N, 0)
  BY <1>2, <1>5, <1>6, WithdrawBooks DEF Books
<1>8. Books(M, L, 0)
  <2>1. Free(L) \in Int
    BY SoundSums
  <2> QED BY <1>6, <1>7, <2>1 DEF Books
<1> QED BY <1>3, <1>8

\* A resynchronisation moves the boosted stake of one role and its total.
LEMMA SyncBooks ==
  ASSUME NEW L, Sound(L), NEW u \in Accounts, NEW r \in Roles
  PROVE  Books(SyncBoosted(L, u, r), L, 0)
<1> DEFINE M == SyncBoosted(L, u, r)
           b == Pct(L.stakes[u][r], L.payoutPct[u])
<1>0. /\ L.stakes[u][r] \in Nat /\ L.boosted[u][r] \in Nat /\ L.payoutPct[u] \in 100..200
      /\ L.boosted \in [Accounts -> [Roles -> Nat]] /\ L.totalBoosted \in [Roles -> Int]
  BY SoundParts DEF LedgerTypeOK
<1>1. b \in Nat
  BY <1>0, PctAtLeast
<1>2. LedgerTypeOK(M) /\ SameBut(M, L, {"boosted", "totalBoosted"})
  BY SoundParts, SyncBoostedType
<1>3. /\ M.boosted = CellSet(L.boosted, u, r, b)
      /\ M.totalBoosted = [L.totalBoosted EXCEPT ![r] = @ + b - L.boosted[u][r]]
  BY SoundParts DEF SyncBoosted, CellSet, LedgerFields
<1> HIDE DEF M, b
<1>4. /\ M.stakes = L.stakes /\ M.totalStakes = L.totalStakes /\ M.wallet = L.wallet
      /\ M.feePct = L.feePct /\ M.burnPct = L.burnPct /\ M.balance = L.balance
      /\ M.escrow = L.escrow /\ M.rewardPool = L.rewardPool
  BY <1>2 DEF SameBut, LedgerFields
<1>5. \A q \in Roles :
        /\ Summable(Stakes(L, q)) /\ L.totalStakes[q] = Total(Stakes(L, q))
        /\ Summable(Boosts(L, q)) /\ L.totalBoosted[q] = Total(Boosts(L, q))
  BY DEF Sound, Accounted
<1>6. Summable(Column(L.boosted, r)) /\ Total(Column(L.boosted, r)) = L.totalBoosted[r]
  BY <1>5 DEF Boosts
<1>7. /\ Summable(Column(CellSet(L.boosted, u, r, b), r))
      /\ Total(Column(CellSet(L.boosted, u, r, b), r)) = Total(Column(L.boosted, r)) + b - L.boosted[u][r]
      /\ \A q \in Roles \ {r} : Column(CellSet(L.boosted, u, r, b), q) = Column(L.boosted, q)
  BY <1>0, <1>1, <1>6, ColumnChange
<1>8. /\ Summable(Boosts(M, r)) /\ Total(Boosts(M, r)) = L.totalBoosted[r] + b - L.boosted[u][r]
      /\ \A q \in Roles \ {r} : Boosts(M, q) = Boosts(L, q)
  BY <1>3, <1>6, <1>7 DEF Boosts
<1>9. Accounted(M)
  <2> SUFFICES ASSUME NEW q \in Roles
               PROVE  /\ Summable(Stakes(M, q)) /\ M.totalStakes[q] = Total(Stakes(M, q))
                      /\ Summable(Boosts(M, q)) /\ M.totalBoosted[q] = Total(Boosts(M, q))
    BY DEF Accounted
  <2>1. Stakes(M, q) = Stakes(L, q)
    BY <1>4 DEF Stakes
  <2>2. CASE q = r
    BY <1>0, <1>3, <1>4, <1>5, <1>8, <2>1, <2>2
  <2>3. CASE q # r
    BY <1>0, <1>3, <1>4, <1>5, <1>8, <2>1, <2>3
  <2> QED BY <2>2, <2>3
<1>10. Sound(M)
  BY <1>2, <1>4, <1>9 DEF Sound, Payable
<1>11. Free(M) = Free(L)
  BY <1>4 DEF Free, Held
<1> QED BY <1>10, <1>11, SoundSums DEF Books, M
-----------------------------------------------------------------------------
(* Job escrow: what leaves an escrow or the reward pool is paid to somebody. *)

LEMMA LockRewardBooks ==
  ASSUME NEW L, Sound(L), NEW j \in JobIds, NEW from \in Accounts, NEW amount \in Nat,
         CanLockReward(L, from, amount)
  PROVE  Books(LockReward(L, j, from, amount), L, 0)
<1> DEFINE C == Collect(L, from, amount)
           M == LockReward(L, j, from, amount)
<1>1. Books(C, L, amount)
  BY CollectBooks DEF CanLockReward
<1>2. SameBut(C, L, TokenFields)
  BY SoundParts, CollectEffect
<1>3. LedgerTypeOK(M) /\ EscrowSet(M, L, j, L.escrow[j] + amount)
  BY SoundParts, LockRewardEffect
<1>4. M = [C EXCEPT !.escrow[j] = @ + amount]
  BY DEF LockReward
<1> HIDE DEF C, M
<1>5. C.escrow = L.escrow /\ C.rewardPool = L.rewardPool
  BY <1>2 DEF SameBut, TokenFields, LedgerFields
<1>6. /\ SameBut(M, C, {"escrow"}) /\ M.wallet = C.wallet /\ M.feePct = C.feePct
      /\ M.burnPct = C.burnPct /\ M.balance = C.balance /\ M.rewardPool = C.rewardPool
  BY <1>2, <1>4 DEF SameBut, LedgerFields
<1>7. Payable(M) /\ SameBut(M, C, {"escrow", "rewardPool"} \cup TokenFields)
  BY <1>1, <1>6, SoundParts DEF Books, Payable, SameBut
<1> DEFINE n == L.escrow[j] + amount
<1>8. EscrowSet(M, C, j, n)
  BY <1>3, <1>5 DEF EscrowSet
<1>9. L.escrow[j] \in Nat /\ n \in Nat /\ n - L.escrow[j] = amount
  BY SoundParts
<1> HIDE DEF n
<1>10. /\ Sound(M)
       /\ Free(M) = Free(C) + (M.balance - C.balance) - (n - C.escrow[j])
                      - (M.rewardPool - C.rewardPool)
  BY <1>1, <1>3, <1>7, <1>8, <1>9, EscrowMoved DEF Books
<1>11. /\ Free(L) \in Int /\ C.balance \in Nat /\ C.rewardPool \in Nat
  BY <1>1, SoundSums DEF Books
<1>12. Free(M) = Free(L) + 0
  BY <1>1, <1>5, <1>6, <1>9, <1>10, <1>11 DEF Books
<1> QED BY <1>10, <1>12 DEF Books, M

\* Tokens go out of an escrow, the reward pool and the balance.
LEMMA EscrowDrawn ==
  ASSUME NEW L, Sound(L), NEW j \in JobIds, NEW n \in Nat, NEW p \in Nat, NEW gone \in Nat,
         L.balance >= gone,
         NEW E, SameBut(E, L, {"escrow", "rewardPool", "balance"}),
         E.escrow = [L.escrow EXCEPT ![j] = n], E.rewardPool = p, E.balance = L.balance - gone
  PROVE  /\ Sound(E)
         /\ Free(E) = Free(L) - gone - (n - L.escrow[j]) - (p - L.rewardPool)
<1>0. L.escrow[j] \in Nat /\ L.balance \in Nat /\ L.rewardPool \in Nat /\ Free(L) \in Int
  BY SoundParts, SoundSums
<1>1. /\ DOMAIN E = LedgerFields /\ E.wallet = L.wallet
      /\ E.feePct = L.feePct /\ E.burnPct = L.burnPct
  BY DEF SameBut, LedgerFields
<1>2. E.escrow \in [JobIds -> Nat] /\ EscrowSet(E, L, j, n)
  BY SoundParts DEF EscrowSet
<1>3. E.balance \in Nat
  BY <1>0
<1>4. LedgerTypeOK(E)
  BY <1>2, <1>3, SoundParts DEF SameBut, LedgerTypeOK, LedgerFields
<1>5. Payable(E) /\ SameBut(E, L, {"escrow", "rewardPool"} \cup TokenFields)
  BY <1>1, SoundParts DEF Payable, SameBut, TokenFields
<1>6. /\ Sound(E)
      /\ Free(E) = Free(L) + (E.balance - L.balance) - (n - L.escrow[j])
                     - (E.rewardPool - L.rewardPool)
  BY <1>2, <1>4, <1>5, EscrowMoved
<1>7. E.balance - L.balance = 0 - gone /\ E.rewardPool - L.rewardPool = p - L.rewardPool
  BY <1>0
<1> QED BY <1>0, <1>6, <1>7

\* Two payments out of what an escrow and the reward pool gave up, and what went
\* to the fee pool or was burned.
LEMMA EscrowPaid ==
  ASSUME NEW L, Sound(L), NEW j \in JobIds, NEW n \in Nat, NEW p \in Nat, NEW gone \in Nat,
         NEW a, NEW x \in Nat, NEW b, NEW y \in Nat, L.balance >= gone + x + y,
         gone + x + y = L.escrow[j] - n + L.rewardPool - p,
         NEW E, SameBut(E, L, {"escrow", "rewardPool", "balance"}),
         E.escrow = [L.escrow EXCEPT ![j] = n], E.rewardPool = p, E.balance = L.balance - gone
  PROVE  Books(Pay(Pay(E, a, x), b, y), L, 0)
<1>0. L.escrow[j] \in Nat /\ L.balance \in Nat /\ L.rewardPool \in Nat /\ Free(L) \in Int
  BY SoundParts, SoundSums
<1>1. L.balance >= gone
  BY <1>0
<1>6. /\ Sound(E)
      /\ Free(E) = Free(L) - gone - (n - L.escrow[j]) - (p - L.rewardPool)
  BY <1>1, EscrowDrawn
<1>7. Free(E) = Free(L) + x + y
  BY <1>0, <1>6
<1> DEFINE P == Pay(E, a, x)
<1>8. E.balance >= x
  BY <1>0
<1>9. Books(P, E, 0 - x) /\ P.balance = E.balance - x
  BY <1>6, <1>8, PayBooks
<1> HIDE DEF P
<1>10. P.balance >= y
  BY <1>0, <1>9
<1>11. Books(Pay(P, b, y), P, 0 - y)
  BY <1>9, <1>10, PayBooks DEF Books
<1> DEFINE M == Pay(P, b, y)
<1> HIDE DEF M
<1>12. Free(M) = Free(L) + 0
  BY <1>0, <1>7, <1>9, <1>11 DEF Books, M
<1>13. Books(M, L, 0)
  BY <1>11, <1>12 DEF Books, M
<1> QED BY <1>13 DEF M, P

LEMMA ReleaseRewardBooks ==
  ASSUME NEW L, Sound(L), NEW j \in JobIds, NEW employer, NEW to, NEW amount \in Nat,
         CanReleaseReward(L, j, to, amount)
  PROVE  Books(ReleaseReward(L, j, employer, to, amount), L, 0)
<1> DEFINE modified == Pct(amount, PayoutPctOf(L, to))
           s == ReleaseSplit(L, j, to, amount)
           toEmployer == IF FeePoolSet THEN 0 ELSE s.fee
           gone == s.total - s.payout - toEmployer
           E == [L EXCEPT !.escrow[j] = @ - s.total, !.balance = @ - gone]
           M == Pay(Pay(E, employer, toEmployer), to, s.payout)
           fee == Pct(modified, L.feePct)
           burn == Pct(modified, L.burnPct)
           deficit == Monus(modified, L.escrow[j])
<1>1. modified \in Nat /\ L.escrow[j] \in Nat /\ L.balance \in Nat /\ L.rewardPool \in Nat
  <2>1. PayoutPctOf(L, to) \in 100..200
    BY SoundParts, PayoutPctType
  <2> QED BY <2>1, PctAtLeast, SoundParts
<1> HIDE DEF modified
<1>2. fee \in Nat /\ burn \in Nat /\ fee + burn <= modified
  <2>1. fee \in 0..modified /\ burn \in 0..modified
    BY <1>1, SoundParts, PctAtMost
  <2>2. fee + burn <= modified
    BY <1>1, SoundParts, PctSum
  <2> QED BY <1>1, <2>1, <2>2
<1> HIDE DEF fee, burn
<1>3. deficit \in Nat /\ modified - deficit \in Nat /\ modified - deficit <= L.escrow[j]
  BY <1>1 DEF Monus
<1>4. /\ s.total = modified - deficit
      /\ s.payout = modified - fee - burn
      /\ s.fee = fee - Lesser(deficit - Lesser(deficit, burn), fee)
      /\ s.short = (deficit > fee + burn)
  BY DEF ReleaseSplit, modified, fee, burn
<1>5. ~s.short /\ L.balance >= s.total
  BY DEF CanReleaseReward
<1>6. M = ReleaseReward(L, j, employer, to, amount)
  BY DEF ReleaseReward
<1> HIDE DEF s, deficit
<1>7. /\ s.total \in Nat /\ s.payout \in Nat /\ s.fee \in Nat
      /\ s.payout + s.fee <= s.total
  <2>0. ~(deficit > fee + burn)
    BY <1>4, <1>5, Zenon
  <2>1. deficit <= fee + burn
    BY <1>2, <1>3, <2>0
  <2>2. s.total = modified - deficit /\ s.payout = modified - fee - burn
    BY <1>4
  <2>3. CASE deficit <= burn
    <3>1. s.fee = fee
      BY <1>2, <1>3, <1>4, <2>3 DEF Lesser
    <3> QED BY <1>1, <1>2, <1>3, <2>2, <2>3, <3>1
  <2>4. CASE deficit > burn
    <3>1. s.fee = fee - (deficit - burn)
      BY <1>2, <1>3, <1>4, <2>1, <2>4 DEF Lesser
    <3> QED BY <1>1, <1>2, <1>3, <2>1, <2>2, <2>4, <3>1
  <2> QED BY <1>2, <1>3, <2>3, <2>4
<1>8. toEmployer \in Nat /\ toEmployer <= s.fee
  BY <1>7
<1> HIDE DEF toEmployer
<1>9. gone \in Nat /\ gone + toEmployer + s.payout = s.total
  BY <1>7, <1>8
<1> HIDE DEF gone
<1>10. /\ SameBut(E, L, {"escrow", "rewardPool", "balance"})
       /\ E.escrow = [L.escrow EXCEPT ![j] = L.escrow[j] - s.total]
       /\ E.rewardPool = L.rewardPool
       /\ E.balance = L.balance - gone
  <2>1. SameBut(E, L, {"escrow", "rewardPool", "balance"})
    BY SoundParts DEF SameBut, LedgerFields
  <2>2. E.escrow = [L.escrow EXCEPT ![j] = L.escrow[j] - s.total]
    BY SoundParts
  <2>3. E.rewardPool = L.rewardPool /\ E.balance = L.balance - gone
    BY SoundParts
  <2> QED BY <2>1, <2>2, <2>3
<1> HIDE DEF E
<1>11. L.escrow[j] - s.total \in Nat
  BY <1>1, <1>3, <1>4
<1>12. gone + toEmployer + s.payout = L.escrow[j] - (L.escrow[j] - s.total) + L.rewardPool - L.rewardPool
  BY <1>1, <1>7, <1>9
<1>13. L.balance >= gone + toEmployer + s.payout
  BY <1>5, <1>9
<1>14. Books(M, L, 0)
  BY <1>1, <1>7, <1>8, <1>9, <1>10, <1>11, <1>12, <1>13, EscrowPaid
<1> QED BY <1>6, <1>14

LEMMA FinalizeFundsBooks ==
  ASSUME NEW L, Sound(L), NEW j \in JobIds, NEW employer, NEW payee,
         NEW pct \in 100..200, NEW reward \in Nat, NEW vr \in Nat, NEW fee \in Nat,
         NEW pool \in BOOLEAN, CanFinalizeJobFunds(L, j, pct, reward, vr, fee)
  PROVE  Books(FinalizeJobFunds(L, j, employer, payee, pct, reward, vr, fee, pool), L, 0)
<1> DEFINE s == FinalizeSplit(L, j, pct, reward, vr, fee)
           toEmployer == IF pool THEN 0 ELSE s.fee
           gone == s.modified - s.payout + s.fee - toEmployer
           E == [L EXCEPT !.escrow[j] = s.left - s.surplus,
                          !.rewardPool = @ - s.extra + s.surplus,
                          !.balance = @ - gone]
           M == Pay(Pay(E, payee, s.payout), employer, toEmployer)
           deficit == Monus(reward + fee, L.escrow[j] - vr)
<1>1. L.escrow[j] \in Nat /\ L.balance \in Nat /\ L.rewardPool \in Nat /\ L.burnPct \in 0..100
  BY SoundParts
<1>2. deficit \in Nat /\ deficit = IF reward + fee > L.escrow[j] - vr
                                   THEN reward + fee - (L.escrow[j] - vr) ELSE 0
  BY <1>1 DEF Monus
<1> HIDE DEF deficit
<1>3. /\ s.available = L.escrow[j] - vr
      /\ s.fee = fee - Lesser(deficit, fee)
      /\ s.spentReward = reward - Monus(deficit, fee)
      /\ s.left = L.escrow[j] - s.spentReward - s.fee
      /\ s.surplus = Monus(s.left, vr)
      /\ s.modified = Pct(s.spentReward, pct)
      /\ s.payout = s.modified - Pct(s.modified, L.burnPct)
      /\ s.extra = Monus(s.modified, s.spentReward)
  BY DEF FinalizeSplit, deficit, BonusOf
<1>4. /\ s.available >= 0
      /\ s.spentReward >= 0
      /\ L.rewardPool >= s.extra
      /\ L.balance >= s.modified + s.fee
  BY DEF CanFinalizeJobFunds
<1>m. M = FinalizeJobFunds(L, j, employer, payee, pct, reward, vr, fee, pool)
  BY DEF FinalizeJobFunds
<1> HIDE DEF s
<1>5. s.fee \in Nat /\ s.spentReward \in Nat
  BY <1>2, <1>3, <1>4 DEF Monus, Lesser
<1>6. s.left \in Nat /\ s.left >= vr
  BY <1>1, <1>2, <1>3, <1>4 DEF Monus, Lesser
<1>7. s.surplus \in Nat /\ s.left - s.surplus = vr
  BY <1>3, <1>6 DEF Monus
<1>8. s.modified \in Nat /\ s.modified >= s.spentReward
  BY <1>3, <1>5, PctAtLeast
<1>9. s.payout \in Nat /\ s.payout <= s.modified
  <2>1. Pct(s.modified, L.burnPct) \in 0..s.modified
    BY <1>1, <1>8, PctAtMost
  <2> QED BY <1>3, <1>8, <2>1
<1>10. s.extra \in Nat /\ s.extra = s.modified - s.spentReward
  BY <1>3, <1>5, <1>8 DEF Monus
<1>11. toEmployer \in Nat /\ toEmployer <= s.fee
  BY <1>5
<1> HIDE DEF toEmployer
<1>12. gone \in Nat /\ gone + s.payout + toEmployer = s.modified + s.fee
  BY <1>5, <1>8, <1>9, <1>11
<1> HIDE DEF gone
<1>13. /\ SameBut(E, L, {"escrow", "rewardPool", "balance"})
       /\ E.escrow = [L.escrow EXCEPT ![j] = s.left - s.surplus]
       /\ E.rewardPool = L.rewardPool - s.extra + s.surplus
       /\ E.balance = L.balance - gone
  <2>1. SameBut(E, L, {"escrow", "rewardPool", "balance"})
    BY SoundParts DEF SameBut, LedgerFields
  <2>2. E.escrow = [L.escrow EXCEPT ![j] = s.left - s.surplus]
    BY SoundParts
  <2>3. E.rewardPool = L.rewardPool - s.extra + s.surplus /\ E.balance = L.balance - gone
    BY SoundParts
  <2> QED BY <2>1, <2>2, <2>3
<1> HIDE DEF E
<1>14. E.escrow = [L.escrow EXCEPT ![j] = vr]
  BY <1>7, <1>13
<1>15. E.rewardPool \in Nat
  BY <1>1, <1>4, <1>7, <1>10, <1>13
<1>16. gone + s.payout + toEmployer = L.escrow[j] - vr + L.rewardPool - E.rewardPool
  <2>1. s.surplus = L.escrow[j] - s.spentReward - s.fee - vr
    BY <1>1, <1>3, <1>5, <1>6, <1>7
  <2>2. L.rewardPool - E.rewardPool = s.extra - s.surplus
    BY <1>1, <1>7, <1>10, <1>13, <1>15
  <2> QED BY <1>1, <1>5, <1>7, <1>8, <1>10, <1>12, <1>15, <2>1, <2>2
<1>17. L.balance >= gone + s.payout + toEmployer
  BY <1>4, <1>12
<1>18. Books(M, L, 0)
  BY <1>9, <1>11, <1>12, <1>13, <1>14, <1>15, <1>16, <1>17, EscrowPaid
<1> QED BY <1>m, <1>18
-----------------------------------------------------------------------------
(* Shares of validators: what they add up to does not matter to the books,  *)
(* that none is negative does.                                             *)

LEMMA RewardSharesNat ==
  ASSUME NEW L, Sound(L), NEW vals \in Seq(Accounts), Len(vals) > 0, NEW amount \in Nat
  PROVE  RewardShares(L, vals, amount) \in [DOMAIN vals -> Nat]
<1> DEFINE weight == [i \in DOMAIN vals |-> L.payoutPct[vals[i]]]
           share == Prorated(amount, weight)
           top == CHOOSE i \in DOMAIN vals :
                    \A k \in DOMAIN vals :
                       weight[k] < weight[i] \/ (weight[k] = weight[i] /\ i <= k)
           rest == amount - Total(share)
<1>1. IsFiniteSet(DOMAIN vals) /\ 1 \in DOMAIN vals
  BY FS_Interval
<1>2. weight \in [DOMAIN vals -> Nat] /\ weight[1] >= 100
  <2>1. \A i \in DOMAIN vals : vals[i] \in Accounts
    OBVIOUS
  <2>2. \A i \in DOMAIN vals : weight[i] \in 100..200
    BY <2>1, SoundParts
  <2> HIDE DEF weight
  <2>3. \A i \in DOMAIN vals : weight[i] \in Nat /\ weight[i] >= 100
    <3>1. \A p \in 100..200 : p \in Nat /\ p >= 100
      OBVIOUS
    <3> QED BY <2>2, <3>1, Zenon
  <2>4. weight[1] >= 100
    BY <1>1, <2>3
  <2>5. weight \in [DOMAIN vals -> Nat]
    BY <2>3 DEF weight
  <2> QED BY <2>4, <2>5
<1>3. RewardShares(L, vals, amount) = [share EXCEPT ![top] = @ + rest]
  BY DEF RewardShares
<1> HIDE DEF weight
<1>4. Summable(weight)
  BY <1>1, <1>2, FiniteTable
<1>5. Total(weight) \in Nat /\ weight[1] <= Total(weight)
  BY <1>1, <1>2, <1>4, TotalBounds
<1>6. Total(weight) > 0
  BY <1>1, <1>2, <1>5
<1>7. share \in [DOMAIN vals -> Nat] /\ Total(share) \in 0..amount
  BY <1>1, <1>2, <1>6, SharesWithin
<1> HIDE DEF share, top
<1>8. rest \in Nat
  BY <1>7
<1> HIDE DEF rest
<1>9. [share EXCEPT ![top] = @ + rest] =
        [i \in DOMAIN vals |-> IF i = top THEN share[i] + rest ELSE share[i]]
  BY <1>7
<1>10. [i \in DOMAIN vals |-> IF i = top THEN share[i] + rest ELSE share[i]]
         \in [DOMAIN vals -> Nat]
  BY <1>7, <1>8
<1> QED BY <1>3, <1>9, <1>10

LEMMA SlashSharesNat ==
  ASSUME NEW L, Sound(L), NEW vals \in Seq(Accounts), NEW pot \in Nat
  PROVE  SlashShares(L, vals, pot) \in [DOMAIN vals -> Nat]
<1> DEFINE weight == [i \in DOMAIN vals |-> L.stakes[vals[i]]["Validator"]]
<1>1. IsFiniteSet(DOMAIN vals)
  BY FS_Interval
<1>2. weight \in [DOMAIN vals -> Nat]
  <2>1. \A i \in DOMAIN vals : vals[i] \in Accounts
    OBVIOUS
  <2> QED BY <2>1, SoundParts DEF Roles
<1>3. SlashShares(L, vals, pot) =
        IF Total(weight) = 0 THEN [i \in DOMAIN vals |-> 0] ELSE Prorated(pot, weight)
  BY DEF SlashShares
<1> HIDE DEF weight
<1>4. Total(weight) \in Nat
  <2>1. Summable(weight)
    BY <1>1, <1>2, FiniteTable
  <2> QED BY <2>1, TotalNat
<1>5. CASE Total(weight) = 0
  BY <1>3, <1>5
<1>6. CASE Total(weight) > 0
  <2>1. Prorated(pot, weight) \in [DOMAIN vals -> Nat]
    BY <1>1, <1>2, <1>6, SharesWithin
  <2> QED BY <1>3, <1>4, <1>6, <2>1
<1> QED BY <1>4, <1>5, <1>6

LEMMA DistributeBooks ==
  ASSUME NEW L, Sound(L), NEW j \in JobIds, NEW vals \in Seq(Accounts), NEW amount \in Nat,
         CanDistribute(L, j, vals, amount)
  PROVE  Books(DistributeRewards(L, j, vals, amount), L, 0)
<1>0. Free(L) \in Int /\ L.escrow[j] \in Nat /\ L.balance \in Nat
  BY SoundSums, SoundParts
<1>1. CASE amount = 0
  BY <1>0, <1>1 DEF DistributeRewards, Books
<1>2. CASE amount # 0
  <2> DEFINE E == [L EXCEPT !.escrow[j] = @ - amount, !.balance = @ - amount]
             shares == RewardShares(L, vals, amount)
             n == L.escrow[j] - amount
  <2>1. L.escrow[j] >= amount /\ L.balance >= amount /\ Len(vals) > 0
    BY <1>2 DEF CanDistribute
  <2>2. /\ SameBut(E, L, {"escrow", "balance"})
        /\ E.escrow = [L.escrow EXCEPT ![j] = n]
        /\ E.balance = L.balance - amount
    BY SoundParts DEF SameBut, LedgerFields
  <2>3. DistributeRewards(L, j, vals, amount) = PayShares(E, vals, shares)
    BY <1>2 DEF DistributeRewards
  <2>4. n \in Nat /\ L.escrow[j] - n = amount
    BY <1>0, <2>1
  <2> HIDE DEF E, n
  <2>8. SameBut(E, L, {"escrow", "rewardPool", "balance"}) /\ E.rewardPool = L.rewardPool
    BY <2>2 DEF SameBut, LedgerFields
  <2>9. L.rewardPool \in Nat
    BY SoundParts
  <2>10. /\ Sound(E)
         /\ Free(E) = Free(L) - amount - (n - L.escrow[j]) - (L.rewardPool - L.rewardPool)
    BY <2>1, <2>2, <2>4, <2>8, <2>9, EscrowDrawn
  <2>11. Free(E) = Free(L)
    BY <1>0, <2>4, <2>9, <2>10
  <2>12. shares \in [DOMAIN vals -> Nat]
    BY <2>1, RewardSharesNat
  <2> HIDE DEF shares
  <2>13. Books(PayShares(E, vals, shares), E, 0)
    BY <2>10, <2>12, PaySharesBooks
  <2> QED BY <2>3, <2>11, <2>13 DEF Books
<1> QED BY <1>1, <1>2

\* A slash pays the employer's share and writes off the rest of what it takes
\* from the stake; validator shares come out of what the totals no longer hold.
LEMMA SlashBooks ==
  ASSUME NEW L, Sound(L), NEW u \in Accounts, NEW r \in Roles, NEW amount \in Nat,
         NEW recipient, NEW vals \in Seq(Accounts), NEW now \in Nat, CanSlash(L, u, r, amount)
  PROVE  Books(Slash(L, u, r, amount, recipient, vals, now), L, 0)
<1> DEFINE employerShare == Pct(amount, EmployerSlashPct)
           treasuryShare == Pct(amount, TreasurySlashPct)
           burnShare == amount - employerShare - treasuryShare
           pot == IF Len(vals) = 0 THEN 0
                  ELSE Pct(IF burnShare > 0 THEN burnShare
                           ELSE amount - employerShare, SlashRewardPct)
           s == L.stakes[u][r] - amount
           new == SlashedUnbond(L, u, L.stakes[u][r], amount, now)
           S == SetStake(L, u, r, s)
           T == [S EXCEPT !.unbonds[u] = new,
                          !.locked[u] = Monus(@, amount),
                          !.unlockTime[u] =
                             IF L.locked[u] > 0 /\ amount >= L.locked[u] THEN 0 ELSE @,
                          !.balance = @ - (amount - employerShare)]
           P == Pay(T, recipient, employerShare)
           shares == SlashShares(S, vals, pot)
<1>1. /\ L.stakes[u][r] \in Nat /\ L.balance \in Nat /\ Free(L) \in Int
      /\ L.locked[u] \in Nat
  BY SoundParts, SoundSums DEF LedgerTypeOK
<1>2. s \in Nat /\ L.balance >= amount /\ L.stakes[u][r] - s = amount
  BY <1>1 DEF CanSlash
<1>3. employerShare \in 0..amount /\ treasuryShare \in 0..amount
  BY LedgerAssumption, PctAtMost
<1>4. new \in [amt : Nat, unlockAt : Nat]
  BY <1>1, SoundParts, SlashedUnbondType DEF ReducedFrom
<1>5. Slash(L, u, r, amount, recipient, vals, now) = PayShares(P, vals, shares)
  BY DEF Slash
<1> HIDE DEF new, employerShare, treasuryShare
<1>6. pot \in Nat
  <2>1. SlashRewardPct \in Nat
    BY LedgerAssumption
  <2>2. amount - employerShare \in Nat /\ burnShare \in Int
    BY <1>3
  <2>3. (IF burnShare > 0 THEN burnShare ELSE amount - employerShare) \in Nat
    BY <2>2
  <2> QED BY <2>1, <2>3, PctNat
<1> HIDE DEF pot, s
<1>7. Sound(S) /\ Free(S) = Free(L) + L.stakes[u][r] - s
  BY <1>2, StakeMoved
<1>8. LedgerTypeOK(S) /\ SameBut(S, L, StakeFields)
  BY <1>2, SoundParts, SetStakeEffect
<1>9. S.locked = L.locked /\ S.balance = L.balance
  BY <1>8 DEF SameBut, StakeFields, LedgerFields
<1> HIDE DEF S
<1>10. /\ T.unbonds = [S.unbonds EXCEPT ![u] = new]
       /\ T.locked = [S.locked EXCEPT ![u] = Monus(@, amount)]
       /\ T.unlockTime = [S.unlockTime EXCEPT ![u] =
                             IF L.locked[u] > 0 /\ amount >= L.locked[u] THEN 0 ELSE @]
       /\ T.balance = S.balance - (amount - employerShare)
       /\ SameBut(T, S, LockFields \cup {"unbonds", "balance"})
  BY <1>8 DEF LedgerTypeOK, SameBut, LockFields, LedgerFields
<1> HIDE DEF T
<1>11. T.unbonds \in [Accounts -> [amt : Nat, unlockAt : Nat]]
  BY <1>4, <1>8, <1>10 DEF LedgerTypeOK
<1>12. T.locked \in [Accounts -> Nat] /\ T.unlockTime \in [Accounts -> Nat]
  <2>1. Monus(S.locked[u], amount) \in Nat
    BY <1>1, <1>9 DEF Monus
  <2>2. S.locked \in [Accounts -> Nat] /\ S.unlockTime \in [Accounts -> Nat]
    BY <1>8 DEF LedgerTypeOK
  <2>3. T.locked \in [Accounts -> Nat]
    BY <1>10, <2>1, <2>2
  <2>4. T.unlockTime \in [Accounts -> Nat]
    BY <1>10, <2>2
  <2> QED BY <2>3, <2>4
<1>13. T.balance \in Nat /\ T.balance >= employerShare
       /\ T.balance - S.balance = employerShare - amount
  BY <1>1, <1>2, <1>3, <1>9, <1>10
<1>14. LedgerTypeOK(T)
  BY <1>8, <1>10, <1>11, <1>12, <1>13 DEF LedgerTypeOK, SameBut, LockFields, LedgerFields
<1>15. T.wallet = S.wallet /\ T.feePct = S.feePct /\ T.burnPct = S.burnPct
  BY <1>10 DEF SameBut, LockFields, LedgerFields
<1>16. Payable(T) /\ SameBut(T, S, Loose)
  BY <1>7, <1>10, <1>15, SoundParts DEF Payable, SameBut, Loose, TokenFields
<1>17. Sound(T) /\ Free(T) = Free(S) + T.balance - S.balance
  BY <1>7, <1>14, <1>16, LooseMoved
<1>18. Books(P, T, 0 - employerShare)
  BY <1>3, <1>13, <1>17, PayBooks
<1> HIDE DEF P
<1>19. shares \in [DOMAIN vals -> Nat]
  BY <1>6, <1>7, SlashSharesNat
<1> HIDE DEF shares
<1>20. Books(PayShares(P, vals, shares), P, 0)
  BY <1>18, <1>19, PaySharesBooks DEF Books
<1>21. Free(T) = Free(L) + employerShare
  <2>1. Free(S) = Free(L) + amount
    BY <1>1, <1>2, <1>7
  <2>2. S.balance \in Nat
    BY <1>7, SoundParts
  <2>3. Free(T) = Free(L) + amount + T.balance - S.balance
    BY <1>17, <2>1
  <2> QED BY <1>1, <1>3, <1>13, <2>2, <2>3
<1>22. Free(P) = Free(L)
  BY <1>1, <1>3, <1>18, <1>21 DEF Books
<1> QED BY <1>5, <1>20, <1>22 DEF Books

\* The StakeManager as deployed owes and holds nothing.
LEMMA EmptyBooks ==
  ASSUME NEW funds \in [Accounts -> Nat], NEW pcts \in [Accounts -> 100..200], NEW min \in Nat
  PROVE  Sound(EmptyLedger(funds, pcts, min)) /\ Free(EmptyLedger(funds, pcts, min)) = 0
<1> DEFINE L == EmptyLedger(funds, pcts, min)
<1>1. LedgerTypeOK(L)
  BY LedgerAssumption DEF EmptyLedger, LedgerTypeOK, LedgerFields, NoUnbond
<1>2. /\ L.totalStakes = [r \in Roles |-> 0] /\ L.totalBoosted = [r \in Roles |-> 0]
      /\ L.escrow = [j \in JobIds |-> 0] /\ L.rewardPool = 0 /\ L.balance = 0
      /\ L.wallet = funds /\ L.feePct = 0 /\ L.burnPct = 0
      /\ L.stakes = [u \in Accounts |-> [r \in Roles |-> 0]]
      /\ L.boosted = [u \in Accounts |-> [r \in Roles |-> 0]]
  BY DEF EmptyLedger
<1> HIDE DEF L
<1>3. Accounted(L)
  <2> SUFFICES ASSUME NEW r \in Roles
               PROVE  /\ Summable(Stakes(L, r)) /\ L.totalStakes[r] = Total(Stakes(L, r))
                      /\ Summable(Boosts(L, r)) /\ L.totalBoosted[r] = Total(Boosts(L, r))
    BY DEF Accounted
  <2>1. Stakes(L, r) = [u \in Accounts |-> 0] /\ Boosts(L, r) = [u \in Accounts |-> 0]
    BY <1>2 DEF Stakes, Boosts, Column
  <2>2. Summable([u \in Accounts |-> 0]) /\ Total([u \in Accounts |-> 0]) = 0
    BY TotalZero
  <2> QED BY <1>2, <2>1, <2>2
<1>4. Payable(L)
  BY <1>2 DEF Payable
<1>5. Total(L.totalStakes) = 0 /\ Total(L.escrow) = 0
  BY <1>2, TotalZero
<1>6. Free(L) = 0
  BY <1>2, <1>5 DEF Free, Held
<1> QED BY <1>1, <1>3, <1>4, <1>6 DEF Sound, L
-----------------------------------------------------------------------------
(* Parameters and the reward pool. *)

LEMMA ParamsBooks ==
  ASSUME NEW L, Sound(L), NEW M, LedgerTypeOK(M),
         SameBut(M, L, {"payoutPct", "minStake", "feePct", "burnPct", "treasuryOk", "unbondingPeriod"}),
         M.feePct + M.burnPct <= 100
  PROVE  Books(M, L, 0)
<1>1. M.wallet = L.wallet /\ M.balance = L.balance
  BY DEF SameBut, LedgerFields
<1>2. Payable(M) /\ SameBut(M, L, Loose)
  BY <1>1, SoundParts DEF Payable, SameBut, Loose
<1>3. Sound(M) /\ Free(M) = Free(L) + M.balance - L.balance
  BY <1>2, LooseMoved
<1> QED BY <1>1, <1>3, SoundParts, SoundSums DEF Books

LEMMA PoolBooks ==
  ASSUME NEW L, Sound(L), NEW p \in Nat
  PROVE  LET M == [L EXCEPT !.rewardPool = p] IN Books(M, L, L.rewardPool - p)
<1> DEFINE M == [L EXCEPT !.rewardPool = p]
<1>1. SameBut(M, L, {"rewardPool"}) /\ M.rewardPool = p
  BY SoundParts DEF SameBut, LedgerFields
<1> HIDE DEF M
<1>2. LedgerTypeOK(M)
  BY <1>1, SoundParts DEF SameBut, LedgerTypeOK, LedgerFields
<1>3. /\ M.stakes = L.stakes /\ M.totalStakes = L.totalStakes /\ M.boosted = L.boosted
      /\ M.totalBoosted = L.totalBoosted /\ M.wallet = L.wallet /\ M.feePct = L.feePct
      /\ M.burnPct = L.burnPct /\ M.balance = L.balance /\ M.escrow = L.escrow
  BY <1>1 DEF SameBut, LedgerFields
<1>4. Sound(M)
  BY <1>2, <1>3 DEF Sound, Accounted, Payable, Stakes, Boosts
<1>5. Free(M) = Free(L) + (L.rewardPool - p)
  BY <1>1, <1>3, SoundSums DEF Free, Held
<1> QED BY <1>4, <1>5 DEF Books, M
=============================================================================
