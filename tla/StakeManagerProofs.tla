------------------------- MODULE StakeManagerProofs -------------------------
(***************************************************************************)
(* Theorems about StakeManager for any accounts, amounts, percentages and  *)
(* clock bound: the types, the coverage of locks by stakes, that a pending *)
(* withdrawal is never eased, and that the tokens held are exactly what    *)
(* the ledger owes.                                                        *)
(***************************************************************************)
EXTENDS StakeManager, StakeLedgerProofs

\* The step leaves stakes, locks and pending withdrawals alone.
Quiet ==
  /\ ledger'.stakes = ledger.stakes
  /\ ledger'.locked = ledger.locked
  /\ ledger'.unbonds = ledger.unbonds

UnbondsKept ==
  \A u \in Accounts :
    LET old == ledger.unbonds[u]
        new == ledger'.unbonds[u]
        again == now + ledger.unbondingPeriod
    IN old.amt > 0 /\ new.amt > 0
         => /\ new.amt <= old.amt
            /\ \/ new.unlockAt >= old.unlockAt
               \/ old.unlockAt > again /\ new.unlockAt = again

\* As long as governance does not shorten the period, a pending withdrawal ends
\* no later than a request made now would, and is not brought forward.
UnbondBounded ==
  \A u \in Accounts : ledger.unbonds[u].unlockAt <= now + ledger.unbondingPeriod

NotShortened == ledger'.unbondingPeriod >= ledger.unbondingPeriod

UnbondsWait ==
  \A u \in Accounts :
    LET old == ledger.unbonds[u]
        new == ledger'.unbonds[u]
    IN old.amt > 0 /\ new.amt > 0
         => new.amt <= old.amt /\ new.unlockAt >= old.unlockAt
-----------------------------------------------------------------------------
(* Types. *)

LEMMA InitType == Init => TypeOK
<1> SUFFICES ASSUME Init PROVE TypeOK
  OBVIOUS
<1>1. PICK pcts \in [Accounts -> PayoutPcts], min \in MinStakes :
        ledger = EmptyLedger([u \in Accounts |-> Funds], pcts, min)
  BY DEF Init
<1>2. pcts \in [Accounts -> 100..200] /\ min \in Nat
  BY StakeManagerAssumption
<1>3. LedgerTypeOK(ledger)
  BY <1>1, <1>2, LedgerAssumption DEF EmptyLedger, LedgerTypeOK, LedgerFields, NoUnbond
<1> QED BY <1>3 DEF Init, TypeOK

\* Every call that only moves tokens or parameters keeps the types.
LEMMA QuietSteps ==
  ASSUME TypeOK,
         Escrows \/ DisputeFees \/ Governance \/ Environment
           \/ \E u \in Accounts, r \in StakeRoles : SyncBoostedStake(u, r)
  PROVE  TypeOK' /\ Quiet /\ now' >= now
<1> USE StakeManagerAssumption
<1>0. LedgerTypeOK(ledger) /\ disputeFees \in Nat /\ now \in Nat
  BY DEF TypeOK
<1>1. ASSUME NEW j \in JobIds, NEW e \in Accounts, NEW a \in Amounts, LockJobReward(j, e, a)
      PROVE  TypeOK' /\ Quiet /\ now' >= now
  <2>1. LedgerTypeOK(ledger') /\ SameBut(ledger', ledger, {"escrow"} \cup TokenFields)
    BY <1>0, <1>1, LockRewardEffect DEF LockJobReward
  <2> QED BY <1>0, <1>1, <2>1
          DEF LockJobReward, TypeOK, Quiet, SameBut, TokenFields, LedgerFields
<1>2. ASSUME NEW j \in JobIds, NEW e \in Accounts, NEW a \in Amounts,
             NEW to \in Accounts \cup {Treasury}, ReleaseJobReward(j, e, to, a)
      PROVE  TypeOK' /\ Quiet /\ now' >= now
  <2>1. LedgerTypeOK(ledger')
    BY <1>0, <1>2, ReleaseRewardEffect DEF ReleaseJobReward
  <2>2. SameBut(ledger', ledger, {"escrow"} \cup TokenFields)
    BY <1>0, <1>2, ReleaseRewardEffect DEF ReleaseJobReward
  <2> QED BY <1>0, <1>2, <2>1, <2>2
          DEF ReleaseJobReward, TypeOK, Quiet, SameBut, TokenFields, LedgerFields
<1>3. ASSUME NEW j \in JobIds, NEW e \in Accounts, NEW a \in Amounts, NEW to \in Accounts,
             NEW pct \in PayoutPcts, NEW vr \in Amounts \cup {0}, NEW fee \in Amounts \cup {0},
             NEW pool \in BOOLEAN, FinalizeFunds(j, e, to, pct, a, vr, fee, pool)
      PROVE  TypeOK' /\ Quiet /\ now' >= now
  <2>0. pct \in 100..200 /\ vr \in Nat /\ fee \in Nat /\ a \in Nat
    OBVIOUS
  <2>1. LedgerTypeOK(ledger')
    BY <1>0, <1>3, <2>0, FinalizeJobFundsEffect DEF FinalizeFunds
  <2>2. SameBut(ledger', ledger, {"escrow", "rewardPool"} \cup TokenFields)
    BY <1>0, <1>3, <2>0, FinalizeJobFundsEffect DEF FinalizeFunds
  <2> QED BY <1>0, <1>3, <2>1, <2>2
          DEF FinalizeFunds, TypeOK, Quiet, SameBut, TokenFields, LedgerFields
<1>4. ASSUME NEW j \in JobIds, NEW a \in Amounts, NEW vals \in ValidatorLists,
             DistributeValidatorRewards(j, vals, a)
      PROVE  TypeOK' /\ Quiet /\ now' >= now
  <2>1. LedgerTypeOK(ledger')
    BY <1>0, <1>4, DistributeRewardsEffect DEF DistributeValidatorRewards
  <2>2. SameBut(ledger', ledger, {"escrow"} \cup TokenFields)
    BY <1>0, <1>4, DistributeRewardsEffect DEF DistributeValidatorRewards
  <2> QED BY <1>0, <1>4, <2>1, <2>2
          DEF DistributeValidatorRewards, TypeOK, Quiet, SameBut, TokenFields, LedgerFields
<1>5. CASE Escrows
  BY <1>1, <1>2, <1>3, <1>4, <1>5 DEF Escrows
<1>6. ASSUME NEW u \in Accounts, NEW a \in FeeAmounts, LockDisputeFee(u, a)
      PROVE  TypeOK' /\ Quiet /\ now' >= now
  <2>1. LedgerTypeOK(ledger') /\ SameBut(ledger', ledger, TokenFields)
    BY <1>0, <1>6, CollectEffect DEF LockDisputeFee
  <2> QED BY <1>0, <1>6, <2>1
          DEF LockDisputeFee, TypeOK, Quiet, SameBut, TokenFields, LedgerFields
<1>7. ASSUME NEW u \in Accounts, NEW a \in FeeAmounts, PayDisputeFee(u, a)
      PROVE  TypeOK' /\ Quiet /\ now' >= now
  <2>0. DOMAIN ledger = LedgerFields /\ DOMAIN ledger.wallet = Accounts
    BY <1>0 DEF LedgerTypeOK
  <2>1. LedgerTypeOK(ledger')
    BY <1>0, <1>7, PayType DEF PayDisputeFee
  <2>2. SameBut(ledger', ledger, TokenFields)
    BY <1>7, <2>0, PayEffect DEF PayDisputeFee
  <2> QED BY <1>0, <1>7, <2>1, <2>2
          DEF PayDisputeFee, TypeOK, Quiet, SameBut, TokenFields, LedgerFields
<1>8. CASE DisputeFees
  BY <1>6, <1>7, <1>8 DEF DisputeFees
<1>9. ASSUME NEW u \in Accounts, NEW a \in FeeAmounts, FundOperatorRewardPool(u, a)
      PROVE  TypeOK' /\ Quiet /\ now' >= now
  <2> DEFINE C == Collect(ledger, u, a)
  <2>1. LedgerTypeOK(C) /\ SameBut(C, ledger, TokenFields)
    BY <1>0, <1>9, CollectEffect
  <2>2. ledger' = [C EXCEPT !.rewardPool = @ + a]
    BY <1>9 DEF FundOperatorRewardPool
  <2> HIDE DEF C
  <2>3. LedgerTypeOK(ledger') /\ SameBut(ledger', ledger, {"rewardPool"} \cup TokenFields)
    BY <2>1, <2>2 DEF LedgerTypeOK, LedgerFields, SameBut
  <2> QED BY <1>0, <1>9, <2>3
          DEF FundOperatorRewardPool, TypeOK, Quiet, SameBut, TokenFields, LedgerFields
<1>10. ASSUME NEW u \in Accounts, NEW a \in FeeAmounts, WithdrawOperatorRewardPool(u, a)
       PROVE  TypeOK' /\ Quiet /\ now' >= now
  <2> DEFINE D == [ledger EXCEPT !.rewardPool = @ - a]
  <2>1. ledger.rewardPool >= a /\ ledger.balance >= a /\ ledger' = Pay(D, u, a)
    BY <1>10 DEF WithdrawOperatorRewardPool
  <2>2. LedgerTypeOK(D) /\ SameBut(D, ledger, {"rewardPool"}) /\ D.balance = ledger.balance
    BY <1>0, <2>1 DEF LedgerTypeOK, LedgerFields, SameBut
  <2> HIDE DEF D
  <2>3. DOMAIN D = LedgerFields /\ DOMAIN D.wallet = Accounts
    BY <2>2 DEF LedgerTypeOK
  <2>4. LedgerTypeOK(ledger')
    BY <2>1, <2>2, PayType
  <2>5. SameBut(ledger', D, TokenFields)
    BY <2>1, <2>3, PayEffect
  <2>6. SameBut(ledger', ledger, {"rewardPool"} \cup TokenFields)
    BY <2>2, <2>5 DEF SameBut
  <2> QED BY <1>0, <1>10, <2>4, <2>6
          DEF WithdrawOperatorRewardPool, TypeOK, Quiet, SameBut, TokenFields, LedgerFields
<1>11. ASSUME NEW m \in MinStakes, SetMinStake(m)
       PROVE  TypeOK' /\ Quiet /\ now' >= now
  BY <1>0, <1>11 DEF SetMinStake, TypeOK, Quiet, LedgerTypeOK, LedgerFields
<1>12. ASSUME NEW p \in FeeBurnPcts, SetFeeBurnPct(p[1], p[2])
       PROVE  TypeOK' /\ Quiet /\ now' >= now
  <2>1. p[1] \in 0..100 /\ p[2] \in 0..100
    OBVIOUS
  <2> QED BY <1>0, <1>12, <2>1 DEF SetFeeBurnPct, TypeOK, Quiet, LedgerTypeOK, LedgerFields
<1>13. ASSUME NEW ok \in BOOLEAN, SetTreasuryAllowed(ok)
       PROVE  TypeOK' /\ Quiet /\ now' >= now
  BY <1>0, <1>13 DEF SetTreasuryAllowed, TypeOK, Quiet, LedgerTypeOK, LedgerFields
<1>13a. ASSUME NEW p \in UnbondingPeriods, SetUnbondingPeriod(p)
        PROVE  TypeOK' /\ Quiet /\ now' >= now
  BY <1>0, <1>13a DEF SetUnbondingPeriod, TypeOK, Quiet, LedgerTypeOK, LedgerFields
<1>14. CASE Governance
  BY <1>9, <1>10, <1>11, <1>12, <1>13, <1>13a, <1>14 DEF Governance
<1>15. ASSUME NEW u \in Accounts, NEW pct \in PayoutPcts, NFTTransfer(u, pct)
       PROVE  TypeOK' /\ Quiet /\ now' >= now
  <2>1. pct \in 100..200
    OBVIOUS
  <2> QED BY <1>0, <1>15, <2>1 DEF NFTTransfer, TypeOK, Quiet, LedgerTypeOK, LedgerFields
<1>16. CASE Tick
  BY <1>0, <1>16 DEF Tick, TypeOK, Quiet
<1>17. CASE Environment
  BY <1>15, <1>16, <1>17 DEF Environment
<1>18. ASSUME NEW u \in Accounts, NEW r \in StakeRoles, SyncBoostedStake(u, r)
       PROVE  TypeOK' /\ Quiet /\ now' >= now
  <2>1. LedgerTypeOK(ledger') /\ SameBut(ledger', ledger, {"boosted", "totalBoosted"})
    BY <1>0, <1>18, SyncBoostedType DEF SyncBoostedStake
  <2> QED BY <1>0, <1>18, <2>1 DEF SyncBoostedStake, TypeOK, Quiet, SameBut, LedgerFields
<1> QED BY <1>5, <1>8, <1>14, <1>17, <1>18
-----------------------------------------------------------------------------
(* The inductive invariant and its steps. *)

IInv == TypeOK /\ LocksCovered

\* What a pending withdrawal may become.
Unbonding ==
  \A u \in Accounts :
    LET old == ledger.unbonds[u]
        new == ledger'.unbonds[u]
        again == now + ledger.unbondingPeriod
    IN \/ new = old
       \/ new = NoUnbond
       \/ old.amt = 0 /\ new.unlockAt = again
       \/ new.amt <= old.amt /\ new.unlockAt = again

\* What a step has to show.
Kept == IInv' /\ Unbonding /\ now' >= now

LEMMA QuietKeeps == ASSUME IInv, TypeOK', Quiet, now' >= now PROVE Kept
<1>1. \A u \in Accounts : TotalStakeOf(ledger', u) = TotalStakeOf(ledger, u)
  BY DEF Quiet, TotalStakeOf
<1>2. LocksCovered'
  BY <1>1 DEF IInv, LocksCovered, Quiet
<1>3. Unbonding
  BY DEF Unbonding, Quiet
<1> QED BY <1>2, <1>3 DEF Kept, IInv

\* The pending withdrawals stay, the clock stands still.
LEMMA UnbondsSame ==
  ASSUME IInv, ledger'.unbonds = ledger.unbonds, now' = now
  PROVE  Unbonding /\ now' >= now
BY DEF IInv, TypeOK, Unbonding

LEMMA StakeSteps ==
  ASSUME IInv, NEW u \in Accounts, NEW r \in StakeRoles, NEW a \in Nat,
         \/ DepositStake(u, r, a)
         \/ AskWithdraw(u, r, a)
         \/ WithdrawStake(u, r, a)
         \/ CompleteWithdraw(u, r)
  PROVE  Kept
<1>0. /\ LedgerTypeOK(ledger) /\ disputeFees \in Nat /\ now \in Nat
      /\ r \in Roles /\ a \in Nat
  BY StakeManagerAssumption, LedgerAssumption DEF IInv, TypeOK
<1>1. \A v \in Accounts : ledger.locked[v] \in Nat /\ TotalStakeOf(ledger, v) \in Nat
                           /\ ledger.locked[v] <= TotalStakeOf(ledger, v)
  BY <1>0, TotalStakeNat DEF IInv, LocksCovered, LedgerTypeOK
<1>2. CASE DepositStake(u, r, a)
  <2>1. LedgerTypeOK(ledger')
    BY <1>0, <1>2, DepositEffect DEF DepositStake
  <2>2. SameBut(ledger', ledger, StakeFields \cup TokenFields)
    BY <1>0, <1>2, DepositEffect DEF DepositStake
  <2>3. \A v \in Accounts : TotalStakeOf(ledger', v) >= TotalStakeOf(ledger, v)
    BY <1>0, <1>2, DepositEffect DEF DepositStake
  <2>4. ledger'.locked = ledger.locked /\ ledger'.unbonds = ledger.unbonds
    BY <2>2 DEF SameBut, StakeFields, TokenFields, LedgerFields
  <2>5. \A v \in Accounts : TotalStakeOf(ledger', v) \in Nat
    BY <1>0, <2>1, TotalStakeNat
  <2>6. LocksCovered'
    BY <1>1, <2>3, <2>4, <2>5 DEF LocksCovered
  <2>7. TypeOK' /\ now' = now
    BY <1>0, <1>2, <2>1 DEF DepositStake, TypeOK
  <2> QED BY <2>4, <2>6, <2>7, UnbondsSame DEF Kept, IInv
<1>3. CASE AskWithdraw(u, r, a)
  <2>1. LedgerTypeOK(ledger') /\ SameBut(ledger', ledger, {"unbonds"})
    BY <1>0, <1>3, RequestWithdrawEffect DEF AskWithdraw
  <2>2. ledger'.unbonds = [ledger.unbonds EXCEPT ![u] = [amt |-> a, unlockAt |-> now + ledger.unbondingPeriod]]
    BY <1>0, <1>3, RequestWithdrawEffect DEF AskWithdraw
  <2>3. ledger'.locked = ledger.locked /\ ledger'.stakes = ledger.stakes
    BY <2>1 DEF SameBut, LedgerFields
  <2>4. LocksCovered'
    BY <1>1, <2>3 DEF LocksCovered, TotalStakeOf
  <2>5. TypeOK' /\ now' = now
    BY <1>0, <1>3, <2>1 DEF AskWithdraw, TypeOK
  <2>6. ledger.unbonds \in [Accounts -> [amt : Nat, unlockAt : Nat]]
    BY <1>0 DEF LedgerTypeOK
  <2>7. ledger.unbonds[u].amt = 0
    BY <1>3 DEF AskWithdraw, CanRequestWithdraw
  <2>8. Unbonding
    BY <2>2, <2>6, <2>7 DEF Unbonding
  <2> QED BY <1>0, <2>4, <2>5, <2>8 DEF Kept, IInv
<1>4. CASE WithdrawStake(u, r, a)
  <2>0. CanWithdraw(ledger, u, r, a, now) /\ ledger' = Withdraw(ledger, u, r, a, now)
    BY <1>4 DEF WithdrawStake
  <2>1. LedgerTypeOK(ledger')
    BY <1>0, <2>0, WithdrawEffect
  <2>2. SameBut(ledger', ledger, StakeFields \cup LockFields \cup TokenFields)
    BY <1>0, <2>0, WithdrawEffect
  <2>3. \A v \in Accounts :
          ledger'.locked[v] = IF v = u /\ LockExpired(ledger, u, now) THEN 0 ELSE ledger.locked[v]
    BY <1>0, <2>0, WithdrawEffect
  <2>4. \A v \in Accounts :
          TotalStakeOf(ledger', v) =
            IF v = u THEN TotalStakeOf(ledger, u) - a ELSE TotalStakeOf(ledger, v)
    BY <1>0, <2>0, WithdrawEffect
  <2>5. \A v \in Accounts : TotalStakeOf(ledger', v) \in Nat
    BY <1>0, <2>1, TotalStakeNat
  <2>6. ledger.locked[u] > 0 /\ ~LockExpired(ledger, u, now)
          => TotalStakeOf(ledger, u) - a >= ledger.locked[u]
    <3>1. ledger.unlockTime[u] \in Nat
      BY <1>0 DEF LedgerTypeOK
    <3> QED BY <1>0, <2>0, <3>1 DEF CanWithdraw, CanTake, LockExpired
  <2>7. LocksCovered'
    BY <1>1, <2>3, <2>4, <2>5, <2>6 DEF LocksCovered
  <2>8. ledger'.unbonds = ledger.unbonds
    BY <2>2 DEF SameBut, StakeFields, LockFields, TokenFields, LedgerFields
  <2>9. TypeOK' /\ now' = now
    BY <1>0, <1>4, <2>1 DEF WithdrawStake, TypeOK
  <2> QED BY <2>7, <2>8, <2>9, UnbondsSame DEF Kept, IInv
<1>5. CASE CompleteWithdraw(u, r)
  <2>0. CanFinalizeWithdraw(ledger, u, r, now) /\ ledger' = FinalizeWithdraw(ledger, u, r, now)
    BY <1>5 DEF CompleteWithdraw
  <2>1. FinalizedFrom(ledger', ledger, u)
    BY <1>0, <2>0, FinalizeWithdrawEffect
  <2>2. ledger'.locked = ledger.locked
    BY <2>1 DEF FinalizedFrom
  <2>3. ledger'.unbonds = [ledger.unbonds EXCEPT ![u] = NoUnbond]
    BY <2>1 DEF FinalizedFrom
  <2>4. \A v \in Accounts : v # u => TotalStakeOf(ledger', v) = TotalStakeOf(ledger, v)
    BY <2>1 DEF FinalizedFrom
  <2>5. ledger.locked[u] = 0
    BY <2>0 DEF CanFinalizeWithdraw
  <2>6. \A v \in Accounts : TotalStakeOf(ledger', v) \in Nat
    BY <1>0, <2>1, TotalStakeNat DEF FinalizedFrom
  <2>7. LocksCovered'
    BY <1>1, <2>2, <2>4, <2>5, <2>6 DEF LocksCovered
  <2>8. TypeOK' /\ now' = now
    BY <1>0, <1>5, <2>1 DEF CompleteWithdraw, TypeOK, FinalizedFrom
  <2>9. ledger.unbonds \in [Accounts -> [amt : Nat, unlockAt : Nat]]
    BY <1>0 DEF LedgerTypeOK
  <2>10. Unbonding
    BY <2>3, <2>9 DEF Unbonding
  <2> QED BY <1>0, <2>7, <2>8, <2>10 DEF Kept, IInv
<1> QED BY <1>2, <1>3, <1>4, <1>5

LEMMA LockSteps ==
  ASSUME IInv, NEW u \in Accounts, NEW a \in Amounts,
         (\E t \in LockTimes : LockAgentStake(u, a, t)) \/ ReleaseAgentStake(u, a)
  PROVE  Kept
<1>0. LedgerTypeOK(ledger) /\ disputeFees \in Nat /\ now \in Nat /\ a \in Nat
  BY StakeManagerAssumption DEF IInv, TypeOK
<1>1. \A v \in Accounts : ledger.locked[v] \in Nat /\ TotalStakeOf(ledger, v) \in Nat
                           /\ ledger.locked[v] <= TotalStakeOf(ledger, v)
  BY <1>0, TotalStakeNat DEF IInv, LocksCovered, LedgerTypeOK, Roles
<1>2. ledger.locked \in [Accounts -> Nat]
  BY <1>0 DEF LedgerTypeOK
<1>3. ASSUME NEW t \in LockTimes, LockAgentStake(u, a, t) PROVE Kept
  <2>0. now + t \in Nat
    BY <1>0, StakeManagerAssumption
  <2>1. LedgerTypeOK(ledger') /\ SameBut(ledger', ledger, LockFields)
    BY <1>0, <1>3, <2>0, LockStakeEffect DEF LockAgentStake
  <2>2. ledger'.locked = [ledger.locked EXCEPT ![u] = @ + a]
    BY <1>0, <1>3, <2>0, LockStakeEffect DEF LockAgentStake
  <2>3. ledger'.stakes = ledger.stakes /\ ledger'.unbonds = ledger.unbonds
    BY <2>1 DEF SameBut, LockFields, LedgerFields
  <2>4. \A v \in Accounts : TotalStakeOf(ledger', v) = TotalStakeOf(ledger, v)
    BY <2>3 DEF TotalStakeOf
  <2>5. TotalStakeOf(ledger, u) >= ledger.locked[u] + a
    BY <1>3 DEF LockAgentStake, CanLockStake
  <2>6. LocksCovered'
    BY <1>1, <1>2, <2>2, <2>4, <2>5 DEF LocksCovered
  <2>7. TypeOK' /\ now' = now
    BY <1>0, <1>3, <2>1 DEF LockAgentStake, TypeOK
  <2> QED BY <2>3, <2>6, <2>7, UnbondsSame DEF Kept, IInv
<1>4. ASSUME ReleaseAgentStake(u, a) PROVE Kept
  <2>1. LedgerTypeOK(ledger') /\ SameBut(ledger', ledger, LockFields)
    BY <1>0, <1>4, ReleaseStakeEffect DEF ReleaseAgentStake
  <2>2. ledger'.locked = [ledger.locked EXCEPT ![u] = @ - a]
    BY <1>0, <1>4, ReleaseStakeEffect DEF ReleaseAgentStake
  <2>3. ledger'.stakes = ledger.stakes /\ ledger'.unbonds = ledger.unbonds
    BY <2>1 DEF SameBut, LockFields, LedgerFields
  <2>4. \A v \in Accounts : TotalStakeOf(ledger', v) = TotalStakeOf(ledger, v)
    BY <2>3 DEF TotalStakeOf
  <2>5. LocksCovered'
    BY <1>0, <1>1, <1>2, <2>2, <2>4 DEF LocksCovered
  <2>6. TypeOK' /\ now' = now
    BY <1>0, <1>4, <2>1 DEF ReleaseAgentStake, TypeOK
  <2> QED BY <2>3, <2>5, <2>6, UnbondsSame DEF Kept, IInv
<1> QED BY <1>3, <1>4

LEMMA SlashStep ==
  ASSUME IInv, NEW u \in Accounts, NEW r \in StakeRoles, NEW a \in Amounts,
         NEW to \in Accounts \cup {Treasury}, NEW vals \in ValidatorLists,
         SlashStake(u, r, a, to, vals)
  PROVE  Kept
<1> DEFINE n == SlashedUnbond(ledger, u, ledger.stakes[u][r], a, now)
<1>0. /\ LedgerTypeOK(ledger) /\ disputeFees \in Nat /\ now \in Nat
      /\ r \in Roles /\ a \in Nat
  BY StakeManagerAssumption, LedgerAssumption DEF IInv, TypeOK
<1>1. \A v \in Accounts : ledger.locked[v] \in Nat /\ TotalStakeOf(ledger, v) \in Nat
                           /\ ledger.locked[v] <= TotalStakeOf(ledger, v)
  BY <1>0, TotalStakeNat DEF IInv, LocksCovered, LedgerTypeOK
<1>2. CanSlash(ledger, u, r, a) /\ ledger' = Slash(ledger, u, r, a, to, vals, now)
  BY DEF SlashStake
<1>2a. SlashedFrom(ledger', ledger, u, r, a, now)
  BY <1>0, <1>2, SlashEffect
<1>3. LedgerTypeOK(ledger')
  BY <1>2a DEF SlashedFrom
<1>4. ledger'.unbonds = [ledger.unbonds EXCEPT ![u] = n]
  BY <1>2a DEF SlashedFrom
<1>5. ledger'.locked = [ledger.locked EXCEPT ![u] = Monus(@, a)]
  BY <1>2a DEF SlashedFrom
<1>6. \A v \in Accounts :
        TotalStakeOf(ledger', v) =
          IF v = u THEN TotalStakeOf(ledger, u) - a ELSE TotalStakeOf(ledger, v)
  <2>1. ledger'.stakes = [ledger.stakes EXCEPT ![u][r] = @ - a]
    BY <1>2a DEF SlashedFrom
  <2>2. ledger.stakes \in [Accounts -> [Roles -> Nat]]
    BY <1>0 DEF LedgerTypeOK
  <2> QED BY <1>0, <2>1, <2>2 DEF TotalStakeOf, Roles
<1>7. \A v \in Accounts : TotalStakeOf(ledger', v) \in Nat
  BY <1>0, <1>3, TotalStakeNat
<1>8. LocksCovered'
  BY <1>0, <1>1, <1>5, <1>6, <1>7 DEF LocksCovered, Monus, LedgerTypeOK
<1>9. ledger.stakes[u][r] \in Nat
  BY <1>0, TotalStakeNat
<1>9a. ReducedFrom(n, ledger.unbonds[u], now + ledger.unbondingPeriod)
  BY <1>0, <1>9, SlashedUnbondType
<1>10. /\ n \in [amt : Nat, unlockAt : Nat]
       /\ n.amt <= ledger.unbonds[u].amt
       /\ n = ledger.unbonds[u] \/ n = NoUnbond \/ n.unlockAt = now + ledger.unbondingPeriod
  BY <1>9a DEF ReducedFrom
<1> HIDE DEF n
<1>11. ledger.unbonds \in [Accounts -> [amt : Nat, unlockAt : Nat]]
  BY <1>0 DEF LedgerTypeOK
<1>12. TypeOK' /\ now' = now
  BY <1>0, <1>3 DEF SlashStake, TypeOK
<1>13. Unbonding
  BY <1>4, <1>10, <1>11 DEF Unbonding
<1> QED BY <1>0, <1>8, <1>12, <1>13 DEF Kept, IInv

LEMMA Step == IInv /\ [Next]_vars => Kept
<1> SUFFICES ASSUME IInv, [Next]_vars PROVE Kept
  OBVIOUS
<1>1. CASE UNCHANGED vars
  BY <1>1, QuietKeeps DEF vars, IInv, TypeOK, Quiet
<1>2. CASE Participants
  <2>1. PICK u \in Accounts, r \in StakeRoles :
          \/ \E a \in Amounts : DepositStake(u, r, a) \/ AskWithdraw(u, r, a)
                                  \/ WithdrawStake(u, r, a)
          \/ CompleteWithdraw(u, r)
          \/ SyncBoostedStake(u, r)
    BY <1>2 DEF Participants
  <2>2. CASE SyncBoostedStake(u, r)
    <3>1. \E v \in Accounts, q \in StakeRoles : SyncBoostedStake(v, q)
      BY <2>2
    <3> QED BY <3>1, QuietSteps, QuietKeeps DEF IInv
  <2>3. CASE CompleteWithdraw(u, r)
    <3>1. 0 \in Nat
      OBVIOUS
    <3> QED BY <2>3, <3>1, StakeSteps
  <2>4. ASSUME NEW a \in Amounts,
               DepositStake(u, r, a) \/ AskWithdraw(u, r, a) \/ WithdrawStake(u, r, a)
        PROVE  Kept
    <3>1. a \in Nat
      BY StakeManagerAssumption
    <3> QED BY <2>4, <3>1, StakeSteps
  <2> QED BY <2>1, <2>2, <2>3, <2>4
<1>3. CASE Locks
  BY <1>3, LockSteps DEF Locks
<1>4. CASE Slashes
  BY <1>4, SlashStep DEF Slashes
<1>5. CASE Escrows \/ DisputeFees \/ Governance \/ Environment
  BY <1>5, QuietSteps, QuietKeeps DEF IInv
<1> QED BY <1>1, <1>2, <1>3, <1>4, <1>5 DEF Next

LEMMA UnbondsKeptStep == IInv /\ [Next]_vars => UnbondsKept
<1> SUFFICES ASSUME IInv, [Next]_vars PROVE UnbondsKept
  OBVIOUS
<1>1. Unbonding /\ LedgerTypeOK(ledger) /\ now \in Nat
  BY Step DEF Kept, IInv, TypeOK
<1>2. \A u \in Accounts : ledger.unbonds[u].amt \in Nat /\ ledger.unbonds[u].unlockAt \in Nat
  BY <1>1 DEF LedgerTypeOK
<1>3. ledger.unbondingPeriod \in Nat
  BY <1>1 DEF LedgerTypeOK
<1> QED BY <1>1, <1>2, <1>3 DEF Unbonding, UnbondsKept, NoUnbond

\* Without shortening, the wait left never exceeds the period.
LEMMA UnbondsWaitStep ==
  IInv /\ UnbondBounded /\ [Next]_vars /\ [NotShortened]_vars => UnbondBounded' /\ UnbondsWait
<1> SUFFICES ASSUME IInv, UnbondBounded, [Next]_vars, [NotShortened]_vars
             PROVE  UnbondBounded' /\ UnbondsWait
  OBVIOUS
<1>1. Unbonding /\ LedgerTypeOK(ledger) /\ LedgerTypeOK(ledger') /\ now \in Nat
      /\ now' \in Nat /\ now' >= now
  BY Step DEF Kept, IInv, TypeOK
<1>2. \A u \in Accounts : /\ ledger.unbonds[u].amt \in Nat /\ ledger.unbonds[u].unlockAt \in Nat
                          /\ ledger'.unbonds[u].amt \in Nat /\ ledger'.unbonds[u].unlockAt \in Nat
  BY <1>1 DEF LedgerTypeOK
<1>3. /\ ledger.unbondingPeriod \in Nat /\ ledger'.unbondingPeriod \in Nat
      /\ ledger'.unbondingPeriod >= ledger.unbondingPeriod
  BY <1>1 DEF LedgerTypeOK, NotShortened, vars
<1>4. UnbondBounded'
  BY <1>1, <1>2, <1>3 DEF Unbonding, UnbondBounded, NoUnbond
<1>5. UnbondsWait
  BY <1>1, <1>2, <1>3 DEF Unbonding, UnbondBounded, UnbondsWait, NoUnbond
<1> QED BY <1>4, <1>5
-----------------------------------------------------------------------------
(* Solvency. *)

\* The books are in order, and what is held beyond them are the dispute fees.
Solvent == Sound(ledger) /\ Free(ledger) = disputeFees

LEMMA SolventBooks ==
  ASSUME Solvent, Books(ledger', ledger, disputeFees' - disputeFees),
         disputeFees \in Nat, disputeFees' \in Nat
  PROVE  Solvent'
<1>1. Sound(ledger') /\ Free(ledger') = Free(ledger) + (disputeFees' - disputeFees)
  BY DEF Books
<1>2. Free(ledger) = disputeFees
  BY DEF Solvent
<1>3. \A x, y \in Nat : \A f \in Int : f = x + (y - x) => f = y
  OBVIOUS
<1>4. Free(ledger') = disputeFees'
  <2>1. Free(ledger') \in Int
    BY <1>1, SoundSums
  <2> QED BY <1>1, <1>2, <1>3, <2>1
<1> QED BY <1>1, <1>4 DEF Solvent

\* Most steps leave the dispute fees alone.
LEMMA SolventKept ==
  ASSUME TypeOK, Solvent, Books(ledger', ledger, 0), UNCHANGED disputeFees
  PROVE  Solvent'
<1>1. disputeFees \in Nat /\ disputeFees' = disputeFees /\ disputeFees' - disputeFees = 0
  BY DEF TypeOK
<1> QED BY <1>1, SolventBooks

LEMMA SolventParticipants == ASSUME TypeOK, Solvent, Participants PROVE Solvent'
<1>0. Sound(ledger) /\ now \in Nat
  BY DEF TypeOK, Solvent
<1>1. PICK u \in Accounts, r \in StakeRoles :
        \/ \E a \in Amounts : DepositStake(u, r, a) \/ AskWithdraw(u, r, a)
                                \/ WithdrawStake(u, r, a)
        \/ CompleteWithdraw(u, r)
        \/ SyncBoostedStake(u, r)
  BY DEF Participants
<1>2. r \in Roles
  BY StakeManagerAssumption
<1>3. ASSUME NEW a \in Amounts, DepositStake(u, r, a) PROVE Solvent'
  <2>1. a \in Nat
    BY StakeManagerAssumption
  <2>2. Books(ledger', ledger, 0)
    BY <1>0, <1>2, <1>3, <2>1, DepositBooks DEF DepositStake
  <2> QED BY <1>3, <2>2, SolventKept DEF DepositStake
<1>4. ASSUME NEW a \in Amounts, AskWithdraw(u, r, a) PROVE Solvent'
  <2>1. a \in Nat
    BY StakeManagerAssumption
  <2>2. LedgerTypeOK(ledger') /\ SameBut(ledger', ledger, {"unbonds"})
    BY <1>0, <1>4, <2>1, SoundParts, RequestWithdrawEffect DEF AskWithdraw
  <2>3. SameBut(ledger', ledger, LockFields \cup {"unbonds"})
    BY <2>2 DEF SameBut
  <2>4. Books(ledger', ledger, 0)
    BY <1>0, <2>2, <2>3, LocksBooks
  <2> QED BY <1>4, <2>4, SolventKept DEF AskWithdraw
<1>5. ASSUME NEW a \in Amounts, WithdrawStake(u, r, a) PROVE Solvent'
  <2>1. a \in Nat
    BY StakeManagerAssumption
  <2>2. Books(ledger', ledger, 0)
    BY <1>0, <1>2, <1>5, <2>1, WithdrawBooks DEF WithdrawStake
  <2> QED BY <1>5, <2>2, SolventKept DEF WithdrawStake
<1>6. CASE CompleteWithdraw(u, r)
  BY <1>0, <1>2, <1>6, FinalizeWithdrawBooks, SolventKept DEF CompleteWithdraw
<1>7. CASE SyncBoostedStake(u, r)
  BY <1>0, <1>2, <1>7, SyncBooks, SolventKept DEF SyncBoostedStake
<1> QED BY <1>1, <1>3, <1>4, <1>5, <1>6, <1>7

LEMMA SolventLocks == ASSUME TypeOK, Solvent, Locks PROVE Solvent'
<1>0. Sound(ledger) /\ now \in Nat /\ LedgerTypeOK(ledger)
  BY DEF TypeOK, Solvent
<1>1. ASSUME LedgerTypeOK(ledger'), SameBut(ledger', ledger, LockFields), UNCHANGED disputeFees
      PROVE  Solvent'
  <2>1. SameBut(ledger', ledger, LockFields \cup {"unbonds"})
    BY <1>1 DEF SameBut
  <2> QED BY <1>0, <1>1, <2>1, LocksBooks, SolventKept
<1>2. ASSUME NEW u \in Accounts, NEW a \in Amounts, NEW t \in LockTimes, LockAgentStake(u, a, t)
      PROVE  Solvent'
  <2>1. a \in Nat /\ now + t \in Nat
    BY <1>0, StakeManagerAssumption
  <2>2. LedgerTypeOK(ledger') /\ SameBut(ledger', ledger, LockFields)
    BY <1>0, <1>2, <2>1, LockStakeEffect DEF LockAgentStake
  <2> QED BY <1>1, <1>2, <2>2 DEF LockAgentStake
<1>3. ASSUME NEW u \in Accounts, NEW a \in Amounts, ReleaseAgentStake(u, a)
      PROVE  Solvent'
  <2>1. a \in Nat
    BY StakeManagerAssumption
  <2>2. LedgerTypeOK(ledger') /\ SameBut(ledger', ledger, LockFields)
    BY <1>0, <1>3, <2>1, ReleaseStakeEffect DEF ReleaseAgentStake
  <2> QED BY <1>1, <1>3, <2>2 DEF ReleaseAgentStake
<1> QED BY <1>2, <1>3 DEF Locks

LEMMA ValidatorListsSeq == ValidatorLists \subseteq Seq(Accounts)
<1>1. <<>> \in Seq(Accounts)
  OBVIOUS
<1>2. \A v \in Accounts : <<v>> \in Seq(Accounts)
  OBVIOUS
<1>3. \A v, w \in Accounts : <<v, w>> \in Seq(Accounts)
  OBVIOUS
<1> QED BY <1>1, <1>2, <1>3 DEF ValidatorLists

LEMMA SolventSlashes == ASSUME TypeOK, Solvent, Slashes PROVE Solvent'
<1>0. Sound(ledger) /\ now \in Nat
  BY DEF TypeOK, Solvent
<1>1. PICK u \in Accounts, r \in StakeRoles, a \in Amounts,
           to \in Accounts \cup {Treasury}, vals \in ValidatorLists :
        SlashStake(u, r, a, to, vals)
  BY DEF Slashes
<1>2. r \in Roles /\ a \in Nat /\ vals \in Seq(Accounts)
  BY StakeManagerAssumption, ValidatorListsSeq
<1>3. CanSlash(ledger, u, r, a) /\ ledger' = Slash(ledger, u, r, a, to, vals, now)
  BY <1>1 DEF SlashStake
<1>4. Books(ledger', ledger, 0)
  BY <1>0, <1>2, <1>3, SlashBooks
<1> QED BY <1>1, <1>4, SolventKept DEF SlashStake

LEMMA SolventEscrows == ASSUME TypeOK, Solvent, Escrows PROVE Solvent'
<1> USE StakeManagerAssumption
<1>0. Sound(ledger)
  BY DEF Solvent
<1>1. ASSUME NEW j \in JobIds, NEW e \in Accounts, NEW a \in Amounts, LockJobReward(j, e, a)
      PROVE  Solvent'
  <2>1. a \in Nat
    OBVIOUS
  <2>2. Books(ledger', ledger, 0)
    BY <1>0, <1>1, <2>1, LockRewardBooks DEF LockJobReward
  <2> QED BY <1>1, <2>2, SolventKept DEF LockJobReward
<1>2. ASSUME NEW j \in JobIds, NEW e \in Accounts, NEW a \in Amounts,
             NEW to \in Accounts \cup {Treasury}, ReleaseJobReward(j, e, to, a)
      PROVE  Solvent'
  <2>1. a \in Nat
    OBVIOUS
  <2>2. CanReleaseReward(ledger, j, to, a) /\ ledger' = ReleaseReward(ledger, j, e, to, a)
    BY <1>2 DEF ReleaseJobReward
  <2>3. Books(ledger', ledger, 0)
    BY <1>0, <2>1, <2>2, ReleaseRewardBooks
  <2> QED BY <1>2, <2>3, SolventKept DEF ReleaseJobReward
<1>3. ASSUME NEW j \in JobIds, NEW e \in Accounts, NEW a \in Amounts, NEW to \in Accounts,
             NEW pct \in PayoutPcts, NEW vr \in Amounts \cup {0}, NEW fee \in Amounts \cup {0},
             NEW pool \in BOOLEAN, FinalizeFunds(j, e, to, pct, a, vr, fee, pool)
      PROVE  Solvent'
  <2>1. pct \in 100..200 /\ vr \in Nat /\ fee \in Nat /\ a \in Nat
    OBVIOUS
  <2>2. CanFinalizeJobFunds(ledger, j, pct, a, vr, fee)
        /\ ledger' = FinalizeJobFunds(ledger, j, e, to, pct, a, vr, fee, pool)
    BY <1>3 DEF FinalizeFunds
  <2>3. Books(ledger', ledger, 0)
    BY <1>0, <2>1, <2>2, FinalizeFundsBooks
  <2> QED BY <1>3, <2>3, SolventKept DEF FinalizeFunds
<1>4. ASSUME NEW j \in JobIds, NEW a \in Amounts, NEW vals \in ValidatorLists,
             DistributeValidatorRewards(j, vals, a)
      PROVE  Solvent'
  <2>1. a \in Nat /\ vals \in Seq(Accounts)
    BY ValidatorListsSeq
  <2>2. CanDistribute(ledger, j, vals, a) /\ ledger' = DistributeRewards(ledger, j, vals, a)
    BY <1>4 DEF DistributeValidatorRewards
  <2>3. Books(ledger', ledger, 0)
    BY <1>0, <2>1, <2>2, DistributeBooks
  <2> QED BY <1>4, <2>3, SolventKept DEF DistributeValidatorRewards
<1> QED BY <1>1, <1>2, <1>3, <1>4 DEF Escrows

LEMMA SolventDisputeFees == ASSUME TypeOK, Solvent, DisputeFees PROVE Solvent'
<1>0. Sound(ledger) /\ disputeFees \in Nat
  BY DEF TypeOK, Solvent
<1>1. ASSUME NEW u \in Accounts, NEW a \in FeeAmounts, LockDisputeFee(u, a) PROVE Solvent'
  <2>1. a \in Nat
    BY StakeManagerAssumption
  <2>2. disputeFees' \in Nat /\ disputeFees' - disputeFees = a
    BY <1>0, <1>1, <2>1 DEF LockDisputeFee
  <2>3. Books(ledger', ledger, a)
    BY <1>0, <1>1, <2>1, CollectBooks DEF LockDisputeFee
  <2> QED BY <1>0, <2>2, <2>3, SolventBooks
<1>2. ASSUME NEW u \in Accounts, NEW a \in FeeAmounts, PayDisputeFee(u, a) PROVE Solvent'
  <2>1. a \in Nat
    BY StakeManagerAssumption
  <2>2. disputeFees' \in Nat /\ disputeFees' - disputeFees = 0 - a
    BY <1>0, <1>2, <2>1 DEF PayDisputeFee
  <2>3. Books(ledger', ledger, 0 - a)
    BY <1>0, <1>2, <2>1, PayBooks DEF PayDisputeFee
  <2> QED BY <1>0, <2>2, <2>3, SolventBooks
<1> QED BY <1>1, <1>2 DEF DisputeFees

LEMMA SolventGovernance == ASSUME TypeOK, Solvent, Governance PROVE Solvent'
<1>0. Sound(ledger) /\ Free(ledger) \in Int /\ ledger.rewardPool \in Nat /\ ledger.balance \in Nat
  BY SoundSums DEF Solvent
<1>1. TypeOK'
  BY QuietSteps
<1>2. LedgerTypeOK(ledger) /\ LedgerTypeOK(ledger')
  BY <1>1 DEF TypeOK
<1>3. ASSUME NEW u \in Accounts, NEW a \in FeeAmounts, FundOperatorRewardPool(u, a)
      PROVE  Solvent'
  <2> DEFINE C == Collect(ledger, u, a)
             p == ledger.rewardPool + a
  <2>1. a \in Nat /\ p \in Nat /\ ledger.rewardPool - p = 0 - a
    BY <1>0, StakeManagerAssumption
  <2>2. Books(C, ledger, a)
    BY <1>0, <1>3, <2>1, CollectBooks DEF FundOperatorRewardPool
  <2>3. C.rewardPool = ledger.rewardPool
    <3>1. SameBut(C, ledger, TokenFields)
      BY <1>2, <2>1, CollectEffect
    <3> QED BY <3>1 DEF SameBut, TokenFields, LedgerFields
  <2>4. ledger' = [C EXCEPT !.rewardPool = p]
    BY <1>3, <2>3 DEF FundOperatorRewardPool
  <2> HIDE DEF C, p
  <2>5. Books(ledger', C, 0 - a)
    BY <2>1, <2>2, <2>3, <2>4, PoolBooks DEF Books
  <2>6. Books(ledger', ledger, 0)
    BY <1>0, <2>1, <2>2, <2>5 DEF Books
  <2> QED BY <1>3, <2>6, SolventKept DEF FundOperatorRewardPool
<1>4. ASSUME NEW u \in Accounts, NEW a \in FeeAmounts, WithdrawOperatorRewardPool(u, a)
      PROVE  Solvent'
  <2> DEFINE p == ledger.rewardPool - a
             D == [ledger EXCEPT !.rewardPool = p]
  <2>1. a \in Nat /\ p \in Nat /\ ledger.rewardPool - p = a
    BY <1>0, <1>4, StakeManagerAssumption DEF WithdrawOperatorRewardPool
  <2>2. ledger' = Pay(D, u, a)
    BY <1>4 DEF WithdrawOperatorRewardPool
  <2>3. D.balance = ledger.balance
    BY <1>2 DEF LedgerTypeOK, LedgerFields
  <2>4. Books(D, ledger, a)
    <3> HIDE DEF p
    <3> QED BY <1>0, <2>1, PoolBooks
  <2> HIDE DEF D, p
  <2>5. D.balance >= a
    BY <1>4, <2>3 DEF WithdrawOperatorRewardPool
  <2>6. Books(ledger', D, 0 - a)
    BY <2>1, <2>2, <2>4, <2>5, PayBooks DEF Books
  <2>7. Books(ledger', ledger, 0)
    BY <1>0, <2>1, <2>4, <2>6 DEF Books
  <2> QED BY <1>4, <2>7, SolventKept DEF WithdrawOperatorRewardPool
<1> DEFINE params == {"payoutPct", "minStake", "feePct", "burnPct", "treasuryOk", "unbondingPeriod"}
<1>5. ASSUME SameBut(ledger', ledger, params), ledger'.feePct + ledger'.burnPct <= 100,
             UNCHANGED disputeFees
      PROVE  Solvent'
  BY <1>0, <1>2, <1>5, ParamsBooks, SolventKept
<1>6. ledger.feePct + ledger.burnPct <= 100
  BY <1>0, SoundParts
<1>7. ASSUME NEW m \in MinStakes, SetMinStake(m) PROVE Solvent'
  <2>1. SameBut(ledger', ledger, params) /\ ledger'.feePct = ledger.feePct
        /\ ledger'.burnPct = ledger.burnPct
    BY <1>2, <1>7 DEF SetMinStake, SameBut, LedgerTypeOK, LedgerFields
  <2> QED BY <1>5, <1>6, <1>7, <2>1 DEF SetMinStake
<1>8. ASSUME NEW p \in FeeBurnPcts, SetFeeBurnPct(p[1], p[2]) PROVE Solvent'
  <2>1. SameBut(ledger', ledger, params) /\ ledger'.feePct = p[1] /\ ledger'.burnPct = p[2]
    BY <1>2, <1>8 DEF SetFeeBurnPct, SameBut, LedgerTypeOK, LedgerFields
  <2>2. p[1] + p[2] <= 100
    <3>1. p[1] \in 0..100 /\ p[2] \in 0..100 /\ p[1] + p[2] + SlashRewardPct <= 100
      BY StakeManagerAssumption
    <3>2. SlashRewardPct \in 0..100
      BY LedgerAssumption
    <3>3. \A x, y, z \in 0..100 : x + y + z <= 100 => x + y <= 100
      OBVIOUS
    <3> QED BY <3>1, <3>2, <3>3
  <2> QED BY <1>5, <1>8, <2>1, <2>2 DEF SetFeeBurnPct
<1>9. ASSUME NEW ok \in BOOLEAN, SetTreasuryAllowed(ok) PROVE Solvent'
  <2>1. SameBut(ledger', ledger, params) /\ ledger'.feePct = ledger.feePct
        /\ ledger'.burnPct = ledger.burnPct
    BY <1>2, <1>9 DEF SetTreasuryAllowed, SameBut, LedgerTypeOK, LedgerFields
  <2> QED BY <1>5, <1>6, <1>9, <2>1 DEF SetTreasuryAllowed
<1>10. ASSUME NEW p \in UnbondingPeriods, SetUnbondingPeriod(p) PROVE Solvent'
  <2>1. SameBut(ledger', ledger, params) /\ ledger'.feePct = ledger.feePct
        /\ ledger'.burnPct = ledger.burnPct
    BY <1>2, <1>10 DEF SetUnbondingPeriod, SameBut, LedgerTypeOK, LedgerFields
  <2> QED BY <1>5, <1>6, <1>10, <2>1 DEF SetUnbondingPeriod
<1> QED BY <1>3, <1>4, <1>7, <1>8, <1>9, <1>10 DEF Governance

LEMMA SolventEnvironment == ASSUME TypeOK, Solvent, Environment PROVE Solvent'
<1>0. Sound(ledger)
  BY DEF Solvent
<1>1. TypeOK'
  BY QuietSteps
<1>2. LedgerTypeOK(ledger) /\ LedgerTypeOK(ledger')
  BY <1>1 DEF TypeOK
<1>3. ASSUME NEW u \in Accounts, NEW pct \in PayoutPcts, NFTTransfer(u, pct) PROVE Solvent'
  <2>1. SameBut(ledger', ledger, {"payoutPct", "minStake", "feePct", "burnPct", "treasuryOk", "unbondingPeriod"})
        /\ ledger'.feePct = ledger.feePct /\ ledger'.burnPct = ledger.burnPct
    BY <1>2, <1>3 DEF NFTTransfer, SameBut, LedgerTypeOK, LedgerFields
  <2>2. Books(ledger', ledger, 0)
    BY <1>0, <1>2, <2>1, SoundParts, ParamsBooks
  <2> QED BY <1>3, <2>2, SolventKept DEF NFTTransfer
<1>4. CASE Tick
  BY <1>4 DEF Tick, Solvent
<1> QED BY <1>3, <1>4 DEF Environment

LEMMA SolventStep == IInv /\ Solvent /\ [Next]_vars => Solvent'
<1> SUFFICES ASSUME TypeOK, Solvent, [Next]_vars PROVE Solvent'
  BY DEF IInv
<1>1. CASE UNCHANGED vars
  BY <1>1 DEF vars, Solvent
<1>2. CASE Next
  BY <1>2, SolventParticipants, SolventLocks, SolventSlashes, SolventEscrows,
     SolventDisputeFees, SolventGovernance, SolventEnvironment DEF Next
<1> QED BY <1>1, <1>2

LEMMA InitSolvent == Init => Solvent
<1> SUFFICES ASSUME Init PROVE Solvent
  OBVIOUS
<1>1. PICK pcts \in [Accounts -> PayoutPcts], min \in MinStakes :
        ledger = EmptyLedger([u \in Accounts |-> Funds], pcts, min)
  BY DEF Init
<1>2. /\ pcts \in [Accounts -> 100..200] /\ min \in Nat
      /\ [u \in Accounts |-> Funds] \in [Accounts -> Nat]
  BY StakeManagerAssumption
<1>3. Sound(ledger) /\ Free(ledger) = 0
  BY <1>1, <1>2, EmptyBooks
<1> QED BY <1>3 DEF Init, Solvent
-----------------------------------------------------------------------------
(* The theorems. *)

LEMMA InitInv == Init => IInv
<1> SUFFICES ASSUME Init PROVE IInv
  OBVIOUS
<1>1. TypeOK
  BY InitType
<1>2. PICK pcts \in [Accounts -> PayoutPcts], min \in MinStakes :
        ledger = EmptyLedger([u \in Accounts |-> Funds], pcts, min)
  BY DEF Init
<1>3. LocksCovered
  BY <1>1, <1>2, TotalStakeNat DEF LocksCovered, EmptyLedger, TypeOK, Roles
<1> QED BY <1>1, <1>3 DEF IInv

LEMMA InitBounded == Init => UnbondBounded
<1> SUFFICES ASSUME Init PROVE UnbondBounded
  OBVIOUS
<1>1. PICK pcts \in [Accounts -> PayoutPcts], min \in MinStakes :
        ledger = EmptyLedger([u \in Accounts |-> Funds], pcts, min)
  BY DEF Init
<1> QED BY <1>1, LedgerAssumption DEF UnbondBounded, EmptyLedger, NoUnbond, Init

\* Every reachable state of the StakeManager has the types of TypeOK: no
\* stake, lock, escrow, pool or balance is ever negative.
THEOREM TypeCorrect == Spec => []TypeOK
<1>1. IInv => TypeOK
  BY DEF IInv
<1>2. IInv /\ [Next]_vars => IInv'
  BY Step DEF Kept
<1> QED BY <1>1, <1>2, InitInv, PTL DEF Spec

\* No sequence of deposits, withdrawals, locks, releases and slashes locks more
\* of an account's stake than it has.
THEOREM LocksAlwaysCovered == Spec => []LocksCovered
<1>1. IInv => LocksCovered
  BY DEF IInv
<1>2. IInv /\ [Next]_vars => IInv'
  BY Step DEF Kept
<1> QED BY <1>1, <1>2, InitInv, PTL DEF Spec

\* A pending withdrawal is never enlarged, and brought forward only by a slash
\* after governance has shortened the period, to a whole period of the new length.
THEOREM UnbondsNeverEased == Spec => UnbondNeverEased
<1>1. IInv /\ [Next]_vars => IInv'
  BY Step DEF Kept
<1>2. IInv /\ [Next]_vars => [UnbondsKept]_vars
  BY UnbondsKeptStep
<1>3. Spec => [][UnbondsKept]_vars
  BY <1>1, <1>2, InitInv, PTL DEF Spec
<1> QED BY <1>3, PTL DEF UnbondNeverEased, UnbondsKept

\* While governance does not shorten the unbonding period, nothing brings a pending
\* withdrawal forward: the exception of UnbondNeverEased is its doing only.
THEOREM UnbondsWaitTheirPeriod ==
  Spec /\ [][NotShortened]_vars => [][UnbondsWait]_vars
<1>1. IInv /\ [Next]_vars => IInv'
  BY Step DEF Kept
<1>2. IInv /\ UnbondBounded /\ [Next]_vars /\ [NotShortened]_vars
        => UnbondBounded' /\ [UnbondsWait]_vars
  BY UnbondsWaitStep
<1> QED BY <1>1, <1>2, InitInv, InitBounded, PTL DEF Spec

\* The aggregates per role, raw and boosted, are the sums over all accounts, of
\* any number of them, through every deposit, withdrawal, slash and
\* resynchronisation.
THEOREM StakesAlwaysAccounted == Spec => []StakeAccounting
<1>1. Solvent => StakeAccounting
  BY DEF Solvent, Sound, Accounted, StakeAccounting, Stakes, Boosts, Column
<1>2. IInv /\ [Next]_vars => IInv'
  BY Step DEF Kept
<1> QED BY <1>1, <1>2, InitInv, InitSolvent, SolventStep, PTL DEF Spec

\* The StakeManager always holds exactly the stakes, the escrows, the reward
\* pool and the dispute fees: no path of payments, bonuses, deficits, shares or
\* slashes spends somebody else's tokens or strands any.
THEOREM AlwaysExactlyBacked == Spec => []ExactlyBacked
<1>1. Solvent => ExactlyBacked
  <2> SUFFICES ASSUME Solvent PROVE ExactlyBacked
    OBVIOUS
  <2>1. Sound(ledger) /\ Free(ledger) = disputeFees
    BY DEF Solvent
  <2>2. ledger.wallet \in [Accounts -> Nat]
    BY <2>1, SoundParts
  <2>3. Held(ledger) \in Nat /\ ledger.balance \in Nat /\ ledger.balance - Held(ledger) = disputeFees
    BY <2>1, SoundSums DEF Free
  <2>4. ledger.balance = Held(ledger) + disputeFees
    BY <2>3
  <2> QED BY <2>2, <2>4 DEF Held, ExactlyBacked
<1>2. IInv /\ [Next]_vars => IInv'
  BY Step DEF Kept
<1> QED BY <1>1, <1>2, InitInv, InitSolvent, SolventStep, PTL DEF Spec
=============================================================================
