---------------------------- MODULE StakeLedger ----------------------------
(***************************************************************************)
(* The bookkeeping of contracts/StakeManager.sol as operators over a       *)
(* ledger record.  The StakeManager is called inside the transactions of   *)
(* other contracts, several times in one of them, so every function is an  *)
(* operator that returns the next ledger, beside a predicate CanXxx that   *)
(* is TRUE exactly when the Solidity call does not revert.  A transaction  *)
(* is the conjunction of its predicates and the composition of its         *)
(* operators; a revert is an action that is not enabled.                   *)
(*                                                                         *)
(* Amounts are naturals (18-decimal units are abstracted to small          *)
(* integers); every percentage keeps Solidity's integer division.  Tokens  *)
(* sent to the fee pool, the treasury or the burn address leave the model: *)
(* of them only the balance of the StakeManager matters here.              *)
(***************************************************************************)
EXTENDS Totals, Sequences, Functions, TLC

\* A recipient outside Accounts: the protocol treasury.
Treasury == "treasury"

CONSTANTS
  Accounts,           \* addresses that stake, employ, validate or are paid
  JobIds,             \* keys of jobEscrows
  MaxStakePerAddress, \* maxStakePerAddress, 0 when there is no limit
  UnbondingPeriod,    \* unbondingPeriod as deployed
  EmployerSlashPct,   \* employerSlashPct
  TreasurySlashPct,   \* treasurySlashPct
  SlashRewardPct,     \* StakeManager.validatorRewardPct
  FeePoolSet          \* whether StakeManager.feePool is configured

ASSUME LedgerAssumption ==
  /\ IsFiniteSet(JobIds)
  /\ MaxStakePerAddress \in Nat
  /\ UnbondingPeriod \in Nat
  /\ EmployerSlashPct \in 0..100
  /\ TreasurySlashPct \in 0..100
  /\ EmployerSlashPct + TreasurySlashPct <= 100
  /\ SlashRewardPct \in 0..100
  /\ FeePoolSet \in BOOLEAN
  /\ Treasury \notin Accounts

Roles == {"Agent", "Validator", "Platform"}

NoUnbond == [amt |-> 0, unlockAt |-> 0]

LedgerFields ==
  { "stakes", "totalStakes", "boosted", "totalBoosted", "locked", "unlockTime",
    "unbonds", "escrow", "rewardPool", "balance", "wallet", "payoutPct",
    "minStake", "feePct", "burnPct", "treasuryOk", "unbondingPeriod" }

\* The types of a ledger.  That the totals and the wallets are natural numbers
\* depends on sums over all accounts: StakeAccounting and ExactlyBacked say so.
LedgerTypeOK(L) ==
  /\ DOMAIN L = LedgerFields
  /\ L.stakes \in [Accounts -> [Roles -> Nat]]
  /\ L.totalStakes \in [Roles -> Int]
  /\ L.boosted \in [Accounts -> [Roles -> Nat]]
  /\ L.totalBoosted \in [Roles -> Int]
  /\ L.locked \in [Accounts -> Nat]
  /\ L.unlockTime \in [Accounts -> Nat]
  /\ L.unbonds \in [Accounts -> [amt : Nat, unlockAt : Nat]]
  /\ L.escrow \in [JobIds -> Nat]
  /\ L.rewardPool \in Nat
  /\ L.balance \in Nat
  /\ DOMAIN L.wallet = Accounts
  /\ L.payoutPct \in [Accounts -> 100..200]
  /\ L.minStake \in Nat
  /\ L.feePct \in 0..100
  /\ L.burnPct \in 0..100
  /\ L.treasuryOk \in BOOLEAN
  /\ L.unbondingPeriod \in Nat

\* The StakeManager just deployed: nothing staked, nothing escrowed, the tokens
\* in the participants' wallets.  feePct and burnPct are 0 until governance
\* sets them, treasuryOk holds while treasury is unset or allowlisted.
EmptyLedger(funds, pcts, min) ==
  [ stakes       |-> [u \in Accounts |-> [r \in Roles |-> 0]],
    totalStakes  |-> [r \in Roles |-> 0],
    boosted      |-> [u \in Accounts |-> [r \in Roles |-> 0]],
    totalBoosted |-> [r \in Roles |-> 0],
    locked       |-> [u \in Accounts |-> 0],
    unlockTime   |-> [u \in Accounts |-> 0],
    unbonds      |-> [u \in Accounts |-> NoUnbond],
    escrow       |-> [j \in JobIds |-> 0],
    rewardPool   |-> 0,
    balance      |-> 0,
    wallet       |-> funds,
    payoutPct    |-> pcts,
    minStake     |-> min,
    feePct       |-> 0,
    burnPct      |-> 0,
    treasuryOk   |-> TRUE,
    unbondingPeriod |-> UnbondingPeriod ]
-----------------------------------------------------------------------------
(* Arithmetic and token transfers. *)

Pct(amount, p) == (amount * p) \div 100
Monus(a, b) == IF a > b THEN a - b ELSE 0
Lesser(a, b) == IF a < b THEN a ELSE b

TotalStakeOf(L, u) ==
  L.stakes[u]["Agent"] + L.stakes[u]["Validator"] + L.stakes[u]["Platform"]

\* getTotalPayoutPct: 100, or the best AGI type NFT the account holds.
PayoutPctOf(L, to) == IF to \in Accounts THEN L.payoutPct[to] ELSE 100

\* token.safeTransfer from the StakeManager; a recipient outside Accounts
\* (treasury, fee pool, burn address) takes the tokens out of the model.
Credit(wallet, to, amount) ==
  IF to \in Accounts THEN [wallet EXCEPT ![to] = @ + amount] ELSE wallet
Pay(L, to, amount) ==
  [L EXCEPT !.balance = @ - amount, !.wallet = Credit(@, to, amount)]

\* token.safeTransferFrom into the StakeManager.
CanCollect(L, from, amount) == L.wallet[from] >= amount
Collect(L, from, amount) ==
  [L EXCEPT !.balance = @ + amount, !.wallet[from] = @ - amount]
-----------------------------------------------------------------------------
(* Stake, locks and unbonding. *)

\* Mutant of SetStake: the total of the boosted stake follows the raw stake.
SetStakeTotalRaw(L, u, r, s) ==
  [L EXCEPT !.stakes[u][r] = s,
            !.totalStakes[r] = @ + s - L.stakes[u][r],
            !.boosted[u] = [@ EXCEPT ![r] = Pct(s, L.payoutPct[u])],
            !.totalBoosted[r] = @ + s - L.stakes[u][r]]

\* The common tail of _deposit, _withdraw and _slash: the stake of a role
\* becomes s and the boosted stake is recomputed with the current NFTs.
SetStake(L, u, r, s) ==
  LET b == Pct(s, L.payoutPct[u]) IN
  [L EXCEPT !.stakes[u][r] = s,
            !.totalStakes[r] = @ + s - L.stakes[u][r],
            !.boosted[u][r] = b,
            !.totalBoosted[r] = @ + b - L.boosted[u][r]]

CanDeposit(L, u, r, amount) ==
  /\ amount > 0
  /\ L.stakes[u][r] + amount >= L.minStake
  /\ MaxStakePerAddress > 0 => TotalStakeOf(L, u) + amount <= MaxStakePerAddress
  /\ CanCollect(L, u, amount)
\* Mutant of Deposit: the tokens are not collected.
DepositUnpaid(L, u, r, amount) == SetStake(L, u, r, L.stakes[u][r] + amount)

Deposit(L, u, r, amount) ==
  Collect(SetStake(L, u, r, L.stakes[u][r] + amount), u, amount)

\* The lock is checked against the stake of all three roles together.
CanLockStake(L, u, amount) == TotalStakeOf(L, u) >= L.locked[u] + amount
LockStake(L, u, amount, until) ==
  [L EXCEPT !.locked[u] = @ + amount,
            !.unlockTime[u] = IF until > @ THEN until ELSE @]

\* Mutant of CanReleaseStake: only part of a lock can be released.
CanReleaseBelow(L, u, amount) == L.locked[u] > amount
\* Mutant of CanReleaseStake: the lock is not checked.
CanReleaseAny(L, u, amount) == TRUE

CanReleaseStake(L, u, amount) == L.locked[u] >= amount
ReleaseStake(L, u, amount) ==
  [L EXCEPT !.locked[u] = @ - amount,
            !.unlockTime[u] = IF L.locked[u] = amount THEN 0 ELSE @]

\* Mutant of CanTake: the lock is not checked.
CanTakeLocked(L, u, r, amount, now) ==
  LET left == L.stakes[u][r] - amount IN
  left >= 0 /\ (left = 0 \/ left >= L.minStake)

\* The conditions requestWithdraw and _withdraw share: the role holds the
\* amount, no dust below minStake is left, and a lock that has not expired
\* stays covered.
CanTake(L, u, r, amount, now) ==
  LET left == L.stakes[u][r] - amount IN
  /\ left >= 0
  /\ left = 0 \/ left >= L.minStake
  /\ (L.locked[u] > 0 /\ now < L.unlockTime[u])
       => TotalStakeOf(L, u) - amount >= L.locked[u]

\* Mutant of CanRequestWithdraw: a pending request is replaced.
CanRequestAgain(L, u, r, amount, now) ==
  amount > 0 /\ CanTake(L, u, r, amount, now)

CanRequestWithdraw(L, u, r, amount, now) ==
  /\ amount > 0
  /\ CanTake(L, u, r, amount, now)
  /\ L.unbonds[u].amt = 0
\* The request remembers neither the role nor reserves the stake.  The jailed
\* flag of an Unbond is only ever written false, so it is not kept.
RequestWithdraw(L, u, amount, now) ==
  [L EXCEPT !.unbonds[u] = [amt |-> amount, unlockAt |-> now + L.unbondingPeriod]]

CanWithdraw(L, u, r, amount, now) ==
  /\ CanTake(L, u, r, amount, now)
  /\ L.balance >= amount
LockExpired(L, u, now) == L.locked[u] > 0 /\ now >= L.unlockTime[u]
\* An expired lock is dropped whole, whatever job it was taken for.
Withdraw(L, u, r, amount, now) ==
  LET U == IF LockExpired(L, u, now)
           THEN [L EXCEPT !.locked[u] = 0, !.unlockTime[u] = 0]
           ELSE L
  IN Pay(SetStake(U, u, r, L.stakes[u][r] - amount), u, amount)

CanFinalizeWithdraw(L, u, r, now) ==
  /\ L.unbonds[u].amt > 0
  /\ now >= L.unbonds[u].unlockAt
  /\ L.locked[u] = 0
  /\ CanWithdraw(L, u, r, L.unbonds[u].amt, now)
FinalizeWithdraw(L, u, r, now) ==
  Withdraw([L EXCEPT !.unbonds[u] = NoUnbond], u, r, L.unbonds[u].amt, now)

\* syncBoostedStake
SyncBoosted(L, u, r) ==
  LET b == Pct(L.stakes[u][r], L.payoutPct[u]) IN
  [L EXCEPT !.boosted[u][r] = b,
            !.totalBoosted[r] = @ + b - L.boosted[u][r]]
-----------------------------------------------------------------------------
(* Job escrow. *)

CanLockReward(L, from, amount) == CanCollect(L, from, amount)
LockReward(L, j, from, amount) ==
  LET C == Collect(L, from, amount) IN
  [C EXCEPT !.escrow[j] = @ + amount]

\* How releaseReward splits an amount: the AGI bonus is applied first, then
\* fee and burn are cut, and a deficit of the escrow eats the burn, then the
\* fee.
ReleaseSplit(L, j, to, amount) ==
  LET modified == Pct(amount, PayoutPctOf(L, to))
      fee == Pct(modified, L.feePct)
      burn == Pct(modified, L.burnPct)
      deficit == Monus(modified, L.escrow[j])
      burnCut == Lesser(deficit, burn)
  IN [ payout |-> modified - fee - burn,
       fee |-> fee - Lesser(deficit - burnCut, fee),
       total |-> modified - deficit,
       short |-> deficit > fee + burn ]

CanReleaseReward(L, j, to, amount) ==
  LET s == ReleaseSplit(L, j, to, amount) IN
  /\ ~s.short
  /\ L.balance >= s.total
ReleaseReward(L, j, employer, to, amount) ==
  LET s == ReleaseSplit(L, j, to, amount)
      toEmployer == IF FeePoolSet THEN 0 ELSE s.fee
      gone == s.total - s.payout - toEmployer
      E == [L EXCEPT !.escrow[j] = @ - s.total,
                     !.balance = @ - gone]
  IN Pay(Pay(E, employer, toEmployer), to, s.payout)

\* Mutant of BonusOf: the bonus is not charged to the reward pool.
BonusUncharged(modified, base) == 0

\* The part of a boosted payout that the escrow does not hold.
BonusOf(modified, base) == Monus(modified, base)

\* _finalizeJobFunds: a deficit eats the fee, then the reward; a bonus above
\* the reward is drawn from the operator reward pool; what is left above the
\* validators' part goes into that pool.
FinalizeSplit(L, j, pct, reward, validatorReward, fee) ==
  LET available == L.escrow[j] - validatorReward
      deficit == Monus(reward + fee, available)
      feeAmount == fee - Lesser(deficit, fee)
      spentReward == reward - Monus(deficit, fee)
      modified == Pct(spentReward, pct)
      left == L.escrow[j] - spentReward - feeAmount
  IN [ available |-> available,
       fee |-> feeAmount,
       spentReward |-> spentReward,
       payout |-> modified - Pct(modified, L.burnPct),
       modified |-> modified,
       extra |-> BonusOf(modified, spentReward),
       left |-> left,
       surplus |-> Monus(left, validatorReward) ]

CanFinalizeJobFunds(L, j, pct, reward, validatorReward, fee) ==
  LET s == FinalizeSplit(L, j, pct, reward, validatorReward, fee) IN
  /\ s.available >= 0
  /\ s.spentReward >= 0
  /\ L.rewardPool >= s.extra
  /\ L.balance >= s.modified + s.fee
\* pool: whether the JobRegistry passed a fee pool; without one the fee goes
\* back to the employer.
FinalizeJobFunds(L, j, employer, payee, pct, reward, validatorReward, fee, pool) ==
  LET s == FinalizeSplit(L, j, pct, reward, validatorReward, fee)
      toEmployer == IF pool THEN 0 ELSE s.fee
      gone == s.modified - s.payout + s.fee - toEmployer
      E == [L EXCEPT !.escrow[j] = s.left - s.surplus,
                     !.rewardPool = @ - s.extra + s.surplus,
                     !.balance = @ - gone]
  IN Pay(Pay(E, payee, s.payout), employer, toEmployer)

\* distributeValidatorRewards: shares weighted by payout percentage, the
\* remainder to the first validator of the largest weight.
RewardShares(L, vals, amount) ==
  LET weight == [i \in DOMAIN vals |-> L.payoutPct[vals[i]]]
      share == Prorated(amount, weight)
      top == CHOOSE i \in DOMAIN vals :
               \A k \in DOMAIN vals :
                  weight[k] < weight[i] \/ (weight[k] = weight[i] /\ i <= k)
  IN [share EXCEPT ![top] = @ + (amount - Total(share))]

\* Pay shares[i] to vals[i] for every i; nobody occurs twice in vals.
PayShares(L, vals, shares) ==
  [L EXCEPT !.wallet = [u \in Accounts |->
      @[u] + Total([i \in {i \in DOMAIN vals : vals[i] = u} |-> shares[i]])]]

CanDistribute(L, j, vals, amount) ==
  amount > 0 => /\ Len(vals) > 0
                /\ L.escrow[j] >= amount
                /\ L.balance >= amount
DistributeRewards(L, j, vals, amount) ==
  IF amount = 0 THEN L
  ELSE LET E == [L EXCEPT !.escrow[j] = @ - amount,
                          !.balance = @ - amount]
       IN PayShares(E, vals, RewardShares(L, vals, amount))
-----------------------------------------------------------------------------
(* Slashing. *)

\* What is left of a pending withdrawal when amount of a role's staked tokens
\* is slashed.
SlashedUnbond(L, u, staked, amount, now) ==
  LET pending == L.unbonds[u].amt
      reduction == IF staked = 0 THEN pending ELSE (pending * amount) \div staked
      updated == IF staked <= amount THEN 0
                 ELSE Lesser(Monus(pending, reduction), staked - amount)
  IN IF pending = 0 THEN L.unbonds[u]
     ELSE IF updated = 0 THEN NoUnbond
     ELSE [amt |-> updated, unlockAt |-> now + L.unbondingPeriod]

\* Shares of the validators in a slash, by Validator stake, rounded down.
SlashShares(L, vals, pot) ==
  LET weight == [i \in DOMAIN vals |-> L.stakes[vals[i]]["Validator"]]
  IN IF Total(weight) = 0 THEN [i \in DOMAIN vals |-> 0] ELSE Prorated(pot, weight)

CanSlash(L, u, r, amount) ==
  /\ L.stakes[u][r] >= amount
  /\ L.treasuryOk
  /\ L.balance >= amount
\* _slash: the employer's share to the recipient, part of the burned share
\* (of the treasury's when nothing is burned) to the validators, the rest to
\* the treasury and the burn address.
Slash(L, u, r, amount, recipient, vals, now) ==
  LET employerShare == Pct(amount, EmployerSlashPct)
      burnShare == amount - employerShare - Pct(amount, TreasurySlashPct)
      pot == IF Len(vals) = 0 THEN 0
             ELSE Pct(IF burnShare > 0 THEN burnShare
                      ELSE amount - employerShare, SlashRewardPct)
      S == SetStake(L, u, r, L.stakes[u][r] - amount)
      T == [S EXCEPT !.unbonds[u] = SlashedUnbond(L, u, L.stakes[u][r], amount, now),
                     !.locked[u] = Monus(@, amount),
                     !.unlockTime[u] = IF L.locked[u] > 0 /\ amount >= L.locked[u] THEN 0 ELSE @,
                     !.balance = @ - (amount - employerShare)]
  IN PayShares(Pay(T, recipient, employerShare), vals, SlashShares(S, vals, pot))
=============================================================================
