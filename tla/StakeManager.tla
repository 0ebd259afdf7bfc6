---------------------------- MODULE StakeManager ----------------------------
(***************************************************************************)
(* contracts/StakeManager.sol on its own: participants deposit, unbond and *)
(* withdraw; the JobRegistry and the dispute module, whoever they are,     *)
(* lock, release, pay and slash with any arguments the access modifiers    *)
(* let through; governance tunes the parameters and the reward pool; NFTs  *)
(* change hands.  One action per external function; the variants that only *)
(* add a tax acknowledgement or a beneficiary share the action.            *)
(***************************************************************************)
EXTENDS StakeLedger

CONSTANTS
  Amounts,      \* amounts passed to the calls
  FeeAmounts,   \* dispute fees, and amounts moved into and out of the reward pool
  StakeRoles,   \* roles the calls are made for
  LockTimes,    \* lockTime arguments
  PayoutPcts,   \* payout percentages an account's NFTs may give
  MinStakes,    \* values governance gives minStake
  FeeBurnPcts,  \* values governance gives feePct and burnPct
  UnbondingPeriods, \* values governance gives unbondingPeriod
  Funds,        \* tokens every account starts with
  MaxTime       \* bound on the clock

ASSUME StakeManagerAssumption ==
  /\ Amounts \subseteq Nat /\ FeeAmounts \subseteq Nat
  /\ StakeRoles \subseteq Roles
  /\ LockTimes \subseteq Nat
  /\ PayoutPcts \subseteq 100..200
  /\ MinStakes \subseteq Nat \ {0}
  /\ FeeBurnPcts \subseteq {p \in (0..100) \X (0..100) : p[1] + p[2] + SlashRewardPct <= 100}
  /\ UnbondingPeriods \subseteq Nat \ {0}
  /\ Funds \in Nat
  /\ MaxTime \in Nat

VARIABLES
  ledger,       \* the StakeManager's storage and the token balances
  disputeFees,  \* fees the dispute module has locked and not yet paid out
  now           \* block.timestamp

vars == <<ledger, disputeFees, now>>

Init ==
  /\ \E pcts \in [Accounts -> PayoutPcts], min \in MinStakes :
       ledger = EmptyLedger([u \in Accounts |-> Funds], pcts, min)
  /\ disputeFees = 0
  /\ now = 0
-----------------------------------------------------------------------------
(* Participants. *)

DepositStake(u, r, amount) ==
  /\ CanDeposit(ledger, u, r, amount)
  /\ ledger' = Deposit(ledger, u, r, amount)
  /\ UNCHANGED <<disputeFees, now>>

AskWithdraw(u, r, amount) ==
  /\ CanRequestWithdraw(ledger, u, r, amount, now)
  /\ ledger' = RequestWithdraw(ledger, u, amount, now)
  /\ UNCHANGED <<disputeFees, now>>

\* The role is chosen again here: nothing ties it to the one requested.
CompleteWithdraw(u, r) ==
  /\ CanFinalizeWithdraw(ledger, u, r, now)
  /\ ledger' = FinalizeWithdraw(ledger, u, r, now)
  /\ UNCHANGED <<disputeFees, now>>

\* withdrawStake, acknowledgeAndWithdraw and acknowledgeAndWithdrawFor.
WithdrawStake(u, r, amount) ==
  /\ CanWithdraw(ledger, u, r, amount, now)
  /\ ledger' = Withdraw(ledger, u, r, amount, now)
  /\ UNCHANGED <<disputeFees, now>>

SyncBoostedStake(u, r) ==
  /\ ledger' = SyncBoosted(ledger, u, r)
  /\ UNCHANGED <<disputeFees, now>>
-----------------------------------------------------------------------------
(* The JobRegistry. *)

LockAgentStake(u, amount, lockTime) ==
  /\ CanLockStake(ledger, u, amount)
  /\ ledger' = LockStake(ledger, u, amount, now + lockTime)
  /\ UNCHANGED <<disputeFees, now>>

ReleaseAgentStake(u, amount) ==
  /\ CanReleaseStake(ledger, u, amount)
  /\ ledger' = ReleaseStake(ledger, u, amount)
  /\ UNCHANGED <<disputeFees, now>>

LockJobReward(j, from, amount) ==
  /\ CanLockReward(ledger, from, amount)
  /\ ledger' = LockReward(ledger, j, from, amount)
  /\ UNCHANGED <<disputeFees, now>>

ReleaseJobReward(j, employer, to, amount) ==
  /\ CanReleaseReward(ledger, j, to, amount)
  /\ ledger' = ReleaseReward(ledger, j, employer, to, amount)
  /\ UNCHANGED <<disputeFees, now>>

\* finalizeJobFunds and finalizeJobFundsWithPct: the former reads the
\* payee's percentage itself, the latter is given the one snapshotted when
\* the agent applied, so pct is any percentage an account may have had.
FinalizeFunds(j, employer, payee, pct, reward, validatorReward, fee, pool) ==
  /\ CanFinalizeJobFunds(ledger, j, pct, reward, validatorReward, fee)
  /\ ledger' = FinalizeJobFunds(ledger, j, employer, payee, pct,
                                reward, validatorReward, fee, pool)
  /\ UNCHANGED <<disputeFees, now>>

DistributeValidatorRewards(j, vals, amount) ==
  /\ CanDistribute(ledger, j, vals, amount)
  /\ ledger' = DistributeRewards(ledger, j, vals, amount)
  /\ UNCHANGED <<disputeFees, now>>

\* slash by the JobRegistry (any role) and by the dispute module (Validator).
SlashStake(u, r, amount, recipient, vals) ==
  /\ CanSlash(ledger, u, r, amount)
  /\ ledger' = Slash(ledger, u, r, amount, recipient, vals, now)
  /\ UNCHANGED <<disputeFees, now>>
-----------------------------------------------------------------------------
(* The dispute module: it pays out only fees it locked. *)

LockDisputeFee(payer, amount) ==
  /\ CanCollect(ledger, payer, amount)
  /\ ledger' = Collect(ledger, payer, amount)
  /\ disputeFees' = disputeFees + amount
  /\ UNCHANGED now

PayDisputeFee(to, amount) ==
  /\ disputeFees >= amount
  /\ ledger.balance >= amount
  /\ ledger' = Pay(ledger, to, amount)
  /\ disputeFees' = disputeFees - amount
  /\ UNCHANGED now
-----------------------------------------------------------------------------
(* Governance and the environment. *)

FundOperatorRewardPool(from, amount) ==
  /\ CanCollect(ledger, from, amount)
  /\ ledger' = [Collect(ledger, from, amount) EXCEPT !.rewardPool = @ + amount]
  /\ UNCHANGED <<disputeFees, now>>

WithdrawOperatorRewardPool(to, amount) ==
  /\ ledger.rewardPool >= amount
  /\ ledger.balance >= amount
  /\ ledger' = Pay([ledger EXCEPT !.rewardPool = @ - amount], to, amount)
  /\ UNCHANGED <<disputeFees, now>>

SetMinStake(min) ==
  /\ ledger' = [ledger EXCEPT !.minStake = min]
  /\ UNCHANGED <<disputeFees, now>>

\* Requests that are pending keep the end they were given.
SetUnbondingPeriod(period) ==
  /\ ledger' = [ledger EXCEPT !.unbondingPeriod = period]
  /\ UNCHANGED <<disputeFees, now>>

\* setFeePct and setBurnPct
SetFeeBurnPct(fee, burn) ==
  /\ ledger' = [ledger EXCEPT !.feePct = fee, !.burnPct = burn]
  /\ UNCHANGED <<disputeFees, now>>

\* setTreasuryAllowlist on the configured treasury.
SetTreasuryAllowed(ok) ==
  /\ ledger' = [ledger EXCEPT !.treasuryOk = ok]
  /\ UNCHANGED <<disputeFees, now>>

\* An AGI type NFT moves, or governance edits the AGI types: the percentage
\* changes and no stake is resynchronised.
NFTTransfer(u, pct) ==
  /\ ledger' = [ledger EXCEPT !.payoutPct[u] = pct]
  /\ UNCHANGED <<disputeFees, now>>

Tick ==
  /\ now < MaxTime
  /\ now' = now + 1
  /\ UNCHANGED <<ledger, disputeFees>>
-----------------------------------------------------------------------------
\* Validator lists without repetition, as the ValidationModule selects them.
ValidatorLists ==
  {<<>>} \cup {<<v>> : v \in Accounts}
         \cup {<<p[1], p[2]>> : p \in {q \in Accounts \X Accounts : q[1] # q[2]}}

Participants ==
  \E u \in Accounts, r \in StakeRoles :
    \/ \E a \in Amounts : DepositStake(u, r, a) \/ AskWithdraw(u, r, a)
                            \/ WithdrawStake(u, r, a)
    \/ CompleteWithdraw(u, r)
    \/ SyncBoostedStake(u, r)

Locks ==
  \E u \in Accounts, a \in Amounts :
    \/ \E t \in LockTimes : LockAgentStake(u, a, t)
    \/ ReleaseAgentStake(u, a)

Slashes ==
  \E u \in Accounts, r \in StakeRoles, a \in Amounts,
     to \in Accounts \cup {Treasury}, vals \in ValidatorLists :
    SlashStake(u, r, a, to, vals)

Escrows ==
  \E j \in JobIds, e \in Accounts, a \in Amounts :
    \/ LockJobReward(j, e, a)
    \/ \E to \in Accounts \cup {Treasury} : ReleaseJobReward(j, e, to, a)
    \/ \E to \in Accounts, pct \in PayoutPcts, vr, fee \in Amounts \cup {0}, pool \in BOOLEAN :
         FinalizeFunds(j, e, to, pct, a, vr, fee, pool)
    \/ \E vals \in ValidatorLists : DistributeValidatorRewards(j, vals, a)

DisputeFees ==
  \E u \in Accounts, a \in FeeAmounts : LockDisputeFee(u, a) \/ PayDisputeFee(u, a)

Governance ==
  \/ \E u \in Accounts, a \in FeeAmounts :
       FundOperatorRewardPool(u, a) \/ WithdrawOperatorRewardPool(u, a)
  \/ \E m \in MinStakes : SetMinStake(m)
  \/ \E p \in UnbondingPeriods : SetUnbondingPeriod(p)
  \/ \E p \in FeeBurnPcts : SetFeeBurnPct(p[1], p[2])
  \/ \E ok \in BOOLEAN : SetTreasuryAllowed(ok)

Environment ==
  \/ \E u \in Accounts, pct \in PayoutPcts : NFTTransfer(u, pct)
  \/ Tick

Next ==
  Participants \/ Locks \/ Slashes \/ Escrows \/ DisputeFees \/ Governance \/ Environment

Spec == Init /\ [][Next]_vars
-----------------------------------------------------------------------------
(* Properties. *)

\* Every field has its type; in particular no checked subtraction of the
\* Solidity code is ever reached with a negative result.
TypeOK ==
  /\ LedgerTypeOK(ledger)
  /\ disputeFees \in Nat
  /\ now \in Nat

\* docs/invariants.md, "Total stake accounting": the aggregate per role is the
\* sum of the accounts' balances, for the raw and for the boosted stake, through
\* every deposit, withdrawal, slash and resynchronisation.
StakeAccounting ==
  \A r \in Roles :
    /\ ledger.totalStakes[r] = Total([u \in Accounts |-> ledger.stakes[u][r]])
    /\ ledger.totalBoosted[r] = Total([u \in Accounts |-> ledger.boosted[u][r]])

\* docs/invariants.md, "Solvency", made exact: the tokens held are the stake of
\* all roles, the reward pool, the job escrows and the dispute fees, so no
\* payout path (bonus, deficit, rounding, validator shares) ever pays with
\* somebody else's tokens nor strands tokens nobody can claim.
ExactlyBacked ==
  /\ ledger.balance = Total(ledger.totalStakes) + Total(ledger.escrow)
                      + ledger.rewardPool + disputeFees
  /\ ledger.wallet \in [Accounts -> Nat]

\* The stake of all roles covers the lock (lockedStakes) at all times: a
\* slash of one role, a withdrawal before the unlock time and the expiry of
\* the lock never leave more locked than staked.
LocksCovered ==
  \A u \in Accounts : ledger.locked[u] <= TotalStakeOf(ledger, u)

\* A pending withdrawal is never enlarged: a new request, a second deposit or a
\* slash in the meantime leave its amount or lessen it.  Nor is it brought
\* forward, but for one case: when governance has shortened the period, so that
\* more time is left than a new request would wait, a slash starts the wait
\* again with a whole period of the new length.
UnbondNeverEased ==
  [][\A u \in Accounts :
       LET old == ledger.unbonds[u]
           new == ledger'.unbonds[u]
           again == now + ledger.unbondingPeriod
       IN old.amt > 0 /\ new.amt > 0
            => /\ new.amt <= old.amt
               /\ \/ new.unlockAt >= old.unlockAt
                  \/ old.unlockAt > again /\ new.unlockAt = again]_vars
=============================================================================
