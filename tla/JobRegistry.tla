---------------------------- MODULE JobRegistry ----------------------------
(***************************************************************************)
(* contracts/JobRegistry.sol: the life of a job from its escrow to its     *)
(* settlement.  Every action is one transaction; the calls it makes to the *)
(* StakeManager are the operators of StakeLedger, so a revert anywhere     *)
(* disables the whole action.  The ValidationModule and the dispute module *)
(* are whoever holds these addresses: they may report any result at any    *)
(* time the access checks allow.  Participants deposit and withdraw their  *)
(* stake directly at the StakeManager between the steps of a job.          *)
(***************************************************************************)
EXTENDS StakeLedger

CONSTANTS
  Employers,            \* accounts that post jobs
  Agents,               \* accounts the identity registry accepts as agents
  Validators,           \* accounts the ValidationModule may report
  None,                 \* address(0)
  Rewards,              \* rewards of createJob
  JobStakes,            \* values of jobStake when a job is created
  Durations,            \* seconds from creation to deadline
  GracePeriod,          \* expirationGracePeriod
  MinAgentStake,        \* minAgentStake
  MaxActiveJobs,        \* maxActiveJobsPerAgent, 0 when there is no limit
  RegistryFeePool,      \* whether JobRegistry.feePool is configured
  TreasurySet,          \* whether JobRegistry.treasury is configured
  FeeRewardPcts,        \* values of <<feePct, validatorRewardPct>>
  BurnPcts,             \* values of StakeManager.burnPct
  Deposits,             \* amounts deposited or withdrawn at the StakeManager
  InitialPcts,          \* NFT payout percentage of every account at the start
  PayoutPcts,           \* percentages an account may change to
  Blacklistable,        \* accounts whose blacklist status may change
  Funds,                \* tokens of every account at the start
  MaxTime               \* bound on the clock

ASSUME RegistryAssumption ==
  /\ JobIds \subseteq Nat \ {0}
  /\ Employers \subseteq Accounts
  /\ Agents \subseteq Accounts
  /\ Validators \subseteq Accounts
  /\ None \notin Accounts
  /\ Rewards \subseteq Nat
  /\ JobStakes \subseteq Nat
  /\ Durations \subseteq Nat \ {0}
  /\ GracePeriod \in Nat
  /\ MinAgentStake \in Nat
  /\ MaxActiveJobs \in Nat
  /\ RegistryFeePool \in BOOLEAN
  /\ TreasurySet \in BOOLEAN
  /\ FeeRewardPcts \subseteq {p \in (0..100) \X (0..100) : p[1] + p[2] <= 100}
  /\ BurnPcts \subseteq 0..100
  /\ Deposits \subseteq Nat \ {0}
  /\ InitialPcts \in [Accounts -> 100..200]
  /\ PayoutPcts \subseteq 100..200
  /\ Blacklistable \subseteq Accounts
  /\ Funds \in [Accounts -> Nat]
  /\ MaxTime \in Nat

VARIABLES
  jobs,             \* jobs, with the packed metadata
  nextJobId,        \* nextJobId
  burnReceipts,     \* jobs with a burn receipt (burnReceipts[id][hash].exists)
  startPending,     \* jobs with validationStartPending
  starts,           \* calls of validationModule.start made for a job
  jobValidators,    \* jobValidators
  repProcessed,     \* jobs with reputationProcessed
  disputeOpen,      \* jobs the dispute module has an open dispute for
  activeJobs,       \* activeJobs
  stats,            \* employerStats
  pcts,             \* <<feePct, validatorRewardPct>>
  blacklist,        \* accounts reputationEngine.isBlacklisted
  ledger,           \* the StakeManager
  now               \* block.timestamp

vars == <<jobs, nextJobId, burnReceipts, startPending, starts, jobValidators,
          repProcessed, disputeOpen, activeJobs, stats, pcts, blacklist, ledger, now>>

States == {"None", "Created", "Applied", "Submitted", "Completed", "Disputed",
           "Finalized", "Cancelled"}

JobType ==
  [ state : States, employer : Accounts \cup {None}, agent : Accounts \cup {None},
    reward : Nat, stake : Nat, feePct : 0..100, agentPct : 0..200,
    deadline : Nat, success : BOOLEAN, burnConfirmed : BOOLEAN ]

NoJob ==
  [ state |-> "None", employer |-> None, agent |-> None, reward |-> 0,
    stake |-> 0, feePct |-> 0, agentPct |-> 0, deadline |-> 0,
    success |-> FALSE, burnConfirmed |-> FALSE ]

Init ==
  /\ jobs = [j \in JobIds |-> NoJob]
  /\ nextJobId = 0
  /\ burnReceipts = {}
  /\ startPending = {}
  /\ starts = [j \in JobIds |-> 0]
  /\ jobValidators = [j \in JobIds |-> <<>>]
  /\ repProcessed = {}
  /\ disputeOpen = {}
  /\ activeJobs = [a \in Accounts |-> 0]
  /\ stats = [e \in Accounts |-> [successful |-> 0, failed |-> 0]]
  /\ pcts \in FeeRewardPcts
  /\ blacklist = {}
  /\ \E b \in BurnPcts :
       ledger = [EmptyLedger(Funds, InitialPcts, 1) EXCEPT !.burnPct = b]
  /\ now = 0
-----------------------------------------------------------------------------
(* Helpers. *)

\* Mutant of FeeOf: the current percentage instead of the job's own.
FeeOfCurrent(job) == Pct(job.reward, pcts[1])

FeeOf(job) == Pct(job.reward, job.feePct)

\* What createJob escrows and every refund asks back: reward and fee.
Escrowed(job) == job.reward + FeeOf(job)

Status(j, s) == [jobs EXCEPT ![j].state = s]

Decided(j, s, ok) == [jobs EXCEPT ![j].state = s, ![j].success = ok]

\* Mutant of Released: the slot is not given back.
ReleasedNever(a) == activeJobs

Released(a) ==
  IF a # None /\ activeJobs[a] > 0
  THEN [activeJobs EXCEPT ![a] = @ - 1] ELSE activeJobs

Counted(e, ok) ==
  IF ok THEN [stats EXCEPT ![e].successful = @ + 1] ELSE [stats EXCEPT ![e].failed = @ + 1]

\* Mutant of ClearJob: the validators are kept.
ClearReputationOnly(j) ==
  jobValidators' = jobValidators /\ repProcessed' = repProcessed \ {j}

\* _clearValidatorData followed by the reset of reputationProcessed.
ClearJob(j) ==
  /\ jobValidators' = [jobValidators EXCEPT ![j] = <<>>]
  /\ repProcessed' = repProcessed \ {j}

burnRequired == ledger.burnPct > 0

config == <<pcts, blacklist, now>>
-----------------------------------------------------------------------------
(* Posting, assignment and submission. *)

CreateJob(e, reward, stake, duration) ==
  LET j == nextJobId + 1
      job == [ state |-> "Created", employer |-> e, agent |-> None,
               reward |-> reward, stake |-> stake, feePct |-> pcts[1],
               agentPct |-> 100, deadline |-> now + duration,
               success |-> FALSE, burnConfirmed |-> FALSE ]
  IN /\ j \in JobIds
     /\ reward > 0 \/ stake > 0
     /\ e \notin blacklist
     /\ reward > 0 => CanLockReward(ledger, e, Escrowed(job))
     /\ nextJobId' = j
     /\ jobs' = [jobs EXCEPT ![j] = job]
     /\ ledger' = IF reward > 0 THEN LockReward(ledger, j, e, Escrowed(job)) ELSE ledger
     /\ UNCHANGED <<burnReceipts, startPending, starts, jobValidators, repProcessed,
                    disputeOpen, activeJobs, stats, config>>

\* The lock runs to the deadline, or for no time at all once it has passed:
\* applying after the deadline is allowed.
ApplyForJob(a, j) ==
  LET job == jobs[j]
      until == IF job.deadline > now THEN job.deadline ELSE now
  IN /\ job.state = "Created"
     /\ a \notin blacklist
     /\ ledger.stakes[a]["Agent"] >= MinAgentStake
     /\ job.stake > 0 => CanLockStake(ledger, a, job.stake)
     /\ MaxActiveJobs # 0 => activeJobs[a] < MaxActiveJobs
     /\ ledger' = IF job.stake > 0 THEN LockStake(ledger, a, job.stake, until) ELSE ledger
     /\ jobs' = [jobs EXCEPT ![j].agent = a, ![j].state = "Applied",
                             ![j].agentPct = ledger.payoutPct[a]]
     /\ activeJobs' = [activeJobs EXCEPT ![a] = @ + 1]
     /\ UNCHANGED <<nextJobId, burnReceipts, startPending, starts, jobValidators,
                    repProcessed, disputeOpen, stats, config>>

\* Submission starts validation at once, unless burn evidence is missing.
Submit(j) ==
  LET job == jobs[j]
      wait == burnRequired /\ ~job.burnConfirmed
  IN /\ job.state = "Applied"
     /\ now <= job.deadline
     /\ {job.agent, job.employer} \cap blacklist = {}
     /\ jobs' = Status(j, "Submitted")
     /\ startPending' = IF wait THEN startPending \cup {j} ELSE startPending \ {j}
     /\ starts' = IF wait THEN starts ELSE [starts EXCEPT ![j] = @ + 1]
     /\ UNCHANGED <<nextJobId, burnReceipts, jobValidators, repProcessed, disputeOpen,
                    activeJobs, stats, ledger, config>>

\* The employer's burn evidence is accepted in every state of the job.
SubmitBurnReceipt(j) ==
  /\ jobs[j].employer # None
  /\ burnReceipts' = burnReceipts \cup {j}
  /\ UNCHANGED <<jobs, nextJobId, startPending, starts, jobValidators, repProcessed,
                 disputeOpen, activeJobs, stats, ledger, config>>

\* Mutant of ConfirmEmployerBurn: a confirmation starts validation although no
\* start is pending.
ConfirmStarting(j) ==
  /\ jobs[j].employer # None
  /\ j \in burnReceipts
  /\ jobs' = [jobs EXCEPT ![j].burnConfirmed = TRUE]
  /\ startPending' = startPending \ {j}
  /\ starts' = IF jobs[j].state = "Submitted" THEN [starts EXCEPT ![j] = @ + 1] ELSE starts
  /\ UNCHANGED <<nextJobId, burnReceipts, jobValidators, repProcessed, disputeOpen,
                 activeJobs, stats, ledger, config>>

ConfirmEmployerBurn(j) ==
  LET begin == j \in startPending /\ jobs[j].state = "Submitted" IN
  /\ jobs[j].employer # None
  /\ j \in burnReceipts
  /\ jobs' = [jobs EXCEPT ![j].burnConfirmed = TRUE]
  /\ startPending' = IF begin THEN startPending \ {j} ELSE startPending
  /\ starts' = IF begin THEN [starts EXCEPT ![j] = @ + 1] ELSE starts
  /\ UNCHANGED <<nextJobId, burnReceipts, jobValidators, repProcessed, disputeOpen,
                 activeJobs, stats, ledger, config>>
-----------------------------------------------------------------------------
(* Calls of the ValidationModule. *)

\* Mutant of AfterValidation: a result is taken although a dispute is open.
AfterValidationLate(j, success) ==
  /\ jobs[j].state \in {"Submitted", "Disputed"}
  /\ startPending' = startPending \ {j}
  /\ jobs' = Decided(j, IF success THEN "Completed" ELSE "Disputed", success)

\* _finalizeAfterValidation
AfterValidation(j, success) ==
  /\ jobs[j].state = "Submitted"
  /\ startPending' = startPending \ {j}
  /\ jobs' = Decided(j, IF success THEN "Completed" ELSE "Disputed", success)

\* onValidationResult
OnValidationResult(j, success, vals) ==
  /\ AfterValidation(j, success)
  /\ jobValidators' = [jobValidators EXCEPT ![j] = vals]
  /\ UNCHANGED <<nextJobId, burnReceipts, starts, repProcessed, disputeOpen,
                 activeJobs, stats, ledger, config>>

\* finalizeAfterValidation and validationComplete: no validators reported.
ValidationComplete(j, success) ==
  /\ AfterValidation(j, success)
  /\ UNCHANGED <<nextJobId, burnReceipts, starts, jobValidators, repProcessed,
                 disputeOpen, activeJobs, stats, ledger, config>>

\* Mutant of ForceFinalize: an unfinished job of any state is completed.
ForceFinalizeAny(j) ==
  /\ jobs[j].state \in {"Applied", "Submitted", "Disputed"}
  /\ startPending' = startPending \ {j}
  /\ jobs' = Decided(j, "Completed", FALSE)
  /\ UNCHANGED <<nextJobId, burnReceipts, starts, jobValidators, repProcessed,
                 disputeOpen, activeJobs, stats, ledger, config>>

ForceFinalize(j) ==
  /\ jobs[j].state = "Submitted"
  /\ startPending' = startPending \ {j}
  /\ jobs' = Decided(j, "Completed", FALSE)
  /\ UNCHANGED <<nextJobId, burnReceipts, starts, jobValidators, repProcessed,
                 disputeOpen, activeJobs, stats, ledger, config>>

\* Whatever the job's state: the registry checks nothing but the caller.
MarkReputationProcessed(j) ==
  /\ repProcessed' = repProcessed \cup {j}
  /\ UNCHANGED <<jobs, nextJobId, burnReceipts, startPending, starts, jobValidators,
                 disputeOpen, activeJobs, stats, ledger, config>>
-----------------------------------------------------------------------------
(* Disputes. *)

\* dispute, raiseDispute and acknowledgeAndDispute; the dispute module
\* refuses a second open dispute for the job.
Dispute(j, claimant) ==
  LET job == jobs[j] IN
  /\ claimant \in {job.agent, job.employer} \ {None}
  /\ job.state = "Completed" \/ (job.state = "Disputed" /\ ~job.success)
  /\ {claimant, job.agent, job.employer} \cap blacklist = {}
  /\ j \notin disputeOpen
  /\ jobs' = Status(j, "Disputed")
  /\ disputeOpen' = disputeOpen \cup {j}
  /\ UNCHANGED <<nextJobId, burnReceipts, startPending, starts, jobValidators,
                 repProcessed, activeJobs, stats, ledger, config>>

ResolveDispute(j, employerWins) ==
  /\ j \in disputeOpen
  /\ jobs[j].state = "Disputed"
  /\ disputeOpen' = disputeOpen \ {j}
  /\ jobs' = Decided(j, "Completed", ~employerWins)
  /\ ClearJob(j)
  /\ UNCHANGED <<nextJobId, burnReceipts, startPending, starts, activeJobs, stats,
                 ledger, config>>
-----------------------------------------------------------------------------
(* Settlement. *)

\* The payments of a settlement, as a chain of StakeManager calls from ledger
\* L: ok is FALSE when one of them reverts.  redirect: governance finalizes
\* against a blacklisted participant with a treasury set.

\* _finalize, success branch.  The validators' percentage is the current one.
PaySuccess(L, j, redirect) ==
  LET job == jobs[j]
      vals == jobValidators[j]
      validatorReward == IF Len(vals) > 0 THEN Pct(job.reward, pcts[2]) ELSE 0
      rest == job.reward - validatorReward
      fee == IF RegistryFeePool THEN FeeOf(job) ELSE 0
      pct == IF job.agentPct = 0 THEN 100 ELSE job.agentPct
      payee == IF redirect THEN Treasury ELSE job.agent
      L1 == FinalizeJobFunds(L, j, job.employer, payee, pct, rest, validatorReward,
                             fee, RegistryFeePool)
      L2 == DistributeRewards(L1, j, vals, validatorReward)
      L3 == IF job.stake = 0 THEN L2
            ELSE IF redirect
                 THEN Slash(L2, job.agent, "Agent", job.stake, Treasury, vals, now)
                 ELSE ReleaseStake(L2, job.agent, job.stake)
  IN [ ok |-> /\ CanFinalizeJobFunds(L, j, pct, rest, validatorReward, fee)
              /\ CanDistribute(L1, j, vals, validatorReward)
              /\ job.stake > 0 => IF redirect
                                  THEN CanSlash(L2, job.agent, "Agent", job.stake)
                                  ELSE CanReleaseStake(L2, job.agent, job.stake),
       ledger |-> L3 ]

\* The refund and the slash of a failed job: _finalize's failure branch,
\* claimTimeout and (with nothing to slash) _cancelJob.
PayFailure(L, job, j, recipient, vals) ==
  LET L1 == IF job.reward > 0
            THEN ReleaseReward(L, j, job.employer, recipient, Escrowed(job)) ELSE L
      slash == job.stake > 0 /\ job.agent # None
  IN [ ok |-> /\ job.reward > 0 => CanReleaseReward(L, j, recipient, Escrowed(job))
              /\ slash => CanSlash(L1, job.agent, "Agent", job.stake),
       ledger |-> IF slash
                  THEN Slash(L1, job.agent, "Agent", job.stake, recipient, vals, now)
                  ELSE L1 ]

\* The settlement of job j with the given outcome, by governance or not.
Settlement(j, success, byGov) ==
  LET job == jobs[j]
      redirect == byGov /\ TreasurySet
                    /\ (IF success THEN job.agent ELSE job.employer) \in blacklist
  IN IF success THEN PaySuccess(ledger, j, redirect)
     ELSE PayFailure(ledger, job, j, IF redirect THEN Treasury ELSE job.employer,
                     jobValidators[j])

\* The employer's finalize is refused to blacklisted participants,
\* governance's is not.
MayFinalize(j, byGov) ==
  byGov \/ {jobs[j].agent, jobs[j].employer} \cap blacklist = {}

\* finalize, acknowledgeAndFinalize
Finalize(j, byGov) ==
  LET job == jobs[j]
      pay == Settlement(j, job.success, byGov)
  IN /\ job.state = "Completed"
     /\ MayFinalize(j, byGov)
     /\ pay.ok
     /\ ledger' = pay.ledger
     /\ jobs' = Status(j, "Finalized")
     /\ startPending' = startPending \ {j}
     /\ stats' = Counted(job.employer, job.success)
     /\ activeJobs' = Released(job.agent)
     /\ ClearJob(j)
     /\ UNCHANGED <<nextJobId, burnReceipts, starts, disputeOpen, config>>

\* cancelExpiredJob: past deadline and grace, an assigned job is completed as
\* failed and finalized in the same transaction.
CancelExpiredJob(j, byGov) ==
  LET job == jobs[j]
      pay == Settlement(j, FALSE, byGov)
  IN /\ job.state = "Applied"
     /\ now > job.deadline + GracePeriod
     /\ MayFinalize(j, byGov)
     /\ pay.ok
     /\ ledger' = pay.ledger
     /\ jobs' = Decided(j, "Finalized", FALSE)
     /\ startPending' = startPending \ {j}
     /\ stats' = Counted(job.employer, FALSE)
     /\ activeJobs' = Released(job.agent)
     /\ ClearJob(j)
     /\ UNCHANGED <<nextJobId, burnReceipts, starts, disputeOpen, config>>

\* claimTimeout, by the employer or governance: the same condition settled
\* without _finalize; the job record is wiped and validators get no share.
ClaimTimeout(j) ==
  LET job == jobs[j]
      pay == PayFailure(ledger, job, j, job.employer, <<>>)
  IN /\ job.state = "Applied"
     /\ now > job.deadline + GracePeriod
     /\ pay.ok
     /\ ledger' = pay.ledger
     /\ jobs' = [jobs EXCEPT ![j].state = "Finalized", ![j].success = FALSE, ![j].agent = None,
                             ![j].agentPct = 0, ![j].reward = 0, ![j].stake = 0,
                             ![j].burnConfirmed = FALSE]
     /\ stats' = Counted(job.employer, FALSE)
     /\ activeJobs' = Released(job.agent)
     /\ ClearJob(j)
     /\ UNCHANGED <<nextJobId, burnReceipts, startPending, starts, disputeOpen, config>>

\* cancelJob by the employer, delistJob by governance.
CancelJob(j, byGov) ==
  LET job == jobs[j]
      pay == PayFailure(ledger, job, j, job.employer, <<>>)
  IN /\ job.state = "Created"
     /\ byGov \/ job.employer \notin blacklist
     /\ pay.ok
     /\ ledger' = pay.ledger
     /\ jobs' = Status(j, "Cancelled")
     /\ ClearJob(j)
     /\ UNCHANGED <<nextJobId, burnReceipts, startPending, starts, disputeOpen,
                    activeJobs, stats, config>>
-----------------------------------------------------------------------------
(* Governance, participants at the StakeManager, and the environment. *)

registryVars == <<jobs, nextJobId, burnReceipts, startPending, starts, jobValidators,
                  repProcessed, disputeOpen, activeJobs, stats>>

\* setFeePct and setValidatorRewardPct
SetPcts(p) ==
  /\ p # pcts
  /\ pcts' = p
  /\ UNCHANGED <<registryVars, blacklist, ledger, now>>

SetBurnPct(b) ==
  /\ b # ledger.burnPct
  /\ ledger' = [ledger EXCEPT !.burnPct = b]
  /\ UNCHANGED <<registryVars, config>>

\* The reputation engine's owner, or a score that crosses its threshold.
SetBlacklist(u) ==
  /\ blacklist' = IF u \in blacklist THEN blacklist \ {u} ELSE blacklist \cup {u}
  /\ UNCHANGED <<registryVars, pcts, ledger, now>>

FundRewardPool(u, amount) ==
  /\ CanCollect(ledger, u, amount)
  /\ ledger' = [Collect(ledger, u, amount) EXCEPT !.rewardPool = @ + amount]
  /\ UNCHANGED <<registryVars, config>>

DepositStake(u, r, amount) ==
  /\ CanDeposit(ledger, u, r, amount)
  /\ ledger' = Deposit(ledger, u, r, amount)
  /\ UNCHANGED <<registryVars, config>>

WithdrawStake(u, r, amount) ==
  /\ CanWithdraw(ledger, u, r, amount, now)
  /\ ledger' = Withdraw(ledger, u, r, amount, now)
  /\ UNCHANGED <<registryVars, config>>

NFTTransfer(u, pct) ==
  /\ pct # ledger.payoutPct[u]
  /\ ledger' = [ledger EXCEPT !.payoutPct[u] = pct]
  /\ UNCHANGED <<registryVars, config>>

Tick ==
  /\ now < MaxTime
  /\ now' = now + 1
  /\ UNCHANGED <<registryVars, pcts, blacklist, ledger>>
-----------------------------------------------------------------------------
\* Validators reported for a job, without repetition.
ValidatorLists ==
  {<<>>} \cup {<<v>> : v \in Validators}
         \cup {<<p[1], p[2]>> : p \in {q \in Validators \X Validators : q[1] # q[2]}}

Participant(j) ==
  \/ \E a \in Agents : ApplyForJob(a, j)
  \/ Submit(j)
  \/ SubmitBurnReceipt(j)
  \/ ConfirmEmployerBurn(j)
  \/ \E u \in Employers \cup Agents : Dispute(j, u)
  \/ \E byGov \in BOOLEAN : Finalize(j, byGov) \/ CancelExpiredJob(j, byGov)
                              \/ CancelJob(j, byGov)
  \/ ClaimTimeout(j)

\* The ValidationModule has a round, and so a result, for posted jobs only.
Module(j) ==
  \/ \E ok \in BOOLEAN :
       \/ \E vals \in ValidatorLists : OnValidationResult(j, ok, vals)
       \/ ValidationComplete(j, ok)
       \/ ResolveDispute(j, ok)
  \/ ForceFinalize(j)
  \/ j <= nextJobId /\ MarkReputationProcessed(j)

Staking ==
  \E u \in Agents \cup Validators, amount \in Deposits, r \in {"Agent", "Validator"} :
    DepositStake(u, r, amount) \/ WithdrawStake(u, r, amount)

Governance ==
  \/ \E p \in FeeRewardPcts : SetPcts(p)
  \/ \E b \in BurnPcts : SetBurnPct(b)
  \/ \E u \in Employers, amount \in Deposits : FundRewardPool(u, amount)

Environment ==
  \/ \E u \in Blacklistable : SetBlacklist(u)
  \/ \E u \in Accounts, pct \in PayoutPcts : NFTTransfer(u, pct)
  \/ Tick

Next ==
  \/ \E e \in Employers, w \in Rewards, s \in JobStakes, d \in Durations :
       CreateJob(e, w, s, d)
  \/ \E j \in JobIds : Participant(j) \/ Module(j)
  \/ Staking
  \/ Governance
  \/ Environment

Spec == Init /\ [][Next]_vars
-----------------------------------------------------------------------------
(* Properties. *)

Assigned == {"Applied", "Submitted", "Completed", "Disputed"}
Live == Assigned \cup {"Created"}

\* Every variable has its type.
TypeOK ==
  /\ jobs \in [JobIds -> JobType]
  /\ nextJobId \in Nat
  /\ burnReceipts \subseteq JobIds
  /\ startPending \subseteq JobIds
  /\ starts \in [JobIds -> Nat]
  /\ jobValidators \in [JobIds -> Seq(Validators)]
  /\ repProcessed \subseteq JobIds
  /\ disputeOpen \subseteq JobIds
  /\ activeJobs \in [Accounts -> Nat]
  /\ stats \in [Accounts -> [successful : Nat, failed : Nat]]
  /\ pcts \in (0..100) \X (0..100)
  /\ blacklist \subseteq Accounts
  /\ LedgerTypeOK(ledger)
  /\ now \in Nat

\* The registry implements the life of a job: every transaction, whatever it
\* settles at the StakeManager, is one step of JobLifecycle or none.
Lifecycle == INSTANCE JobLifecycle WITH
  Jobs <- JobIds,
  Workers <- Agents,
  Nobody <- None,
  phase <- [j \in JobIds |-> jobs[j].state],
  worker <- [j \in JobIds |-> IF jobs[j].state \in Assigned THEN jobs[j].agent ELSE None],
  verdict <- [j \in JobIds |-> jobs[j].success],
  held <- ledger.escrow

ImplementsLifecycle == Lifecycle!Lives

\* The StakeManager holds the reward and the fee of every live job, whatever
\* its state, and nothing for a job that was settled or cancelled: no
\* percentage changed meanwhile, no rounding and no route of settlement
\* (refund, bonus, validators, redirection, timeout) leaves a residue behind
\* or draws on another job's escrow.
EscrowMatchesJobs ==
  \A j \in JobIds :
    ledger.escrow[j] = IF jobs[j].state \in Live THEN Escrowed(jobs[j]) ELSE 0

\* activeJobs counts exactly the unfinished jobs an agent is assigned to, so
\* maxActiveJobsPerAgent limits what it says and no agent is locked out by a
\* count that one of the five settlement paths forgot to take back.
ActiveJobsExact ==
  \A a \in Accounts :
    activeJobs[a] = Cardinality({j \in JobIds : jobs[j].agent = a /\ jobs[j].state \in Assigned})

\* employerStats counts every finalized job of the employer once, under the
\* outcome the job kept.
StatsExact ==
  \A e \in Accounts :
    /\ stats[e].successful = Cardinality({j \in JobIds :
         jobs[j].employer = e /\ jobs[j].state = "Finalized" /\ jobs[j].success})
    /\ stats[e].failed = Cardinality({j \in JobIds :
         jobs[j].employer = e /\ jobs[j].state = "Finalized" /\ ~jobs[j].success})

\* The tokens held are the stakes, the reward pool and the escrows of the jobs,
\* and nobody's wallet is overdrawn by a transaction.
ExactlyBacked ==
  /\ ledger.balance = Total(ledger.totalStakes) + Total(ledger.escrow)
                      + ledger.rewardPool
  /\ ledger.wallet \in [Accounts -> Nat]

\* Validation of a job starts at most once, and a start that still waits for
\* burn evidence belongs to a submitted job without any.
ValidationStartsOnce ==
  \A j \in JobIds :
    /\ starts[j] <= 1
    /\ j \in startPending => /\ starts[j] = 0
                             /\ jobs[j].state = "Submitted"
                             /\ ~jobs[j].burnConfirmed

\* A dispute is open only while the job is Disputed, so the dispute module's
\* ruling is always accepted by resolveDispute.
OpenDisputesResolvable ==
  \A j \in disputeOpen : jobs[j].state = "Disputed"

\* Validators are remembered only for a job that is decided and not settled: no
\* late settlement pays or shares a slash with validators of an earlier round.
NoStaleValidators ==
  \A j \in JobIds :
    jobValidators[j] # <<>> => jobs[j].state \in {"Completed", "Disputed"}

\* A completed job can be finalized by governance as soon as the agent's stake
\* allows it: the escrow always suffices for reward, validators and fee, so
\* only the agent's lock or stake, an empty bonus pool, or the employer's
\* bonus on a refund can hold a settlement up.
SettlementFunded ==
  \A j \in JobIds :
    LET job == jobs[j]
        bonus == Pct(job.reward, job.agentPct) - job.reward
    IN /\ job.state = "Completed"
       /\ IF job.success
          THEN /\ ledger.locked[job.agent] >= job.stake
               /\ job.agent \in blacklist => ledger.stakes[job.agent]["Agent"] >= job.stake
               /\ ledger.rewardPool >= bonus
          ELSE /\ ledger.stakes[job.agent]["Agent"] >= job.stake
               /\ ledger.payoutPct[job.employer] = 100
       => Settlement(j, job.success, TRUE).ok
=============================================================================
