# AGI Jobs v2 in TLA+

A verification development of this repository: the Solidity contracts under
`src/contracts` that hold the money, and the TypeScript and JavaScript programs
around them that deploy, wire, configure and use the contracts. TLA+ modules
translated from the code, TLC configurations that check them on small instances,
and theorems that TLAPS checks for every value of the constants. `PROJECT.json`
links each definition to the lines it stands for, each property to the run that
checks it, and each hazard to the properties that watch it.

    tlc -workers 2 -config MCJobRegistry_one.cfg MCJobRegistry
    tlc -workers 2 -config MCConfigScripts.cfg MCConfigScripts
    tlapm JobRegistryProofs.tla

The other runs and proof modules are called in the same way; section 3 lists
the runs, section 4 the theorems.

## 1. The system

Employers escrow the reward of a job, agents stake tokens and take jobs,
validators judge the result by commit and reveal, jurors decide disputes, and
the platform takes fees, burns a share and slashes stake.

| Component | State | Operations | What makes it correct |
|---|---|---|---|
| `StakeManager` | stakes per account and role, boosted stakes and their totals, one lock and one pending withdrawal per account, an escrow per job, the operator reward pool, the token balance, fee, burn and slashing percentages | deposit, request/finalize withdrawal, withdraw, lock, release, lock/release reward, finalize job funds, distribute validator rewards, dispute fees, slash, pool, parameters | every token is owed to exactly one account; totals are sums; locks are covered; a pending withdrawal is never enlarged, and hastened only where governance shortened the wait |
| `JobRegistry` | jobs (state, parties, reward, stake, percentages, deadline, outcome), burn evidence, pending validation starts, validators of a job, active jobs per agent, employer statistics | create, apply, submit, burn evidence, validation results, dispute and ruling, finalize, cancel, two ways to expire a job | one life cycle; the escrow of a job is what its settlement needs; counters and lists follow the jobs |
| `ValidationModule` | a round per job: committee, commits, reveals, deadlines, entropy; validator pool, bans | start, select, commit, reveal, finalize, force finalize | a tally happens once, from committed votes only, and always can happen |
| `DisputeModule`, `ArbitratorCommittee`, `KlerosDisputeModule` | open disputes with fee and time; cases with jurors, commits, reveals | raise, open case, commit, reveal, finalize, resolve, slash jurors | every dispute is ruled once and the fee goes to the winner |
| `FeePool` | pending fees, cumulative fee per boosted stake, checkpoints | deposit, contribute, distribute, claim, reward, withdraw | what it owes never exceeds what it holds |
| `ReputationEngine` | scores, blacklist, allowed callers | add, subtract, on apply, on finalize, reward validators | scores stay within bounds and never block a settlement |
| `RandaoCoordinator` | commitments, deposits, reveals per tag | commit, reveal, forfeit | a deposit is returned or forfeited once |
| `RewardEngineMB`, `Thermostat` | epochs settled, shares, temperatures | settle epoch, tick | a budget is spent at most once |
| `PlatformRegistry`, `JobRouter`, `RoutingModule`, `PlatformIncentives`, `DiscoveryModule`, `RevenueDistributor` | registered operators, blacklist, commitments | register, deregister, route, distribute | only registered staked operators are chosen |
| `JobEscrow` | jobs with an operator and a reward | post, submit, cancel, accept | a reward is paid or refunded once |
| `CertificateNFT` | certificates, listings | mint, list, buy | one certificate per job |
| `QuadraticVoting`, `GovernanceReward` | votes, costs, epochs, snapshots | vote, execute, claim, finalize epoch | claims are covered |
| `IdentityRegistry`, verifiers, `AttestationRegistry` | roots, allow lists, caches | verify, attest | a revoked identity is not accepted |
| `TaxPolicy`, `SystemPause`, `Governable`, `ModuleInstaller`, `Deployer` | versions, roles, wiring | acknowledge, pause, wire | - |
| governance scripts (`scripts/update*.ts`, `apply-config.ts`, `update-economics.ts`, `config/index.js`) | the plan of the running script, its pending transactions, the queue of scripts; configuration files; the parameters of eight contracts | read, plan, send, wait, stop, run the next script | a script that reports success has reached what its file asks for, writes nothing else, and converges when run again |
| agent fleet (`spawn.ts`, `updateModels.ts`, `sandbox.ts`) | `agents.json`, spawn requests, `registry.json`, `active.json`, model files | clone or create agents, clear requests, train, publish | a cleared request is served, a niche stays within its limit, a published model has passed |
| validator clients (`commit.ts`, `reveal.ts`, `commit-reveal.js`, `v2-validator.js`, `ethers-quickstart.js`) | salts in memory, one file per job, one record per job and wallet, timers | commit, store, reveal, delete | what is stored opens the vote; nobody's vote is opened early or cast twice |
| rollout (`3_deploy_core_v2.js`, `4_governance_handover.js`, `transfer-ownership.ts`, `verify-wiring.js`) | the contracts with owners and references, the address file, the copied addresses, the last completed migration | create, wire, hand over, transfer, check | a check that passes saw one finished deployment; a reported transfer took place; interrupted runs can be completed |
| gateway and agent clients, single-purpose deployment scripts, dashboards, mocks, `lib/` | - | - | see section 5 |

How they interact: the `JobRegistry` is the hub. It calls the `StakeManager`
for every token and lock, starts the `ValidationModule`, which reports back with
`onValidationResult` or `forceFinalize`, and raises disputes at the
`DisputeModule`, which opens a case at the `ArbitratorCommittee` and rules
through `resolveDispute`. `StakeManager` sends fees to `FeePool`, which reads
boosted stakes back. Participants call the `StakeManager` directly between the
steps of a job. All calls of one transaction succeed or all are undone; the
concurrency of the system is the interleaving of transactions of different
accounts and the time that passes between them.

The programs off the chain meet the contracts only through transactions and each
other through files. The governance scripts are signed by the owner of the
contracts, read every parameter once, and send a plan one transaction at a time
while the contracts tune themselves; the owner they need is the one the rollout
leaves behind (after a hand-over to `SystemPause` none of them can execute any
more). The gateway writes the job records and spawn requests that the fleet's
two programs consume. The validator clients share one storage directory and vote
through the `ValidationModule`.

What is hard: the same escrow and the same lock are touched by eight functions
of two contracts; percentages, burn rate, NFT bonuses and blacklists are read
at different moments of one job; there are five ways to end a job; locks expire
by time while jobs do not; a call that reverts deep in a settlement holds all of
it up. Off the chain, a process may die between a transaction and the write that
remembers it, or between two files that belong together; a transaction may be
mined after the process that sent it is gone; plans and limits are computed from
copies that are stale when they are used; and the order of single-value setters
decides whether the contracts accept them. The full list, with lines, is under `hazards` in `PROJECT.json`.

## 2. Modules

| Module | Models |
|---|---|
| `Totals` | sums over a table and proportional shares, as the loops of `StakeManager.sol` compute them |
| `StakeLedger` | the functions of `StakeManager.sol` as operators on a ledger record |
| `StakeManager` | `StakeManager.sol` on its own, called by anybody with any arguments its modifiers allow |
| `JobLifecycle` | the abstract promise: phases of a job, who works on it, its verdict, whether money is held |
| `JobRegistry` | `JobRegistry.sol` composed with the ledger |
| `SealedVote` | the abstract promise of a committee: seated, ballots sealed, opened, judged once |
| `ValidationModule` | `ValidationModule.sol`: start, entropy and selection, commit, reveal, tally, forced end, clean-up, resets |
| `ConfigChain` | the parameters of the configured contracts and what their setters accept and change |
| `ConfigParse` | what an entry of a configuration file means: null, empty, blank, a word, a number, an address |
| `ConfigPlans` | which transactions each of the eight governance scripts plans |
| `ConfigScripts` | the scripts as processes: one at a time, killed, retried, several under `apply-config` |
| `AgentFleet` | two overlapping runs of `spawn.ts` and the training loop on one set of files |
| `ValidatorClients` | every program a validator of this repository votes with, against the contract's commit and reveal; implements `SealedVote` |
| `Rollout` | both migrations, the transfer of ownership, the address file, the wiring check |
| `MCStakeManager`, `MCJobRegistry`, `MCValidationModule`, `MCConfigScripts`, `MCAgentFleet`, `MCValidatorClients`, `MCRollout` | values of the constants for TLC |
| `StakeLedgerProofs` | how a sum goes with its entries, and that proportional shares never exceed the amount; what each ledger operator changes, keeps and preserves, and what it does to the sums of stakes, escrows and tokens |
| `StakeManagerProofs`, `JobRegistryProofs`, `ValidationModuleProofs`, `ValidatorClientsProofs`, `AgentFleetProofs`, `RolloutProofs`, `ConfigProofs` | theorems of these components |

`JobRegistry` and `StakeManager` are built on `StakeLedger`; `JobRegistry`
refines `JobLifecycle`; `ValidationModule` and `ValidatorClients` both refine
`SealedVote`, the contract with clocks, stakes and penalties and the clients with
files and crashes. `ConfigScripts` extends `ConfigPlans`, which extends
`ConfigParse` and `ConfigChain`.

**Transactions.** The contracts call each other several times inside one
transaction, so a function of the `StakeManager` is an operator from ledger to
ledger with a predicate `CanXxx` that holds exactly when the Solidity function
does not revert. An action conjoins the predicates and composes the operators
in the order of the code; a revert anywhere disables the action. That is the
atomicity the EVM gives, nothing more.

**State.** The fields of the ledger are the mappings of `StakeManager.sol` plus
`balance` and `wallet`, the token balances of the contract and of the
participants. `jobs` in `JobRegistry` is the `Job` struct with the packed
metadata unpacked. Amounts are small naturals and every percentage keeps the
integer division. Events, URIs, hashes and signatures are left out.

**What is nondeterministic.** The validation module and the dispute module of
`JobRegistry` may report any result at any time the access checks of the
registry allow; the reputation engine may change the blacklist, governance the
percentages, NFTs may move, and the clock may advance between any two
transactions. Properties that hold therefore do not depend on how those
contracts behave.

**Validation.** `ValidationModule` keeps, per job, the round (`rounds`), the
seat of every validator (`seats`: lookup entry, stake recorded at selection,
commitment, revealed vote) and the entropy round (`selection`). A commitment is
the vote and the burn receipt it hides. Hashes are arbitrary, so `Committees` is
every committee the strategy can draw: with `Rotating`, from any position of the
rotation, with `Reservoir`, any sample of the eligible. Of the registry it
keeps whether the job was submitted, its burn evidence and the result reported;
of the `StakeManager`, the stake of the Validator role and whether `slash`
accepts this caller (`SlashAccepted`). One clock stands for block numbers and
timestamps. The other two components are not yet composed with this one:
`JobRegistry` accepts any result at any time, which includes what
`ValidationModule` reports.

**Configuration.** A parameter of a contract is a key, the state of the eight
contracts a function from keys to values (`chain`), a configuration file a
function from some keys to raw values (`files`). A transaction is the setter it
calls with the values it writes; `Accepts` holds when the setter does not revert
and `Effect` is what it changes. A script is a sequence of such transactions
planned from one reading of `chain` (`plan`), sent (`Send`) and mined (`Mine`) one
at a time; the process may be killed with its transaction in the `mempool`. Integers
are small, addresses model values; units, formatting, dry runs and the choice of the
file are left out. Tokens and base units of one amount stay two entries, because
the scripts prefer one to the other.

**Fleet.** `jobs` is the history the gateway appends to (not in the repository, so
external), `requests` and `agents` are the two files of the spawn script, `registry`,
`active` and `models` those of the training loop. A process reads all it needs when it
starts, works on copies and writes whole files; `CrashSpawner` and `CrashTrainer` may
come between any two writes. A request keeps the jobs it lists itself, since the script
tries the sandbox on these first. The sandbox is a set of tests (`Tests`): each has the
number of records it wants, the window it looks at, a success rate and an average
reward, and the categories it is for, as they are spelt. Rates and averages are
compared as fractions; what nobody decides on (gas, energy, means for the report) is
left out. `cleared` and `lost`, and `took` and `read` of a run, are history variables:
no action of the code depends on them.

**Clients.** `run[w]` is what the program of wallet `w` is doing, with the material
(approval, burn receipt, salt) it holds in memory; `file` and `record` are on disk;
`sealed` and `opened` are the contract's. Hashing is kept as which program hashes
what: a commitment is opened only by the same fields under one of the two schemes of
the contract, and the one of `v2-validator.js` is neither. One program per wallet is
running at a time. A refused transaction ends the run, as in the code.

**Rollout.** A script is the sequence of its transactions with the account that
signs each; the contract refuses one whose signer does not own it or whose key is
not at hand. It also refuses what the configuration gives it (`Constructed`, `Tuned`,
`SetAccepted`): slash percentages that do not add up to 100, a minimum, a number or a
bound of validators out of range, a pool above 1000, an empty window, a treasury that is
the owner, an acknowledging module that does not answer, a treasury off the allow list.
Each check is made of the configuration (`numbers`, with the migration's defaults for what
is left out), so a configuration that is turned down is turned down every time. A
contract is `<<module, attempt>>`, because a deployment that is run again creates new
contracts. Several setters of one contract that nothing can come between are one
transaction.

**Mutants.** Definitions whose comment starts with "Mutant of" are plausible
bugs of the operator they precede (a dropped guard, a missing reset, a swapped
percentage). No specification uses them; each one shows that a property fails
when the code is wrong in that way.

## 3. Runs

| Run | Question | Bounds |
|---|---|---|
| `stake_unbonding` | two accounts deposit, request, withdraw, are locked and slashed while NFTs move and governance changes the unbonding period: `TypeOK`, `LocksCovered`, `StakeAccounting`, `UnbondNeverEased` | one role, two amounts, percentages 100 and 150 so that boosted and raw totals differ and rounding shows, unbonding periods 1 and 2, a lock of 1 and a clock of two instants, so that a lock expires and a request made under the short period matures, while slashes, and slashes after a shortening, land in between |
| `stake_escrow` | escrow calls with arbitrary arguments, fee and burn: `ExactlyBacked` | percentages that divide unevenly, amounts that make deficits and surpluses |
| `job_one` | one job through every path: `ValidationStartsOnce`, `OpenDisputesResolvable`, `NoStaleValidators`, `SettlementFunded`, `EscrowMatchesJobs`, `ImplementsLifecycle` | burn on and off, blacklisting, disputes, both timeouts, two fee and validator percentages, an agent with a bonus, a treasury |
| `job_two` | two jobs share an agent, an employer, a lock and the balance: `ActiveJobsExact`, `ExactlyBacked` | two jobs, limit of two active jobs |
| `vote_one` | one job, two validators, resets by the owner, blacklisting, stake withdrawn during the vote, penalties and bans: `SeatsMatchCommittee`, `CountsMatchSeats`, `ImplementsSealedVote` | two callers, so selection completes without the registry; a second round of the same job fits in the time |
| `vote_change` | pool, committee size, thresholds and burn requirement change during a round whose start waits for evidence: `ApprovalJustified`, and `JobsDecided` under `FairSpec` | pools of one and two, committees of one and two, both settings of the burn; `SlashAccepted` FALSE, as in the repository, so `JobsDecided` exempts by name the rounds that are over and owe a penalty |
| `gov` | every governance script on files that change percentages, limits, treasuries, temperatures and wiring or hold blanks and junk: `TypeOK`, `RefusedOnlyForOrder`, `SuccessMeansReached`, `UnaskedKept`, `Converges` | 136 setups, each aimed at one order, limit or value, with and without the address of a thermostat; all changes between three levels of the three percentages; one kill, one automatic tuning, four policy versions |
| `agents` | two runs of the spawn script and the training loop: `TypeOK`, `ClearedMeansServed`, `CategoryCap`, `ActiveSound`, `CatchesUp`, `NicheServed` | one employed agent, a niche spelt in two ways, two jobs of three kinds (a success under either spelling, a failure without a reward; so a second training may fail after a first that passed), requests with and without jobs of their own, a test of the success rate and one of the average reward, limit of one agent per niche, two clones, one crash |
| `clients` | two wallets with five programs vote on one job: `TypeOK`, `RecordOpens`, `FileOpens`, `RecordedVotesOpened`, `ImplementsSealedVote` | one burn receipt that may be submitted and confirmed at any time, two salts, one crash; both wallets may use the scripts and so share their file |
| `rollout` | both migrations and the transfer, killed, resumed and reset: `TypeOK`, `VerifiedMeansDeployed`, `RefusedOnlyForConfig`, `OwnersAsReported`, `Migrates`, `Transfers` | two deployments, one kill between any two transactions, 19 configurations: who governs, which keys are at hand, tax policy new, existing or none, values left to the migration's defaults, and 14 with one value a constructor or setter turns down; addresses copied in three overlapping parts |

Two runs are expected to fail. Each states what a document of the repository says
and shows that the code does something else:

* `gov_receipt` - `updateStakeManager.ts`, `updateJobRegistry.ts` and
  `updateFeePool.ts` compare the status of a receipt with `1n`; ethers 6 gives a
  number, so they throw after their first successful transaction and leave the rest
  of the plan unsent, although `docs/stake-manager-configuration.md` says they stop
  only when a transaction fails.
* `rollout_verify` - `verify-wiring.js` asks contracts for getters they do not have,
  so a deployment wired exactly as configured fails the check.

Seen while modelling and not given a run of their own.

*Contracts.* `withdrawStake` needs no unbonding request (`StakeManager.sol:1026`); an
assigned agent withdraws the locked stake once the deadline is reached
(`StakeManager.sol:1001`); a cancelled job is refunded less the burn
(`JobRegistry.sol:1885`); a failed job cannot be refunded once the agent's stake is
gone (`JobRegistry.sol:1819`); `StakeManager.slash` does not accept the
`ValidationModule` (`StakeManager.sol:1600`), so a round that owes a penalty can
be neither finalized nor forced to an end, and with a `StakeManager` that accepts
the same happens once a member has withdrawn the stake recorded at selection; a
submitted job may be rejected before a committee is drawn, and a round is tallied
without the early delay once the last vote is revealed (`ValidationModule.sol:1427`);
a committee may be drawn, and its windows run, before submission
(`ValidationModule.sol:679`); lowering
`maxValidatorsPerJob` during a round leaves seats, commitments and votes behind
(`ValidationModule.sol:1551`), which is why two theorems assume it fixed;
`commitVote` and `revealVote` always revert (`ValidationModule.sol:1303`).

*Governance scripts.* `apply-config.ts` takes a child killed by a signal for a
success and runs on, though the README says it halts on the first error; a
registry file whose fields are left at `0x0` "to skip updates"
(`docs/job-registry-configuration.md:40`) is refused by `config/index.js`; the stake
manager's treasury is planned before its entry in the allowlist, the system temperature
before its bounds, and the registry's and the economics' percentages unsorted, so some
files need several runs (`OrderBlind`); values only the contracts check (a zero kappa or
treasury, bounds the wrong way round) cut a plan half way (`Unacceptable`);
`update-economics.ts` plans its recommendation of stake limits last, with the limit it
does not recommend as it was read before, so a file with a minimum stake of 12 and a
recommended maximum of 15 ends with the old minimum under "All updates confirmed."
(`update-economics.ts:692`, `Overwritten`); `updateThermodynamics.ts` compares a role's
temperature with the one in effect, the system's for a role without its own, so one that
equals the system's is not sent although the same plan changes the system's (`:677`,
`Granted`); without the address of a thermostat, as in the shipped
`config/thermodynamics.json`, the script skips all the file says of temperatures, kappas
and bounds and reports success (`:239`, `:271`, `:496`, `Skipped`);
`stakeRecommendations` beside a different
minimum or maximum makes the parameter flip with every run (`Contradicts`); a
tax policy transaction that is mined after its sender was killed raises the version a
second time; when the query of past events fails, all acknowledgers count as blocked;
white space is 0 per cent, a blank stake of the registry is 0, a blank base amount
hides the amount in tokens, and the word "false" in a list means TRUE.

*Fleet.* A request is cleared before `agents.json` is written, so a crash in between,
or an overlapping run that writes its older copy, loses the agent; a retraining that
fails takes the model that passed out of service; a crash between `registry.json`
and `active.json` leaves the two apart until there are new records. A niche may wait for
ever: nobody is worth cloning, or the clone is tried on the jobs the request itself
lists (`spawn.ts:434`) and these fail the sandbox by their number, their reward
(`sandbox.ts:149`) or the spelling of their category (`sandbox.ts:85`), however good the
history is.

*Clients.* The hash of `v2-validator.js` is of a form the contract never
opens; the file of `commit.ts` is keyed by the job alone, so two wallets of one host
overwrite and delete each other's salt; a vote sealed without a burn receipt cannot
be revealed once one is required and confirmed; a salt is lost when the process dies between the
transaction and the write.

*Rollout.* With a stake treasury configured, `setTreasury` is refused (the allowlist
is empty) and the migration never completes; with an existing tax policy,
`acknowledgeFor` is refused; an interrupted hand-over cannot be resumed by
running it again, only by `--reset`; `transfer-ownership.ts` skips every module and
reports success when the addresses were copied with the capitalised keys of the deployment's
file; the `IdentityRegistry` is on no transfer list. A configuration that leaves
`minValidators` out never gets beyond the fourth contract: the migration's default is 1
(`3_deploy_core_v2.js:185`), and the constructor insists on 3 (`ValidationModule.sol:314`);
the same goes for slash percentages whose sum is not 100, like an employer's share of 0
with a treasury's of 50 (`StakeManager.sol:450`). A window or a bound of 0 is replaced by
the constructor and refused by the setter the same migration calls later. After
the last migration the identity registry and the tax policy are still the deployer's, with
only an offer to the final governance (`4_governance_handover.js:88`).

`SlashAccepted` is FALSE in `vote_change`, as with the `StakeManager` of the repository:
every tally or forced end that owes something reverts. It is TRUE in `vote_one`, whose
properties are about what penalties and bans leave behind: that run looks at more
behaviours than there are today.

**Bounds.** `MaxTime` bounds the clock, `JobIds` the jobs, and the token supply
(`Funds`) every amount. A committee is drawn only while its windows and the grace
period end before `MaxTime` (`InTime`), so no round is cut off; the windows are
one block long, which still separates the last commit, the first reveal, the
last reveal, the early delay, the end of the window and the end of the grace.
Committees of one and two are reachable: the setters accept minimum sizes below
the default. The properties relate at most two accounts and two jobs, and the
percentages are chosen so that each rounding and each deficit branch is taken.
`MaxKills` and `MaxTunes` bound what may happen to a script, `MaxVersion` the
policy versions (no run starts beyond it), `Limit` the integers in a file;
`MaxJobs`, `MaxObserved`, `MaxWallets` and `MaxCrashes` bound the fleet, where
`MaxWallets` leaves room for every clone the limits allow; `MaxSalts` the commit runs of
the clients; `MaxAttempts` the deployments. One kill is enough to separate a script
from its transaction, a file from its salt, and the one file of a program of the fleet
from the other. That a run overwrites an agent it has not read does not
occur within the bounds of `agents`; the theorem
`ClearedAreServed` covers it. `CHECK_DEADLOCK FALSE` is set where the bounded model
really stops: votes that are over, scripts with nothing left to do, fleets whose
bounds are used up.

**Fairness.** `FairSpec` of `ValidationModule` assumes that time passes
(`WF_vars(Tick)`) and that somebody who waits for a job calls `finalize` or
`forceFinalize` once that succeeds: both are open to everybody, and the agent,
whose reward depends on the result, can call them. Nobody is assumed to select,
commit or reveal. `JobsDecided` needs no more, because a round without votes is
forced to an end; what it exempts is a round that is over and owes a penalty
(`PenaltyRefused`), because no `StakeManager` of the repository lets the module take one.
Nothing is exempted while the round runs, when nobody owes anything, or when too few could
reveal for want of burn evidence.

`FairSpec` of `ConfigScripts` assumes that a running process goes on, a sent
transaction is mined, and the owner runs each script again and again (strongly fair,
because the others may be running when he tries). `Converges` then says that
every file is reached for good, kills, tuning and misread receipts included, and
names the exceptions: a thermostat the file does not name (`Skipped`), a first call that
is refused every time (`Stuck`), a file that gives one parameter two values or a temperature outside its own bounds (`Contradicts`),
and what a script takes as done by its own way of comparing (`Granted`).

`FairSpec` of `AgentFleet` assumes that both programs, which run from a schedule, are
started again and go on: weak fairness of all actions of a run, and of those of the
training loop, written with the states in which none is possible (`NothingToSpawn`,
`NothingToTrain`) spelt out; nothing is assumed of crashes but their bound. `FairSpec`
of `ValidatorClients` assumes that a started run goes on and that an operator
with a record tries the plain reveal again and again; the clock is not assumed to
move, since the end of a window must not be what makes the property true.
`FairSpec` of `Rollout` assumes that a running script goes on, that the
operator starts the migration (from the beginning when a contract refused) and
the transfer again, and that an account that was offered a contract accepts it.
`Migrates` is about configurations whose values the contracts accept (`Deployable`); for
the others the migration is refused at the same place every time.

Elsewhere no fairness is assumed and progress is stated as an enabling condition
(`OpenDisputesResolvable`, `SettlementFunded`).

## 4. Proofs

`StakeLedgerProofs` proves one lemma per ledger operator: the fields it may
change (`SameBut`), the value it gives them, and that a well-typed ledger stays
well-typed when the operator's guard holds. The only assumptions on constants are
those named in the modules: percentages are percentages, amounts are naturals, the
treasury is no participant (`LedgerAssumption`, `StakeManagerAssumption`,
`RegistryAssumption`, `ValidationAssumption`); what the clients store
(`ClientAssumption`, `NoneAssumption`); the agents employed at first are the first
wallets (`FleetAssumption`); who signs a migration has a key and no code, the zero
address is nobody's, and the numbers of a deployment are naturals or left out
(`RolloutAssumption`); the words a file may hold instead of a value
are no numbers and differ (`WordsAssumption`), what `SystemPause` wires are contracts with
parameters (`ChainAssumption`), and setups deploy every contract, have files for existing
scripts only and name a known account, if any, as the fee pool's treasury
(`SetupAssumption`). A contract deployed before the scripts run holds what its setters
let in: numbers are unsigned, and no percentages above 100 together
(`Deployed`, from `StakeManager.sol:348` and `:609`). Where a theorem needs more, it says so as a
hypothesis, and TLC has shown that it fails without it.

The first and the last part of `StakeLedgerProofs` do the same for sums. A sum (`Total`) is the
number of single units in a table, so that what a changed entry does to it follows
from the size of a set that gains or loses elements, for tables of any size, without
induction over the table. The only exception, that shares rounded down add up to at
most the amount (`SharesWithin`), goes by the smallest table for which it would fail.
A ledger is `Sound` when it is well typed, the totals per role, raw and boosted, are the
sums over the accounts, no wallet is overdrawn and fee and burn leave something of a
payment. `Free` is what the contract holds beyond stakes, escrows and reward pool;
`Books(M, L, d)` says that an operator keeps the ledger sound and changes `Free` by `d`,
and there is a lemma of this form for each: deposits, withdrawals, locks, refunds,
payments, shares and slashes by 0, a collected or paid dispute fee by itself.

`StakeManagerProofs` proves for any accounts, amounts and percentages:

* `TypeCorrect`: no stake, lock, escrow, pool or balance is ever negative;
* `LocksAlwaysCovered`: the stake of all roles covers the lock;
* `UnbondsNeverEased`: a pending withdrawal is never enlarged, and hastened only by a slash
  after governance has shortened the unbonding period, then to a whole period of the new
  length;
* `UnbondsWaitTheirPeriod`: while the period is not shortened, it is never hastened;
* `StakesAlwaysAccounted`: the totals per role are the sums over the accounts;
* `AlwaysExactlyBacked`: the contract holds the stakes, the escrows, the pool and
  the dispute fees, to the token.

The inductive invariant is `IInv`, types and covered locks, and for
the last two `Solvent == Sound(ledger) /\ Free(ledger) = disputeFees`.
`UnbondsWaitTheirPeriod` adds `UnbondBounded` (a pending withdrawal ends at most one
unbonding period from now), which a shortening breaks and which otherwise makes a slash,
that restarts the wait, never shorten it. Actions
that only move tokens or parameters are handled together (`QuietSteps`,
`QuietKeeps`).

`JobRegistryProofs` proves for any accounts, any finite set of job ids, any
amounts, percentages and durations:

* `RegistryTypeCorrect`;
* `EscrowAlwaysMatches`: a live job's escrow is its reward and fee, a settled
  one's is zero, whichever of the settlement paths ended it;
* `ActiveJobsAlwaysExact`, `StatsAlwaysExact`: the counters are the numbers of
  jobs they stand for;
* `ValidationAlwaysStartsOnce`, `DisputesAlwaysResolvable`,
  `ValidatorsNeverStale`;
* `RegistryImplementsLifecycle`: every behaviour is, under the refinement
  mapping of `JobRegistry`, a behaviour of `JobLifecycle`.

The inductive invariant is `TypeOK /\ JobsOK /\ ActiveJobsExact /\ StatsExact`.
`JobOK(j)` gathers what must hold of one job and adds what the safety
invariants leave open: ids above `nextJobId` are untouched (so a new job finds
an empty escrow and no start of validation), an assigned job has a registered
agent and a payout percentage of at least 100 (so a payment is never less than
its base), and validation has not started before a result was submitted. A
transaction concerns one job: `LocalMove(j)` says how it changes that job, its
escrow and the two counters, every action is shown to be a `LocalMove` (or, for
`IdleKeeps`, to leave all jobs alone), and `LocalMoveKeeps` does the counting
and the step of `JobLifecycle` once for all of them. The settlements rest on
two lemmas about the ledger: `FailurePaid` (a refund asks for at least the whole
escrow and is cut to it) and `SuccessPaid` (`finalizeJobFunds` leaves exactly
the validators' part, which `distributeValidatorRewards` takes).

Its second half adds:

* `RegistryExactlyBacked`: the same for whole transactions of the registry;
* `SettlementAlwaysFunded`: a completed job can be finalized by governance once the
  agent's stake and the bonus pool allow it.

The invariant next to `IInv` is `Vault`: the ledger is sound, nothing is free, the
`StakeManager` itself takes no fee (the registry never sets one, so fee and burn stay
below 100) and the treasury can be paid. A settlement is a chain of calls each of which is
`Traded`: books balanced, fee and treasury left alone. Two things make a settlement
succeed: the escrow is reward plus fee (`JobOK`), so there is no deficit whatever the
percentages are now (`CanFinalizeEscrow`, `CanRefundEscrow`; the bonus on what the
validators leave is at most the one on the reward, `BonusMonotone`), and a vault
always covers one stake, one escrow and the pool together (`SolventCovers`), so the
transfers at its end do not run out of tokens. The theorem asks for what can really
hold a settlement up: too little lock or stake, a pool below the bonus, an NFT
bonus on a refund; for the last two its condition is sufficient rather than exact.

`ValidationModuleProofs` proves for any jobs, validators, pools, windows and
percentages:

* `ValidationTypeCorrect`: in particular no penalty takes more than there is;
* `SeatsAlwaysMatch`: nothing of an earlier committee survives;
* `VoteImplemented`: the module implements `SealedVote`;
* `CountsAlwaysMatch`: votes counted and approving stake are those of the members who
  revealed;
* `ApprovalAlwaysJustified`: an approval has the quorum and the stake behind it.

All but the first assume `FixedLimit`, that the owner leaves `maxValidatorsPerJob`
alone; without it they are false (a clean-up stops at the lowered limit). The last one
also assumes `DistinctPools`: `setValidatorPool` does not look for repetitions, and
from the pool `<<v, v>>` the same member can be drawn twice and be both of the two
approvals a round asks for. The inductive
invariant is `IInv`: `TypeOK`, and for each job `JobOK`, which adds to the seats
what makes a step of the module one of `SealedVote`: the committee is within
the limit (so the loops of `_finalize` and `_cleanup` miss nobody,
`WholeBench`), no vote is counted before the commit deadline (so everyone having
revealed, or the early delay being over, means that the sealing is), and
approving stake comes from an approving member. Steps are sorted by what they do
to the vote: `Idle`, a commit, a reveal, a draw, an end with or without
judgement (`EndEmpties`), a tick; each lemma proves invariant and refinement at
once. `Tick` is `Close` of all jobs whose deadline passes. For the counts, `CountInv`
adds that the revealed votes are as many as the members who revealed and that the
approving stake is a `Total` over them: one reveal adds one member to both sides, an
end empties both.

`ValidatorClientsProofs` proves for any wallets, programs, receipts and any number
of salts and crashes:

* `ClientsTypeCorrect`;
* `RecordsAlwaysOpen`, `FilesAlwaysOpen`: what is stored on disk opens the vote it
  was stored for, unless the process died in between;
* `ClientsImplementVote`: clients and contract implement `SealedVote`.

The inductive invariant adds three things to the two safety properties: what a run
holds after its transaction is what the contract sealed (`RunOK`), every salt is
sealed by one wallet only (`SaltsOK`), and the scripts hand on only what one of them
committed (`FilesOK`). The last two are what `unlinkSync` needs: `reveal.ts` deletes the
file after revealing what it had read, and if that opened its own vote, it was its own
material. Its assumptions are `ClientAssumption` and `NoneAssumption` (the value
for "absent" is no vote material).

`AgentFleetProofs` proves for any histories, categories and spellings, sandbox tests,
numbers of overlapping runs, trainings and crashes:

* `PublishedIsSound`: what is published passed the sandbox and is what the registry
  names;
* `FleetTypes`: types and bounds, with the hypothesis `NewsNeeded` (training asks for at
  least one new job; with 0 every cycle makes a version out of nothing);
* `ClearedAreServed`: a cleared request has brought an agent or is about to, unless the
  very run that cleared it died before it wrote, or a run that had read the configuration
  before wrote its copy over the agent;
* `CapHolds`: no niche exceeds the limit, with the hypothesis `TidyStart` (the fleet
  employed at first spells every category in one way and keeps the limit; an
  `agents.json` that files one niche under `code` and `Code` may exceed it by one).

The loops of the programs (the jobs of one agent, the requests, the categories) are
tables of intermediate results. `LoopRuns` says that such a table exists and
`Throughout` that what holds before the loop and survives a turn holds at every entry;
both go by the smallest entry that fails. For training the inductive invariant is
`TrainingInv`: the registry claims no more than the history has (`RegistryOK`), the
running cycle works on a beginning of the history and, until it writes, on versions
above those published (`CycleOK`), which is why a model file that is published is
never written again. For the spawn script `Fits` says of an intermediate result that
nobody of the configuration read is lost and that every niche about to be cleared is
served by it, `Tidy` that it has one spelling per niche within the limit. `ServedInv`
adds that a run's copy serves what it has cleared and what it has read, and that every
cleared request is served by the file, lost, or in the hands of a run that is still to
write; `TidyInv` that every copy is tidy, which is all the limit needs
however many runs overwrite each other.

`RolloutProofs` proves for any setups, attempts, kills and ways to copy addresses:

* `RolloutTypes`;
* `VerifiedIsDeployed`: addresses the wiring check accepts are of one attempt, finished
  to its last call;
* `RefusedOnlyWhenResumed`: with values in bounds, no treasury or tax policy the contracts
  turn down and the governance key at hand, a deployment is refused nothing, however often
  it was killed and begun again, and a hand-over nothing unless it was killed and is
  resumed;
* `ReportedOwnersOwn`: after the last migration the final governance owns every contract
  but for the two-step ones it has not yet taken, and a transfer that reports success
  leaves the owners it reports.
  Its hypothesis `NewOwners` (the new owner is not the deployer) is needed: such a
  deployer owns the tax policy when the transfer looks at it, while the offer of the
  hand-over to the final governance still stands.

The inductive invariant `Inv` says of the plan of the running script that every
transaction is still to be sent or has left its effect (`Follows`), which no later one
undoes (`InOrder`, proved of the plans: contracts are created first, nothing follows for
a contract once it is handed on); that only a completed deployment is handed on
(`Stages`), that an identity registry out of the deployer's hands is wired
(`Entrusted`), and that contracts refer to their own attempt only (`Contracts`).
The wiring check looks at the owner of the identity registry, an account with code, and
`Entrusted` turns that into everything the check does not look at. For refusals,
`Accepted` shows that values in bounds pass every constructor and every setter, those
left to the migration's defaults included, and
`SmoothInv` adds that the account a hand-over uses is in charge of what it has still to
hand over; a deployment needs no more than `Inv`, since it works on contracts of its own.
For owners `Kept` adds that what the transfer has confirmed stays.

`ConfigProofs` proves for any files, deployments, accounts and numbers of kills and
automatic changes:

* `PlansAreHarmless`: the inductive invariant below;
* `ScriptTypes`;
* `OnlyAskedChanges`: no script changes a parameter no file asks for, unless others did
  so before, and none makes the participants acknowledge one policy text twice;
* `RefusalsAreForOrder`: unless others change the chain, a transaction is refused only by
  a setter whose limits the scripts leave to it, or whose call the plans do not order.

The first part says what the eight plans can contain, whatever was read. A plan is a
concatenation of sequences that are filtered and flattened; `FlattenFacts`,
`AmongFacts`, `EachFacts` and `PerAccountFacts` say what such a sequence has as entries,
for lists of any length, and `PlanFacts` that every entry is of a form `ScriptCall`
allows this script: one parameter of its file (`Lone`), a setter of several with the
values read for those the file leaves out (`Joint`), a policy text. The second part is
about the parsers: what `Config` holds for a key is what the entry reads as
(`ConfigFacts`), an entry that reads as something is one the file asks for
(`ReadIsAsked`), so every form is `Good` (`ScriptCallIsGood`): it writes parameters that
exist and only what is asked for or what is there already, and a text only if it is a
new one. The invariant `Inv` carries this from the reading to the mining: a pending
call stays `Settled` because whatever changes on the way is asked for by some file or
remembered in `meddled` (`SettledStays`), though other scripts, `Tune` and `HandOver` come
in between; and without kills a script has one transaction on its way
(`OneOnItsWay`) and sends one text at most (`TextsSentOnce`), so the text is still new
when it is mined. Three things a call changes besides what it is given are allowed for:
new bounds pull the system temperature inside, `SystemPause` becomes pauser of what it
wires, a text raises the policy's version.

The third part is about refusals. A call is `Fit` when its setter accepts it on the
chain as it is, by its own limits, and `Numbers` stay numbers; a fit call stays fit
whatever other fit calls are mined before it, since the scripts read and check all
limits of a setter before the first transaction and no other script of a fleet without
`economics` writes what the check was about. Two setters depend on calls of the same plan.
The sum of the three percentages of `StakeManager` must stay within 100: the script
sends those that fall before those that rise, and the sum never exceeds the larger
of the sums at the beginning and at the end. The treasury of `FeePool` needs its
entry in the allowlist: the script sends the entry first. `Needs` names what a call waits
for, and `Ordered` says that it comes earlier. Kills are why this is not a
property of the plan alone: a transaction left in the mempool by a killed run is mined
under the plan of the next one, so the invariant `Careful` says that the mempool is
ordered by itself, and the plan given the mempool (`Backed`). It is inductive together
with `Inv`; a new plan read while old transactions are pending is again ordered, because
a percentage read before they are mined is either already at its goal or still planned.
The exceptions are no more than needed: without the registry's percentages, the treasury,
the system's or a role's temperature, or what the files ask for in vain, `gov` finds a
refusal.

Every safety invariant of a run is stated by a theorem. Checked by TLC only:
`SuccessMeansReached` of `ConfigScripts`, and everything beyond safety (`JobsDecided`,
`Converges`, `CatchesUp`, `NicheServed`, `RecordedVotesOpened`, `Migrates`, `Transfers`),
since liveness under fairness is out of the prover's reach. `SuccessMeansReached` speaks of
a run as a whole; it does not hold for every set of files, since two files may give one key
different values (`economics` and `stakeManager` both have the treasury, and a
transaction of a killed run of one may be mined during the other). A theorem would need
the hypothesis that no two files handle one key, which all setups of `gov` meet, and
lemmas that a plan misses nothing that differs.
`StatsExact` is proved without a run of its own.

## 5. Not modelled, and the plan

Left out for good: ENS, Merkle and signature verification (external reads),
token and NFT contracts beyond their balances, events, dashboards and reports.
`scripts/deploy.ts` and `scripts/deploy/providerAgnosticDeploy.ts` declare a name
twice and cannot be loaded; what they were to do is what the migrations do.

Gateway and agent clients are read but not modelled, since they keep no state:
`v2-agent-gateway.js` tops up stake without looking at locks and calls `finalize`
after every submission, which only the employer may; `agent-gateway.js` calls an
`applyForJob` with a signature no contract has; `ethers-quickstart.js` misses the
three-argument `submit`, uses an undefined `token` and an ambiguous `raiseDispute`;
`gateway-agent.ts` tries again after a timeout and so repeats what was accepted.

Hazards of the contracts that are not modelled yet: the clean-up after a tally
empties the list the committee draws its jurors from (`ValidationModule.sol:1546`); a
case without jurors is never finalised (`ArbitratorCommittee.sol:92`) and a ruling may
miss the dispute window (`DisputeModule.sol:254`); `NoValidationModule.sol:48` reports
back into a guarded call; the accumulator of `FeePool.sol:341` pays the stake of the
moment for all fees ever distributed, and `FeePool.sol:250` rewards from the common
balance; a pool that refuses holds a settlement up (`StakeManager.sol:1289`); the
diminished score of a strong agent underflows (`ReputationEngine.sol:373`); the last
participant of `RandaoCoordinator.sol:79` chooses; `GovernanceReward.sol:150`
finalises an epoch whose claims may exceed the balance.

Plan, most important first:

1. (done) `StakeManager`, `JobRegistry` and `ValidationModule` with their abstract
   specifications; governance scripts, fleet, validator clients and rollout.
2. `DisputeModule` with `ArbitratorCommittee`; then `JobProtocol`, which composes
   registry, validation and dispute modules and states progress under fairness
   of participants who want to be paid.
3. `FeePool` on top of `StakeLedger`: solvency of the accumulator.
4. `ReputationEngine`, `RandaoCoordinator`, `JobEscrow`, `CertificateNFT`.
5. `PlatformRegistry` with `JobRouter` and `RoutingModule`; `RewardEngineMB`'s
   budget split and `Thermostat`; `QuadraticVoting` and `GovernanceReward`.
6. The single-purpose deployment scripts as plans of `Rollout` and `ConfigScripts`.
7. The remaining operations of `StakeManager` (locks without a job key, batched
   slashing, stake tuning), of `JobRegistry` (module replacement, caches) and of
   `ValidationModule` (identity cache, reputation scores).

Theorems planned: `SuccessMeansReached` of `ConfigScripts` for files that share no key;
the fee of a dispute, and the bounds of `FeePool`'s accumulator.
