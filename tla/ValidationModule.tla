-------------------------- MODULE ValidationModule --------------------------
(***************************************************************************)
(* contracts/ValidationModule.sol: a committee is drawn from the validator *)
(* pool, commits to sealed votes, reveals them, and the round is tallied   *)
(* or forced to an end.  Every action is one transaction.  Of the          *)
(* JobRegistry only what the module reads and calls is kept: whether a job *)
(* was submitted, its burn evidence, and the result reported; of the       *)
(* StakeManager the stake of the Validator role and whether it accepts     *)
(* slashes of this caller.                                                 *)
(*                                                                         *)
(* One clock stands for block.number and block.timestamp: a tick is a      *)
(* block, windows and delays are counted in blocks.  Hashes are arbitrary, *)
(* so every draw the strategy allows may happen; the scores a tally        *)
(* changes show as blacklistings that may follow it.  A commitment is the  *)
(* vote and burn receipt it hides; one that hides neither is a commitment  *)
(* never revealed.  The nonce is 1 while a committee sits and 0 otherwise, *)
(* so commitments need no key for it.                                      *)
(***************************************************************************)
EXTENDS Integers, Sequences, FiniteSets, FiniteSetsExt, Functions, Totals

CONSTANTS
  Jobs,               \* job identifiers
  Validators,         \* accounts of the validator pools
  Callers,            \* accounts that call selectValidators
  Registry,           \* the JobRegistry, whose start contributes entropy
  Pools,              \* values of validatorPool
  Params,             \* values of the owner's parameters
  InitialStakes,      \* Validator stake of every account at the start
  StakeChanges,       \* stakes an account may change to at the StakeManager
  Blacklistable,      \* accounts whose blacklist status may change
  BurnSettings,       \* values of "StakeManager.burnPct is not zero"
  SlashAccepted,      \* whether the StakeManager accepts the module's slashes
  SlashPct,           \* validatorSlashingPercentage
  PenaltyBps,         \* nonRevealPenaltyBps
  BanBlocks,          \* nonRevealBanBlocks
  EarlyDelay,         \* earlyFinalizeDelay
  Grace,              \* forceFinalizeGrace
  SampleSize,         \* validatorPoolSampleSize
  Strategies,         \* selectionStrategy, among "Rotating" and "Reservoir"
  HashWindow,         \* blocks for which blockhash is available
  OwnerResets,        \* whether the owner uses resetJobNonce and resetSelection
  MaxTime             \* bound on the clock

MinEntropyContributors == 2

\* The setters keep the committee within the limit and the minimum within the
\* maximum; what one call of the owner may leave behind is one of Params.
ParamType ==
  [ perJob : Nat \ {0}, min : Nat \ {0}, max : Nat \ {0}, limit : Nat \ {0},
    commitWindow : Nat \ {0}, revealWindow : Nat \ {0}, threshold : 1..100,
    required : Nat ]

ASSUME ValidationAssumption ==
  /\ Registry \notin Callers
  /\ Pools \subseteq Seq(Validators)
  /\ Params \subseteq ParamType
  /\ \A p \in Params : p.perJob <= p.limit /\ p.min <= p.max
  /\ InitialStakes \in [Validators -> Nat]
  /\ StakeChanges \subseteq Nat
  /\ Blacklistable \subseteq Validators
  /\ BurnSettings \subseteq BOOLEAN
  /\ SlashAccepted \in BOOLEAN
  /\ SlashPct \in 0..100
  /\ PenaltyBps \in 0..1000
  /\ BanBlocks \in Nat
  /\ EarlyDelay \in Nat
  /\ Grace \in Nat \ {0}
  /\ SampleSize \in Nat \ {0}
  /\ Strategies \subseteq {"Rotating", "Reservoir"}
  /\ HashWindow \in Nat
  /\ OwnerResets \in BOOLEAN
  /\ MaxTime \in Nat

VARIABLES
  rounds,       \* rounds
  seats,        \* _validatorLookup, validatorStakes, commitments, revealed, votes
  selection,    \* selectionBlock and the entropy contributors of the round
  bans,         \* validatorBanUntil
  pool,         \* validatorPool
  params,       \* committee bounds, windows and thresholds
  status,       \* registry: Open before submission, Submitted, Decided
  verdict,      \* registry: the result reported
  startPending, \* registry: validationStartPending
  evidence,     \* registry: burn evidence of the job
  burnOn,       \* StakeManager: burning is configured
  stakes,       \* StakeManager: stakes of the Validator role
  blacklist,    \* ReputationEngine: isBlacklisted
  now           \* block.number and block.timestamp

registryVars == <<status, verdict, startPending, evidence>>
config == <<pool, params, burnOn, blacklist, now>>
vars == <<rounds, seats, selection, bans, stakes, registryVars, config>>

\* Participants are left out: they are read only while tallied is set, and
\* tallied is set and deleted with the round in one transaction.
RoundType ==
  [ validators : Seq(Validators), commitDeadline : Nat, revealDeadline : Nat,
    approvals : Nat, rejections : Nat, revealedCount : Nat,
    committeeSize : Nat, earlyAt : Nat ]

NoRound ==
  [ validators |-> <<>>, commitDeadline |-> 0, revealDeadline |-> 0,
    approvals |-> 0, rejections |-> 0, revealedCount |-> 0,
    committeeSize |-> 0, earlyAt |-> 0 ]

SeatType ==
  [ member : BOOLEAN, stake : Nat, sealed : {"none", "approve", "reject"},
    receipt : BOOLEAN, revealed : BOOLEAN, approved : BOOLEAN ]

NoSeat ==
  [ member |-> FALSE, stake |-> 0, sealed |-> "none", receipt |-> FALSE,
    revealed |-> FALSE, approved |-> FALSE ]

Init ==
  /\ rounds = [j \in Jobs |-> NoRound]
  /\ seats = [j \in Jobs |-> [v \in Validators |-> NoSeat]]
  /\ selection = [j \in Jobs |-> [target |-> 0, contributors |-> {}]]
  /\ bans = [v \in Validators |-> 0]
  /\ pool \in Pools
  /\ params \in Params
  /\ status = [j \in Jobs |-> "Open"]
  /\ verdict = [j \in Jobs |-> "none"]
  /\ startPending = {}
  /\ evidence = [j \in Jobs |-> "none"]
  /\ burnOn \in BurnSettings
  /\ stakes = InitialStakes
  /\ blacklist = {}
  /\ now = 0
-----------------------------------------------------------------------------
(* Helpers. *)

AtMost(a, b) == IF a <= b THEN a ELSE b

\* burnEvidenceStatus: required and not satisfied.
BurnMissing(j) == burnOn /\ evidence[j] # "confirmed"

\* The committee size a tally asks for.
CommitteeSize(j) ==
  AtMost(IF rounds[j].committeeSize = 0 THEN params.perJob ELSE rounds[j].committeeSize,
         params.limit)

Quorum(j) == rounds[j].revealedCount >= CommitteeSize(j)

\* The validators the loops of a tally and of _cleanup reach.
Bench(j) ==
  LET vals == rounds[j].validators IN SubSeq(vals, 1, AtMost(Len(vals), params.limit))

Seated(j) == Range(Bench(j))
Silent(j) == {v \in Seated(j) : ~seats[j][v].revealed}
Dissenting(j, ok) == {v \in Seated(j) : seats[j][v].revealed /\ seats[j][v].approved # ok}
-----------------------------------------------------------------------------
(* Start and selection of the committee. *)

StartSize ==
  LET wanted == IF params.perJob < params.min THEN params.min ELSE params.perJob
  IN AtMost(AtMost(AtMost(wanted, params.max), params.limit), Len(pool))

\* The first contribution of an entropy round.
Seed(j, c) == [selection EXCEPT ![j] = [target |-> now + 1, contributors |-> {c}]]

\* start, called by the registry inside submit or confirmEmployerBurn.
Start(j) ==
  /\ Len(pool) >= params.min
  /\ rounds' = [rounds EXCEPT ![j].committeeSize = StartSize]
  /\ selection' = Seed(j, Registry)

Eligible ==
  {i \in DOMAIN pool : /\ bans[pool[i]] <= now
                       /\ stakes[pool[i]] > 0
                       /\ pool[i] \notin blacklist}

Sample == AtMost(SampleSize, Len(pool))

\* The first Sample eligible entries from a position of the rotation on.
Window(first) ==
  LET distance(i) == (i - first + Len(pool)) % Len(pool)
  IN {i \in Eligible : Cardinality({k \in Eligible : distance(k) < distance(i)}) < Sample}

\* The entries a strategy may leave for the weighted draw.
CandidateSets(strategy) ==
  IF strategy = "Rotating" THEN {Window(first) : first \in DOMAIN pool}
  ELSE kSubset(AtMost(Sample, Cardinality(Eligible)), Eligible)

\* The committees of a size the draw may take from the candidates.
Committees(strategy, size) ==
  UNION { {[i \in 1..size |-> pool[draw[i]]] : draw \in Injection(1..size, candidates)}
          : candidates \in CandidateSets(strategy) }

\* The end of selectValidators: stakes are recorded and the windows begin.
DrawCommittee(j, strategy, given) ==
  LET wanted == IF rounds[j].committeeSize = 0 THEN params.perJob ELSE rounds[j].committeeSize
      size == AtMost(wanted, params.limit)
  IN /\ pool # <<>>
     /\ Sample >= size
     /\ \E vals \in Committees(strategy, size) :
          /\ rounds' = [rounds EXCEPT
               ![j].validators = vals,
               ![j].committeeSize = wanted,
               ![j].commitDeadline = now + params.commitWindow,
               ![j].revealDeadline = now + params.commitWindow + params.revealWindow]
          /\ seats' = [seats EXCEPT ![j] = [v \in Validators |->
               IF v \in Range(vals)
               THEN [seats[j][v] EXCEPT !.member = TRUE, !.stake = stakes[v]]
               ELSE seats[j][v]]]
     /\ selection' = [selection EXCEPT ![j] = [target |-> 0, contributors |-> given]]

\* Bound: a committee is drawn only while its round can end before MaxTime.
InTime == now + params.commitWindow + params.revealWindow + Grace < MaxTime

\* selectValidators, whoever calls it and whatever the state of the job.
SelectValidators(j, c) ==
  LET given == selection[j].contributors
      seeding == selection[j].target = 0
      collecting == ~seeding /\ now <= selection[j].target
      added == IF Cardinality(given) < MinEntropyContributors THEN given \cup {c} ELSE given
      stale == \/ Cardinality(added) < MinEntropyContributors
               \/ now - selection[j].target > HashWindow
  IN /\ ~BurnMissing(j)
     /\ rounds[j].validators = <<>>
     /\ InTime
     /\ \/ /\ seeding
           /\ selection' = Seed(j, c)
           /\ UNCHANGED <<rounds, seats>>
        \/ /\ collecting
           /\ selection' = [selection EXCEPT ![j].contributors = @ \cup {c}]
           /\ UNCHANGED <<rounds, seats>>
        \/ /\ ~seeding /\ ~collecting /\ stale
           /\ selection' = Seed(j, c)
           /\ UNCHANGED <<rounds, seats>>
        \/ /\ ~seeding /\ ~collecting /\ ~stale
           /\ \E strategy \in Strategies : DrawCommittee(j, strategy, added)
     /\ UNCHANGED <<bans, stakes, registryVars, config>>
-----------------------------------------------------------------------------
(* Commit and reveal. *)

\* commitValidation; commitVote always reverts, since both take the guard
\* against re-entrancy.
CommitValidation(v, j, vote, receipt) ==
  LET seat == seats[j][v]
      deadline == rounds[j].commitDeadline
  IN /\ status[j] = "Submitted"
     /\ deadline # 0 /\ now <= deadline
     /\ bans[v] <= now
     /\ v \notin blacklist
     /\ seat.member
     /\ seat.stake > 0
     /\ seat.sealed = "none"
     /\ seats' = [seats EXCEPT ![j][v].sealed = vote, ![j][v].receipt = receipt]
     /\ UNCHANGED <<rounds, selection, bans, stakes, registryVars, config>>

\* Mutant of RevealWindow: revealing begins while the last commits may come.
RevealWindowEarly(j) == now >= rounds[j].commitDeadline /\ now <= rounds[j].revealDeadline

RevealWindow(j) == now > rounds[j].commitDeadline /\ now <= rounds[j].revealDeadline

\* The receipt a vote was sealed with must suit the burn status of now: it is
\* demanded when a burn is required and confirmed, and must exist when given.
ReceiptSuits(j, receipt) ==
  /\ burnOn /\ evidence[j] = "confirmed" => receipt
  /\ receipt => evidence[j] # "none"

\* Mutant of Sealed: a vote may be revealed again.
SealedOnly(seat) == seat.sealed # "none"

\* CommitMissing and AlreadyRevealed
Sealed(seat) == seat.sealed # "none" /\ ~seat.revealed

\* revealValidation; the status of the job is not asked for.
RevealValidation(v, j) ==
  LET seat == seats[j][v]
      approve == seat.sealed = "approve"
      round == rounds[j]
      count == round.revealedCount + 1
  IN /\ RevealWindow(j)
     /\ seat.member
     /\ bans[v] <= now
     /\ v \notin blacklist
     /\ Sealed(seat)
     /\ ReceiptSuits(j, seat.receipt)
     /\ seat.stake > 0
     /\ seats' = [seats EXCEPT ![j][v].revealed = TRUE, ![j][v].approved = approve]
     /\ rounds' = [rounds EXCEPT
          ![j].revealedCount = count,
          ![j].approvals = IF approve THEN @ + seat.stake ELSE @,
          ![j].rejections = IF approve THEN @ ELSE @ + seat.stake,
          ![j].earlyAt = IF @ = 0 /\ count >= CommitteeSize(j) THEN now + EarlyDelay ELSE @]
     /\ UNCHANGED <<selection, bans, stakes, registryVars, config>>
-----------------------------------------------------------------------------
(* Tally. *)

\* onValidationResult and forceFinalize of the registry: only while Submitted.
Report(j, ok) ==
  /\ status[j] = "Submitted"
  /\ status' = [status EXCEPT ![j] = "Decided"]
  /\ verdict' = [verdict EXCEPT ![j] = IF ok THEN "approved" ELSE "rejected"]
  /\ startPending' = startPending \ {j}
  /\ UNCHANGED evidence

\* What a member loses: a share of the stake recorded at selection, once for
\* every place on the committee.
Due(j, dissenting) ==
  [v \in Validators |->
     LET places == Cardinality({i \in DOMAIN Bench(j) : Bench(j)[i] = v})
         stake == seats[j][v].stake
     IN IF v \in Silent(j) THEN places * ((stake * PenaltyBps) \div 10000)
        ELSE IF v \in dissenting THEN places * ((stake * SlashPct) \div 100)
        ELSE 0]

\* StakeManager.slash accepts the caller and finds the stake.
Payable(due) ==
  \A v \in Validators : due[v] > 0 => SlashAccepted /\ stakes[v] >= due[v]

Banned(j) ==
  [v \in Validators |-> IF v \in Silent(j) /\ BanBlocks # 0 THEN now + BanBlocks ELSE bans[v]]

Punish(j, dissenting) ==
  LET due == Due(j, dissenting)
  IN /\ Payable(due)
     /\ stakes' = [v \in Validators |-> stakes[v] - due[v]]
     /\ bans' = Banned(j)

\* Mutant of Emptied: the votes of the round stay.
EmptiedOfCommits(j) ==
  [v \in Validators |->
     IF v \in Seated(j)
     THEN [seats[j][v] EXCEPT !.member = FALSE, !.stake = 0, !.sealed = "none", !.receipt = FALSE]
     ELSE seats[j][v]]

Emptied(j) == [v \in Validators |-> IF v \in Seated(j) THEN NoSeat ELSE seats[j][v]]

\* _cleanup
Cleanup(j) ==
  /\ seats' = [seats EXCEPT ![j] = Emptied(j)]
  /\ rounds' = [rounds EXCEPT ![j] = NoRound]

Approvers(j) == {i \in DOMAIN Bench(j) : seats[j][Bench(j)[i]].approved}

\* Mutant of Approved: either condition will do.
ApprovedEither(j) ==
  LET total == rounds[j].approvals + rounds[j].rejections
  IN /\ Quorum(j)
     /\ total > 0
     /\ \/ rounds[j].approvals * 100 >= total * params.threshold
        \/ Cardinality(Approvers(j)) >= params.required

Approved(j) ==
  LET total == rounds[j].approvals + rounds[j].rejections
  IN /\ Quorum(j)
     /\ total > 0
     /\ rounds[j].approvals * 100 >= total * params.threshold
     /\ Cardinality(Approvers(j)) >= params.required

\* finalize and finalizeValidation: everyone revealed (which is so before
\* there is anyone), the early delay is over, or the reveal window is.
MayTally(j) ==
  LET round == rounds[j]
  IN \/ round.revealedCount = Len(round.validators)
     \/ round.earlyAt # 0 /\ now >= round.earlyAt
     \/ now > round.revealDeadline

Finalize(j) ==
  /\ MayTally(j)
  /\ Report(j, Approved(j))
  /\ Punish(j, Dissenting(j, Approved(j)))
  /\ Cleanup(j)
  /\ UNCHANGED <<selection, config>>

GraceOver(j) == now > rounds[j].revealDeadline + Grace

\* Mutant of ForceFinalize: the silent are punished whether or not they could
\* have revealed.
ForceFinalizePunishing(j) ==
  /\ GraceOver(j)
  /\ \/ /\ Quorum(j)
        /\ Finalize(j)
     \/ /\ ~Quorum(j)
        /\ Report(j, FALSE)
        /\ Punish(j, {})
        /\ Cleanup(j)
        /\ UNCHANGED <<selection, config>>

\* forceFinalize: with a quorum it is finalize; without, the result is a
\* rejection and only the silent are punished, nobody while burn evidence is
\* missing.
ForceFinalize(j) ==
  /\ GraceOver(j)
  /\ \/ /\ Quorum(j)
        /\ Finalize(j)
     \/ /\ ~Quorum(j)
        /\ Report(j, FALSE)
        /\ IF BurnMissing(j) THEN UNCHANGED <<stakes, bans>> ELSE Punish(j, {})
        /\ Cleanup(j)
        /\ UNCHANGED <<selection, config>>
-----------------------------------------------------------------------------
(* The owner. *)

ResetJobNonce(j) ==
  /\ OwnerResets
  /\ Cleanup(j)
  /\ UNCHANGED <<selection, bans, stakes, registryVars, config>>

ResetSelection(j) ==
  /\ OwnerResets
  /\ selection' = [selection EXCEPT ![j].target = 0]
  /\ UNCHANGED <<rounds, seats, bans, stakes, registryVars, config>>

SetValidatorPool(p) ==
  /\ p # pool
  /\ pool' = p
  /\ UNCHANGED <<rounds, seats, selection, bans, stakes, registryVars, params, burnOn,
                 blacklist, now>>

\* The setters of committee bounds, windows and thresholds.
SetParameters(p) ==
  /\ p # params
  /\ params' = p
  /\ UNCHANGED <<rounds, seats, selection, bans, stakes, registryVars, pool, burnOn,
                 blacklist, now>>
-----------------------------------------------------------------------------
(* The JobRegistry, the StakeManager and time. *)

\* The agent submits; without burn evidence the start has to wait.
Submit(j) ==
  /\ status[j] = "Open"
  /\ status' = [status EXCEPT ![j] = "Submitted"]
  /\ \/ /\ BurnMissing(j)
        /\ startPending' = startPending \cup {j}
        /\ UNCHANGED <<rounds, selection>>
     \/ /\ ~BurnMissing(j)
        /\ startPending' = startPending \ {j}
        /\ Start(j)
  /\ UNCHANGED <<seats, bans, stakes, verdict, evidence, config>>

SubmitBurnReceipt(j) ==
  /\ evidence[j] = "none"
  /\ evidence' = [evidence EXCEPT ![j] = "receipt"]
  /\ UNCHANGED <<rounds, seats, selection, bans, stakes, status, verdict, startPending, config>>

ConfirmEmployerBurn(j) ==
  /\ evidence[j] # "none"
  /\ evidence' = [evidence EXCEPT ![j] = "confirmed"]
  /\ \/ /\ j \in startPending
        /\ startPending' = startPending \ {j}
        /\ Start(j)
     \/ /\ j \notin startPending
        /\ UNCHANGED <<startPending, rounds, selection>>
  /\ UNCHANGED <<seats, bans, stakes, status, verdict, config>>

SetBurn(on) ==
  /\ on # burnOn
  /\ burnOn' = on
  /\ UNCHANGED <<rounds, seats, selection, bans, stakes, registryVars, pool, params,
                 blacklist, now>>

\* A validator deposits or withdraws: the committee has no lock on the stake.
ChangeStake(v, amount) ==
  /\ amount # stakes[v]
  /\ stakes' = [stakes EXCEPT ![v] = amount]
  /\ UNCHANGED <<rounds, seats, selection, bans, registryVars, config>>

SetBlacklist(v) ==
  /\ blacklist' = IF v \in blacklist THEN blacklist \ {v} ELSE blacklist \cup {v}
  /\ UNCHANGED <<rounds, seats, selection, bans, stakes, registryVars, pool, params,
                 burnOn, now>>

Tick ==
  /\ now < MaxTime
  /\ now' = now + 1
  /\ UNCHANGED <<rounds, seats, selection, bans, stakes, registryVars, pool, params,
                 burnOn, blacklist>>
-----------------------------------------------------------------------------
Voting(j) ==
  \/ \E c \in Callers : SelectValidators(j, c)
  \/ \E v \in Validators, vote \in {"approve", "reject"}, receipt \in BurnSettings :
       CommitValidation(v, j, vote, receipt)
  \/ \E v \in Validators : RevealValidation(v, j)
  \/ Finalize(j)
  \/ ForceFinalize(j)

Job(j) == Submit(j) \/ SubmitBurnReceipt(j) \/ ConfirmEmployerBurn(j)

Owner ==
  \/ \E j \in Jobs : ResetJobNonce(j) \/ ResetSelection(j)
  \/ \E p \in Pools : SetValidatorPool(p)
  \/ \E p \in Params : SetParameters(p)

Environment ==
  \/ \E on \in BurnSettings : SetBurn(on)
  \/ \E v \in Validators, amount \in StakeChanges : ChangeStake(v, amount)
  \/ \E v \in Blacklistable : SetBlacklist(v)
  \/ Tick

Next ==
  \/ \E j \in Jobs : Voting(j) \/ Job(j)
  \/ Owner
  \/ Environment

Spec == Init /\ [][Next]_vars

\* Time passes, and somebody who waits for the result (finalize and
\* forceFinalize are open to everybody) calls once a call succeeds.
FairSpec ==
  /\ Spec
  /\ WF_vars(Tick)
  /\ \A j \in Jobs : WF_vars(Finalize(j) \/ ForceFinalize(j))
-----------------------------------------------------------------------------
(* Properties. *)

\* Every variable has its type; in particular no stake is slashed below zero.
TypeOK ==
  /\ rounds \in [Jobs -> RoundType]
  /\ seats \in [Jobs -> [Validators -> SeatType]]
  /\ selection \in [Jobs -> [target : Nat, contributors : SUBSET (Callers \cup {Registry})]]
  /\ bans \in [Validators -> Nat]
  /\ pool \in Pools
  /\ params \in Params
  /\ status \in [Jobs -> {"Open", "Submitted", "Decided"}]
  /\ verdict \in [Jobs -> {"none", "approved", "rejected"}]
  /\ startPending \subseteq Jobs
  /\ evidence \in [Jobs -> {"none", "receipt", "confirmed"}]
  /\ burnOn \in BurnSettings
  /\ stakes \in [Validators -> Nat]
  /\ blacklist \subseteq Validators
  /\ now \in Nat

Revealed(j) == {v \in Validators : seats[j][v].revealed}
Approving(j) == {v \in Revealed(j) : seats[j][v].approved}
StakeOf(j, vs) == Total([v \in Validators |-> IF v \in vs THEN seats[j][v].stake ELSE 0])

\* The lookup table, stake snapshots, commitments and votes of a job belong to
\* the committee that sits now: nothing of an earlier committee of the same job
\* survives a tally, a forced end or the owner's reset, to be counted or
\* revealed once more in a later round.
SeatsMatchCommittee ==
  \A j \in Jobs, v \in Validators :
    LET seat == seats[j][v] IN
    IF v \in Range(rounds[j].validators)
    THEN /\ seat.member /\ seat.stake > 0
         /\ seat.revealed => seat.sealed # "none"
         /\ seat.approved <=> seat.revealed /\ seat.sealed = "approve"
    ELSE seat = NoSeat

\* The counters a tally decides by are what the votes revealed by the committee
\* add up to, however selection, resets and the restart of a job's validation
\* interleave with the voting.
CountsMatchSeats ==
  \A j \in Jobs :
    /\ rounds[j].revealedCount = Cardinality(Revealed(j))
    /\ rounds[j].approvals = StakeOf(j, Approving(j))
    /\ rounds[j].rejections = StakeOf(j, Revealed(j) \ Approving(j))

\* A job is approved only by a vote: as many members as the round asks for
\* revealed what they had committed, after commits had closed, and the stake
\* and number of those in favour reach the owner's thresholds.
ApprovalJustified ==
  [][\A j \in Jobs :
       verdict[j] = "none" /\ verdict'[j] = "approved" =>
         /\ now > rounds[j].commitDeadline
         /\ Cardinality(Revealed(j)) >= CommitteeSize(j)
         /\ StakeOf(j, Approving(j)) * 100 >= StakeOf(j, Revealed(j)) * params.threshold
         /\ Cardinality(Approving(j)) >= params.required
         /\ \E v \in Approving(j) : seats[j][v].sealed = "approve"]_vars

\* The module implements a sealed vote: the phase follows from the committee and
\* the clock.
PhaseOf(j) ==
  IF rounds[j].validators = <<>> THEN "Idle"
  ELSE IF now <= rounds[j].commitDeadline THEN "Sealing" ELSE "Opening"

Sealing == INSTANCE SealedVote WITH
  Voters <- Validators,
  phase <- [j \in Jobs |-> PhaseOf(j)],
  committee <- [j \in Jobs |-> {v \in Validators : seats[j][v].member}],
  ballots <- [j \in Jobs |-> [v \in Validators |-> seats[j][v].sealed]],
  opened <- [j \in Jobs |-> Revealed(j)],
  judgement <- verdict

ImplementsSealedVote == Sealing!Vote

\* The round is over and whoever ends it has to take a penalty that the
\* StakeManager refuses: the tally and the forced end both revert.
PenaltyRefused(j) ==
  /\ GraceOver(j)
  /\ Quorum(j) \/ ~BurnMissing(j)
  /\ ~Payable(Due(j, IF Quorum(j) THEN Dissenting(j, Approved(j)) ELSE {}))

\* A submitted job is decided, whether a committee was drawn, the start had to
\* wait, votes were revealed or burn evidence is missing: only a round that is
\* over and owes a penalty may be stuck, and it owes none to validators who
\* voted with the result, nor to anybody when too few could reveal for want of
\* burn evidence.  Checked with the StakeManager of the repository, which
\* accepts slashes of the JobRegistry and the dispute module only, so that every
\* round that owes a penalty is stuck.
JobsDecided ==
  \A j \in Jobs :
    status[j] = "Submitted" ~> status[j] = "Decided" \/ PenaltyRefused(j)
=============================================================================
