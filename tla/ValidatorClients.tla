-------------------------- MODULE ValidatorClients --------------------------
(***************************************************************************)
(* The programs with which validators vote on one job: the scripts         *)
(* scripts/validator/commit.ts and reveal.ts, the command line tool        *)
(* examples/commit-reveal.js, the daemon examples/agentic/v2-validator.js  *)
(* and validate() of examples/ethers-quickstart.js.  All of them run on    *)
(* one host and share its storage directory.  A run sends transactions     *)
(* between reads and writes of that directory, and it may be killed at     *)
(* any point; the salt of a vote exists only in the run and on the disk.   *)
(***************************************************************************)
EXTENDS Naturals, Sequences, SequencesExt

CONSTANTS
  Wallets,       \* keys the programs are run with
  Tools,         \* the programs each wallet uses
  Receipts,      \* burn receipts the employer may submit
  Zero,          \* ethers.ZeroHash
  None,          \* absent
  BurnRequired,  \* whether burnPct is set
  MaxSalts,      \* bound: salts ever drawn, hence commit runs
  MaxCrashes     \* bound: runs killed

Programs == {"script", "example", "runtime", "quickstart"}

ASSUME ClientAssumption ==
  /\ Tools \in [Wallets -> SUBSET Programs]
  /\ Zero \notin Receipts
  /\ MaxSalts \in Nat
  /\ MaxCrashes \in Nat
  /\ BurnRequired \in BOOLEAN
  /\ Wallets # {}

VARIABLES
  phase,      \* of the round: Idle, Commit, Reveal or Over
  receipts,   \* burn receipts in the order of their events
  confirmed,  \* burnEvidenceStatus: evidence confirmed by the employer
  sealed,     \* commitments
  opened,     \* revealed votes
  file,       \* storage/validation/<job>.json of the scripts
  record,     \* storage/validation/<job>-<wallet>.json of the tool
  run,        \* what the program of each wallet is doing
  notified,   \* daemons with an unhandled ValidatorsSelected event
  salts,      \* salts drawn so far
  crashes,    \* runs killed so far
  lost        \* wallets whose run was killed holding the only copy of a salt

chainVars == <<phase, receipts, confirmed, sealed, opened>>
diskVars == <<file, record>>
countVars == <<salts, crashes, lost>>
vars == <<phase, receipts, confirmed, sealed, opened, file, record, run,
          notified, salts, crashes, lost>>

Burns == Receipts \cup {Zero}
Material == [approve : BOOLEAN, burn : Burns, salt : 0..MaxSalts]
Seals == [tool : Programs, of : Material]
ASSUME NoneAssumption == None \notin BOOLEAN \cup Material \cup Seals

Points == {"commit", "committed", "armed", "reveal", "revealed"}
Timers == {"none", "deadline", "fallback"}
Idle == [pc |-> "idle"]
Runs == [pc : Points, tool : Programs, m : Material, timer : Timers]

Init ==
  /\ phase = "Idle"
  /\ receipts = <<>>
  /\ confirmed = FALSE
  /\ sealed = [w \in Wallets |-> None]
  /\ opened = [w \in Wallets |-> None]
  /\ file = None
  /\ record = [w \in Wallets |-> None]
  /\ run = [w \in Wallets |-> Idle]
  /\ notified = {}
  /\ salts = 0
  /\ crashes = 0
  /\ lost = {}

-----------------------------------------------------------------------------
(* The contracts.                                                          *)

\* Which hash a program commits to.  The operator hands quickstart a hash;
\* it is taken to be the current one.
Scheme(tool) ==
  CASE tool = "script" -> "legacy"
    [] tool = "example" -> "outcome"
    [] tool = "quickstart" -> "outcome"
    [] tool = "runtime" -> "bool and salt"

\* The two hashes revealValidation recomputes.
Opens(seal, m) == Scheme(seal.tool) \in {"outcome", "legacy"} /\ seal.of = m

Submitted(burn) == \E i \in DOMAIN receipts : receipts[i] = burn

BurnAccepted(burn) ==
  IF BurnRequired /\ confirmed
  THEN burn # Zero /\ Submitted(burn)
  ELSE burn = Zero \/ Submitted(burn)

CanCommit(w) == phase = "Commit" /\ sealed[w] = None

\* Mutant of CanReveal: the window is not looked at.
CanRevealAnytime(w, m) ==
  /\ sealed[w] # None
  /\ opened[w] = None
  /\ BurnAccepted(m.burn)
  /\ Opens(sealed[w], m)

CanReveal(w, m) ==
  /\ phase = "Reveal"
  /\ sealed[w] # None
  /\ opened[w] = None
  /\ BurnAccepted(m.burn)
  /\ Opens(sealed[w], m)

\* The committee is drawn; daemons that are up get the event.
SelectCommittee ==
  /\ phase = "Idle"
  /\ phase' = "Commit"
  /\ notified' = {w \in Wallets : "runtime" \in Tools[w]}
  /\ UNCHANGED <<receipts, confirmed, sealed, opened, diskVars, run, countVars>>

\* The commit and then the reveal window end.
Tick ==
  /\ \/ phase = "Commit" /\ phase' = "Reveal"
     \/ phase = "Reveal" /\ phase' = "Over"
  /\ UNCHANGED <<receipts, confirmed, sealed, opened, diskVars, run, notified, countVars>>

\* The employer submits a burn receipt and later confirms one.
SubmitBurnReceipt(r) ==
  /\ ~Submitted(r)
  /\ receipts' = Append(receipts, r)
  /\ UNCHANGED <<phase, confirmed, sealed, opened, diskVars, run, notified, countVars>>

ConfirmEmployerBurn ==
  /\ receipts # <<>>
  /\ confirmed' = TRUE
  /\ UNCHANGED <<phase, receipts, sealed, opened, diskVars, run, notified, countVars>>

-----------------------------------------------------------------------------
(* Committing.                                                             *)

At(w, pc) == run[w].pc = pc

Goes(w, to) == run' = [run EXCEPT ![w] = to]

\* The last BurnReceiptSubmitted event, or the zero hash.
LastReceipt == IF receipts = <<>> THEN Zero ELSE Last(receipts)

\* A run reads what the hash needs and draws the salt.  commit.ts looks the
\* receipt up; the other programs are given it.
StartCommit(w, tool, approve, burn) ==
  /\ At(w, "idle")
  /\ tool \in Tools[w]
  /\ tool = "script" => burn = LastReceipt
  /\ tool = "runtime" => w \in notified
  /\ salts < MaxSalts
  /\ salts' = salts + 1
  /\ Goes(w, [pc |-> "commit", tool |-> tool, timer |-> "none",
              m |-> [approve |-> approve, burn |-> burn, salt |-> salts + 1]])
  /\ notified' = IF tool = "runtime" THEN notified \ {w} ELSE notified
  /\ UNCHANGED <<chainVars, diskVars, crashes, lost>>

\* quickstart goes on to reveal at once, the others note what they did.
AfterCommit(tool) == IF tool = "quickstart" THEN "reveal" ELSE "committed"

\* Mutant of SendCommit: the run goes on although the commit was refused.
SendCommitRegardless(w) ==
  /\ At(w, "commit")
  /\ sealed' = IF CanCommit(w)
               THEN [sealed EXCEPT ![w] = [tool |-> run[w].tool, of |-> run[w].m]] ELSE sealed
  /\ Goes(w, [run[w] EXCEPT !.pc = AfterCommit(run[w].tool)])
  /\ UNCHANGED <<phase, receipts, confirmed, opened, diskVars, notified, countVars>>

\* The transaction is mined, or refused and the run ends.
SendCommit(w) ==
  /\ At(w, "commit")
  /\ IF CanCommit(w)
     THEN /\ sealed' = [sealed EXCEPT ![w] = [tool |-> run[w].tool, of |-> run[w].m]]
          /\ Goes(w, [run[w] EXCEPT !.pc = AfterCommit(run[w].tool)])
     ELSE UNCHANGED sealed /\ Goes(w, Idle)
  /\ UNCHANGED <<phase, receipts, confirmed, opened, diskVars, notified, countVars>>

\* writeFileSync of commit.ts.
SaveFile(w) ==
  /\ At(w, "committed")
  /\ run[w].tool = "script"
  /\ file' = run[w].m
  /\ Goes(w, Idle)
  /\ UNCHANGED <<chainVars, record, notified, countVars>>

\* saveRecord, after the commit or after the reveal: every field that the
\* reveal needs is overwritten.
SaveRecord(w) ==
  /\ run[w].pc \in {"committed", "revealed"}
  /\ run[w].tool = "example"
  /\ record' = [record EXCEPT ![w] = run[w].m]
  /\ Goes(w, Idle)
  /\ UNCHANGED <<chainVars, file, notified, countVars>>

\* The daemon arms a timer for shortly before the reveal deadline, or, when
\* the deadline cannot be read, for ten seconds from now.
Arm(w, timer) ==
  /\ At(w, "committed")
  /\ run[w].tool = "runtime"
  /\ Goes(w, [run[w] EXCEPT !.pc = "armed", !.timer = timer])
  /\ UNCHANGED <<chainVars, diskVars, notified, countVars>>

-----------------------------------------------------------------------------
(* Revealing.                                                              *)

\* reveal.ts takes everything from the file of the job.
StartRevealScript(w) ==
  /\ At(w, "idle")
  /\ "script" \in Tools[w]
  /\ file # None
  /\ Goes(w, [pc |-> "reveal", tool |-> "script", timer |-> "none", m |-> file])
  /\ UNCHANGED <<chainVars, diskVars, notified, countVars>>

\* An argument beats the record; salt 0 stands for one the operator made up.
Stored(w, field, default) == IF record[w] = None THEN default ELSE record[w][field]
Choose(arg, stored) == IF arg = None THEN stored ELSE arg

\* Mutant of StartRevealExample: a missing record is not noticed.
StartRevealUnrecorded(w, approve, burn, salt) ==
  /\ At(w, "idle")
  /\ "example" \in Tools[w]
  /\ Goes(w, [pc |-> "reveal", tool |-> "example", timer |-> "none",
              m |-> [approve |-> Choose(approve, Stored(w, "approve", None)),
                     burn |-> Choose(burn, Stored(w, "burn", Zero)),
                     salt |-> Choose(salt, Stored(w, "salt", None))]])
  /\ UNCHANGED <<chainVars, diskVars, notified, countVars>>

\* Mutant of StartRevealExample: the burn hash of the record is ignored.
StartRevealNoBurn(w, approve, burn, salt) ==
  /\ At(w, "idle")
  /\ "example" \in Tools[w]
  /\ record[w] = None => approve # None /\ salt # None
  /\ Goes(w, [pc |-> "reveal", tool |-> "example", timer |-> "none",
              m |-> [approve |-> Choose(approve, Stored(w, "approve", None)),
                     burn |-> Choose(burn, Zero),
                     salt |-> Choose(salt, Stored(w, "salt", None))]])
  /\ UNCHANGED <<chainVars, diskVars, notified, countVars>>

StartRevealExample(w, approve, burn, salt) ==
  /\ At(w, "idle")
  /\ "example" \in Tools[w]
  /\ record[w] = None => approve # None /\ salt # None
  /\ Goes(w, [pc |-> "reveal", tool |-> "example", timer |-> "none",
              m |-> [approve |-> Choose(approve, Stored(w, "approve", None)),
                     burn |-> Choose(burn, Stored(w, "burn", Zero)),
                     salt |-> Choose(salt, Stored(w, "salt", None))]])
  /\ UNCHANGED <<chainVars, diskVars, notified, countVars>>

\* The windows are longer than the margin of the timer, so the deadline timer
\* fires after the commit window; the block that takes the reveal may be late.
TimerFires(w) ==
  /\ At(w, "armed")
  /\ run[w].timer = "deadline" => phase \in {"Reveal", "Over"}
  /\ Goes(w, [run[w] EXCEPT !.pc = "reveal", !.timer = "none"])
  /\ UNCHANGED <<chainVars, diskVars, notified, countVars>>

\* ValidationResult clears the timer.
ClearJob(w) ==
  /\ At(w, "armed")
  /\ phase = "Over"
  /\ Goes(w, Idle)
  /\ UNCHANGED <<chainVars, diskVars, notified, countVars>>

AfterReveal(w) ==
  IF run[w].tool \in {"script", "example"} THEN [run[w] EXCEPT !.pc = "revealed"] ELSE Idle

\* Mutant of SendReveal: the run goes on although the reveal was refused.
SendRevealRegardless(w) ==
  /\ At(w, "reveal")
  /\ opened' = IF CanReveal(w, run[w].m) THEN [opened EXCEPT ![w] = run[w].m.approve] ELSE opened
  /\ Goes(w, AfterReveal(w))
  /\ UNCHANGED <<phase, receipts, confirmed, sealed, diskVars, notified, countVars>>

\* The transaction is mined, or refused: no program tries again by itself.
SendReveal(w) ==
  /\ At(w, "reveal")
  /\ IF CanReveal(w, run[w].m)
     THEN /\ opened' = [opened EXCEPT ![w] = run[w].m.approve]
          /\ Goes(w, AfterReveal(w))
     ELSE UNCHANGED opened /\ Goes(w, Idle)
  /\ UNCHANGED <<phase, receipts, confirmed, sealed, diskVars, notified, countVars>>

\* unlinkSync of reveal.ts, whatever the file holds by now.
Unlink(w) ==
  /\ At(w, "revealed")
  /\ run[w].tool = "script"
  /\ file' = None
  /\ Goes(w, Idle)
  /\ UNCHANGED <<chainVars, record, notified, countVars>>

\* A run holds the only copy of its salt between the commit and the write;
\* the daemon, and the operator of quickstart, never write it.
SoleCopy(w) ==
  \/ At(w, "committed")
  \/ At(w, "armed")
  \/ At(w, "reveal") /\ run[w].tool \in {"runtime", "quickstart"}

\* The process is killed; a daemon also forgets the event it has not handled.
Kill(w) ==
  /\ crashes < MaxCrashes
  /\ ~At(w, "idle") \/ w \in notified
  /\ crashes' = crashes + 1
  /\ lost' = IF SoleCopy(w) THEN lost \cup {w} ELSE lost
  /\ notified' = notified \ {w}
  /\ Goes(w, Idle)
  /\ UNCHANGED <<chainVars, diskVars, salts>>

-----------------------------------------------------------------------------
Step(w) ==
  \/ SendCommit(w) \/ SaveFile(w) \/ SaveRecord(w)
  \/ SendReveal(w) \/ Unlink(w)

Operator(w) ==
  \/ \E tool \in Programs, approve \in BOOLEAN, burn \in Burns :
       StartCommit(w, tool, approve, burn)
  \/ StartRevealScript(w)
  \/ \E approve \in BOOLEAN \cup {None}, burn \in Burns \cup {None}, salt \in {None, 0} :
       StartRevealExample(w, approve, burn, salt)

Daemon(w) ==
  \/ \E timer \in {"deadline", "fallback"} : Arm(w, timer)
  \/ TimerFires(w)
  \/ ClearJob(w)

Chain ==
  \/ SelectCommittee
  \/ Tick
  \/ \E r \in Receipts : SubmitBurnReceipt(r)
  \/ ConfirmEmployerBurn

Next == Chain \/ \E w \in Wallets : Step(w) \/ Operator(w) \/ Daemon(w) \/ Kill(w)

Spec == Init /\ [][Next]_vars

\* A started run goes on, and an operator with a record keeps trying to reveal
\* without arguments.  The clock is not assumed to move: what has to happen in
\* the reveal window is not forced by its end.
RevealPlain(w) == StartRevealExample(w, None, None, None)

FairSpec ==
  /\ Spec
  /\ \A w \in Wallets : WF_vars(Step(w)) /\ SF_vars(RevealPlain(w))

-----------------------------------------------------------------------------
(* Properties.                                                             *)

\* Types; a salt is never drawn twice, and only killed runs lose one.
TypeOK ==
  /\ phase \in {"Idle", "Commit", "Reveal", "Over"}
  /\ receipts \in Seq(Receipts)
  /\ confirmed \in BOOLEAN
  /\ sealed \in [Wallets -> Seals \cup {None}]
  /\ opened \in [Wallets -> BOOLEAN \cup {None}]
  /\ file \in Material \cup {None}
  /\ record \in [Wallets -> Material \cup {None}]
  /\ run \in [Wallets -> Runs \cup {Idle}]
  /\ notified \in SUBSET Wallets
  /\ salts \in 0..MaxSalts
  /\ crashes \in 0..MaxCrashes
  /\ lost \in SUBSET Wallets

Sealed(w, tool) == sealed[w] # None /\ sealed[w].tool = tool

\* A vote committed with commit-reveal.js can always be opened from the record
\* on disk, unless the run was killed, or is still, between the confirmation
\* and saveRecord: no later commit, reveal with other arguments, refused
\* transaction or run of another program spoils the record.
RecordOpens ==
  \A w \in Wallets :
    Sealed(w, "example") =>
      \/ w \in lost
      \/ At(w, "committed") /\ run[w].tool = "example" /\ run[w].m = sealed[w].of
      \/ record[w] # None /\ Opens(sealed[w], record[w])

\* The same for commit.ts and the one file of the job, as long as no other
\* wallet of the host votes with the scripts; reveal.ts removes the file only
\* once the vote is open.
FileOpens ==
  \A w \in Wallets :
    /\ Sealed(w, "script")
    /\ \A u \in Wallets \ {w} : ~Sealed(u, "script")
    => \/ w \in lost
       \/ At(w, "committed") /\ run[w].tool = "script" /\ run[w].m = sealed[w].of
       \/ file # None /\ Opens(sealed[w], file)
       \/ opened[w] # None

\* A recorded vote whose burn evidence the contract accepts is opened while
\* the window is open, however many wrong attempts and crashes come first.
Ready(w) ==
  /\ phase = "Reveal"
  /\ opened[w] = None
  /\ Sealed(w, "example")
  /\ record[w] # None
  /\ Opens(sealed[w], record[w])
  /\ BurnAccepted(record[w].burn)

RecordedVotesOpened == \A w \in Wallets : []<>~Ready(w)

\* Whatever the operators type, the votes on the chain are the ballots sealed
\* before the window ended: the programs and the contract implement SealedVote.
Ballot(w) ==
  IF sealed[w] = None THEN "none" ELSE IF sealed[w].of.approve THEN "approve" ELSE "reject"

VotePhase ==
  CASE phase = "Idle" -> "Idle" [] phase = "Commit" -> "Sealing" [] OTHER -> "Opening"
Phases == [j \in {1} |-> VotePhase]
Committees == [j \in {1} |-> IF phase = "Idle" THEN {} ELSE Wallets]
Ballots == [j \in {1} |-> [w \in Wallets |-> Ballot(w)]]
OpenBallots == [j \in {1} |-> {w \in Wallets : opened[w] # None}]

SV == INSTANCE SealedVote WITH
  Jobs <- {1}, Voters <- Wallets, phase <- Phases, committee <- Committees,
  ballots <- Ballots, opened <- OpenBallots, judgement <- [j \in {1} |-> "none"]

ImplementsSealedVote == SV!Vote

=============================================================================
