------------------------------- MODULE Rollout -------------------------------
(***************************************************************************)
(* How a deployment comes to life: the Truffle migrations that create and  *)
(* wire the contracts and hand them over, the helper that transfers their  *)
(* ownership afterwards, and the check of the finished wiring.             *)
(*                                                                         *)
(*   migrations/3_deploy_core_v2.js        DeployPlan                      *)
(*   migrations/4_governance_handover.js   HandoverPlan                    *)
(*   scripts/transfer-ownership.ts         TransferPlan                    *)
(*   scripts/verify-wiring.js              Failures                        *)
(*                                                                         *)
(* A script is the sequence of its transactions, sent one at a time; it    *)
(* may be killed between any two of them and is then run again.  An address *)
(* is <<module, attempt>>: every run of the deployment creates new         *)
(* contracts.  The operator copies addresses from the file the deployment   *)
(* writes into the configuration the other scripts read, a part at a time. *)
(***************************************************************************)
EXTENDS Integers, SequencesExt

CONSTANTS Setups,       \* deployment configurations
          Copies,       \* the sets of modules an operator copies at once
          MaxAttempts, MaxKills,
          None          \* the zero address, and a setting that is left out

VARIABLES conf,     \* the deployment configuration
          chain,    \* module -> attempt -> the contract
          attempt,  \* deployments begun
          file,     \* the attempt the addresses file names, 0 when there is none
          modules,  \* the addresses the operator copied: module -> attempt or 0
          stage,    \* the last completed migration
          script,   \* what is running
          todo,     \* its transactions still to send
          outcome,  \* how the last migration and the last transfer ended
          kills

vars == <<conf, chain, attempt, file, modules, stage, script, todo, outcome, kills>>

Created == {"stakeManager", "reputationEngine", "identityRegistry",
            "validationModule", "disputeModule", "certificateNFT", "taxPolicy",
            "feePool", "jobRegistry"}

TwoStep == {"identityRegistry", "taxPolicy"}    \* Ownable2Step contracts

\* the numbers of a deployment configuration that a contract may refuse
Numbers == {"employerSlashPct", "treasurySlashPct", "minValidators", "maxValidators",
            "validatorsPerJob", "validatorPool", "commitWindow", "revealWindow"}

\* The migrations are sent by the deployer; an account that sends transactions
\* has no code; the zero address is nobody's and no contract's.
ASSUME RolloutAssumption ==
  /\ MaxAttempts \in Nat /\ MaxKills \in Nat
  /\ \A m \in Created, a \in 0..MaxAttempts : <<m, a>> # None
  /\ \A s \in Setups :
       /\ None \notin {s.deployer, s.initial, s.final, s.newOwner}
       /\ s.deployer \in s.signers /\ s.signers \cap s.code = {}
       /\ s.tax \in {"deploy", "existing", "none"}
       /\ \A n \in Numbers : s.numbers[n] \in Nat \union {None}

-----------------------------------------------------------------------------
(* Transactions.  "set" stands for the setters of module references, "grant" *)
(* for those of allow lists, "tune" for those of parameters.                 *)

Absent == [owner |-> None, pending |-> None, link |-> <<>>, grant |-> {}]

Create(m, owner, link) == [do |-> "create", to |-> m, by |-> owner, arg |-> link]
SetLinks(m, by, link)  == [do |-> "set", to |-> m, by |-> by, arg |-> link]
Grant(m, by, list, a)  == [do |-> "grant", to |-> m, by |-> by, arg |-> <<list, a>>]
Tune(m, by)            == [do |-> "tune", to |-> m, by |-> by, arg |-> None]
HandTo(m, by, a)       == [do |-> "hand", to |-> m, by |-> by, arg |-> a]
HandOnce(m, by, a)     == [do |-> "handOnce", to |-> m, by |-> by, arg |-> a]
Accept(m, by)          == [do |-> "accept", to |-> m, by |-> by, arg |-> None]
Confirm(m, a)          == [do |-> "confirm", to |-> m, by |-> a, arg |-> a]
WriteAddresses         == [do |-> "write", to |-> None, by |-> None, arg |-> None]

When(condition, steps) == IF condition THEN steps ELSE <<>>

\* f, and g where f is not defined
Over(f, g) ==
  [x \in DOMAIN f \union DOMAIN g |-> IF x \in DOMAIN f THEN f[x] ELSE g[x]]

-----------------------------------------------------------------------------
(* What the contracts accept of the configuration.  "validatorPool" is the   *)
(* pool's size; the percentages that the migration checks itself are left    *)
(* out, as are texts, amounts and durations nobody refuses.                  *)

Number(c, n, default) == IF c.numbers[n] = None THEN default ELSE c.numbers[n]

SlashShares(c) ==
  LET employer == Number(c, "employerSlashPct", 0)
  IN  employer + Number(c, "treasurySlashPct", 100 - employer)

MinValidators(c) == Number(c, "minValidators", 1)
MaxValidators(c) == Number(c, "maxValidators", Max({MinValidators(c), 3}))

\* a round's size within bounds; the constructor reads a bound of zero as 3
Seats(n) == IF n = 0 THEN 3 ELSE n
Bounds(least, most) == 3 <= least /\ least <= most

Constructed(c, m) ==
  CASE m = "stakeManager" -> SlashShares(c) \in {0, 100} /\ c.treasury # c.initial
    [] m = "validationModule" -> Bounds(Seats(MinValidators(c)), Seats(MaxValidators(c)))
    [] m = "feePool" -> c.feeTreasury # c.deployer
    [] OTHER -> TRUE

\* the setters of the validation module make no exception for zero
ValidationTuned(c) ==
  LET perJob == c.numbers["validatorsPerJob"]
  IN  /\ perJob # None => /\ Seats(MinValidators(c)) <= perJob
                          /\ perJob <= Seats(MaxValidators(c)) /\ perJob <= 100
      /\ Number(c, "validatorPool", 0) <= 1000
      /\ Number(c, "commitWindow", 3600) # 0 /\ Number(c, "revealWindow", 3600) # 0
      /\ Bounds(MinValidators(c), MaxValidators(c)) /\ MaxValidators(c) <= 100

Tuned(c, m) ==
  CASE m = "validationModule" -> ValidationTuned(c)
    [] m = "jobRegistry" -> c.jobTreasury # c.initial
    [] OTHER -> TRUE

\* StakeManager's treasury must be on its allow list, which no step fills, and
\* setModules wants every configured acknowledging module to answer
SetAccepted(c, m, links) ==
  /\ ~(m = "stakeManager" /\ "treasury" \in links)
  /\ m = "jobRegistry" /\ "stakeManager" \in links => c.ackModulesAnswer

-----------------------------------------------------------------------------
(* migrations/3_deploy_core_v2.js                                          *)

TaxPolicyAddress(c, a) ==
  CASE c.tax = "deploy" -> <<"taxPolicy", a>>
    [] c.tax = "existing" -> <<"taxPolicy", 0>>
    [] OTHER -> None

\* the contracts nothing has to exist before, and those that refer to the rest
Foundations(c, a) ==
  LET d == c.deployer
  IN  << Create("stakeManager", c.initial, <<>>),
         Create("reputationEngine", d, [stakeManager |-> <<"stakeManager", a>>]),
         Create("identityRegistry", d,
                [reputationEngine |-> <<"reputationEngine", a>>, ens |-> c.ens,
                 roots |-> c.roots]),
         Create("validationModule", d, [stakeManager |-> <<"stakeManager", a>>]),
         Create("disputeModule", d, [committee |-> None]),
         Create("certificateNFT", d, <<>>) >>

Dependents(c, a) ==
  LET tax == TaxPolicyAddress(c, a)
  IN  << Create("feePool", c.deployer,
                [stakeManager |-> <<"stakeManager", a>>, taxPolicy |-> tax]),
         Create("jobRegistry", c.initial,
                [validationModule |-> <<"validationModule", a>>,
                 stakeManager |-> <<"stakeManager", a>>,
                 reputationEngine |-> <<"reputationEngine", a>>,
                 disputeModule |-> <<"disputeModule", a>>,
                 certificateNFT |-> <<"certificateNFT", a>>,
                 feePool |-> <<"feePool", a>>, taxPolicy |-> tax]) >>

Creation(c, a) ==
  Foundations(c, a)
    \o When(c.tax = "deploy", << Create("taxPolicy", c.deployer, <<>>) >>)
    \o Dependents(c, a)

RegistryLinks(c, a) ==
  << SetLinks("jobRegistry", c.initial,
              [m \in {"validationModule", "stakeManager", "reputationEngine",
                      "disputeModule", "certificateNFT", "feePool"} |-> <<m, a>>]),
     Tune("jobRegistry", c.initial) >>

\* the governance acknowledges the tax policy for the modules
Acknowledgement(c, a) ==
  LET g == c.initial
      For(m) == Grant("jobRegistry", g, "acknowledged", <<m, a>>)
  IN  << SetLinks("jobRegistry", g, [taxPolicy |-> TaxPolicyAddress(c, a)]),
         Grant("jobRegistry", g, "acknowledger", g),
         For("stakeManager"), For("validationModule"), For("disputeModule"), For("feePool") >>

StakeLinks(c, a) ==
  LET g == c.initial
  IN  << SetLinks("stakeManager", g, [m \in {"jobRegistry", "disputeModule"} |-> <<m, a>>]),
         SetLinks("stakeManager", g, [validationModule |-> <<"validationModule", a>>]),
         SetLinks("stakeManager", g, [feePool |-> <<"feePool", a>>]) >>

RegistryWiring(c, a) ==
  When(c.tax = "deploy",
       << Grant("taxPolicy", c.deployer, "acknowledger", <<"jobRegistry", a>>) >>)
    \o RegistryLinks(c, a)
    \o When(c.tax # "none", Acknowledgement(c, a))
    \o StakeLinks(c, a)
    \o When(c.treasury # None,
            << SetLinks("stakeManager", c.initial, [treasury |-> c.treasury]) >>)

ModuleLinks(c, a) ==
  LET d == c.deployer
      Set(m, getter) == SetLinks(m, d, [x \in {getter} |-> <<x, a>>])
  IN  << Set("validationModule", "jobRegistry"), Set("validationModule", "identityRegistry"),
         Set("validationModule", "reputationEngine"), Tune("validationModule", d),
         Set("disputeModule", "jobRegistry"), Set("disputeModule", "stakeManager"),
         SetLinks("disputeModule", d, [committee |-> None]), Tune("disputeModule", d),
         Set("certificateNFT", "jobRegistry"), Set("certificateNFT", "stakeManager"),
         Set("feePool", "stakeManager"),
         SetLinks("feePool", d, [governance |-> c.initial]) >>

LastLinks(c, a) ==
  LET d == c.deployer
  IN  << Tune("feePool", d),
         SetLinks("jobRegistry", c.initial, [identityRegistry |-> <<"identityRegistry", a>>]),
         Grant("reputationEngine", d, "caller", <<"jobRegistry", a>>),
         Grant("reputationEngine", d, "caller", <<"validationModule", a>>),
         SetLinks("identityRegistry", d, [roots |-> c.roots]) >>

ModuleWiring(c, a) ==
  ModuleLinks(c, a)
    \o When(c.tax # "none",
            << SetLinks("feePool", c.deployer, [taxPolicy |-> TaxPolicyAddress(c, a)]) >>)
    \o LastLinks(c, a)

\* Mutant of DeployPlan: the registry is not made an acknowledger.
DeployPlanUnacknowledged(c, a) ==
  Creation(c, a) \o << WriteAddresses >>
      \o SelectSeq(RegistryWiring(c, a), LAMBDA t : t.to # "taxPolicy") \o ModuleWiring(c, a)

\* the file with the addresses is written before anything is wired
DeployPlan(c, a) ==
  Creation(c, a) \o << WriteAddresses >> \o RegistryWiring(c, a) \o ModuleWiring(c, a)

-----------------------------------------------------------------------------
(* migrations/4_governance_handover.js: the governed contracts and the fee  *)
(* pool's governance are set without a look at what they are already.       *)

GovernableHandover(c) ==
  When(c.initial # c.final, << HandTo("stakeManager", c.initial, c.final),
                               HandTo("jobRegistry", c.initial, c.final) >>)

PoolGovernance(c) == << SetLinks("feePool", c.deployer, [governance |-> c.final]) >>

OwnableHandover(c) ==
  LET names == <<"validationModule", "disputeModule", "certificateNFT", "reputationEngine",
                 "feePool">>
  IN  [i \in DOMAIN names |-> HandOnce(names[i], c.deployer, c.final)]

\* a deployer who is the final governance as well accepts at once
Offer(c, m) ==
  << HandOnce(m, c.deployer, c.final) >> \o When(c.final = c.deployer, << Accept(m, c.final) >>)

TwoStepHandover(c) ==
  Offer(c, "identityRegistry") \o When(c.tax = "deploy", Offer(c, "taxPolicy"))

\* Mutant of HandoverPlan: the two-step contracts are not offered.
HandoverPlanUnoffered(c) ==
  GovernableHandover(c) \o PoolGovernance(c) \o OwnableHandover(c)
\* Mutant of HandoverPlan: the fee pool is given away before its governance is set.
HandoverPlanPoolFirst(c) ==
  GovernableHandover(c) \o OwnableHandover(c) \o PoolGovernance(c) \o TwoStepHandover(c)

HandoverPlan(c) ==
  GovernableHandover(c) \o PoolGovernance(c) \o OwnableHandover(c) \o TwoStepHandover(c)

-----------------------------------------------------------------------------
(* scripts/transfer-ownership.ts, by the account that governs: every listed *)
(* module with an address, and the script insists on the new owner() after  *)
(* each transaction.  Modules no migration creates never have an address,   *)
(* so they are left out; the identity registry is not on the list.          *)

Listed == Created \ {"identityRegistry"}

\* Mutant of HandAndConfirm: the present owner is not looked at.
HandAndConfirmBlind(c, addresses, m) ==
  When(addresses[m] # 0, << HandTo(m, c.final, c.newOwner), Confirm(m, c.newOwner) >>)

HandAndConfirm(c, addresses, m) ==
  When(addresses[m] # 0, << HandOnce(m, c.final, c.newOwner), Confirm(m, c.newOwner) >>)

TransferPlan(c, addresses) ==
  LET Turn(m) == HandAndConfirm(c, addresses, m)
  IN  Turn("stakeManager") \o Turn("jobRegistry") \o Turn("validationModule")
      \o Turn("reputationEngine") \o Turn("disputeModule") \o Turn("certificateNFT")
      \o Turn("taxPolicy") \o Turn("feePool")

-----------------------------------------------------------------------------
(* scripts/verify-wiring.js                                                *)

\* what each module is asked for; a getter has the name of the module expected,
\* "ens" stands for the ENS registry and its wrapper, "roots" for the four roots
CoreChecks ==
  [systemPause |-> {"jobRegistry", "stakeManager", "validationModule", "disputeModule",
                    "platformRegistry", "feePool", "reputationEngine", "arbitratorCommittee"},
   stakeManager |-> {"jobRegistry", "disputeModule", "validationModule", "feePool"},
   jobRegistry |-> {"stakeManager", "validationModule", "reputationEngine", "disputeModule",
                    "certificateNFT", "taxPolicy", "feePool", "identityRegistry"},
   validationModule |-> {"jobRegistry", "stakeManager", "identityRegistry",
                         "reputationEngine"}]

SettlementChecks ==
  [reputationEngine |-> {"stakeManager"},
   disputeModule |-> {"jobRegistry", "stakeManager", "committee"},
   arbitratorCommittee |-> {"jobRegistry", "disputeModule"},
   certificateNFT |-> {"jobRegistry", "stakeManager"},
   taxPolicy |-> {"jobRegistry", "stakeManager", "feePool"},
   feePool |-> {"stakeManager", "jobRegistry", "platformIncentives"}]

PlatformChecks ==
  [platformRegistry |-> {"jobRouter"},
   jobRouter |-> {"jobRegistry", "platformRegistry", "platformIncentives", "feePool"},
   platformIncentives |-> {"stakeManager", "platformRegistry", "jobRouter"},
   identityRegistry |-> {"reputationEngine", "attestationRegistry", "ens", "roots"},
   attestationRegistry |-> {"ens"}]

Checks == Over(CoreChecks, Over(SettlementChecks, PlatformChecks))

\* what a check expects, None when the check is left out
Expected(c, addresses, getter) ==
  CASE getter \in {"ens", "roots"} -> c.expects[getter]
    [] getter \in Created -> IF addresses[getter] = 0 THEN None
                             ELSE <<getter, addresses[getter]>>
    [] OTHER -> None

\* a getter the contract does not have fails its check, as a different value does
LinkFailures(c, addresses, m) ==
  LET link == chain[m][addresses[m]].link
  IN  {g \in Checks[m] :
        /\ Expected(c, addresses, g) # None
        /\ ~(g \in DOMAIN link /\ link[g] = Expected(c, addresses, g))}

\* Mutant of OwnerAllowed: an account without code may own a module.
OwnerAllowedEOA(c, owner) ==
  /\ owner # None
  /\ c.allowed # {} => owner \in c.allowed

OwnerAllowed(c, owner) ==
  /\ owner # None
  /\ c.allowed # {} => owner \in c.allowed
  /\ owner \in c.code

Failures(c, addresses) ==
  {m \in Created :
    /\ addresses[m] # 0
    /\ \/ LinkFailures(c, addresses, m) # {}
       \/ ~OwnerAllowed(c, chain[m][addresses[m]].owner)}

-----------------------------------------------------------------------------
Fresh == [m \in Created |-> [a \in 1..MaxAttempts |-> Absent]]

Init ==
  /\ conf \in Setups
  /\ chain = Fresh
  /\ attempt = 0
  /\ file = 0
  /\ modules = [m \in Created |-> 0]
  /\ stage = 2
  /\ script = "none"
  /\ todo = <<>>
  /\ outcome = [migrate |-> "none", transfer |-> "none"]
  /\ kills = 0

Idle == script = "none"

StartDeploy ==
  /\ attempt < MaxAttempts
  /\ attempt' = attempt + 1
  /\ script' = "deploy"
  /\ todo' = DeployPlan(conf, attempt')
  /\ stage' = 2

\* truffle migrate: on from the last migration that completed
Migrate ==
  /\ Idle
  /\ outcome.migrate # "refused"
  /\ \/ stage = 2 /\ StartDeploy
     \/ /\ stage = 3
        /\ script' = "handover"
        /\ todo' = HandoverPlan(conf)
        /\ UNCHANGED <<attempt, stage>>
  /\ outcome' = [outcome EXCEPT !.migrate = "none"]
  /\ UNCHANGED <<conf, chain, file, modules, kills>>

\* truffle migrate --reset: all over again
MigrateReset ==
  /\ Idle
  /\ outcome.migrate = "refused" /\ stage < 4
  /\ StartDeploy
  /\ outcome' = [outcome EXCEPT !.migrate = "none"]
  /\ UNCHANGED <<conf, chain, file, modules, kills>>

TransferOwnership ==
  /\ Idle
  /\ file # 0
  /\ script' = "transfer"
  /\ todo' = TransferPlan(conf, modules)
  /\ outcome' = [outcome EXCEPT !.transfer = "none"]
  /\ UNCHANGED <<conf, chain, attempt, file, modules, stage, kills>>

-----------------------------------------------------------------------------
Step == Head(todo)

\* the attempt a transaction of the running script goes to
Instance == IF script = "transfer" THEN modules[Step.to] ELSE attempt
Target == chain[Step.to][Instance]

\* a transaction is refused for who sends it, for a value of the configuration,
\* or, when a job registry acknowledges for others, by the tax policy
Permitted ==
  /\ Step.by \in conf.signers
  /\ Step.do # "create" => Step.by = IF Step.do = "accept" THEN Target.pending
                                     ELSE Target.owner
  /\ Step.do = "create" => Constructed(conf, Step.to)
  /\ Step.do = "tune" => Tuned(conf, Step.to)
  /\ Step.do = "set" => SetAccepted(conf, Step.to, DOMAIN Step.arg)
  /\ Step.do = "grant" /\ Step.arg[1] = "acknowledged" =>
       LET policy == Target.link.taxPolicy
       IN  /\ <<"acknowledger", Step.by>> \in Target.grant
           /\ policy[2] # 0
           /\ <<"acknowledger", <<"jobRegistry", attempt>> >>
                \in chain["taxPolicy"][policy[2]].grant

Mined(c) ==
  CASE Step.do = "create" -> [Absent EXCEPT !.owner = Step.by, !.link = Step.arg]
    [] Step.do = "set"    -> [c EXCEPT !.link = Over(Step.arg, @)]
    [] Step.do = "grant"  -> [c EXCEPT !.grant = @ \union {Step.arg}]
    [] Step.do = "tune"   -> c
    [] Step.do = "accept" -> [c EXCEPT !.owner = c.pending, !.pending = None]
    [] OTHER -> IF Step.to \in TwoStep THEN [c EXCEPT !.pending = Step.arg]
                                       ELSE [c EXCEPT !.owner = Step.arg]

\* Mutant of Ended: the rest of the plan is kept.
EndedUnfinished(how) ==
  /\ script' = "none" /\ UNCHANGED todo
  /\ outcome' = [outcome EXCEPT ![IF script = "transfer" THEN "transfer" ELSE "migrate"] = how]

Ended(how) ==
  /\ script' = "none" /\ todo' = <<>>
  /\ outcome' = [outcome EXCEPT ![IF script = "transfer" THEN "transfer" ELSE "migrate"] = how]

\* steps that send nothing
Skips == \/ Step.do = "write"
         \/ Step.do = "handOnce" /\ Target.owner = Step.arg
         \/ Step.do = "accept" /\ Target.owner = Step.by
         \/ Step.do = "confirm" /\ Target.owner = Step.arg

Running == todo # <<>>

Advance ==
  /\ Running /\ Skips
  /\ todo' = Tail(todo)
  /\ file' = IF Step.do = "write" THEN attempt ELSE file
  /\ UNCHANGED <<conf, chain, attempt, modules, stage, script, outcome, kills>>

Send ==
  /\ Running /\ ~Skips /\ Step.do # "confirm"
  /\ IF Permitted
       THEN /\ chain' = [chain EXCEPT ![Step.to][Instance] = Mined(@)]
            /\ todo' = Tail(todo)
            /\ UNCHANGED <<script, outcome>>
       ELSE Ended("refused") /\ UNCHANGED chain
  /\ UNCHANGED <<conf, attempt, file, modules, stage, kills>>

\* owner() is not the new owner after the transaction: the script throws
NotConfirmed ==
  /\ Running /\ ~Skips /\ Step.do = "confirm"
  /\ Ended("unconfirmed")
  /\ UNCHANGED <<conf, chain, attempt, file, modules, stage, kills>>

\* a completed migration is recorded and the next one begins
Complete ==
  /\ ~Idle /\ ~Running
  /\ CASE script = "deploy" ->
            /\ stage' = 3
            /\ script' = "handover"
            /\ todo' = HandoverPlan(conf)
            /\ UNCHANGED outcome
       [] script = "handover" -> stage' = 4 /\ Ended("migrated")
       [] script = "transfer" ->
            /\ UNCHANGED stage
            /\ Ended("transferred")
  /\ UNCHANGED <<conf, chain, attempt, file, modules, kills>>

Kill ==
  /\ ~Idle /\ kills < MaxKills
  /\ kills' = kills + 1
  /\ Ended("none")
  /\ UNCHANGED <<conf, chain, attempt, file, modules, stage>>

\* between two scripts the operator fills in or updates some of the addresses
CopyAddresses ==
  /\ Idle
  /\ file # 0
  /\ \E some \in Copies :
       modules' = [m \in Created |->
         IF m \in some /\ (m = "taxPolicy" => conf.tax = "deploy") THEN file ELSE modules[m]]
  /\ UNCHANGED <<conf, chain, attempt, file, stage, script, todo, outcome, kills>>

\* whoever was offered a contract may take it
AcceptOwnership ==
  /\ \E m \in TwoStep, a \in 1..MaxAttempts :
       /\ chain[m][a].pending # None
       /\ chain' = [chain EXCEPT ![m][a].owner = chain[m][a].pending,
                                 ![m][a].pending = None]
  /\ UNCHANGED <<conf, attempt, file, modules, stage, script, todo, outcome, kills>>

Next ==
  \/ Migrate \/ MigrateReset \/ TransferOwnership \/ CopyAddresses
  \/ Advance \/ Send \/ NotConfirmed \/ Complete \/ Kill \/ AcceptOwnership

Spec == Init /\ [][Next]_vars

\* the operator starts what has not succeeded again, a script that runs goes
\* on, and the accounts that are offered a contract take it
FairSpec ==
  /\ Spec
  /\ WF_vars(Advance \/ Send \/ NotConfirmed \/ Complete)
  /\ SF_vars(Migrate \/ MigrateReset)
  /\ SF_vars(stage = 4 /\ TransferOwnership)
  /\ WF_vars(AcceptOwnership)

-----------------------------------------------------------------------------
Accounts == {conf.deployer, conf.initial, conf.final, conf.newOwner}

TypeOK ==
  /\ conf \in Setups
  /\ attempt \in 0..MaxAttempts /\ file \in 0..attempt
  /\ modules \in [Created -> 0..file]
  /\ stage \in 2..4 /\ kills \in 0..MaxKills
  /\ script \in {"none", "deploy", "handover", "transfer"}
  /\ Idle => todo = <<>>
  /\ script = "handover" => stage = 3
  /\ outcome.migrate \in {"none", "refused", "migrated"}
  /\ outcome.transfer \in {"none", "refused", "unconfirmed", "transferred"}
  /\ \A m \in Created, a \in 1..MaxAttempts :
       LET c == chain[m][a]
       IN  /\ c.owner \in Accounts \union {None}
           /\ c.pending \in Accounts \union {None}
           /\ a > attempt => c = Absent
           /\ m \notin TwoStep => c.pending = None

Core == Created \ {"feePool", "taxPolicy"}

\* what a job needs on its way from creation to settlement
Needs(m) ==
  CASE m = "stakeManager" -> {"jobRegistry", "disputeModule", "validationModule", "feePool"}
    [] m = "jobRegistry" -> Created \ {"jobRegistry", "taxPolicy"}
    [] m = "validationModule" -> {"jobRegistry", "stakeManager", "identityRegistry",
                                  "reputationEngine"}
    [] m \in {"disputeModule", "certificateNFT"} -> {"jobRegistry", "stakeManager"}
    [] m \in {"feePool", "reputationEngine"} -> {"stakeManager"}
    [] m = "identityRegistry" -> {"reputationEngine"}
    [] OTHER -> {}

Wired(a) ==
  /\ \A m \in Created : \A g \in Needs(m) :
       g \in DOMAIN chain[m][a].link /\ chain[m][a].link[g] = <<g, a>>
  /\ \A m \in {"jobRegistry", "validationModule"} :
       <<"caller", <<m, a>> >> \in chain["reputationEngine"][a].grant
  /\ conf.tax = "deploy" =>
       <<"acknowledger", <<"jobRegistry", a>> >> \in chain["taxPolicy"][a].grant

(* A wiring check that passes for the core modules was made against one     *)
(* deployment, finished to its last call: also where the check does not     *)
(* look (the callers of the reputation engine, the fee pool, the tax        *)
(* policy), and however many deployments were killed and however the        *)
(* operator's addresses were copied.  verify-wiring.js:405.                 *)
VerifiedMeansDeployed ==
  ((\A m \in Core : modules[m] # 0) /\ Failures(conf, modules) = {}) =>
    (\A m \in Core : modules[m] = modules["jobRegistry"]) /\ Wired(modules["jobRegistry"])

\* The final governance, or whom it has passed the contract on to, owns every
\* contract but the two-step ones, and those once it has taken them: until then
\* they are the deployer's, on offer to the final governance.
Taken(c) == c.owner \in {conf.final, conf.newOwner}
Offered(c) == c.owner = conf.deployer /\ c.pending = conf.final

HandedOver ==
  stage = 4 =>
    /\ chain["feePool"][attempt].link["governance"] = conf.final
    /\ \A m \in Created \ (IF conf.tax = "deploy" THEN {} ELSE {"taxPolicy"}) :
         LET c == chain[m][attempt]
         IN  Taken(c) \/ (m \in TwoStep /\ Offered(c))

ListedOwned ==
  \A m \in Listed : modules[m] = 0 \/ chain[m][modules[m]].owner = conf.newOwner

(* A script that reports success leaves the owners it reports.  After the   *)
(* last migration the final governance owns every contract, but for the     *)
(* identity registry and the tax policy while it has not taken what it is   *)
(* offered: nothing but its acceptance stands between it and those.  After  *)
(* the transfer the new owner owns every listed module the script has the   *)
(* address of, the two-step tax policy included, though both end on the way *)
(* and are run again.  migrations/4_governance_handover.js:45,              *)
(* scripts/transfer-ownership.ts:61-113.                                    *)
OwnersAsReported ==
  [][/\ HandedOver'
     /\ (outcome.transfer = "none" /\ outcome'.transfer = "transferred") => ListedOwned']_vars

\* The values of the configuration are in bounds, and nothing it names is out
\* of the migrations' reach.
InBounds(c) ==
  LET least == MinValidators(c)
      most == MaxValidators(c)
      perJob == Number(c, "validatorsPerJob", least)
  IN  /\ SlashShares(c) \in {0, 100}
      /\ 3 <= least /\ least <= perJob /\ perJob <= most /\ most <= 100
      /\ Number(c, "validatorPool", 0) <= 1000
      /\ Number(c, "commitWindow", 3600) # 0 /\ Number(c, "revealWindow", 3600) # 0

Deployable ==
  /\ InBounds(conf) /\ conf.ackModulesAnswer
  /\ conf.treasury = None /\ conf.feeTreasury # conf.deployer /\ conf.jobTreasury # conf.initial
  /\ conf.tax # "existing"
  /\ conf.initial \in conf.signers

(* A configuration with its values in bounds (for the validators that takes *)
(* a minimum of its own: the migration's default of 1 is refused), with no  *)
(* treasury or tax policy the contracts turn down and with the governance   *)
(* key at hand is never refused a transaction, except by a handover that    *)
(* was killed before and is resumed: a deployment is not even after kills,  *)
(* and a handover acts on a contract only while the account it uses is in   *)
(* charge of it.  migrations/3_deploy_core_v2.js:128,                       *)
(* migrations/4_governance_handover.js:70.                                  *)
RefusedOnlyForConfig ==
  (Deployable /\ outcome.migrate = "refused") => (stage = 3 /\ kills > 0)

(* However often the migrations of such a configuration are killed, running *)
(* them again, from the beginning when a contract refuses, completes them.  *)
(* migrations/4_governance_handover.js:70.                                  *)
Migrates == Deployable => <>(stage = 4)

(* Running the transfer again after every refusal, with the new owner       *)
(* accepting the tax policy in between, ends with every listed module in    *)
(* the new owner's hands.                                                   *)
Transfers ==
  conf.final \in conf.signers =>
    <>[]((stage = 4 /\ \A m \in Created : modules[m] \in {0, attempt}) => ListedOwned)

(* README.md:239 has wire:verify confirm that the references match the      *)
(* configuration: a completed deployment with all its addresses copied and  *)
(* every contract in allowed hands has no failures.                         *)
CompletedVerifies ==
  (/\ stage = 4
   /\ \A m \in Created : modules[m] = attempt
   /\ \A m \in Created : OwnerAllowed(conf, chain[m][attempt].owner)
   /\ conf.expects.ens \in {None, conf.ens} /\ conf.expects.roots = conf.roots) =>
     Failures(conf, modules) = {}
=============================================================================
