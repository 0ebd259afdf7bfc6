----------------------------- MODULE ConfigPlans ------------------------------
(***************************************************************************)
(* What each governance script plans: it compares its configuration file   *)
(* with the contracts and lists the transactions that would remove the     *)
(* differences.  A configuration is a function from the keys the file      *)
(* mentions to the values it asks for.                                     *)
(***************************************************************************)
EXTENDS ConfigParse

\* The transaction that gives key k the value the file asks for, if it differs.
Differs(ch, cfg, k) == k \in DOMAIN cfg /\ cfg[k] # ch[k]
Call(fn, set) == <<[fn |-> fn, set |-> set]>>
One(ch, cfg, k) == IF Differs(ch, cfg, k) THEN Call(k, Only(k, cfg[k])) ELSE <<>>
Each(ch, cfg, ks) == FlattenSeq([i \in DOMAIN ks |-> One(ch, cfg, ks[i])])

\* The entries of a list that are in S.
Among(list, S) ==
  FlattenSeq([i \in DOMAIN list |-> IF list[i] \in S THEN <<list[i]>> ELSE <<>>])

\* Of a setter that writes several parameters at once, those the file leaves
\* out are written back as they were read.
Target(ch, cfg, k) == IF k \in DOMAIN cfg THEN cfg[k] ELSE ch[k]
Together(ch, cfg, fn, ks) ==
  IF \E k \in ks : Differs(ch, cfg, k)
  THEN Call(fn, [k \in ks |-> Target(ch, cfg, k)]) ELSE <<>>

\* The thermostat's groups are left alone unless the file gives all of them.
AllOrNone(ch, cfg, fn, ks) ==
  IF ks \subseteq DOMAIN cfg THEN Together(ch, cfg, fn, ks) ELSE <<>>

Named(c, ns) == [i \in DOMAIN ns |-> <<c, ns[i]>>]
PerAccount(c, list) == [i \in DOMAIN Accounts |-> <<c, list, Accounts[i]>>]
RoleOrder == <<"agent", "validator", "operator", "employer">>
PerRole(c, list) == [i \in DOMAIN RoleOrder |-> <<c, list, RoleOrder[i]>>]

\* The file without the keys in ks whose value is the zero address: a module
\* left at 0x0 is not to be changed.
Without(cfg, ks) ==
  [k \in {k \in DOMAIN cfg : k \in ks => cfg[k] # Zero} |-> cfg[k]]
----------------------------------------------------------------------------
(* scripts/updateJobRegistry.ts *)

JobRegistryRefuses(ch, cfg) ==
  /\ DOMAIN cfg \cap PercentagesJR # {}
  /\ Target(ch, cfg, K("jr", "feePct")) + Target(ch, cfg, K("jr", "validatorRewardPct")) > 100

JobRegistryPlan(ch, raw) ==
  LET cfg == Without(raw, {K("jr", "taxPolicy")}) IN
  Each(ch, cfg, Named("jr", <<"jobStake", "minAgentStake", "maxJobReward", "maxJobDuration",
                              "maxActiveJobs", "expirationGrace", "feePct",
                              "validatorRewardPct", "treasury", "taxPolicy">>))

JobRegistryAcknowledgers(ch, cfg) == Each(ch, cfg, PerAccount("jr", "acknowledger"))
----------------------------------------------------------------------------
(* scripts/updateStakeManager.ts *)

StakeModules == Named("sm", <<"jobRegistry", "disputeModule", "validationModule", "feePool">>)

\* Treasury first, then the allowlist it is checked against.
StakeTreasuryPlan(ch, cfg) ==
  Each(ch, cfg, <<K("sm", "treasury")>> \o PerAccount("sm", "allow"))

StakeFeedsPlan(ch, cfg) ==
  Each(ch, cfg, Named("sm", <<"pauser", "thermostat", "hamiltonianFeed">>))

StakeModulesPlan(ch, cfg) == Each(ch, Without(cfg, ToSet(StakeModules)), StakeModules)

\* stakeRecommendations and the two single settings write the same parameters.
Recommended(cfg) ==
  [k \in {k \in {K("sm", "minStake"), K("sm", "maxStake")} :
            (IF k[2] = "minStake" THEN K("sm", "recMin") ELSE K("sm", "recMax")) \in DOMAIN cfg} |->
     IF k[2] = "minStake" THEN cfg[K("sm", "recMin")] ELSE cfg[K("sm", "recMax")]]

Recommend(ch, cfg) ==
  Together(ch, Recommended(cfg), K("sm", "recommendations"), {K("sm", "minStake"), K("sm", "maxStake")})

StakeLimitsPlan(ch, cfg) ==
  LET rec == Recommend(ch, cfg) IN
  rec \o (IF rec # <<>> /\ K("sm", "recMin") \in DOMAIN cfg THEN <<>>
          ELSE One(ch, cfg, K("sm", "minStake")))
      \o One(ch, cfg, K("sm", "maxStake"))

\* Mutant of StakePercentPlan: the changes go out in the order of the file.
StakePercentUnsorted(ch, cfg) ==
  Each(ch, cfg, Named("sm", <<"feePct", "burnPct", "validatorRewardPct">>))

\* Percentages that fall go before those that rise, so that no intermediate sum
\* exceeds 100: a stable sort, rank by rank.
Delta(ch, call) == call.set[call.fn] - ch[call.fn]
StakePercentPlan(ch, cfg) ==
  LET calls == Each(ch, cfg, Named("sm", <<"feePct", "burnPct", "validatorRewardPct">>))
      Rank(c) == Cardinality({d \in ToSet(calls) : Delta(ch, d) < Delta(ch, c)}) IN
  FlattenSeq([r \in DOMAIN calls |-> Among(calls, {c \in ToSet(calls) : Rank(c) + 1 = r})])

StakeSlashPlan(ch, cfg) ==
  Together(ch, cfg, K("sm", "slashing"), {K("sm", "employerSlashPct"), K("sm", "treasurySlashPct")})

AutoStake == {K("sm", n) : n \in {"threshold", "increasePct", "decreasePct", "window", "floor",
                                  "ceil", "tempThreshold", "hamThreshold", "disputeWeight",
                                  "tempWeight", "hamWeight"}}
\* Mutant of StakeAutoPlan: the group of the automatic stake is forgotten.
StakeAutoWithoutGroup(ch, cfg) ==
  Each(ch, cfg, Named("sm", <<"unbondingPeriod", "autoStakeTuning">>))

StakeAutoPlan(ch, cfg) ==
  Each(ch, cfg, Named("sm", <<"unbondingPeriod", "autoStakeTuning">>))
  \o Together(ch, cfg, K("sm", "autoStake"), AutoStake)

StakeCapsPlan(ch, cfg) == Each(ch, cfg, Named("sm", <<"maxAGITypes", "maxTotalPayoutPct">>))

StakeManagerPlan(ch, cfg) ==
  StakeTreasuryPlan(ch, cfg) \o StakeFeedsPlan(ch, cfg) \o StakeModulesPlan(ch, cfg)
  \o StakeLimitsPlan(ch, cfg) \o StakePercentPlan(ch, cfg) \o StakeSlashPlan(ch, cfg)
  \o StakeAutoPlan(ch, cfg) \o StakeCapsPlan(ch, cfg)

\* What makes the script give up before it sends anything.
StakeManagerRefuses(ch, cfg) ==
  LET T(n) == Target(ch, cfg, K("sm", n))
      RecMin == Target(ch, Recommended(cfg), K("sm", "minStake"))
      RecMax == Target(ch, Recommended(cfg), K("sm", "maxStake")) IN
  \/ Differs(ch, cfg, K("sm", "treasury")) /\ cfg[K("sm", "treasury")] = OwnerOf(ch, "sm")
  \/ \E k \in ToSet(StakeModules) \cap DOMAIN cfg : cfg[k] \notin Version2 \cup {Zero}
  \/ DOMAIN Recommended(cfg) # {} /\ (RecMin <= 0 \/ (RecMax # 0 /\ RecMax < RecMin))
  \/ \E c \in ToSet(StakeLimitsPlan(ch, cfg)) : c.fn = K("sm", "minStake") /\ c.set[c.fn] <= 0
  \/ Differs(ch, cfg, K("sm", "maxStake")) /\ T("maxStake") # 0
       /\ T("maxStake") < ch[K("sm", "minStake")]
  \/ T("feePct") + T("burnPct") + T("validatorRewardPct") > 100
  \/ DOMAIN cfg \cap {K("sm", "employerSlashPct"), K("sm", "treasurySlashPct")} # {}
       /\ T("employerSlashPct") + T("treasurySlashPct") > 100
  \/ Differs(ch, cfg, K("sm", "unbondingPeriod")) /\ T("unbondingPeriod") <= 0
  \/ K("sm", "maxAGITypes") \in DOMAIN cfg
       /\ T("maxAGITypes") \notin {n \in 1 .. 50 : n >= ch[K("sm", "agiTypes")]}
  \/ K("sm", "maxTotalPayoutPct") \in DOMAIN cfg /\ T("maxTotalPayoutPct") \notin 100 .. 200
----------------------------------------------------------------------------
(* scripts/updateFeePool.ts *)

FeePoolAddresses == {K("fp", n) : n \in {"stakeManager", "governance", "taxPolicy"}}

FeePoolRefuses(ch, cfg) ==
  LET t == K("fp", "treasury")
      Names(k) == k \in DOMAIN cfg /\ cfg[k] \notin {Zero, ch[k]} IN
  \/ t \in DOMAIN cfg /\ cfg[t] = OwnerOf(ch, "fp")
  \/ t \in DOMAIN cfg /\ cfg[t] # Zero /\ <<"fp", "allow", cfg[t]>> \in DOMAIN cfg
       /\ ~cfg[<<"fp", "allow", cfg[t]>>]
  \/ Names(K("fp", "stakeManager")) /\ cfg[K("fp", "stakeManager")] \notin Version2
  \/ Names(K("fp", "taxPolicy")) /\ cfg[K("fp", "taxPolicy")] \notin Exempt

\* The entries of the file, and one more if the treasury it names is not allowed.
FeePoolAllowlist(ch, cfg) ==
  LET t == K("fp", "treasury")
      a == IF t \in DOMAIN cfg THEN <<"fp", "allow", cfg[t]>> ELSE t
      asked == Each(ch, cfg, PerAccount("fp", "allow")) IN
  IF t \in DOMAIN cfg /\ cfg[t] # Zero /\ a \notin DOMAIN cfg
  THEN asked \o One(ch, Only(a, TRUE), a) ELSE asked

FeePoolPlan(ch, cfg) ==
  Each(ch, Without(cfg, FeePoolAddresses),
       Named("fp", <<"stakeManager", "rewardRole", "burnPct", "treasury", "governance", "pauser",
                     "taxPolicy">>))

FeePoolRewarders(ch, cfg) == Each(ch, cfg, PerAccount("fp", "rewarder"))
----------------------------------------------------------------------------
(* scripts/updatePlatformIncentives.ts *)

PlatformIncentivesPlan(ch, cfg) ==
  Together(ch, cfg, K("pi", "modules"),
           {K("pi", n) : n \in {"stakeManager", "platformRegistry", "jobRouter"}})
----------------------------------------------------------------------------
(* scripts/updateTaxPolicy.ts *)

\* Mutant of TaxPolicyPlan: the texts are sent whether they changed or not.
TaxPolicyPlanAlways(ch, cfg) ==
  Call(K("tp", "policy"), [k \in Texts \cap DOMAIN cfg |-> cfg[k]])

\* Only the texts that changed are sent; acknowledgers cannot be read back and
\* are sent every time (runs with --skip-acknowledgers are left out).
TaxPolicyPlan(ch, cfg) ==
  LET news == {k \in Texts \cap DOMAIN cfg : cfg[k] # Trim(ch[k])}
      acks == Among(PerAccount("tp", "acknowledger"), DOMAIN cfg) IN
  (IF news = {} THEN <<>> ELSE Call(K("tp", "policy"), [k \in news |-> cfg[k]]))
  \o [i \in DOMAIN acks |-> [fn |-> acks[i], set |-> Only(acks[i], cfg[acks[i]])]]
  \o (IF K("tp", "bumpVersion") \in DOMAIN cfg THEN Call(K("tp", "policy"), <<>>) ELSE <<>>)
----------------------------------------------------------------------------
(* scripts/updateThermodynamics.ts *)

ThermodynamicsRefuses(ch, cfg) ==
  /\ \E k \in Shares : Differs(ch, cfg, k)
  /\ SumShares(Over(Restrict(cfg, DOMAIN cfg \cap Shares), ch)) # 100

RewardScalarsPlan(ch, cfg) ==
  Each(ch, cfg, Named("re", <<"kappa", "maxProofs", "treasury", "thermostat", "temperature">>))

\* Mutant of RewardSharesPlan: shares are sent only when the file gives all four.
RewardSharesAllFour(ch, cfg) == AllOrNone(ch, cfg, K("re", "shares"), Shares)

RewardSharesPlan(ch, cfg) == Together(ch, cfg, K("re", "shares"), Shares)

RewardEnginePlan(ch, cfg) ==
  RewardScalarsPlan(ch, cfg)
  \o Each(ch, cfg, PerAccount("re", "settler"))
  \o RewardSharesPlan(ch, cfg)
  \o Each(ch, cfg, PerRole("re", "mu") \o PerRole("re", "baseline"))

\* The system temperature goes out before the bounds it must lie in.
Bounds == {K("th", "minTemp"), K("th", "maxTemp")}
IntegralBounds == {K("th", "integralMin"), K("th", "integralMax")}
PID == {K("th", "kp"), K("th", "ki"), K("th", "kd")}
Weights == {K("th", "wEmission"), K("th", "wBacklog"), K("th", "wSla")}

ThermostatPlan(ch, cfg) ==
  One(ch, cfg, K("th", "systemTemperature"))
  \o AllOrNone(ch, cfg, K("th", "bounds"), Bounds)
  \o AllOrNone(ch, cfg, K("th", "integralBounds"), IntegralBounds)
  \o AllOrNone(ch, cfg, K("th", "pid"), PID)
  \o AllOrNone(ch, cfg, K("th", "weights"), Weights)

\* A role without a temperature of its own (0 on chain) is compared by the
\* system's; `unset` is sent every time.
RoleTemperaturePlan(ch, cfg) ==
  LET asked == Among(PerRole("th", "roleTemp"), DOMAIN cfg)
      Now(k) == IF ch[k] = 0 THEN ch[K("th", "systemTemperature")] ELSE ch[k] IN
  FlattenSeq([i \in DOMAIN asked |->
    LET k == asked[i] IN
    IF cfg[k] = Unset THEN Call(<<"th", "unset", k[3]>>, Only(k, 0))
    ELSE IF cfg[k] # Now(k) THEN Call(k, Only(k, cfg[k])) ELSE <<>>])
\* A file that names no thermostat has this whole section left out.
ThermostatSection(ch, cfg) ==
  IF NamesThermostat(cfg) THEN ThermostatPlan(ch, cfg) \o RoleTemperaturePlan(ch, cfg) ELSE <<>>
----------------------------------------------------------------------------
(* scripts/updateSystemPause.ts *)

NotOwnedByPause(ch, cfg) ==
  {m \in PauseModules : ch[<<"owner", m, cfg[K("sp", m)]>>] # Pause}

SystemPauseRefuses(ch, cfg) == ~(PauseKeys \subseteq DOMAIN cfg) \/ NotOwnedByPause(ch, cfg) # {}

SystemPausePlan(ch, cfg) ==
  LET refresh == IF K("sp", "refresh") \in DOMAIN cfg THEN cfg[K("sp", "refresh")] ELSE "issues"
      stray == \E m \in PauseModules : ch[<<"pauser", m, cfg[K("sp", m)]>>] # Pause IN
  IF \/ \E k \in PauseKeys : Differs(ch, cfg, k)
     \/ refresh = "force"
     \/ refresh = "issues" /\ stray
  THEN Call(K("sp", "modules"), [k \in PauseKeys |-> cfg[k]]) ELSE <<>>
----------------------------------------------------------------------------
(* scripts/governance/update-economics.ts: one file, four contracts *)

EconomicsPaymentPlan(ch, cfg) ==
  Each(ch, cfg, Named("jr", <<"feePct", "validatorRewardPct", "treasury">>))

EconomicsLimitsPlan(ch, cfg) ==
  Each(ch, cfg, Named("jr", <<"jobStake", "minAgentStake", "maxJobReward", "maxJobDuration",
                              "maxActiveJobs", "expirationGrace", "feePool", "taxPolicy">>))

EconomicsSlashPlan(ch, cfg) == One(ch, cfg, K("sm", "minStake")) \o StakeSlashPlan(ch, cfg)

EconomicsTreasuryPlan(ch, cfg) == StakeTreasuryPlan(ch, cfg)

EconomicsPercentPlan(ch, cfg) ==
  Each(ch, cfg, Named("sm", <<"feePct", "burnPct", "validatorRewardPct", "unbondingPeriod",
                              "maxStake">>))

EconomicsStakePlan(ch, cfg) ==
  EconomicsSlashPlan(ch, cfg) \o EconomicsTreasuryPlan(ch, cfg)
  \o EconomicsPercentPlan(ch, cfg) \o Recommend(ch, cfg)

EconomicsFeePoolPlan(ch, cfg) ==
  Each(ch, cfg, Named("fp", <<"burnPct", "treasury">>) \o PerAccount("fp", "allow"))

\* The acknowledgers are read from the event history; without it (`history`
\* FALSE) every one counts as blocked.
EconomicsTaxPlan(ch, cfg, history) ==
  LET seen == IF history THEN ch
              ELSE Over([k \in {<<"tp", "acknowledger", a>> : a \in Members} |-> FALSE], ch)
      news == {k \in Texts : Differs(ch, cfg, k)} IN
  (IF news = {} THEN <<>>
   ELSE Call(K("tp", "policy"), [k \in Texts \cap DOMAIN cfg |-> cfg[k]]))
  \o Each(seen, cfg, PerAccount("tp", "acknowledger"))
==============================================================================
