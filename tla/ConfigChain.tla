----------------------------- MODULE ConfigChain ------------------------------
(***************************************************************************)
(* The parameters of the deployed contracts that the governance scripts    *)
(* read and write, and the setters that guard them.                        *)
(*                                                                         *)
(* A parameter is a key <<contract, name>>, or <<contract, list, member>>  *)
(* for an entry of a mapping; the state of the contracts is a function     *)
(* from keys to values.  Contracts: jr JobRegistry, sm StakeManager,       *)
(* fp FeePool, pi PlatformIncentives, tp TaxPolicy, re RewardEngineMB,     *)
(* th Thermostat, sp SystemPause.  A transaction is a record: the setter   *)
(* it calls and the values it writes.                                      *)
(***************************************************************************)
EXTENDS Integers, Sequences

CONSTANTS
    Accounts,       \* addresses in allowlists, in the order scripts sort them
    Signer,         \* the account the scripts sign with
    Pause,          \* the address of SystemPause
    Zero,           \* the zero address
    Version2,       \* addresses of contracts whose version() is 2
    Exempt,         \* tax policies whose isTaxExempt() is true
    PauseModules    \* the contracts SystemPause wires

Roles == {"agent", "validator", "operator", "employer"}
Members == {Accounts[i] : i \in DOMAIN Accounts}

Scalars ==
  [jr |-> {"feePct", "validatorRewardPct", "treasury", "jobStake", "minAgentStake",
           "maxJobReward", "maxJobDuration", "maxActiveJobs", "expirationGrace",
           "feePool", "taxPolicy"},
   sm |-> {"minStake", "maxStake", "feePct", "burnPct", "validatorRewardPct",
           "employerSlashPct", "treasurySlashPct", "treasury", "unbondingPeriod",
           "autoStakeTuning", "feePool", "jobRegistry", "disputeModule",
           "validationModule", "pauser", "thermostat", "hamiltonianFeed",
           "maxAGITypes", "agiTypes", "maxTotalPayoutPct", "threshold", "increasePct",
           "decreasePct", "window", "floor", "ceil", "tempThreshold", "hamThreshold",
           "disputeWeight", "tempWeight", "hamWeight"},
   fp |-> {"stakeManager", "rewardRole", "burnPct", "treasury", "governance", "pauser",
           "taxPolicy"},
   pi |-> {"stakeManager", "platformRegistry", "jobRouter"},
   tp |-> {"policyURI", "acknowledgement", "version"},
   re |-> {"kappa", "maxProofs", "treasury", "thermostat", "temperature"},
   th |-> {"systemTemperature", "minTemp", "maxTemp", "integralMin", "integralMax",
           "kp", "ki", "kd", "wEmission", "wBacklog", "wSla"},
   sp |-> PauseModules]

ASSUME ChainAssumption ==
  /\ Accounts \in Seq(Members)
  /\ PauseModules \subseteq DOMAIN Scalars

Lists ==
  {<<"jr", "acknowledger", a>> : a \in Members} \cup
  {<<"tp", "acknowledger", a>> : a \in Members} \cup
  {<<c, "allow", a>> : c \in {"sm", "fp"}, a \in Members} \cup
  {<<"fp", "rewarder", a>> : a \in Members} \cup
  {<<"re", "settler", a>> : a \in Members} \cup
  {<<"re", x, r>> : x \in {"share", "mu", "baseline"}, r \in Roles} \cup
  {<<"th", "roleTemp", r>> : r \in Roles}

\* owner and pauser of the two deployed instances of each contract
Roots == {<<x, c, i>> : x \in {"owner", "pauser"}, c \in DOMAIN Scalars, i \in {1, 2}}

Keys == (UNION {{<<c, n>> : n \in Scalars[c]} : c \in DOMAIN Scalars}) \cup Lists \cup Roots

\* f, and g where f is not defined; the function from k alone to v.
Over(f, g) ==
  [k \in DOMAIN f \cup DOMAIN g |-> IF k \in DOMAIN f THEN f[k] ELSE g[k]]
Only(k, v) == [x \in {k} |-> v]

OwnerOf(ch, c) == ch[<<"owner", c, 1>>]

PercentagesJR == {<<"jr", "feePct">>, <<"jr", "validatorRewardPct">>}
PercentagesSM == {<<"sm", "feePct">>, <<"sm", "burnPct">>, <<"sm", "validatorRewardPct">>}
Shares == {<<"re", "share", r>> : r \in Roles}

SumSM(ch) == ch[<<"sm", "feePct">>] + ch[<<"sm", "burnPct">>] + ch[<<"sm", "validatorRewardPct">>]
SumJR(ch) == ch[<<"jr", "feePct">>] + ch[<<"jr", "validatorRewardPct">>]
SumShares(ch) == ch[<<"re", "share", "agent">>] + ch[<<"re", "share", "validator">>]
                 + ch[<<"re", "share", "operator">>] + ch[<<"re", "share", "employer">>]
SumSlash(ch) == ch[<<"sm", "employerSlashPct">>] + ch[<<"sm", "treasurySlashPct">>]

ModuleSetters ==
  {<<"jr", "feePool">>, <<"sm", "jobRegistry">>, <<"sm", "disputeModule">>,
   <<"sm", "validationModule">>, <<"sm", "feePool">>, <<"fp", "stakeManager">>}
----------------------------------------------------------------------------
\* Does the setter accept the values?  `after` is the state it would leave.
AcceptsJR(ch, fn, after) ==
  /\ fn \in PercentagesJR => SumJR(after) <= 100
  /\ fn = <<"jr", "treasury">> => after[fn] # Signer
  /\ fn = <<"jr", "taxPolicy">> => after[fn] \in Exempt

AcceptsSM(ch, fn, after) ==
  /\ fn \in PercentagesSM => SumSM(after) <= 100
  /\ fn = <<"sm", "slashing">> => SumSlash(after) <= 100
  /\ fn \in {<<"sm", "minStake">>, <<"sm", "unbondingPeriod">>} => after[fn] > 0
  /\ fn = <<"sm", "recommendations">> =>
       /\ after[<<"sm", "minStake">>] > 0
       /\ \/ after[<<"sm", "maxStake">>] = 0
          \/ after[<<"sm", "maxStake">>] >= after[<<"sm", "minStake">>]
  /\ fn = <<"sm", "autoStake">> =>
       after[<<"sm", "increasePct">>] <= 100 /\ after[<<"sm", "decreasePct">>] <= 100
  /\ fn = <<"sm", "maxAGITypes">> => after[fn] \in ch[<<"sm", "agiTypes">>] .. 50
  /\ fn = <<"sm", "maxTotalPayoutPct">> => after[fn] \in 100 .. 200

\* StakeManager and FeePool share the rule for their treasury.
AcceptsTreasury(ch, fn, after) ==
  fn \in {<<"sm", "treasury">>, <<"fp", "treasury">>} =>
    /\ after[fn] # OwnerOf(ch, fn[1])
    /\ after[fn] # Zero => ch[<<fn[1], "allow", after[fn]>>]

AcceptsFP(ch, fn, after) ==
  /\ fn = <<"fp", "burnPct">> => after[fn] <= 100
  /\ fn = <<"fp", "governance">> => after[fn] # Zero
  /\ fn = <<"fp", "taxPolicy">> => after[fn] \in Exempt

AcceptsRE(ch, fn, after) ==
  /\ fn \in {<<"re", "kappa">>, <<"re", "temperature">>} => after[fn] > 0
  /\ fn = <<"re", "treasury">> => after[fn] # Zero
  /\ fn = <<"re", "shares">> => SumShares(after) = 100

AcceptsTH(ch, fn, after) ==
  LET min == after[<<"th", "minTemp">>]
      max == after[<<"th", "maxTemp">>] IN
  /\ fn = <<"th", "systemTemperature">> => after[fn] > 0 /\ after[fn] \in min .. max
  /\ fn = <<"th", "bounds">> => min > 0 /\ max > min
  /\ fn = <<"th", "integralBounds">> =>
       after[<<"th", "integralMax">>] > after[<<"th", "integralMin">>]
  /\ \A r \in Roles : fn = <<"th", "roleTemp", r>> =>
       after[fn] > 0 /\ after[fn] \in min .. max

\* SystemPause only takes modules it owns already.
AcceptsSP(ch, fn, after) ==
  fn = <<"sp", "modules">> =>
    \A m \in PauseModules : ch[<<"owner", m, after[<<"sp", m>>]>>] = Pause

Accepts(ch, call) ==
  LET fn == call.fn
      after == Over(call.set, ch) IN
  /\ OwnerOf(ch, fn[1]) = Signer
  /\ fn \in ModuleSetters => after[fn] \in Version2
  /\ AcceptsJR(ch, fn, after)
  /\ AcceptsSM(ch, fn, after)
  /\ AcceptsTreasury(ch, fn, after)
  /\ AcceptsFP(ch, fn, after)
  /\ AcceptsRE(ch, fn, after)
  /\ AcceptsTH(ch, fn, after)
  /\ AcceptsSP(ch, fn, after)
----------------------------------------------------------------------------
Clamp(x, min, max) == IF x < min THEN min ELSE IF x > max THEN max ELSE x

\* A zero observation window or floor keeps the one that is set.
ConfigureAutoStake(ch, set) ==
  LET Zeroed == {k \in DOMAIN set \cap {<<"sm", "window">>, <<"sm", "floor">>} : set[k] = 0} IN
  Over([k \in DOMAIN set \ Zeroed |-> set[k]], ch)

\* New bounds pull the system temperature inside them.
SetTemperatureBounds(ch, set) ==
  LET t == <<"th", "systemTemperature">> IN
  Over(Only(t, Clamp(ch[t], set[<<"th", "minTemp">>], set[<<"th", "maxTemp">>])), Over(set, ch))

\* Every change of the policy's text is a new version, which every participant
\* has to acknowledge again.
SetPolicy(ch, set) ==
  LET v == <<"tp", "version">> IN Over(Only(v, ch[v] + 1), Over(set, ch))

\* SystemPause makes itself the pauser of every module it wires.
SetPauseModules(ch, set) ==
  Over([k \in {<<"pauser", m, set[<<"sp", m>>]>> : m \in PauseModules} |-> Pause], Over(set, ch))

Effect(ch, call) ==
  CASE call.fn = <<"sm", "autoStake">> -> ConfigureAutoStake(ch, call.set)
    [] call.fn = <<"th", "bounds">> -> SetTemperatureBounds(ch, call.set)
    [] call.fn = <<"tp", "policy">> -> SetPolicy(ch, call.set)
    [] call.fn = <<"sp", "modules">> -> SetPauseModules(ch, call.set)
    [] OTHER -> Over(call.set, ch)
----------------------------------------------------------------------------
\* Disputes and the passing of time move the minimum stake, by a percentage of
\* it and at least one on the way up, between its floor and its ceiling.
Raised(ch) ==
  LET min == ch[<<"sm", "minStake">>]
      inc == (min * ch[<<"sm", "increasePct">>]) \div 100
      up == min + (IF inc = 0 THEN 1 ELSE inc)
      ceil == ch[<<"sm", "ceil">>] IN
  IF ceil # 0 /\ up > ceil THEN ceil ELSE up

Lowered(ch) ==
  LET min == ch[<<"sm", "minStake">>]
      down == min - (min * ch[<<"sm", "decreasePct">>]) \div 100
      floor == ch[<<"sm", "floor">>] IN
  IF min <= floor THEN min ELSE IF down < floor THEN floor ELSE down

MaybeAdjustStake(ch, next) ==
  /\ ch[<<"sm", "autoStakeTuning">>]
  /\ \E min \in {Raised(ch), Lowered(ch)} :
       next = Over(Only(<<"sm", "minStake">>, min), ch)
==============================================================================
