----------------------------- MODULE ConfigParse ------------------------------
(***************************************************************************)
(* How the scripts read the values of a configuration file.  A raw value   *)
(* is a JSON null, an empty string, white space, a word that is no number, *)
(* a boolean, an integer, an address or a text.  A parser returns the      *)
(* parameter's value, Skip (the file says nothing) or Throw (the script    *)
(* gives up).                                                              *)
(***************************************************************************)
EXTENDS ConfigChain, SequencesExt

CONSTANTS
    Null, Empty, Blank, Junk,   \* null, "", white space, a word
    Unset,                      \* the word "unset" of a role's temperature
    Skip, Throw,
    Limit                       \* bound on the integers a file may hold

\* Nothing a file says that is no value is a number or a boolean.
Words == <<Null, Empty, Blank, Junk, Unset, Skip, Throw>>
ASSUME WordsAssumption ==
  /\ Limit \in Nat
  /\ \A i \in DOMAIN Words : Words[i] \notin Int /\ Words[i] \notin BOOLEAN
  /\ \A i, j \in DOMAIN Words : Words[i] = Words[j] => i = j

Integer == (-Limit) .. Limit
Natural == 0 .. Limit

K(c, n) == <<c, n>>

\* updateStakeManager, updateJobRegistry: durations and counts
ParseInteger(v) ==
  CASE v \in {Null, Empty, Blank} -> Skip [] v \in Natural -> v [] OTHER -> Throw

ParseSignedInteger(v) ==
  CASE v \in {Null, Empty, Blank} -> Skip [] v \in Integer -> v [] OTHER -> Throw

\* Number() on its own: anything blank is 0.
ParseNumber(v) ==
  CASE v \in {Null, Empty, Blank} -> 0 [] v \in Integer -> v [] OTHER -> Throw

\* Number("  ") is 0, and only the empty string is caught before.
ParsePercentage(v) ==
  CASE v \in {Null, Empty} -> Skip [] v = Blank -> 0 [] v \in 0 .. 100 -> v [] OTHER -> Throw

ParseBoolean(v) ==
  CASE v \in {Null, Empty, Blank} -> Skip [] v \in BOOLEAN -> v [] OTHER -> Throw

\* An amount may be given in base units or in whole tokens (in which an amount
\* counts ten units here); a blank amount in base units hides the one in tokens.
ParseTokenValue(base, tokens) ==
  IF base = Null
  THEN CASE tokens \in {Null, Empty, Blank} -> Skip
         [] tokens \in Natural -> 10 * tokens
         [] OTHER -> Throw
  ELSE ParseInteger(base)

\* A stake of the registry that is in the file is a BigInt() before anyone looks
\* for blanks: a blank is 0 and null throws.
NormalisedStake(v) ==
  CASE v \in {Empty, Blank} -> 0 [] v \in Natural -> v [] OTHER -> Throw

ParseRewardRole(v) ==
  CASE v \in {Null, Empty, Blank} -> Skip [] v \in 0 .. 2 -> v [] OTHER -> Throw

\* updateThermodynamics: white space is not an integer.
ParseBigInt(v) ==
  CASE v \in {Null, Empty} -> Skip [] v \in Integer -> v [] OTHER -> Throw
ParseUnsigned(v) == IF ParseBigInt(v) \in -Limit .. -1 THEN Throw ELSE ParseBigInt(v)
ParseRoleShare(v) ==
  CASE v \in {Null, Empty, Blank} -> Skip [] v \in 0 .. 100 -> v [] OTHER -> Throw

\* null asks to remove a role's temperature as well.
ParseRoleTemperature(v) == IF v \in {Null, Unset} THEN Unset ELSE ParseBigInt(v)

\* updateTaxPolicy trims the texts; there is nothing to trim of a null.
Trim(v) == IF v = Blank THEN Empty ELSE v
ParseText(v) == IF v = Null THEN Throw ELSE Trim(v)

\* Boolean(v): any word is TRUE, "false" as well.
Truthy(v) == v = TRUE \/ ~(v = FALSE \/ v \in {Null, Empty} \/ v = 0)
ParseFlag(v) == IF Truthy(v) THEN TRUE ELSE Skip

\* updateSystemPause: which deployed instance of a module it is to wire.
ParseInstance(v) ==
  CASE v \in {Null, Empty, Blank} -> Skip [] v \in {1, 2} -> v [] OTHER -> Throw

\* update-economics
EconomicsPercent(v) ==
  CASE v \in {Null, Empty, Blank} -> Skip [] v \in 0 .. 100 -> v [] OTHER -> Throw
EconomicsInteger(v) ==
  CASE v = Null -> Skip [] v \in Natural -> v [] OTHER -> Throw
EconomicsAddress(v) ==
  CASE v \in {Null, Empty} -> Skip [] v \in {Blank, Junk} -> Throw [] OTHER -> v

\* White space is a text, and an entry of a list without a value blocks.
EconomicsText(v) == IF v \in {Null, Empty} THEN Skip ELSE v
EconomicsMembership(v) == Truthy(v)

\* scripts/config/index.js: a blank address stands for the zero address ...
EnsureAddress(v) ==
  CASE v \in {Null, Empty, Blank} -> Zero [] v = Junk -> Throw [] OTHER -> v

\* ... but the registry's tax policy must not be written out as zero.
EnsureTaxPolicy(v) ==
  CASE v \in {Null, Empty} -> Zero [] v \in {Blank, Junk, Zero} -> Throw [] OTHER -> v

Membership(v) == IF v = Null THEN Skip ELSE Truthy(v)
----------------------------------------------------------------------------
Percents ==
  PercentagesJR \cup PercentagesSM \cup {K("fp", "burnPct")}
  \cup {K("sm", n) : n \in {"employerSlashPct", "treasurySlashPct", "increasePct", "decreasePct"}}
Amounts ==
  {K("sm", n) : n \in {"minStake", "maxStake", "recMin", "recMax", "floor", "ceil"}}
  \cup {K("jr", "maxJobReward")}
Stakes == {K("jr", "jobStake"), K("jr", "minAgentStake")}
Signed == {K("sm", "tempThreshold"), K("sm", "hamThreshold")}
Unsigned == {K("re", "kappa"), K("re", "maxProofs"), K("re", "temperature")}
Addresses ==
  {K("jr", "treasury"), K("jr", "feePool"), K("re", "treasury"), K("re", "thermostat"),
   K("th", "address")}
  \cup {K("sm", n) : n \in {"treasury", "pauser", "jobRegistry", "disputeModule",
                           "validationModule", "thermostat", "hamiltonianFeed", "feePool"}}
  \cup {K("fp", n) : n \in {"stakeManager", "treasury", "governance", "pauser", "taxPolicy"}}
  \cup {K("pi", n) : n \in {"stakeManager", "platformRegistry", "jobRouter"}}
TaxPolicyKey == K("jr", "taxPolicy")
Caps == {K("sm", "maxAGITypes"), K("sm", "maxTotalPayoutPct")}
ListNames == {"allow", "acknowledger", "rewarder", "settler"}
Texts == {K("tp", "policyURI"), K("tp", "acknowledgement")}
PauseKeys == {<<"sp", m>> : m \in PauseModules}
RoleTemps == {<<"th", "roleTemp", r>> : r \in Roles}
BigInts ==
  {K("th", n) : n \in Scalars.th} \cup {<<"re", x, r>> : x \in {"mu", "baseline"}, r \in Roles}

Given(raw, k) == IF k \in DOMAIN raw THEN raw[k] ELSE Null
InTokens(k) == <<k[1], k[2], "tokens">>

\* What a module's own script reads under key k.
ReadOwn(raw, k) ==
  LET v == Given(raw, k) IN
  CASE k \in Percents -> ParsePercentage(v)
    [] k \in Amounts -> ParseTokenValue(v, Given(raw, InTokens(k)))
    [] k \in Stakes -> IF k \in DOMAIN raw THEN NormalisedStake(v)
                       ELSE ParseTokenValue(Null, Given(raw, InTokens(k)))
    [] k \in Caps -> ParseNumber(v)
    [] k \in Signed -> ParseSignedInteger(v)
    [] k \in Unsigned -> ParseUnsigned(v)
    [] k \in Shares -> ParseRoleShare(v)
    [] k \in Addresses -> EnsureAddress(v)
    [] k = TaxPolicyKey -> EnsureTaxPolicy(v)
    [] k = K("sm", "autoStakeTuning") -> ParseBoolean(v)
    [] k = K("fp", "rewardRole") -> ParseRewardRole(v)
    [] k[2] \in ListNames -> Membership(v)
    [] k \in RoleTemps -> ParseRoleTemperature(v)
    [] k \in BigInts -> ParseBigInt(v)
    [] k \in Texts -> ParseText(v)
    [] k = K("tp", "bumpVersion") -> ParseFlag(v)
    [] k \in PauseKeys -> ParseInstance(v)
    [] k = K("sp", "refresh") -> v
    [] OTHER -> ParseInteger(v)

\* What update-economics reads; its amounts are always in tokens.
ReadEconomics(raw, k) ==
  LET v == Given(raw, k) IN
  CASE k \in Percents -> EconomicsPercent(v)
    [] k \in Amounts \cup Stakes -> ParseTokenValue(Null, v)
    [] k \in Addresses \cup {TaxPolicyKey} -> EconomicsAddress(v)
    [] k \in Texts -> EconomicsText(v)
    [] k[2] \in ListNames -> EconomicsMembership(v)
    [] OTHER -> EconomicsInteger(v)

Entries(raw) == {IF Len(k) = 3 /\ k[3] = "tokens" THEN <<k[1], k[2]>> ELSE k : k \in DOMAIN raw}

\* The thermostat a file is about: its own entry or, without one, what the reward
\* engine is to use.
NamesThermostat(file) ==
  LET own == K("th", "address") IN
  EnsureAddress(Given(file, IF own \in DOMAIN file THEN own ELSE K("re", "thermostat"))) # Zero

\* Without a thermostat nobody looks at its parameters.
Unseen(s, raw) ==
  IF s = "thermodynamics" /\ ~NamesThermostat(raw)
  THEN {k \in Entries(raw) : k[1] = "th" /\ k # K("th", "address")} ELSE {}

Read(s, raw, k) == IF s = "economics" THEN ReadEconomics(raw, k) ELSE ReadOwn(raw, k)
Unreadable(s, raw) == \E k \in Entries(raw) \ Unseen(s, raw) : Read(s, raw, k) = Throw
Parsed(s, raw) ==
  [k \in {k \in Entries(raw) : Read(s, raw, k) \notin {Skip, Throw}} |-> Read(s, raw, k)]
==============================================================================
