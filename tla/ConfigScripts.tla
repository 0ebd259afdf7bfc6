---------------------------- MODULE ConfigScripts -----------------------------
(***************************************************************************)
(* The owner's configuration scripts at work.  A script reads the          *)
(* contracts, plans once, and then sends its plan one transaction at a     *)
(* time, waiting for each; apply-config runs several scripts in a row.     *)
(* Meanwhile the chain moves on: the stake manager tunes its own minimum,  *)
(* the owner hands contracts to SystemPause, a process is killed with a    *)
(* transaction still in the mempool.  A dry run sends nothing and is left  *)
(* out.                                                                    *)
(***************************************************************************)
EXTENDS ConfigPlans

CONSTANTS
    Setups,     \* records [files, chain]: configuration files, deployed values
    MaxKills,   \* bound on killed processes
    MaxTunes,   \* bound on automatic changes of the minimum stake
    MaxVersion  \* bound on policy versions: no run is started beyond it

VARIABLES
    chain,      \* parameters of the deployed contracts
    files,      \* the configuration file of each script
    script,     \* the script that is running, or "none"
    plan,       \* transactions it has not sent yet
    waiting,    \* has it sent one it waits for?
    mempool,    \* transactions sent and not mined, in nonce order
    queue,      \* scripts apply-config has still to run
    ended,      \* how the last script ended
    refused,    \* the setter that refused the last transaction, or <<>>
    meddled,    \* parameters changed by others than the scripts
    kills, tunes

vars == <<chain, files, script, plan, waiting, mempool, queue, ended, refused, meddled, kills, tunes>>

Modules == <<"jobRegistry", "stakeManager", "feePool", "incentives", "taxPolicy">>
Scripts == ToSet(Modules) \cup {"thermodynamics", "systemPause", "economics"}

\* The numbers of the stake manager are unsigned, and its setters keep the sum of
\* the three percentages and each step of the minimum stake within 100.
Numbers ==
  {K("sm", n) : n \in {"feePct", "burnPct", "validatorRewardPct", "employerSlashPct",
                       "treasurySlashPct", "minStake", "maxStake", "increasePct",
                       "decreasePct", "agiTypes"}}
Deployed(ch) ==
  /\ \A k \in Numbers : ch[k] \in Nat
  /\ SumSM(ch) <= 100
  /\ ch[K("sm", "increasePct")] <= 100 /\ ch[K("sm", "decreasePct")] <= 100

\* Setups deploy every contract, write files for existing scripts only, and give
\* the fee pool's treasury, if they do, as an account or as no address at all.
ASSUME SetupAssumption ==
  /\ MaxKills \in Nat /\ MaxTunes \in Nat
  /\ \A setup \in Setups :
       /\ DOMAIN setup.chain = Keys /\ Deployed(setup.chain)
       /\ DOMAIN setup.files \subseteq Scripts
       /\ "feePool" \in DOMAIN setup.files =>
            Given(setup.files["feePool"], K("fp", "treasury"))
              \in Members \cup {Zero, Signer, Null, Empty, Blank, Junk}

Contracts(s, cfg) ==
  CASE s = "jobRegistry" -> {"jr"}
    [] s = "stakeManager" -> {"sm"}
    [] s = "feePool" -> {"fp"}
    [] s = "incentives" -> {"pi"}
    [] s = "taxPolicy" -> {"tp"}
    [] s = "thermodynamics" -> {"re"} \cup (IF NamesThermostat(cfg) THEN {"th"} ELSE {})
    [] s = "systemPause" -> {"sp"}
    [] s = "economics" -> {"jr", "sm", "fp", "tp"}

\* These scripts compare the receipt's status, a number, with the bigint 1n:
\* the comparison fails for every receipt.
MisreadReceipt == {"jobRegistry", "stakeManager", "feePool"}

Plan(s, ch, cfg, history) ==
  CASE s = "jobRegistry" -> JobRegistryPlan(ch, cfg) \o JobRegistryAcknowledgers(ch, cfg)
    [] s = "stakeManager" -> StakeManagerPlan(ch, cfg)
    [] s = "feePool" ->
         FeePoolAllowlist(ch, cfg) \o FeePoolPlan(ch, cfg) \o FeePoolRewarders(ch, cfg)
    [] s = "incentives" -> PlatformIncentivesPlan(ch, cfg)
    [] s = "taxPolicy" -> TaxPolicyPlan(ch, cfg)
    [] s = "thermodynamics" ->
         RewardEnginePlan(ch, cfg) \o ThermostatSection(ch, cfg)
    [] s = "systemPause" -> SystemPausePlan(ch, cfg)
    [] s = "economics" ->
         EconomicsPaymentPlan(ch, cfg) \o EconomicsLimitsPlan(ch, cfg)
         \o EconomicsStakePlan(ch, cfg) \o EconomicsFeePoolPlan(ch, cfg) \o EconomicsTaxPlan(ch, cfg, history)

\* Reasons to give up before the first transaction.
NotOwner(s, ch, cfg) ==
  s # "economics" /\ \E c \in Contracts(s, cfg) : OwnerOf(ch, c) # Signer
Refuses(s, ch, cfg) ==
  CASE s = "jobRegistry" -> JobRegistryRefuses(ch, cfg)
    [] s = "stakeManager" -> StakeManagerRefuses(ch, cfg)
    [] s = "feePool" -> FeePoolRefuses(ch, cfg)
    [] s = "thermodynamics" -> ThermodynamicsRefuses(ch, cfg)
    [] s = "systemPause" -> SystemPauseRefuses(ch, cfg)
    [] OTHER -> FALSE

Init ==
  \E setup \in Setups :
    /\ chain = setup.chain
    /\ files = setup.files
    /\ script = "none" /\ plan = <<>> /\ waiting = FALSE
    /\ mempool = <<>> /\ queue = <<>>
    /\ ended = "none" /\ refused = <<>>
    /\ meddled = {} /\ kills = 0 /\ tunes = 0
----------------------------------------------------------------------------
Config(s) == Parsed(s, files[s])

Idle == script = "none" /\ queue = <<>> /\ chain[K("tp", "version")] < MaxVersion

\* The end of a script, and of the run of apply-config it was part of.
Fail(how) ==
  /\ script' = "none" /\ plan' = <<>> /\ waiting' = FALSE
  /\ queue' = <<>> /\ ended' = how

\* main: read every parameter, then plan.  The query of past events may fail.
Begin(s, rest) ==
  /\ IF NotOwner(s, chain, Config(s)) \/ Unreadable(s, files[s]) \/ Refuses(s, chain, Config(s))
     THEN Fail("gave up")
     ELSE /\ \E history \in BOOLEAN : plan' = Plan(s, chain, Config(s), history)
          /\ script' = s /\ waiting' = FALSE
          /\ queue' = rest /\ ended' = "none"
  /\ refused' = <<>>
  /\ UNCHANGED <<chain, files, mempool, meddled, kills, tunes>>

Launch(s) ==
  /\ Idle /\ s \in DOMAIN files
  /\ Begin(s, <<>>)

\* apply-config, with --module and --skip narrowing the modules it runs.
ApplyConfig(names) ==
  LET selected == Among(Modules, names) IN
  /\ Idle /\ selected # <<>>
  /\ Begin(Head(selected), Tail(selected))

\* The loop of apply-config moves on unless the exit status is a number other
\* than 0; a script that was killed has no exit status.
NextModule ==
  /\ script = "none" /\ queue # <<>>
  /\ Begin(Head(queue), Tail(queue))

\* executeActions: a transaction that would revert already fails when its gas
\* is estimated.
Send ==
  /\ script # "none" /\ plan # <<>> /\ ~waiting
  /\ IF Accepts(chain, Head(plan))
     THEN /\ mempool' = Append(mempool, Head(plan))
          /\ plan' = Tail(plan) /\ waiting' = TRUE
          /\ UNCHANGED <<script, queue, ended, refused>>
     ELSE /\ refused' = Head(plan).fn
          /\ Fail("refused")
          /\ UNCHANGED mempool
  /\ UNCHANGED <<chain, files, meddled, kills, tunes>>

\* The oldest transaction is mined.  The script waits for the youngest.
Mine ==
  /\ mempool # <<>>
  /\ mempool' = Tail(mempool)
  /\ LET call == Head(mempool)
         ok == Accepts(chain, call)
         heard == waiting /\ Len(mempool) = 1 IN
     /\ chain' = IF ok THEN Effect(chain, call) ELSE chain
     /\ refused' = IF ok THEN refused ELSE call.fn
     /\ CASE heard /\ ~ok -> Fail("refused")
          [] heard /\ ok /\ script \in MisreadReceipt -> Fail("misread")
          [] heard /\ ok /\ script \notin MisreadReceipt ->
               waiting' = FALSE /\ UNCHANGED <<script, plan, queue, ended>>
          [] ~heard -> UNCHANGED <<script, plan, waiting, queue, ended>>
  /\ UNCHANGED <<files, meddled, kills, tunes>>

Finish ==
  /\ script # "none" /\ plan = <<>> /\ ~waiting
  /\ script' = "none" /\ ended' = "ok"
  /\ UNCHANGED <<chain, files, plan, waiting, mempool, queue, refused, meddled, kills, tunes>>

\* Mutant of Kill: what the dead process waited for is kept.
KillWaiting ==
  /\ script # "none" /\ kills < MaxKills
  /\ kills' = kills + 1
  /\ script' = "none" /\ plan' = <<>> /\ ended' = "killed"
  /\ queue' \in {queue, <<>>}
  /\ UNCHANGED <<chain, files, mempool, refused, meddled, tunes, waiting>>

\* A signal ends the script (apply-config runs on) or both processes.
Kill ==
  /\ script # "none" /\ kills < MaxKills
  /\ kills' = kills + 1
  /\ script' = "none" /\ plan' = <<>> /\ waiting' = FALSE /\ ended' = "killed"
  /\ queue' \in {queue, <<>>}
  /\ UNCHANGED <<chain, files, mempool, refused, meddled, tunes>>

Tune ==
  /\ tunes < MaxTunes
  /\ tunes' = tunes + 1
  /\ MaybeAdjustStake(chain, chain')
  /\ meddled' = meddled \cup {K("sm", "minStake")}
  /\ UNCHANGED <<files, script, plan, waiting, mempool, queue, ended, refused, kills>>

\* Ownership of the wired contracts passes to SystemPause.
HandOver ==
  LET roots == {<<"owner", m, i>> : m \in PauseModules, i \in {1, 2}} IN
  /\ \E r \in roots : chain[r] # Pause
  /\ chain' = Over([r \in roots |-> Pause], chain)
  /\ meddled' = meddled \cup roots
  /\ UNCHANGED <<files, script, plan, waiting, mempool, queue, ended, refused, kills, tunes>>

Next ==
  \/ \E s \in DOMAIN files : Launch(s)
  \/ \E names \in SUBSET (DOMAIN files \cap ToSet(Modules)) : ApplyConfig(names)
  \/ NextModule \/ Send \/ Mine \/ Finish
  \/ Kill \/ Tune \/ HandOver

Spec == Init /\ [][Next]_vars

\* A running process goes on, a transaction in the mempool is mined, and the
\* owner runs every script again and again.
Fairness ==
  /\ WF_vars(NextModule) /\ WF_vars(Send) /\ WF_vars(Mine) /\ WF_vars(Finish)
  /\ \A s \in Scripts : SF_vars(s \in DOMAIN files /\ Launch(s))

FairSpec == Spec /\ Fairness
----------------------------------------------------------------------------
\* The parameters a script knows; it ignores what else a file names.
Of(c) == {k \in Keys : k[1] = c}
Recommendable == {K("sm", "minStake"), K("sm", "maxStake")}
Handled(s) ==
  CASE s = "jobRegistry" -> Of("jr") \ {K("jr", "feePool")}
    [] s = "stakeManager" -> Of("sm") \ {K("sm", "agiTypes")}
    [] s = "taxPolicy" -> Of("tp") \ {K("tp", "version")}
    [] s = "economics" ->
         {k \in Of("jr") : k[2] # "acknowledger"} \cup (Of("tp") \ {K("tp", "version")})
         \cup PercentagesSM \cup Recommendable
         \cup {K("sm", n) : n \in {"employerSlashPct", "treasurySlashPct", "treasury", "unbondingPeriod"}}
         \cup {k \in Of("sm") \cup Of("fp") : k[2] = "allow"} \cup {K("fp", "burnPct"), K("fp", "treasury")}
    [] s = "thermodynamics" -> Of("re") \cup Of("th")
    [] OTHER -> UNION {Of(c) : c \in Contracts(s, Config(s))}

\* What a file asks for, key by key: modules left at zero, zero windows and
\* floors, and groups of the thermostat that are not complete ask for nothing.
Ignored(cfg) ==
  {k \in {K("sm", "window"), K("sm", "floor")} \cap DOMAIN cfg : cfg[k] = 0}
  \cup (UNION {g \in {Bounds, IntegralBounds, PID, Weights} : ~(g \subseteq DOMAIN cfg)})
  \cup DOMAIN Recommended(cfg)

Wanted(s) ==
  LET cfg == Config(s)
      plain == Without(cfg, ToSet(StakeModules) \cup FeePoolAddresses \cup {TaxPolicyKey}) IN
  Over(Recommended(cfg),
       [k \in (DOMAIN plain \cap Handled(s)) \ Ignored(cfg) |-> IF cfg[k] = Unset THEN 0 ELSE cfg[k]])

\* Three requests a script may take as granted: a role follows the system's
\* temperature when that was the one asked for at the time of reading, an account
\* counts as blocked when the events of the past cannot be read, and texts are
\* compared without white space.
Granted(s, k) ==
  \/ k \in RoleTemps /\ chain[k] = 0
  \/ s = "economics" /\ k[1] = "tp" /\ k[2] = "acknowledger" /\ ~Config(s)[k]
  \/ s = "taxPolicy" /\ k \in Texts /\ Trim(chain[k]) = Config(s)[k]

\* updateThermodynamics skips what a file says of the thermostat, and reports
\* success, when the file does not give its address.
Skipped(s) ==
  IF s = "thermodynamics" /\ ~NamesThermostat(Config(s)) THEN Of("th") ELSE {}

Reached(s) ==
  \A k \in DOMAIN Wanted(s) \ Skipped(s) : chain[k] = Wanted(s)[k] \/ Granted(s, k)

\* A blank entry says nothing, with these exceptions: white space is 0 per cent, a
\* blank stake of the registry is 0, a blank address is the zero address, an empty
\* string removes an account from a list while white space adds it, a blank text
\* is one, and a role's temperature is removed by null.
SaysNothing(s, k) ==
  LET v == Given(files[s], k) IN
  /\ v \in {Null, Empty, Blank}
  /\ Given(files[s], InTokens(k)) \in {Null, Empty, Blank}
  /\ k \notin Addresses \cup DOMAIN Recommended(Config(s))
  /\ k \in Stakes => s = "economics" \/ k \notin DOMAIN files[s]
  /\ k \in Percents => s = "economics" \/ v # Blank
  /\ k[2] \in ListNames => s # "economics" /\ v = Null
  /\ k \in Texts => v = Null \/ (s = "economics" /\ v = Empty)
  /\ k \in RoleTemps => v # Null

\* The pool's script allows the treasury it is given.
Asked ==
  (UNION {{k \in Entries(files[s]) \cup DOMAIN Recommended(Config(s)) : ~SaysNothing(s, k)} : s \in DOMAIN files})
  \cup {<<"fp", "allow", Config(s)[K("fp", "treasury")]>> :
          s \in {s \in DOMAIN files \cap {"feePool"} : K("fp", "treasury") \in DOMAIN Config(s)}}

\* The parameters a setter moves besides those it is given.  Every new policy
\* version makes all participants acknowledge again: it may only rise with a new
\* text or when the file asks, unless a run was killed while its transaction was
\* pending and the next run sent it once more.
NewVersionDue ==
  \/ \E k \in Texts : chain'[k] # chain[k]
  \/ \E s \in DOMAIN files : K("tp", "bumpVersion") \in DOMAIN Config(s)
  \/ kills > 0
Consequences ==
  {K("th", "systemTemperature")} \cup {r \in Roots : r[1] = "pauser"}
  \cup (IF NewVersionDue THEN {K("tp", "version")} ELSE {})

\* The file gives the minimum or the maximum stake twice, with two values, or a
\* temperature outside the bounds it gives.
Contradicts(cfg) ==
  \/ \E k \in DOMAIN Recommended(cfg) : k \in DOMAIN cfg /\ cfg[k] # Recommended(cfg)[k]
  \/ /\ Bounds \cup {K("th", "systemTemperature")} \subseteq DOMAIN cfg
     /\ cfg[K("th", "systemTemperature")] \notin cfg[K("th", "minTemp")] .. cfg[K("th", "maxTemp")]

\* update-economics sends its recommendation last, with the values read for what
\* the file does not recommend: it undoes a minimum or maximum just set.
Overwritten(s) ==
  IF s = "economics" /\ DOMAIN Recommended(Config(s)) # {}
  THEN Recommendable \ DOMAIN Recommended(Config(s)) ELSE {}

TypeOK ==
  /\ DOMAIN chain = Keys
  /\ DOMAIN files \subseteq Scripts
  /\ script \in DOMAIN files \cup {"none"}
  /\ \A i \in DOMAIN plan : DOMAIN plan[i].set \subseteq Keys
  /\ waiting => script # "none" /\ mempool # <<>>
  /\ ToSet(queue) \subseteq ToSet(Modules)
  /\ ended \in {"none", "ok", "gave up", "refused", "misread", "killed"}
  /\ kills \in 0 .. MaxKills /\ tunes \in 0 .. MaxTunes

\* A script that reports success has brought every parameter its file names to
\* the value the file gives, though it compared, planned and sent them one by
\* one: no call of the plan undoes an earlier one (but one of update-economics) and
\* none is missing (but those of a thermostat whose address the file leaves out).
SuccessMeansReached ==
  [][Finish /\ meddled = {} /\ ~Contradicts(Config(script)) =>
       \A k \in DOMAIN Wanted(script) \ (Overwritten(script) \cup Skipped(script)) :
         chain[k] = Wanted(script)[k] \/ Granted(script, k)]_vars

\* The scripts write only what their files name.  Setters of several values are
\* sent with the values read for the others, so an automatic change between the
\* reading and the transaction is overwritten, and only such a parameter is; no
\* script makes the participants acknowledge the same policy text twice.
UnaskedKept ==
  [][Mine => \A k \in Keys : chain'[k] # chain[k] => k \in Asked \cup meddled \cup Consequences]_vars

\* The limits the scripts leave to the contracts: setters that refuse what the
\* file asks for, whenever they are called.
Unacceptable(cfg) ==
  {k \in {K("re", "kappa"), K("re", "temperature")} \cap DOMAIN cfg : cfg[k] = 0}
  \cup {k \in {K("re", "treasury")} \cap DOMAIN cfg : cfg[k] = Zero}
  \cup {k \in {K("jr", "treasury")} \cap DOMAIN cfg : cfg[k] = Signer}
  \cup {k \in {TaxPolicyKey} \cap DOMAIN cfg : cfg[k] \notin Exempt}
  \cup (IF /\ Bounds \subseteq DOMAIN cfg
            /\ ~(0 < cfg[K("th", "minTemp")] /\ cfg[K("th", "minTemp")] < cfg[K("th", "maxTemp")])
         THEN {K("th", "bounds")} ELSE {})
  \cup (IF /\ IntegralBounds \subseteq DOMAIN cfg
            /\ cfg[K("th", "integralMin")] >= cfg[K("th", "integralMax")]
         THEN {K("th", "integralBounds")} ELSE {})

\* The scripts check all other limits before the first transaction and lower
\* percentages before raising others, so a plan is cut short half way only by
\* the calls whose order they do not mind: the treasury before its entry in the
\* allowlist, the registry's two percentages, the temperature before its bounds, a
\* role's temperature, which is not compared with the bounds.
OrderBlind ==
  PercentagesJR \cup {K("sm", "treasury"), K("th", "systemTemperature")}
  \cup {<<"th", "roleTemp", r>> : r \in Roles}
RefusedOnlyForOrder ==
  (refused # <<>> /\ meddled = {} /\ "economics" \notin DOMAIN files) =>
    refused \in OrderBlind \cup UNION {Unacceptable(Config(s)) : s \in DOMAIN files}

\* The first transaction of a run is always refused: no number of runs gets past
\* it.
Stuck(s) ==
  \/ NotOwner(s, chain, Config(s)) \/ Unreadable(s, files[s]) \/ Refuses(s, chain, Config(s))
  \/ \E history \in BOOLEAN :
       LET p == Plan(s, chain, Config(s), history) IN p # <<>> /\ ~Accepts(chain, Head(p))

\* Whatever is killed, tuned or misread on the way, running a script again and
\* again reaches what its file asks for, unless its first call is refused every
\* time, the file contradicts itself, or it is about a thermostat it does not name.
Converges ==
  <>[](\A s \in DOMAIN files : Contradicts(Config(s)) \/ Reached(s) \/ Stuck(s))

\* A script that has begun sends all it planned unless one of its transactions
\* is refused or it is killed.
StopsOnlyOnFailure ==
  [][script # "none" /\ script' = "none" /\ plan # <<>> => refused' # <<>> \/ kills' > kills]_vars
==============================================================================
