---------------------------- MODULE MCConfigScripts ----------------------------
(***************************************************************************)
(* Deployments and configuration files for TLC: each setup aims at one     *)
(* order, limit or value the scripts have to get right.                    *)
(***************************************************************************)
EXTENDS ConfigScripts

CONSTANTS a1, a2, owner, pause, zero, v2a, v2b, v1, policyA, policyB, null, empty, blank, junk, unset

MCAccounts == <<a1, a2>>
MCVersion2 == {v2a, v2b}
MCExempt == {policyA, policyB}
MCPauseModules == {"sm", "fp"}

AddressKey(k) == k \in Addresses \cup {TaxPolicyKey}

\* A deployment: everything unset, everything owned by the signer.
Fresh ==
  [k \in Keys |->
     CASE k[1] = "owner" -> owner
       [] k[1] = "pauser" -> pause
       [] k[1] = "sp" -> 1
       [] AddressKey(k) -> zero
       [] k[2] \in {"allow", "acknowledger", "rewarder", "settler", "autoStakeTuning"} -> FALSE
       [] k \in Texts -> "old"
       [] OTHER -> 0]

Base ==
  ((<<"sm", "minStake">> :> 10) @@ (<<"sm", "maxStake">> :> 0)
   @@ (<<"sm", "unbondingPeriod">> :> 7) @@ (<<"sm", "agiTypes">> :> 3)
   @@ (<<"sm", "maxAGITypes">> :> 10) @@ (<<"sm", "maxTotalPayoutPct">> :> 100)
   @@ (<<"sm", "increasePct">> :> 5) @@ (<<"sm", "decreasePct">> :> 5)
   @@ (<<"sm", "window">> :> 5) @@ (<<"sm", "floor">> :> 2) @@ (<<"sm", "ceil">> :> 20)
   @@ (<<"re", "kappa">> :> 1) @@ (<<"re", "temperature">> :> 1)
   @@ (<<"re", "share", "agent">> :> 65) @@ (<<"re", "share", "validator">> :> 15)
   @@ (<<"re", "share", "operator">> :> 15) @@ (<<"re", "share", "employer">> :> 5)
   @@ (<<"th", "minTemp">> :> 1) @@ (<<"th", "maxTemp">> :> 10)
   @@ (<<"th", "systemTemperature">> :> 5) @@ (<<"th", "integralMax">> :> 4)
   @@ (<<"jr", "taxPolicy">> :> policyA) @@ (<<"tp", "version">> :> 1)) @@ Fresh

Setup(fs, changes) == [files |-> fs, chain |-> changes @@ Base]

Parts == {0, 40, 100}
Triples == {t \in Parts \X Parts \X Parts : t[1] + t[2] + t[3] <= 100}
SMPct(t) ==
  (<<"sm", "feePct">> :> t[1]) @@ (<<"sm", "burnPct">> :> t[2]) @@ (<<"sm", "validatorRewardPct">> :> t[3])
JRPct(t) == (<<"jr", "feePct">> :> t[1]) @@ (<<"jr", "validatorRewardPct">> :> t[2])

\* Changes of the stake manager's three percentages and of the registry's two.
Percentages ==
  {Setup("stakeManager" :> SMPct(t), SMPct(u)) : t \in Triples, u \in {<<40, 40, 0>>, <<0, 100, 0>>, <<40, 0, 60>>}}
  \cup {Setup("jobRegistry" :> JRPct(t), JRPct(u)) : t, u \in {<<0, 60>>, <<60, 30>>, <<100, 0>>}}

\* Treasury and allowlist in one file, with and without an entry on chain.
Treasuries ==
  {Setup(s :> ((<<c, "treasury">> :> a1) @@ (<<c, "allow", a1>> :> TRUE)),
         <<c, "allow", a1>> :> allowed)
     : <<s, c>> \in {<<"stakeManager", "sm">>, <<"feePool", "fp">>, <<"economics", "sm">>},
       allowed \in BOOLEAN}
  \cup {Setup("feePool" :> (<<"fp", "treasury">> :> x), <<>>) : x \in {a1, null, owner}}
  \cup {Setup("feePool" :> ((<<"fp", "treasury">> :> a1) @@ (<<"fp", "allow", a1>> :> FALSE)), <<>>)}

\* Minimum, maximum and recommendation, tuned by the contract meanwhile.
Limits ==
  {Setup("stakeManager" :> f, (<<"sm", "autoStakeTuning">> :> TRUE))
     : f \in {<<"sm", "recMax">> :> 15,
              (<<"sm", "minStake">> :> 12) @@ (<<"sm", "maxStake">> :> 30),
              (<<"sm", "recMin">> :> 8) @@ (<<"sm", "minStake">> :> 12),
              (<<"sm", "recMin">> :> 8) @@ (<<"sm", "recMax">> :> 15) @@ (<<"sm", "maxStake">> :> 15),
              (<<"sm", "recMin">> :> 40) @@ (<<"sm", "recMax">> :> 15),
              (<<"sm", "window">> :> 0) @@ (<<"sm", "floor">> :> 3) @@ (<<"sm", "threshold">> :> 2)}}

Temperatures ==
  {Setup("thermodynamics" :> (f @@ (<<"th", "address">> :> a1)), <<>>)
     : f \in {(<<"th", "systemTemperature">> :> 20) @@ (<<"th", "minTemp">> :> 15) @@ (<<"th", "maxTemp">> :> 30),
              (<<"th", "minTemp">> :> 7) @@ (<<"th", "maxTemp">> :> 9) @@ (<<"th", "roleTemp", "agent">> :> 8),
              (<<"th", "roleTemp", "agent">> :> unset) @@ (<<"th", "kp">> :> 3),
              (<<"th", "roleTemp", "agent">> :> null) @@ (<<"re", "maxProofs">> :> 3),
              (<<"th", "systemTemperature">> :> 5) @@ (<<"th", "minTemp">> :> 7) @@ (<<"th", "maxTemp">> :> 9),
              (<<"re", "maxProofs">> :> 3) @@ (<<"re", "kappa">> :> 0),
              (<<"re", "maxProofs">> :> 3) @@ (<<"re", "treasury">> :> empty),
              (<<"th", "minTemp">> :> 9) @@ (<<"th", "maxTemp">> :> 7),
              (<<"th", "roleTemp", "agent">> :> 20) @@ (<<"th", "kp">> :> 3),
              (<<"re", "share", "agent">> :> 60) @@ (<<"re", "share", "employer">> :> 10),
              (<<"re", "share", "agent">> :> 60)}}

\* The thermostat is named by its own entry, by the reward engine's, or not at all.
Thermostats ==
  {Setup("thermodynamics" :>
           (f @@ (<<"th", "systemTemperature">> :> x) @@ (<<"re", "maxProofs">> :> 3)), <<>>)
     : f \in {<<"th", "address">> :> zero, <<"re", "thermostat">> :> a1,
              (<<"th", "address">> :> empty) @@ (<<"re", "thermostat">> :> a1),
              (<<"th", "address">> :> a1) @@ (<<"re", "thermostat">> :> zero)},
       x \in {7, junk}}

Taxes ==
  {Setup(s :> f, <<>>)
     : s \in {"taxPolicy", "economics"},
       f \in {(<<"tp", "policyURI">> :> "new") @@ (<<"tp", "acknowledgement">> :> "old"),
              (<<"tp", "acknowledger", a1>> :> TRUE) @@ (<<"tp", "acknowledger", a2>> :> FALSE)}}
  \cup {Setup("taxPolicy" :> ((<<"tp", "acknowledgement">> :> "new") @@ (<<"tp", "bumpVersion">> :> b)), <<>>)
          : b \in {TRUE, FALSE, null}}
  \cup {Setup(s :> ((<<"tp", "policyURI">> :> x) @@ (<<"tp", "acknowledgement">> :> "old")), <<"tp", "policyURI">> :> y)
          : s \in {"taxPolicy", "economics"}, x \in {null, empty, blank}, y \in {"old", blank}}
  \cup {Setup("economics" :> ((<<"tp", "acknowledger", a1>> :> x) @@ (<<"tp", "acknowledger", a2>> :> TRUE)),
               <<"tp", "acknowledger", a1>> :> TRUE) : x \in {null, FALSE}}

Wirings ==
  {Setup("systemPause" :> ((<<"sp", "sm">> :> 2) @@ (<<"sp", "fp">> :> 1) @@ (<<"sp", "refresh">> :> r)),
         (<<"pauser", "fp", 1>> :> p)) : r \in {"force", "skip", "issues"}, p \in {pause, owner}}

\* Several modules in one run of apply-config.
Orchestrated ==
  {Setup(("jobRegistry" :> ((<<"jr", "jobStake">> :> 4) @@ (<<"jr", "taxPolicy">> :> x)))
         @@ ("incentives" :> (<<"pi", "stakeManager">> :> v2a))
         @@ ("taxPolicy" :> (<<"tp", "policyURI">> :> "new")), <<>>) : x \in {policyB, null, empty, blank, junk}}

\* One file that names most parameters.
Wide ==
  {Setup("stakeManager" :> ((<<"sm", "pauser">> :> a1) @@ (<<"sm", "jobRegistry">> :> v2a)
         @@ (<<"sm", "feePool">> :> zero) @@ (<<"sm", "employerSlashPct">> :> 40)
         @@ (<<"sm", "treasurySlashPct">> :> 60) @@ (<<"sm", "unbondingPeriod">> :> 9)
         @@ (<<"sm", "maxAGITypes">> :> 12)), <<>>),
   Setup("stakeManager" :> (<<"sm", "maxTotalPayoutPct">> :> blank), <<>>),
   Setup("economics" :> ((<<"jr", "feePct">> :> 5) @@ (<<"jr", "jobStake">> :> 3)
         @@ (<<"sm", "minStake">> :> 12) @@ (<<"fp", "burnPct">> :> 2)), <<>>)}

\* Blank and malformed entries, amounts in tokens beside amounts in base units.
Blanks ==
  {Setup("stakeManager" :> ((<<"sm", "feePct">> :> x) @@ (<<"sm", "unbondingPeriod">> :> x)
                            @@ (<<"sm", "minStake">> :> x) @@ (<<"sm", "minStake", "tokens">> :> 2)),
         <<"sm", "feePct">> :> 40) : x \in {null, empty, blank, junk}}
  \cup {Setup("jobRegistry" :> ((<<"jr", "jobStake">> :> x) @@ (<<"jr", "acknowledger", a1>> :> y)),
               (<<"jr", "jobStake">> :> 4) @@ (<<"jr", "acknowledger", a1>> :> TRUE))
          : x \in {null, empty, 6}, y \in {null, empty, junk}}
  \cup {Setup("jobRegistry" :> (<<"jr", "jobStake", "tokens">> :> x), <<"jr", "jobStake">> :> 4)
          : x \in {blank, 2}}
  \cup {Setup("economics" :> ((<<"jr", "feePct">> :> x) @@ (<<"jr", "maxJobDuration">> :> y)),
               <<"jr", "feePct">> :> 40) : x \in {empty, blank, 30}, y \in {null, blank, 9}}

\* Files whose own entries get in each other's way.
Undone ==
  {Setup("economics" :> ((<<"sm", "minStake">> :> 12) @@ (<<"sm", "recMax">> :> 15)), <<>>),
   Setup("economics" :> ((<<"sm", "minStake">> :> 12) @@ (<<"sm", "recMin">> :> 8)), <<>>)}
Followed ==
  {Setup("thermodynamics" :> ((<<"th", "systemTemperature">> :> 7) @@ (<<"th", "roleTemp", "agent">> :> 5)
                              @@ (<<"th", "address">> :> a1)), <<>>)}

MCSetups == Undone \cup Followed \cup Blanks \cup Percentages \cup Treasuries \cup Limits \cup Temperatures \cup Thermostats \cup Taxes \cup Wirings
            \cup Orchestrated \cup Wide
==============================================================================
