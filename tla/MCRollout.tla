------------------------------ MODULE MCRollout ------------------------------
(* The configurations of Rollout: who deploys, who governs first and last,  *)
(* which keys the deployment holds, and what would stop it.                 *)
EXTENDS Rollout

CONSTANTS deployer, governor, safe, multisig, vault, registry, root, otherRoot

Mainnet ==
  [employerSlashPct |-> 50, treasurySlashPct |-> 50, minValidators |-> 3, maxValidators |-> 5,
   validatorsPerJob |-> 3, validatorPool |-> 0, commitWindow |-> 3600, revealWindow |-> 3600]

\* deployment-config/mainnet.json: the deployer governs, then a multisig
Default ==
  [deployer |-> deployer, initial |-> deployer, final |-> deployer, newOwner |-> multisig,
   signers |-> {deployer}, code |-> {safe, multisig}, allowed |-> {multisig},
   tax |-> "deploy", treasury |-> None, feeTreasury |-> None, jobTreasury |-> None,
   ackModulesAnswer |-> TRUE, numbers |-> Mainnet, ens |-> registry, roots |-> root,
   expects |-> [ens |-> registry, roots |-> root]]

\* left out where the migration has a default that the contracts accept
Governed == [Default EXCEPT !.initial = governor, !.final = safe, !.newOwner = safe,
                            !.signers = {deployer, governor}, !.allowed = {safe},
                            !.feeTreasury = vault, !.numbers.treasurySlashPct = None,
                            !.numbers.maxValidators = None, !.numbers.validatorsPerJob = None]

Delegated == [Default EXCEPT !.final = governor, !.signers = {deployer, governor},
                             !.tax = "none", !.allowed = {}, !.expects.ens = None,
                             !.jobTreasury = vault, !.numbers.employerSlashPct = 0,
                             !.numbers.treasurySlashPct = 0, !.numbers.commitWindow = None]

\* one value each that a contract turns down, at its creation or by a setter
OutOfBounds ==
  {[Governed EXCEPT !.numbers[n] = v] : <<n, v>> \in
     {<<"minValidators", None>>, <<"minValidators", 0>>, <<"maxValidators", 2>>,
      <<"maxValidators", 101>>, <<"validatorsPerJob", 2>>, <<"validatorsPerJob", 4>>,
      <<"treasurySlashPct", 40>>, <<"revealWindow", 0>>, <<"validatorPool", 1001>>}}
  \cup {[Governed EXCEPT !.ackModulesAnswer = FALSE],
        [Governed EXCEPT !.feeTreasury = deployer], [Governed EXCEPT !.jobTreasury = governor],
        [Governed EXCEPT !.treasury = governor]}

MCSetups == OutOfBounds \cup
            {Default, Governed, Delegated,
             [Governed EXCEPT !.tax = "existing", !.roots = otherRoot],
             [Governed EXCEPT !.treasury = vault],
             [Governed EXCEPT !.signers = {deployer}]}

MCCopies == {Core, {"feePool", "taxPolicy"}, {"jobRegistry", "identityRegistry"}}
=============================================================================
