--------------------------- MODULE MCStakeManager ---------------------------
(* Constant values for model-checking StakeManager. *)
EXTENDS StakeManager

CONSTANTS a1, a2, j1

MCAccounts == {a1, a2}
MCJobs == {j1}
MCFeeBurn == {<<0, 0>>, <<25, 25>>}
MCNoFeeBurn == {<<0, 0>>}
Symmetry == Permutations({a1, a2})
=============================================================================
