------------------------- MODULE MCValidationModule -------------------------
(* Constant values for model-checking ValidationModule. *)
EXTENDS ValidationModule

CONSTANTS v1, v2, c1, c2, registry

MCTwoPool == {<<v1, v2>>}
MCPools == {<<v1, v2>>, <<v1>>}
MCStakes == [v \in Validators |-> IF v = v1 THEN 10 ELSE 20]

MCParam(perJob, required) ==
  [ perJob |-> perJob, min |-> 1, max |-> 2, limit |-> 2, commitWindow |-> 1,
    revealWindow |-> 1, threshold |-> 50, required |-> required ]
MCFixed == {MCParam(2, 1)}
MCChanging == {MCParam(2, 2), MCParam(1, 0)}
=============================================================================
