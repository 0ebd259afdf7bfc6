------------------------- MODULE MCValidatorClients -------------------------
(* Constant values for model-checking ValidatorClients. *)
EXTENDS ValidatorClients

CONSTANTS w1, w2, b1, zero, none

MCTools ==
  [w \in Wallets |-> IF w = w1 THEN {"script", "example"} ELSE {"script", "runtime", "quickstart"}]
=============================================================================
