---------------------------- MODULE MCJobRegistry ----------------------------
(* Constant values for model-checking JobRegistry. *)
EXTENDS JobRegistry

CONSTANTS e1, g1, g2, v1, v2, none

MCFunds == [u \in Accounts |-> IF u \in Employers THEN 7 ELSE IF u \in Agents THEN 2 ELSE 0]
MCTwoFunds == [u \in Accounts |-> IF u \in Employers THEN 10 ELSE IF u \in Agents THEN 2 ELSE 0]
MCNoBonus == [u \in Accounts |-> 100]
MCAgentBonus == [u \in Accounts |-> IF u \in Agents THEN 150 ELSE 100]
MCPcts == {<<25, 25>>, <<0, 50>>}
MCOnePct == {<<25, 25>>}
=============================================================================
