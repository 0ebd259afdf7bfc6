---------------------------- MODULE MCAgentFleet -----------------------------
(***************************************************************************)
(* A fleet for TLC: one agent employed, one niche spelt in two ways.       *)
(***************************************************************************)
EXTENDS AgentFleet

MCLabels == <<"text", "code", "Code">>
MCNorm == [l \in {"text", "code", "Code"} |-> IF l = "Code" THEN "code" ELSE l]
MCEmployed == [l \in {"text", "code", "Code"} |-> IF l = "text" THEN {1} ELSE {}]
MCKinds ==
  {[agent |-> 1, label |-> "code", ok |-> TRUE, reward |-> 1, measured |-> TRUE],
   [agent |-> 1, label |-> "Code", ok |-> TRUE, reward |-> 1, measured |-> TRUE],
   [agent |-> 1, label |-> "code", ok |-> FALSE, reward |-> 0, measured |-> FALSE]}
MCTests ==
  {[minSamples |-> 1, window |-> 2, minRate |-> 50, minReward |-> 0, labels |-> LabelSet],
   [minSamples |-> 0, window |-> 1, minRate |-> 0, minReward |-> 1, labels |-> LabelSet]}
==============================================================================
