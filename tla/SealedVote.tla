----------------------------- MODULE SealedVote -----------------------------
(***************************************************************************)
(* What the ValidationModule promises about the judgement of a job, with   *)
(* no clock, stakes, entropy or penalties: a committee is seated, its      *)
(* members cast sealed ballots, none of them any more once the sealing is  *)
(* over, only sealed ballots are opened and only after that, and a job is  *)
(* judged once, favourably only when somebody's opened ballot approves.    *)
(***************************************************************************)
EXTENDS Naturals

CONSTANTS
  Jobs,      \* job identifiers
  Voters     \* accounts that may sit on a committee

VARIABLES
  phase,     \* Idle, Sealing or Opening
  committee, \* who may vote
  ballots,   \* what they sealed
  opened,    \* whose ballots are open
  judgement  \* of the job

sealedVars == <<phase, committee, ballots, opened, judgement>>

Votes == {"approve", "reject"}
NoBallots == [v \in Voters |-> "none"]

Begin ==
  /\ phase = [j \in Jobs |-> "Idle"]
  /\ committee = [j \in Jobs |-> {}]
  /\ ballots = [j \in Jobs |-> NoBallots]
  /\ opened = [j \in Jobs |-> {}]
  /\ judgement = [j \in Jobs |-> "none"]

Seat(j, members) ==
  /\ phase[j] = "Idle"
  /\ members # {}
  /\ phase' = [phase EXCEPT ![j] = "Sealing"]
  /\ committee' = [committee EXCEPT ![j] = members]
  /\ UNCHANGED <<ballots, opened, judgement>>

Cast(j, v, vote) ==
  /\ phase[j] = "Sealing"
  /\ v \in committee[j]
  /\ ballots[j][v] = "none"
  /\ ballots' = [ballots EXCEPT ![j][v] = vote]
  /\ UNCHANGED <<phase, committee, opened, judgement>>

\* Time ends the sealing of several jobs at once.
Close(closing) ==
  /\ \A j \in closing : phase[j] = "Sealing"
  /\ phase' = [j \in Jobs |-> IF j \in closing THEN "Opening" ELSE phase[j]]
  /\ UNCHANGED <<committee, ballots, opened, judgement>>

Open(j, v) ==
  /\ phase[j] = "Opening"
  /\ v \in committee[j] \ opened[j]
  /\ ballots[j][v] # "none"
  /\ opened' = [opened EXCEPT ![j] = @ \cup {v}]
  /\ UNCHANGED <<phase, committee, ballots, judgement>>

Dissolve(j) ==
  /\ phase' = [phase EXCEPT ![j] = "Idle"]
  /\ committee' = [committee EXCEPT ![j] = {}]
  /\ ballots' = [ballots EXCEPT ![j] = NoBallots]
  /\ opened' = [opened EXCEPT ![j] = {}]

\* Never while ballots are still being sealed.
Judge(j, ok) ==
  /\ phase[j] # "Sealing"
  /\ judgement[j] = "none"
  /\ ok => \E v \in opened[j] : ballots[j][v] = "approve"
  /\ judgement' = [judgement EXCEPT ![j] = IF ok THEN "approved" ELSE "rejected"]
  /\ Dissolve(j)

\* The owner gives the round up: the job stays without judgement.
Abandon(j) == Dissolve(j) /\ UNCHANGED judgement

Move ==
  \/ \E j \in Jobs :
       \/ \E members \in SUBSET Voters : Seat(j, members)
       \/ \E v \in Voters, vote \in Votes : Cast(j, v, vote)
       \/ \E v \in Voters : Open(j, v)
       \/ \E ok \in BOOLEAN : Judge(j, ok)
       \/ Abandon(j)
  \/ \E closing \in SUBSET Jobs : Close(closing)

Vote == Begin /\ [][Move]_sealedVars
=============================================================================
