---------------------------- MODULE JobLifecycle ----------------------------
(***************************************************************************)
(* What the JobRegistry promises about a job, with no StakeManager,        *)
(* validators, taxes, fees or blacklists: the phases it may go through,    *)
(* who works on it, what verdict it carries, and that the tokens put aside *)
(* when it is posted stay untouched until the one step that ends it.       *)
(***************************************************************************)
EXTENDS Naturals

CONSTANTS
  Jobs,     \* job identifiers
  Workers,  \* accounts that may be assigned
  Nobody    \* no worker

VARIABLES
  phase,    \* State of the job
  worker,   \* who is working on it now
  verdict,  \* success flag
  held      \* tokens in escrow

lifecycleVars == <<phase, worker, verdict, held>>

Start ==
  /\ phase = [j \in Jobs |-> "None"]
  /\ worker = [j \in Jobs |-> Nobody]
  /\ verdict = [j \in Jobs |-> FALSE]
  /\ held = [j \in Jobs |-> 0]

Move(j, from, to) == phase[j] = from /\ phase' = [phase EXCEPT ![j] = to]

\* Nothing but the phase changes.
Advance(j, from, to) == Move(j, from, to) /\ UNCHANGED <<worker, verdict, held>>

Rate(j, ok) == verdict' = [verdict EXCEPT ![j] = ok]

\* The job ends: the worker is free and the escrow empty.
End(j) ==
  /\ worker' = [worker EXCEPT ![j] = Nobody]
  /\ held' = [held EXCEPT ![j] = 0]

Post(j) ==
  /\ Move(j, "None", "Created")
  /\ held'[j] \in Nat
  /\ held' = [held EXCEPT ![j] = held'[j]]
  /\ UNCHANGED <<worker, verdict>>

Assign(j, w) ==
  /\ Move(j, "Created", "Applied")
  /\ worker' = [worker EXCEPT ![j] = w]
  /\ UNCHANGED <<verdict, held>>

Deliver(j) == Advance(j, "Applied", "Submitted")

\* The verdict of validation; only a failure opens the job for a dispute.
Judge(j, ok) ==
  /\ Move(j, "Submitted", "Completed") \/ (~ok /\ Move(j, "Submitted", "Disputed"))
  /\ Rate(j, ok)
  /\ UNCHANGED <<worker, held>>

Contest(j) == Advance(j, "Completed", "Disputed")

Rule(j, ok) ==
  /\ Move(j, "Disputed", "Completed")
  /\ Rate(j, ok)
  /\ UNCHANGED <<worker, held>>

Settle(j) == Move(j, "Completed", "Finalized") /\ End(j) /\ UNCHANGED verdict

Expire(j) == Move(j, "Applied", "Finalized") /\ End(j) /\ Rate(j, FALSE)

Cancel(j) == Move(j, "Created", "Cancelled") /\ End(j) /\ UNCHANGED verdict

Step(j) ==
  \/ Post(j)
  \/ \E w \in Workers : Assign(j, w)
  \/ Deliver(j)
  \/ \E ok \in BOOLEAN : Judge(j, ok) \/ Rule(j, ok)
  \/ Contest(j)
  \/ Settle(j)
  \/ Expire(j)
  \/ Cancel(j)

Lives == Start /\ [][\E j \in Jobs : Step(j)]_lifecycleVars
=============================================================================
