------------------------- MODULE JobRegistryProofs -------------------------
(***************************************************************************)
(* Theorems about JobRegistry for any accounts, jobs, amounts, percentages *)
(* and clock bound.  A transaction of the registry concerns one job: the   *)
(* invariant is a condition on every job by itself (JobOK) and two counts  *)
(* over all jobs, and a step is shown to keep it by looking at its job     *)
(* (LocalMove) once its settlement at the StakeManager is known.  The last *)
(* part is about the tokens behind the jobs: the StakeManager holds        *)
(* exactly what stakers, employers and the reward pool are owed, so a      *)
(* completed job can be settled as soon as the agent's stake and the bonus *)
(* pool allow it.                                                          *)
(***************************************************************************)
EXTENDS JobRegistry, StakeLedgerProofs, FiniteSetTheorems

\* The strengthening of the job's part of the safety invariants: who takes
\* part, what is escrowed, and which validation, dispute and validators it has.
JobOK(j) ==
  LET job == jobs[j] IN
  /\ j > nextJobId => job.state = "None"
  /\ job.state # "None" => job.employer \in Accounts
  /\ job.state = "None" => ~job.success
  /\ job.state = "Created" => job.agent = None
  /\ job.state \in Assigned => job.agent \in Agents /\ job.agentPct \in 100..200
  /\ ledger.escrow[j] = IF job.state \in Live THEN Escrowed(job) ELSE 0
  /\ starts[j] <= 1
  /\ job.state \in {"None", "Created", "Applied"} => starts[j] = 0
  /\ j \in startPending => /\ starts[j] = 0
                           /\ job.state = "Submitted"
                           /\ ~job.burnConfirmed
  /\ j \in disputeOpen => job.state = "Disputed"
  /\ jobValidators[j] # <<>> => job.state \in {"Completed", "Disputed"}

JobsOK == \A j \in JobIds : JobOK(j)

IInv == TypeOK /\ JobsOK /\ ActiveJobsExact /\ StatsExact
-----------------------------------------------------------------------------
(* Steps that concern one job. *)

\* Nothing that JobOK reads of another job than j changes.
Others(j) ==
  \A k \in JobIds \ {j} :
    /\ jobs'[k] = jobs[k]
    /\ ledger'.escrow[k] = ledger.escrow[k]
    /\ starts'[k] = starts[k]
    /\ jobValidators'[k] = jobValidators[k]
    /\ k \in startPending' <=> k \in startPending
    /\ k \in disputeOpen' <=> k \in disputeOpen

\* activeJobs goes with the assignment of job j.
ActiveMove(j) ==
  LET old == jobs[j]
      new == jobs'[j]
  IN \/ /\ activeJobs' = activeJobs
        /\ old.state \in Assigned <=> new.state \in Assigned
        /\ old.agent = new.agent \/ old.state \notin Assigned
     \/ /\ old.state \notin Assigned
        /\ new.state \in Assigned
        /\ activeJobs' = [activeJobs EXCEPT ![new.agent] = @ + 1]
     \/ /\ old.state \in Assigned
        /\ new.state \notin Assigned
        /\ activeJobs' = Released(old.agent)

\* employerStats goes with the end of job j.
StatsMove(j) ==
  LET old == jobs[j]
      new == jobs'[j]
  IN /\ old.state # "Finalized"
     /\ \/ stats' = stats /\ new.state # "Finalized"
        \/ /\ stats' = Counted(new.employer, new.success)
           /\ new.state = "Finalized"
           /\ new.employer \in Accounts

\* The way job j goes is one of JobLifecycle.
Lived(j) ==
  LET old == jobs[j]
      new == jobs'[j]
      From(s, t) == old.state = s /\ new.state = t
      same == new.agent = old.agent /\ Escrowed(old)' = Escrowed(old)
  IN \/ From("None", "Created") /\ ~new.success
     \/ From("Created", "Applied") /\ Escrowed(old)' = Escrowed(old) /\ new.success = old.success
     \/ From("Applied", "Submitted") /\ same /\ new.success = old.success
     \/ From("Submitted", "Completed") /\ same
     \/ From("Submitted", "Disputed") /\ same /\ ~new.success
     \/ From("Completed", "Disputed") /\ same /\ new.success = old.success
     \/ From("Disputed", "Disputed") /\ same /\ new.success = old.success
     \/ From("Disputed", "Completed") /\ same
     \/ From("Completed", "Finalized") /\ new.success = old.success
     \/ From("Applied", "Finalized") /\ ~new.success
     \/ From("Created", "Cancelled") /\ new.success = old.success

LocalMove(j) ==
  /\ TypeOK'
  /\ nextJobId' >= nextJobId
  /\ Others(j)
  /\ JobOK(j)'
  /\ ActiveMove(j)
  /\ StatsMove(j)
  /\ Lived(j)

\* One step of JobLifecycle, or none.
LifeStep == (\E k \in JobIds : Lifecycle!Step(k)) \/ UNCHANGED Lifecycle!lifecycleVars

\* What a step has to show.
Kept == IInv' /\ LifeStep

\* What the invariant says of the job of a step.
LEMMA KnownJob ==
  ASSUME IInv, NEW j \in JobIds
  PROVE  /\ jobs[j] \in JobType
         /\ LedgerTypeOK(ledger)
         /\ JobOK(j)
         /\ starts[j] \in Nat
         /\ jobValidators[j] \in Seq(Validators)
BY DEF IInv, JobsOK, TypeOK

\* A set of jobs that changes at j alone.
LEMMA CountStep ==
  ASSUME NEW S \in SUBSET JobIds, NEW T \in SUBSET JobIds, NEW j \in JobIds,
         \A k \in JobIds \ {j} : k \in T <=> k \in S
  PROVE  /\ Cardinality(S) \in Nat
         /\ j \in S /\ j \in T => Cardinality(T) = Cardinality(S)
         /\ j \notin S /\ j \notin T => Cardinality(T) = Cardinality(S)
         /\ j \notin S /\ j \in T => Cardinality(T) = Cardinality(S) + 1
         /\ j \in S /\ j \notin T => Cardinality(T) = Cardinality(S) - 1 /\ Cardinality(S) > 0
<1>1. IsFiniteSet(S) /\ IsFiniteSet(T)
  BY LedgerAssumption, FS_Subset
<1>2. Cardinality(S) \in Nat /\ Cardinality(T) \in Nat
  BY <1>1, FS_CardinalityType
<1>3. CASE j \in S <=> j \in T
  <2>1. S = T
    BY <1>3
  <2> QED BY <1>2, <1>3, <2>1
<1>4. CASE j \notin S /\ j \in T
  <2>1. T = S \cup {j}
    BY <1>4
  <2> QED BY <1>1, <1>2, <1>4, <2>1, FS_AddElement
<1>5. CASE j \in S /\ j \notin T
  <2>1. S = T \cup {j}
    BY <1>5
  <2>2. Cardinality(S) = Cardinality(T) + 1
    BY <1>1, <1>5, <2>1, FS_AddElement
  <2> QED BY <1>2, <1>5, <2>2
<1> QED BY <1>3, <1>4, <1>5

LEMMA ActiveMoveKeeps ==
  ASSUME IInv, NEW j \in JobIds, LocalMove(j)
  PROVE  ActiveJobsExact'
<1>1. SUFFICES ASSUME NEW a \in Accounts
               PROVE  activeJobs'[a] = Cardinality({k \in JobIds :
                        jobs'[k].agent = a /\ jobs'[k].state \in Assigned})
  BY DEF ActiveJobsExact
<1> DEFINE S == {k \in JobIds : jobs[k].agent = a /\ jobs[k].state \in Assigned}
           T == {k \in JobIds : jobs'[k].agent = a /\ jobs'[k].state \in Assigned}
<1>2. activeJobs[a] = Cardinality(S)
  BY DEF IInv, ActiveJobsExact
<1>3. \A k \in JobIds \ {j} : k \in T <=> k \in S
  BY DEF LocalMove, Others
<1>4. S \in SUBSET JobIds /\ T \in SUBSET JobIds
  OBVIOUS
<1>5. j \in S <=> (jobs[j].agent = a /\ jobs[j].state \in Assigned)
  OBVIOUS
<1>6. j \in T <=> (jobs'[j].agent = a /\ jobs'[j].state \in Assigned)
  OBVIOUS
<1> HIDE DEF S, T
<1>7. /\ Cardinality(S) \in Nat
      /\ j \in S /\ j \in T => Cardinality(T) = Cardinality(S)
      /\ j \notin S /\ j \notin T => Cardinality(T) = Cardinality(S)
      /\ j \notin S /\ j \in T => Cardinality(T) = Cardinality(S) + 1
      /\ j \in S /\ j \notin T => Cardinality(T) = Cardinality(S) - 1 /\ Cardinality(S) > 0
  BY <1>3, <1>4, CountStep
<1>8. activeJobs \in [Accounts -> Nat]
  BY DEF IInv, TypeOK
<1>9. jobs[j].state \in Assigned => jobs[j].agent # None
  BY RegistryAssumption DEF IInv, JobsOK, JobOK
<1>10. activeJobs'[a] = Cardinality(T)
  BY <1>2, <1>5, <1>6, <1>7, <1>8, <1>9 DEF LocalMove, ActiveMove, Released
<1> QED BY <1>10 DEF T

LEMMA StatsMoveKeeps ==
  ASSUME IInv, NEW j \in JobIds, LocalMove(j)
  PROVE  StatsExact'
<1>1. SUFFICES ASSUME NEW e \in Accounts
               PROVE  /\ stats'[e].successful = Cardinality({k \in JobIds :
                           jobs'[k].employer = e /\ jobs'[k].state = "Finalized" /\ jobs'[k].success})
                      /\ stats'[e].failed = Cardinality({k \in JobIds :
                           jobs'[k].employer = e /\ jobs'[k].state = "Finalized" /\ ~jobs'[k].success})
  BY DEF StatsExact
<1> DEFINE S == {k \in JobIds : jobs[k].employer = e /\ jobs[k].state = "Finalized" /\ jobs[k].success}
           T == {k \in JobIds : jobs'[k].employer = e /\ jobs'[k].state = "Finalized" /\ jobs'[k].success}
           U == {k \in JobIds : jobs[k].employer = e /\ jobs[k].state = "Finalized" /\ ~jobs[k].success}
           V == {k \in JobIds : jobs'[k].employer = e /\ jobs'[k].state = "Finalized" /\ ~jobs'[k].success}
<1>2. stats[e].successful = Cardinality(S) /\ stats[e].failed = Cardinality(U)
  BY DEF IInv, StatsExact
<1>3. \A k \in JobIds \ {j} : (k \in T <=> k \in S) /\ (k \in V <=> k \in U)
  BY DEF LocalMove, Others
<1>4. /\ S \in SUBSET JobIds /\ T \in SUBSET JobIds
      /\ U \in SUBSET JobIds /\ V \in SUBSET JobIds
  OBVIOUS
<1>5. j \notin S /\ j \notin U
  BY DEF LocalMove, StatsMove
<1>6. /\ j \in T <=> (jobs'[j].employer = e /\ jobs'[j].state = "Finalized" /\ jobs'[j].success)
      /\ j \in V <=> (jobs'[j].employer = e /\ jobs'[j].state = "Finalized" /\ ~jobs'[j].success)
  OBVIOUS
<1> HIDE DEF S, T, U, V
<1>7. /\ Cardinality(S) \in Nat
      /\ Cardinality(T) = IF j \in T THEN Cardinality(S) + 1 ELSE Cardinality(S)
  BY <1>3, <1>4, <1>5, CountStep
<1>8. /\ Cardinality(U) \in Nat
      /\ Cardinality(V) = IF j \in V THEN Cardinality(U) + 1 ELSE Cardinality(U)
  BY <1>3, <1>4, <1>5, CountStep
<1>9. stats \in [Accounts -> [successful : Nat, failed : Nat]]
  BY DEF IInv, TypeOK
<1>10. jobs'[j].success \in BOOLEAN
  BY DEF LocalMove, TypeOK, JobType
<1>11. stats'[e].successful = Cardinality(T) /\ stats'[e].failed = Cardinality(V)
  BY <1>2, <1>6, <1>7, <1>8, <1>9, <1>10 DEF LocalMove, StatsMove, Counted
<1> QED BY <1>11 DEF T, V

\* The variables of JobLifecycle.
phase == [j \in JobIds |-> jobs[j].state]
worker == [j \in JobIds |-> IF jobs[j].state \in Assigned THEN jobs[j].agent ELSE None]
verdict == [j \in JobIds |-> jobs[j].success]

LEMMA LifeMoveKeeps ==
  ASSUME IInv, NEW j \in JobIds, LocalMove(j)
  PROVE  LifeStep
<1> DEFINE ph == jobs'[j].state
           wk == worker'[j]
           vd == jobs'[j].success
           es == ledger'.escrow[j]
<1>1. /\ JobOK(j) /\ JobOK(j)' /\ Lived(j)
      /\ LedgerTypeOK(ledger) /\ LedgerTypeOK(ledger')
      /\ jobs[j] \in JobType /\ jobs'[j] \in JobType
  BY KnownJob DEF LocalMove, TypeOK
<1>2. phase' = [phase EXCEPT ![j] = ph] /\ verdict' = [verdict EXCEPT ![j] = vd]
  BY DEF LocalMove, Others, phase, verdict
<1>3. worker' = [worker EXCEPT ![j] = wk]
  BY DEF LocalMove, Others, worker
<1>4. ledger'.escrow = [ledger.escrow EXCEPT ![j] = es] /\ es \in Nat
  BY <1>1 DEF LocalMove, Others, LedgerTypeOK
<1>5. wk = IF ph \in Assigned THEN jobs'[j].agent ELSE None
  BY DEF worker
<1>6. /\ phase[j] = jobs[j].state /\ verdict[j] = jobs[j].success
      /\ worker[j] = IF jobs[j].state \in Assigned THEN jobs[j].agent ELSE None
      /\ ledger.escrow[j] = IF jobs[j].state \in Live THEN Escrowed(jobs[j]) ELSE 0
      /\ es = IF ph \in Live THEN Escrowed(jobs[j])' ELSE 0
  BY <1>1 DEF phase, verdict, worker, JobOK
<1>7. phase \in [JobIds -> States] /\ verdict \in [JobIds -> BOOLEAN]
  BY DEF IInv, TypeOK, JobType, phase, verdict
<1>8. worker = [worker EXCEPT ![j] = worker[j]]
  BY DEF worker
<1>9. ledger.escrow = [ledger.escrow EXCEPT ![j] = ledger.escrow[j]]
  BY <1>1 DEF LedgerTypeOK
<1>10. verdict = [verdict EXCEPT ![j] = verdict[j]] /\ phase = [phase EXCEPT ![j] = phase[j]]
  BY DEF verdict, phase
<1> DEFINE same == wk = worker[j] /\ es = ledger.escrow[j]
<1>11. \/ jobs[j].state = "None" /\ ph = "Created" /\ ~vd
       \/ jobs[j].state = "Created" /\ ph = "Applied" /\ es = ledger.escrow[j] /\ vd = verdict[j]
       \/ jobs[j].state = "Applied" /\ ph = "Submitted" /\ same /\ vd = verdict[j]
       \/ jobs[j].state = "Submitted" /\ ph = "Completed" /\ same
       \/ jobs[j].state = "Submitted" /\ ph = "Disputed" /\ same /\ ~vd
       \/ jobs[j].state = "Completed" /\ ph = "Disputed" /\ same /\ vd = verdict[j]
       \/ jobs[j].state = "Disputed" /\ ph = "Disputed" /\ same /\ vd = verdict[j]
       \/ jobs[j].state = "Disputed" /\ ph = "Completed" /\ same
       \/ jobs[j].state = "Completed" /\ ph = "Finalized" /\ vd = verdict[j]
       \/ jobs[j].state = "Applied" /\ ph = "Finalized" /\ ~vd
       \/ jobs[j].state = "Created" /\ ph = "Cancelled" /\ vd = verdict[j]
  BY <1>1, <1>5, <1>6 DEF Lived, Live, Assigned
<1>12. vd \in BOOLEAN /\ verdict[j] \in BOOLEAN
  BY <1>1, <1>6 DEF JobType
<1>13. jobs[j].state = "None" => verdict[j] = FALSE
  BY <1>1, <1>6, <1>12 DEF JobOK
<1> HIDE DEF ph, wk, vd, es
<1>13a. PICK v \in BOOLEAN : v = vd
  BY <1>12
<1> USE DEF Lifecycle!Move, Lifecycle!Advance, Lifecycle!Rate, Lifecycle!End
<1>14. CASE jobs[j].state = "None" /\ ph = "Created" /\ ~vd
  <2>1. /\ phase[j] = "None"
        /\ phase' = [phase EXCEPT ![j] = "Created"]
        /\ ledger'.escrow[j] \in Nat
        /\ ledger'.escrow = [ledger.escrow EXCEPT ![j] = ledger'.escrow[j]]
        /\ worker' = worker
        /\ verdict' = verdict
    BY <1>1, <1>2, <1>3, <1>4, <1>5, <1>6, <1>8, <1>10, <1>12, <1>13, <1>14 DEF Assigned, es
  <2>2. Lifecycle!Post(j)
    BY <2>1 DEF Lifecycle!Post, phase, worker, verdict
  <2> QED BY <2>2 DEF Lifecycle!Step, LifeStep
<1>15. CASE jobs[j].state = "Created" /\ ph = "Applied" /\ es = ledger.escrow[j] /\ vd = verdict[j]
  <2>0. PICK a \in Agents : a = jobs'[j].agent
    BY <1>1, <1>15 DEF JobOK, Assigned, ph
  <2>1. /\ phase[j] = "Created"
        /\ phase' = [phase EXCEPT ![j] = "Applied"]
        /\ worker' = [worker EXCEPT ![j] = a]
        /\ verdict' = verdict
        /\ ledger'.escrow = ledger.escrow
    BY <1>1, <1>2, <1>3, <1>4, <1>5, <1>6, <1>9, <1>10, <1>15, <2>0 DEF Assigned, JobOK, ph
  <2>2. Lifecycle!Assign(j, a)
    BY <2>1 DEF Lifecycle!Assign, phase, worker, verdict
  <2>3. \E w \in Agents : Lifecycle!Assign(j, w)
    BY <2>2
  <2> QED BY <2>3 DEF Lifecycle!Step, LifeStep
<1>16. CASE jobs[j].state = "Applied" /\ ph = "Submitted" /\ same /\ vd = verdict[j]
  <2>1. /\ phase[j] = "Applied"
        /\ phase' = [phase EXCEPT ![j] = "Submitted"]
        /\ worker' = worker
        /\ verdict' = verdict
        /\ ledger'.escrow = ledger.escrow
    BY <1>2, <1>3, <1>4, <1>6, <1>8, <1>9, <1>10, <1>12, <1>16
  <2>2. Lifecycle!Deliver(j)
    BY <2>1 DEF Lifecycle!Deliver, phase, worker, verdict
  <2> QED BY <2>2 DEF Lifecycle!Step, LifeStep
<1>17. CASE jobs[j].state = "Submitted" /\ ph = "Completed" /\ same
  <2>1. /\ phase[j] = "Submitted"
        /\ phase' = [phase EXCEPT ![j] = "Completed"]
        /\ worker' = worker
        /\ verdict' = [verdict EXCEPT ![j] = v]
        /\ ledger'.escrow = ledger.escrow
    BY <1>13a, <1>2, <1>3, <1>4, <1>6, <1>8, <1>9, <1>10, <1>12, <1>17
  <2>2. Lifecycle!Judge(j, v)
    BY <2>1 DEF Lifecycle!Judge, phase, worker, verdict
  <2>3. \E ok \in BOOLEAN : Lifecycle!Judge(j, ok)
    BY <2>2
  <2> QED BY <2>3 DEF Lifecycle!Step, LifeStep
<1>18. CASE jobs[j].state = "Submitted" /\ ph = "Disputed" /\ same /\ ~vd
  <2>1. /\ phase[j] = "Submitted"
        /\ phase' = [phase EXCEPT ![j] = "Disputed"]
        /\ worker' = worker
        /\ verdict' = [verdict EXCEPT ![j] = v]
        /\ ledger'.escrow = ledger.escrow
        /\ ~v
    BY <1>13a, <1>2, <1>3, <1>4, <1>6, <1>8, <1>9, <1>10, <1>12, <1>18
  <2>2. Lifecycle!Judge(j, v)
    BY <2>1 DEF Lifecycle!Judge, phase, worker, verdict
  <2>3. \E ok \in BOOLEAN : Lifecycle!Judge(j, ok)
    BY <2>2
  <2> QED BY <2>3 DEF Lifecycle!Step, LifeStep
<1>19. CASE jobs[j].state = "Completed" /\ ph = "Disputed" /\ same /\ vd = verdict[j]
  <2>1. /\ phase[j] = "Completed"
        /\ phase' = [phase EXCEPT ![j] = "Disputed"]
        /\ worker' = worker
        /\ verdict' = verdict
        /\ ledger'.escrow = ledger.escrow
    BY <1>2, <1>3, <1>4, <1>6, <1>8, <1>9, <1>10, <1>12, <1>19
  <2>2. Lifecycle!Contest(j)
    BY <2>1 DEF Lifecycle!Contest, phase, worker, verdict
  <2> QED BY <2>2 DEF Lifecycle!Step, LifeStep
<1>20. CASE jobs[j].state = "Disputed" /\ ph = "Disputed" /\ same /\ vd = verdict[j]
  <2>1. phase' = phase /\ worker' = worker /\ verdict' = verdict /\ ledger'.escrow = ledger.escrow
    BY <1>2, <1>3, <1>4, <1>6, <1>8, <1>9, <1>10, <1>20
  <2> QED BY <2>1 DEF LifeStep, Lifecycle!lifecycleVars, phase, worker, verdict
<1>21. CASE jobs[j].state = "Disputed" /\ ph = "Completed" /\ same
  <2>1. /\ phase[j] = "Disputed"
        /\ phase' = [phase EXCEPT ![j] = "Completed"]
        /\ worker' = worker
        /\ verdict' = [verdict EXCEPT ![j] = v]
        /\ ledger'.escrow = ledger.escrow
    BY <1>13a, <1>2, <1>3, <1>4, <1>6, <1>8, <1>9, <1>10, <1>12, <1>21
  <2>2. Lifecycle!Rule(j, v)
    BY <2>1 DEF Lifecycle!Rule, phase, worker, verdict
  <2>3. \E ok \in BOOLEAN : Lifecycle!Rule(j, ok)
    BY <2>2
  <2> QED BY <2>3 DEF Lifecycle!Step, LifeStep
<1>22. CASE jobs[j].state = "Completed" /\ ph = "Finalized" /\ vd = verdict[j]
  <2>1. /\ phase[j] = "Completed"
        /\ phase' = [phase EXCEPT ![j] = "Finalized"]
        /\ worker' = [worker EXCEPT ![j] = None]
        /\ ledger'.escrow = [ledger.escrow EXCEPT ![j] = 0]
        /\ verdict' = verdict
    BY <1>2, <1>3, <1>4, <1>6, <1>8, <1>9, <1>10, <1>12, <1>22, <1>5 DEF Assigned, Live
  <2>2. Lifecycle!Settle(j)
    BY <2>1 DEF Lifecycle!Settle, phase, worker, verdict
  <2> QED BY <2>2 DEF Lifecycle!Step, LifeStep
<1>23. CASE jobs[j].state = "Applied" /\ ph = "Finalized" /\ ~vd
  <2>1. /\ phase[j] = "Applied"
        /\ phase' = [phase EXCEPT ![j] = "Finalized"]
        /\ worker' = [worker EXCEPT ![j] = None]
        /\ ledger'.escrow = [ledger.escrow EXCEPT ![j] = 0]
        /\ verdict' = [verdict EXCEPT ![j] = FALSE]
    BY <1>2, <1>3, <1>4, <1>6, <1>8, <1>9, <1>10, <1>12, <1>23, <1>5 DEF Assigned, Live
  <2>2. Lifecycle!Expire(j)
    BY <2>1 DEF Lifecycle!Expire, phase, worker, verdict
  <2> QED BY <2>2 DEF Lifecycle!Step, LifeStep
<1>24. CASE jobs[j].state = "Created" /\ ph = "Cancelled" /\ vd = verdict[j]
  <2>1. /\ phase[j] = "Created"
        /\ phase' = [phase EXCEPT ![j] = "Cancelled"]
        /\ worker' = [worker EXCEPT ![j] = None]
        /\ ledger'.escrow = [ledger.escrow EXCEPT ![j] = 0]
        /\ verdict' = verdict
    BY <1>2, <1>3, <1>4, <1>6, <1>8, <1>9, <1>10, <1>12, <1>24, <1>5 DEF Assigned, Live
  <2>2. Lifecycle!Cancel(j)
    BY <2>1 DEF Lifecycle!Cancel, phase, worker, verdict
  <2> QED BY <2>2 DEF Lifecycle!Step, LifeStep
<1> QED BY <1>11, <1>14, <1>15, <1>16, <1>17, <1>18, <1>19, <1>20, <1>21, <1>22, <1>23, <1>24

\* A step that concerns one job keeps the invariant.
LEMMA LocalMoveKeeps ==
  ASSUME IInv, NEW j \in JobIds, LocalMove(j)
  PROVE  Kept
<1>1. ASSUME NEW k \in JobIds, k # j PROVE JobOK(k)'
  <2>1. JobOK(k)
    BY DEF IInv, JobsOK
  <2>2. /\ jobs'[k] = jobs[k] /\ ledger'.escrow[k] = ledger.escrow[k]
        /\ starts'[k] = starts[k] /\ jobValidators'[k] = jobValidators[k]
        /\ k \in startPending' <=> k \in startPending
        /\ k \in disputeOpen' <=> k \in disputeOpen
    BY <1>1 DEF LocalMove, Others
  <2>3. k > nextJobId' => k > nextJobId
    BY RegistryAssumption DEF LocalMove, IInv, TypeOK
  <2> QED BY <2>1, <2>2, <2>3 DEF JobOK
<1>2. JobsOK'
  BY <1>1 DEF JobsOK, LocalMove
<1> QED BY <1>2, ActiveMoveKeeps, StatsMoveKeeps, LifeMoveKeeps DEF IInv, LocalMove, Kept

\* A step that concerns no job keeps it, whatever it does to the rest.
LEMMA IdleKeeps ==
  ASSUME IInv, TypeOK',
         UNCHANGED <<jobs, nextJobId, startPending, starts, jobValidators,
                     disputeOpen, activeJobs, stats>>,
         ledger'.escrow = ledger.escrow
  PROVE  Kept
<1>1. JobsOK'
  BY DEF IInv, JobsOK, JobOK, Escrowed, FeeOf
<1>2. ActiveJobsExact' /\ StatsExact'
  BY DEF IInv, ActiveJobsExact, StatsExact
<1>3. LifeStep
  BY DEF LifeStep, Lifecycle!lifecycleVars
<1> QED BY <1>1, <1>2, <1>3 DEF IInv, Kept
-----------------------------------------------------------------------------
(* Steps that leave the ledger alone. *)

\* Job j is in state s; its parties, amounts and percentages are the same.
Moved(j, s) ==
  /\ jobs' \in [JobIds -> JobType]
  /\ \A k \in JobIds \ {j} : jobs'[k] = jobs[k]
  /\ jobs'[j].state = s
  /\ jobs'[j].employer = jobs[j].employer
  /\ jobs'[j].agent = jobs[j].agent
  /\ jobs'[j].reward = jobs[j].reward
  /\ jobs'[j].feePct = jobs[j].feePct
  /\ jobs'[j].agentPct = jobs[j].agentPct
  /\ jobs'[j].burnConfirmed = jobs[j].burnConfirmed

\* The two flags of a job may take any value.
LEMMA FlagsSet ==
  ASSUME NEW job \in JobType, NEW ok \in BOOLEAN
  PROVE  [job EXCEPT !.success = ok] \in JobType /\ [job EXCEPT !.burnConfirmed = ok] \in JobType
BY DEF JobType

LEMMA StatusMoved ==
  ASSUME IInv, NEW j \in JobIds, NEW s \in States, jobs' = Status(j, s)
  PROVE  Moved(j, s) /\ jobs'[j].success = jobs[j].success
<1>1. jobs \in [JobIds -> JobType]
  BY DEF IInv, TypeOK
<1>2. jobs' = [jobs EXCEPT ![j] = [jobs[j] EXCEPT !.state = s]]
  BY <1>1 DEF Status
<1>3. [jobs[j] EXCEPT !.state = s] \in JobType
  BY <1>1 DEF JobType
<1>4. jobs' \in [JobIds -> JobType] /\ jobs'[j] = [jobs[j] EXCEPT !.state = s]
  BY <1>1, <1>2, <1>3
<1> QED BY <1>1, <1>2, <1>4 DEF Moved, JobType

LEMMA DecidedMoved ==
  ASSUME IInv, NEW j \in JobIds, NEW s \in States, NEW ok \in BOOLEAN, jobs' = Decided(j, s, ok)
  PROVE  Moved(j, s) /\ jobs'[j].success = ok
<1>1. jobs \in [JobIds -> JobType]
  BY DEF IInv, TypeOK
<1> DEFINE m == [jobs[j] EXCEPT !.state = s]
           n == [m EXCEPT !.success = ok]
<1>2. jobs' = [jobs EXCEPT ![j] = n]
  BY <1>1 DEF Decided
<1>3. m \in JobType
  BY <1>1 DEF JobType
<1>4. n \in JobType
  <2> HIDE DEF m
  <2> QED BY <1>3 DEF JobType
<1>5. jobs' \in [JobIds -> JobType] /\ jobs'[j] = n
  <2> HIDE DEF n
  <2> QED BY <1>1, <1>2, <1>4
<1> QED BY <1>1, <1>2, <1>5 DEF Moved, JobType

\* The validation, dispute and validators of job j suit its new state s.
Suited(j, s) ==
  /\ starts'[j] <= 1
  /\ j \in startPending' => starts'[j] = 0 /\ s = "Submitted" /\ ~jobs[j].burnConfirmed
  /\ j \in disputeOpen' => s = "Disputed"
  /\ jobValidators'[j] # <<>> => s \in {"Completed", "Disputed"}

\* An assigned job that stays assigned.
LEMMA AssignedMove ==
  ASSUME IInv, NEW j \in JobIds, NEW s \in {"Submitted", "Completed", "Disputed"},
         jobs[j].state \in Assigned, Moved(j, s), TypeOK', Others(j), Suited(j, s),
         Escrowed(jobs[j])' = Escrowed(jobs[j]) => Lived(j),
         UNCHANGED <<ledger, activeJobs, stats, nextJobId>>
  PROVE  LocalMove(j)
<1>1. JobOK(j) /\ nextJobId \in Nat
  BY KnownJob DEF IInv, TypeOK
<1>2. Escrowed(jobs[j])' = Escrowed(jobs[j])
  BY DEF Escrowed, FeeOf, Moved
<1>3. JobOK(j)'
  BY <1>1, <1>2 DEF JobOK, Moved, Suited, Assigned, Live
<1>4. ActiveMove(j) /\ StatsMove(j)
  BY DEF ActiveMove, StatsMove, Moved, Assigned
<1> QED BY <1>1, <1>2, <1>3, <1>4 DEF LocalMove

LEMMA SubmitMove ==
  ASSUME IInv, NEW j \in JobIds, Submit(j)
  PROVE  LocalMove(j)
<1>0. JobOK(j) /\ starts[j] = 0 /\ jobs[j].state = "Applied"
  BY KnownJob DEF JobOK, Submit
<1>1. Moved(j, "Submitted") /\ jobs'[j].success = jobs[j].success
  BY StatusMoved DEF Submit, States
<1>2. TypeOK'
  BY <1>1 DEF IInv, TypeOK, Submit, Moved, config
<1>3. Others(j)
  BY <1>1 DEF Others, Submit, Moved, IInv, TypeOK
<1>4. Suited(j, "Submitted")
  BY <1>0 DEF Submit, Suited, JobOK, IInv, TypeOK
<1>5. Escrowed(jobs[j])' = Escrowed(jobs[j]) => Lived(j)
  BY <1>0, <1>1 DEF Moved, Lived
<1> QED BY <1>0, <1>1, <1>2, <1>3, <1>4, <1>5, AssignedMove DEF Submit, Assigned

LEMMA ValidatorListsType == ValidatorLists \subseteq Seq(Validators)
<1>1. <<>> \in Seq(Validators)
  OBVIOUS
<1>2. ASSUME NEW v \in Validators PROVE <<v>> \in Seq(Validators)
  OBVIOUS
<1>3. ASSUME NEW v \in Validators, NEW w \in Validators PROVE <<v, w>> \in Seq(Validators)
  OBVIOUS
<1> QED BY <1>1, <1>2, <1>3 DEF ValidatorLists

\* A job gets its verdict: from the ValidationModule, by force or by a dispute.
LEMMA JudgeMove ==
  ASSUME IInv, NEW j \in JobIds,
         \/ \E ok \in BOOLEAN, vals \in ValidatorLists : OnValidationResult(j, ok, vals)
         \/ \E ok \in BOOLEAN : ValidationComplete(j, ok) \/ ResolveDispute(j, ok)
         \/ ForceFinalize(j)
  PROVE  LocalMove(j)
<1>0. JobOK(j) /\ jobs[j] \in JobType /\ starts[j] \in Nat /\ jobValidators[j] \in Seq(Validators)
  BY KnownJob
<1>1. ASSUME NEW ok \in BOOLEAN, AfterValidation(j, ok)
      PROVE  /\ jobs[j].state = "Submitted"
             /\ Moved(j, IF ok THEN "Completed" ELSE "Disputed")
             /\ jobs'[j].success = ok
  BY <1>1, DecidedMoved DEF AfterValidation, States
<1>2. ASSUME NEW ok \in BOOLEAN, NEW vals \in ValidatorLists, OnValidationResult(j, ok, vals)
      PROVE  LocalMove(j)
  <2> DEFINE s == IF ok THEN "Completed" ELSE "Disputed"
  <2>1. jobs[j].state = "Submitted" /\ Moved(j, s) /\ jobs'[j].success = ok
    BY <1>1, <1>2 DEF OnValidationResult
  <2>2. s \in {"Submitted", "Completed", "Disputed"} /\ s \in {"Completed", "Disputed"}
    OBVIOUS
  <2> HIDE DEF s
  <2>3. vals \in Seq(Validators)
    BY ValidatorListsType
  <2>4. TypeOK'
    BY <2>1, <2>3, <1>2 DEF IInv, TypeOK, OnValidationResult, AfterValidation, Moved, config
  <2>5. Others(j)
    BY <2>1, <1>2 DEF Others, OnValidationResult, AfterValidation, Moved, IInv, TypeOK
  <2>6. Suited(j, s)
    BY <1>0, <1>2, <2>1, <2>2 DEF OnValidationResult, AfterValidation, Suited, JobOK
  <2>7. Escrowed(jobs[j])' = Escrowed(jobs[j]) => Lived(j)
    BY <2>1 DEF Moved, Lived, s
  <2> QED BY <1>2, <2>1, <2>2, <2>4, <2>5, <2>6, <2>7, AssignedMove DEF OnValidationResult, Assigned
<1>3. ASSUME NEW ok \in BOOLEAN, ValidationComplete(j, ok)
      PROVE  LocalMove(j)
  <2> DEFINE s == IF ok THEN "Completed" ELSE "Disputed"
  <2>1. jobs[j].state = "Submitted" /\ Moved(j, s) /\ jobs'[j].success = ok
    BY <1>1, <1>3 DEF ValidationComplete
  <2>2. s \in {"Submitted", "Completed", "Disputed"} /\ s \in {"Completed", "Disputed"}
    OBVIOUS
  <2> HIDE DEF s
  <2>4. TypeOK'
    BY <2>1, <1>3 DEF IInv, TypeOK, ValidationComplete, AfterValidation, Moved, config
  <2>5. Others(j)
    BY <2>1, <1>3 DEF Others, ValidationComplete, AfterValidation, Moved, IInv, TypeOK
  <2>6. Suited(j, s)
    BY <1>0, <1>3, <2>1, <2>2 DEF ValidationComplete, AfterValidation, Suited, JobOK
  <2>7. Escrowed(jobs[j])' = Escrowed(jobs[j]) => Lived(j)
    BY <2>1 DEF Moved, Lived, s
  <2> QED BY <1>3, <2>1, <2>2, <2>4, <2>5, <2>6, <2>7, AssignedMove DEF ValidationComplete, Assigned
<1>4. ASSUME NEW wins \in BOOLEAN, ResolveDispute(j, wins)
      PROVE  LocalMove(j)
  <2>1. jobs[j].state = "Disputed" /\ Moved(j, "Completed")
    BY <1>4, DecidedMoved DEF ResolveDispute, States
  <2>2. <<>> \in Seq(Validators)
    OBVIOUS
  <2>4. TypeOK'
    BY <2>1, <2>2, <1>4 DEF IInv, TypeOK, ResolveDispute, ClearJob, Moved, config
  <2>5. Others(j)
    BY <2>1, <1>4 DEF Others, ResolveDispute, ClearJob, Moved, IInv, TypeOK
  <2>6. Suited(j, "Completed")
    BY <1>0, <1>4, <2>1 DEF ResolveDispute, ClearJob, Suited, JobOK
  <2>7. Escrowed(jobs[j])' = Escrowed(jobs[j]) => Lived(j)
    BY <2>1 DEF Moved, Lived
  <2> QED BY <1>4, <2>1, <2>4, <2>5, <2>6, <2>7, AssignedMove DEF ResolveDispute, Assigned
<1>5. ASSUME ForceFinalize(j) PROVE LocalMove(j)
  <2>1. jobs[j].state = "Submitted" /\ Moved(j, "Completed")
    BY <1>5, DecidedMoved DEF ForceFinalize, States
  <2>4. TypeOK'
    BY <2>1, <1>5 DEF IInv, TypeOK, ForceFinalize, Moved, config
  <2>5. Others(j)
    BY <2>1, <1>5 DEF Others, ForceFinalize, Moved, IInv, TypeOK
  <2>6. Suited(j, "Completed")
    BY <1>0, <1>5, <2>1 DEF ForceFinalize, Suited, JobOK
  <2>7. Escrowed(jobs[j])' = Escrowed(jobs[j]) => Lived(j)
    BY <2>1 DEF Moved, Lived
  <2> QED BY <1>5, <2>1, <2>4, <2>5, <2>6, <2>7, AssignedMove DEF ForceFinalize, Assigned
<1> QED BY <1>2, <1>3, <1>4, <1>5

LEMMA DisputeMove ==
  ASSUME IInv, NEW j \in JobIds, NEW u, Dispute(j, u)
  PROVE  LocalMove(j)
<1>0. JobOK(j) /\ jobs[j].state \in {"Completed", "Disputed"}
  BY KnownJob DEF Dispute
<1>1. Moved(j, "Disputed") /\ jobs'[j].success = jobs[j].success
  BY StatusMoved DEF Dispute, States
<1>2. TypeOK'
  BY <1>1 DEF IInv, TypeOK, Dispute, Moved, config
<1>3. Others(j)
  BY <1>1 DEF Others, Dispute, Moved, IInv, TypeOK
<1>4. Suited(j, "Disputed")
  BY <1>0 DEF Dispute, Suited, JobOK
<1>5. Escrowed(jobs[j])' = Escrowed(jobs[j]) => Lived(j)
  BY <1>0, <1>1 DEF Moved, Lived
<1> QED BY <1>0, <1>1, <1>2, <1>3, <1>4, <1>5, AssignedMove DEF Dispute, Assigned

\* Accepting burn evidence moves no job, so it goes past LocalMove.
LEMMA ConfirmKeeps ==
  ASSUME IInv, NEW j \in JobIds, ConfirmEmployerBurn(j)
  PROVE  Kept
<1>0. jobs[j] \in JobType /\ JobOK(j) /\ jobs \in [JobIds -> JobType]
  BY KnownJob DEF IInv, TypeOK
<1>1. jobs' = [jobs EXCEPT ![j] = [jobs[j] EXCEPT !.burnConfirmed = TRUE]]
  BY <1>0 DEF ConfirmEmployerBurn
<1>2. [jobs[j] EXCEPT !.burnConfirmed = TRUE] \in JobType
  <2>1. TRUE \in BOOLEAN
    OBVIOUS
  <2> QED BY <1>0, <2>1, FlagsSet
<1>3. jobs' \in [JobIds -> JobType]
  BY <1>0, <1>1, <1>2
<1>4. \A k \in JobIds :
        /\ jobs'[k].state = jobs[k].state
        /\ jobs'[k].employer = jobs[k].employer
        /\ jobs'[k].agent = jobs[k].agent
        /\ jobs'[k].reward = jobs[k].reward
        /\ jobs'[k].feePct = jobs[k].feePct
        /\ jobs'[k].agentPct = jobs[k].agentPct
        /\ jobs'[k].success = jobs[k].success
        /\ k # j => jobs'[k].burnConfirmed = jobs[k].burnConfirmed
  BY <1>0, <1>1 DEF JobType
<1>5. TypeOK'
  BY <1>3 DEF IInv, TypeOK, ConfirmEmployerBurn, config
<1>6. ASSUME NEW k \in JobIds PROVE JobOK(k)'
  <2>1. JobOK(k) /\ starts[k] \in Nat
    BY KnownJob
  <2>2. Escrowed(jobs[k])' = Escrowed(jobs[k])
    <3>1. jobs'[k].reward = jobs[k].reward /\ jobs'[k].feePct = jobs[k].feePct
      BY <1>4
    <3> QED BY <3>1 DEF Escrowed, FeeOf
  <2>3. starts'[k] = starts[k] \/ (k = j /\ starts'[k] = starts[k] + 1
                                        /\ k \in startPending /\ k \notin startPending')
    BY <1>0 DEF ConfirmEmployerBurn, IInv, TypeOK
  <2>4. k \in startPending' => k \in startPending /\ k # j
    BY <1>0 DEF ConfirmEmployerBurn, JobOK
  <2>5. /\ jobs'[k].state = jobs[k].state /\ jobs'[k].employer = jobs[k].employer
        /\ jobs'[k].agent = jobs[k].agent /\ jobs'[k].agentPct = jobs[k].agentPct
        /\ jobs'[k].success = jobs[k].success
        /\ k # j => jobs'[k].burnConfirmed = jobs[k].burnConfirmed
    BY <1>4
  <2>6. /\ ledger' = ledger /\ jobValidators' = jobValidators
        /\ disputeOpen' = disputeOpen /\ nextJobId' = nextJobId
    BY DEF ConfirmEmployerBurn
  <2>7. starts'[k] <= 1 /\ (jobs'[k].state \in {"None", "Created", "Applied"} => starts'[k] = 0)
    BY <2>1, <2>3, <2>5 DEF JobOK
  <2>8. k \in startPending' => starts'[k] = 0 /\ jobs'[k].state = "Submitted" /\ ~jobs'[k].burnConfirmed
    BY <2>1, <2>3, <2>4, <2>5 DEF JobOK
  <2> QED BY <2>1, <2>2, <2>5, <2>6, <2>7, <2>8 DEF JobOK
<1>7. ActiveJobsExact'
  <2>1. \A a \in Accounts : {k \in JobIds : jobs'[k].agent = a /\ jobs'[k].state \in Assigned}
                             = {k \in JobIds : jobs[k].agent = a /\ jobs[k].state \in Assigned}
    BY <1>4
  <2> QED BY <2>1 DEF IInv, ActiveJobsExact, ConfirmEmployerBurn
<1>8. StatsExact'
  <2>1. \A e \in Accounts :
          /\ {k \in JobIds : jobs'[k].employer = e /\ jobs'[k].state = "Finalized" /\ jobs'[k].success}
             = {k \in JobIds : jobs[k].employer = e /\ jobs[k].state = "Finalized" /\ jobs[k].success}
          /\ {k \in JobIds : jobs'[k].employer = e /\ jobs'[k].state = "Finalized" /\ ~jobs'[k].success}
             = {k \in JobIds : jobs[k].employer = e /\ jobs[k].state = "Finalized" /\ ~jobs[k].success}
    BY <1>4
  <2> QED BY <2>1 DEF IInv, StatsExact, ConfirmEmployerBurn
<1>9. LifeStep
  <2>1. \A k \in JobIds :
          /\ jobs'[k].state = jobs[k].state /\ jobs'[k].success = jobs[k].success
          /\ jobs'[k].agent = jobs[k].agent
    BY <1>4
  <2>2. phase' = phase /\ worker' = worker /\ verdict' = verdict /\ ledger' = ledger
    BY <2>1 DEF phase, worker, verdict, ConfirmEmployerBurn
  <2> QED BY <2>2 DEF LifeStep, Lifecycle!lifecycleVars, phase, worker, verdict
<1> QED BY <1>5, <1>6, <1>7, <1>8, <1>9 DEF IInv, JobsOK, Kept
-----------------------------------------------------------------------------
(* Settlements at the StakeManager. *)

\* The amounts of a job are natural numbers, and a job without a reward
\* escrows nothing.
LEMMA JobAmounts ==
  ASSUME IInv, NEW j \in JobIds
  PROVE  /\ FeeOf(jobs[j]) \in Nat
         /\ Escrowed(jobs[j]) \in Nat
         /\ jobs[j].reward = 0 => Escrowed(jobs[j]) = 0
<1>1. jobs[j].reward \in Nat /\ jobs[j].feePct \in 0..100
  BY KnownJob DEF JobType
<1>2. FeeOf(jobs[j]) \in Nat
  <2>1. jobs[j].feePct \in Nat
    BY <1>1
  <2> QED BY <1>1, <2>1, PctNat DEF FeeOf
<1>3. ASSUME jobs[j].reward = 0 PROVE FeeOf(jobs[j]) = 0
  <2>1. FeeOf(jobs[j]) \in 0..0
    BY <1>1, <1>3, PctAtMost DEF FeeOf
  <2> QED BY <2>1
<1> QED BY <1>1, <1>2, <1>3 DEF Escrowed

\* M is the ledger with the escrow of job j emptied, no other escrow touched.
Settled(M, j) == LedgerTypeOK(M) /\ EscrowSet(M, ledger, j, 0)

\* Slashing the agent or releasing its lock leaves every escrow alone.
LEMMA StakeSettled ==
  ASSUME NEW j \in JobIds, NEW L, Settled(L, j), NEW M, LedgerTypeOK(M), M.escrow = L.escrow
  PROVE  Settled(M, j)
BY DEF Settled, EscrowSet

LEMMA SlashSettled ==
  ASSUME IInv, NEW j \in JobIds, NEW L, Settled(L, j), NEW u \in Accounts, NEW amount \in Nat,
         NEW recipient, NEW vals, CanSlash(L, u, "Agent", amount)
  PROVE  Settled(Slash(L, u, "Agent", amount, recipient, vals, now), j)
<1> DEFINE M == Slash(L, u, "Agent", amount, recipient, vals, now)
<1>1. LedgerTypeOK(L) /\ now \in Nat /\ "Agent" \in Roles
  BY DEF Settled, IInv, TypeOK, Roles
<1>2. SlashedFrom(M, L, u, "Agent", amount, now)
  BY <1>1, SlashEffect
<1> HIDE DEF M
<1>3. LedgerTypeOK(M) /\ M.escrow = L.escrow
  BY <1>2 DEF SlashedFrom, SameBut, LedgerFields, StakeFields, LockFields, TokenFields
<1>4. Settled(M, j)
  BY <1>3, StakeSettled
<1> QED BY <1>4 DEF M

LEMMA ReleaseSettled ==
  ASSUME NEW j \in JobIds, NEW L, Settled(L, j), NEW u \in Accounts, NEW amount \in Nat,
         CanReleaseStake(L, u, amount)
  PROVE  Settled(ReleaseStake(L, u, amount), j)
<1> DEFINE M == ReleaseStake(L, u, amount)
<1>1. LedgerTypeOK(L)
  BY DEF Settled
<1>2. LedgerTypeOK(M) /\ SameBut(M, L, LockFields)
  BY <1>1, ReleaseStakeEffect
<1> HIDE DEF M
<1>3. M.escrow = L.escrow
  BY <1>2 DEF SameBut, LedgerFields, LockFields
<1>4. Settled(M, j)
  BY <1>2, <1>3, StakeSettled
<1> QED BY <1>4 DEF M

\* A refund empties the escrow of the job: the payout percentage is at least
\* 100, so the amount due is never less than what is escrowed.
LEMMA FailurePaid ==
  ASSUME IInv, NEW j \in JobIds, jobs[j].state \in Live, NEW recipient, NEW vals,
         PayFailure(ledger, jobs[j], j, recipient, vals).ok
  PROVE  Settled(PayFailure(ledger, jobs[j], j, recipient, vals).ledger, j)
<1> DEFINE amount == Escrowed(jobs[j])
           u == jobs[j].agent
           R == ReleaseReward(ledger, j, jobs[j].employer, recipient, amount)
           L1 == IF jobs[j].reward > 0 THEN R ELSE ledger
           slash == jobs[j].stake > 0 /\ u # None
           P == PayFailure(ledger, jobs[j], j, recipient, vals)
<1>1. /\ LedgerTypeOK(ledger) /\ JobOK(j) /\ amount \in Nat
      /\ jobs[j].reward \in Nat /\ jobs[j].stake \in Nat
      /\ jobs[j].reward = 0 => amount = 0
  BY KnownJob, JobAmounts DEF JobType
<1>2. ledger.escrow[j] = amount
  BY <1>1 DEF JobOK
<1>3. slash => u \in Accounts
  BY <1>1, RegistryAssumption DEF JobOK, Live, Assigned
<1>4. /\ jobs[j].reward > 0 => CanReleaseReward(ledger, j, recipient, amount)
      /\ slash => CanSlash(L1, u, "Agent", jobs[j].stake)
      /\ P.ledger = IF slash THEN Slash(L1, u, "Agent", jobs[j].stake, recipient, vals, now)
                             ELSE L1
  BY DEF PayFailure
<1> HIDE DEF amount, u, P
<1>5. Settled(L1, j)
  <2>1. CASE jobs[j].reward > 0
    <3>1. CanReleaseReward(ledger, j, recipient, amount)
      BY <2>1, <1>4
    <3>2. LedgerTypeOK(R)
      BY <1>1, <3>1, ReleaseRewardEffect
    <3>3. EscrowSet(R, ledger, j, Monus(ledger.escrow[j], Pct(amount, PayoutPctOf(ledger, recipient))))
      BY <1>1, <3>1, ReleaseRewardEffect
    <3>4. PayoutPctOf(ledger, recipient) \in 100..200
      BY <1>1, PayoutPctType
    <3>5. Pct(amount, PayoutPctOf(ledger, recipient)) >= amount
      BY <1>1, <3>4, PctAtLeast
    <3>6. Pct(amount, PayoutPctOf(ledger, recipient)) \in Nat
      BY <1>1, <3>4, PctAtLeast
    <3>7. Monus(ledger.escrow[j], Pct(amount, PayoutPctOf(ledger, recipient))) = 0
      BY <1>1, <1>2, <3>5, <3>6 DEF Monus
    <3> QED BY <2>1, <3>2, <3>3, <3>7 DEF Settled
  <2>2. CASE ~(jobs[j].reward > 0)
    BY <1>1, <1>2, <2>2 DEF Settled, EscrowSet
  <2> QED BY <2>1, <2>2
<1> HIDE DEF L1, slash
<1>6. Settled(P.ledger, j)
  <2>1. CASE slash
    <3>1. u \in Accounts /\ CanSlash(L1, u, "Agent", jobs[j].stake)
      BY <2>1, <1>3, <1>4
    <3>2. Settled(Slash(L1, u, "Agent", jobs[j].stake, recipient, vals, now), j)
      BY <1>1, <1>5, <3>1, SlashSettled
    <3> QED BY <2>1, <1>4, <3>2
  <2>2. CASE ~slash
    BY <1>4, <1>5, <2>2
  <2> QED BY <2>1, <2>2
<1> QED BY <1>6 DEF P

\* A payment empties it too: finalizeJobFunds leaves the validators' part, and
\* distributeValidatorRewards takes exactly that.
LEMMA SuccessPaid ==
  ASSUME IInv, NEW j \in JobIds, jobs[j].state \in Assigned, NEW redirect \in BOOLEAN,
         PaySuccess(ledger, j, redirect).ok
  PROVE  Settled(PaySuccess(ledger, j, redirect).ledger, j)
<1> DEFINE job == jobs[j]
           vals == jobValidators[j]
           vr == IF Len(vals) > 0 THEN Pct(job.reward, pcts[2]) ELSE 0
           rest == job.reward - vr
           fee == IF RegistryFeePool THEN FeeOf(job) ELSE 0
           pct == IF job.agentPct = 0 THEN 100 ELSE job.agentPct
           payee == IF redirect THEN Treasury ELSE job.agent
           L1 == FinalizeJobFunds(ledger, j, job.employer, payee, pct, rest, vr, fee, RegistryFeePool)
           L2 == DistributeRewards(L1, j, vals, vr)
           L3 == IF job.stake = 0 THEN L2
                 ELSE IF redirect
                      THEN Slash(L2, job.agent, "Agent", job.stake, Treasury, vals, now)
                      ELSE ReleaseStake(L2, job.agent, job.stake)
           P == PaySuccess(ledger, j, redirect)
<1>1. /\ LedgerTypeOK(ledger) /\ JobOK(j) /\ job.reward \in Nat /\ job.stake \in Nat
      /\ pcts[2] \in 0..100
  BY KnownJob DEF JobType, IInv, TypeOK
<1>2. vr \in Nat /\ rest \in Nat /\ fee \in Nat
  <2>1. Pct(job.reward, pcts[2]) \in 0..job.reward
    BY <1>1, PctAtMost
  <2>2. FeeOf(job) \in Nat
    BY JobAmounts
  <2> QED BY <1>1, <2>1, <2>2
<1>3. pct \in 100..200 /\ job.agent \in Accounts
  BY <1>1, RegistryAssumption DEF JobOK
<1>4. /\ CanFinalizeJobFunds(ledger, j, pct, rest, vr, fee)
      /\ CanDistribute(L1, j, vals, vr)
      /\ job.stake > 0 => IF redirect
                          THEN CanSlash(L2, job.agent, "Agent", job.stake)
                          ELSE CanReleaseStake(L2, job.agent, job.stake)
      /\ P.ledger = L3
  BY DEF PaySuccess
<1> HIDE DEF vals, vr, rest, fee, pct, payee, P
<1>5. LedgerTypeOK(L1)
  BY <1>1, <1>2, <1>3, <1>4, FinalizeJobFundsEffect, RegistryAssumption
<1>6. EscrowSet(L1, ledger, j, vr)
  BY <1>1, <1>2, <1>3, <1>4, FinalizeJobFundsEffect, RegistryAssumption
<1> HIDE DEF L1
<1>7. LedgerTypeOK(L2)
  BY <1>2, <1>4, <1>5, DistributeRewardsEffect
<1>8. EscrowSet(L2, L1, j, L1.escrow[j] - vr)
  BY <1>2, <1>4, <1>5, DistributeRewardsEffect
<1> HIDE DEF L2
<1>9. Settled(L2, j)
  BY <1>2, <1>6, <1>7, <1>8 DEF Settled, EscrowSet
<1>10. Settled(L3, j)
  <2>1. CASE job.stake = 0
    BY <1>9, <2>1
  <2>2. CASE job.stake > 0 /\ redirect
    BY <1>1, <1>3, <1>4, <1>9, <2>2, SlashSettled
  <2>3. CASE job.stake > 0 /\ ~redirect
    BY <1>1, <1>3, <1>4, <1>9, <2>3, ReleaseSettled
  <2> QED BY <1>1, <2>1, <2>2, <2>3
<1> HIDE DEF L3
<1> QED BY <1>4, <1>10 DEF P
-----------------------------------------------------------------------------
(* Steps that post, assign and end a job. *)

LEMMA CreateMove ==
  ASSUME IInv, NEW e \in Employers, NEW w \in Rewards, NEW s \in JobStakes,
         NEW d \in Durations, CreateJob(e, w, s, d)
  PROVE  \E j \in JobIds : LocalMove(j)
<1> DEFINE job == [ state |-> "Created", employer |-> e, agent |-> None,
                    reward |-> w, stake |-> s, feePct |-> pcts[1],
                    agentPct |-> 100, deadline |-> now + d,
                    success |-> FALSE, burnConfirmed |-> FALSE ]
<1>1. PICK j \in JobIds :
      /\ j = nextJobId + 1
      /\ nextJobId' = j
      /\ jobs' = [jobs EXCEPT ![j] = job]
      /\ ledger' = IF w > 0 THEN LockReward(ledger, j, e, Escrowed(job)) ELSE ledger
      /\ UNCHANGED <<burnReceipts, startPending, starts, jobValidators, repProcessed,
                     disputeOpen, activeJobs, stats, config>>
  BY DEF CreateJob
<1> DEFINE L == LockReward(ledger, j, e, Escrowed(job))
<1>2. /\ e \in Accounts /\ w \in Nat /\ s \in Nat /\ d \in Nat /\ pcts[1] \in 0..100
      /\ now \in Nat /\ nextJobId \in Nat /\ JobIds \subseteq Nat
  BY RegistryAssumption DEF IInv, TypeOK
<1>2a. j > nextJobId
  BY <1>1, <1>2
<1>3. JobOK(j) /\ jobs[j].state = "None" /\ LedgerTypeOK(ledger) /\ jobs \in [JobIds -> JobType]
  <2>1. JobOK(j) /\ LedgerTypeOK(ledger) /\ jobs \in [JobIds -> JobType]
    BY KnownJob DEF IInv, TypeOK
  <2>2. j > nextJobId => jobs[j].state = "None"
    BY <2>1 DEF JobOK
  <2> QED BY <1>2a, <2>1, <2>2
<1>4. job \in JobType
  BY <1>2 DEF JobType, States
<1>5. Escrowed(job) \in Nat /\ (w = 0 => Escrowed(job) = 0)
  <2>1. Pct(w, pcts[1]) \in 0..w
    BY <1>2, PctAtMost
  <2>2. Escrowed(job) = w + Pct(w, pcts[1])
    BY DEF Escrowed, FeeOf
  <2> QED BY <1>2, <2>1, <2>2
<1>6. jobs' \in [JobIds -> JobType] /\ jobs'[j] = job
  <2> HIDE DEF job
  <2> QED BY <1>1, <1>3, <1>4
<1>7. LedgerTypeOK(ledger') /\ EscrowSet(ledger', ledger, j, Escrowed(job))
  <2> HIDE DEF job
  <2>1. ledger.escrow[j] = 0
    BY <1>3 DEF JobOK, Live, Assigned
  <2>2. CASE w > 0
    <3>1. LedgerTypeOK(L)
      BY <1>1, <1>2, <1>3, <1>5, LockRewardEffect
    <3>2. EscrowSet(L, ledger, j, ledger.escrow[j] + Escrowed(job))
      BY <1>1, <1>2, <1>3, <1>5, LockRewardEffect
    <3> QED BY <1>1, <1>5, <2>1, <2>2, <3>1, <3>2
  <2>3. CASE ~(w > 0)
    BY <1>1, <1>2, <1>3, <1>5, <2>1, <2>3 DEF EscrowSet
  <2> QED BY <2>2, <2>3
<1>8. TypeOK'
  BY <1>1, <1>2, <1>6, <1>7 DEF IInv, TypeOK, config
<1>9. Others(j)
  BY <1>1, <1>3, <1>7 DEF Others, EscrowSet
<1>10. JobOK(j)'
  <2>1. Escrowed(jobs[j])' = Escrowed(job)
    BY <1>6 DEF Escrowed, FeeOf
  <2>2. ledger'.escrow[j] = Escrowed(job)
    BY <1>1, <1>7 DEF EscrowSet
  <2>3. /\ jobs'[j].state = "Created" /\ jobs'[j].employer = e /\ jobs'[j].agent = None
    BY <1>6
  <2>4. /\ starts'[j] = 0 /\ j \notin startPending' /\ j \notin disputeOpen'
        /\ jobValidators'[j] = <<>>
    BY <1>1, <1>3 DEF JobOK
  <2>5. ~(j > nextJobId')
    BY <1>1, <1>2
  <2> HIDE DEF job
  <2> QED BY <1>2, <2>1, <2>2, <2>3, <2>4, <2>5 DEF JobOK, Live, Assigned
<1>11. ActiveMove(j) /\ StatsMove(j) /\ Lived(j)
  BY <1>1, <1>3, <1>6 DEF ActiveMove, StatsMove, Lived, Assigned
<1>12. nextJobId' >= nextJobId
  BY <1>1, <1>2
<1>13. LocalMove(j)
  BY <1>8, <1>9, <1>10, <1>11, <1>12 DEF LocalMove
<1> QED BY <1>13

LEMMA ApplyMove ==
  ASSUME IInv, NEW j \in JobIds, NEW a \in Agents, ApplyForJob(a, j)
  PROVE  LocalMove(j)
<1> DEFINE job == jobs[j]
           until == IF job.deadline > now THEN job.deadline ELSE now
           L == LockStake(ledger, a, job.stake, until)
<1>1. /\ job.state = "Created"
      /\ ledger' = IF job.stake > 0 THEN L ELSE ledger
      /\ jobs' = [jobs EXCEPT ![j].agent = a, ![j].state = "Applied",
                             ![j].agentPct = ledger.payoutPct[a]]
      /\ activeJobs' = [activeJobs EXCEPT ![a] = @ + 1]
      /\ UNCHANGED <<nextJobId, burnReceipts, startPending, starts, jobValidators,
                     repProcessed, disputeOpen, stats, config>>
  BY DEF ApplyForJob
<1>2. /\ LedgerTypeOK(ledger) /\ JobOK(j) /\ jobs \in [JobIds -> JobType] /\ a \in Accounts
      /\ job.stake \in Nat /\ until \in Nat /\ job \in JobType /\ nextJobId \in Nat
  <2>1. /\ LedgerTypeOK(ledger) /\ jobs \in [JobIds -> JobType] /\ nextJobId \in Nat /\ now \in Nat
    BY DEF IInv, TypeOK
  <2>2. job \in JobType
    BY <2>1
  <2>3. job.stake \in Nat /\ job.deadline \in Nat
    BY <2>2 DEF JobType
  <2>4. JobOK(j) /\ a \in Accounts
    BY KnownJob, RegistryAssumption DEF IInv, JobsOK
  <2>5. until \in Nat
    BY <2>1, <2>3
  <2> QED BY <2>1, <2>2, <2>3, <2>4, <2>5
<1>3. ledger.payoutPct[a] \in 100..200
  BY <1>2 DEF LedgerTypeOK
<1> DEFINE m == [job EXCEPT !.agent = a]
           o == [m EXCEPT !.state = "Applied"]
           n == [o EXCEPT !.agentPct = ledger.payoutPct[a]]
<1>4. jobs' = [jobs EXCEPT ![j] = n]
  BY <1>1, <1>2
<1>5. n \in JobType
  <2>1. m \in JobType
    BY <1>2 DEF JobType
  <2>2. o \in JobType
    <3> HIDE DEF m
    <3> QED BY <2>1 DEF JobType, States
  <2> HIDE DEF o
  <2> QED BY <1>3, <2>2 DEF JobType
<1>6. /\ n.success = job.success
      /\ n.state = "Applied" /\ n.agent = a /\ n.employer = job.employer /\ n.reward = job.reward
      /\ n.feePct = job.feePct /\ n.agentPct = ledger.payoutPct[a]
  BY <1>2 DEF JobType
<1> HIDE DEF n
<1>7. jobs' \in [JobIds -> JobType] /\ jobs'[j] = n /\ \A k \in JobIds \ {j} : jobs'[k] = jobs[k]
  BY <1>2, <1>4, <1>5
<1>8. LedgerTypeOK(ledger') /\ ledger'.escrow = ledger.escrow
  <2> HIDE DEF until
  <2>1. LedgerTypeOK(L) /\ SameBut(L, ledger, LockFields)
    BY <1>2, LockStakeEffect
  <2> HIDE DEF L
  <2>2. L.escrow = ledger.escrow
    BY <2>1 DEF SameBut, LockFields, LedgerFields
  <2> QED BY <1>1, <1>2, <2>1, <2>2
<1>9. TypeOK'
  <2>1. activeJobs' \in [Accounts -> Nat]
    BY <1>1, <1>2 DEF IInv, TypeOK
  <2> QED BY <1>1, <1>7, <1>8, <2>1 DEF IInv, TypeOK, config
<1>10. Others(j)
  BY <1>1, <1>7, <1>8 DEF Others
<1>11. JobOK(j)'
  <2>1. Escrowed(jobs[j])' = Escrowed(jobs[j])
    BY <1>6, <1>7 DEF Escrowed, FeeOf
  <2>2. /\ jobs'[j].state = "Applied" /\ jobs'[j].agent = a /\ jobs'[j].employer = jobs[j].employer
        /\ jobs'[j].agentPct \in 100..200
    BY <1>3, <1>6, <1>7
  <2> QED BY <1>1, <1>2, <1>8, <2>1, <2>2 DEF JobOK, Live, Assigned
<1>12. ActiveMove(j) /\ StatsMove(j)
  BY <1>1, <1>6, <1>7 DEF ActiveMove, StatsMove, Assigned
<1>13. Lived(j)
  BY <1>1, <1>6, <1>7 DEF Lived, Escrowed, FeeOf
<1> QED BY <1>1, <1>2, <1>9, <1>10, <1>11, <1>12, <1>13 DEF LocalMove

\* What every end of a job does to the rest of its state.
Ended(j, final, ok) ==
  /\ jobs' \in [JobIds -> JobType]
  /\ \A k \in JobIds \ {j} : jobs'[k] = jobs[k]
  /\ jobs'[j].state = final
  /\ jobs'[j].employer = jobs[j].employer
  /\ jobs'[j].success = ok
  /\ startPending' \subseteq startPending /\ startPending \ {j} \subseteq startPending'
  /\ ClearJob(j)
  /\ UNCHANGED <<nextJobId, burnReceipts, starts, disputeOpen, config>>

LEMMA EndMove ==
  ASSUME IInv, NEW j \in JobIds, NEW final \in {"Finalized", "Cancelled"}, NEW ok \in BOOLEAN,
         Ended(j, final, ok), Settled(ledger', j),
         \/ /\ jobs[j].state = "Created" /\ final = "Cancelled"
            /\ ok = jobs[j].success
            /\ UNCHANGED <<activeJobs, stats>>
         \/ /\ final = "Finalized"
            /\ \/ jobs[j].state = "Completed" /\ ok = jobs[j].success
               \/ jobs[j].state = "Applied" /\ ~ok
            /\ activeJobs' = Released(jobs[j].agent)
            /\ stats' = Counted(jobs[j].employer, ok)
  PROVE  LocalMove(j)
<1>1. /\ JobOK(j) /\ LedgerTypeOK(ledger) /\ nextJobId \in Nat
      /\ jobValidators \in [JobIds -> Seq(Validators)] /\ <<>> \in Seq(Validators)
  BY KnownJob DEF IInv, TypeOK
<1>2. j \notin startPending /\ j \notin disputeOpen
  BY <1>1 DEF JobOK
<1>2a. /\ activeJobs \in [Accounts -> Nat]
       /\ stats \in [Accounts -> [successful : Nat, failed : Nat]]
  BY DEF IInv, TypeOK
<1>3. activeJobs' \in [Accounts -> Nat]
  BY <1>2a DEF Released
<1>4. stats' \in [Accounts -> [successful : Nat, failed : Nat]]
  BY <1>2a DEF Counted
<1>5. TypeOK'
  BY <1>1, <1>3, <1>4 DEF IInv, TypeOK, Ended, Settled, ClearJob, config
<1>6. Others(j)
  BY <1>1 DEF Others, Ended, ClearJob, Settled, EscrowSet
<1>7. JobOK(j)'
  BY <1>1, <1>2 DEF JobOK, Ended, ClearJob, Settled, EscrowSet, Live, Assigned
<1>8. ActiveMove(j)
  BY DEF ActiveMove, Ended, Assigned
<1>9. StatsMove(j)
  BY <1>1 DEF StatsMove, Ended, JobOK
<1>10. Lived(j)
  BY DEF Lived, Ended
<1> QED BY <1>1, <1>5, <1>6, <1>7, <1>8, <1>9, <1>10 DEF LocalMove, Ended

LEMMA SettlementSettled ==
  ASSUME IInv, NEW j \in JobIds, jobs[j].state \in Assigned, NEW success \in BOOLEAN,
         NEW byGov \in BOOLEAN, Settlement(j, success, byGov).ok
  PROVE  Settled(Settlement(j, success, byGov).ledger, j)
<1> DEFINE redirect == byGov /\ TreasurySet
                         /\ (IF success THEN jobs[j].agent ELSE jobs[j].employer) \in blacklist
           to == IF redirect THEN Treasury ELSE jobs[j].employer
<1>1. redirect \in BOOLEAN
  OBVIOUS
<1>2. Settlement(j, success, byGov) =
        IF success THEN PaySuccess(ledger, j, redirect)
        ELSE PayFailure(ledger, jobs[j], j, to, jobValidators[j])
  BY DEF Settlement
<1> HIDE DEF redirect, to
<1>3. CASE success
  BY <1>1, <1>2, <1>3, SuccessPaid
<1>4. CASE ~success
  BY <1>2, <1>4, FailurePaid DEF Live
<1> QED BY <1>3, <1>4

LEMMA FinalizeMove ==
  ASSUME IInv, NEW j \in JobIds, NEW byGov \in BOOLEAN, Finalize(j, byGov)
  PROVE  LocalMove(j)
<1>1. jobs[j].state = "Completed" /\ jobs[j].success \in BOOLEAN
  BY KnownJob DEF Finalize, JobType
<1>2. Settled(ledger', j)
  BY <1>1, SettlementSettled DEF Finalize, Assigned
<1>3. Moved(j, "Finalized") /\ jobs'[j].success = jobs[j].success
  BY StatusMoved DEF Finalize, States
<1>4. Ended(j, "Finalized", jobs[j].success)
  BY <1>3 DEF Ended, Moved, Finalize
<1>5. activeJobs' = Released(jobs[j].agent) /\ stats' = Counted(jobs[j].employer, jobs[j].success)
  BY DEF Finalize
<1>6. PICK b \in BOOLEAN : b = jobs[j].success
  BY <1>1
<1>7. /\ Ended(j, "Finalized", b)
      /\ stats' = Counted(jobs[j].employer, b)
  BY <1>4, <1>5, <1>6
<1> QED BY <1>1, <1>2, <1>5, <1>6, <1>7, EndMove

LEMMA CancelExpiredMove ==
  ASSUME IInv, NEW j \in JobIds, NEW byGov \in BOOLEAN, CancelExpiredJob(j, byGov)
  PROVE  LocalMove(j)
<1>1. jobs[j].state = "Applied"
  BY DEF CancelExpiredJob
<1>2. Settled(ledger', j)
  BY <1>1, SettlementSettled DEF CancelExpiredJob, Assigned
<1>3. Moved(j, "Finalized") /\ jobs'[j].success = FALSE
  BY DecidedMoved DEF CancelExpiredJob, States
<1>4. Ended(j, "Finalized", FALSE)
  BY <1>3 DEF Ended, Moved, CancelExpiredJob
<1>5. activeJobs' = Released(jobs[j].agent) /\ stats' = Counted(jobs[j].employer, FALSE)
  BY DEF CancelExpiredJob
<1> QED BY <1>1, <1>2, <1>4, <1>5, EndMove

LEMMA ClaimTimeoutMove ==
  ASSUME IInv, NEW j \in JobIds, ClaimTimeout(j)
  PROVE  LocalMove(j)
<1>1. jobs[j].state = "Applied" /\ jobs[j] \in JobType /\ jobs \in [JobIds -> JobType]
  BY KnownJob DEF ClaimTimeout, IInv, TypeOK
<1>2. Settled(ledger', j)
  BY <1>1, FailurePaid DEF ClaimTimeout, Assigned, Live
<1> DEFINE a == [jobs[j] EXCEPT !.state = "Finalized"]
           b == [a EXCEPT !.success = FALSE]
           c == [b EXCEPT !.agent = None]
           d == [c EXCEPT !.agentPct = 0]
           e == [d EXCEPT !.reward = 0]
           f == [e EXCEPT !.stake = 0]
           n == [f EXCEPT !.burnConfirmed = FALSE]
<1>3. jobs' = [jobs EXCEPT ![j] = n]
  BY <1>1 DEF ClaimTimeout
<1>4. n.state = "Finalized" /\ n.employer = jobs[j].employer /\ n.success = FALSE
  BY <1>1 DEF JobType
<1>5. c \in JobType
  <2>1. a \in JobType
    BY <1>1 DEF JobType, States
  <2> HIDE DEF a
  <2>2. b \in JobType
    <3>1. FALSE \in BOOLEAN
      OBVIOUS
    <3> QED BY <2>1, <3>1, FlagsSet
  <2> HIDE DEF b
  <2> QED BY <2>2 DEF JobType
<1>6. n \in JobType
  <2> HIDE DEF c
  <2>1. d \in JobType
    BY <1>5 DEF JobType
  <2> HIDE DEF d
  <2>2. e \in JobType
    BY <2>1 DEF JobType
  <2> HIDE DEF e
  <2>3. f \in JobType
    BY <2>2 DEF JobType
  <2> HIDE DEF f
  <2>4. FALSE \in BOOLEAN
    OBVIOUS
  <2> QED BY <2>3, <2>4, FlagsSet
<1> HIDE DEF n
<1>7. Ended(j, "Finalized", FALSE)
  <2>1. jobs' \in [JobIds -> JobType] /\ jobs'[j] = n /\ \A k \in JobIds \ {j} : jobs'[k] = jobs[k]
    BY <1>1, <1>3, <1>6
  <2>2. startPending' = startPending /\ ClearJob(j)
        /\ UNCHANGED <<nextJobId, burnReceipts, starts, disputeOpen, config>>
    BY DEF ClaimTimeout
  <2> QED BY <1>4, <2>1, <2>2 DEF Ended
<1>8. activeJobs' = Released(jobs[j].agent) /\ stats' = Counted(jobs[j].employer, FALSE)
  BY DEF ClaimTimeout
<1> QED BY <1>1, <1>2, <1>7, <1>8, EndMove

LEMMA CancelMove ==
  ASSUME IInv, NEW j \in JobIds, NEW byGov \in BOOLEAN, CancelJob(j, byGov)
  PROVE  LocalMove(j)
<1>1. jobs[j].state = "Created" /\ jobs[j].success \in BOOLEAN
  BY KnownJob DEF CancelJob, JobType
<1>2. Settled(ledger', j)
  BY <1>1, FailurePaid DEF CancelJob, Live
<1>3. Moved(j, "Cancelled") /\ jobs'[j].success = jobs[j].success
  BY StatusMoved DEF CancelJob, States
<1>4. PICK b \in BOOLEAN : b = jobs[j].success
  BY <1>1
<1>5. Ended(j, "Cancelled", b)
  BY <1>3, <1>4 DEF Ended, Moved, CancelJob
<1>6. UNCHANGED <<activeJobs, stats>>
  BY DEF CancelJob
<1> QED BY <1>1, <1>2, <1>4, <1>5, <1>6, EndMove
-----------------------------------------------------------------------------
(* Steps that concern no job. *)

LEMMA StakingKeeps ==
  ASSUME IInv, Staking
  PROVE  Kept
<1>1. PICK u \in Agents \cup Validators, amount \in Deposits, r \in {"Agent", "Validator"} :
        DepositStake(u, r, amount) \/ WithdrawStake(u, r, amount)
  BY DEF Staking
<1>2. /\ u \in Accounts /\ amount \in Nat /\ r \in Roles /\ LedgerTypeOK(ledger) /\ now \in Nat
  BY RegistryAssumption DEF Roles, IInv, TypeOK
<1>3. UNCHANGED <<registryVars, config>>
  BY <1>1 DEF DepositStake, WithdrawStake
<1>4. LedgerTypeOK(ledger') /\ ledger'.escrow = ledger.escrow
  <2>1. CASE DepositStake(u, r, amount)
    <3>1. LedgerTypeOK(ledger') /\ SameBut(ledger', ledger, StakeFields \cup TokenFields)
      BY <1>2, <2>1, DepositEffect DEF DepositStake
    <3> QED BY <3>1 DEF SameBut, StakeFields, TokenFields, LedgerFields
  <2>2. CASE WithdrawStake(u, r, amount)
    <3>1. LedgerTypeOK(ledger')
      BY <1>2, <2>2, WithdrawEffect DEF WithdrawStake
    <3>2. SameBut(ledger', ledger, StakeFields \cup LockFields \cup TokenFields)
      BY <1>2, <2>2, WithdrawEffect DEF WithdrawStake
    <3> QED BY <3>1, <3>2 DEF SameBut, StakeFields, LockFields, TokenFields, LedgerFields
  <2> QED BY <1>1, <2>1, <2>2
<1>5. TypeOK'
  BY <1>3, <1>4 DEF IInv, TypeOK, registryVars, config
<1> QED BY <1>3, <1>4, <1>5, IdleKeeps DEF registryVars

LEMMA GovernanceKeeps ==
  ASSUME IInv, Governance
  PROVE  Kept
<1>0. LedgerTypeOK(ledger)
  BY DEF IInv, TypeOK
<1>1. ASSUME NEW p \in FeeRewardPcts, SetPcts(p) PROVE Kept
  <2>1. p \in (0..100) \X (0..100)
    BY RegistryAssumption
  <2>2. TypeOK'
    BY <1>1, <2>1 DEF SetPcts, registryVars, IInv, TypeOK
  <2> QED BY <1>1, <2>2, IdleKeeps DEF SetPcts, registryVars
<1>2. ASSUME NEW b \in BurnPcts, SetBurnPct(b) PROVE Kept
  <2>1. b \in 0..100
    BY RegistryAssumption
  <2>2. LedgerTypeOK(ledger') /\ ledger'.escrow = ledger.escrow
    BY <1>0, <1>2, <2>1 DEF SetBurnPct, LedgerTypeOK, LedgerFields
  <2>3. TypeOK'
    BY <1>2, <2>2 DEF SetBurnPct, registryVars, config, IInv, TypeOK
  <2> QED BY <1>2, <2>2, <2>3, IdleKeeps DEF SetBurnPct, registryVars
<1>3. ASSUME NEW u \in Employers, NEW amount \in Deposits, FundRewardPool(u, amount) PROVE Kept
  <2> DEFINE C == Collect(ledger, u, amount)
  <2>1. u \in Accounts /\ amount \in Nat
    BY RegistryAssumption
  <2>2. LedgerTypeOK(C) /\ SameBut(C, ledger, TokenFields)
    BY <1>0, <2>1, CollectEffect
  <2>3. ledger' = [C EXCEPT !.rewardPool = @ + amount]
    BY <1>3 DEF FundRewardPool
  <2> HIDE DEF C
  <2>3a. LedgerTypeOK(ledger') /\ SameBut(ledger', ledger, {"rewardPool"} \cup TokenFields)
    BY <2>1, <2>2, <2>3 DEF LedgerTypeOK, LedgerFields, SameBut
  <2>4. LedgerTypeOK(ledger') /\ ledger'.escrow = ledger.escrow
    BY <2>3a DEF SameBut, LedgerFields, TokenFields
  <2>5. TypeOK'
    BY <1>3, <2>4 DEF FundRewardPool, registryVars, config, IInv, TypeOK
  <2> QED BY <1>3, <2>4, <2>5, IdleKeeps DEF FundRewardPool, registryVars
<1> QED BY <1>1, <1>2, <1>3 DEF Governance

LEMMA EnvironmentKeeps ==
  ASSUME IInv, Environment
  PROVE  Kept
<1>0. LedgerTypeOK(ledger) /\ now \in Nat
  BY DEF IInv, TypeOK
<1>1. ASSUME NEW u \in Blacklistable, SetBlacklist(u) PROVE Kept
  <2>1. blacklist' \subseteq Accounts
    BY <1>1, RegistryAssumption DEF SetBlacklist, IInv, TypeOK
  <2>2. TypeOK'
    BY <1>1, <2>1 DEF SetBlacklist, registryVars, IInv, TypeOK
  <2> QED BY <1>1, <2>2, IdleKeeps DEF SetBlacklist, registryVars
<1>2. ASSUME NEW u \in Accounts, NEW pct \in PayoutPcts, NFTTransfer(u, pct) PROVE Kept
  <2>1. pct \in 100..200
    BY RegistryAssumption
  <2>2. LedgerTypeOK(ledger') /\ ledger'.escrow = ledger.escrow
    BY <1>0, <1>2, <2>1 DEF NFTTransfer, LedgerTypeOK, LedgerFields
  <2>3. TypeOK'
    BY <1>2, <2>2 DEF NFTTransfer, registryVars, config, IInv, TypeOK
  <2> QED BY <1>2, <2>2, <2>3, IdleKeeps DEF NFTTransfer, registryVars
<1>3. CASE Tick
  <2>1. TypeOK'
    BY <1>0, <1>3 DEF Tick, registryVars, IInv, TypeOK
  <2> QED BY <1>3, <2>1, IdleKeeps DEF Tick, registryVars
<1> QED BY <1>1, <1>2, <1>3 DEF Environment

LEMMA RecordKeeps ==
  ASSUME IInv, NEW j \in JobIds, SubmitBurnReceipt(j) \/ MarkReputationProcessed(j)
  PROVE  Kept
<1>1. TypeOK'
  BY DEF SubmitBurnReceipt, MarkReputationProcessed, config, IInv, TypeOK
<1> QED BY <1>1, IdleKeeps DEF SubmitBurnReceipt, MarkReputationProcessed
-----------------------------------------------------------------------------
(* The inductive invariant. *)

LEMMA InitInv == Init => IInv
<1> SUFFICES ASSUME Init PROVE IInv
  OBVIOUS
<1>1. PICK b \in BurnPcts :
        ledger = [EmptyLedger(Funds, InitialPcts, 1) EXCEPT !.burnPct = b]
  BY DEF Init
<1>2. b \in 0..100 /\ Funds \in [Accounts -> Nat] /\ InitialPcts \in [Accounts -> 100..200]
  BY RegistryAssumption
<1>3. LedgerTypeOK(ledger) /\ \A j \in JobIds : ledger.escrow[j] = 0
  BY <1>1, <1>2, LedgerAssumption DEF EmptyLedger, LedgerTypeOK, LedgerFields, NoUnbond
<1>4. NoJob \in JobType
  BY DEF NoJob, JobType, States
<1>5. \A j \in JobIds : jobs[j] = NoJob /\ NoJob.state = "None" /\ ~NoJob.success
  BY DEF Init, NoJob
<1>6. TypeOK
  <2>1. pcts \in (0..100) \X (0..100)
    BY RegistryAssumption DEF Init
  <2>2. <<>> \in Seq(Validators)
    OBVIOUS
  <2> QED BY <1>3, <1>4, <2>1, <2>2 DEF Init, TypeOK
<1>7. JobsOK
  BY <1>3, <1>5 DEF Init, JobsOK, JobOK, Live, Assigned
<1>8. ActiveJobsExact
  <2>1. \A a \in Accounts : {j \in JobIds : jobs[j].agent = a /\ jobs[j].state \in Assigned} = {}
    BY <1>5 DEF Assigned
  <2> QED BY <2>1, FS_EmptySet DEF ActiveJobsExact, Init
<1>9. StatsExact
  <2>1. \A e \in Accounts :
          /\ {j \in JobIds : jobs[j].employer = e /\ jobs[j].state = "Finalized" /\ jobs[j].success} = {}
          /\ {j \in JobIds : jobs[j].employer = e /\ jobs[j].state = "Finalized" /\ ~jobs[j].success} = {}
    BY <1>5
  <2> QED BY <2>1, FS_EmptySet DEF StatsExact, Init
<1> QED BY <1>6, <1>7, <1>8, <1>9 DEF IInv

LEMMA ParticipantKeeps ==
  ASSUME IInv, NEW j \in JobIds, Participant(j)
  PROVE  Kept
<1>1. CASE \E a \in Agents : ApplyForJob(a, j)
  BY <1>1, ApplyMove, LocalMoveKeeps
<1>2. CASE Submit(j)
  BY <1>2, SubmitMove, LocalMoveKeeps
<1>3. CASE SubmitBurnReceipt(j)
  BY <1>3, RecordKeeps
<1>4. CASE ConfirmEmployerBurn(j)
  BY <1>4, ConfirmKeeps
<1>5. CASE \E u \in Employers \cup Agents : Dispute(j, u)
  BY <1>5, DisputeMove, LocalMoveKeeps
<1>6. CASE \E byGov \in BOOLEAN : Finalize(j, byGov)
  BY <1>6, FinalizeMove, LocalMoveKeeps
<1>7. CASE \E byGov \in BOOLEAN : CancelExpiredJob(j, byGov)
  BY <1>7, CancelExpiredMove, LocalMoveKeeps
<1>8. CASE \E byGov \in BOOLEAN : CancelJob(j, byGov)
  BY <1>8, CancelMove, LocalMoveKeeps
<1>9. CASE ClaimTimeout(j)
  BY <1>9, ClaimTimeoutMove, LocalMoveKeeps
<1> QED BY <1>1, <1>2, <1>3, <1>4, <1>5, <1>6, <1>7, <1>8, <1>9 DEF Participant

LEMMA ModuleKeeps ==
  ASSUME IInv, NEW j \in JobIds, Module(j)
  PROVE  Kept
<1>1. CASE MarkReputationProcessed(j)
  BY <1>1, RecordKeeps
<1>2. CASE \/ \E ok \in BOOLEAN, vals \in ValidatorLists : OnValidationResult(j, ok, vals)
           \/ \E ok \in BOOLEAN : ValidationComplete(j, ok) \/ ResolveDispute(j, ok)
           \/ ForceFinalize(j)
  BY <1>2, JudgeMove, LocalMoveKeeps
<1> QED BY <1>1, <1>2 DEF Module

LEMMA Step == IInv /\ [Next]_vars => Kept
<1> SUFFICES ASSUME IInv, [Next]_vars PROVE Kept
  OBVIOUS
<1>1. CASE UNCHANGED vars
  <2>1. TypeOK'
    BY <1>1 DEF vars, IInv, TypeOK
  <2> QED BY <1>1, <2>1, IdleKeeps DEF vars
<1>2. CASE \E e \in Employers, w \in Rewards, s \in JobStakes, d \in Durations :
             CreateJob(e, w, s, d)
  BY <1>2, CreateMove, LocalMoveKeeps
<1>3. CASE \E j \in JobIds : Participant(j) \/ Module(j)
  BY <1>3, ParticipantKeeps, ModuleKeeps
<1>4. CASE Staking
  BY <1>4, StakingKeeps
<1>5. CASE Governance
  BY <1>5, GovernanceKeeps
<1>6. CASE Environment
  BY <1>6, EnvironmentKeeps
<1> QED BY <1>1, <1>2, <1>3, <1>4, <1>5, <1>6 DEF Next
-----------------------------------------------------------------------------
(* The theorems. *)

\* The invariant holds in every reachable state.
LEMMA AlwaysIInv == Spec => []IInv
<1>1. IInv /\ [Next]_vars => IInv'
  BY Step DEF Kept
<1> QED BY <1>1, InitInv, PTL DEF Spec

\* Every reachable state of the JobRegistry, with whatever its settlements did
\* at the StakeManager, has the types of TypeOK.
THEOREM RegistryTypeCorrect == Spec => []TypeOK
<1>1. IInv => TypeOK
  BY DEF IInv
<1> QED BY <1>1, AlwaysIInv, PTL

\* For any rewards, fees, bonuses, burn and validator percentages, each of the
\* settlement paths of JobRegistry.sol empties the escrow of its job and leaves
\* the escrows of all other jobs alone.
THEOREM EscrowAlwaysMatches == Spec => []EscrowMatchesJobs
<1>1. IInv => EscrowMatchesJobs
  BY DEF IInv, JobsOK, JobOK, EscrowMatchesJobs
<1> QED BY <1>1, AlwaysIInv, PTL

\* activeJobs of an agent is the number of its unfinished jobs, for any number
\* of jobs and agents.
THEOREM ActiveJobsAlwaysExact == Spec => []ActiveJobsExact
<1>1. IInv => ActiveJobsExact
  BY DEF IInv
<1> QED BY <1>1, AlwaysIInv, PTL

\* employerStats counts every finalized job once under its outcome.
THEOREM StatsAlwaysExact == Spec => []StatsExact
<1>1. IInv => StatsExact
  BY DEF IInv
<1> QED BY <1>1, AlwaysIInv, PTL

\* Validation starts at most once for a job, burn evidence or not.
THEOREM ValidationAlwaysStartsOnce == Spec => []ValidationStartsOnce
<1>1. IInv => ValidationStartsOnce
  BY DEF IInv, JobsOK, JobOK, ValidationStartsOnce
<1> QED BY <1>1, AlwaysIInv, PTL

\* The job of an open dispute is Disputed, so a ruling is never refused.
THEOREM DisputesAlwaysResolvable == Spec => []OpenDisputesResolvable
<1>1. IInv => OpenDisputesResolvable
  BY DEF IInv, TypeOK, JobsOK, JobOK, OpenDisputesResolvable
<1> QED BY <1>1, AlwaysIInv, PTL

\* No settlement meets the validators of an earlier round.
THEOREM ValidatorsNeverStale == Spec => []NoStaleValidators
<1>1. IInv => NoStaleValidators
  BY DEF IInv, JobsOK, JobOK, NoStaleValidators
<1> QED BY <1>1, AlwaysIInv, PTL

\* JobRegistry implements JobLifecycle: the settlements, modules, fees and
\* blacklists never take a job where the abstract life of a job does not go,
\* nor touch its escrow between its posting and its end.
THEOREM RegistryImplementsLifecycle == Spec => ImplementsLifecycle
<1>1. Init => Lifecycle!Start
  <2> SUFFICES ASSUME Init PROVE Lifecycle!Start
    OBVIOUS
  <2>1. ledger.escrow = [j \in JobIds |-> 0]
    BY DEF Init, EmptyLedger
  <2> QED BY <2>1 DEF Init, Lifecycle!Start, NoJob, Assigned
<1>2. IInv /\ [Next]_vars => [\E j \in JobIds : Lifecycle!Step(j)]_Lifecycle!lifecycleVars
  BY Step DEF Kept, LifeStep
<1>3. Spec => Lifecycle!Lives
  BY <1>1, <1>2, AlwaysIInv, PTL DEF Spec, Lifecycle!Lives
<1> QED BY <1>3 DEF ImplementsLifecycle
-----------------------------------------------------------------------------
(* The tokens behind the jobs. *)

\* The ledger the registry works with: no token missing or left over, no
\* StakeManager fee (the registry takes its own) and a treasury that slashing
\* can pay.
Vault ==
  /\ Sound(ledger)
  /\ Free(ledger) = 0
  /\ ledger.feePct = 0
  /\ ledger.treasuryOk

\* M comes from L by calls that move tokens between the accounts of the ledger
\* and out of it, and configure nothing but percentages.
Traded(M, L) ==
  /\ Sound(M)
  /\ Free(M) = Free(L)
  /\ M.feePct = L.feePct
  /\ M.treasuryOk = L.treasuryOk

LEMMA TradedChain ==
  ASSUME NEW L, NEW N, Traded(N, L), NEW M, Traded(M, N)
  PROVE  Traded(M, L)
BY DEF Traded

LEMMA TradedSelf == ASSUME NEW L, Sound(L) PROVE Traded(L, L)
BY DEF Traded

\* Books that balance, with the two parameters among the fields left alone.
LEMMA BooksTraded ==
  ASSUME NEW L, Sound(L), NEW M, Books(M, L, 0), NEW fields, SameBut(M, L, fields),
         "feePct" \notin fields, "treasuryOk" \notin fields
  PROVE  Traded(M, L)
<1>1. Sound(M) /\ Free(M) = Free(L) + 0
  BY DEF Books
<1>2. Free(L) \in Int
  BY SoundSums
<1>3. Free(M) = Free(L)
  BY <1>1, <1>2
<1>4. M["feePct"] = L["feePct"] /\ M["treasuryOk"] = L["treasuryOk"]
  BY DEF SameBut, LedgerFields
<1>5. M.feePct = L.feePct
  BY <1>4
<1>6. M.treasuryOk = L.treasuryOk
  BY <1>4
<1> QED BY <1>1, <1>3, <1>5, <1>6 DEF Traded

LEMMA VaultKept ==
  ASSUME Vault, Traded(ledger', ledger)
  PROVE  Vault'
BY DEF Vault, Traded

LEMMA VaultUnchanged == ASSUME Vault, ledger' = ledger PROVE Vault'
BY DEF Vault
-----------------------------------------------------------------------------
(* The calls of a settlement. *)

LEMMA SlashTraded ==
  ASSUME NEW L, Sound(L), NEW u \in Accounts, NEW amount \in Nat, NEW recipient,
         NEW vals \in Seq(Accounts), now \in Nat, CanSlash(L, u, "Agent", amount)
  PROVE  Traded(Slash(L, u, "Agent", amount, recipient, vals, now), L)
<1> DEFINE M == Slash(L, u, "Agent", amount, recipient, vals, now)
<1>1. LedgerTypeOK(L) /\ "Agent" \in Roles
  BY SoundParts DEF Roles
<1>2. Books(M, L, 0)
  BY <1>1, SlashBooks
<1>3. SlashedFrom(M, L, u, "Agent", amount, now)
  BY <1>1, SlashEffect
<1> DEFINE fields == StakeFields \cup LockFields \cup TokenFields \cup {"unbonds"}
<1>4. SameBut(M, L, fields)
  BY <1>3 DEF SlashedFrom
<1>5. "feePct" \notin fields /\ "treasuryOk" \notin fields
  BY DEF StakeFields, LockFields, TokenFields
<1> HIDE DEF M, fields
<1>6. Traded(M, L)
  BY <1>2, <1>4, <1>5, BooksTraded
<1> QED BY <1>6 DEF M

LEMMA ReleaseStakeTraded ==
  ASSUME NEW L, Sound(L), NEW u \in Accounts, NEW amount \in Nat, CanReleaseStake(L, u, amount)
  PROVE  Traded(ReleaseStake(L, u, amount), L)
<1> DEFINE M == ReleaseStake(L, u, amount)
<1>1. LedgerTypeOK(L)
  BY SoundParts
<1>2. LedgerTypeOK(M) /\ SameBut(M, L, LockFields)
  BY <1>1, ReleaseStakeEffect
<1> HIDE DEF M
<1>3. SameBut(M, L, LockFields \cup {"unbonds"})
  BY <1>2 DEF SameBut
<1>4. Books(M, L, 0)
  BY <1>2, <1>3, LocksBooks
<1>5. "feePct" \notin LockFields /\ "treasuryOk" \notin LockFields
  BY DEF LockFields
<1>6. Traded(M, L)
  BY <1>2, <1>4, <1>5, BooksTraded
<1> QED BY <1>6 DEF M

LEMMA ReleaseRewardTraded ==
  ASSUME NEW L, Sound(L), NEW j \in JobIds, NEW employer, NEW to, NEW amount \in Nat,
         CanReleaseReward(L, j, to, amount)
  PROVE  Traded(ReleaseReward(L, j, employer, to, amount), L)
<1> DEFINE M == ReleaseReward(L, j, employer, to, amount)
<1>1. LedgerTypeOK(L)
  BY SoundParts
<1>2. Books(M, L, 0)
  BY ReleaseRewardBooks
<1>3. SameBut(M, L, {"escrow"} \cup TokenFields)
  BY <1>1, ReleaseRewardEffect
<1> HIDE DEF M
<1> DEFINE fields == {"escrow"} \cup TokenFields
<1>4. "feePct" \notin fields /\ "treasuryOk" \notin fields
  BY DEF TokenFields
<1>5. SameBut(M, L, fields)
  BY <1>3
<1> HIDE DEF fields
<1>6. Traded(M, L)
  BY <1>2, <1>4, <1>5, BooksTraded
<1> QED BY <1>6 DEF M

LEMMA FinalizeFundsTraded ==
  ASSUME NEW L, Sound(L), NEW j \in JobIds, NEW employer, NEW payee,
         NEW pct \in 100..200, NEW reward \in Nat, NEW vr \in Nat, NEW fee \in Nat,
         NEW pool \in BOOLEAN, CanFinalizeJobFunds(L, j, pct, reward, vr, fee)
  PROVE  Traded(FinalizeJobFunds(L, j, employer, payee, pct, reward, vr, fee, pool), L)
<1> DEFINE M == FinalizeJobFunds(L, j, employer, payee, pct, reward, vr, fee, pool)
<1>1. LedgerTypeOK(L)
  BY SoundParts
<1>2. Books(M, L, 0)
  BY FinalizeFundsBooks
<1>3. SameBut(M, L, {"escrow", "rewardPool"} \cup TokenFields)
  BY <1>1, FinalizeJobFundsEffect
<1> HIDE DEF M
<1> DEFINE fields == {"escrow", "rewardPool"} \cup TokenFields
<1>4. "feePct" \notin fields /\ "treasuryOk" \notin fields
  BY DEF TokenFields
<1>5. SameBut(M, L, fields)
  BY <1>3
<1> HIDE DEF fields
<1>6. Traded(M, L)
  BY <1>2, <1>4, <1>5, BooksTraded
<1> QED BY <1>6 DEF M

LEMMA DistributeTraded ==
  ASSUME NEW L, Sound(L), NEW j \in JobIds, NEW vals \in Seq(Accounts), NEW amount \in Nat,
         CanDistribute(L, j, vals, amount)
  PROVE  Traded(DistributeRewards(L, j, vals, amount), L)
<1> DEFINE M == DistributeRewards(L, j, vals, amount)
<1>1. LedgerTypeOK(L)
  BY SoundParts
<1>2. Books(M, L, 0)
  BY DistributeBooks
<1>3. SameBut(M, L, {"escrow"} \cup TokenFields)
  BY <1>1, DistributeRewardsEffect
<1> HIDE DEF M
<1> DEFINE fields == {"escrow"} \cup TokenFields
<1>4. "feePct" \notin fields /\ "treasuryOk" \notin fields
  BY DEF TokenFields
<1>5. SameBut(M, L, fields)
  BY <1>3
<1> HIDE DEF fields
<1>6. Traded(M, L)
  BY <1>2, <1>4, <1>5, BooksTraded
<1> QED BY <1>6 DEF M
-----------------------------------------------------------------------------
(* The settlements. *)

LEMMA JobValidatorsSeq ==
  ASSUME IInv, NEW j \in JobIds
  PROVE  jobValidators[j] \in Seq(Accounts) /\ <<>> \in Seq(Accounts)
<1>1. jobValidators[j] \in Seq(Validators)
  BY KnownJob
<1>2. Validators \subseteq Accounts
  BY RegistryAssumption
<1>3. Seq(Validators) \subseteq Seq(Accounts)
  BY <1>2
<1> QED BY <1>1, <1>3

\* What a settlement needs to know of its job.
LEMMA JobFacts ==
  ASSUME IInv, NEW j \in JobIds
  PROVE  /\ JobOK(j) /\ now \in Nat /\ LedgerTypeOK(ledger)
         /\ jobs[j].reward \in Nat /\ jobs[j].stake \in Nat
         /\ pcts[2] \in 0..100
         /\ FeeOf(jobs[j]) \in Nat
         /\ Escrowed(jobs[j]) \in Nat
         /\ Escrowed(jobs[j]) = jobs[j].reward + FeeOf(jobs[j])
BY KnownJob, JobAmounts DEF JobType, IInv, TypeOK, Escrowed

LEMMA FailureTraded ==
  ASSUME IInv, Sound(ledger), NEW j \in JobIds, jobs[j].state \in Live, NEW recipient,
         NEW vals \in Seq(Accounts), PayFailure(ledger, jobs[j], j, recipient, vals).ok
  PROVE  Traded(PayFailure(ledger, jobs[j], j, recipient, vals).ledger, ledger)
<1> DEFINE amount == Escrowed(jobs[j])
           u == jobs[j].agent
           R == ReleaseReward(ledger, j, jobs[j].employer, recipient, amount)
           L1 == IF jobs[j].reward > 0 THEN R ELSE ledger
           slash == jobs[j].stake > 0 /\ u # None
           P == PayFailure(ledger, jobs[j], j, recipient, vals)
<1>1. JobOK(j) /\ amount \in Nat /\ jobs[j].stake \in Nat /\ now \in Nat
  BY JobFacts
<1>2. slash => u \in Accounts
  BY <1>1, RegistryAssumption DEF JobOK, Live, Assigned
<1>3. /\ jobs[j].reward > 0 => CanReleaseReward(ledger, j, recipient, amount)
      /\ slash => CanSlash(L1, u, "Agent", jobs[j].stake)
      /\ P.ledger = IF slash THEN Slash(L1, u, "Agent", jobs[j].stake, recipient, vals, now)
                             ELSE L1
  BY DEF PayFailure
<1> HIDE DEF amount, u, P
<1>4. Traded(L1, ledger)
  <2>1. CASE jobs[j].reward > 0
    BY <1>1, <1>3, <2>1, ReleaseRewardTraded
  <2>2. CASE ~(jobs[j].reward > 0)
    BY <2>2, TradedSelf
  <2> QED BY <2>1, <2>2
<1>5. Sound(L1)
  BY <1>4 DEF Traded
<1> HIDE DEF L1, slash
<1>6. Traded(P.ledger, ledger)
  <2>1. CASE slash
    <3>1. u \in Accounts /\ CanSlash(L1, u, "Agent", jobs[j].stake)
      BY <2>1, <1>2, <1>3
    <3>2. Traded(Slash(L1, u, "Agent", jobs[j].stake, recipient, vals, now), L1)
      BY <1>1, <1>5, <3>1, SlashTraded
    <3> QED BY <2>1, <1>3, <1>4, <3>2, TradedChain
  <2>2. CASE ~slash
    BY <1>3, <1>4, <2>2
  <2> QED BY <2>1, <2>2
<1> QED BY <1>6 DEF P

LEMMA SuccessTraded ==
  ASSUME IInv, Sound(ledger), NEW j \in JobIds, jobs[j].state \in Assigned,
         NEW redirect \in BOOLEAN, PaySuccess(ledger, j, redirect).ok
  PROVE  Traded(PaySuccess(ledger, j, redirect).ledger, ledger)
<1> DEFINE job == jobs[j]
           vals == jobValidators[j]
           vr == IF Len(vals) > 0 THEN Pct(job.reward, pcts[2]) ELSE 0
           rest == job.reward - vr
           fee == IF RegistryFeePool THEN FeeOf(job) ELSE 0
           pct == IF job.agentPct = 0 THEN 100 ELSE job.agentPct
           payee == IF redirect THEN Treasury ELSE job.agent
           L1 == FinalizeJobFunds(ledger, j, job.employer, payee, pct, rest, vr, fee, RegistryFeePool)
           L2 == DistributeRewards(L1, j, vals, vr)
           L3 == IF job.stake = 0 THEN L2
                 ELSE IF redirect
                      THEN Slash(L2, job.agent, "Agent", job.stake, Treasury, vals, now)
                      ELSE ReleaseStake(L2, job.agent, job.stake)
           P == PaySuccess(ledger, j, redirect)
<1>1. /\ JobOK(j) /\ job.reward \in Nat /\ job.stake \in Nat /\ pcts[2] \in 0..100
      /\ now \in Nat /\ FeeOf(job) \in Nat
  BY JobFacts
<1>2. vr \in Nat /\ rest \in Nat /\ fee \in Nat
  <2>1. Pct(job.reward, pcts[2]) \in 0..job.reward
    BY <1>1, PctAtMost
  <2> QED BY <1>1, <2>1
<1>3. pct \in 100..200 /\ job.agent \in Accounts /\ vals \in Seq(Accounts)
  BY <1>1, JobValidatorsSeq, RegistryAssumption DEF JobOK
<1>4. /\ CanFinalizeJobFunds(ledger, j, pct, rest, vr, fee)
      /\ CanDistribute(L1, j, vals, vr)
      /\ job.stake > 0 => IF redirect
                          THEN CanSlash(L2, job.agent, "Agent", job.stake)
                          ELSE CanReleaseStake(L2, job.agent, job.stake)
      /\ P.ledger = L3
  BY DEF PaySuccess
<1> HIDE DEF vals, vr, rest, fee, pct, payee, P
<1>5. Traded(L1, ledger)
  BY <1>2, <1>3, <1>4, FinalizeFundsTraded, RegistryAssumption
<1> HIDE DEF L1
<1>6. Traded(L2, L1)
  BY <1>2, <1>3, <1>4, <1>5, DistributeTraded DEF Traded
<1> HIDE DEF L2
<1>7. Traded(L2, ledger) /\ Sound(L2)
  BY <1>5, <1>6, TradedChain DEF Traded
<1>8. Traded(L3, L2)
  <2>1. CASE job.stake = 0
    BY <1>7, <2>1, TradedSelf
  <2>2. CASE job.stake > 0 /\ redirect
    BY <1>1, <1>3, <1>4, <1>7, <2>2, SlashTraded
  <2>3. CASE job.stake > 0 /\ ~redirect
    BY <1>1, <1>3, <1>4, <1>7, <2>3, ReleaseStakeTraded
  <2> QED BY <1>1, <2>1, <2>2, <2>3
<1> HIDE DEF L3
<1>9. Traded(P.ledger, ledger)
  BY <1>4, <1>7, <1>8, TradedChain
<1> QED BY <1>9 DEF P

LEMMA SettlementTraded ==
  ASSUME IInv, Sound(ledger), NEW j \in JobIds, jobs[j].state \in Assigned,
         NEW success \in BOOLEAN, NEW byGov \in BOOLEAN, Settlement(j, success, byGov).ok
  PROVE  Traded(Settlement(j, success, byGov).ledger, ledger)
<1> DEFINE redirect == byGov /\ TreasurySet
                         /\ (IF success THEN jobs[j].agent ELSE jobs[j].employer) \in blacklist
           to == IF redirect THEN Treasury ELSE jobs[j].employer
<1>1. redirect \in BOOLEAN
  OBVIOUS
<1>2. Settlement(j, success, byGov) =
        IF success THEN PaySuccess(ledger, j, redirect)
        ELSE PayFailure(ledger, jobs[j], j, to, jobValidators[j])
  BY DEF Settlement
<1> HIDE DEF redirect, to
<1>3. CASE success
  BY <1>1, <1>2, <1>3, SuccessTraded
<1>4. CASE ~success
  BY <1>2, <1>4, FailureTraded, JobValidatorsSeq DEF Live
<1> QED BY <1>3, <1>4
-----------------------------------------------------------------------------
(* The steps. *)

LEMMA CreateVault ==
  ASSUME IInv, Vault, NEW e \in Employers, NEW w \in Rewards, NEW s \in JobStakes,
         NEW d \in Durations, CreateJob(e, w, s, d)
  PROVE  Vault'
<1> DEFINE job == [ state |-> "Created", employer |-> e, agent |-> None,
                    reward |-> w, stake |-> s, feePct |-> pcts[1],
                    agentPct |-> 100, deadline |-> now + d,
                    success |-> FALSE, burnConfirmed |-> FALSE ]
           amount == Escrowed(job)
           j == nextJobId + 1
           L == LockReward(ledger, j, e, amount)
<1>1. /\ j \in JobIds
      /\ w > 0 => CanLockReward(ledger, e, amount)
      /\ ledger' = IF w > 0 THEN L ELSE ledger
  BY DEF CreateJob
<1>2. e \in Accounts /\ amount \in Nat
  <2>1. w \in Nat /\ pcts[1] \in 0..100
    BY RegistryAssumption DEF IInv, TypeOK
  <2>2. Pct(w, pcts[1]) \in 0..w
    BY <2>1, PctAtMost
  <2>3. amount = w + Pct(w, pcts[1])
    BY DEF Escrowed, FeeOf
  <2> HIDE DEF amount
  <2> QED BY <2>1, <2>2, <2>3, RegistryAssumption
<1>3. Sound(ledger) /\ LedgerTypeOK(ledger)
  BY SoundParts DEF Vault
<1> HIDE DEF amount, j
<1>4. CASE w > 0
  <2>1. Books(L, ledger, 0)
    BY <1>1, <1>2, <1>3, <1>4, LockRewardBooks
  <2>2. SameBut(L, ledger, {"escrow"} \cup TokenFields)
    BY <1>1, <1>2, <1>3, LockRewardEffect
  <2> HIDE DEF L
  <2>3. "feePct" \notin {"escrow"} \cup TokenFields /\ "treasuryOk" \notin {"escrow"} \cup TokenFields
    BY DEF TokenFields
  <2> DEFINE fields == {"escrow"} \cup TokenFields
  <2>4. SameBut(L, ledger, fields) /\ "feePct" \notin fields /\ "treasuryOk" \notin fields
    BY <2>2, <2>3
  <2> HIDE DEF fields
  <2>5. Traded(L, ledger)
    BY <1>3, <2>1, <2>4, BooksTraded
  <2> QED BY <1>1, <1>4, <2>5, VaultKept
<1>5. CASE ~(w > 0)
  BY <1>1, <1>5, VaultUnchanged
<1> QED BY <1>4, <1>5

LEMMA ApplyVault ==
  ASSUME IInv, Vault, NEW j \in JobIds, NEW a \in Agents, ApplyForJob(a, j)
  PROVE  Vault'
<1> DEFINE until == IF jobs[j].deadline > now THEN jobs[j].deadline ELSE now
           amount == jobs[j].stake
           L == LockStake(ledger, a, amount, until)
<1>1. ledger' = IF amount > 0 THEN L ELSE ledger
  BY DEF ApplyForJob
<1>2. a \in Accounts /\ amount \in Nat /\ until \in Nat
  BY KnownJob, RegistryAssumption DEF IInv, TypeOK, JobType
<1>3. Sound(ledger) /\ LedgerTypeOK(ledger)
  BY SoundParts DEF Vault
<1> HIDE DEF amount, until
<1>4. LedgerTypeOK(L) /\ SameBut(L, ledger, LockFields)
  BY <1>2, <1>3, LockStakeEffect
<1> HIDE DEF L
<1>5. Traded(L, ledger)
  <2>1. SameBut(L, ledger, LockFields \cup {"unbonds"})
    BY <1>4 DEF SameBut
  <2>2. Books(L, ledger, 0)
    BY <1>3, <1>4, <2>1, LocksBooks
  <2>3. "feePct" \notin LockFields /\ "treasuryOk" \notin LockFields
    BY DEF LockFields
  <2> QED BY <1>3, <1>4, <2>2, <2>3, BooksTraded
<1> QED BY <1>1, <1>5, VaultKept, VaultUnchanged

LEMMA EndVault ==
  ASSUME IInv, Vault, NEW j \in JobIds,
         \/ \E byGov \in BOOLEAN : Finalize(j, byGov) \/ CancelExpiredJob(j, byGov)
                                     \/ CancelJob(j, byGov)
         \/ ClaimTimeout(j)
  PROVE  Vault'
<1>1. Sound(ledger)
  BY DEF Vault
<1>2. ASSUME NEW byGov \in BOOLEAN, Finalize(j, byGov) PROVE Vault'
  <2>1. /\ jobs[j].state \in Assigned
        /\ Settlement(j, jobs[j].success, byGov).ok
        /\ ledger' = Settlement(j, jobs[j].success, byGov).ledger
    BY <1>2 DEF Finalize, Assigned
  <2>2. jobs[j].success \in BOOLEAN
    BY KnownJob DEF JobType
  <2>3. PICK ok \in BOOLEAN : ok = jobs[j].success
    BY <2>2
  <2> QED BY <1>1, <2>1, <2>3, SettlementTraded, VaultKept
<1>3. ASSUME NEW byGov \in BOOLEAN, CancelExpiredJob(j, byGov) PROVE Vault'
  <2>1. /\ jobs[j].state \in Assigned
        /\ Settlement(j, FALSE, byGov).ok
        /\ ledger' = Settlement(j, FALSE, byGov).ledger
    BY <1>3 DEF CancelExpiredJob, Assigned
  <2> QED BY <1>1, <2>1, SettlementTraded, VaultKept
<1>4. ASSUME jobs[j].state \in Live, NEW to,
             PayFailure(ledger, jobs[j], j, to, <<>>).ok,
             ledger' = PayFailure(ledger, jobs[j], j, to, <<>>).ledger
      PROVE  Vault'
  BY <1>1, <1>4, FailureTraded, JobValidatorsSeq, VaultKept
<1>5. ASSUME NEW byGov \in BOOLEAN, CancelJob(j, byGov) PROVE Vault'
  BY <1>4, <1>5 DEF CancelJob, Live
<1>6. CASE ClaimTimeout(j)
  BY <1>4, <1>6 DEF ClaimTimeout, Live, Assigned
<1> QED BY <1>2, <1>3, <1>5, <1>6

LEMMA StakingVault == ASSUME IInv, Vault, Staking PROVE Vault'
<1>1. PICK u \in Agents \cup Validators, amount \in Deposits, r \in {"Agent", "Validator"} :
        DepositStake(u, r, amount) \/ WithdrawStake(u, r, amount)
  BY DEF Staking
<1>2. u \in Accounts /\ amount \in Nat /\ r \in Roles /\ now \in Nat
  BY RegistryAssumption DEF Roles, IInv, TypeOK
<1>3. Sound(ledger) /\ LedgerTypeOK(ledger)
  BY SoundParts DEF Vault
<1> DEFINE fields == StakeFields \cup LockFields \cup TokenFields
<1>4. "feePct" \notin fields /\ "treasuryOk" \notin fields
  BY DEF StakeFields, LockFields, TokenFields
<1>5. Books(ledger', ledger, 0) /\ SameBut(ledger', ledger, fields)
  <2>1. CASE DepositStake(u, r, amount)
    <3>1. SameBut(ledger', ledger, StakeFields \cup TokenFields)
      BY <1>2, <1>3, <2>1, DepositEffect DEF DepositStake
    <3>2. SameBut(ledger', ledger, fields)
      BY <3>1 DEF SameBut
    <3>3. Books(ledger', ledger, 0)
      BY <1>2, <1>3, <2>1, DepositBooks DEF DepositStake
    <3> QED BY <3>2, <3>3
  <2>2. CASE WithdrawStake(u, r, amount)
    <3>1. SameBut(ledger', ledger, fields)
      BY <1>2, <1>3, <2>2, WithdrawEffect DEF WithdrawStake
    <3>2. Books(ledger', ledger, 0)
      BY <1>2, <1>3, <2>2, WithdrawBooks DEF WithdrawStake
    <3> QED BY <3>1, <3>2
  <2> QED BY <1>1, <2>1, <2>2
<1> HIDE DEF fields
<1>6. Traded(ledger', ledger)
  BY <1>3, <1>4, <1>5, BooksTraded
<1> QED BY <1>6, VaultKept

\* The percentage burned and the NFTs of an account.
LEMMA ParamsVault ==
  ASSUME Vault, LedgerTypeOK(ledger'), SameBut(ledger', ledger, {"payoutPct", "burnPct"})
  PROVE  Vault'
<1> DEFINE params == {"payoutPct", "minStake", "feePct", "burnPct", "treasuryOk", "unbondingPeriod"}
           fields == {"payoutPct", "burnPct"}
<1>1. Sound(ledger)
  BY DEF Vault
<1>2. SameBut(ledger', ledger, params)
  BY DEF SameBut
<1>3. ledger'.feePct = 0 /\ ledger'.burnPct \in 0..100
  BY DEF SameBut, LedgerFields, Vault, LedgerTypeOK
<1>4. ledger'.feePct + ledger'.burnPct <= 100
  BY <1>3
<1>5. Books(ledger', ledger, 0)
  BY <1>1, <1>2, <1>4, ParamsBooks
<1>6. SameBut(ledger', ledger, fields) /\ "feePct" \notin fields /\ "treasuryOk" \notin fields
  OBVIOUS
<1> HIDE DEF fields
<1>7. Traded(ledger', ledger)
  BY <1>1, <1>5, <1>6, BooksTraded
<1> QED BY <1>7, VaultKept

LEMMA GovernanceVault == ASSUME IInv, Vault, Governance PROVE Vault'
<1>0. LedgerTypeOK(ledger) /\ LedgerTypeOK(ledger') /\ Sound(ledger)
  BY GovernanceKeeps DEF Kept, IInv, TypeOK, Vault
<1>1. ASSUME NEW p \in FeeRewardPcts, SetPcts(p) PROVE Vault'
  BY <1>1, VaultUnchanged DEF SetPcts
<1>2. ASSUME NEW b \in BurnPcts, SetBurnPct(b) PROVE Vault'
  <2>1. SameBut(ledger', ledger, {"payoutPct", "burnPct"})
    BY <1>0, <1>2 DEF SetBurnPct, SameBut, LedgerTypeOK, LedgerFields
  <2> QED BY <1>0, <2>1, ParamsVault
<1>3. ASSUME NEW u \in Employers, NEW amount \in Deposits, FundRewardPool(u, amount) PROVE Vault'
  <2> DEFINE C == Collect(ledger, u, amount)
             p == ledger.rewardPool + amount
  <2>1. u \in Accounts /\ amount \in Nat /\ ledger.rewardPool \in Nat
    BY <1>0, SoundParts, RegistryAssumption
  <2>2. p \in Nat /\ ledger.rewardPool - p = 0 - amount
    BY <2>1
  <2>3. Books(C, ledger, amount)
    BY <1>0, <1>3, <2>1, CollectBooks DEF FundRewardPool
  <2>4. SameBut(C, ledger, TokenFields)
    BY <1>0, <2>1, CollectEffect
  <2>5. C.rewardPool = ledger.rewardPool
    BY <2>4 DEF SameBut, TokenFields, LedgerFields
  <2>6. ledger' = [C EXCEPT !.rewardPool = p]
    BY <1>3, <2>5 DEF FundRewardPool
  <2> HIDE DEF C, p
  <2>7. Books(ledger', C, 0 - amount)
    BY <2>2, <2>3, <2>5, <2>6, PoolBooks DEF Books
  <2>8. Books(ledger', ledger, 0)
    <3>1. amount \in Int /\ 0 - amount \in Int /\ amount + (0 - amount) = 0
      BY <2>1
    <3>2. Books(ledger', ledger, amount + (0 - amount))
      BY <1>0, <2>3, <2>7, <3>1, BooksChain
    <3> QED BY <3>1, <3>2
  <2> DEFINE fields == {"rewardPool"} \cup TokenFields
  <2>9. SameBut(ledger', ledger, fields) /\ "feePct" \notin fields /\ "treasuryOk" \notin fields
    BY <2>4, <2>6 DEF SameBut, TokenFields, LedgerFields
  <2> HIDE DEF fields
  <2>10. Traded(ledger', ledger)
    BY <1>0, <2>8, <2>9, BooksTraded
  <2> QED BY <2>10, VaultKept
<1> QED BY <1>1, <1>2, <1>3 DEF Governance

LEMMA EnvironmentVault == ASSUME IInv, Vault, Environment PROVE Vault'
<1>0. LedgerTypeOK(ledger) /\ LedgerTypeOK(ledger')
  BY EnvironmentKeeps DEF Kept, IInv, TypeOK
<1>1. ASSUME NEW u \in Accounts, NEW pct \in PayoutPcts, NFTTransfer(u, pct) PROVE Vault'
  <2>1. SameBut(ledger', ledger, {"payoutPct", "burnPct"})
    BY <1>0, <1>1 DEF NFTTransfer, SameBut, LedgerTypeOK, LedgerFields
  <2> QED BY <1>0, <2>1, ParamsVault
<1>2. ASSUME NEW u \in Blacklistable, SetBlacklist(u) PROVE Vault'
  BY <1>2, VaultUnchanged DEF SetBlacklist
<1>3. CASE Tick
  BY <1>3, VaultUnchanged DEF Tick
<1> QED BY <1>1, <1>2, <1>3 DEF Environment

\* Steps of a job that move no token.
LEMMA StillVault ==
  ASSUME Vault, NEW j \in JobIds,
         \/ Submit(j) \/ SubmitBurnReceipt(j) \/ ConfirmEmployerBurn(j) \/ Module(j)
         \/ \E u \in Employers \cup Agents : Dispute(j, u)
  PROVE  Vault'
<1>1. ledger' = ledger
  BY DEF Submit, SubmitBurnReceipt, ConfirmEmployerBurn, Dispute, Module,
     OnValidationResult, ValidationComplete, ResolveDispute, ForceFinalize,
     MarkReputationProcessed
<1> QED BY <1>1, VaultUnchanged

LEMMA VaultStep == IInv /\ Vault /\ [Next]_vars => Vault'
<1> SUFFICES ASSUME IInv, Vault, [Next]_vars PROVE Vault'
  OBVIOUS
<1>1. CASE UNCHANGED vars
  BY <1>1, VaultUnchanged DEF vars
<1>2. CASE \E e \in Employers, w \in Rewards, s \in JobStakes, d \in Durations :
             CreateJob(e, w, s, d)
  BY <1>2, CreateVault
<1>3. ASSUME NEW j \in JobIds, Participant(j) PROVE Vault'
  BY <1>3, ApplyVault, EndVault, StillVault DEF Participant
<1>4. ASSUME NEW j \in JobIds, Module(j) PROVE Vault'
  BY <1>4, StillVault
<1>5. CASE Staking
  BY <1>5, StakingVault
<1>6. CASE Governance
  BY <1>6, GovernanceVault
<1>7. CASE Environment
  BY <1>7, EnvironmentVault
<1> QED BY <1>1, <1>2, <1>3, <1>4, <1>5, <1>6, <1>7 DEF Next

LEMMA InitVault == Init => Vault
<1> SUFFICES ASSUME Init PROVE Vault
  OBVIOUS
<1> DEFINE E == EmptyLedger(Funds, InitialPcts, 1)
<1>1. PICK b \in BurnPcts : ledger = [E EXCEPT !.burnPct = b]
  BY DEF Init
<1>2. Sound(E) /\ Free(E) = 0
  BY EmptyBooks, RegistryAssumption
<1>3. E.feePct = 0 /\ E.treasuryOk /\ DOMAIN E = LedgerFields
  BY SoundParts, <1>2 DEF EmptyLedger
<1>4. LedgerTypeOK(ledger)
  BY InitInv DEF IInv, TypeOK
<1> HIDE DEF E
<1>5. SameBut(ledger, E, {"payoutPct", "minStake", "feePct", "burnPct", "treasuryOk", "unbondingPeriod"})
  BY <1>1, <1>3 DEF SameBut
<1>6. ledger.feePct = 0 /\ ledger.treasuryOk = E.treasuryOk /\ ledger.burnPct = b
  BY <1>1, <1>3 DEF LedgerFields
<1>7. ledger.feePct + ledger.burnPct <= 100
  BY <1>6, RegistryAssumption
<1>8. Books(ledger, E, 0)
  BY <1>2, <1>4, <1>5, <1>7, ParamsBooks
<1>9. Sound(ledger) /\ Free(ledger) = 0
  BY <1>2, <1>8 DEF Books
<1> QED BY <1>3, <1>6, <1>9 DEF Vault

LEMMA AlwaysVault == Spec => [](IInv /\ Vault)
<1>1. IInv /\ [Next]_vars => IInv'
  BY Step DEF Kept
<1> QED BY <1>1, InitInv, InitVault, VaultStep, PTL DEF Spec
-----------------------------------------------------------------------------
(* The theorems. *)

\* The tokens of the StakeManager are at any time exactly the stakes, the
\* escrows of the unfinished jobs and the reward pool, and no wallet was ever
\* overdrawn, for any number of jobs, validators and route of settlement.
THEOREM RegistryExactlyBacked == Spec => []ExactlyBacked
<1>1. Vault => ExactlyBacked
  <2> SUFFICES ASSUME Vault PROVE ExactlyBacked
    OBVIOUS
  <2>1. Sound(ledger) /\ Free(ledger) = 0
    BY DEF Vault
  <2>2. ledger.wallet \in [Accounts -> Nat]
    BY <2>1, SoundParts
  <2>3. Held(ledger) \in Nat /\ ledger.balance \in Nat /\ ledger.balance - Held(ledger) = 0
    BY <2>1, SoundSums DEF Free
  <2>4. ledger.balance = Held(ledger)
    BY <2>3
  <2> QED BY <2>2, <2>4 DEF Held, ExactlyBacked
<1> QED BY <1>1, AlwaysVault, PTL
-----------------------------------------------------------------------------
(* A completed job can be settled. *)

\* The bonus on a part of a reward is at most the bonus on the reward.
LEMMA BonusMonotone ==
  ASSUME NEW a \in Nat, NEW b \in Nat, a <= b, NEW p \in 100..200
  PROVE  Pct(a, p) - a <= Pct(b, p) - b
<1>1. a * p \in Nat /\ b * p \in Nat
  OBVIOUS
<1>2. b * p >= a * p + 100 * (b - a)
  <2>1. PICK d \in Nat : b = a + d
    <3>1. b - a \in Nat /\ b = a + (b - a)
      OBVIOUS
    <3> QED BY <3>1
  <2>2. PICK q \in Nat : p = 100 + q
    <3>1. p - 100 \in Nat /\ p = 100 + (p - 100)
      OBVIOUS
    <3> QED BY <3>1
  <2>3. b * p = a * p + d * p
    BY <2>1
  <2>4. d * p = 100 * d + d * q /\ d * q \in Nat
    BY <2>2
  <2>5. b - a = d
    BY <2>1
  <2> QED BY <1>1, <2>3, <2>4, <2>5
<1>3. \A x, y, d \in Nat : y >= x + 100 * d => y \div 100 >= x \div 100 + d
  OBVIOUS
<1>4. (b * p) \div 100 >= (a * p) \div 100 + (b - a)
  <2>1. b - a \in Nat
    OBVIOUS
  <2> QED BY <1>1, <1>2, <1>3, <2>1
<1>5. (a * p) \div 100 \in Nat /\ (b * p) \div 100 \in Nat
  BY <1>1
<1> QED BY <1>4, <1>5 DEF Pct

\* What a ledger of the vault can slash.
LEMMA VaultCanSlash ==
  ASSUME NEW L, Sound(L), Free(L) = 0, L.treasuryOk, NEW j \in JobIds, NEW u \in Accounts,
         NEW amount \in Nat, L.stakes[u]["Agent"] >= amount
  PROVE  CanSlash(L, u, "Agent", amount)
<1>1. /\ L.balance \in Nat /\ L.escrow[j] \in Nat /\ L.rewardPool \in Nat
      /\ L.stakes[u]["Agent"] \in Nat
  BY SoundParts DEF Roles
<1>2. L.balance >= L.stakes[u]["Agent"] + L.escrow[j] + L.rewardPool
  BY SolventCovers
<1>3. L.balance >= amount
  BY <1>1, <1>2
<1> QED BY <1>3 DEF CanSlash

\* The escrow of a job pays reward, validators and fee without a deficit.
LEMMA CanFinalizeEscrow ==
  ASSUME NEW L, Sound(L), Free(L) = 0, NEW u \in Accounts, NEW j \in JobIds,
         NEW pct \in 100..200, NEW rest \in Nat, NEW vr \in Nat, NEW fee \in Nat,
         L.escrow[j] >= rest + vr + fee,
         L.rewardPool >= Pct(rest, pct) - rest
  PROVE  CanFinalizeJobFunds(L, j, pct, rest, vr, fee)
<1> DEFINE s == FinalizeSplit(L, j, pct, rest, vr, fee)
           available == L.escrow[j] - vr
           deficit == Monus(rest + fee, available)
<1>1. L.balance \in Nat /\ L.escrow[j] \in Nat /\ L.rewardPool \in Nat
      /\ L.stakes[u]["Agent"] \in Nat
  BY SoundParts DEF Roles
<1>2. /\ s.available = available
      /\ s.fee = fee - Lesser(deficit, fee)
      /\ s.spentReward = rest - Monus(deficit, fee)
      /\ s.modified = Pct(s.spentReward, pct)
      /\ s.extra = Monus(s.modified, s.spentReward)
  BY DEF FinalizeSplit, BonusOf
<1> HIDE DEF s
<1>3. available \in Nat /\ available >= rest + fee
  BY <1>1
<1>4. deficit = 0
  BY <1>3 DEF Monus
<1> HIDE DEF available, deficit
<1>5. s.fee = fee /\ s.spentReward = rest
  BY <1>2, <1>4 DEF Lesser, Monus
<1>6. Pct(rest, pct) \in Nat /\ Pct(rest, pct) >= rest
  BY PctAtLeast
<1>7. s.modified = Pct(rest, pct) /\ L.rewardPool >= s.extra
  BY <1>1, <1>2, <1>5, <1>6 DEF Monus
<1>8. L.balance >= L.stakes[u]["Agent"] + L.escrow[j] + L.rewardPool
  BY SolventCovers
<1>9. L.balance >= s.modified + s.fee
  BY <1>1, <1>5, <1>6, <1>7, <1>8
<1>10. CanFinalizeJobFunds(L, j, pct, rest, vr, fee) =
         (/\ s.available >= 0 /\ s.spentReward >= 0 /\ L.rewardPool >= s.extra
          /\ L.balance >= s.modified + s.fee)
  BY DEF CanFinalizeJobFunds, s
<1> QED BY <1>2, <1>3, <1>5, <1>7, <1>9, <1>10

\* Who gets no NFT bonus on what is released to them.
Unboosted(L, to) == PayoutPctOf(L, to) = 100

\* A refund without a bonus is what the escrow holds.
LEMMA CanRefundEscrow ==
  ASSUME NEW L, Sound(L), Free(L) = 0, NEW u \in Accounts, NEW j \in JobIds, NEW to,
         Unboosted(L, to)
  PROVE  CanReleaseReward(L, j, to, L.escrow[j])
<1> DEFINE amount == L.escrow[j]
           s == ReleaseSplit(L, j, to, amount)
           fee == Pct(amount, L.feePct)
           burn == Pct(amount, L.burnPct)
<1>1. L.balance \in Nat /\ amount \in Nat /\ L.rewardPool \in Nat
      /\ L.stakes[u]["Agent"] \in Nat /\ L.feePct \in 0..100 /\ L.burnPct \in 0..100
  BY SoundParts DEF Roles
<1>2. Pct(amount, 100) = amount
  BY <1>1 DEF Pct
<1>3. Monus(amount, L.escrow[j]) = 0
  BY <1>1 DEF Monus
<1>4. s.short = (0 > fee + burn) /\ s.total = amount - 0
  BY <1>2, <1>3 DEF ReleaseSplit, Unboosted
<1>5. fee \in Nat /\ burn \in Nat
  <2>1. L.escrow[j] \in Nat /\ L.feePct \in Nat /\ L.burnPct \in Nat
    BY <1>1
  <2>2. \A x, p \in Nat : Pct(x, p) \in Nat
    BY PctNat
  <2> QED BY <2>1, <2>2
<1>6. L.balance >= L.stakes[u]["Agent"] + L.escrow[j] + L.rewardPool
  BY SolventCovers
<1> HIDE DEF s, fee, burn
<1>7. ~s.short
  <2>1. ~(0 > fee + burn)
    BY <1>5
  <2> QED BY <1>4, <2>1, Zenon
<1>8. L.balance >= s.total
  BY <1>1, <1>4, <1>6
<1> QED BY <1>7, <1>8 DEF CanReleaseReward, s

\* What SettlementFunded asks of a successful job, redirected or not.
Unlockable(j) == ledger.locked[jobs[j].agent] >= jobs[j].stake
Slashable(j) == ledger.stakes[jobs[j].agent]["Agent"] >= jobs[j].stake
BonusFunded(j) ==
  ledger.rewardPool >= Pct(jobs[j].reward, jobs[j].agentPct) - jobs[j].reward

LEMMA SuccessFunded ==
  ASSUME IInv, Vault, NEW j \in JobIds, jobs[j].state = "Completed",
         NEW redirect \in BOOLEAN,
         Unlockable(j), redirect => Slashable(j), BonusFunded(j)
  PROVE  PaySuccess(ledger, j, redirect).ok
<1> DEFINE job == jobs[j]
           u == job.agent
           vals == jobValidators[j]
           vr == IF Len(vals) > 0 THEN Pct(job.reward, pcts[2]) ELSE 0
           rest == job.reward - vr
           fee == IF RegistryFeePool THEN FeeOf(job) ELSE 0
           pct == IF job.agentPct = 0 THEN 100 ELSE job.agentPct
           payee == IF redirect THEN Treasury ELSE job.agent
           L1 == FinalizeJobFunds(ledger, j, job.employer, payee, pct, rest, vr, fee, RegistryFeePool)
           L2 == DistributeRewards(L1, j, vals, vr)
<1>1. /\ JobOK(j) /\ job.reward \in Nat /\ job.stake \in Nat /\ pcts[2] \in 0..100
      /\ now \in Nat /\ FeeOf(job) \in Nat /\ LedgerTypeOK(ledger)
      /\ Escrowed(job) = job.reward + FeeOf(job)
  BY JobFacts
<1>2. vr \in 0..job.reward
  <2>1. Pct(job.reward, pcts[2]) \in 0..job.reward
    BY <1>1, PctAtMost
  <2> QED BY <1>1, <2>1
<1>2a. vr \in Nat /\ rest \in Nat /\ fee \in Nat /\ rest <= job.reward
  <2> HIDE DEF vr
  <2> QED BY <1>1, <1>2
<1>3. job.agentPct \in 100..200 /\ u \in Accounts /\ vals \in Seq(Accounts)
  BY <1>1, JobValidatorsSeq, RegistryAssumption DEF JobOK, Assigned
<1>4. pct \in 100..200
  BY <1>3
<1>4a. pct = job.agentPct
  <2>1. \A p \in 100..200 : ~(p = 0)
    OBVIOUS
  <2> QED BY <1>3, <2>1
<1>5. ledger.escrow[j] = job.reward + FeeOf(job)
  BY <1>1 DEF JobOK, Live, Assigned
<1>6. vr > 0 => Len(vals) > 0
  OBVIOUS
<1>7. PaySuccess(ledger, j, redirect).ok =
        (/\ CanFinalizeJobFunds(ledger, j, pct, rest, vr, fee)
         /\ CanDistribute(L1, j, vals, vr)
         /\ job.stake > 0 => IF redirect THEN CanSlash(L2, u, "Agent", job.stake)
                                         ELSE CanReleaseStake(L2, u, job.stake))
  BY DEF PaySuccess
<1>8. ledger.escrow[j] >= rest + vr + fee
  <2>1. rest + vr = job.reward
    <3> HIDE DEF vr
    <3> QED BY <1>1, <1>2a
  <2>2. fee <= FeeOf(job)
    BY <1>1
  <2> HIDE DEF rest, vr, fee
  <2> QED BY <1>1, <1>2a, <1>5, <2>1, <2>2
<1> HIDE DEF vals, vr, rest, fee, pct, payee, u
<1>9. ledger.rewardPool >= Pct(rest, pct) - rest
  <2>1. Pct(rest, pct) - rest <= Pct(job.reward, pct) - job.reward
    BY <1>1, <1>2a, <1>4, BonusMonotone
  <2>2. Pct(rest, pct) \in Nat /\ Pct(job.reward, pct) \in Nat /\ ledger.rewardPool \in Nat
    BY <1>1, <1>2a, <1>4, PctAtLeast DEF LedgerTypeOK
  <2>3. ledger.rewardPool >= Pct(job.reward, pct) - job.reward
    BY <1>4a DEF BonusFunded
  <2> QED BY <1>1, <1>2a, <2>1, <2>2, <2>3
<1>10. Sound(ledger) /\ Free(ledger) = 0 /\ ledger.treasuryOk
  BY DEF Vault
<1>11. CanFinalizeJobFunds(ledger, j, pct, rest, vr, fee)
  BY <1>2a, <1>3, <1>4, <1>8, <1>9, <1>10, CanFinalizeEscrow
<1>12. Traded(L1, ledger)
  <2>1. RegistryFeePool \in BOOLEAN
    BY RegistryAssumption
  <2>2. Sound(ledger)
    BY <1>10
  <2> HIDE DEF job
  <2> QED BY <1>2a, <1>4, <1>11, <2>1, <2>2, FinalizeFundsTraded
<1>13. SameBut(L1, ledger, {"escrow", "rewardPool"} \cup TokenFields)
  BY <1>1, <1>2a, <1>4, <1>11, FinalizeJobFundsEffect, RegistryAssumption
<1>14. EscrowSet(L1, ledger, j, vr)
  BY <1>1, <1>2a, <1>4, <1>11, FinalizeJobFundsEffect, RegistryAssumption
<1> HIDE DEF L1
<1>15. Sound(L1) /\ Free(L1) = 0 /\ L1.escrow[j] = vr
  BY <1>10, <1>12, <1>14 DEF Traded, EscrowSet
<1>16. CanDistribute(L1, j, vals, vr)
  <2>1. /\ L1.balance \in Nat /\ L1.rewardPool \in Nat /\ L1.stakes[u]["Agent"] \in Nat
        /\ L1.escrow[j] \in Nat
    BY <1>3, <1>15, SoundParts DEF Roles
  <2>2. L1.balance >= L1.stakes[u]["Agent"] + L1.escrow[j] + L1.rewardPool
    BY <1>3, <1>15, SolventCovers
  <2>3. L1.balance >= vr
    BY <1>2a, <1>15, <2>1, <2>2
  <2> QED BY <1>2a, <1>6, <1>15, <2>3 DEF CanDistribute
<1>17. Traded(L2, L1)
  BY <1>2a, <1>3, <1>15, <1>16, DistributeTraded
<1>18. SameBut(L2, L1, {"escrow"} \cup TokenFields)
  BY <1>2a, <1>15, <1>16, SoundParts, DistributeRewardsEffect
<1> HIDE DEF L2
<1>19. Sound(L2) /\ Free(L2) = 0 /\ L2.treasuryOk
  BY <1>10, <1>12, <1>15, <1>17 DEF Traded
<1>20. L2.stakes = ledger.stakes /\ L2.locked = ledger.locked
  BY <1>13, <1>18 DEF SameBut, TokenFields, LedgerFields
<1>21. ~redirect => CanReleaseStake(L2, u, job.stake)
  BY <1>20 DEF CanReleaseStake, Unlockable, u
<1>22. redirect => CanSlash(L2, u, "Agent", job.stake)
  <2> SUFFICES ASSUME redirect PROVE CanSlash(L2, u, "Agent", job.stake)
    OBVIOUS
  <2>1. L2.stakes[u]["Agent"] >= job.stake
    BY <1>20 DEF Slashable, u
  <2> QED BY <1>1, <1>3, <1>19, <2>1, VaultCanSlash
<1> QED BY <1>7, <1>11, <1>16, <1>21, <1>22

LEMMA FailureFunded ==
  ASSUME IInv, Vault, NEW j \in JobIds, jobs[j].state = "Completed",
         NEW to \in {Treasury, jobs[j].employer},
         Slashable(j), ledger.payoutPct[jobs[j].employer] = 100, NEW vals
  PROVE  PayFailure(ledger, jobs[j], j, to, vals).ok
<1> DEFINE job == jobs[j]
           u == job.agent
           amount == Escrowed(job)
           R == ReleaseReward(ledger, j, job.employer, to, amount)
           L1 == IF job.reward > 0 THEN R ELSE ledger
<1>1. /\ JobOK(j) /\ job.reward \in Nat /\ job.stake \in Nat /\ amount \in Nat
      /\ LedgerTypeOK(ledger)
  BY JobFacts
<1>2. u \in Accounts /\ job.employer \in Accounts
  BY <1>1, RegistryAssumption DEF JobOK, Assigned
<1>3. ledger.escrow[j] = amount
  BY <1>1 DEF JobOK, Live, Assigned
<1>4. Unboosted(ledger, to)
  BY <1>2, LedgerAssumption DEF PayoutPctOf, Unboosted
<1>5. Sound(ledger) /\ Free(ledger) = 0 /\ ledger.treasuryOk
  BY DEF Vault
<1>6. PayFailure(ledger, job, j, to, vals).ok =
        (/\ job.reward > 0 => CanReleaseReward(ledger, j, to, amount)
         /\ (job.stake > 0 /\ u # None) => CanSlash(L1, u, "Agent", job.stake))
  BY DEF PayFailure
<1>7. CanReleaseReward(ledger, j, to, ledger.escrow[j])
  BY <1>2, <1>4, <1>5, CanRefundEscrow
<1> HIDE DEF amount, u
<1>8. CanReleaseReward(ledger, j, to, amount)
  BY <1>3, <1>7
<1>9. Traded(R, ledger)
  BY <1>1, <1>5, <1>8, ReleaseRewardTraded
<1>10. SameBut(R, ledger, {"escrow"} \cup TokenFields)
  BY <1>1, <1>8, ReleaseRewardEffect
<1> HIDE DEF R
<1>11. R.stakes = ledger.stakes
  BY <1>10 DEF SameBut, TokenFields, LedgerFields
<1>12. Sound(L1) /\ Free(L1) = 0 /\ L1.treasuryOk /\ L1.stakes = ledger.stakes
  BY <1>5, <1>9, <1>11 DEF Traded
<1> HIDE DEF L1
<1>13. L1.stakes[u]["Agent"] >= job.stake
  BY <1>12 DEF Slashable, u
<1>14. CanSlash(L1, u, "Agent", job.stake)
  BY <1>1, <1>2, <1>12, <1>13, VaultCanSlash
<1> QED BY <1>6, <1>8, <1>14

\* Once the agent's lock or stake covers the job and the pool covers the bonus
\* (or the employer earns none on a refund), governance can finalize every
\* completed job, for any percentages the owner set since the job was posted:
\* the escrow suffices and no other job's settlement used the tokens up.
THEOREM SettlementAlwaysFunded == Spec => []SettlementFunded
<1>1. IInv /\ Vault => SettlementFunded
  <2> SUFFICES ASSUME IInv, Vault, NEW j \in JobIds,
                      jobs[j].state = "Completed",
                      IF jobs[j].success
                      THEN /\ Unlockable(j)
                           /\ jobs[j].agent \in blacklist => Slashable(j)
                           /\ BonusFunded(j)
                      ELSE Slashable(j) /\ ledger.payoutPct[jobs[j].employer] = 100
               PROVE  Settlement(j, jobs[j].success, TRUE).ok
    BY DEF SettlementFunded, Unlockable, Slashable, BonusFunded
  <2> DEFINE redirect == TRUE /\ TreasurySet
                           /\ (IF jobs[j].success THEN jobs[j].agent ELSE jobs[j].employer)
                                \in blacklist
             to == IF redirect THEN Treasury ELSE jobs[j].employer
  <2>1. Settlement(j, jobs[j].success, TRUE) =
          IF jobs[j].success THEN PaySuccess(ledger, j, redirect)
          ELSE PayFailure(ledger, jobs[j], j, to, jobValidators[j])
    BY DEF Settlement
  <2>2. redirect \in BOOLEAN /\ to \in {Treasury, jobs[j].employer}
    OBVIOUS
  <2>3. jobs[j].success /\ redirect => jobs[j].agent \in blacklist
    OBVIOUS
  <2> HIDE DEF redirect, to
  <2>4. CASE jobs[j].success
    <3>1. Unlockable(j) /\ BonusFunded(j) /\ (redirect => Slashable(j))
      BY <2>3, <2>4
    <3>2. PaySuccess(ledger, j, redirect).ok
      BY <2>2, <3>1, SuccessFunded
    <3> QED BY <2>1, <2>4, <3>2
  <2>5. CASE ~jobs[j].success
    <3>1. Slashable(j) /\ ledger.payoutPct[jobs[j].employer] = 100
      BY <2>5
    <3>2. PayFailure(ledger, jobs[j], j, to, jobValidators[j]).ok
      BY <2>2, <3>1, FailureFunded
    <3> QED BY <2>1, <2>5, <3>2
  <2> QED BY <2>4, <2>5
<1> QED BY <1>1, AlwaysVault, PTL
=============================================================================
