----------------------- MODULE ValidatorClientsProofs -----------------------
(***************************************************************************)
(* Theorems about ValidatorClients for any wallets, programs, receipts and *)
(* any number of salts and crashes: what is stored on disk opens the vote  *)
(* it was stored for, and the programs with the contract implement a       *)
(* sealed vote.                                                            *)
(***************************************************************************)
EXTENDS ValidatorClients, TLAPS

-----------------------------------------------------------------------------
(* The inductive invariant.                                                *)

\* What a run holds after its transaction is what the contract has sealed.
RunOK(w) ==
  /\ At(w, "committed") => sealed[w] = [tool |-> run[w].tool, of |-> run[w].m]
  /\ At(w, "armed") => run[w].tool = "runtime"
  /\ At(w, "revealed") =>
       sealed[w] # None /\ opened[w] # None /\ Opens(sealed[w], run[w].m)

\* A salt is drawn for one commit, so no two wallets seal the same material.
SaltsOK ==
  \A w \in Wallets :
    /\ sealed[w] # None => sealed[w].of.salt <= salts
    /\ At(w, "commit") => run[w].m.salt <= salts
    /\ \A u \in Wallets :
         /\ At(w, "commit") /\ sealed[u] # None => run[w].m.salt # sealed[u].of.salt
         /\ u # w /\ At(w, "commit") /\ At(u, "commit") => run[w].m.salt # run[u].m.salt
         /\ u # w /\ sealed[w] # None /\ sealed[u] # None =>
              sealed[w].of.salt # sealed[u].of.salt

\* The scripts hand on only what one of them committed.
FromScript(m) == \E u \in Wallets : Sealed(u, "script") /\ sealed[u].of = m

FilesOK ==
  /\ file # None => FromScript(file)
  /\ \A w \in Wallets :
       run[w].pc \in {"reveal", "revealed"} /\ run[w].tool = "script" => FromScript(run[w].m)

IInv ==
  /\ TypeOK
  /\ \A w \in Wallets : RunOK(w)
  /\ SaltsOK
  /\ FilesOK
  /\ RecordOpens
  /\ FileOpens

-----------------------------------------------------------------------------
(* Types.                                                                  *)

LEMMA BusyRun ==
  ASSUME TypeOK, NEW w \in Wallets, run[w].pc # "idle"
  PROVE  run[w] \in Runs
  <1>1. run[w] \in Runs \cup {Idle}
    BY DEF TypeOK
  <1> QED BY <1>1 DEF Idle

LEMMA GoesTyped ==
  ASSUME TypeOK, NEW w \in Wallets, NEW to \in Runs \cup {Idle}, Goes(w, to)
  PROVE  /\ run' \in [Wallets -> Runs \cup {Idle}]
         /\ run'[w] = to
         /\ \A u \in Wallets \ {w} : run'[u] = run[u]
  BY DEF TypeOK, Goes

LEMMA InitTyped == ASSUME Init PROVE TypeOK
  <1>1. receipts \in Seq(Receipts)
    BY DEF Init
  <1>2. sealed \in [Wallets -> Seals \cup {None}] /\ opened \in [Wallets -> BOOLEAN \cup {None}]
    BY DEF Init
  <1>3. run \in [Wallets -> Runs \cup {Idle}]
    BY DEF Init
  <1>4. record \in [Wallets -> Material \cup {None}] /\ file \in Material \cup {None}
    BY DEF Init
  <1>5. salts \in 0..MaxSalts /\ crashes \in 0..MaxCrashes
    BY ClientAssumption DEF Init, ClientAssumption
  <1> QED BY <1>1, <1>2, <1>3, <1>4, <1>5 DEF Init, TypeOK

\* The contracts' own steps.
LEMMA ChainTyped == ASSUME TypeOK, Chain PROVE TypeOK'
  <1>1. CASE SelectCommittee
    BY <1>1 DEF TypeOK, SelectCommittee, diskVars, countVars
  <1>2. CASE Tick
    BY <1>2 DEF TypeOK, Tick, diskVars, countVars
  <1>3. ASSUME NEW r \in Receipts, SubmitBurnReceipt(r) PROVE TypeOK'
    <2>1. receipts' \in Seq(Receipts)
      BY <1>3 DEF TypeOK, SubmitBurnReceipt
    <2> QED BY <1>3, <2>1 DEF TypeOK, SubmitBurnReceipt, diskVars, countVars
  <1>4. CASE ConfirmEmployerBurn
    BY <1>4 DEF TypeOK, ConfirmEmployerBurn, diskVars, countVars
  <1> QED BY <1>1, <1>2, <1>3, <1>4 DEF Chain

\* A run starts, or goes on with what it has.
LEMMA CommitRuns ==
  ASSUME TypeOK, NEW w \in Wallets, NEW tool \in Programs, NEW approve \in BOOLEAN,
         NEW burn \in Burns, StartCommit(w, tool, approve, burn)
  PROVE  /\ [pc |-> "commit", tool |-> tool, timer |-> "none",
             m |-> [approve |-> approve, burn |-> burn, salt |-> salts + 1]] \in Runs
         /\ salts' \in 0..MaxSalts
  <1>1. salts + 1 \in 0..MaxSalts
    BY ClientAssumption DEF TypeOK, StartCommit, ClientAssumption
  <1>2. [approve |-> approve, burn |-> burn, salt |-> salts + 1] \in Material
    BY <1>1 DEF Material
  <1> QED BY <1>1, <1>2 DEF Runs, Points, Timers, StartCommit

LEMMA ExampleMaterial ==
  ASSUME TypeOK, NEW w \in Wallets, NEW approve \in BOOLEAN \cup {None},
         NEW burn \in Burns \cup {None}, NEW salt \in {None, 0},
         record[w] = None => approve # None /\ salt # None
  PROVE  [approve |-> Choose(approve, Stored(w, "approve", None)),
          burn |-> Choose(burn, Stored(w, "burn", Zero)),
          salt |-> Choose(salt, Stored(w, "salt", None))] \in Material
  <1>1. 0 \in 0..MaxSalts /\ Zero \in Burns
    BY ClientAssumption DEF ClientAssumption, Burns
  <1>2. record[w] # None => /\ record[w].approve \in BOOLEAN
                            /\ record[w].burn \in Burns
                            /\ record[w].salt \in 0..MaxSalts
    BY DEF TypeOK, Material
  <1>3. Choose(approve, Stored(w, "approve", None)) \in BOOLEAN
    BY <1>2 DEF Choose, Stored
  <1>4. Choose(burn, Stored(w, "burn", Zero)) \in Burns
    BY <1>1, <1>2 DEF Choose, Stored
  <1>5. Choose(salt, Stored(w, "salt", None)) \in 0..MaxSalts
    BY <1>1, <1>2 DEF Choose, Stored
  <1> QED BY <1>3, <1>4, <1>5 DEF Material

LEMMA Continues ==
  ASSUME TypeOK, NEW w \in Wallets, run[w].pc # "idle", NEW pc \in Points, NEW timer \in Timers
  PROVE  /\ [run[w] EXCEPT !.pc = pc] \in Runs
         /\ [run[w] EXCEPT !.pc = pc, !.timer = timer] \in Runs
         /\ run[w].m \in Material /\ run[w].tool \in Programs
         /\ [tool |-> run[w].tool, of |-> run[w].m] \in Seals
         /\ run[w].m.approve \in BOOLEAN
  <1>1. run[w] \in Runs
    BY BusyRun
  <1>2. run[w].m \in Material /\ run[w].tool \in Programs
    BY <1>1 DEF Runs
  <1> QED BY <1>1, <1>2 DEF Runs, Seals, Material

LEMMA StepTyped ==
  ASSUME TypeOK, NEW w \in Wallets, Step(w)
  PROVE  TypeOK'
  <1>1. CASE SendCommit(w)
    <2>1. At(w, "commit") /\ run[w].pc # "idle"
      BY <1>1 DEF SendCommit, At
    <2>2. AfterCommit(run[w].tool) \in Points
      BY DEF AfterCommit, Points
    <2>3. [run[w] EXCEPT !.pc = AfterCommit(run[w].tool)] \in Runs
      BY <2>1, <2>2, Continues DEF Timers
    <2>4. [tool |-> run[w].tool, of |-> run[w].m] \in Seals
      BY <2>1, Continues DEF Points, Timers
    <2>5. run' \in [Wallets -> Runs \cup {Idle}]
      BY <1>1, <2>3, GoesTyped DEF SendCommit
    <2>6. sealed' \in [Wallets -> Seals \cup {None}]
      BY <1>1, <2>4 DEF SendCommit, TypeOK
    <2> QED BY <1>1, <2>5, <2>6 DEF TypeOK, SendCommit, diskVars, countVars
  <1>2. CASE SaveFile(w)
    <2>1. run[w].m \in Material
      BY <1>2, Continues DEF SaveFile, At, Points, Timers
    <2>2. run' \in [Wallets -> Runs \cup {Idle}]
      BY <1>2, GoesTyped DEF SaveFile
    <2> QED BY <1>2, <2>1, <2>2 DEF TypeOK, SaveFile, chainVars, countVars
  <1>3. CASE SaveRecord(w)
    <2>1. run[w].m \in Material
      BY <1>3, Continues DEF SaveRecord, At, Points, Timers
    <2>2. run' \in [Wallets -> Runs \cup {Idle}]
      BY <1>3, GoesTyped DEF SaveRecord
    <2>3. record' \in [Wallets -> Material \cup {None}]
      BY <1>3, <2>1 DEF TypeOK, SaveRecord
    <2> QED BY <1>3, <2>2, <2>3 DEF TypeOK, SaveRecord, chainVars, countVars
  <1>4. CASE SendReveal(w)
    <2>1. run[w].pc # "idle"
      BY <1>4 DEF SendReveal, At
    <2>2. [run[w] EXCEPT !.pc = "revealed"] \in Runs /\ run[w].m.approve \in BOOLEAN
      BY <2>1, Continues DEF Points, Timers
    <2>3. run' \in [Wallets -> Runs \cup {Idle}]
      <3>1. AfterReveal(w) \in Runs \cup {Idle}
        BY <2>2 DEF AfterReveal
      <3> QED BY <1>4, <3>1, GoesTyped DEF SendReveal
    <2>4. opened' \in [Wallets -> BOOLEAN \cup {None}]
      BY <1>4, <2>2 DEF TypeOK, SendReveal
    <2> QED BY <1>4, <2>3, <2>4 DEF TypeOK, SendReveal, diskVars, countVars
  <1>5. CASE Unlink(w)
    <2>1. run' \in [Wallets -> Runs \cup {Idle}]
      BY <1>5, GoesTyped DEF Unlink
    <2> QED BY <1>5, <2>1 DEF TypeOK, Unlink, chainVars, countVars
  <1> QED BY <1>1, <1>2, <1>3, <1>4, <1>5 DEF Step

LEMMA OperatorTyped ==
  ASSUME TypeOK, NEW w \in Wallets, Operator(w)
  PROVE  TypeOK'
  <1>1. ASSUME NEW tool \in Programs, NEW approve \in BOOLEAN, NEW burn \in Burns,
               StartCommit(w, tool, approve, burn)
        PROVE  TypeOK'
    <2>1. run' \in [Wallets -> Runs \cup {Idle}] /\ salts' \in 0..MaxSalts
      BY <1>1, CommitRuns, GoesTyped DEF StartCommit
    <2>2. notified' \in SUBSET Wallets
      BY <1>1 DEF TypeOK, StartCommit
    <2> QED BY <1>1, <2>1, <2>2 DEF TypeOK, StartCommit, chainVars, diskVars
  <1>2. CASE StartRevealScript(w)
    <2>1. [pc |-> "reveal", tool |-> "script", timer |-> "none", m |-> file] \in Runs
      BY <1>2 DEF TypeOK, StartRevealScript, Runs, Points, Timers, Programs
    <2>2. run' \in [Wallets -> Runs \cup {Idle}]
      BY <1>2, <2>1, GoesTyped DEF StartRevealScript
    <2> QED BY <1>2, <2>2 DEF TypeOK, StartRevealScript, chainVars, diskVars, countVars
  <1>3. ASSUME NEW approve \in BOOLEAN \cup {None}, NEW burn \in Burns \cup {None},
               NEW salt \in {None, 0}, StartRevealExample(w, approve, burn, salt)
        PROVE  TypeOK'
    <2> DEFINE m == [approve |-> Choose(approve, Stored(w, "approve", None)),
                     burn |-> Choose(burn, Stored(w, "burn", Zero)),
                     salt |-> Choose(salt, Stored(w, "salt", None))]
    <2>1. m \in Material
      BY <1>3, ExampleMaterial DEF StartRevealExample
    <2>2. Goes(w, [pc |-> "reveal", tool |-> "example", timer |-> "none", m |-> m])
      BY <1>3 DEF StartRevealExample
    <2> HIDE DEF m
    <2>3. [pc |-> "reveal", tool |-> "example", timer |-> "none", m |-> m] \in Runs
      BY <2>1 DEF Runs, Points, Timers, Programs
    <2>4. run' \in [Wallets -> Runs \cup {Idle}]
      BY <2>2, <2>3, GoesTyped
    <2> QED BY <1>3, <2>4 DEF TypeOK, StartRevealExample, chainVars, diskVars, countVars
  <1> QED BY <1>1, <1>2, <1>3 DEF Operator

LEMMA DaemonTyped ==
  ASSUME TypeOK, NEW w \in Wallets, Daemon(w)
  PROVE  TypeOK'
  <1>1. ASSUME NEW timer \in {"deadline", "fallback"}, Arm(w, timer) PROVE TypeOK'
    <2>1. run[w].pc # "idle"
      BY <1>1 DEF Arm, At
    <2>2. [run[w] EXCEPT !.pc = "armed", !.timer = timer] \in Runs
      BY <2>1, Continues DEF Points, Timers
    <2>3. run' \in [Wallets -> Runs \cup {Idle}]
      BY <1>1, <2>2, GoesTyped DEF Arm
    <2> QED BY <1>1, <2>3 DEF TypeOK, Arm, chainVars, diskVars, countVars
  <1>2. CASE TimerFires(w)
    <2>1. run[w].pc # "idle"
      BY <1>2 DEF TimerFires, At
    <2>2. [run[w] EXCEPT !.pc = "reveal", !.timer = "none"] \in Runs
      BY <2>1, Continues DEF Points, Timers
    <2>3. run' \in [Wallets -> Runs \cup {Idle}]
      BY <1>2, <2>2, GoesTyped DEF TimerFires
    <2> QED BY <1>2, <2>3 DEF TypeOK, TimerFires, chainVars, diskVars, countVars
  <1>3. CASE ClearJob(w)
    <2>1. run' \in [Wallets -> Runs \cup {Idle}]
      BY <1>3, GoesTyped DEF ClearJob
    <2> QED BY <1>3, <2>1 DEF TypeOK, ClearJob, chainVars, diskVars, countVars
  <1> QED BY <1>1, <1>2, <1>3 DEF Daemon

LEMMA KillTyped ==
  ASSUME TypeOK, NEW w \in Wallets, Kill(w)
  PROVE  TypeOK'
  <1>1. run' \in [Wallets -> Runs \cup {Idle}]
    BY GoesTyped DEF Kill
  <1>2. crashes' \in 0..MaxCrashes
    BY ClientAssumption DEF TypeOK, Kill, ClientAssumption
  <1>3. lost' \in SUBSET Wallets /\ notified' \in SUBSET Wallets
    BY DEF TypeOK, Kill
  <1> QED BY <1>1, <1>2, <1>3 DEF TypeOK, Kill, chainVars, diskVars

LEMMA TypeStep == TypeOK /\ [Next]_vars => TypeOK'
  <1> SUFFICES ASSUME TypeOK, [Next]_vars PROVE TypeOK'
    OBVIOUS
  <1>1. CASE UNCHANGED vars
    BY <1>1 DEF TypeOK, vars
  <1> QED BY <1>1, ChainTyped, StepTyped, OperatorTyped, DaemonTyped, KillTyped DEF Next

\* No program and no order of crashes makes a run, the disk or the contract hold
\* anything but material of its type: an undefined field of a record, an argument
\* the operator left out or a salt never drawn.  commit-reveal.js:198-226.
THEOREM ClientsTypeCorrect == Spec => []TypeOK
  BY InitTyped, TypeStep, PTL DEF Spec

-----------------------------------------------------------------------------
(* What a step of one wallet's programs leaves alone.                      *)

Acts(w) == Step(w) \/ Operator(w) \/ Daemon(w) \/ Kill(w)

LEMMA Others ==
  ASSUME TypeOK, NEW w \in Wallets, Acts(w)
  PROVE  /\ \A u \in Wallets \ {w} :
              /\ run'[u] = run[u] /\ record'[u] = record[u]
              /\ sealed'[u] = sealed[u] /\ opened'[u] = opened[u]
         /\ sealed[w] # None => sealed'[w] = sealed[w]
         /\ opened[w] # None => opened'[w] = opened[w]
         /\ lost \subseteq lost' /\ lost' \subseteq lost \cup {w}
         /\ salts' \in Nat /\ salts' >= salts
  <1> USE ClientAssumption DEF ClientAssumption, TypeOK
  <1>1. CASE SendCommit(w)
    BY <1>1 DEF SendCommit, CanCommit, Goes, diskVars, countVars
  <1>2. CASE SaveFile(w)
    BY <1>2 DEF SaveFile, Goes, chainVars, countVars
  <1>3. CASE SaveRecord(w)
    BY <1>3 DEF SaveRecord, Goes, chainVars, countVars
  <1>4. CASE SendReveal(w)
    BY <1>4 DEF SendReveal, CanReveal, Goes, diskVars, countVars
  <1>5. CASE Unlink(w)
    BY <1>5 DEF Unlink, Goes, chainVars, countVars
  <1>6. ASSUME NEW tool \in Programs, NEW approve \in BOOLEAN, NEW burn \in Burns,
               StartCommit(w, tool, approve, burn)
        PROVE  /\ \A u \in Wallets \ {w} : run'[u] = run[u]
               /\ salts' \in Nat /\ salts' >= salts
               /\ UNCHANGED <<sealed, opened, record, lost>>
    BY <1>6 DEF StartCommit, Goes, chainVars, diskVars
  <1>7. CASE StartRevealScript(w)
    BY <1>7 DEF StartRevealScript, Goes, chainVars, diskVars, countVars
  <1>8. ASSUME NEW approve \in BOOLEAN \cup {None}, NEW burn \in Burns \cup {None},
               NEW salt \in {None, 0}, StartRevealExample(w, approve, burn, salt)
        PROVE  /\ \A u \in Wallets \ {w} : run'[u] = run[u]
               /\ UNCHANGED <<sealed, opened, record, lost, salts>>
    BY <1>8 DEF StartRevealExample, Goes, chainVars, diskVars, countVars
  <1>9. CASE Daemon(w)
    BY <1>9 DEF Daemon, Arm, TimerFires, ClearJob, Goes, chainVars, diskVars, countVars
  <1>10. CASE Kill(w)
    BY <1>10 DEF Kill, Goes, chainVars, diskVars
  <1>11. CASE Operator(w)
    <2>1. salts \in Nat
      OBVIOUS
    <2> QED BY ONLY <2>1, <1>6, <1>7, <1>8, <1>11 DEF Operator
  <1> QED BY ONLY <1>1, <1>2, <1>3, <1>4, <1>5, <1>9, <1>10, <1>11, Acts(w) DEF Acts, Step

\* The contracts' own steps change nothing that is sealed, stored or held.
LEMMA Still ==
  ASSUME Chain \/ UNCHANGED vars
  PROVE  UNCHANGED <<sealed, opened, file, record, run, salts, lost>>
  BY DEF Chain, SelectCommittee, Tick, SubmitBurnReceipt, ConfirmEmployerBurn, diskVars,
         countVars, vars

-----------------------------------------------------------------------------
(* The parts of the invariant, one after the other.                        *)

LEMMA RunKept ==
  ASSUME TypeOK, NEW w \in Wallets, Acts(w), \A u \in Wallets : RunOK(u)
  PROVE  \A u \in Wallets : RunOK(u)'
  <1>1. \A u \in Wallets \ {w} : RunOK(u)'
    BY Others DEF RunOK, At, Opens
  <1>2. RunOK(w)'
    <2> USE DEF RunOK, At, Opens
    <2>1. CASE SendCommit(w)
      BY <2>1, BusyRun DEF TypeOK, SendCommit, AfterCommit, Goes, Idle, Runs
    <2>2. CASE SendReveal(w)
      <3>1. run[w] \in Runs /\ run[w].m.approve \in BOOLEAN
        BY <2>2, BusyRun, Continues DEF SendReveal, Points, Timers
      <3>2. \/ run'[w] = Idle
            \/ CanReveal(w, run[w].m) /\ run'[w] = [run[w] EXCEPT !.pc = "revealed"]
        BY <2>2 DEF TypeOK, SendReveal, AfterReveal, Goes
      <3>3. run'[w].pc \in {"idle", "revealed"}
        BY <3>1, <3>2 DEF Idle, Runs
      <3>4. CASE run'[w].pc = "revealed"
        <4>1. CanReveal(w, run[w].m) /\ run'[w].m = run[w].m
          BY <3>1, <3>2, <3>4 DEF Idle, Runs
        <4>2. sealed'[w] = sealed[w] /\ sealed[w] # None
          BY <2>2, <4>1 DEF SendReveal, CanReveal
        <4>3. opened'[w] # None
          BY <2>2, <3>1, <4>1, NoneAssumption DEF TypeOK, SendReveal
        <4>4. Scheme(sealed[w].tool) \in {"outcome", "legacy"} /\ sealed[w].of = run[w].m
          BY <4>1 DEF CanReveal
        <4> QED BY ONLY <3>4, <4>1, <4>2, <4>3, <4>4 DEF RunOK, At, Opens
      <3> QED BY ONLY <3>3, <3>4 DEF RunOK, At
    <2>3. CASE SaveFile(w) \/ SaveRecord(w) \/ Unlink(w) \/ ClearJob(w) \/ Kill(w)
      BY <2>3 DEF TypeOK, SaveFile, SaveRecord, Unlink, ClearJob, Kill, Goes, Idle
    <2>4. ASSUME NEW tool \in Programs, NEW approve \in BOOLEAN, NEW burn \in Burns,
                 StartCommit(w, tool, approve, burn)
          PROVE  RunOK(w)'
      BY <2>4 DEF TypeOK, StartCommit, Goes
    <2>5. CASE StartRevealScript(w)
      BY <2>5 DEF TypeOK, StartRevealScript, Goes
    <2>6. ASSUME NEW approve \in BOOLEAN \cup {None}, NEW burn \in Burns \cup {None},
                 NEW salt \in {None, 0}, StartRevealExample(w, approve, burn, salt)
          PROVE  RunOK(w)'
      BY <2>6 DEF TypeOK, StartRevealExample, Goes
    <2>7. ASSUME NEW timer \in {"deadline", "fallback"}, Arm(w, timer) PROVE RunOK(w)'
      BY <2>7, BusyRun DEF TypeOK, Arm, Goes, Runs
    <2>8. CASE TimerFires(w)
      BY <2>8, BusyRun DEF TypeOK, TimerFires, Goes, Runs
    <2> QED BY <2>1, <2>2, <2>3, <2>4, <2>5, <2>6, <2>7, <2>8 DEF Acts, Step, Operator, Daemon
  <1> QED BY <1>1, <1>2

\* The three things a step can do to salts.
LEMMA SaltMoves ==
  ASSUME TypeOK, NEW w \in Wallets, Acts(w)
  PROVE  \/ UNCHANGED <<sealed, salts>> /\ ~At(w, "commit")'
         \/ /\ At(w, "commit") /\ ~At(w, "commit")'
            /\ UNCHANGED salts
            /\ sealed[w] = None /\ sealed'[w].of = run[w].m
         \/ /\ UNCHANGED sealed
            /\ run'[w].m.salt = salts + 1 /\ salts' = salts + 1
  <1>1. CASE SendCommit(w)
    BY <1>1, BusyRun
    DEF TypeOK, SendCommit, CanCommit, AfterCommit, Goes, At, Idle, Runs, countVars
  <1>2. CASE SaveFile(w) \/ SaveRecord(w) \/ Unlink(w) \/ ClearJob(w)
    BY <1>2 DEF TypeOK, SaveFile, SaveRecord, Unlink, ClearJob, Goes, At, Idle, chainVars, countVars
  <1>3. CASE SendReveal(w)
    <2>1. run[w] \in Runs
      BY <1>3, BusyRun DEF SendReveal, At
    <2> QED BY <1>3, <2>1 DEF TypeOK, SendReveal, AfterReveal, Goes, At, Idle, Runs, countVars
  <1>4. ASSUME NEW tool \in Programs, NEW approve \in BOOLEAN, NEW burn \in Burns,
               StartCommit(w, tool, approve, burn)
        PROVE  /\ UNCHANGED sealed
               /\ run'[w].m.salt = salts + 1 /\ salts' = salts + 1
    BY <1>4 DEF TypeOK, StartCommit, Goes, chainVars
  <1>5. CASE StartRevealScript(w)
    BY <1>5 DEF TypeOK, StartRevealScript, Goes, At, chainVars, countVars
  <1>6. ASSUME NEW approve \in BOOLEAN \cup {None}, NEW burn \in Burns \cup {None},
               NEW salt \in {None, 0}, StartRevealExample(w, approve, burn, salt)
        PROVE  UNCHANGED <<sealed, salts>> /\ ~At(w, "commit")'
    BY <1>6 DEF TypeOK, StartRevealExample, Goes, At, chainVars, countVars
  <1>7. ASSUME NEW timer \in {"deadline", "fallback"}, Arm(w, timer)
        PROVE  UNCHANGED <<sealed, salts>> /\ ~At(w, "commit")'
    BY <1>7, BusyRun DEF TypeOK, Arm, Goes, At, Runs, chainVars, countVars
  <1>8. CASE TimerFires(w)
    BY <1>8, BusyRun DEF TypeOK, TimerFires, Goes, At, Runs, chainVars, countVars
  <1>9. CASE Kill(w)
    BY <1>9 DEF TypeOK, Kill, Goes, At, Idle, chainVars
  <1> QED
    BY ONLY <1>1, <1>2, <1>3, <1>4, <1>5, <1>6, <1>7, <1>8, <1>9, Acts(w)
    DEF Acts, Step, Operator, Daemon

LEMMA SaltTypes ==
  ASSUME TypeOK, NEW u \in Wallets
  PROVE  /\ salts \in Nat
         /\ sealed[u] # None => sealed[u].of.salt \in Nat
         /\ At(u, "commit") => run[u].m.salt \in Nat
  BY BusyRun, ClientAssumption DEF TypeOK, At, Runs, Seals, Material, ClientAssumption

LEMMA SaltsKept ==
  ASSUME TypeOK, NEW w \in Wallets, Acts(w), SaltsOK
  PROVE  SaltsOK'
  <1>1. \A u \in Wallets \ {w} : run'[u] = run[u] /\ sealed'[u] = sealed[u]
    BY Others
  <1>2. CASE UNCHANGED <<sealed, salts>> /\ ~At(w, "commit")'
    BY <1>1, <1>2 DEF SaltsOK, At
  <1>3. CASE /\ At(w, "commit") /\ ~At(w, "commit")'
             /\ UNCHANGED salts
             /\ sealed[w] = None /\ sealed'[w].of = run[w].m
    BY <1>1, <1>3, SaltTypes DEF SaltsOK, At
  <1>4. CASE /\ UNCHANGED sealed
             /\ run'[w].m.salt = salts + 1 /\ salts' = salts + 1
    BY <1>1, <1>4, SaltTypes DEF SaltsOK, At
  <1> QED BY <1>2, <1>3, <1>4, SaltMoves

LEMMA FromScriptStays ==
  ASSUME TypeOK, NEW w \in Wallets, Acts(w), NEW m, FromScript(m)
  PROVE  \E u \in Wallets : Sealed(u, "script")' /\ sealed'[u].of = m
  BY Others DEF FromScript, Sealed

\* What commit.ts writes is what it has just sealed.
LEMMA SavedIsSealed ==
  ASSUME TypeOK, NEW w \in Wallets, RunOK(w), At(w, "committed")
  PROVE  sealed[w] # None /\ sealed[w].tool = run[w].tool /\ sealed[w].of = run[w].m
  <1>1. [tool |-> run[w].tool, of |-> run[w].m] \in Seals
    BY Continues DEF At, Points, Timers
  <1> QED BY <1>1, NoneAssumption DEF RunOK

LEMMA FilesKept ==
  ASSUME TypeOK, NEW w \in Wallets, Acts(w), RunOK(w), FilesOK
  PROVE  FilesOK'
  <1>1. file' # None => file' = file \/ FromScript(file')
    <2>1. CASE SaveFile(w)
      BY <2>1, SavedIsSealed DEF SaveFile, FromScript, Sealed
    <2>2. CASE ~SaveFile(w)
      BY <2>2 DEF Acts, Step, Operator, Daemon, Kill, SendCommit, SaveRecord, SendReveal, Unlink,
                  StartCommit, StartRevealScript, StartRevealExample, Arm, TimerFires, ClearJob,
                  diskVars
    <2> QED BY <2>1, <2>2
  <1>2. file' # None => FromScript(file')
    BY <1>1 DEF FilesOK
  <1>3. ASSUME run'[w].pc \in {"reveal", "revealed"}, run'[w].tool = "script"
        PROVE  FromScript(run'[w].m)
    <2>1. CASE SendCommit(w)
      BY <2>1, <1>3, BusyRun DEF TypeOK, SendCommit, AfterCommit, Goes, At, Idle, Runs
    <2>2. CASE SaveFile(w) \/ SaveRecord(w) \/ Unlink(w) \/ ClearJob(w) \/ Kill(w)
      BY <2>2, <1>3 DEF TypeOK, SaveFile, SaveRecord, Unlink, ClearJob, Kill, Goes, Idle
    <2>3. CASE SendReveal(w)
      <3>1. run[w] \in Runs /\ At(w, "reveal")
        BY <2>3, BusyRun DEF SendReveal, At
      <3>2. run'[w] = Idle \/ run'[w] = [run[w] EXCEPT !.pc = "revealed"]
        BY <2>3 DEF TypeOK, SendReveal, AfterReveal, Goes
      <3>3. run'[w].tool = run[w].tool /\ run'[w].m = run[w].m
        BY <3>1, <3>2, <1>3 DEF Idle, Runs
      <3> QED BY <3>1, <3>3, <1>3 DEF FilesOK, At
    <2>4. ASSUME NEW tool \in Programs, NEW approve \in BOOLEAN, NEW burn \in Burns,
                 StartCommit(w, tool, approve, burn)
          PROVE  FALSE
      BY <2>4, <1>3 DEF TypeOK, StartCommit, Goes
    <2>5. CASE StartRevealScript(w)
      BY <2>5 DEF TypeOK, StartRevealScript, Goes, FilesOK
    <2>6. ASSUME NEW approve \in BOOLEAN \cup {None}, NEW burn \in Burns \cup {None},
                 NEW salt \in {None, 0}, StartRevealExample(w, approve, burn, salt)
          PROVE  FALSE
      BY <2>6, <1>3 DEF TypeOK, StartRevealExample, Goes
    <2>7. ASSUME NEW timer \in {"deadline", "fallback"}, Arm(w, timer) PROVE FALSE
      BY <2>7, <1>3, BusyRun DEF TypeOK, Arm, Goes, At, Runs
    <2>8. CASE TimerFires(w)
      BY <2>8, <1>3, BusyRun DEF TypeOK, TimerFires, Goes, At, Runs, RunOK
    <2> QED BY ONLY <2>1, <2>2, <2>3, <2>4, <2>5, <2>6, <2>7, <2>8, Acts(w)
            DEF Acts, Step, Operator, Daemon
  <1>4. \A u \in Wallets \ {w} : run'[u] = run[u]
    BY Others
  <1>5. \A u \in Wallets :
          run'[u].pc \in {"reveal", "revealed"} /\ run'[u].tool = "script" => FromScript(run'[u].m)
    BY <1>3, <1>4 DEF FilesOK
  <1>6. \A m : FromScript(m) => FromScript(m)'
    BY FromScriptStays DEF FromScript
  <1> QED BY <1>2, <1>5, <1>6 DEF FilesOK, FromScript

LEMMA RecordKept ==
  ASSUME TypeOK, NEW w \in Wallets, Acts(w), RunOK(w), RecordOpens
  PROVE  RecordOpens'
  <1> DEFINE Kept(u) ==
        Sealed(u, "example") =>
          \/ u \in lost
          \/ At(u, "committed") /\ run[u].tool = "example" /\ run[u].m = sealed[u].of
          \/ record[u] # None /\ Opens(sealed[u], record[u])
  <1>1. \A u \in Wallets \ {w} : Kept(u)'
    BY Others DEF RecordOpens, Sealed, At, Opens
  <1>2. Kept(w)'
    <2> SUFFICES ASSUME Sealed(w, "example")'
                 PROVE  \/ w \in lost'
                        \/ /\ run'[w].pc = "committed" /\ run'[w].tool = "example"
                           /\ run'[w].m = sealed'[w].of
                        \/ record'[w] # None /\ Opens(sealed[w], record[w])'
      BY DEF At
    <2>1. CASE SendCommit(w) /\ CanCommit(w)
      <3>1. run[w] \in Runs
        BY <2>1, BusyRun DEF SendCommit, At
      <3>2. sealed'[w] = [tool |-> run[w].tool, of |-> run[w].m]
        BY <2>1 DEF TypeOK, SendCommit
      <3>3. run[w].tool = "example"
        BY <3>2 DEF Sealed
      <3>4. run'[w] = [run[w] EXCEPT !.pc = "committed"]
        BY <2>1, <3>3 DEF TypeOK, SendCommit, AfterCommit, Goes
      <3> QED BY <3>1, <3>2, <3>3, <3>4 DEF Runs
    <2>2. CASE SaveRecord(w)
      <3>1. run[w].m \in Material
        BY <2>2, Continues DEF SaveRecord, Points, Timers
      <3>2. record'[w] = run[w].m /\ record'[w] # None
        BY <2>2, <3>1, NoneAssumption DEF TypeOK, SaveRecord
      <3>3. sealed' = sealed
        BY <2>2 DEF SaveRecord, chainVars
      <3>4. sealed[w].of = run[w].m
        BY <2>2, SavedIsSealed DEF SaveRecord, At, RunOK, Opens
      <3> QED BY <3>2, <3>3, <3>4 DEF Sealed, Opens, Scheme
    <2>3. CASE At(w, "committed") /\ run[w].tool = "example" /\ ~SaveRecord(w)
      BY <2>3
      DEF Acts, Step, Operator, Daemon, Kill, SoleCopy, At, SendCommit, SaveFile, SendReveal,
          Unlink, StartCommit, StartRevealScript, StartRevealExample, Arm, TimerFires, ClearJob
    <2>4. CASE /\ ~(At(w, "committed") /\ run[w].tool = "example")
               /\ ~SaveRecord(w) /\ ~(SendCommit(w) /\ CanCommit(w))
      <3>1. sealed' = sealed /\ record' = record
        BY <2>4
        DEF Acts, Step, Operator, Daemon, Kill, SendCommit, SaveFile, SendReveal, Unlink,
            StartCommit, StartRevealScript, StartRevealExample, Arm, TimerFires, ClearJob,
            chainVars, diskVars
      <3>2. lost \subseteq lost'
        BY Others
      <3> QED BY <2>4, <3>1, <3>2 DEF RecordOpens, Sealed, Opens
    <2> QED BY <2>1, <2>2, <2>3, <2>4 DEF SendCommit, At
  <1> QED BY <1>1, <1>2 DEF RecordOpens

LEMMA FileKept ==
  ASSUME TypeOK, NEW w \in Wallets, Acts(w), RunOK(w), SaltsOK, FilesOK, FileOpens
  PROVE  FileOpens'
  <1> DEFINE Alone(x) == Sealed(x, "script") /\ \A u \in Wallets \ {x} : ~Sealed(u, "script")
             Kept(x) == \/ x \in lost
                        \/ At(x, "committed") /\ run[x].tool = "script" /\ run[x].m = sealed[x].of
                        \/ file # None /\ Opens(sealed[x], file)
                        \/ opened[x] # None
  <1> SUFFICES ASSUME NEW x \in Wallets, Alone(x)' PROVE Kept(x)'
    BY DEF FileOpens
  <1>1. /\ \A u \in Wallets : sealed[u] # None => sealed'[u] = sealed[u]
        /\ lost \subseteq lost'
        /\ opened[x] # None => opened'[x] = opened[x]
        /\ x # w => run'[x] = run[x] /\ sealed'[x] = sealed[x]
    BY Others
  <1>2. Sealed(x, "script") => Kept(x)
    BY <1>1 DEF FileOpens, Sealed
  <1>3. CASE SendCommit(w) /\ CanCommit(w) /\ x = w
    <2>1. run[w] \in Runs
      BY <1>3, BusyRun DEF SendCommit, At
    <2>2. sealed'[w] = [tool |-> run[w].tool, of |-> run[w].m]
      BY <1>3 DEF TypeOK, SendCommit
    <2>3. run[w].tool = "script"
      BY <1>3, <2>2 DEF Sealed
    <2>4. run'[w] = [run[w] EXCEPT !.pc = "committed"]
      BY <1>3, <2>3 DEF TypeOK, SendCommit, AfterCommit, Goes
    <2>5. run'[w].pc = "committed" /\ run'[w].tool = "script" /\ run'[w].m = sealed'[w].of
      BY <2>1, <2>2, <2>3, <2>4 DEF Runs
    <2> QED BY <1>3, <2>5 DEF At
  <1>4. CASE SaveFile(w)
    <2>1. sealed[w] # None /\ sealed[w].tool = "script" /\ sealed[w].of = run[w].m
      BY <1>4, SavedIsSealed DEF SaveFile
    <2>2. x = w
      BY <1>1, <2>1 DEF Sealed
    <2>3. run[w].m \in Material
      BY <1>4, Continues DEF SaveFile, At, Points, Timers
    <2>4. file' = run[w].m /\ file' # None /\ sealed'[w] = sealed[w]
      BY <1>4, <2>3, NoneAssumption DEF SaveFile, chainVars
    <2> QED BY <2>1, <2>2, <2>4 DEF Opens, Scheme
  <1>5. CASE Unlink(w)
    <2>1. sealed[w] # None /\ opened[w] # None /\ sealed[w].of = run[w].m
      BY <1>5 DEF Unlink, RunOK, Opens
    <2>2. PICK u \in Wallets : Sealed(u, "script") /\ sealed[u].of = run[w].m
      BY <1>5 DEF Unlink, FilesOK, FromScript, At
    <2>3. u = w
      BY <2>1, <2>2 DEF SaltsOK, Sealed
    <2>4. x = w
      BY <1>1, <2>2, <2>3 DEF Sealed
    <2> QED BY <1>1, <2>1, <2>4
  <1>6. CASE ~(SendCommit(w) /\ CanCommit(w) /\ x = w) /\ ~SaveFile(w) /\ ~Unlink(w)
    <2>1. sealed'[x] = sealed[x]
      BY <1>1, <1>6
      DEF Acts, Step, Operator, Daemon, Kill, SendCommit, SaveRecord, SendReveal,
          StartCommit, StartRevealScript, StartRevealExample, Arm, TimerFires, ClearJob,
          chainVars
    <2>2. file' = file
      BY <1>6
      DEF Acts, Step, Operator, Daemon, Kill, SendCommit, SaveRecord, SendReveal,
          StartCommit, StartRevealScript, StartRevealExample, Arm, TimerFires, ClearJob,
          diskVars
    <2>3. Kept(x)
      BY <1>2, <2>1 DEF Sealed
    <2>4. CASE x = w /\ At(w, "committed") /\ run[w].tool = "script"
      <3>1. Kill(w)
        BY <1>6, <2>4
        DEF Acts, Step, Operator, Daemon, At, SendCommit, SaveRecord, SendReveal,
            StartCommit, StartRevealScript, StartRevealExample, Arm, TimerFires, ClearJob
      <3> QED BY <2>4, <3>1 DEF Kill, SoleCopy
    <2>5. CASE x # w
      BY <1>1, <2>1, <2>2, <2>3, <2>5 DEF At, Opens
    <2> QED BY <1>1, <2>1, <2>2, <2>3, <2>4, <2>5 DEF Opens
  <1> QED BY <1>3, <1>4, <1>5, <1>6

-----------------------------------------------------------------------------
(* What is stored opens the vote.                                          *)

LEMMA IInvInit == ASSUME Init PROVE IInv
  BY InitTyped
  DEF Init, IInv, RunOK, SaltsOK, FilesOK, RecordOpens, FileOpens, At, Idle, Sealed

LEMMA IInvStep == IInv /\ [Next]_vars => IInv'
  <1> SUFFICES ASSUME IInv, [Next]_vars PROVE IInv'
    OBVIOUS
  <1>1. TypeOK'
    BY TypeStep DEF IInv
  <1>2. CASE Chain \/ UNCHANGED vars
    <2>1. \A u \in Wallets : RunOK(u)'
      BY <1>2, Still DEF IInv, RunOK, At, Opens, Chain, SelectCommittee, Tick,
         SubmitBurnReceipt, ConfirmEmployerBurn, vars
    <2>2. SaltsOK' /\ FilesOK'
      BY <1>2, Still DEF IInv, SaltsOK, FilesOK, FromScript, Sealed, At
    <2>3. RecordOpens' /\ FileOpens'
      BY <1>2, Still DEF IInv, RecordOpens, FileOpens, Sealed, At, Opens
    <2> QED BY <1>1, <2>1, <2>2, <2>3 DEF IInv
  <1>3. ASSUME NEW w \in Wallets, Acts(w) PROVE IInv'
    BY <1>1, <1>3, RunKept, SaltsKept, FilesKept, RecordKept, FileKept DEF IInv
  <1> QED BY <1>2, <1>3 DEF Next, Acts

LEMMA IInvAlways == Spec => []IInv
  BY IInvInit, IInvStep, PTL DEF Spec

\* Whatever the wallets run and type, a vote of commit-reveal.js can be opened
\* from its record unless the process died before it was written.
\* commit-reveal.js:169-247.
THEOREM RecordsAlwaysOpen == Spec => []RecordOpens
  <1>1. IInv => RecordOpens
    BY DEF IInv
  <1> QED BY <1>1, IInvAlways, PTL

\* The same for the file of commit.ts and reveal.ts while one wallet votes with
\* the scripts: reveal.ts deletes it only when that vote is open, because a salt
\* belongs to one commit.  commit.ts:60-73, reveal.ts:26-47.
THEOREM FilesAlwaysOpen == Spec => []FileOpens
  <1>1. IInv => FileOpens
    BY DEF IInv
  <1> QED BY <1>1, IInvAlways, PTL

-----------------------------------------------------------------------------
(* The refinement.                                                         *)

Abstract == <<Phases, Committees, Ballots, OpenBallots>>

LEMMA AbstractInit == ASSUME Init PROVE SV!Begin
  <1>1. Phases = [j \in {1} |-> "Idle"] /\ Committees = [j \in {1} |-> {}]
    BY DEF Init, Phases, VotePhase, Committees
  <1>2. Ballots = [j \in {1} |-> [v \in Wallets |-> "none"]]
    BY DEF Init, Ballots, Ballot
  <1>3. OpenBallots = [j \in {1} |-> {}]
    BY DEF Init, OpenBallots
  <1> QED BY <1>1, <1>2, <1>3 DEF SV!Begin, SV!NoBallots

\* The votes do not notice what happens to files, runs and burn evidence.
LEMMA AbstractStutter ==
  ASSUME UNCHANGED <<phase, sealed, opened>>
  PROVE  UNCHANGED Abstract
  BY DEF Abstract, Phases, VotePhase, Committees, Ballots, Ballot, OpenBallots

LEMMA SelectSeats == ASSUME TypeOK, SelectCommittee PROVE SV!Move
  <1>1. Phases[1] = "Idle" /\ Wallets # {}
    BY ClientAssumption DEF SelectCommittee, Phases, VotePhase, ClientAssumption
  <1>2. Phases' = [Phases EXCEPT ![1] = "Sealing"]
    BY DEF SelectCommittee, Phases, VotePhase
  <1>3. Committees' = [Committees EXCEPT ![1] = Wallets]
    BY DEF SelectCommittee, Committees
  <1>4. UNCHANGED <<Ballots, OpenBallots>>
    BY DEF SelectCommittee, Ballots, Ballot, OpenBallots
  <1>5. SV!Seat(1, Wallets)
    BY <1>1, <1>2, <1>3, <1>4 DEF SV!Seat
  <1> QED BY <1>5 DEF SV!Move

LEMMA TickCloses == ASSUME TypeOK, Tick PROVE SV!Move \/ UNCHANGED Abstract
  <1>1. UNCHANGED <<Committees, Ballots, OpenBallots>>
    BY DEF Tick, Committees, Ballots, Ballot, OpenBallots
  <1>2. CASE phase = "Commit" /\ phase' = "Reveal"
    <2>1. Phases[1] = "Sealing" /\ Phases' = [j \in {1} |-> "Opening"]
      BY <1>2 DEF Phases, VotePhase
    <2>2. SV!Close({1})
      BY <1>1, <2>1 DEF SV!Close
    <2> QED BY <2>2 DEF SV!Move
  <1>3. CASE phase = "Reveal" /\ phase' = "Over"
    BY <1>1, <1>3 DEF Abstract, Phases, VotePhase
  <1> QED BY <1>2, <1>3 DEF Tick

LEMMA CommitCasts ==
  ASSUME TypeOK, NEW w \in Wallets, SendCommit(w)
  PROVE  SV!Move \/ UNCHANGED Abstract
  <1>1. CASE CanCommit(w)
    <2> DEFINE vote == IF run[w].m.approve THEN "approve" ELSE "reject"
    <2>1. [tool |-> run[w].tool, of |-> run[w].m] # None
      BY Continues, NoneAssumption DEF SendCommit, At, Points, Timers
    <2>2. /\ sealed' = [sealed EXCEPT ![w] = [tool |-> run[w].tool, of |-> run[w].m]]
          /\ phase = "Commit" /\ sealed[w] = None /\ UNCHANGED <<phase, opened>>
      BY <1>1 DEF SendCommit, CanCommit
    <2>3. Ballot(w) = "none" /\ Ballot(w)' = vote
      BY <2>1, <2>2 DEF Ballot, TypeOK
    <2>4. \A u \in Wallets \ {w} : Ballot(u)' = Ballot(u)
      BY <2>2 DEF Ballot, TypeOK
    <2>5. vote \in SV!Votes
      BY DEF SV!Votes
    <2> HIDE DEF vote
    <2>6. Ballots' = [Ballots EXCEPT ![1][w] = vote] /\ Ballots[1][w] = "none"
      BY <2>3, <2>4 DEF Ballots
    <2>7. /\ Phases[1] = "Sealing" /\ w \in Committees[1]
          /\ UNCHANGED <<Phases, Committees, OpenBallots>>
      BY <2>2 DEF Phases, VotePhase, Committees, OpenBallots
    <2>8. SV!Cast(1, w, vote)
      BY <2>6, <2>7 DEF SV!Cast
    <2> QED BY <2>5, <2>8 DEF SV!Move
  <1>2. CASE ~CanCommit(w)
    BY <1>2, AbstractStutter DEF SendCommit
  <1> QED BY <1>1, <1>2

LEMMA RevealOpens ==
  ASSUME TypeOK, NEW w \in Wallets, SendReveal(w)
  PROVE  SV!Move \/ UNCHANGED Abstract
  <1>1. CASE CanReveal(w, run[w].m)
    <2>1. /\ phase = "Reveal" /\ sealed[w] # None /\ opened[w] = None
          /\ opened' = [opened EXCEPT ![w] = run[w].m.approve]
          /\ UNCHANGED <<phase, sealed>>
      BY <1>1 DEF SendReveal, CanReveal
    <2>2. run[w].m.approve # None
      BY Continues, NoneAssumption DEF SendReveal, At, Points, Timers
    <2>3. OpenBallots' = [OpenBallots EXCEPT ![1] = @ \cup {w}] /\ w \notin OpenBallots[1]
      BY <2>1, <2>2 DEF OpenBallots, TypeOK
    <2>4. /\ Phases[1] = "Opening" /\ w \in Committees[1] /\ Ballots[1][w] # "none"
          /\ UNCHANGED <<Phases, Committees, Ballots>>
      BY <2>1 DEF Phases, VotePhase, Committees, Ballots, Ballot
    <2>5. SV!Open(1, w)
      BY <2>3, <2>4 DEF SV!Open
    <2> QED BY <2>5 DEF SV!Move
  <1>2. CASE ~CanReveal(w, run[w].m)
    BY <1>2, AbstractStutter DEF SendReveal
  <1> QED BY <1>1, <1>2

LEMMA AbstractStep ==
  ASSUME TypeOK, [Next]_vars
  PROVE  SV!Move \/ UNCHANGED Abstract
  <1>1. CASE SelectCommittee
    BY <1>1, SelectSeats
  <1>2. CASE Tick
    BY <1>2, TickCloses
  <1>3. ASSUME NEW w \in Wallets, SendCommit(w) PROVE SV!Move \/ UNCHANGED Abstract
    BY <1>3, CommitCasts
  <1>4. ASSUME NEW w \in Wallets, SendReveal(w) PROVE SV!Move \/ UNCHANGED Abstract
    BY <1>4, RevealOpens
  <1>5. ASSUME UNCHANGED <<phase, sealed, opened>> PROVE UNCHANGED Abstract
    BY <1>5, AbstractStutter
  <1>6. ASSUME NEW r \in Receipts, SubmitBurnReceipt(r) PROVE UNCHANGED <<phase, sealed, opened>>
    BY <1>6 DEF SubmitBurnReceipt
  <1>7. CASE ConfirmEmployerBurn \/ UNCHANGED vars
    BY <1>5, <1>7 DEF ConfirmEmployerBurn, vars
  <1>8. ASSUME NEW w \in Wallets, Acts(w), ~SendCommit(w), ~SendReveal(w)
        PROVE  UNCHANGED <<phase, sealed, opened>>
    BY <1>8 DEF Acts, Step, Operator, Daemon, Kill, SaveFile, SaveRecord, Unlink, StartCommit,
                StartRevealScript, StartRevealExample, Arm, TimerFires, ClearJob, chainVars
  <1> QED BY ONLY <1>1, <1>2, <1>3, <1>4, <1>5, <1>6, <1>7, <1>8, [Next]_vars
          DEF Next, Chain, Acts

\* The programs and the contract together are a sealed vote: nobody votes twice,
\* nothing is opened that was not sealed or before the sealing is over, for any
\* wallets, arguments, crashes and salts.  v2-validator.js:196-299,
\* ValidationModule.sol:1116-1268.
THEOREM ClientsImplementVote == Spec => ImplementsSealedVote
  <1>1. Init => SV!Begin
    BY AbstractInit
  <1>2. TypeOK /\ [Next]_vars => [SV!Move]_(SV!sealedVars)
    BY AbstractStep DEF SV!sealedVars, Abstract
  <1> QED BY <1>1, <1>2, ClientsTypeCorrect, PTL DEF Spec, ImplementsSealedVote, SV!Vote

=============================================================================
