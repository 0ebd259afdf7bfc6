----------------------- MODULE ValidationModuleProofs -----------------------
(***************************************************************************)
(* Theorems about ValidationModule for any jobs, validators, pools, stakes *)
(* and parameters: type correctness (no penalty takes more than the stake  *)
(* that is there) and, as long as the owner leaves maxValidatorsPerJob     *)
(* alone, that seats belong to the committee that sits and that the module *)
(* implements SealedVote. A transaction concerns one job: JobOK is a       *)
(* condition on one job, and each step is shown to keep it and to be a     *)
(* step of SealedVote at once.                                             *)
(***************************************************************************)
EXTENDS ValidationModule, SequenceTheorems, FiniteSetTheorems, TLAPS

-----------------------------------------------------------------------------
(* The sum of a table, as in StakeLedgerProofs (which is about the accounts  *)
(* of the StakeManager and cannot be extended here).                         *)

\* The units of an entry, and those of all others.
Share(f, x) == {x} \X (1..f[x])
Rest(f, x) == UNION {Share(f, y) : y \in DOMAIN f \ {x}}

LEMMA ShareSize ==
  ASSUME NEW X, NEW f \in [X -> Nat], NEW x \in X
  PROVE  IsFiniteSet(Share(f, x)) /\ Cardinality(Share(f, x)) = f[x]
<1>1. f[x] \in Nat
  OBVIOUS
<1>2. IsFiniteSet(1..f[x]) /\ Cardinality(1..f[x]) = f[x]
  BY <1>1, FS_Interval
<1>3. IsFiniteSet({x}) /\ Cardinality({x}) = 1
  BY FS_Singleton
<1>4. /\ IsFiniteSet({x} \X (1..f[x]))
      /\ Cardinality({x} \X (1..f[x])) = Cardinality({x}) * Cardinality(1..f[x])
  BY <1>2, <1>3, FS_Product
<1> QED BY <1>1, <1>2, <1>3, <1>4 DEF Share

LEMMA UnitsSplit ==
  ASSUME NEW X, NEW f \in [X -> Nat], NEW x \in X
  PROVE  /\ Units(f) = Rest(f, x) \cup Share(f, x)
         /\ Rest(f, x) \cap Share(f, x) = {}
BY DEF Units, Rest, Share

\* A table has the sum of one entry and the rest.
LEMMA TotalSplit ==
  ASSUME NEW X, NEW f \in [X -> Nat], NEW x \in X
  PROVE  /\ Summable(f) <=> IsFiniteSet(Rest(f, x))
         /\ Summable(f) => /\ Cardinality(Rest(f, x)) \in Nat
                           /\ Total(f) = Cardinality(Rest(f, x)) + f[x]
<1>1. Units(f) = Rest(f, x) \cup Share(f, x) /\ Rest(f, x) \cap Share(f, x) = {}
  BY UnitsSplit
<1>2. IsFiniteSet(Share(f, x)) /\ Cardinality(Share(f, x)) = f[x] /\ f[x] \in Nat
  BY ShareSize
<1>3. ASSUME IsFiniteSet(Rest(f, x))
      PROVE  /\ IsFiniteSet(Units(f))
             /\ Cardinality(Rest(f, x)) \in Nat
             /\ Cardinality(Units(f)) = Cardinality(Rest(f, x)) + f[x]
  <2>1. /\ IsFiniteSet(Rest(f, x) \cup Share(f, x))
        /\ Cardinality(Rest(f, x) \cup Share(f, x)) =
             Cardinality(Rest(f, x)) + Cardinality(Share(f, x))
               - Cardinality(Rest(f, x) \cap Share(f, x))
    BY <1>2, <1>3, FS_Union
  <2>2. Cardinality(Rest(f, x) \cap Share(f, x)) = 0
    BY <1>1, FS_EmptySet
  <2>3. Cardinality(Rest(f, x)) \in Nat
    BY <1>3, FS_CardinalityType
  <2> QED BY <1>1, <1>2, <2>1, <2>2, <2>3
<1>4. IsFiniteSet(Units(f)) => IsFiniteSet(Rest(f, x))
  BY <1>1, FS_Subset
<1> QED BY <1>3, <1>4 DEF Summable, Total

\* One entry changes: the sum changes by as much.
LEMMA TotalChange ==
  ASSUME NEW X, NEW f \in [X -> Nat], Summable(f), NEW x \in X, NEW n \in Nat
  PROVE  LET g == [f EXCEPT ![x] = n] IN
         /\ Summable(g)
         /\ Total(f) \in Nat
         /\ Total(g) = Total(f) + n - f[x]
<1> DEFINE g == [f EXCEPT ![x] = n]
<1>1. g \in [X -> Nat] /\ g[x] = n
  OBVIOUS
<1>2. Rest(g, x) = Rest(f, x)
  BY DEF Rest, Share
<1> HIDE DEF g
<1>3. /\ Cardinality(Rest(f, x)) \in Nat
      /\ Total(f) = Cardinality(Rest(f, x)) + f[x]
      /\ IsFiniteSet(Rest(f, x))
  BY TotalSplit
<1>4. Summable(g) /\ Total(g) = Cardinality(Rest(g, x)) + g[x]
  BY <1>1, <1>2, <1>3, TotalSplit
<1>5. f[x] \in Nat
  OBVIOUS
<1> QED BY <1>1, <1>2, <1>3, <1>4, <1>5 DEF g

\* No entry exceeds the sum.
LEMMA TotalBounds ==
  ASSUME NEW X, NEW f \in [X -> Nat], Summable(f), NEW x \in X
  PROVE  Total(f) \in Nat /\ f[x] <= Total(f)
<1>1. f[x] \in Nat
  OBVIOUS
<1> QED BY <1>1, TotalSplit

\* An empty table.
LEMMA TotalZero ==
  ASSUME NEW X PROVE Summable([x \in X |-> 0]) /\ Total([x \in X |-> 0]) = 0
<1>1. Units([x \in X |-> 0]) = {}
  BY DEF Units
<1> QED BY <1>1, FS_EmptySet DEF Summable, Total

-----------------------------------------------------------------------------
(* The helpers of the module have the types they seem to have. *)

LEMMA ParamsTyped == ASSUME TypeOK PROVE params \in ParamType
BY ValidationAssumption DEF TypeOK

LEMMA AtMostNat ==
  ASSUME NEW a \in Nat, NEW b \in Nat
  PROVE  /\ AtMost(a, b) \in Nat
         /\ AtMost(a, b) <= a
         /\ AtMost(a, b) <= b
         /\ a > 0 /\ b > 0 => AtMost(a, b) > 0
BY DEF AtMost

LEMMA ShareNat ==
  ASSUME NEW places \in Nat, NEW stake \in Nat, NEW pct \in Nat,
         NEW whole \in Nat \ {0}
  PROVE  places * ((stake * pct) \div whole) \in Nat
<1>1. stake * pct \in Nat
  OBVIOUS
<1>2. (stake * pct) \div whole \in Nat
  BY <1>1
<1> QED BY <1>2

LEMMA BenchTyped ==
  ASSUME TypeOK, NEW j \in Jobs
  PROVE  /\ Bench(j) \in Seq(Validators)
         /\ Len(Bench(j)) = AtMost(Len(rounds[j].validators), params.limit)
         /\ DOMAIN Bench(j) = 1..Len(Bench(j))
<1> DEFINE vals == rounds[j].validators
           n == AtMost(Len(vals), params.limit)
<1>1. vals \in Seq(Validators)
  BY DEF TypeOK, RoundType
<1>2. params.limit \in Nat
  BY ParamsTyped DEF ParamType
<1>3. n \in Nat /\ n <= Len(vals)
  BY <1>1, <1>2, AtMostNat, LenProperties
<1>4. \A i \in 1..n : vals[i] \in Validators
  BY <1>1, <1>3, ElementOfSeq
<1>5. /\ SubSeq(vals, 1, n) \in Seq(Validators)
      /\ Len(SubSeq(vals, 1, n)) = IF 1 <= n THEN n - 1 + 1 ELSE 0
  <2> HIDE DEF vals, n
  <2> QED BY <1>3, <1>4, SubSeqProperties
<1>6. Bench(j) = SubSeq(vals, 1, n)
  BY DEF Bench
<1>7. Bench(j) \in Seq(Validators) /\ Len(Bench(j)) = n
  <2> HIDE DEF vals, n
  <2> QED BY <1>3, <1>5, <1>6
<1> QED BY <1>7, LenProperties

LEMMA DueTyped ==
  ASSUME TypeOK, NEW j \in Jobs, NEW dissenting
  PROVE  Due(j, dissenting) \in [Validators -> Nat]
<1> DEFINE places(v) == Cardinality({i \in DOMAIN Bench(j) : Bench(j)[i] = v})
           due(v) == IF v \in Silent(j)
                     THEN places(v) * ((seats[j][v].stake * PenaltyBps) \div 10000)
                     ELSE IF v \in dissenting
                     THEN places(v) * ((seats[j][v].stake * SlashPct) \div 100)
                     ELSE 0
<1>1. ASSUME NEW v \in Validators PROVE due(v) \in Nat
  <2>1. IsFiniteSet(DOMAIN Bench(j))
    BY BenchTyped, LenProperties, FS_Interval
  <2>2. IsFiniteSet({i \in DOMAIN Bench(j) : Bench(j)[i] = v})
    BY <2>1, FS_Subset
  <2>3. places(v) \in Nat
    BY <2>2, FS_CardinalityType
  <2>4. seats[j][v].stake \in Nat
    BY DEF TypeOK, SeatType
  <2>5. PenaltyBps \in Nat /\ SlashPct \in Nat
    BY ValidationAssumption
  <2>6. /\ places(v) * ((seats[j][v].stake * PenaltyBps) \div 10000) \in Nat
        /\ places(v) * ((seats[j][v].stake * SlashPct) \div 100) \in Nat
    <3> DEFINE n == places(v)
               s == seats[j][v].stake
    <3>1. n \in Nat /\ s \in Nat
      BY <2>3, <2>4
    <3> HIDE DEF n, s
    <3>2. n * ((s * PenaltyBps) \div 10000) \in Nat
      BY <2>5, <3>1, ShareNat
    <3>3. n * ((s * SlashPct) \div 100) \in Nat
      BY <2>5, <3>1, ShareNat
    <3> USE DEF n, s
    <3> QED BY <3>2, <3>3
  <2> HIDE DEF places
  <2> QED BY <2>6
<1>2. Due(j, dissenting) = [v \in Validators |-> due(v)]
  BY DEF Due
<1> HIDE DEF due
<1> QED BY <1>1, <1>2

LEMMA StartSizeNat == ASSUME TypeOK PROVE StartSize \in Nat
<1>1. /\ params.perJob \in Nat /\ params.min \in Nat
      /\ params.max \in Nat /\ params.limit \in Nat
  BY ParamsTyped DEF ParamType
<1>2. Len(pool) \in Nat
  BY ValidationAssumption, LenProperties DEF TypeOK
<1> QED BY <1>1, <1>2, AtMostNat DEF StartSize

\* A list of eligible entries of the pool, drawn for the committee.
LEMMA CommitteeDrawn ==
  ASSUME TypeOK, NEW strategy \in Strategies, NEW size \in Nat,
         NEW vals \in Committees(strategy, size)
  PROVE  /\ vals \in Seq(Validators)
         /\ Len(vals) = size
         /\ \A v \in Range(vals) : v \in Validators /\ stakes[v] > 0
<1>1. PICK candidates \in CandidateSets(strategy) :
        vals \in {[i \in 1..size |-> pool[draw[i]]] : draw \in Injection(1..size, candidates)}
  BY DEF Committees
<1>2. PICK draw \in Injection(1..size, candidates) :
        vals = [i \in 1..size |-> pool[draw[i]]]
  BY <1>1
<1>3. candidates \subseteq Eligible
  BY DEF CandidateSets, Window, kSubset
<1>4. \A i \in 1..size : draw[i] \in Eligible
  BY <1>2, <1>3 DEF Injection
<1>5. pool \in Seq(Validators)
  BY ValidationAssumption DEF TypeOK
<1>6. \A i \in Eligible : pool[i] \in Validators /\ stakes[pool[i]] > 0
  BY <1>5, LenProperties, ElementOfSeq DEF Eligible
<1>7. vals \in [1..size -> Validators]
  BY <1>2, <1>4, <1>6
<1>8. vals \in Seq(Validators)
  BY <1>7, SeqDef
<1>9. Len(vals) = size
  BY <1>7, <1>8, LenProperties
<1>10. \A v \in Range(vals) : v \in Validators /\ stakes[v] > 0
  BY <1>2, <1>4, <1>6 DEF Range
<1> QED BY <1>8, <1>9, <1>10

LEMMA CleanupTyped ==
  ASSUME TypeOK, NEW j \in Jobs, Cleanup(j)
  PROVE  /\ rounds' \in [Jobs -> RoundType]
         /\ seats' \in [Jobs -> [Validators -> SeatType]]
<1>1. NoRound \in RoundType
  BY EmptySeq DEF NoRound, RoundType
<1>2. NoSeat \in SeatType
  BY DEF NoSeat, SeatType
<1>3. Emptied(j) \in [Validators -> SeatType]
  BY <1>2 DEF Emptied, TypeOK
<1> QED BY <1>1, <1>3 DEF Cleanup, TypeOK

LEMMA PunishTyped ==
  ASSUME TypeOK, NEW j \in Jobs, NEW dissenting, Punish(j, dissenting)
  PROVE  /\ stakes' \in [Validators -> Nat]
         /\ bans' \in [Validators -> Nat]
<1> DEFINE due == Due(j, dissenting)
<1>1. due \in [Validators -> Nat]
  BY DueTyped
<1>2. Payable(due) /\ stakes' = [v \in Validators |-> stakes[v] - due[v]]
  BY DEF Punish
<1>3. stakes \in [Validators -> Nat]
  BY DEF TypeOK
<1>4. stakes' \in [Validators -> Nat]
  <2> HIDE DEF due
  <2>1. \A v \in Validators : stakes[v] - due[v] \in Nat
    BY <1>1, <1>2, <1>3 DEF Payable
  <2> QED BY <1>2, <2>1
<1>5. Banned(j) \in [Validators -> Nat]
  BY ValidationAssumption DEF Banned, TypeOK
<1> QED BY <1>4, <1>5 DEF Punish

\* A tally or a forced end as far as the types are concerned.
LEMMA EndTyped ==
  ASSUME TypeOK, NEW j \in Jobs, NEW ok \in BOOLEAN, Report(j, ok), Cleanup(j),
         UNCHANGED <<selection, config>>,
         stakes' \in [Validators -> Nat], bans' \in [Validators -> Nat]
  PROVE  TypeOK'
<1>1. /\ rounds' \in [Jobs -> RoundType]
      /\ seats' \in [Jobs -> [Validators -> SeatType]]
  BY CleanupTyped
<1>2. status' \in [Jobs -> {"Open", "Submitted", "Decided"}]
  BY DEF Report, TypeOK
<1>3. verdict' \in [Jobs -> {"none", "approved", "rejected"}]
  BY DEF Report, TypeOK
<1>4. startPending' \subseteq Jobs /\ evidence' = evidence
  BY DEF Report, TypeOK
<1> QED BY <1>1, <1>2, <1>3, <1>4 DEF TypeOK, config

LEMMA FinalizeTyped == ASSUME TypeOK, NEW j \in Jobs, Finalize(j) PROVE TypeOK'
<1>1. Approved(j) \in BOOLEAN
  BY DEF Approved
<1>2. /\ stakes' \in [Validators -> Nat]
      /\ bans' \in [Validators -> Nat]
  BY PunishTyped DEF Finalize
<1> QED BY <1>1, <1>2, EndTyped DEF Finalize

LEMMA ForceFinalizeTyped == ASSUME TypeOK, NEW j \in Jobs, ForceFinalize(j) PROVE TypeOK'
<1>1. CASE Finalize(j)
  BY <1>1, FinalizeTyped
<1>2. CASE ~Quorum(j)
  <2>1. /\ stakes' \in [Validators -> Nat]
        /\ bans' \in [Validators -> Nat]
    BY <1>2, PunishTyped DEF ForceFinalize, TypeOK
  <2> QED BY <1>2, <2>1, EndTyped DEF ForceFinalize
<1> QED BY <1>1, <1>2 DEF ForceFinalize

LEMMA SeedTyped ==
  ASSUME TypeOK, NEW j \in Jobs, NEW c \in Callers \cup {Registry},
         selection' = Seed(j, c)
  PROVE  selection' \in [Jobs -> [target : Nat, contributors : SUBSET (Callers \cup {Registry})]]
BY DEF TypeOK, Seed

LEMMA StartTyped ==
  ASSUME TypeOK, NEW j \in Jobs, Start(j)
  PROVE  /\ rounds' \in [Jobs -> RoundType]
         /\ selection' \in [Jobs -> [target : Nat, contributors : SUBSET (Callers \cup {Registry})]]
<1>1. StartSize \in Nat
  BY StartSizeNat
<1>2. rounds' = [rounds EXCEPT ![j].committeeSize = StartSize]
  BY DEF Start
<1> DEFINE round == [rounds[j] EXCEPT !.committeeSize = StartSize]
<1>3. rounds[j] \in RoundType
  BY DEF TypeOK
<1>4. round \in RoundType
  BY <1>1, <1>3 DEF RoundType
<1>5. rounds' = [rounds EXCEPT ![j] = round]
  BY <1>2 DEF TypeOK
<1>6. rounds' \in [Jobs -> RoundType]
  <2> HIDE DEF round
  <2> QED BY <1>4, <1>5 DEF TypeOK
<1> QED BY <1>6, SeedTyped DEF Start

\* The committee size a selection asks for.
Wanted(j) ==
  IF rounds[j].committeeSize = 0 THEN params.perJob ELSE rounds[j].committeeSize

LEMMA WantedTyped ==
  ASSUME TypeOK, NEW j \in Jobs
  PROVE  /\ Wanted(j) \in Nat \ {0}
         /\ AtMost(Wanted(j), params.limit) \in Nat \ {0}
         /\ AtMost(Wanted(j), params.limit) <= params.limit
<1>1. rounds[j].committeeSize \in Nat
  BY DEF TypeOK, RoundType
<1>2. params.perJob \in Nat \ {0} /\ params.limit \in Nat \ {0}
  BY ParamsTyped DEF ParamType
<1>3. Wanted(j) \in Nat \ {0}
  BY <1>1, <1>2 DEF Wanted
<1> DEFINE wanted == Wanted(j)
           limit == params.limit
<1> HIDE DEF wanted, limit
<1>4. wanted \in Nat /\ wanted > 0 /\ limit \in Nat /\ limit > 0
  BY <1>2, <1>3 DEF wanted, limit
<1>5. AtMost(wanted, limit) \in Nat \ {0} /\ AtMost(wanted, limit) <= limit
  BY <1>4, AtMostNat
<1> QED BY <1>3, <1>5 DEF wanted, limit

\* What a draw does to the round and the seats of its job.
Drawn(j, vals) ==
  /\ vals \in Seq(Validators)
  /\ Len(vals) > 0 /\ Len(vals) <= params.limit
  /\ \A v \in Range(vals) : v \in Validators /\ stakes[v] > 0
  /\ rounds' = [rounds EXCEPT
       ![j] = [rounds[j] EXCEPT
         !.validators = vals,
         !.committeeSize = Wanted(j),
         !.commitDeadline = now + params.commitWindow,
         !.revealDeadline = now + params.commitWindow + params.revealWindow]]
  /\ seats' = [seats EXCEPT ![j] = [v \in Validators |->
       IF v \in Range(vals)
       THEN [seats[j][v] EXCEPT !.member = TRUE, !.stake = stakes[v]]
       ELSE seats[j][v]]]

LEMMA DrawIsDrawn ==
  ASSUME TypeOK, NEW j \in Jobs, NEW strategy \in Strategies, NEW given,
         DrawCommittee(j, strategy, given)
  PROVE  \E vals : Drawn(j, vals)
<1> DEFINE size == AtMost(Wanted(j), params.limit)
<1>1. size \in Nat \ {0} /\ size <= params.limit
  BY WantedTyped
<1>2. PICK vals \in Committees(strategy, size) :
        /\ rounds' = [rounds EXCEPT
             ![j].validators = vals,
             ![j].committeeSize = Wanted(j),
             ![j].commitDeadline = now + params.commitWindow,
             ![j].revealDeadline = now + params.commitWindow + params.revealWindow]
        /\ seats' = [seats EXCEPT ![j] = [v \in Validators |->
             IF v \in Range(vals)
             THEN [seats[j][v] EXCEPT !.member = TRUE, !.stake = stakes[v]]
             ELSE seats[j][v]]]
  BY DEF DrawCommittee, Wanted
<1> HIDE DEF size
<1>3. /\ vals \in Seq(Validators) /\ Len(vals) = size
      /\ \A v \in Range(vals) : v \in Validators /\ stakes[v] > 0
  BY <1>1, CommitteeDrawn
<1>4. rounds' = [rounds EXCEPT
        ![j] = [rounds[j] EXCEPT
          !.validators = vals,
          !.committeeSize = Wanted(j),
          !.commitDeadline = now + params.commitWindow,
          !.revealDeadline = now + params.commitWindow + params.revealWindow]]
  BY <1>2 DEF TypeOK
<1>5. Len(vals) > 0 /\ Len(vals) <= params.limit
  BY <1>1, <1>3
<1>6. Drawn(j, vals)
  BY <1>2, <1>3, <1>4, <1>5, Zenon DEF Drawn
<1> QED BY <1>6

LEMMA DrawnTyped ==
  ASSUME TypeOK, NEW j \in Jobs, NEW vals, Drawn(j, vals)
  PROVE  /\ rounds' \in [Jobs -> RoundType]
         /\ seats' \in [Jobs -> [Validators -> SeatType]]
<1>1. Wanted(j) \in Nat /\ vals \in Seq(Validators)
  BY WantedTyped DEF Drawn
<1>2. /\ now + params.commitWindow \in Nat
      /\ now + params.commitWindow + params.revealWindow \in Nat
  BY ParamsTyped DEF ParamType, TypeOK
<1> DEFINE round == [rounds[j] EXCEPT
             !.validators = vals,
             !.committeeSize = Wanted(j),
             !.commitDeadline = now + params.commitWindow,
             !.revealDeadline = now + params.commitWindow + params.revealWindow]
           table == [v \in Validators |->
             IF v \in Range(vals)
             THEN [seats[j][v] EXCEPT !.member = TRUE, !.stake = stakes[v]]
             ELSE seats[j][v]]
<1>3. rounds[j] \in RoundType
  BY DEF TypeOK
<1>4. round \in RoundType
  BY <1>1, <1>2, <1>3 DEF RoundType
<1>5. rounds' \in [Jobs -> RoundType]
  <2>1. rounds' = [rounds EXCEPT ![j] = round]
    BY DEF Drawn
  <2> HIDE DEF round
  <2> QED BY <1>4, <2>1 DEF TypeOK
<1>6. \A v \in Validators : seats[j][v] \in SeatType /\ stakes[v] \in Nat
  BY DEF TypeOK
<1>7. table \in [Validators -> SeatType]
  BY <1>6 DEF SeatType
<1>8. seats' \in [Jobs -> [Validators -> SeatType]]
  <2>1. seats' = [seats EXCEPT ![j] = table]
    BY DEF Drawn
  <2> HIDE DEF table
  <2> QED BY <1>7, <2>1 DEF TypeOK
<1> QED BY <1>5, <1>8

\* One member's seat changes.
LEMMA SeatTyped ==
  ASSUME TypeOK, NEW j \in Jobs, NEW v \in Validators, NEW seat \in SeatType,
         seats' = [seats EXCEPT ![j] = [seats[j] EXCEPT ![v] = seat]]
  PROVE  seats' \in [Jobs -> [Validators -> SeatType]]
<1>1. [seats[j] EXCEPT ![v] = seat] \in [Validators -> SeatType]
  BY DEF TypeOK
<1> QED BY <1>1 DEF TypeOK

\* The seat a commitment leaves behind.
Committed(j, v, vote, receipt) ==
  [seats[j][v] EXCEPT !.sealed = vote, !.receipt = receipt]

LEMMA CommitSeat ==
  ASSUME TypeOK, NEW j \in Jobs, NEW v \in Validators, NEW vote, NEW receipt,
         CommitValidation(v, j, vote, receipt)
  PROVE  seats' = [seats EXCEPT ![j] = [seats[j] EXCEPT ![v] = Committed(j, v, vote, receipt)]]
<1>1. seats' = [seats EXCEPT ![j][v].sealed = vote, ![j][v].receipt = receipt]
  BY DEF CommitValidation
<1>2. j \in DOMAIN seats /\ v \in DOMAIN seats[j] /\ seats[j][v] \in SeatType
  BY DEF TypeOK
<1> QED BY <1>1, <1>2 DEF Committed

\* The seat and the round an opened ballot leaves behind.
RevealedSeat(j, v) ==
  [seats[j][v] EXCEPT !.revealed = TRUE, !.approved = seats[j][v].sealed = "approve"]

RevealedRound(j, v) ==
  LET approve == seats[j][v].sealed = "approve"
      stake == seats[j][v].stake
      count == rounds[j].revealedCount + 1
  IN [rounds[j] EXCEPT
        !.revealedCount = count,
        !.approvals = IF approve THEN @ + stake ELSE @,
        !.rejections = IF approve THEN @ ELSE @ + stake,
        !.earlyAt = IF @ = 0 /\ count >= CommitteeSize(j) THEN now + EarlyDelay ELSE @]

LEMMA RevealSeat ==
  ASSUME TypeOK, NEW j \in Jobs, NEW v \in Validators, RevealValidation(v, j)
  PROVE  /\ seats' = [seats EXCEPT ![j] = [seats[j] EXCEPT ![v] = RevealedSeat(j, v)]]
         /\ rounds' = [rounds EXCEPT ![j] = RevealedRound(j, v)]
<1>1. seats' = [seats EXCEPT ![j][v].revealed = TRUE,
                             ![j][v].approved = seats[j][v].sealed = "approve"]
  BY DEF RevealValidation
<1>2. j \in DOMAIN seats /\ v \in DOMAIN seats[j] /\ seats[j][v] \in SeatType
  BY DEF TypeOK
<1>3. seats' = [seats EXCEPT ![j] = [seats[j] EXCEPT ![v] = RevealedSeat(j, v)]]
  BY <1>1, <1>2 DEF RevealedSeat
<1>4. rounds' = [rounds EXCEPT ![j] = RevealedRound(j, v)]
  BY DEF RevealValidation, RevealedRound, TypeOK, RoundType
<1> QED BY <1>3, <1>4

LEMMA CommitTyped ==
  ASSUME TypeOK, NEW j \in Jobs, NEW v \in Validators, NEW vote \in {"approve", "reject"},
         NEW receipt \in BurnSettings, CommitValidation(v, j, vote, receipt)
  PROVE  TypeOK'
<1>1. seats[j][v] \in SeatType /\ receipt \in BOOLEAN
  BY ValidationAssumption DEF TypeOK
<1>2. Committed(j, v, vote, receipt) \in SeatType
  BY <1>1 DEF Committed, SeatType
<1>3. seats' \in [Jobs -> [Validators -> SeatType]]
  BY <1>2, CommitSeat, SeatTyped
<1> QED BY <1>3 DEF TypeOK, CommitValidation, config, registryVars

LEMMA RevealTyped ==
  ASSUME TypeOK, NEW j \in Jobs, NEW v \in Validators, RevealValidation(v, j)
  PROVE  TypeOK'
<1>1. seats[j][v] \in SeatType /\ rounds[j] \in RoundType
  BY DEF TypeOK
<1>2. RevealedSeat(j, v) \in SeatType
  BY <1>1 DEF RevealedSeat, SeatType
<1>3. seats' \in [Jobs -> [Validators -> SeatType]]
  BY <1>2, RevealSeat, SeatTyped
<1>4. now + EarlyDelay \in Nat /\ seats[j][v].stake \in Nat
  BY <1>1, ValidationAssumption DEF TypeOK, SeatType
<1>5. RevealedRound(j, v) \in RoundType
  <2> DEFINE round == rounds[j]
             approve == seats[j][v].sealed = "approve"
             count == round.revealedCount + 1
             approvals == IF approve THEN round.approvals + seats[j][v].stake ELSE round.approvals
             rejections == IF approve THEN round.rejections ELSE round.rejections + seats[j][v].stake
             earlyAt == IF round.earlyAt = 0 /\ count >= CommitteeSize(j)
                        THEN now + EarlyDelay ELSE round.earlyAt
  <2>1. round \in RoundType
    BY <1>1
  <2>2. count \in Nat /\ approvals \in Nat /\ rejections \in Nat /\ earlyAt \in Nat
    <3>1. /\ round.revealedCount \in Nat /\ round.approvals \in Nat
          /\ round.rejections \in Nat /\ round.earlyAt \in Nat
      BY <1>1 DEF RoundType
    <3> HIDE DEF round, approve
    <3> QED BY <1>4, <3>1
  <2>3. RevealedRound(j, v) = [round EXCEPT !.revealedCount = count, !.approvals = approvals,
                                            !.rejections = rejections, !.earlyAt = earlyAt]
    BY <1>1 DEF RevealedRound, RoundType
  <2> HIDE DEF round, approve, count, approvals, rejections, earlyAt
  <2> QED BY <2>1, <2>2, <2>3 DEF RoundType
<1>6. rounds' \in [Jobs -> RoundType]
  <2>1. rounds \in [Jobs -> RoundType]
    BY DEF TypeOK
  <2>2. rounds' = [rounds EXCEPT ![j] = RevealedRound(j, v)]
    BY RevealSeat
  <2> QED BY <1>5, <2>1, <2>2
<1> QED BY <1>3, <1>6 DEF TypeOK, RevealValidation, config, registryVars

LEMMA SelectTyped ==
  ASSUME TypeOK, NEW j \in Jobs, NEW c \in Callers, SelectValidators(j, c)
  PROVE  TypeOK'
<1> DEFINE SelectionType ==
      [Jobs -> [target : Nat, contributors : SUBSET (Callers \cup {Registry})]]
<1>1. UNCHANGED <<bans, stakes, registryVars, config>>
  BY DEF SelectValidators
<1>2. CASE UNCHANGED <<rounds, seats>>
  <2>1. selection' \in SelectionType
    <3>1. CASE selection' = Seed(j, c)
      BY <3>1, SeedTyped
    <3>2. CASE selection' = [selection EXCEPT ![j].contributors = @ \cup {c}]
      BY <3>2 DEF TypeOK
    <3>3. ASSUME NEW strategy \in Strategies, NEW given \in SUBSET (Callers \cup {Registry}),
                 DrawCommittee(j, strategy, given)
          PROVE  selection' \in SelectionType
      BY <3>3 DEF DrawCommittee, TypeOK
    <3>4. selection[j].contributors \cup {c} \in SUBSET (Callers \cup {Registry})
      BY DEF TypeOK
    <3> QED BY <3>1, <3>2, <3>3, <3>4 DEF SelectValidators, TypeOK
  <2> QED BY <1>1, <1>2, <2>1 DEF TypeOK, config, registryVars
<1>3. ASSUME NEW strategy \in Strategies, NEW given \in SUBSET (Callers \cup {Registry}),
             DrawCommittee(j, strategy, given)
      PROVE  TypeOK'
  <2>1. PICK vals : Drawn(j, vals)
    BY <1>3, DrawIsDrawn
  <2>2. selection' \in SelectionType
    BY <1>3 DEF DrawCommittee, TypeOK
  <2>3. /\ rounds' \in [Jobs -> RoundType]
        /\ seats' \in [Jobs -> [Validators -> SeatType]]
    BY <2>1, DrawnTyped
  <2> QED BY <1>1, <2>2, <2>3 DEF TypeOK, config, registryVars
<1>4. selection[j].contributors \cup {c} \in SUBSET (Callers \cup {Registry})
  BY DEF TypeOK
<1> QED BY <1>2, <1>3, <1>4 DEF SelectValidators, TypeOK

\* The steps of the registry, of the owner and of the surroundings.
LEMMA OtherTyped ==
  ASSUME TypeOK
  PROVE  /\ \A j \in Jobs : Job(j) => TypeOK'
         /\ Owner => TypeOK'
         /\ Environment => TypeOK'
<1>1. ASSUME NEW j \in Jobs, Submit(j) PROVE TypeOK'
  <2>1. status' \in [Jobs -> {"Open", "Submitted", "Decided"}] /\ startPending' \subseteq Jobs
    BY <1>1 DEF Submit, TypeOK
  <2>2. CASE UNCHANGED <<rounds, selection>>
    BY <1>1, <2>1, <2>2 DEF Submit, TypeOK, config
  <2>3. CASE Start(j)
    BY <1>1, <2>1, <2>3, StartTyped DEF Submit, TypeOK, config
  <2> QED BY <1>1, <2>2, <2>3 DEF Submit
<1>2. ASSUME NEW j \in Jobs, SubmitBurnReceipt(j) PROVE TypeOK'
  BY <1>2 DEF SubmitBurnReceipt, TypeOK, config
<1>3. ASSUME NEW j \in Jobs, ConfirmEmployerBurn(j) PROVE TypeOK'
  <2>1. /\ evidence' \in [Jobs -> {"none", "receipt", "confirmed"}]
        /\ startPending' \subseteq Jobs
    BY <1>3 DEF ConfirmEmployerBurn, TypeOK
  <2>2. CASE UNCHANGED <<rounds, selection>>
    BY <1>3, <2>1, <2>2 DEF ConfirmEmployerBurn, TypeOK, config
  <2>3. CASE Start(j)
    BY <1>3, <2>1, <2>3, StartTyped DEF ConfirmEmployerBurn, TypeOK, config
  <2> QED BY <1>3, <2>2, <2>3 DEF ConfirmEmployerBurn
<1>4. ASSUME NEW j \in Jobs, ResetJobNonce(j) PROVE TypeOK'
  BY <1>4, CleanupTyped DEF ResetJobNonce, TypeOK, config, registryVars
<1>5. ASSUME NEW j \in Jobs, ResetSelection(j) PROVE TypeOK'
  BY <1>5 DEF ResetSelection, TypeOK, config, registryVars
<1>6. ASSUME NEW p \in Pools, SetValidatorPool(p) PROVE TypeOK'
  BY <1>6 DEF SetValidatorPool, TypeOK, registryVars
<1>7. ASSUME NEW p \in Params, SetParameters(p) PROVE TypeOK'
  BY <1>7 DEF SetParameters, TypeOK, registryVars
<1>8. ASSUME NEW on \in BurnSettings, SetBurn(on) PROVE TypeOK'
  BY <1>8 DEF SetBurn, TypeOK, registryVars
<1>9. ASSUME NEW v \in Validators, NEW amount \in StakeChanges, ChangeStake(v, amount)
      PROVE  TypeOK'
  BY <1>9, ValidationAssumption DEF ChangeStake, TypeOK, registryVars, config
<1>10. ASSUME NEW v \in Blacklistable, SetBlacklist(v) PROVE TypeOK'
  BY <1>10, ValidationAssumption DEF SetBlacklist, TypeOK, registryVars
<1>11. ASSUME Tick PROVE TypeOK'
  BY <1>11 DEF Tick, TypeOK, registryVars
<1>12. ASSUME NEW j \in Jobs, Job(j) PROVE TypeOK'
  BY <1>1, <1>2, <1>3, <1>12 DEF Job
<1>13. ASSUME Owner PROVE TypeOK'
  BY <1>4, <1>5, <1>6, <1>7, <1>13 DEF Owner
<1>14. ASSUME Environment PROVE TypeOK'
  BY <1>8, <1>9, <1>10, <1>11, <1>14 DEF Environment
<1> QED BY <1>12, <1>13, <1>14

LEMMA TypeStep == TypeOK /\ [Next]_vars => TypeOK'
<1> SUFFICES ASSUME TypeOK, [Next]_vars PROVE TypeOK'
  OBVIOUS
<1>1. ASSUME NEW j \in Jobs, Voting(j) PROVE TypeOK'
  BY <1>1, SelectTyped, CommitTyped, RevealTyped, FinalizeTyped, ForceFinalizeTyped DEF Voting
<1>2. ASSUME UNCHANGED vars PROVE TypeOK'
  BY <1>2 DEF vars, registryVars, config, TypeOK
<1> QED BY <1>1, <1>2, OtherTyped DEF Next

LEMMA TypeInit == Init => TypeOK
<1> SUFFICES ASSUME Init PROVE TypeOK
  OBVIOUS
<1>1. NoRound \in RoundType /\ NoSeat \in SeatType
  BY EmptySeq DEF NoRound, RoundType, NoSeat, SeatType
<1> QED BY <1>1, ValidationAssumption DEF Init, TypeOK

\* No variable leaves its type; in particular a tally or a forced end never
\* takes more stake than the validator has.
THEOREM ValidationTypeCorrect == Spec => []TypeOK
BY TypeInit, TypeStep, PTL DEF Spec
-----------------------------------------------------------------------------
(* The invariant of one round. *)

\* The owner leaves maxValidatorsPerJob as it is.
FixedLimit == \A p, q \in Params : p.limit = q.limit

SeatOK(j, v) ==
  LET seat == seats[j][v] IN
  IF v \in Range(rounds[j].validators)
  THEN /\ seat.member /\ seat.stake > 0
       /\ seat.revealed => seat.sealed # "none"
       /\ seat.approved <=> seat.revealed /\ seat.sealed = "approve"
  ELSE seat = NoSeat

\* The loops of a tally reach the whole committee; nobody has voted before
\* there is a committee or before its commits have closed; and approving stake
\* is the stake of somebody who approves.
RoundOK(j) ==
  LET round == rounds[j] IN
  /\ Len(round.validators) <= params.limit
  /\ round.validators = <<>> => round.revealedCount = 0 /\ round.earlyAt = 0
  /\ round.validators # <<>> => round.commitDeadline <= round.revealDeadline
  /\ round.revealedCount # 0 \/ round.earlyAt # 0 => now > round.commitDeadline
  /\ round.approvals > 0 => Approving(j) # {}
  /\ verdict[j] # "none" => status[j] = "Decided"

JobOK(j) == RoundOK(j) /\ \A v \in Validators : SeatOK(j, v)

IInv == TypeOK /\ \A j \in Jobs : JobOK(j)

\* Nothing that JobOK and the phase of a job speak of changes.
Unmoved(k) ==
  /\ rounds'[k] = rounds[k] /\ seats'[k] = seats[k]
  /\ status'[k] = status[k] /\ verdict'[k] = verdict[k]

Local(j) == now' = now /\ params' = params /\ \A k \in Jobs \ {j} : Unmoved(k)

LEMMA UnmovedKeeps ==
  ASSUME NEW k \in Jobs, JobOK(k), Unmoved(k), now' = now, params' = params
  PROVE  /\ JobOK(k)'
         /\ PhaseOf(k)' = PhaseOf(k)
         /\ Revealed(k)' = Revealed(k)
<1>1. Revealed(k)' = Revealed(k) /\ Approving(k)' = Approving(k)
  BY DEF Unmoved, Revealed, Approving
<1>2. RoundOK(k)'
  BY <1>1 DEF JobOK, RoundOK, Unmoved
<1>3. \A v \in Validators : SeatOK(k, v)'
  BY DEF JobOK, SeatOK, Unmoved
<1>4. PhaseOf(k)' = PhaseOf(k)
  BY DEF PhaseOf, Unmoved
<1> QED BY <1>1, <1>2, <1>3, <1>4 DEF JobOK

\* A step that moves one job is a step of that job in SealedVote.
Elsewhere(j) ==
  \A k \in Jobs \ {j} :
    /\ JobOK(k)'
    /\ PhaseOf(k)' = PhaseOf(k)
    /\ Revealed(k)' = Revealed(k)
    /\ seats'[k] = seats[k]
    /\ verdict'[k] = verdict[k]

LEMMA LocalElsewhere ==
  ASSUME IInv, NEW j \in Jobs, Local(j)
  PROVE  Elsewhere(j)
BY UnmovedKeeps DEF IInv, Local, Elsewhere, Unmoved

LEMMA EmptyBench ==
  ASSUME IInv, NEW j \in Jobs, rounds[j].validators = <<>>
  PROVE  /\ \A v \in Validators : seats[j][v] = NoSeat
         /\ Revealed(j) = {} /\ Approving(j) = {}
         /\ ~ rounds[j].approvals > 0
<1>1. Range(<<>>) = {}
  BY DEF Range
<1>2. \A v \in Validators : seats[j][v] = NoSeat
  BY <1>1 DEF IInv, JobOK, SeatOK
<1>3. Revealed(j) = {}
  BY <1>2 DEF Revealed, NoSeat
<1>4. Approving(j) = {}
  BY <1>3 DEF Approving
<1> QED BY <1>2, <1>3, <1>4 DEF IInv, JobOK, RoundOK

\* Within the limit the loops of a tally and of _cleanup miss nobody.
LEMMA BenchPlaces ==
  ASSUME IInv, NEW j \in Jobs
  PROVE  /\ DOMAIN Bench(j) = DOMAIN rounds[j].validators
         /\ \A i \in DOMAIN Bench(j) : Bench(j)[i] = rounds[j].validators[i]
<1> DEFINE vals == rounds[j].validators
           n == AtMost(Len(vals), params.limit)
<1>1. vals \in Seq(Validators) /\ Len(vals) <= params.limit
  BY DEF IInv, TypeOK, RoundType, JobOK, RoundOK
<1>2. n = Len(vals) /\ n \in Nat /\ DOMAIN vals = 1..n
  BY <1>1, LenProperties DEF AtMost
<1>3. \A i \in 1..n : vals[i] \in Validators
  BY <1>1, <1>2, ElementOfSeq
<1>4. Bench(j) = SubSeq(vals, 1, n)
  BY DEF Bench
<1> HIDE DEF vals, n
<1>5. \A i \in 1..(n - 1 + 1) : SubSeq(vals, 1, n)[i] = vals[1 + i - 1]
  BY <1>2, <1>3, SubSeqProperties
<1>6. \A i \in 1..n : Bench(j)[i] = vals[i]
  BY <1>2, <1>4, <1>5
<1>7. DOMAIN Bench(j) = 1..n
  <2>1. DOMAIN Bench(j) = 1..Len(Bench(j)) /\ Len(Bench(j)) = n
    BY BenchTyped DEF IInv, n, vals
  <2> QED BY <2>1
<1> QED BY <1>2, <1>6, <1>7 DEF vals

LEMMA WholeBench ==
  ASSUME IInv, NEW j \in Jobs
  PROVE  Seated(j) = Range(rounds[j].validators)
BY BenchPlaces DEF Seated, Range

LEMMA CleanedUp ==
  ASSUME IInv, NEW j \in Jobs, Cleanup(j)
  PROVE  /\ rounds' = [rounds EXCEPT ![j] = NoRound]
         /\ seats' = [seats EXCEPT ![j] = [v \in Validators |-> NoSeat]]
<1>1. \A v \in Validators : v \notin Seated(j) => seats[j][v] = NoSeat
  BY WholeBench DEF IInv, JobOK, SeatOK
<1>2. Emptied(j) = [v \in Validators |-> NoSeat]
  BY <1>1 DEF Emptied
<1> QED BY <1>2 DEF Cleanup

\* A job without a committee meets the conditions of a round.
LEMMA CleanIsOK ==
  ASSUME TypeOK', NEW j \in Jobs, rounds'[j] = NoRound,
         \A v \in Validators : seats'[j][v] = NoSeat,
         verdict'[j] # "none" => status'[j] = "Decided"
  PROVE  /\ JobOK(j)'
         /\ PhaseOf(j)' = "Idle"
         /\ Revealed(j)' = {}
<1>1. params'.limit \in Nat
  BY ValidationAssumption DEF TypeOK, ParamType
<1>2. Len(<<>>) = 0 /\ Range(<<>>) = {}
  BY EmptySeq DEF Range
<1>3. \A v \in Validators : SeatOK(j, v)'
  BY <1>2 DEF SeatOK, NoRound
<1>4. Revealed(j)' = {}
  BY DEF Revealed, NoSeat
<1>5. RoundOK(j)'
  BY <1>1, <1>2 DEF RoundOK, NoRound
<1>6. PhaseOf(j)' = "Idle"
  BY DEF PhaseOf, NoRound
<1> QED BY <1>3, <1>4, <1>5, <1>6 DEF JobOK
-----------------------------------------------------------------------------
(* Each step keeps the invariant and is a step of SealedVote or none. *)

MembersOf(j) == {v \in Validators : seats[j][v].member}
BallotsOf(j) == [v \in Validators |-> seats[j][v].sealed]

Jobwise == \A j \in Jobs : JobOK(j)
VoteStep == [Sealing!Move]_Sealing!sealedVars

\* Steps that change neither who votes nor how: the size a start asks for and
\* the registry's status may change.
Idle ==
  /\ seats' = seats /\ verdict' = verdict /\ now' = now
  /\ params'.limit = params.limit
  /\ \A j \in Jobs :
       /\ rounds'[j] = [rounds[j] EXCEPT !.committeeSize = rounds'[j].committeeSize]
       /\ status[j] = "Decided" => status'[j] = "Decided"

LEMMA IdleKeeps == ASSUME IInv, Idle PROVE Jobwise' /\ VoteStep
<1>1. ASSUME NEW j \in Jobs
      PROVE  /\ JobOK(j)'
             /\ PhaseOf(j)' = PhaseOf(j)
             /\ Revealed(j)' = Revealed(j)
  <2>1. /\ rounds'[j].validators = rounds[j].validators
        /\ rounds'[j].commitDeadline = rounds[j].commitDeadline
        /\ rounds'[j].revealDeadline = rounds[j].revealDeadline
        /\ rounds'[j].revealedCount = rounds[j].revealedCount
        /\ rounds'[j].earlyAt = rounds[j].earlyAt
        /\ rounds'[j].approvals = rounds[j].approvals
    <3>1. rounds[j] \in RoundType
      BY DEF IInv, TypeOK
    <3> QED BY <3>1 DEF Idle, RoundType
  <2>2. Revealed(j)' = Revealed(j) /\ Approving(j)' = Approving(j)
    BY DEF Idle, Revealed, Approving
  <2>3. JobOK(j)
    BY DEF IInv
  <2>4. RoundOK(j)'
    BY <2>1, <2>2, <2>3 DEF Idle, JobOK, RoundOK
  <2>5. \A v \in Validators : SeatOK(j, v)'
    BY <2>1, <2>3 DEF Idle, JobOK, SeatOK
  <2>6. PhaseOf(j)' = PhaseOf(j)
    BY <2>1 DEF Idle, PhaseOf
  <2> QED BY <2>2, <2>4, <2>5, <2>6 DEF JobOK
<1>2. UNCHANGED Sealing!sealedVars
  BY <1>1 DEF Idle, Sealing!sealedVars
<1> QED BY <1>1, <1>2 DEF Jobwise, VoteStep

LEMMA CommitKeeps ==
  ASSUME IInv, TypeOK', NEW j \in Jobs, NEW v \in Validators,
         NEW vote \in {"approve", "reject"}, NEW receipt \in BurnSettings,
         CommitValidation(v, j, vote, receipt)
  PROVE  Jobwise' /\ VoteStep
<1>1. seats' = [seats EXCEPT ![j] = [seats[j] EXCEPT ![v] = Committed(j, v, vote, receipt)]]
  BY CommitSeat DEF IInv
<1>2. /\ rounds' = rounds /\ status' = status /\ verdict' = verdict /\ now' = now /\ params' = params
      /\ rounds[j].commitDeadline >= now /\ seats[j][v].member /\ seats[j][v].sealed = "none"
  BY DEF CommitValidation, config, registryVars, IInv, TypeOK, RoundType
<1>3. /\ seats \in [Jobs -> [Validators -> SeatType]] /\ JobOK(j)
  BY DEF IInv, TypeOK
<1>4. Elsewhere(j)
  BY <1>1, <1>2, <1>3, LocalElsewhere DEF Local, Unmoved
<1>5. /\ seats'[j][v] = Committed(j, v, vote, receipt)
      /\ \A w \in Validators \ {v} : seats'[j][w] = seats[j][w]
  BY <1>1, <1>3
<1>6. /\ Committed(j, v, vote, receipt).member = seats[j][v].member
      /\ Committed(j, v, vote, receipt).stake = seats[j][v].stake
      /\ Committed(j, v, vote, receipt).sealed = vote
      /\ Committed(j, v, vote, receipt).revealed = seats[j][v].revealed
      /\ Committed(j, v, vote, receipt).approved = seats[j][v].approved
  BY <1>3 DEF Committed, SeatType
<1>7. /\ v \in Range(rounds[j].validators)
      /\ ~ seats[j][v].revealed
      /\ ~ seats[j][v].approved
  BY <1>2, <1>3 DEF JobOK, SeatOK, NoSeat
<1>8. Revealed(j)' = Revealed(j) /\ Approving(j)' = Approving(j)
  BY <1>5, <1>6 DEF Revealed, Approving
<1>9. RoundOK(j)'
  BY <1>2, <1>3, <1>8 DEF JobOK, RoundOK
<1>10. \A w \in Validators : SeatOK(j, w)'
  <2>1. SeatOK(j, v)'
    BY <1>2, <1>3, <1>5, <1>6, <1>7 DEF JobOK, SeatOK
  <2>2. \A w \in Validators \ {v} : SeatOK(j, w)'
    BY <1>2, <1>3, <1>5 DEF JobOK, SeatOK
  <2> QED BY <2>1, <2>2
<1>11. Jobwise'
  BY <1>4, <1>9, <1>10 DEF Jobwise, JobOK, Elsewhere
<1>12. PhaseOf(j) = "Sealing" /\ PhaseOf(j)' = PhaseOf(j)
  <2>1. rounds[j].validators # <<>>
    BY <1>7 DEF Range
  <2> QED BY <1>2, <2>1 DEF PhaseOf, IInv, TypeOK, RoundType
<1>13. Sealing!Cast(j, v, vote)
  <2>1. \A k \in Jobs : MembersOf(k)' = MembersOf(k)
    BY <1>4, <1>5, <1>6 DEF MembersOf, Elsewhere
  <2>2. BallotsOf(j)' = [BallotsOf(j) EXCEPT ![v] = vote]
    BY <1>5, <1>6 DEF BallotsOf
  <2>3. \A k \in Jobs \ {j} : BallotsOf(k)' = BallotsOf(k)
    BY <1>4 DEF BallotsOf, Elsewhere
  <2>4. \A k \in Jobs : PhaseOf(k)' = PhaseOf(k) /\ Revealed(k)' = Revealed(k)
    BY <1>4, <1>8, <1>12 DEF Elsewhere
  <2>5. v \in MembersOf(j) /\ BallotsOf(j)[v] = "none"
    BY <1>2 DEF MembersOf, BallotsOf
  <2>6. [k \in Jobs |-> BallotsOf(k)]' = [[k \in Jobs |-> BallotsOf(k)] EXCEPT ![j][v] = vote]
    BY <2>2, <2>3
  <2> QED BY <1>2, <1>12, <2>1, <2>4, <2>5, <2>6 DEF Sealing!Cast, MembersOf, BallotsOf
<1>14. Sealing!Move
  BY <1>13 DEF Sealing!Move, Sealing!Votes
<1> QED BY <1>11, <1>14 DEF VoteStep

LEMMA RevealKeeps ==
  ASSUME IInv, TypeOK', NEW j \in Jobs, NEW v \in Validators, RevealValidation(v, j)
  PROVE  Jobwise' /\ VoteStep
<1> DEFINE seat == RevealedSeat(j, v)
           round == RevealedRound(j, v)
<1>1. /\ seats' = [seats EXCEPT ![j] = [seats[j] EXCEPT ![v] = seat]]
      /\ rounds' = [rounds EXCEPT ![j] = round]
  BY RevealSeat DEF IInv
<1>2. /\ status' = status /\ verdict' = verdict /\ now' = now /\ params' = params
      /\ now > rounds[j].commitDeadline /\ seats[j][v].member
      /\ seats[j][v].sealed # "none" /\ ~ seats[j][v].revealed
  BY DEF RevealValidation, RevealWindow, Sealed, config, registryVars
<1>3. /\ seats \in [Jobs -> [Validators -> SeatType]] /\ rounds \in [Jobs -> RoundType]
      /\ JobOK(j)
  BY DEF IInv, TypeOK
<1>4. /\ seat.member = seats[j][v].member
      /\ seat.stake = seats[j][v].stake
      /\ seat.sealed = seats[j][v].sealed
      /\ seat.revealed
      /\ seat.approved <=> seats[j][v].sealed = "approve"
  <2>1. seats[j][v] \in SeatType
    BY <1>3
  <2>2. seat = [seats[j][v] EXCEPT !.revealed = TRUE, !.approved = seats[j][v].sealed = "approve"]
    BY DEF RevealedSeat
  <2>3. /\ seat.member = seats[j][v].member
        /\ seat.stake = seats[j][v].stake
        /\ seat.sealed = seats[j][v].sealed
    BY <2>1, <2>2 DEF SeatType
  <2>4. seat.revealed = TRUE
    BY <2>1, <2>2 DEF SeatType
  <2>5. seat.approved = (seats[j][v].sealed = "approve")
    BY <2>1, <2>2 DEF SeatType
  <2> QED BY <2>3, <2>4, <2>5
<1>5. /\ round.validators = rounds[j].validators
      /\ round.commitDeadline = rounds[j].commitDeadline
      /\ round.revealDeadline = rounds[j].revealDeadline
      /\ seats[j][v].sealed # "approve" => round.approvals = rounds[j].approvals
  BY <1>3 DEF RevealedRound, RoundType
<1> HIDE DEF seat, round
<1>6. /\ seats'[j][v] = seat
      /\ \A w \in Validators \ {v} : seats'[j][w] = seats[j][w]
      /\ rounds'[j] = round
  BY <1>1, <1>3
<1>7. Elsewhere(j)
  BY <1>1, <1>2, <1>3, LocalElsewhere DEF Local, Unmoved
<1>8. v \in Range(rounds[j].validators)
  BY <1>2, <1>3 DEF JobOK, SeatOK, NoSeat
<1>9. rounds[j].validators # <<>>
  BY <1>8 DEF Range
<1>10. Revealed(j)' = Revealed(j) \cup {v}
  BY <1>4, <1>6 DEF Revealed
<1>11. Approving(j) \subseteq Approving(j)'
  BY <1>2, <1>6, <1>10 DEF Approving, Revealed
<1>12. seats[j][v].sealed = "approve" => v \in Approving(j)'
  BY <1>4, <1>6, <1>10 DEF Approving
<1>13. RoundOK(j)'
  BY <1>2, <1>3, <1>5, <1>6, <1>9, <1>11, <1>12 DEF JobOK, RoundOK
<1>14. \A w \in Validators : SeatOK(j, w)'
  <2>1. SeatOK(j, v)'
    BY <1>2, <1>3, <1>4, <1>5, <1>6, <1>8 DEF JobOK, SeatOK
  <2>2. \A w \in Validators \ {v} : SeatOK(j, w)'
    BY <1>3, <1>5, <1>6 DEF JobOK, SeatOK
  <2> QED BY <2>1, <2>2
<1>15. Jobwise'
  BY <1>7, <1>13, <1>14 DEF Jobwise, JobOK, Elsewhere
<1>16. PhaseOf(j) = "Opening" /\ PhaseOf(j)' = PhaseOf(j)
  <2>1. now \in Nat /\ rounds[j].commitDeadline \in Nat
    BY <1>3 DEF IInv, TypeOK, RoundType
  <2> QED BY <1>2, <1>5, <1>6, <1>9, <2>1 DEF PhaseOf
<1>17. Sealing!Open(j, v)
  <2>1. \A k \in Jobs : MembersOf(k)' = MembersOf(k)
    BY <1>4, <1>6, <1>7 DEF MembersOf, Elsewhere
  <2>2. \A k \in Jobs : BallotsOf(k)' = BallotsOf(k)
    BY <1>4, <1>6, <1>7 DEF BallotsOf, Elsewhere
  <2>3. \A k \in Jobs : PhaseOf(k)' = PhaseOf(k)
    BY <1>7, <1>16 DEF Elsewhere
  <2>4. \A k \in Jobs \ {j} : Revealed(k)' = Revealed(k)
    BY <1>7 DEF Elsewhere
  <2>5. v \in MembersOf(j) /\ v \notin Revealed(j) /\ BallotsOf(j)[v] # "none"
    BY <1>2 DEF MembersOf, BallotsOf, Revealed
  <2>6. [k \in Jobs |-> Revealed(k)]' = [[k \in Jobs |-> Revealed(k)] EXCEPT ![j] = @ \cup {v}]
    BY <1>10, <2>4
  <2> QED BY <1>2, <1>16, <2>1, <2>2, <2>3, <2>5, <2>6 DEF Sealing!Open, MembersOf, BallotsOf
<1>18. Sealing!Move
  BY <1>17 DEF Sealing!Move
<1> QED BY <1>15, <1>18 DEF VoteStep

LEMMA DrawKeeps ==
  ASSUME IInv, TypeOK', NEW j \in Jobs, NEW vals, Drawn(j, vals),
         rounds[j].validators = <<>>,
         UNCHANGED <<bans, stakes, registryVars, config>>
  PROVE  Jobwise' /\ VoteStep
<1>1. /\ status' = status /\ verdict' = verdict /\ now' = now /\ params' = params
  BY DEF config, registryVars
<1>2. /\ seats \in [Jobs -> [Validators -> SeatType]] /\ rounds \in [Jobs -> RoundType]
      /\ JobOK(j) /\ now \in Nat
      /\ params.commitWindow \in Nat /\ params.revealWindow \in Nat
      /\ params.commitWindow > 0
  BY ParamsTyped DEF IInv, TypeOK, ParamType
<1>3. /\ rounds'[j].validators = vals
      /\ rounds'[j].commitDeadline = now + params.commitWindow
      /\ rounds'[j].revealDeadline = now + params.commitWindow + params.revealWindow
      /\ rounds'[j].revealedCount = rounds[j].revealedCount
      /\ rounds'[j].earlyAt = rounds[j].earlyAt
      /\ rounds'[j].approvals = rounds[j].approvals
  BY <1>2 DEF Drawn, RoundType
<1>4. /\ \A v \in Validators : seats[j][v] = NoSeat
      /\ Revealed(j) = {}
      /\ ~ rounds[j].approvals > 0
  BY EmptyBench
<1>5. \A v \in Validators :
        /\ v \in Range(vals) => seats'[j][v] = [NoSeat EXCEPT !.member = TRUE, !.stake = stakes[v]]
        /\ v \notin Range(vals) => seats'[j][v] = NoSeat
  BY <1>2, <1>4 DEF Drawn
<1>6. Elsewhere(j)
  BY <1>1, <1>2, LocalElsewhere DEF Drawn, Local, Unmoved
<1>7. /\ vals # <<>> /\ Len(vals) <= params.limit
      /\ \A v \in Range(vals) : v \in Validators /\ stakes[v] > 0
  <2>1. Len(<<>>) = 0
    BY EmptySeq
  <2>2. Len(vals) > 0 /\ Len(vals) <= params.limit
    BY DEF Drawn
  <2>3. vals # <<>>
    BY <2>1, <2>2
  <2> QED BY <2>2, <2>3 DEF Drawn
<1>8. Revealed(j)' = Revealed(j)
  BY <1>4, <1>5 DEF Revealed, NoSeat
<1>9. RoundOK(j)'
  BY <1>1, <1>2, <1>3, <1>4, <1>7 DEF JobOK, RoundOK
<1>10. \A v \in Validators : SeatOK(j, v)'
  BY <1>3, <1>5, <1>7 DEF SeatOK, NoSeat
<1>11. Jobwise'
  BY <1>6, <1>9, <1>10 DEF Jobwise, JobOK, Elsewhere
<1>12. PhaseOf(j) = "Idle" /\ PhaseOf(j)' = "Sealing"
  BY <1>1, <1>2, <1>3, <1>7 DEF PhaseOf
<1>13. Range(vals) # {} /\ Range(vals) \subseteq Validators
  <2>1. 1 \in DOMAIN vals
    <3>1. vals \in Seq(Validators) /\ Len(vals) > 0
      BY DEF Drawn
    <3>2. Len(vals) \in Nat /\ DOMAIN vals = 1..Len(vals)
      BY <3>1, LenProperties
    <3> QED BY <3>1, <3>2
  <2> QED BY <1>7, <2>1 DEF Range
<1>14. \A v \in Validators :
         /\ seats'[j][v].member <=> v \in Range(vals)
         /\ seats'[j][v].sealed = "none"
  <2>1. ASSUME NEW v \in Validators, v \in Range(vals)
        PROVE  seats'[j][v].member = TRUE /\ seats'[j][v].sealed = "none"
    <3>1. seats'[j][v] = [NoSeat EXCEPT !.member = TRUE, !.stake = stakes[v]]
      BY <1>5, <2>1
    <3> QED BY <3>1 DEF NoSeat
  <2>2. ASSUME NEW v \in Validators, v \notin Range(vals)
        PROVE  seats'[j][v].member = FALSE /\ seats'[j][v].sealed = "none"
    <3>1. seats'[j][v] = NoSeat
      BY <1>5, <2>2
    <3> QED BY <3>1 DEF NoSeat
  <2> QED BY <2>1, <2>2
<1>15. Sealing!Seat(j, Range(vals))
  <2>1. MembersOf(j)' = Range(vals)
    BY <1>13, <1>14 DEF MembersOf
  <2>2. \A k \in Jobs \ {j} : MembersOf(k)' = MembersOf(k)
    BY <1>6 DEF MembersOf, Elsewhere
  <2>3. \A k \in Jobs : BallotsOf(k)' = BallotsOf(k)
    BY <1>4, <1>6, <1>14 DEF BallotsOf, Elsewhere, NoSeat
  <2>4. \A k \in Jobs : Revealed(k)' = Revealed(k)
    BY <1>6, <1>8 DEF Elsewhere
  <2>5. [k \in Jobs |-> MembersOf(k)]'
          = [[k \in Jobs |-> MembersOf(k)] EXCEPT ![j] = Range(vals)]
    BY <2>1, <2>2
  <2>6. [k \in Jobs |-> PhaseOf(k)]' = [[k \in Jobs |-> PhaseOf(k)] EXCEPT ![j] = "Sealing"]
    BY <1>6, <1>12 DEF Elsewhere
  <2> QED BY <1>1, <1>12, <1>13, <2>3, <2>4, <2>5, <2>6 DEF Sealing!Seat, MembersOf, BallotsOf
<1>16. Sealing!Move
  BY <1>13, <1>15 DEF Sealing!Move
<1> QED BY <1>11, <1>16 DEF VoteStep

\* A round is ended, with or without a judgement: its seats are emptied.
LEMMA EndEmpties ==
  ASSUME IInv, TypeOK', NEW j \in Jobs, Cleanup(j), now' = now, params' = params,
         \A k \in Jobs \ {j} : status'[k] = status[k] /\ verdict'[k] = verdict[k],
         verdict'[j] # "none" => status'[j] = "Decided"
  PROVE  Jobwise' /\ Sealing!Dissolve(j)
<1>1. /\ rounds' = [rounds EXCEPT ![j] = NoRound]
      /\ seats' = [seats EXCEPT ![j] = [v \in Validators |-> NoSeat]]
  BY CleanedUp
<1>2. /\ seats \in [Jobs -> [Validators -> SeatType]] /\ rounds \in [Jobs -> RoundType]
  BY DEF IInv, TypeOK
<1>3. Elsewhere(j)
  BY <1>1, <1>2, LocalElsewhere DEF Local, Unmoved
<1>4. rounds'[j] = NoRound /\ \A v \in Validators : seats'[j][v] = NoSeat
  BY <1>1, <1>2
<1>5. JobOK(j)' /\ PhaseOf(j)' = "Idle" /\ Revealed(j)' = {}
  BY <1>4, CleanIsOK
<1>6. Jobwise'
  BY <1>3, <1>5 DEF Jobwise, Elsewhere
<1>7. MembersOf(j)' = {} /\ BallotsOf(j)' = [v \in Validators |-> "none"]
  BY <1>4 DEF MembersOf, BallotsOf, NoSeat
<1>8. \A k \in Jobs \ {j} : MembersOf(k)' = MembersOf(k) /\ BallotsOf(k)' = BallotsOf(k)
  BY <1>3 DEF MembersOf, BallotsOf, Elsewhere
<1>9. /\ [k \in Jobs |-> PhaseOf(k)]' = [[k \in Jobs |-> PhaseOf(k)] EXCEPT ![j] = "Idle"]
      /\ [k \in Jobs |-> Revealed(k)]' = [[k \in Jobs |-> Revealed(k)] EXCEPT ![j] = {}]
  BY <1>3, <1>5 DEF Elsewhere
<1>10. [k \in Jobs |-> MembersOf(k)]' = [[k \in Jobs |-> MembersOf(k)] EXCEPT ![j] = {}]
  BY <1>7, <1>8
<1>11. [k \in Jobs |-> BallotsOf(k)]'
         = [[k \in Jobs |-> BallotsOf(k)] EXCEPT ![j] = [v \in Validators |-> "none"]]
  BY <1>7, <1>8
<1>12. Sealing!Dissolve(j)
  BY <1>9, <1>10, <1>11 DEF Sealing!Dissolve, Sealing!NoBallots, MembersOf, BallotsOf
<1> QED BY <1>6, <1>12

LEMMA JudgeKeeps ==
  ASSUME IInv, TypeOK', NEW j \in Jobs, NEW ok \in BOOLEAN, Report(j, ok), Cleanup(j),
         UNCHANGED config,
         PhaseOf(j) # "Sealing",
         ok => \E v \in Revealed(j) : seats[j][v].sealed = "approve"
  PROVE  Jobwise' /\ VoteStep
<1>1. now' = now /\ params' = params
  BY DEF config
<1>2. /\ status[j] = "Submitted"
      /\ status' = [status EXCEPT ![j] = "Decided"]
      /\ verdict' = [verdict EXCEPT ![j] = IF ok THEN "approved" ELSE "rejected"]
  BY DEF Report
<1>3. verdict[j] = "none"
  BY <1>2 DEF IInv, JobOK, RoundOK
<1>4. /\ status'[j] = "Decided"
      /\ \A k \in Jobs \ {j} : status'[k] = status[k] /\ verdict'[k] = verdict[k]
  BY <1>2 DEF IInv, TypeOK
<1>5. Jobwise' /\ Sealing!Dissolve(j)
  BY <1>1, <1>4, EndEmpties
<1>6. ok => \E v \in Revealed(j) : BallotsOf(j)[v] = "approve"
  BY DEF BallotsOf, Revealed
<1>7. Sealing!Judge(j, ok)
  BY <1>2, <1>3, <1>5, <1>6 DEF Sealing!Judge, BallotsOf
<1>8. Sealing!Move
  BY <1>7 DEF Sealing!Move
<1> QED BY <1>5, <1>8 DEF VoteStep

LEMMA PositiveShare ==
  ASSUME NEW a \in Nat, NEW t \in Nat \ {0}, NEW h \in Nat \ {0}, a * 100 >= t * h
  PROVE  a > 0
<1>1. t * h > 0
  OBVIOUS
<1> QED BY <1>1

\* With a committee, a tally comes after the commits have closed.
LEMMA TallyAfterCommits ==
  ASSUME IInv, NEW j \in Jobs, MayTally(j), rounds[j].validators # <<>>
  PROVE  now > rounds[j].commitDeadline
<1> DEFINE round == rounds[j]
<1>1. round \in RoundType /\ now \in Nat /\ RoundOK(j)
  BY DEF IInv, TypeOK, JobOK
<1>2. round.validators \in Seq(Validators)
  BY <1>1 DEF RoundType
<1>3. Len(round.validators) # 0
  BY <1>2, EmptySeq
<1>4. CASE round.revealedCount = Len(round.validators)
  BY <1>1, <1>3, <1>4 DEF RoundOK
<1>5. CASE round.earlyAt # 0
  BY <1>1, <1>5 DEF RoundOK
<1>6. CASE now > round.revealDeadline
  BY <1>1, <1>6 DEF RoundOK, RoundType
<1> QED BY <1>4, <1>5, <1>6 DEF MayTally

LEMMA ApprovedHasVote ==
  ASSUME IInv, NEW j \in Jobs, Approved(j)
  PROVE  /\ rounds[j].approvals > 0
         /\ \E v \in Approving(j) : seats[j][v].sealed = "approve"
<1> DEFINE round == rounds[j]
<1>1. /\ round \in RoundType /\ RoundOK(j)
      /\ \A v \in Validators : SeatOK(j, v)
  BY DEF IInv, TypeOK, JobOK
<1>2. /\ round.approvals \in Nat /\ round.approvals + round.rejections \in Nat
      /\ round.approvals + round.rejections > 0
      /\ round.approvals * 100 >= (round.approvals + round.rejections) * params.threshold
  BY <1>1 DEF Approved, RoundType
<1>3. params.threshold \in Nat \ {0}
  BY ParamsTyped DEF ParamType, IInv
<1>4. round.approvals > 0
  BY <1>2, <1>3, PositiveShare
<1>5. PICK v \in Approving(j) : TRUE
  BY <1>1, <1>4 DEF RoundOK
<1>6. v \in Revealed(j) /\ seats[j][v].approved
  BY <1>5 DEF Approving
<1>7. seats[j][v].sealed = "approve"
  BY <1>1, <1>6 DEF Revealed, SeatOK, NoSeat
<1> QED BY <1>4, <1>7

LEMMA FinalizeKeeps ==
  ASSUME IInv, TypeOK', NEW j \in Jobs, Finalize(j)
  PROVE  Jobwise' /\ VoteStep
<1>1. rounds[j] \in RoundType /\ now \in Nat
  BY DEF IInv, TypeOK
<1>2. PhaseOf(j) # "Sealing"
  BY <1>1, TallyAfterCommits DEF Finalize, PhaseOf, RoundType
<1>3. ASSUME Approved(j) PROVE \E v \in Revealed(j) : seats[j][v].sealed = "approve"
  BY <1>3, ApprovedHasVote DEF Approving
<1>4. Approved(j) \in BOOLEAN
  BY DEF Approved
<1> QED BY <1>2, <1>3, <1>4, JudgeKeeps DEF Finalize

LEMMA ForceFinalizeKeeps ==
  ASSUME IInv, TypeOK', NEW j \in Jobs, ForceFinalize(j)
  PROVE  Jobwise' /\ VoteStep
<1>1. CASE Finalize(j)
  BY <1>1, FinalizeKeeps
<1>2. CASE ~Quorum(j) /\ Report(j, FALSE)
  <2>1. /\ RoundOK(j) /\ now \in Nat /\ Grace \in Nat
        /\ rounds[j].commitDeadline \in Nat /\ rounds[j].revealDeadline \in Nat
    BY ValidationAssumption DEF IInv, JobOK, TypeOK, RoundType
  <2>2. PhaseOf(j) # "Sealing"
    BY <2>1 DEF ForceFinalize, GraceOver, PhaseOf, RoundOK
  <2> QED BY <1>2, <2>2, JudgeKeeps DEF ForceFinalize, Finalize
<1> QED BY <1>1, <1>2 DEF ForceFinalize

LEMMA ResetKeeps ==
  ASSUME IInv, TypeOK', NEW j \in Jobs, ResetJobNonce(j)
  PROVE  Jobwise' /\ VoteStep
<1>1. now' = now /\ params' = params /\ status' = status /\ verdict' = verdict
  BY DEF ResetJobNonce, config, registryVars
<1>2. verdict[j] # "none" => status[j] = "Decided"
  BY DEF IInv, JobOK, RoundOK
<1>3. Jobwise' /\ Sealing!Dissolve(j)
  BY <1>1, <1>2, EndEmpties DEF ResetJobNonce
<1>4. Sealing!Abandon(j)
  BY <1>1, <1>3 DEF Sealing!Abandon
<1>5. Sealing!Move
  BY <1>4 DEF Sealing!Move
<1> QED BY <1>3, <1>5 DEF VoteStep

LEMMA TickKeeps == ASSUME IInv, TypeOK', Tick PROVE Jobwise' /\ VoteStep
<1>1. /\ rounds' = rounds /\ seats' = seats /\ status' = status /\ verdict' = verdict
      /\ params' = params /\ now' = now + 1 /\ now \in Nat
      /\ rounds \in [Jobs -> RoundType]
  BY DEF Tick, registryVars, IInv, TypeOK
<1>2. \A j \in Jobs : rounds[j].commitDeadline \in Nat
  BY <1>1 DEF RoundType
<1>3. \A j \in Jobs : Revealed(j)' = Revealed(j) /\ Approving(j)' = Approving(j)
  BY <1>1 DEF Revealed, Approving
<1>4. ASSUME NEW j \in Jobs PROVE JobOK(j)'
  <2>1. JobOK(j)
    BY DEF IInv
  <2>2. RoundOK(j)'
    BY <1>1, <1>2, <1>3, <2>1 DEF JobOK, RoundOK
  <2>3. \A v \in Validators : SeatOK(j, v)'
    BY <1>1, <2>1 DEF JobOK, SeatOK
  <2> QED BY <2>2, <2>3 DEF JobOK
<1> DEFINE closing == {j \in Jobs : PhaseOf(j) = "Sealing" /\ PhaseOf(j)' # "Sealing"}
<1>5. \A j \in Jobs : PhaseOf(j)' = IF j \in closing THEN "Opening" ELSE PhaseOf(j)
  BY <1>1, <1>2 DEF PhaseOf
<1>6. Sealing!Close(closing)
  <2>1. \A j \in closing : PhaseOf(j) = "Sealing"
    OBVIOUS
  <2> HIDE DEF closing
  <2>2. [j \in Jobs |-> PhaseOf(j)]' = [j \in Jobs |-> IF j \in closing THEN "Opening"
                                                    ELSE [k \in Jobs |-> PhaseOf(k)][j]]
    BY <1>5
  <2>3. closing \subseteq Jobs
    BY DEF closing
  <2> QED BY <1>1, <1>3, <2>1, <2>2, <2>3 DEF Sealing!Close
<1>7. closing \in SUBSET Jobs
  OBVIOUS
<1>8. Sealing!Move
  <2> HIDE DEF closing
  <2> QED BY <1>6, <1>7 DEF Sealing!Move
<1> QED BY <1>4, <1>8 DEF Jobwise, VoteStep

LEMMA SelectKeeps ==
  ASSUME IInv, TypeOK', NEW j \in Jobs, NEW c \in Callers, SelectValidators(j, c)
  PROVE  Jobwise' /\ VoteStep
<1>1. /\ UNCHANGED <<bans, stakes, registryVars, config>>
      /\ rounds[j].validators = <<>>
  BY DEF SelectValidators
<1>2. CASE UNCHANGED <<rounds, seats>>
  <2>1. Idle
    BY <1>1, <1>2 DEF Idle, registryVars, config, IInv, TypeOK, RoundType
  <2> QED BY <2>1, IdleKeeps
<1>3. ASSUME NEW strategy \in Strategies, NEW given, DrawCommittee(j, strategy, given)
      PROVE  Jobwise' /\ VoteStep
  <2>1. PICK vals : Drawn(j, vals)
    BY <1>3, DrawIsDrawn DEF IInv
  <2> QED BY <1>1, <2>1, DrawKeeps
<1> QED BY <1>2, <1>3 DEF SelectValidators

LEMMA StartIdles ==
  ASSUME IInv, NEW j \in Jobs, Start(j)
  PROVE  \A k \in Jobs :
           rounds'[k] = [rounds[k] EXCEPT !.committeeSize = rounds'[k].committeeSize]
<1>1. rounds' = [rounds EXCEPT ![j].committeeSize = StartSize]
  BY DEF Start
<1>2. rounds \in [Jobs -> RoundType]
  BY DEF IInv, TypeOK
<1>3. rounds'[j] = [rounds[j] EXCEPT !.committeeSize = StartSize]
  BY <1>1, <1>2
<1>4. \A k \in Jobs \ {j} : rounds'[k] = rounds[k]
  BY <1>1, <1>2
<1> QED BY <1>2, <1>3, <1>4 DEF RoundType

LEMMA SameRoundsIdle ==
  ASSUME IInv, rounds' = rounds
  PROVE  \A k \in Jobs :
           rounds'[k] = [rounds[k] EXCEPT !.committeeSize = rounds'[k].committeeSize]
BY DEF IInv, TypeOK, RoundType

\* The steps of the registry, of the owner and of the surroundings are idle,
\* but for the owner's reset and for time.
LEMMA OtherIdle ==
  ASSUME IInv, FixedLimit
  PROVE  /\ \A j \in Jobs : Job(j) => Idle
         /\ Owner => Idle \/ \E j \in Jobs : ResetJobNonce(j)
         /\ Environment => Idle \/ Tick
<1>1. ASSUME NEW j \in Jobs, Submit(j) PROVE Idle
  <2>1. \A k \in Jobs : status[k] = "Decided" => status'[k] = "Decided"
    BY <1>1 DEF Submit, IInv, TypeOK
  <2>2. CASE UNCHANGED <<rounds, selection>>
    BY <1>1, <2>1, <2>2, SameRoundsIdle DEF Submit, Idle, config
  <2>3. CASE Start(j)
    BY <1>1, <2>1, <2>3, StartIdles DEF Submit, Idle, config
  <2> QED BY <1>1, <2>2, <2>3 DEF Submit
<1>2. ASSUME NEW j \in Jobs, SubmitBurnReceipt(j) PROVE Idle
  BY <1>2, SameRoundsIdle DEF SubmitBurnReceipt, Idle, config
<1>3. ASSUME NEW j \in Jobs, ConfirmEmployerBurn(j) PROVE Idle
  <2>1. CASE UNCHANGED <<rounds, selection>>
    BY <1>3, <2>1, SameRoundsIdle DEF ConfirmEmployerBurn, Idle, config
  <2>2. CASE Start(j)
    BY <1>3, <2>2, StartIdles DEF ConfirmEmployerBurn, Idle, config
  <2> QED BY <1>3, <2>1, <2>2 DEF ConfirmEmployerBurn
<1>4. ASSUME NEW j \in Jobs, ResetSelection(j) PROVE Idle
  BY <1>4, SameRoundsIdle DEF ResetSelection, Idle, config, registryVars
<1>5. ASSUME NEW p \in Pools, SetValidatorPool(p) PROVE Idle
  BY <1>5, SameRoundsIdle DEF SetValidatorPool, Idle, registryVars
<1>6. ASSUME NEW p \in Params, SetParameters(p) PROVE Idle
  <2>1. params'.limit = params.limit
    BY <1>6 DEF SetParameters, FixedLimit, IInv, TypeOK
  <2> QED BY <1>6, <2>1, SameRoundsIdle DEF SetParameters, Idle, registryVars
<1>7. ASSUME NEW on \in BurnSettings, SetBurn(on) PROVE Idle
  BY <1>7, SameRoundsIdle DEF SetBurn, Idle, registryVars
<1>8. ASSUME NEW v \in Validators, NEW amount \in StakeChanges, ChangeStake(v, amount)
      PROVE  Idle
  BY <1>8, SameRoundsIdle DEF ChangeStake, Idle, registryVars, config
<1>9. ASSUME NEW v \in Blacklistable, SetBlacklist(v) PROVE Idle
  BY <1>9, SameRoundsIdle DEF SetBlacklist, Idle, registryVars
<1>10. ASSUME NEW j \in Jobs, Job(j) PROVE Idle
  BY <1>1, <1>2, <1>3, <1>10 DEF Job
<1>11. ASSUME Owner PROVE Idle \/ \E j \in Jobs : ResetJobNonce(j)
  BY <1>4, <1>5, <1>6, <1>11 DEF Owner
<1>12. ASSUME Environment PROVE Idle \/ Tick
  BY <1>7, <1>8, <1>9, <1>12 DEF Environment
<1> QED BY <1>10, <1>11, <1>12

LEMMA VoteInvStep ==
  ASSUME FixedLimit, IInv, [Next]_vars
  PROVE  IInv' /\ VoteStep
<1>1. TypeOK'
  BY TypeStep DEF IInv
<1>2. ASSUME NEW j \in Jobs, Voting(j) PROVE Jobwise' /\ VoteStep
  BY <1>1, <1>2, SelectKeeps, CommitKeeps, RevealKeeps, FinalizeKeeps, ForceFinalizeKeeps
     DEF Voting
<1>3. ASSUME UNCHANGED vars PROVE Idle
  BY <1>3, SameRoundsIdle DEF Idle, vars, registryVars, config
<1>4. Jobwise' /\ VoteStep
  BY <1>1, <1>2, <1>3, OtherIdle, IdleKeeps, ResetKeeps, TickKeeps DEF Next
<1> QED BY <1>1, <1>4 DEF IInv, Jobwise

LEMMA VoteInvInit == Init => IInv
<1> SUFFICES ASSUME Init PROVE IInv
  OBVIOUS
<1>1. TypeOK
  BY TypeInit
<1>2. params.limit \in Nat
  BY <1>1, ParamsTyped DEF ParamType
<1>3. Len(<<>>) = 0 /\ Range(<<>>) = {}
  BY EmptySeq DEF Range
<1>4. ASSUME NEW j \in Jobs PROVE JobOK(j)
  <2>1. rounds[j] = NoRound /\ verdict[j] = "none" /\ \A v \in Validators : seats[j][v] = NoSeat
    BY DEF Init
  <2>2. RoundOK(j)
    BY <1>2, <1>3, <2>1 DEF RoundOK, NoRound
  <2>3. \A v \in Validators : SeatOK(j, v)
    BY <1>3, <2>1 DEF SeatOK, NoRound
  <2> QED BY <2>2, <2>3 DEF JobOK
<1> QED BY <1>1, <1>4 DEF IInv

\* As long as maxValidatorsPerJob stays what it was, seats, stake snapshots,
\* commitments and votes belong to the committee that sits, whatever the pool,
\* the stakes and the other parameters do and however often rounds are reset.
THEOREM SeatsAlwaysMatch == FixedLimit => (Spec => []SeatsMatchCommittee)
<1> SUFFICES ASSUME FixedLimit PROVE Spec => []SeatsMatchCommittee
  OBVIOUS
<1>1. IInv /\ [Next]_vars => IInv'
  BY VoteInvStep
<1>2. IInv => SeatsMatchCommittee
  BY DEF IInv, JobOK, SeatOK, SeatsMatchCommittee
<1> QED BY VoteInvInit, <1>1, <1>2, PTL DEF Spec

\* Under the same condition the module implements SealedVote: no ballot is
\* sealed after the sealing, none is opened before its end or twice, nobody is
\* judged while ballots may still be sealed, and never favourably without an
\* approving ballot.
THEOREM VoteImplemented == FixedLimit => (Spec => ImplementsSealedVote)
<1> SUFFICES ASSUME FixedLimit PROVE Spec => ImplementsSealedVote
  OBVIOUS
<1>1. Init => Sealing!Begin
  <2> SUFFICES ASSUME Init PROVE Sealing!Begin
    OBVIOUS
  <2>1. \A j \in Jobs : PhaseOf(j) = "Idle" /\ Revealed(j) = {}
    BY DEF Init, PhaseOf, NoRound, Revealed, NoSeat
  <2>2. \A j \in Jobs, v \in Validators : ~ seats[j][v].member /\ seats[j][v].sealed = "none"
    BY DEF Init, NoSeat
  <2> QED BY <2>1, <2>2 DEF Init, Sealing!Begin, Sealing!NoBallots
<1>2. IInv /\ [Next]_vars => IInv'
  BY VoteInvStep
<1>3. IInv /\ [Next]_vars => [Sealing!Move]_Sealing!sealedVars
  BY VoteInvStep DEF VoteStep
<1>4. Spec => Sealing!Vote
  BY VoteInvInit, <1>1, <1>2, <1>3, PTL DEF Spec, Sealing!Vote
<1> QED BY <1>4 DEF ImplementsSealedVote
-----------------------------------------------------------------------------
(* The counters of a round. *)

\* The stakes of some members, nothing for the others.
Votes(j, vs) == [v \in Validators |-> IF v \in vs THEN seats[j][v].stake ELSE 0]

Rejecting(j) == Revealed(j) \ Approving(j)

\* CountsMatchSeats for one job, and that approvals and rejections are all there is.
CountOK(j) ==
  LET round == rounds[j] IN
  /\ IsFiniteSet(Revealed(j))
  /\ round.revealedCount = Cardinality(Revealed(j))
  /\ Summable(Votes(j, Approving(j))) /\ round.approvals = Total(Votes(j, Approving(j)))
  /\ Summable(Votes(j, Rejecting(j))) /\ round.rejections = Total(Votes(j, Rejecting(j)))
  /\ Summable(Votes(j, Revealed(j)))
  /\ round.approvals + round.rejections = Total(Votes(j, Revealed(j)))

CountInv == IInv /\ \A j \in Jobs : CountOK(j)

\* The votes and counters of a job stay as they are.
VotesKept(k) ==
  /\ Revealed(k)' = Revealed(k) /\ Approving(k)' = Approving(k)
  /\ \A v \in Revealed(k) : seats'[k][v].stake = seats[k][v].stake
  /\ rounds'[k].revealedCount = rounds[k].revealedCount
  /\ rounds'[k].approvals = rounds[k].approvals
  /\ rounds'[k].rejections = rounds[k].rejections

LEMMA VotesKeptCounts ==
  ASSUME NEW k \in Jobs, CountOK(k), VotesKept(k)
  PROVE  CountOK(k)'
<1>1. Approving(k) \subseteq Revealed(k) /\ Rejecting(k) \subseteq Revealed(k)
  BY DEF Approving, Rejecting
<1>2. Rejecting(k)' = Rejecting(k)
  BY DEF VotesKept, Rejecting
<1>3. \A vs \in SUBSET Revealed(k) : Votes(k, vs)' = Votes(k, vs)
  BY DEF VotesKept, Votes
<1>4. /\ Votes(k, Approving(k))' = Votes(k, Approving(k))
      /\ Votes(k, Rejecting(k))' = Votes(k, Rejecting(k))
      /\ Votes(k, Revealed(k))' = Votes(k, Revealed(k))
  <2>1. /\ Votes(k, Approving(k))' = [v \in Validators |-> IF v \in Approving(k)' THEN seats'[k][v].stake ELSE 0]
        /\ Votes(k, Rejecting(k))' = [v \in Validators |-> IF v \in Rejecting(k)' THEN seats'[k][v].stake ELSE 0]
        /\ Votes(k, Revealed(k))' = [v \in Validators |-> IF v \in Revealed(k)' THEN seats'[k][v].stake ELSE 0]
    BY DEF Votes
  <2> QED BY <1>1, <1>2, <2>1 DEF VotesKept, Votes
<1> QED BY <1>4 DEF VotesKept, CountOK

\* A step that leaves a job alone leaves its votes alone.
LEMMA UnmovedVotes ==
  ASSUME NEW k \in Jobs, CountOK(k), rounds'[k] = rounds[k], seats'[k] = seats[k]
  PROVE  CountOK(k)'
<1>1. VotesKept(k)
  BY DEF VotesKept, Revealed, Approving
<1> QED BY <1>1, VotesKeptCounts

\* A round nobody has voted in.
LEMMA CleanCounts ==
  ASSUME NEW j \in Jobs, rounds'[j] = NoRound, \A v \in Validators : seats'[j][v] = NoSeat
  PROVE  CountOK(j)'
<1>1. Revealed(j)' = {} /\ Approving(j)' = {} /\ Rejecting(j)' = {}
  BY DEF Revealed, Approving, Rejecting, NoSeat
<1>2. \A v \in Validators : seats'[j][v].stake = 0
  BY DEF NoSeat
<1>3. /\ Votes(j, Approving(j))' = [v \in Validators |-> 0]
      /\ Votes(j, Rejecting(j))' = [v \in Validators |-> 0]
      /\ Votes(j, Revealed(j))' = [v \in Validators |-> 0]
  BY <1>2 DEF Votes
<1>4. Summable([v \in Validators |-> 0]) /\ Total([v \in Validators |-> 0]) = 0
  BY TotalZero
<1>5. /\ rounds'[j].revealedCount = 0 /\ rounds'[j].approvals = 0 /\ rounds'[j].rejections = 0
  BY DEF NoRound
<1> QED BY <1>1, <1>3, <1>4, <1>5, FS_EmptySet DEF CountOK

\* One entry is entered in a table.
LEMMA OneMore ==
  ASSUME NEW f \in [Validators -> Nat], Summable(f), NEW v \in Validators, f[v] = 0,
         NEW n \in Nat, NEW g, g = [f EXCEPT ![v] = n]
  PROVE  /\ Summable(g) /\ Total(f) \in Nat /\ Total(g) = Total(f) + n
<1>1. /\ Summable([f EXCEPT ![v] = n]) /\ Total(f) \in Nat
      /\ Total([f EXCEPT ![v] = n]) = Total(f) + n - f[v]
  BY TotalChange
<1> QED BY <1>1

LEMMA RevealCounts ==
  ASSUME IInv, NEW j \in Jobs, NEW v \in Validators, CountOK(j), RevealValidation(v, j)
  PROVE  CountOK(j)'
<1> DEFINE seat == RevealedSeat(j, v)
           stake == seats[j][v].stake
           approve == seats[j][v].sealed = "approve"
<1>1. /\ seats' = [seats EXCEPT ![j] = [seats[j] EXCEPT ![v] = seat]]
      /\ rounds' = [rounds EXCEPT ![j] = RevealedRound(j, v)]
  BY RevealSeat DEF IInv
<1>2. /\ seats \in [Jobs -> [Validators -> SeatType]] /\ rounds \in [Jobs -> RoundType]
      /\ seats[j][v] \in SeatType /\ rounds[j] \in RoundType
  BY DEF IInv, TypeOK
<1>3. ~ seats[j][v].revealed
  BY DEF RevealValidation, Sealed
<1>4. seat.stake = stake /\ seat.revealed = TRUE /\ seat.approved = approve
  BY <1>2 DEF RevealedSeat, SeatType
<1>5. /\ seats'[j][v] = seat
      /\ \A w \in Validators \ {v} : seats'[j][w] = seats[j][w]
  BY <1>1, <1>2
<1>6. /\ rounds'[j].revealedCount = rounds[j].revealedCount + 1
      /\ rounds'[j].approvals = IF approve THEN rounds[j].approvals + stake ELSE rounds[j].approvals
      /\ rounds'[j].rejections = IF approve THEN rounds[j].rejections ELSE rounds[j].rejections + stake
  BY <1>1, <1>2 DEF RevealedRound, RoundType
<1> HIDE DEF seat
<1>7. v \notin Revealed(j) /\ Revealed(j)' = Revealed(j) \cup {v}
  BY <1>3, <1>4, <1>5 DEF Revealed
<1>8. /\ approve => Approving(j)' = Approving(j) \cup {v} /\ Rejecting(j)' = Rejecting(j)
      /\ ~approve => Approving(j)' = Approving(j) /\ Rejecting(j)' = Rejecting(j) \cup {v}
  BY <1>4, <1>5, <1>7 DEF Approving, Rejecting, Revealed
<1>9. v \notin Approving(j) /\ v \notin Rejecting(j)
  BY <1>7 DEF Approving, Rejecting
<1>10. stake \in Nat
  BY <1>2 DEF SeatType
<1>11. \A vs \in SUBSET Validators : Votes(j, vs) \in [Validators -> Nat]
  BY <1>2 DEF Votes, SeatType
<1>12. /\ Approving(j) \in SUBSET Validators /\ Rejecting(j) \in SUBSET Validators
       /\ Revealed(j) \in SUBSET Validators
  BY DEF Approving, Rejecting, Revealed
<1>13. \A w \in Validators : seats'[j][w].stake = seats[j][w].stake
  BY <1>4, <1>5
<1>14. /\ Votes(j, Approving(j))' =
            IF approve THEN [Votes(j, Approving(j)) EXCEPT ![v] = stake] ELSE Votes(j, Approving(j))
       /\ Votes(j, Rejecting(j))' =
            IF approve THEN Votes(j, Rejecting(j)) ELSE [Votes(j, Rejecting(j)) EXCEPT ![v] = stake]
       /\ Votes(j, Revealed(j))' = [Votes(j, Revealed(j)) EXCEPT ![v] = stake]
  <2>1. /\ Votes(j, Approving(j))' = [w \in Validators |-> IF w \in Approving(j)' THEN seats[j][w].stake ELSE 0]
        /\ Votes(j, Rejecting(j))' = [w \in Validators |-> IF w \in Rejecting(j)' THEN seats[j][w].stake ELSE 0]
        /\ Votes(j, Revealed(j))' = [w \in Validators |-> IF w \in Revealed(j)' THEN seats[j][w].stake ELSE 0]
    BY <1>13 DEF Votes
  <2>2. \A vs \in SUBSET Validators :
          [w \in Validators |-> IF w \in vs \cup {v} THEN seats[j][w].stake ELSE 0]
            = [Votes(j, vs) EXCEPT ![v] = stake]
    BY DEF Votes
  <2>3. Votes(j, Revealed(j))' = [Votes(j, Revealed(j)) EXCEPT ![v] = stake]
    BY <1>7, <1>12, <2>1, <2>2
  <2>4. \A vs \in SUBSET Validators :
          [w \in Validators |-> IF w \in vs THEN seats[j][w].stake ELSE 0] = Votes(j, vs)
    BY DEF Votes
  <2>5. CASE approve
    BY <1>8, <1>12, <2>1, <2>2, <2>3, <2>4, <2>5
  <2>6. CASE ~approve
    BY <1>8, <1>12, <2>1, <2>2, <2>3, <2>4, <2>6
  <2> QED BY <2>5, <2>6
<1>15. /\ Votes(j, Approving(j))[v] = 0 /\ Votes(j, Rejecting(j))[v] = 0
       /\ Votes(j, Revealed(j))[v] = 0
  BY <1>7, <1>9 DEF Votes
<1> DEFINE A == Votes(j, Approving(j))
           R == Votes(j, Rejecting(j))
           B == Votes(j, Revealed(j))
<1>16. /\ A \in [Validators -> Nat] /\ Summable(A) /\ A[v] = 0 /\ rounds[j].approvals = Total(A)
       /\ R \in [Validators -> Nat] /\ Summable(R) /\ R[v] = 0 /\ rounds[j].rejections = Total(R)
       /\ B \in [Validators -> Nat] /\ Summable(B) /\ B[v] = 0
       /\ rounds[j].approvals + rounds[j].rejections = Total(B)
  BY <1>11, <1>12, <1>15 DEF CountOK
<1>17. /\ A' = IF approve THEN [A EXCEPT ![v] = stake] ELSE A
       /\ R' = IF approve THEN R ELSE [R EXCEPT ![v] = stake]
       /\ B' = [B EXCEPT ![v] = stake]
  BY <1>14
<1>18. /\ IsFiniteSet(Revealed(j)') /\ rounds'[j].revealedCount = Cardinality(Revealed(j)')
  <2>1. IsFiniteSet(Revealed(j)) /\ rounds[j].revealedCount = Cardinality(Revealed(j))
    BY DEF CountOK
  <2> QED BY <1>6, <1>7, <2>1, FS_AddElement
<1> HIDE DEF A, R, B, stake, approve
<1>19. /\ Summable(B') /\ Total(B) \in Nat /\ Total(B') = Total(B) + stake
  <2>1. B \in [Validators -> Nat] /\ Summable(B) /\ B[v] = 0 /\ B' = [B EXCEPT ![v] = stake]
    BY <1>16, <1>17
  <2> QED BY <1>10, <2>1, OneMore
<1>20. CASE approve
  <2>1. /\ Summable(A') /\ Total(A) \in Nat /\ Total(A') = Total(A) + stake
    <3>1. A \in [Validators -> Nat] /\ Summable(A) /\ A[v] = 0 /\ A' = [A EXCEPT ![v] = stake]
      BY <1>16, <1>17, <1>20
    <3> QED BY <1>10, <3>1, OneMore
  <2>2. Total(R) \in Nat
    BY <1>16, TotalBounds
  <2>3. R' = R
    BY <1>17, <1>20
  <2>4. /\ rounds'[j].approvals = Total(A') /\ rounds'[j].rejections = Total(R')
        /\ rounds'[j].approvals + rounds'[j].rejections = Total(B')
        /\ Summable(R')
    BY <1>6, <1>10, <1>16, <1>19, <1>20, <2>1, <2>2, <2>3
  <2> QED BY <1>18, <1>19, <2>1, <2>4 DEF CountOK, A, R, B
<1>21. CASE ~approve
  <2>1. /\ Summable(R') /\ Total(R) \in Nat /\ Total(R') = Total(R) + stake
    <3>1. R \in [Validators -> Nat] /\ Summable(R) /\ R[v] = 0 /\ R' = [R EXCEPT ![v] = stake]
      BY <1>16, <1>17, <1>21
    <3> QED BY <1>10, <3>1, OneMore
  <2>2. Total(A) \in Nat
    BY <1>16, TotalBounds
  <2>3. A' = A
    BY <1>17, <1>21
  <2>4. /\ rounds'[j].approvals = Total(A') /\ rounds'[j].rejections = Total(R')
        /\ rounds'[j].approvals + rounds'[j].rejections = Total(B')
        /\ Summable(A')
    BY <1>6, <1>10, <1>16, <1>19, <1>21, <2>1, <2>2, <2>3
  <2> QED BY <1>18, <1>19, <2>1, <2>4 DEF CountOK, A, R, B
<1> QED BY <1>20, <1>21

LEMMA IdleCounts ==
  ASSUME IInv, Idle, NEW k \in Jobs, CountOK(k)
  PROVE  CountOK(k)'
<1>1. rounds[k] \in RoundType
  BY DEF IInv, TypeOK
<1>2. /\ rounds'[k].revealedCount = rounds[k].revealedCount
      /\ rounds'[k].approvals = rounds[k].approvals
      /\ rounds'[k].rejections = rounds[k].rejections
  BY <1>1 DEF Idle, RoundType
<1>3. VotesKept(k)
  BY <1>2 DEF VotesKept, Idle, Revealed, Approving
<1> QED BY <1>3, VotesKeptCounts

LEMMA CommitCounts ==
  ASSUME IInv, NEW j \in Jobs, NEW v \in Validators, NEW vote, NEW receipt,
         CountOK(j), CommitValidation(v, j, vote, receipt)
  PROVE  CountOK(j)'
<1>1. seats' = [seats EXCEPT ![j] = [seats[j] EXCEPT ![v] = Committed(j, v, vote, receipt)]]
  BY CommitSeat DEF IInv
<1>2. seats \in [Jobs -> [Validators -> SeatType]] /\ seats[j][v] \in SeatType
  BY DEF IInv, TypeOK
<1>3. /\ Committed(j, v, vote, receipt).stake = seats[j][v].stake
      /\ Committed(j, v, vote, receipt).revealed = seats[j][v].revealed
      /\ Committed(j, v, vote, receipt).approved = seats[j][v].approved
  BY <1>2 DEF Committed, SeatType
<1>4. \A w \in Validators :
        /\ seats'[j][w].stake = seats[j][w].stake
        /\ seats'[j][w].revealed = seats[j][w].revealed
        /\ seats'[j][w].approved = seats[j][w].approved
  <2>1. /\ seats'[j][v] = Committed(j, v, vote, receipt)
        /\ \A w \in Validators \ {v} : seats'[j][w] = seats[j][w]
    BY <1>1, <1>2
  <2> QED BY <1>3, <2>1
<1>5. Revealed(j)' = Revealed(j) /\ Approving(j)' = Approving(j)
  BY <1>4 DEF Revealed, Approving
<1>6. VotesKept(j)
  BY <1>4, <1>5 DEF VotesKept, CommitValidation, Revealed
<1> QED BY <1>6, VotesKeptCounts

LEMMA DrawCounts ==
  ASSUME IInv, NEW j \in Jobs, NEW vals, Drawn(j, vals), rounds[j].validators = <<>>,
         CountOK(j)
  PROVE  CountOK(j)'
<1>1. /\ seats \in [Jobs -> [Validators -> SeatType]] /\ rounds[j] \in RoundType
      /\ rounds \in [Jobs -> RoundType]
  BY DEF IInv, TypeOK
<1>2. /\ rounds'[j].revealedCount = rounds[j].revealedCount
      /\ rounds'[j].approvals = rounds[j].approvals
      /\ rounds'[j].rejections = rounds[j].rejections
  BY <1>1 DEF Drawn, RoundType
<1>3. \A v \in Validators : seats[j][v] = NoSeat
  BY EmptyBench
<1>4. \A v \in Validators :
        \/ seats'[j][v] = [NoSeat EXCEPT !.member = TRUE, !.stake = stakes[v]]
        \/ seats'[j][v] = NoSeat
  BY <1>1, <1>3 DEF Drawn
<1>5. \A v \in Validators : seats'[j][v].revealed = FALSE
  <2>1. /\ NoSeat.revealed = FALSE
        /\ \A n : [NoSeat EXCEPT !.member = TRUE, !.stake = n].revealed = FALSE
    BY DEF NoSeat
  <2> QED BY <1>4, <2>1
<1>6. Revealed(j) = {} /\ Revealed(j)' = {}
  BY <1>5, EmptyBench DEF Revealed
<1>7. Approving(j) = {} /\ Approving(j)' = {}
  BY <1>6 DEF Approving
<1>8. VotesKept(j)
  BY <1>2, <1>6, <1>7 DEF VotesKept
<1> QED BY <1>8, VotesKeptCounts

LEMMA CleanupCounts ==
  ASSUME IInv, NEW j \in Jobs, Cleanup(j), \A k \in Jobs : CountOK(k)
  PROVE  \A k \in Jobs : CountOK(k)'
<1>1. /\ rounds' = [rounds EXCEPT ![j] = NoRound]
      /\ seats' = [seats EXCEPT ![j] = [v \in Validators |-> NoSeat]]
  BY CleanedUp
<1>2. /\ seats \in [Jobs -> [Validators -> SeatType]] /\ rounds \in [Jobs -> RoundType]
  BY DEF IInv, TypeOK
<1>3. CountOK(j)'
  <2>1. rounds'[j] = NoRound /\ \A v \in Validators : seats'[j][v] = NoSeat
    BY <1>1, <1>2
  <2> QED BY <2>1, CleanCounts
<1>4. ASSUME NEW k \in Jobs \ {j} PROVE CountOK(k)'
  BY <1>1, <1>2, UnmovedVotes
<1> QED BY <1>3, <1>4

LEMMA CountStep == FixedLimit /\ CountInv /\ [Next]_vars => CountInv'
<1> SUFFICES ASSUME FixedLimit, CountInv, [Next]_vars PROVE CountInv'
  OBVIOUS
<1>1. IInv /\ IInv' /\ \A k \in Jobs : CountOK(k)
  BY VoteInvStep DEF CountInv
<1>2. /\ seats \in [Jobs -> [Validators -> SeatType]] /\ rounds \in [Jobs -> RoundType]
  BY <1>1 DEF IInv, TypeOK
<1> SUFFICES \A k \in Jobs : CountOK(k)'
  BY <1>1 DEF CountInv
<1>3. ASSUME Idle PROVE \A k \in Jobs : CountOK(k)'
  BY <1>1, <1>3, IdleCounts
<1>4. ASSUME NEW j \in Jobs, NEW c \in Callers, SelectValidators(j, c)
      PROVE  \A k \in Jobs : CountOK(k)'
  <2>1. CASE UNCHANGED <<rounds, seats>>
    BY <1>1, <2>1, UnmovedVotes
  <2>2. ASSUME NEW strategy \in Strategies, NEW given, DrawCommittee(j, strategy, given)
        PROVE  \A k \in Jobs : CountOK(k)'
    <3>1. PICK vals : Drawn(j, vals)
      BY <1>1, <2>2, DrawIsDrawn DEF IInv
    <3>2. CountOK(j)'
      BY <1>1, <1>4, <3>1, DrawCounts DEF SelectValidators
    <3>3. ASSUME NEW k \in Jobs \ {j} PROVE CountOK(k)'
      <4>1. rounds'[k] = rounds[k] /\ seats'[k] = seats[k]
        BY <1>2, <3>1 DEF Drawn
      <4> QED BY <1>1, <4>1, UnmovedVotes
    <3> QED BY <3>2, <3>3
  <2> QED BY <1>4, <2>1, <2>2 DEF SelectValidators
<1>5. ASSUME NEW j \in Jobs, NEW v \in Validators, NEW vote \in {"approve", "reject"},
             NEW receipt \in BurnSettings, CommitValidation(v, j, vote, receipt)
      PROVE  \A k \in Jobs : CountOK(k)'
  <2>1. CountOK(j)'
    BY <1>1, <1>5, CommitCounts
  <2>2. ASSUME NEW k \in Jobs \ {j} PROVE CountOK(k)'
    BY <1>1, <1>2, <1>5, UnmovedVotes DEF CommitValidation
  <2> QED BY <2>1, <2>2
<1>6. ASSUME NEW j \in Jobs, NEW v \in Validators, RevealValidation(v, j)
      PROVE  \A k \in Jobs : CountOK(k)'
  <2>1. CountOK(j)'
    BY <1>1, <1>6, RevealCounts
  <2>2. ASSUME NEW k \in Jobs \ {j} PROVE CountOK(k)'
    BY <1>1, <1>2, <1>6, UnmovedVotes DEF RevealValidation
  <2> QED BY <2>1, <2>2
<1>7. ASSUME NEW j \in Jobs, Finalize(j) \/ ForceFinalize(j) \/ ResetJobNonce(j)
      PROVE  \A k \in Jobs : CountOK(k)'
  BY <1>1, <1>7, CleanupCounts DEF Finalize, ForceFinalize, ResetJobNonce
<1>8. ASSUME NEW j \in Jobs, Voting(j) PROVE \A k \in Jobs : CountOK(k)'
  BY <1>4, <1>5, <1>6, <1>7, <1>8 DEF Voting
<1>9. ASSUME Tick \/ UNCHANGED vars PROVE \A k \in Jobs : CountOK(k)'
  BY <1>1, <1>9, UnmovedVotes DEF Tick, vars
<1> QED BY <1>1, <1>3, <1>7, <1>8, <1>9, OtherIdle DEF Next

LEMMA CountInit == Init => CountInv
<1> SUFFICES ASSUME Init PROVE CountInv
  OBVIOUS
<1>1. IInv
  BY VoteInvInit
<1>2. ASSUME NEW j \in Jobs PROVE CountOK(j)
  <2>1. rounds[j] = NoRound /\ \A v \in Validators : seats[j][v] = NoSeat
    BY DEF Init
  <2>2. Revealed(j) = {} /\ Approving(j) = {} /\ Rejecting(j) = {}
    BY <2>1 DEF Revealed, Approving, Rejecting, NoSeat
  <2>3. \A vs : Votes(j, vs) = [v \in Validators |-> 0]
    BY <2>1 DEF Votes, NoSeat
  <2>4. Summable([v \in Validators |-> 0]) /\ Total([v \in Validators |-> 0]) = 0
    BY TotalZero
  <2>5. rounds[j].revealedCount = 0 /\ rounds[j].approvals = 0 /\ rounds[j].rejections = 0
    BY <2>1 DEF NoRound
  <2> QED BY <2>2, <2>3, <2>4, <2>5, FS_EmptySet DEF CountOK
<1> QED BY <1>1, <1>2 DEF CountInv

\* As long as maxValidatorsPerJob stays what it was, the counters a tally
\* decides by are what the votes of the committee add up to: the number of those
\* who revealed, the stake in favour and the stake against, for any stakes.
THEOREM CountsAlwaysMatch == FixedLimit => (Spec => []CountsMatchSeats)
<1> SUFFICES ASSUME FixedLimit PROVE Spec => []CountsMatchSeats
  OBVIOUS
<1>1. CountInv /\ [Next]_vars => CountInv'
  BY CountStep
<1>2. CountInv => CountsMatchSeats
  BY DEF CountInv, CountOK, CountsMatchSeats, StakeOf, Votes, Rejecting
<1> QED BY CountInit, <1>1, <1>2, PTL DEF Spec
-----------------------------------------------------------------------------
(* What an approval rests on. *)

\* No account is twice in a pool (the setter does not look for that).
DistinctPools ==
  \A p \in Pools : \A i, k \in DOMAIN p : p[i] = p[k] => i = k

\* Nor then on a committee.
OneSeatEach(j) ==
  LET vals == rounds[j].validators IN
  \A i, k \in DOMAIN vals : vals[i] = vals[k] => i = k

LEMMA DrawDistinct ==
  ASSUME TypeOK, DistinctPools, NEW j \in Jobs, NEW strategy \in Strategies, NEW given,
         DrawCommittee(j, strategy, given), NEW k \in Jobs
  PROVE  rounds'[k].validators = rounds[k].validators \/ OneSeatEach(k)'
<1> DEFINE size == AtMost(Wanted(j), params.limit)
<1>1. size \in Nat
  BY WantedTyped
<1>2. PICK vals \in Committees(strategy, size) :
        rounds' = [rounds EXCEPT
             ![j].validators = vals,
             ![j].committeeSize = Wanted(j),
             ![j].commitDeadline = now + params.commitWindow,
             ![j].revealDeadline = now + params.commitWindow + params.revealWindow]
  BY DEF DrawCommittee, Wanted
<1> HIDE DEF size
<1>3. PICK candidates \in CandidateSets(strategy) :
        vals \in {[i \in 1..size |-> pool[draw[i]]] : draw \in Injection(1..size, candidates)}
  BY DEF Committees
<1>4. PICK draw \in Injection(1..size, candidates) :
        vals = [i \in 1..size |-> pool[draw[i]]]
  BY <1>3
<1>5. candidates \subseteq DOMAIN pool
  BY DEF CandidateSets, Window, kSubset, Eligible
<1>6. /\ \A i \in 1..size : draw[i] \in DOMAIN pool
      /\ \A i, l \in 1..size : draw[i] = draw[l] => i = l
  BY <1>4, <1>5 DEF Injection, IsInjective
<1>7. \A i, l \in DOMAIN pool : pool[i] = pool[l] => i = l
  BY DEF DistinctPools, TypeOK
<1>8. \A i, l \in DOMAIN vals : vals[i] = vals[l] => i = l
  BY <1>4, <1>6, <1>7
<1>9. rounds'[j].validators = vals /\ \A l \in Jobs \ {j} : rounds'[l] = rounds[l]
  BY <1>2 DEF TypeOK, RoundType
<1> QED BY <1>8, <1>9 DEF OneSeatEach

LEMMA CleanupDistinct ==
  ASSUME TypeOK, NEW j \in Jobs, Cleanup(j), NEW k \in Jobs
  PROVE  rounds'[k].validators = rounds[k].validators \/ OneSeatEach(k)'
<1>1. rounds' = [rounds EXCEPT ![j] = NoRound] /\ rounds \in [Jobs -> RoundType]
  BY DEF Cleanup, TypeOK
<1>2. DOMAIN NoRound.validators = {}
  BY DEF NoRound
<1>3. CASE k = j
  BY <1>1, <1>2, <1>3 DEF OneSeatEach
<1>4. CASE k # j
  BY <1>1, <1>4
<1> QED BY <1>3, <1>4

DistinctInv == CountInv /\ \A j \in Jobs : OneSeatEach(j)

LEMMA DistinctStep ==
  FixedLimit /\ DistinctPools /\ DistinctInv /\ [Next]_vars => DistinctInv'
<1> SUFFICES ASSUME FixedLimit, DistinctPools, DistinctInv, [Next]_vars PROVE DistinctInv'
  OBVIOUS
<1>1. CountInv /\ CountInv' /\ IInv /\ TypeOK /\ \A k \in Jobs : OneSeatEach(k)
  BY CountStep DEF DistinctInv, CountInv, IInv
<1> SUFFICES ASSUME NEW k \in Jobs
             PROVE  rounds'[k].validators = rounds[k].validators \/ OneSeatEach(k)'
  BY <1>1 DEF DistinctInv, OneSeatEach
<1>2. ASSUME Idle PROVE rounds'[k].validators = rounds[k].validators
  <2>1. rounds[k] \in RoundType
    BY <1>1 DEF TypeOK
  <2> QED BY <1>2, <2>1 DEF Idle, RoundType
<1>3. ASSUME NEW j \in Jobs, NEW c \in Callers, SelectValidators(j, c)
      PROVE  rounds'[k].validators = rounds[k].validators \/ OneSeatEach(k)'
  BY <1>1, <1>3, DrawDistinct DEF SelectValidators
<1>4. ASSUME NEW j \in Jobs, NEW v \in Validators, RevealValidation(v, j)
      PROVE  rounds'[k].validators = rounds[k].validators
  <2>1. rounds \in [Jobs -> RoundType] /\ RevealedRound(j, v).validators = rounds[j].validators
    BY <1>1 DEF TypeOK, RoundType, RevealedRound
  <2>2. rounds' = [rounds EXCEPT ![j] = RevealedRound(j, v)]
    BY <1>1, <1>4, RevealSeat
  <2> QED BY <2>1, <2>2
<1>5. ASSUME NEW j \in Jobs, Finalize(j) \/ ForceFinalize(j) \/ ResetJobNonce(j)
      PROVE  rounds'[k].validators = rounds[k].validators \/ OneSeatEach(k)'
  BY <1>1, <1>5, CleanupDistinct DEF Finalize, ForceFinalize, ResetJobNonce
<1>6. ASSUME NEW j \in Jobs, Voting(j)
      PROVE  rounds'[k].validators = rounds[k].validators \/ OneSeatEach(k)'
  BY <1>3, <1>4, <1>5, <1>6 DEF Voting, CommitValidation
<1> QED BY <1>1, <1>2, <1>5, <1>6, OtherIdle DEF Next, Tick, vars

LEMMA DistinctInit == Init => DistinctInv
<1> SUFFICES ASSUME Init PROVE DistinctInv
  OBVIOUS
<1>1. DOMAIN NoRound.validators = {}
  BY DEF NoRound
<1> QED BY <1>1, CountInit DEF Init, DistinctInv, OneSeatEach

\* Every place on the bench whose vote is in favour is held by another member.
LEMMA ApproversCounted ==
  ASSUME DistinctInv, NEW j \in Jobs
  PROVE  /\ IsFiniteSet(Approving(j))
         /\ Cardinality(Approvers(j)) <= Cardinality(Approving(j))
         /\ Cardinality(Approvers(j)) \in Nat /\ Cardinality(Approving(j)) \in Nat
<1> DEFINE vals == rounds[j].validators
           seat == [i \in Approvers(j) |-> Bench(j)[i]]
<1>1. IInv /\ TypeOK /\ CountOK(j) /\ OneSeatEach(j)
  BY DEF DistinctInv, CountInv, IInv
<1>2. IsFiniteSet(Approving(j))
  BY <1>1, FS_Subset DEF CountOK, Approving
<1>3. DOMAIN Bench(j) \subseteq DOMAIN vals /\ \A i \in DOMAIN Bench(j) : Bench(j)[i] = vals[i]
  BY <1>1, BenchPlaces
<1>4. \A i \in DOMAIN Bench(j) : Bench(j)[i] \in Validators /\ Bench(j)[i] \in Range(vals)
  BY <1>1, <1>3, BenchTyped, ElementOfSeq DEF Range
<1>5. \A i \in Approvers(j) : seat[i] \in Approving(j)
  BY <1>1, <1>4 DEF Approvers, Approving, Revealed, IInv, JobOK, SeatOK
<1>6. seat \in Injection(Approvers(j), Approving(j))
  BY <1>1, <1>3, <1>5 DEF Injection, IsInjective, Approvers, OneSeatEach
<1> QED BY <1>2, <1>6, FS_Injection, FS_CardinalityType

\* What ApprovalJustified asks of an approval.
Justified(j) ==
  /\ now > rounds[j].commitDeadline
  /\ Cardinality(Revealed(j)) >= CommitteeSize(j)
  /\ StakeOf(j, Approving(j)) * 100 >= StakeOf(j, Revealed(j)) * params.threshold
  /\ Cardinality(Approving(j)) >= params.required
  /\ \E v \in Approving(j) : seats[j][v].sealed = "approve"

LEMMA FinalizeJustified ==
  ASSUME DistinctInv, NEW j \in Jobs, Finalize(j), Approved(j)
  PROVE  Justified(j)
<1> DEFINE round == rounds[j]
<1>1. /\ IInv /\ round \in RoundType /\ RoundOK(j) /\ CountOK(j) /\ now \in Nat
      /\ \A v \in Validators : SeatOK(j, v)
  BY DEF DistinctInv, CountInv, IInv, JobOK, TypeOK
<1>2. /\ round.revealedCount >= CommitteeSize(j)
      /\ round.approvals + round.rejections > 0
      /\ round.approvals * 100 >= (round.approvals + round.rejections) * params.threshold
      /\ Cardinality(Approvers(j)) >= params.required
  BY DEF Approved, Quorum
<1>3. now > round.commitDeadline
  BY <1>1, TallyAfterCommits, ApprovedHasVote, EmptyBench DEF Finalize
<1>4. Cardinality(Approving(j)) >= params.required
  <2>1. params.required \in Nat
    BY <1>1, ParamsTyped DEF ParamType, IInv
  <2> QED BY <1>2, <2>1, ApproversCounted
<1>5. /\ Cardinality(Revealed(j)) = round.revealedCount
      /\ StakeOf(j, Approving(j)) = round.approvals
      /\ StakeOf(j, Revealed(j)) = round.approvals + round.rejections
  BY <1>1 DEF CountOK, StakeOf, Votes
<1>6. \E v \in Approving(j) : seats[j][v].sealed = "approve"
  BY <1>1, ApprovedHasVote
<1> QED BY <1>2, <1>3, <1>4, <1>5, <1>6 DEF Justified

\* Nobody but a tally that approves makes a job approved.
LEMMA ApprovedByTally ==
  ASSUME TypeOK, [Next]_vars, NEW j \in Jobs, verdict[j] = "none", verdict'[j] = "approved"
  PROVE  Finalize(j) /\ Approved(j)
<1>1. ASSUME NEW k \in Jobs, NEW ok \in BOOLEAN, Report(k, ok) PROVE k = j /\ ok
  BY <1>1 DEF Report, TypeOK
<1>2. ASSUME NEW k \in Jobs, Finalize(k) PROVE k = j /\ Approved(k)
  <2>1. Approved(k) \in BOOLEAN
    BY DEF Approved
  <2> QED BY <1>1, <1>2, <2>1 DEF Finalize
<1>3. ASSUME NEW k \in Jobs, ForceFinalize(k) PROVE Finalize(k) /\ k = j /\ Approved(k)
  <2>1. CASE Finalize(k)
    BY <1>2, <2>1
  <2>2. CASE Report(k, FALSE)
    BY <1>1, <2>2
  <2> QED BY <1>3, <2>1, <2>2 DEF ForceFinalize
<1>4. verdict' # verdict
  OBVIOUS
<1>5. ASSUME NEW k \in Jobs, Voting(k) PROVE Finalize(j) /\ Approved(j)
  BY <1>2, <1>3, <1>4, <1>5
     DEF Voting, SelectValidators, CommitValidation, RevealValidation, registryVars
<1>6. ASSUME NEW k \in Jobs, Job(k) PROVE FALSE
  BY <1>4, <1>6 DEF Job, Submit, SubmitBurnReceipt, ConfirmEmployerBurn
<1>7. ASSUME Owner PROVE FALSE
  BY <1>4, <1>7
     DEF Owner, ResetJobNonce, ResetSelection, SetValidatorPool, SetParameters, registryVars
<1>8. ASSUME Environment PROVE FALSE
  BY <1>4, <1>8 DEF Environment, SetBurn, ChangeStake, SetBlacklist, Tick, registryVars
<1>9. ASSUME UNCHANGED vars PROVE FALSE
  BY <1>4, <1>9 DEF vars, registryVars
<1> QED BY <1>5, <1>6, <1>7, <1>8, <1>9 DEF Next

\* A job is approved only by a vote, for any committee, stakes and thresholds,
\* however the owner changes parameters and resets rounds in between: as long as
\* maxValidatorsPerJob stays what it was and no pool names an account twice.  A
\* member with two places counts twice for requiredValidatorApprovals: drawn from
\* the pool <<v, v>>, and asked for one vote only by a start that finds a pool of
\* one, v alone makes up two approvals.
THEOREM ApprovalAlwaysJustified ==
  FixedLimit /\ DistinctPools => (Spec => ApprovalJustified)
<1> SUFFICES ASSUME FixedLimit, DistinctPools PROVE Spec => ApprovalJustified
  OBVIOUS
<1> DEFINE Fair == \A j \in Jobs : verdict[j] = "none" /\ verdict'[j] = "approved" => Justified(j)
<1>1. DistinctInv /\ [Next]_vars => DistinctInv'
  BY DistinctStep
<1>2. DistinctInv /\ [Next]_vars => Fair
  <2> SUFFICES ASSUME DistinctInv, [Next]_vars, NEW j \in Jobs,
                      verdict[j] = "none", verdict'[j] = "approved"
               PROVE  Justified(j)
    OBVIOUS
  <2>1. TypeOK
    BY DEF DistinctInv, CountInv, IInv
  <2> QED BY <2>1, ApprovedByTally, FinalizeJustified
<1>3. Spec => [][Fair]_vars
  BY DistinctInit, <1>1, <1>2, PTL DEF Spec
<1> QED BY <1>3 DEF ApprovalJustified, Justified
=============================================================================
