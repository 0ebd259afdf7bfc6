-------------------------- MODULE AgentFleetProofs --------------------------
(***************************************************************************)
(* Theorems about AgentFleet for any history of jobs, any categories and   *)
(* spellings, any number of overlapping runs, crashes and trainings.       *)
(***************************************************************************)
EXTENDS AgentFleet, SequenceTheorems, FiniteSetTheorems, TLAPS

-----------------------------------------------------------------------------
(* Loops.  A loop over n entries is a table of its intermediate results.   *)

\* What holds before the loop and survives every turn holds throughout.
LEMMA Throughout ==
  ASSUME NEW n \in Nat, NEW B,
         0 \in B, \A i \in 1..n : i - 1 \in B => i \in B
  PROVE  \A i \in 0..n : i \in B
<1> DEFINE bad == {i \in 0..n : i \notin B}
<1> SUFFICES ASSUME bad # {} PROVE FALSE
  OBVIOUS
<1>1. bad \subseteq Nat
  OBVIOUS
<1>2. PICK x \in bad : \A y \in bad : <<y, x>> \notin OpToRel(<, Nat)
  BY <1>1, NatLessThanWellFounded, WFMin
<1>3. x # 0 /\ x - 1 \in 0..n /\ x \in 1..n
  OBVIOUS
<1>4. <<x - 1, x>> \in OpToRel(<, Nat)
  BY <1>1, <1>3 DEF OpToRel
<1>5. x - 1 \in B
  BY <1>2, <1>3, <1>4
<1> QED BY <1>3, <1>5

\* A loop whose turn i applies g[i] has results.
Turns(f, n, start, g) ==
  f = [i \in 0..n |-> IF i = 0 THEN start ELSE g[i][f[i - 1]]]

LEMMA LoopRuns ==
  ASSUME NEW n \in Nat, NEW A, NEW start \in A, NEW g \in [1..n -> [A -> A]]
  PROVE  \E f \in [0..n -> A] : Turns(f, n, start, g)
<1> DEFINE B == {k \in 0..n : \E f \in [0..k -> A] : Turns(f, k, start, g)}
<1>1. 0 \in B
  <2> DEFINE f == [i \in 0..0 |-> start]
  <2>1. f \in [0..0 -> A] /\ 0 \in 0..n
    OBVIOUS
  <2>2. Turns(f, 0, start, g)
    BY DEF Turns
  <2> QED BY <2>1, <2>2
<1>2. ASSUME NEW k \in 1..n, k - 1 \in B PROVE k \in B
  <2>1. PICK f \in [0..(k - 1) -> A] : Turns(f, k - 1, start, g)
    BY <1>2
  <2> DEFINE h == [i \in 0..k |-> IF i = k THEN g[k][f[k - 1]] ELSE f[i]]
  <2>2. f[k - 1] \in A /\ g[k] \in [A -> A]
    OBVIOUS
  <2>3. h \in [0..k -> A]
    BY <2>2
  <2>4. \A i \in 0..k : h[i] = IF i = 0 THEN start ELSE g[i][h[i - 1]]
    <3> TAKE i \in 0..k
    <3>1. CASE i = k
      <4>1. h[i - 1] = f[k - 1] /\ i # 0
        BY <3>1
      <4> QED BY <3>1, <4>1
    <3>2. CASE i # k
      <4>1. i \in 0..(k - 1) /\ h[i] = f[i]
        BY <3>2
      <4>2. f[i] = IF i = 0 THEN start ELSE g[i][f[i - 1]]
        BY <2>1, <4>1 DEF Turns
      <4>3. i # 0 => h[i - 1] = f[i - 1]
        BY <3>2
      <4> QED BY <4>1, <4>2, <4>3
    <3> QED BY <3>1, <3>2
  <2> HIDE DEF h
  <2>5. Turns(h, k, start, g)
    BY <2>3, <2>4 DEF Turns
  <2> QED BY <2>3, <2>5
<1>3. n \in B
  <2>1. \A i \in 1..n : i - 1 \in B => i \in B
    BY <1>2
  <2> HIDE DEF B
  <2>2. \A i \in 0..n : i \in B
    BY <1>1, <2>1, Throughout
  <2> QED BY <2>2
<1> QED BY <1>3

-----------------------------------------------------------------------------
(* The jobs of one agent. *)

\* f is the table of the filter for a on s.
Filter(s, a, f) ==
  f = [i \in 0..Len(s) |->
         IF i = 0 THEN <<>>
         ELSE IF s[i].agent = a THEN Append(f[i - 1], s[i]) ELSE f[i - 1]]

LEMMA FilterExists ==
  ASSUME NEW s \in Seq(Kinds), NEW a
  PROVE  \E f \in [0..Len(s) -> Seq(Kinds)] : Filter(s, a, f)
<1> DEFINE S == Seq(Kinds)
           n == Len(s)
           g == [i \in 1..n |-> [x \in S |-> IF s[i].agent = a THEN Append(x, s[i]) ELSE x]]
<1>1. n \in Nat /\ <<>> \in S
  OBVIOUS
<1>2. g \in [1..n -> [S -> S]]
  <2>1. \A i \in 1..n : s[i] \in Kinds
    OBVIOUS
  <2>2. \A i \in 1..n, x \in S : Append(x, s[i]) \in S
    BY <2>1
  <2> QED BY <2>2
<1>3. \A i \in 1..n, x \in S : g[i][x] = IF s[i].agent = a THEN Append(x, s[i]) ELSE x
  OBVIOUS
<1> HIDE DEF g
<1>4. PICK f \in [0..n -> S] : Turns(f, n, <<>>, g)
  <2> HIDE DEF S, n
  <2> QED BY <1>1, <1>2, LoopRuns
<1>5. \A i \in 0..n : i # 0 => i \in 1..n /\ f[i - 1] \in S
  OBVIOUS
<1>6. f = [i \in 0..n |->
         IF i = 0 THEN <<>>
         ELSE IF s[i].agent = a THEN Append(f[i - 1], s[i]) ELSE f[i - 1]]
  BY <1>3, <1>4, <1>5 DEF Turns
<1> QED BY <1>6 DEF Filter

LEMMA FilterEntries ==
  ASSUME NEW s \in Seq(Kinds), NEW a, NEW f, Filter(s, a, f)
  PROVE  /\ f[0] = <<>>
         /\ \A i \in 1..Len(s) :
              f[i] = IF s[i].agent = a THEN Append(f[i - 1], s[i]) ELSE f[i - 1]
<1>1. Len(s) \in Nat
  OBVIOUS
<1>2. \A i \in 0..Len(s) :
        f[i] = IF i = 0 THEN <<>>
               ELSE IF s[i].agent = a THEN Append(f[i - 1], s[i]) ELSE f[i - 1]
  BY DEF Filter
<1> QED BY <1>1, <1>2

\* The filter selects jobs of the history, and no more than there are.
AtMost(x, i) == x \in Seq(Kinds) /\ Len(x) <= i

LEMMA FilterType ==
  ASSUME NEW s \in Seq(Kinds), NEW a, NEW f, Filter(s, a, f)
  PROVE  \A i \in 0..Len(s) : AtMost(f[i], i)
<1> DEFINE n == Len(s)
           B == {i \in 0..n : AtMost(f[i], i)}
<1>1. n \in Nat
  OBVIOUS
<1>2. AtMost(<<>>, 0)
  BY DEF AtMost
<1>3. f[0] = <<>> /\ \A i \in 1..n :
        f[i] = IF s[i].agent = a THEN Append(f[i - 1], s[i]) ELSE f[i - 1]
  BY FilterEntries
<1>4. 0 \in B
  BY <1>1, <1>2, <1>3
<1>5. ASSUME NEW i \in 1..n, i - 1 \in B PROVE i \in B
  <2>1. AtMost(f[i - 1], i - 1) /\ s[i] \in Kinds /\ i \in 0..n
    BY <1>5
  <2>2. AtMost(Append(f[i - 1], s[i]), i) /\ AtMost(f[i - 1], i)
    <3> DEFINE x == f[i - 1]
               k == s[i]
    <3>1. x \in Seq(Kinds) /\ Len(x) <= i - 1 /\ k \in Kinds /\ i \in Nat
      BY <2>1, <1>1 DEF AtMost
    <3> HIDE DEF x, k
    <3>2. AtMost(Append(x, k), i) /\ AtMost(x, i)
      BY <3>1 DEF AtMost
    <3> QED BY <3>2 DEF x, k
  <2> QED BY <1>3, <2>1, <2>2
<1>6. \A i \in 1..n : i - 1 \in B => i \in B
  BY <1>5
<1>7. \A i \in 0..n : i \in B
  <2> HIDE DEF B, n
  <2> QED BY <1>1, <1>4, <1>6, Throughout
<1> QED BY <1>7

LEMMA OfAgentIs ==
  ASSUME NEW s \in Seq(Kinds), NEW a
  PROVE  \E f : Filter(s, a, f) /\ OfAgent(s, a) = f[Len(s)]
<1> DEFINE own == CHOOSE f : Filter(s, a, f)
<1>1. Filter(s, a, own)
  BY FilterExists
<1>2. OfAgent(s, a) = own[Len(s)]
  BY DEF OfAgent, Filter
<1> QED BY <1>1, <1>2

LEMMA OfAgentType ==
  ASSUME NEW s \in Seq(Kinds), NEW a
  PROVE  OfAgent(s, a) \in Seq(Kinds) /\ Len(OfAgent(s, a)) \in 0..Len(s)
<1>1. PICK f : Filter(s, a, f) /\ OfAgent(s, a) = f[Len(s)]
  BY OfAgentIs
<1>2. Len(s) \in 0..Len(s)
  OBVIOUS
<1>3. AtMost(OfAgent(s, a), Len(s))
  BY <1>1, <1>2, FilterType
<1> QED BY <1>3 DEF AtMost

LEMMA OfAgentEmpty ==
  ASSUME NEW s \in Seq(Kinds), NEW a
  PROVE  Len(s) = 0 => OfAgent(s, a) = <<>>
<1>1. PICK f : Filter(s, a, f) /\ OfAgent(s, a) = f[Len(s)]
  BY OfAgentIs
<1>2. f[0] = <<>>
  BY <1>1, FilterEntries
<1> QED BY <1>1, <1>2

\* A further job is the last of its agent's and nobody else's.
LEMMA OfAgentAppend ==
  ASSUME NEW s \in Seq(Kinds), NEW k \in Kinds, NEW a
  PROVE  OfAgent(Append(s, k), a) =
           IF k.agent = a THEN Append(OfAgent(s, a), k) ELSE OfAgent(s, a)
<1> DEFINE n == Len(s)
           t == Append(s, k)
<1>1. /\ n \in Nat /\ t \in Seq(Kinds) /\ Len(t) = n + 1
      /\ \A i \in 1..n : t[i] = s[i]
      /\ t[n + 1] = k
  OBVIOUS
<1>2. PICK f : Filter(s, a, f) /\ OfAgent(s, a) = f[Len(s)]
  BY OfAgentIs
<1>3. PICK h : Filter(t, a, h) /\ OfAgent(t, a) = h[Len(t)]
  BY <1>1, OfAgentIs
<1>4. /\ h[0] = <<>>
      /\ \A i \in 1..(n + 1) :
           h[i] = IF t[i].agent = a THEN Append(h[i - 1], t[i]) ELSE h[i - 1]
  <2> HIDE DEF t, n
  <2> QED BY <1>1, <1>3, FilterEntries
<1>5. /\ f[0] = <<>>
      /\ \A i \in 1..n :
           f[i] = IF s[i].agent = a THEN Append(f[i - 1], s[i]) ELSE f[i - 1]
  BY <1>2, FilterEntries
<1> DEFINE B == {i \in 0..n : h[i] = f[i]}
<1> HIDE DEF t
<1>6. 0 \in B
  BY <1>1, <1>4, <1>5
<1>7. \A i \in 1..n : i - 1 \in B => i \in B
  BY <1>1, <1>4, <1>5
<1>8. \A i \in 0..n : i \in B
  <2> HIDE DEF B, n
  <2> QED BY <1>1, <1>6, <1>7, Throughout
<1>9. h[n] = f[n] /\ n + 1 \in 1..(n + 1)
  BY <1>1, <1>8
<1>10. h[n + 1] = IF k.agent = a THEN Append(h[n], k) ELSE h[n]
  BY <1>1, <1>4, <1>9
<1> QED BY <1>1, <1>2, <1>3, <1>9, <1>10 DEF t
\* What an agent had done stays what it had done.
LEMMA HistoryKept ==
  ASSUME NEW s \in Seq(Kinds), NEW k \in Kinds, NEW a
  PROVE  LET old == OfAgent(s, a)
             new == OfAgent(Append(s, k), a)
         IN  /\ Len(old) \in Nat /\ Len(new) \in Nat /\ Len(old) <= Len(new)
             /\ \A n \in 0..Len(old) : SubSeq(new, 1, n) = SubSeq(old, 1, n)
<1> DEFINE old == OfAgent(s, a)
           new == OfAgent(Append(s, k), a)
<1>1. old \in Seq(Kinds)
  BY OfAgentType
<1>2. new = old \/ new = Append(old, k)
  BY OfAgentAppend
<1> HIDE DEF old, new
<1>3. CASE new = old
  BY <1>1, <1>3 DEF old, new
<1>4. CASE new = Append(old, k)
  <2>1. ASSUME NEW n \in 0..Len(old) PROVE SubSeq(new, 1, n) = SubSeq(old, 1, n)
    BY <1>1, <1>4
  <2>2. Len(old) \in Nat /\ Len(new) = Len(old) + 1
    BY <1>1, <1>4
  <2> QED BY <2>1, <2>2 DEF old, new
<1> QED BY <1>2, <1>3, <1>4

-----------------------------------------------------------------------------
(* The training loop. *)

Entry == [version : Nat, processed : Nat, status : {"none", "active", "pending"}]
Cycle == [phase : {"training", "publishing"}, todo : SUBSET Wallets, seen : Seq(Kinds),
          registry : [Wallets -> Entry]]

\* The file of version v was trained on a history, of those in h, that passed.
Passed(h, files, a, v) ==
  /\ <<a, v>> \in DOMAIN files
  /\ files[<<a, v>>] \in 0..Len(OfAgent(h, a))
  /\ EvaluateSandbox(SubSeq(OfAgent(h, a), 1, files[<<a, v>>]))

\* A registry claims nothing that is not so.
RegistryOK(h, files, reg) ==
  /\ reg \in [Wallets -> Entry]
  /\ \A a \in Wallets :
       /\ reg[a].processed <= Len(OfAgent(h, a))
       /\ MinNewRecords > 0 => reg[a].version <= reg[a].processed
       /\ reg[a].status = "active" =>
            reg[a].version # 0 /\ Passed(h, files, a, reg[a].version)

\* A cycle works on a past history and on versions not published before.
SeenOK(h, seen) ==
  \A a \in Wallets :
    /\ Len(OfAgent(seen, a)) <= Len(OfAgent(h, a))
    /\ SubSeq(OfAgent(h, a), 1, Len(OfAgent(seen, a))) = OfAgent(seen, a)
WorkOK(reg, run) ==
  \A a \in Wallets :
    /\ reg[a].version <= run.registry[a].version
    /\ a \in run.todo =>
         /\ run.registry[a] = reg[a]
         /\ OfAgent(run.seen, a) # <<>> /\ HasNews(a, run.seen, reg)
CycleOK(h, files, reg, run) ==
  /\ run \in Cycle
  /\ RegistryOK(h, files, run.registry)
  /\ SeenOK(h, run.seen)
  /\ run.phase = "training" => WorkOK(reg, run)
  /\ run.phase = "publishing" => reg = run.registry

ActiveOK(h, files, reg, act) ==
  /\ act \in [Wallets -> Nat]
  /\ \A a \in Wallets :
       /\ act[a] <= reg[a].version
       /\ act[a] # 0 => Passed(h, files, a, act[a])

\* Sound is what both files say, and they differ only while a cycle publishes
\* or after it died over it.
TrainingInv ==
  /\ jobs \in Seq(Kinds) /\ Len(jobs) <= MaxJobs
  /\ \A m \in DOMAIN models : models[m] \in 1..MaxJobs
  /\ RegistryOK(jobs, models, registry)
  /\ trainer = NoRun \/ CycleOK(jobs, models, registry, trainer)
  /\ ActiveOK(jobs, models, registry, active)
  /\ torn \in BOOLEAN
  /\ (trainer.phase # "publishing" /\ ~torn) => active = ActiveState(registry)

\* More history takes nothing back.
LEMMA PassedGrows ==
  ASSUME NEW h \in Seq(Kinds), NEW k \in Kinds, NEW files, NEW a, NEW v,
         Passed(h, files, a, v)
  PROVE  Passed(Append(h, k), files, a, v)
<1> DEFINE old == OfAgent(h, a)
           new == OfAgent(Append(h, k), a)
           n == files[<<a, v>>]
<1>1. n \in 0..Len(old)
  BY DEF Passed
<1>2. /\ Len(old) \in Nat /\ Len(new) \in Nat /\ Len(old) <= Len(new)
      /\ SubSeq(new, 1, n) = SubSeq(old, 1, n)
  BY <1>1, HistoryKept
<1>3. n \in 0..Len(new)
  BY <1>1, <1>2
<1> QED BY <1>2, <1>3 DEF Passed

LEMMA RegistryGrows ==
  ASSUME NEW h \in Seq(Kinds), NEW k \in Kinds, NEW files, NEW reg,
         RegistryOK(h, files, reg)
  PROVE  RegistryOK(Append(h, k), files, reg)
<1>1. ASSUME NEW a \in Wallets
      PROVE  /\ reg[a].processed <= Len(OfAgent(Append(h, k), a))
             /\ MinNewRecords > 0 => reg[a].version <= reg[a].processed
             /\ reg[a].status = "active" =>
                  reg[a].version # 0 /\ Passed(Append(h, k), files, a, reg[a].version)
  <2>1. reg[a].processed <= Len(OfAgent(h, a)) /\ reg[a].processed \in Nat
    BY DEF RegistryOK, Entry
  <2>2. /\ Len(OfAgent(h, a)) \in Nat /\ Len(OfAgent(Append(h, k), a)) \in Nat
        /\ Len(OfAgent(h, a)) <= Len(OfAgent(Append(h, k), a))
    BY HistoryKept
  <2>3. reg[a].processed <= Len(OfAgent(Append(h, k), a))
    BY <2>1, <2>2
  <2>4. reg[a].status = "active" =>
          reg[a].version # 0 /\ Passed(Append(h, k), files, a, reg[a].version)
    BY PassedGrows DEF RegistryOK
  <2> QED BY <2>3, <2>4 DEF RegistryOK
<1> QED BY <1>1 DEF RegistryOK

LEMMA SeenGrows ==
  ASSUME NEW h \in Seq(Kinds), NEW k \in Kinds, NEW seen \in Seq(Kinds), SeenOK(h, seen)
  PROVE  SeenOK(Append(h, k), seen)
<1> SUFFICES ASSUME NEW a \in Wallets
             PROVE  /\ Len(OfAgent(seen, a)) <= Len(OfAgent(Append(h, k), a))
                    /\ SubSeq(OfAgent(Append(h, k), a), 1, Len(OfAgent(seen, a)))
                         = OfAgent(seen, a)
  BY DEF SeenOK
<1>1. Len(OfAgent(seen, a)) \in Nat
  BY OfAgentType
<1>2. /\ Len(OfAgent(seen, a)) <= Len(OfAgent(h, a))
      /\ SubSeq(OfAgent(h, a), 1, Len(OfAgent(seen, a))) = OfAgent(seen, a)
  BY DEF SeenOK
<1>3. /\ Len(OfAgent(h, a)) \in Nat /\ Len(OfAgent(Append(h, k), a)) \in Nat
      /\ Len(OfAgent(h, a)) <= Len(OfAgent(Append(h, k), a))
      /\ \A n \in 0..Len(OfAgent(h, a)) :
           SubSeq(OfAgent(Append(h, k), a), 1, n) = SubSeq(OfAgent(h, a), 1, n)
  BY HistoryKept
<1>4. Len(OfAgent(seen, a)) \in 0..Len(OfAgent(h, a))
  BY <1>1, <1>2, <1>3
<1>5. Len(OfAgent(seen, a)) <= Len(OfAgent(Append(h, k), a))
  BY <1>1, <1>2, <1>3
<1>6. SubSeq(OfAgent(Append(h, k), a), 1, Len(OfAgent(seen, a))) = OfAgent(seen, a)
  BY <1>2, <1>3, <1>4
<1> QED BY <1>5, <1>6

LEMMA RecordTrains ==
  ASSUME TrainingInv, NEW k \in Kinds, AppendJob(k)
  PROVE  TrainingInv'
<1>1. /\ jobs \in Seq(Kinds) /\ jobs' = Append(jobs, k) /\ Len(jobs) < MaxJobs
      /\ registry' = registry /\ active' = active /\ models' = models
      /\ trainer' = trainer /\ torn' = torn
  BY DEF AppendJob, TrainingInv, training
<1>2. jobs' \in Seq(Kinds) /\ Len(jobs') <= MaxJobs
  BY <1>1, FleetAssumption
<1>3. RegistryOK(jobs', models', registry')
  BY <1>1, RegistryGrows DEF TrainingInv
<1>4. trainer' = NoRun \/ CycleOK(jobs', models', registry', trainer')
  <2> SUFFICES ASSUME CycleOK(jobs, models, registry, trainer)
               PROVE  CycleOK(jobs', models', registry', trainer')
    BY <1>1 DEF TrainingInv
  <2>1. RegistryOK(jobs', models, trainer.registry)
    BY <1>1, RegistryGrows DEF CycleOK
  <2>2. trainer.seen \in Seq(Kinds)
    BY DEF CycleOK, Cycle
  <2>3. SeenOK(jobs', trainer.seen)
    BY <1>1, <2>2, SeenGrows DEF CycleOK
  <2> QED BY <1>1, <2>1, <2>3 DEF CycleOK
<1>5. ActiveOK(jobs', models', registry', active')
  BY <1>1, PassedGrows DEF TrainingInv, ActiveOK
<1>6. (trainer'.phase # "publishing" /\ ~torn') => active' = ActiveState(registry')
  BY <1>1 DEF TrainingInv
<1> QED BY <1>1, <1>2, <1>3, <1>4, <1>5, <1>6 DEF TrainingInv, ActiveState

\* A cycle starts with what both files and the history say.
LEMMA CycleStarts ==
  ASSUME TrainingInv, RunCycle
  PROVE  TrainingInv'
<1> DEFINE due == {a \in Wallets : OfAgent(jobs, a) # <<>> /\ HasNews(a, jobs, registry)}
<1>1. /\ trainer.phase = "idle"
      /\ trainer' = [phase |-> "training", todo |-> due, seen |-> jobs, registry |-> registry]
      /\ jobs' = jobs /\ registry' = registry /\ active' = active /\ models' = models
      /\ torn' = torn
  BY DEF RunCycle
<1> HIDE DEF due
<1>2. trainer' \in Cycle
  <2>1. due \in SUBSET Wallets
    BY DEF due
  <2> QED BY <1>1, <2>1 DEF Cycle, TrainingInv, RegistryOK
<1>3. SeenOK(jobs, jobs)
  <2> SUFFICES ASSUME NEW a \in Wallets
               PROVE  /\ Len(OfAgent(jobs, a)) <= Len(OfAgent(jobs, a))
                      /\ SubSeq(OfAgent(jobs, a), 1, Len(OfAgent(jobs, a))) = OfAgent(jobs, a)
    BY DEF SeenOK
  <2> DEFINE own == OfAgent(jobs, a)
  <2>1. own \in Seq(Kinds)
    BY OfAgentType DEF TrainingInv
  <2> HIDE DEF own
  <2>2. Len(own) <= Len(own) /\ SubSeq(own, 1, Len(own)) = own
    BY <2>1
  <2> QED BY <2>2 DEF own
<1>4. WorkOK(registry, trainer')
  <2>1. ASSUME NEW a \in Wallets
        PROVE  /\ registry[a].version <= trainer'.registry[a].version
               /\ a \in trainer'.todo =>
                    /\ trainer'.registry[a] = registry[a]
                    /\ OfAgent(trainer'.seen, a) # <<>> /\ HasNews(a, trainer'.seen, registry)
    <3>1. registry[a].version \in Nat
      BY DEF TrainingInv, RegistryOK, Entry
    <3> QED BY <1>1, <3>1 DEF due
  <2> QED BY <2>1 DEF WorkOK
<1>5. CycleOK(jobs, models, registry, trainer')
  BY <1>1, <1>2, <1>3, <1>4 DEF CycleOK, TrainingInv
<1>6. (trainer'.phase # "publishing" /\ ~torn') => active' = ActiveState(registry')
  BY <1>1 DEF TrainingInv, ActiveState
<1> QED BY <1>1, <1>5, <1>6 DEF TrainingInv

\* The file of another version is not touched.
LEMMA PassedElsewhere ==
  ASSUME NEW h, NEW files, NEW new, NEW a, NEW v, NEW m, Passed(h, files, a, v), <<a, v>> # m,
         DOMAIN files \subseteq DOMAIN new,
         \A x \in DOMAIN files \ {m} : new[x] = files[x]
  PROVE  Passed(h, new, a, v)
BY DEF Passed

\* One training: a new file, judged on what it was trained on.
LEMMA AgentProcessed ==
  ASSUME TrainingInv, NEW a \in Wallets, ProcessAgent(a)
  PROVE  TrainingInv'
<1> DEFINE own == OfAgent(trainer.seen, a)
           version == trainer.registry[a].version + 1
           file == <<a, version>>
           entry == [version |-> version, processed |-> Len(own),
                     status |-> IF EvaluateSandbox(own) THEN "active" ELSE "pending"]
<1>1. /\ trainer.phase = "training" /\ a \in trainer.todo
      /\ models' = [m \in DOMAIN models \cup {file} |-> IF m = file THEN Len(own) ELSE models[m]]
      /\ trainer' = [trainer EXCEPT !.todo = @ \ {a}, !.registry[a] = entry]
      /\ jobs' = jobs /\ registry' = registry /\ active' = active /\ torn' = torn
  BY DEF ProcessAgent
<1>2. CycleOK(jobs, models, registry, trainer)
  BY <1>1 DEF TrainingInv, NoRun
<1>3. /\ trainer \in Cycle /\ RegistryOK(jobs, models, trainer.registry)
      /\ SeenOK(jobs, trainer.seen) /\ WorkOK(registry, trainer)
  BY <1>1, <1>2 DEF CycleOK
<1>4. own \in Seq(Kinds) /\ Len(own) \in Nat /\ Len(own) # 0 /\ Len(own) <= MaxJobs
  <2>1. own \in Seq(Kinds)
    BY <1>3, OfAgentType DEF Cycle
  <2>2. Len(own) \in Nat /\ Len(own) # 0
    <3>1. own # <<>>
      BY <1>1, <1>3 DEF WorkOK
    <3> HIDE DEF own
    <3> QED BY <2>1, <3>1
  <2>3. Len(own) <= Len(OfAgent(jobs, a)) /\ Len(OfAgent(jobs, a)) \in 0..Len(jobs)
    BY <1>3, OfAgentType DEF SeenOK, TrainingInv
  <2>4. Len(jobs) <= MaxJobs /\ MaxJobs \in Nat /\ Len(jobs) \in Nat
    BY FleetAssumption DEF TrainingInv
  <2> QED BY <2>1, <2>2, <2>3, <2>4
<1>5. /\ trainer.registry[a] = registry[a] /\ registry[a] \in Entry
      /\ version = registry[a].version + 1 /\ version \in Nat
      /\ Len(own) - registry[a].processed >= MinNewRecords
  BY <1>1, <1>3 DEF WorkOK, TrainingInv, RegistryOK, Entry, HasNews
<1>6. entry \in Entry
  BY <1>4, <1>5 DEF Entry
<1>7. Passed(jobs, models', a, version) <=> EvaluateSandbox(own)
  <2>1. models'[file] = Len(own) /\ file \in DOMAIN models'
    BY <1>1
  <2>2. /\ Len(own) <= Len(OfAgent(jobs, a)) /\ Len(OfAgent(jobs, a)) \in Nat
        /\ SubSeq(OfAgent(jobs, a), 1, Len(own)) = own
    BY <1>3, OfAgentType DEF SeenOK, TrainingInv
  <2>3. Len(own) \in 0..Len(OfAgent(jobs, a))
    BY <1>4, <2>2
  <2> QED BY <2>1, <2>2, <2>3 DEF Passed
<1>8. \A b \in Wallets, v \in Nat :
        (Passed(jobs, models, b, v) /\ <<b, v>> # file) => Passed(jobs, models', b, v)
  <2>1. /\ DOMAIN models \subseteq DOMAIN models'
        /\ \A x \in DOMAIN models \ {file} : models'[x] = models[x]
    BY <1>1
  <2> HIDE DEF file
  <2> QED BY <2>1, PassedElsewhere
<1>9. \A m \in DOMAIN models' : models'[m] \in 1..MaxJobs
  <2> HIDE DEF file, own
  <2> QED BY <1>1, <1>4, FleetAssumption DEF TrainingInv
<1> HIDE DEF entry
<1>10. /\ trainer' \in Cycle /\ trainer'.phase = "training" /\ trainer'.seen = trainer.seen
       /\ trainer'.todo = trainer.todo \ {a}
       /\ trainer'.registry = [trainer.registry EXCEPT ![a] = entry]
  BY <1>1, <1>3, <1>6 DEF Cycle
<1>11. /\ entry.processed = Len(own) /\ entry.version = version
       /\ entry.status = "active" => EvaluateSandbox(own)
  BY DEF entry
<1>12. RegistryOK(jobs, models', registry)
  <2>1. ASSUME NEW b \in Wallets, registry[b].status = "active"
        PROVE  Passed(jobs, models', b, registry[b].version)
    <3>1. registry[b].version \in Nat /\ Passed(jobs, models, b, registry[b].version)
      BY <2>1 DEF TrainingInv, RegistryOK, Entry
    <3>2. <<b, registry[b].version>> # file
      BY <1>5 DEF Entry
    <3> QED BY <1>8, <3>1, <3>2
  <2> QED BY <2>1 DEF TrainingInv, RegistryOK
<1>13. RegistryOK(jobs, models', trainer'.registry)
  <2>1. ASSUME NEW b \in Wallets
        PROVE  /\ trainer'.registry[b].processed <= Len(OfAgent(jobs, b))
               /\ MinNewRecords > 0 =>
                    trainer'.registry[b].version <= trainer'.registry[b].processed
               /\ trainer'.registry[b].status = "active" =>
                    /\ trainer'.registry[b].version # 0
                    /\ Passed(jobs, models', b, trainer'.registry[b].version)
    <3>1. CASE b = a
      <4>1. trainer'.registry[b] = entry
        BY <1>3, <1>10, <3>1 DEF Cycle
      <4>2. Len(own) <= Len(OfAgent(jobs, a))
        BY <1>3 DEF SeenOK
      <4>3. MinNewRecords > 0 => version <= Len(own)
        <5>1. MinNewRecords > 0 => registry[a].version <= registry[a].processed
          BY DEF TrainingInv, RegistryOK
        <5>2. /\ registry[a].version \in Nat /\ registry[a].processed \in Nat
              /\ MinNewRecords \in Int
          BY <1>5, FleetAssumption DEF Entry
        <5> HIDE DEF own
        <5> QED BY <1>4, <1>5, <5>1, <5>2
      <4>4. version # 0
        BY <1>5 DEF Entry
      <4> QED BY <1>7, <1>11, <3>1, <4>1, <4>2, <4>3, <4>4
    <3>2. CASE b # a
      <4>1. trainer'.registry[b] = trainer.registry[b]
        BY <1>3, <1>10, <3>2 DEF Cycle
      <4>2. trainer.registry[b].version \in Nat
        BY <1>3 DEF Cycle, Entry
      <4>3. <<b, trainer.registry[b].version>> # file
        BY <3>2
      <4> QED BY <1>3, <1>8, <4>1, <4>2, <4>3 DEF RegistryOK
    <3> QED BY <3>1, <3>2
  <2>2. trainer'.registry \in [Wallets -> Entry]
    BY <1>10 DEF Cycle
  <2> QED BY <2>1, <2>2 DEF RegistryOK
<1>14. WorkOK(registry, trainer')
  <2>1. ASSUME NEW b \in Wallets
        PROVE  /\ registry[b].version <= trainer'.registry[b].version
               /\ b \in trainer'.todo =>
                    /\ trainer'.registry[b] = registry[b]
                    /\ OfAgent(trainer'.seen, b) # <<>> /\ HasNews(b, trainer'.seen, registry)
    <3>1. CASE b = a
      <4>1. trainer'.registry[b] = entry /\ b \notin trainer'.todo
        BY <1>3, <1>10, <3>1 DEF Cycle
      <4>2. registry[a].version <= version
        BY <1>5 DEF Entry
      <4> QED BY <1>11, <3>1, <4>1, <4>2
    <3>2. CASE b # a
      <4>1. trainer'.registry[b] = trainer.registry[b]
            /\ (b \in trainer'.todo => b \in trainer.todo)
        BY <1>3, <1>10, <3>2 DEF Cycle
      <4> QED BY <1>3, <1>10, <4>1 DEF WorkOK
    <3> QED BY <3>1, <3>2
  <2> QED BY <2>1 DEF WorkOK
<1>15. CycleOK(jobs, models', registry, trainer')
  BY <1>3, <1>10, <1>13, <1>14 DEF CycleOK
<1>16. ActiveOK(jobs, models', registry, active)
  <2>1. ASSUME NEW b \in Wallets, active[b] # 0
        PROVE  Passed(jobs, models', b, active[b])
    <3>1. active[b] \in Nat /\ Passed(jobs, models, b, active[b]) /\ active[b] <= registry[b].version
      BY <2>1 DEF TrainingInv, ActiveOK
    <3>2. <<b, active[b]>> # file
      BY <1>5, <3>1 DEF Entry
    <3> QED BY <1>8, <3>1, <3>2
  <2> QED BY <2>1 DEF TrainingInv, ActiveOK
<1>17. (trainer'.phase # "publishing" /\ ~torn') => active' = ActiveState(registry')
  BY <1>1 DEF TrainingInv, ActiveState
<1> QED BY <1>1, <1>9, <1>12, <1>15, <1>16, <1>17 DEF TrainingInv
LEMMA RegistrySaved ==
  ASSUME TrainingInv, SaveRegistry
  PROVE  TrainingInv'
<1>1. /\ trainer.phase = "training" /\ registry' = trainer.registry
      /\ trainer' = [trainer EXCEPT !.phase = "publishing"]
      /\ jobs' = jobs /\ active' = active /\ models' = models /\ torn' = torn
  BY DEF SaveRegistry
<1>2. CycleOK(jobs, models, registry, trainer)
  BY <1>1 DEF TrainingInv, NoRun
<1>3. /\ trainer' \in Cycle /\ trainer'.phase = "publishing"
      /\ trainer'.registry = trainer.registry /\ trainer'.seen = trainer.seen
  BY <1>1, <1>2 DEF CycleOK, Cycle
<1>4. RegistryOK(jobs, models, registry')
  BY <1>1, <1>2 DEF CycleOK
<1>5. CycleOK(jobs, models, registry', trainer')
  BY <1>1, <1>2, <1>3 DEF CycleOK
<1>6. ActiveOK(jobs, models, registry', active)
  <2>1. ASSUME NEW a \in Wallets PROVE active[a] <= registry'[a].version
    <3>1. active[a] <= registry[a].version /\ active[a] \in Nat
      BY DEF TrainingInv, ActiveOK
    <3>2. registry[a].version <= registry'[a].version
      BY <1>1, <1>2 DEF CycleOK, WorkOK
    <3>3. registry[a].version \in Nat /\ registry'[a].version \in Nat
      BY <1>4 DEF TrainingInv, RegistryOK, Entry
    <3> QED BY <3>1, <3>2, <3>3
  <2> QED BY <2>1 DEF TrainingInv, ActiveOK
<1> QED BY <1>1, <1>3, <1>4, <1>5, <1>6 DEF TrainingInv

LEMMA ActiveSaved ==
  ASSUME TrainingInv, SaveActiveState
  PROVE  TrainingInv'
<1>1. /\ trainer.phase = "publishing" /\ active' = ActiveState(trainer.registry)
      /\ trainer' = NoRun /\ torn' = FALSE
      /\ jobs' = jobs /\ registry' = registry /\ models' = models
  BY DEF SaveActiveState
<1>2. registry = trainer.registry
  BY <1>1 DEF TrainingInv, NoRun, CycleOK
<1>3. ActiveOK(jobs, models, registry, active')
  <2>1. ASSUME NEW a \in Wallets
        PROVE  /\ active'[a] \in Nat /\ active'[a] <= registry[a].version
               /\ active'[a] # 0 => Passed(jobs, models, a, active'[a])
    <3>1. active'[a] = IF registry[a].status = "active" THEN registry[a].version ELSE 0
      BY <1>1, <1>2 DEF ActiveState
    <3>2. registry[a].version \in Nat
      BY DEF TrainingInv, RegistryOK, Entry
    <3> QED BY <3>1, <3>2 DEF TrainingInv, RegistryOK
  <2>2. active' \in [Wallets -> Nat]
    BY <1>1, <2>1 DEF ActiveState
  <2> QED BY <2>1, <2>2 DEF ActiveOK
<1>4. active' = ActiveState(registry')
  BY <1>1, <1>2 DEF ActiveState
<1> QED BY <1>1, <1>3, <1>4 DEF TrainingInv

LEMMA TrainerCrashes ==
  ASSUME TrainingInv, CrashTrainer
  PROVE  TrainingInv'
<1>1. /\ torn' = (torn \/ trainer.phase = "publishing") /\ trainer' = NoRun
      /\ jobs' = jobs /\ registry' = registry /\ active' = active /\ models' = models
  BY DEF CrashTrainer, spawning
<1>2. torn' \in BOOLEAN
  BY <1>1 DEF TrainingInv
<1>3. ~torn' => active' = ActiveState(registry')
  BY <1>1 DEF TrainingInv, ActiveState
<1> QED BY <1>1, <1>2, <1>3 DEF TrainingInv

LEMMA TrainingStarts == Init => TrainingInv
<1> SUFFICES ASSUME Init PROVE TrainingInv
  OBVIOUS
<1>1. /\ jobs = <<>> /\ registry = [a \in Wallets |-> NoModel]
      /\ active = [a \in Wallets |-> 0] /\ models = [m \in {} |-> 0]
      /\ trainer = NoRun /\ torn = FALSE
  BY DEF Init
<1>2. jobs \in Seq(Kinds) /\ Len(jobs) <= MaxJobs
  BY <1>1, FleetAssumption
<1>3. DOMAIN models = {}
  BY <1>1
<1>4. RegistryOK(jobs, models, registry)
  <2>1. ASSUME NEW a \in Wallets PROVE Len(OfAgent(jobs, a)) \in Nat
    BY <1>2, OfAgentType
  <2> QED BY <1>1, <2>1 DEF RegistryOK, NoModel, Entry
<1>5. ActiveOK(jobs, models, registry, active)
  BY <1>1 DEF ActiveOK, NoModel
<1>6. active = ActiveState(registry)
  BY <1>1 DEF ActiveState, NoModel
<1> QED BY <1>1, <1>2, <1>3, <1>4, <1>5, <1>6 DEF TrainingInv

LEMMA TrainingKept == TrainingInv /\ [Next]_vars => TrainingInv'
<1> SUFFICES ASSUME TrainingInv, [Next]_vars PROVE TrainingInv'
  OBVIOUS
<1>1. ASSUME NEW k \in Kinds, Record(k) \/ RecordListed(k) PROVE TrainingInv'
  BY <1>1, RecordTrains DEF Record, RecordListed
<1>2. ASSUME UNCHANGED <<jobs, training>> PROVE TrainingInv'
  BY <1>2 DEF TrainingInv, training, ActiveState
<1>3. ASSUME NEW l \in LabelSet, Observe(l) PROVE TrainingInv'
  BY <1>2, <1>3 DEF Observe
<1>4. ASSUME NEW p \in Spawners, Start(p) \/ Consume(p) \/ Save(p) \/ CrashSpawner(p)
      PROVE  TrainingInv'
  BY <1>2, <1>4 DEF Start, Consume, Save, CrashSpawner
<1>5. ASSUME UNCHANGED vars PROVE TrainingInv'
  BY <1>2, <1>5 DEF vars, training
<1> QED BY <1>1, <1>3, <1>4, <1>5, CycleStarts, AgentProcessed, RegistrySaved, ActiveSaved,
           TrainerCrashes DEF Next

\* What is published passed the sandbox and is what the registry names, whatever
\* was trained, failed or cut off in between.  train/updateModels.ts:430-467.
THEOREM PublishedIsSound == Spec => []ActiveSound
<1>1. TrainingInv => ActiveSound
  <2> SUFFICES ASSUME TrainingInv PROVE ActiveSound
    OBVIOUS
  <2>1. ActivePassed
    BY DEF TrainingInv, ActiveOK, Passed, ActivePassed
  <2>2. ActiveFollowsRegistry
    BY DEF TrainingInv, ActiveFollowsRegistry
  <2> QED BY <2>1, <2>2 DEF ActiveSound
<1> QED BY <1>1, TrainingStarts, TrainingKept, PTL DEF Spec
-----------------------------------------------------------------------------
(* What one run of the spawn script prepares. *)

\* The norms form a sequence without repetition.
LEMMA NormsInOrder ==
  /\ NormSeq \in Seq(Norms) /\ Len(NormSeq) \in Nat
  /\ \A i, j \in 1..Len(NormSeq) : NormSeq[i] = NormSeq[j] => i = j
<1>1. IsFiniteSet(Norms)
  <2>1. IsFiniteSet(DOMAIN Labels)
    BY FS_Interval, FleetAssumption
  <2>2. Norms = {Norm[Labels[i]] : i \in DOMAIN Labels}
    BY DEF Norms, LabelSet
  <2> DEFINE g == [i \in DOMAIN Labels |-> Norm[Labels[i]]]
  <2>3. g \in Surjection(DOMAIN Labels, Norms)
    BY <2>2 DEF Surjection
  <2> QED BY <2>1, <2>3, FS_Surjection
<1> DEFINE n == Cardinality(Norms)
<1>2. n \in Nat
  BY <1>1, FS_CardinalityType
<1>3. \E f \in [1..n -> Norms] : IsInjective(f)
  <2>1. ExistsBijection(1..n, Norms)
    BY <1>1, FS_CardinalityType
  <2> QED BY <2>1 DEF ExistsBijection, Bijection, Injection, IsInjective
<1>4. NormSeq \in [1..n -> Norms] /\ IsInjective(NormSeq)
  BY <1>3 DEF NormSeq, SetToSeq
<1>5. NormSeq \in Seq(Norms) /\ Len(NormSeq) = n
  BY <1>2, <1>4
<1> QED BY <1>2, <1>4, <1>5 DEF IsInjective
Result == [config : [LabelSet -> SUBSET Nat], consume : Seq(Norms), done : SUBSET Norms,
           next : Nat \ {0}]

\* An intermediate result: nobody of the configuration read is lost, new agents have
\* new wallets, and niches about to be cleared are served.
Fits(config, acc) ==
  /\ acc \in Result
  /\ \A l \in LabelSet :
       config[l] \subseteq acc.config[l] /\ acc.config[l] \subseteq Wallets \cup 1..(acc.next - 1)
  /\ \A i \in 1..Len(acc.consume) : Serves(acc.config, acc.consume[i])

\* One spelling per niche, within the limit.
Tidy(config) ==
  /\ \A l \in LabelSet : IsFiniteSet(config[l]) /\ Cardinality(config[l]) <= MaxPerCategory
  /\ \A l, m \in LabelSet : config[l] # {} /\ config[m] # {} /\ Norm[l] = Norm[m] => l = m

LEMMA KeyOfCategory ==
  ASSUME NEW config, NEW l \in LabelSet
  PROVE  /\ CategoryKey(config, l) \in LabelSet /\ Norm[CategoryKey(config, l)] = Norm[l]
         /\ config[CategoryKey(config, l)] = {} =>
              \A m \in LabelSet : Norm[m] = Norm[l] => config[m] = {}
<1> DEFINE same == {m \in LabelSet : Norm[m] = Norm[l] /\ config[m] # {}}
<1>1. CategoryKey(config, l) = IF same = {} THEN l ELSE CHOOSE m \in same : TRUE
  BY DEF CategoryKey
<1>2. CASE same = {}
  BY <1>1, <1>2
<1>3. CASE same # {}
  <2>1. CategoryKey(config, l) \in same
    BY <1>1, <1>3
  <2> QED BY <2>1
<1> QED BY <1>2, <1>3

LEMMA PushIs ==
  ASSUME NEW config, NEW acc, Fits(config, acc), NEW l \in LabelSet
  PROVE  LET key == CategoryKey(acc.config, l)
             new == Push(acc, l)
         IN  /\ new \in Result
             /\ new.consume = acc.consume /\ new.done = acc.done /\ new.next = acc.next + 1
             /\ key \in LabelSet /\ Norm[key] = Norm[l]
             /\ new.config[key] = acc.config[key] \cup {acc.next}
             /\ \A m \in LabelSet \ {key} : new.config[m] = acc.config[m]
<1> DEFINE key == CategoryKey(acc.config, l)
<1>1. acc \in Result /\ acc.next \in Nat
  BY DEF Fits, Result
<1>2. key \in LabelSet /\ Norm[key] = Norm[l]
  BY KeyOfCategory
<1> HIDE DEF key
<1>3. Push(acc, l) = [acc EXCEPT !.config[key] = @ \cup {acc.next}, !.next = @ + 1]
  BY DEF Push, key
<1> DEFINE cell == acc.config[key] \cup {acc.next}
           new == Push(acc, l)
<1>4. cell \in SUBSET Nat
  BY <1>1, <1>2 DEF Result
<1>5. /\ acc.config \in [LabelSet -> SUBSET Nat] /\ acc.consume \in Seq(Norms)
      /\ acc.done \in SUBSET Norms /\ acc.next \in Nat \ {0}
  BY <1>1 DEF Result
<1>6. /\ new.config = [acc.config EXCEPT ![key] = cell] /\ new.consume = acc.consume
      /\ new.done = acc.done /\ new.next = acc.next + 1
      /\ new = [config |-> new.config, consume |-> new.consume, done |-> new.done,
                next |-> new.next]
  BY <1>1, <1>3 DEF Result
<1> HIDE DEF cell, new
<1>7. new.config \in [LabelSet -> SUBSET Nat] /\ new.next \in Nat \ {0}
  <2>1. [acc.config EXCEPT ![key] = cell] \in [LabelSet -> SUBSET Nat]
    BY <1>4, <1>5
  <2>2. acc.next + 1 \in Nat \ {0}
    BY <1>5
  <2> QED BY <1>6, <2>1, <2>2
<1>8. new \in Result
  BY <1>5, <1>6, <1>7 DEF Result
<1>9. new.config[key] = cell /\ \A m \in LabelSet \ {key} : new.config[m] = acc.config[m]
  BY <1>2, <1>5, <1>6
<1> QED BY <1>2, <1>6, <1>8, <1>9 DEF key, cell, new

LEMMA PushFits ==
  ASSUME NEW config, NEW acc, Fits(config, acc), NEW l \in LabelSet
  PROVE  Fits(config, Push(acc, l)) /\ Serves(Push(acc, l).config, Norm[l])
<1> DEFINE key == CategoryKey(acc.config, l)
           new == Push(acc, l)
<1>1. /\ new \in Result
      /\ new.consume = acc.consume /\ new.next = acc.next + 1
      /\ key \in LabelSet /\ Norm[key] = Norm[l]
      /\ new.config[key] = acc.config[key] \cup {acc.next}
      /\ \A m \in LabelSet \ {key} : new.config[m] = acc.config[m]
  BY PushIs
<1> HIDE DEF key, new
<1>2. /\ acc.next \in Nat \ {0} /\ 1..(acc.next - 1) \subseteq 1..acc.next
      /\ acc.next \in 1..acc.next /\ new.next - 1 = acc.next
  <2>1. acc.next \in Nat \ {0}
    BY DEF Fits, Result
  <2> QED BY <1>1, <2>1
<1>3. ASSUME NEW m \in LabelSet
      PROVE  /\ config[m] \subseteq new.config[m]
             /\ new.config[m] \subseteq Wallets \cup 1..(new.next - 1)
             /\ acc.config[m] \subseteq new.config[m]
  <2>1. config[m] \subseteq acc.config[m] /\ acc.config[m] \subseteq Wallets \cup 1..(acc.next - 1)
    BY DEF Fits
  <2> QED BY <1>1, <1>2, <2>1
<1>4. ASSUME NEW i \in 1..Len(new.consume) PROVE Serves(new.config, new.consume[i])
  <2>1. Serves(acc.config, new.consume[i])
    BY <1>1 DEF Fits
  <2> QED BY <1>3, <2>1 DEF Serves
<1>5. Serves(new.config, Norm[l])
  BY <1>1 DEF Serves
<1>6. Fits(config, new)
  BY <1>1, <1>3, <1>4 DEF Fits
<1> QED BY <1>5, <1>6 DEF new

\* The niche just served may be cleared.
LEMMA QueueFits ==
  ASSUME NEW config, NEW acc, Fits(config, acc), NEW n \in Norms, Serves(acc.config, n),
         NEW new \in Result, new.config = acc.config, new.next = acc.next,
         new.consume = Append(acc.consume, n)
  PROVE  Fits(config, new)
<1>1. acc.consume \in Seq(Norms)
  BY DEF Fits, Result
<1>2. ASSUME NEW i \in 1..Len(new.consume) PROVE Serves(new.config, new.consume[i])
  <2>1. \/ i \in 1..Len(acc.consume) /\ new.consume[i] = acc.consume[i]
        \/ new.consume[i] = n
    BY <1>1
  <2> QED BY <2>1 DEF Fits
<1> QED BY <1>2 DEF Fits

\* A result with one entry more in its queue.
LEMMA QueueGrows ==
  ASSUME NEW acc \in Result, NEW n \in Norms, NEW done \in SUBSET Norms
  PROVE  LET new == [acc EXCEPT !.done = done, !.consume = Append(@, n)]
         IN  /\ new \in Result /\ new.config = acc.config /\ new.next = acc.next
             /\ new.consume = Append(acc.consume, n)
<1> DEFINE queue == Append(acc.consume, n)
           new == [acc EXCEPT !.done = done, !.consume = queue]
<1>1. /\ acc.config \in [LabelSet -> SUBSET Nat] /\ acc.consume \in Seq(Norms)
      /\ acc.next \in Nat \ {0}
  BY DEF Result
<1>2. queue \in Seq(Norms)
  BY <1>1
<1> HIDE DEF queue
<1>3. new \in Result /\ new.config = acc.config /\ new.next = acc.next /\ new.consume = queue
  BY <1>1, <1>2 DEF Result
<1> QED BY <1>3 DEF queue

LEMMA ClonedFits ==
  ASSUME NEW config, NEW acc, Fits(config, acc), NEW l \in LabelSet
  PROVE  /\ Fits(config, Cloned(acc, Norm[l], l))
         /\ Cloned(acc, Norm[l], l).config = Push(acc, l).config
<1> DEFINE n == Norm[l]
           pushed == Push(acc, l)
           done == pushed.done \cup {n}
           new == [pushed EXCEPT !.done = done, !.consume = Append(@, n)]
<1>1. n \in Norms
  BY DEF Norms
<1>2. Fits(config, pushed) /\ Serves(pushed.config, n) /\ pushed \in Result
  BY PushFits DEF Fits
<1>3. Cloned(acc, n, l) = new
  BY DEF Cloned
<1>4. done \in SUBSET Norms
  <2>1. pushed.done \in SUBSET Norms
    BY <1>2 DEF Result
  <2> QED BY <1>1, <2>1
<1> HIDE DEF pushed, n, done
<1>5. /\ new \in Result /\ new.config = pushed.config /\ new.next = pushed.next
      /\ new.consume = Append(pushed.consume, n)
  BY <1>1, <1>2, <1>4, QueueGrows
<1> HIDE DEF new
<1>6. Fits(config, new)
  BY <1>1, <1>2, <1>5, QueueFits
<1> QED BY <1>3, <1>5, <1>6 DEF pushed, n

LEMMA SpecialistFits ==
  ASSUME NEW config, NEW acc, Fits(config, acc), NEW l \in LabelSet, NEW pending
  PROVE  /\ Fits(config, Specialist(pending, acc, l))
         /\ Specialist(pending, acc, l).config = Push(acc, l).config
<1> DEFINE n == Norm[l]
           pushed == Push(acc, l)
           done == pushed.done
           new == [pushed EXCEPT !.done = done, !.consume = Append(@, n)]
<1>1. n \in Norms
  BY DEF Norms
<1>2. Fits(config, pushed) /\ Serves(pushed.config, n) /\ pushed \in Result
  BY PushFits DEF Fits
<1>3. [pushed EXCEPT !.consume = Append(@, n)] = new
  BY <1>2 DEF Result
<1>4. Specialist(pending, acc, l) = new \/ Specialist(pending, acc, l) = pushed
  BY <1>3 DEF Specialist
<1>5. done \in SUBSET Norms
  BY <1>2 DEF Result
<1> HIDE DEF pushed, n, done
<1>6. /\ new \in Result /\ new.config = pushed.config /\ new.next = pushed.next
      /\ new.consume = Append(pushed.consume, n)
  BY <1>1, <1>2, <1>5, QueueGrows
<1> HIDE DEF new
<1>7. Fits(config, new)
  BY <1>1, <1>2, <1>6, QueueFits
<1> QED BY <1>2, <1>4, <1>6, <1>7 DEF pushed
\* One agent more in a category below the limit.
LEMMA PushTidy ==
  ASSUME NEW config, NEW acc, Fits(config, acc), NEW l \in LabelSet, Tidy(acc.config),
         Cardinality(CategoryAgents(acc.config, l)) < MaxPerCategory
  PROVE  Tidy(Push(acc, l).config)
<1> DEFINE key == CategoryKey(acc.config, l)
           old == acc.config
           new == Push(acc, l).config
           x == acc.next
<1>1. /\ key \in LabelSet /\ Norm[key] = Norm[l]
      /\ new[key] = old[key] \cup {x}
      /\ \A m \in LabelSet \ {key} : new[m] = old[m]
  BY PushIs
<1>2. old[key] = {} => \A m \in LabelSet : Norm[m] = Norm[l] => old[m] = {}
  BY KeyOfCategory
<1>3. Cardinality(old[key]) < MaxPerCategory
  BY DEF CategoryAgents
<1> HIDE DEF key, old, new, x
<1>4. /\ \A m \in LabelSet : IsFiniteSet(old[m]) /\ Cardinality(old[m]) <= MaxPerCategory
      /\ \A m, k \in LabelSet : old[m] # {} /\ old[k] # {} /\ Norm[m] = Norm[k] => m = k
  BY DEF Tidy, old
<1>5. IsFiniteSet(new[key]) /\ Cardinality(new[key]) <= MaxPerCategory
  <2>1. IsFiniteSet(old[key]) /\ Cardinality(old[key]) \in Nat
    BY <1>1, <1>4, FS_CardinalityType
  <2>2. /\ IsFiniteSet(old[key] \cup {x})
        /\ Cardinality(old[key] \cup {x}) =
             IF x \in old[key] THEN Cardinality(old[key]) ELSE Cardinality(old[key]) + 1
    BY <2>1, FS_AddElement
  <2>3. MaxPerCategory \in Int
    BY FleetAssumption
  <2> QED BY <1>1, <1>3, <2>1, <2>2, <2>3
<1>6. ASSUME NEW m \in LabelSet
      PROVE  IsFiniteSet(new[m]) /\ Cardinality(new[m]) <= MaxPerCategory
  BY <1>1, <1>4, <1>5
<1>7. ASSUME NEW m \in LabelSet, new[m] # {}, Norm[m] = Norm[l] PROVE m = key
  <2> SUFFICES ASSUME m # key PROVE FALSE
    OBVIOUS
  <2>1. old[m] # {}
    BY <1>1, <1>7
  <2> QED BY <1>1, <1>2, <1>4, <1>7, <2>1
<1>8. ASSUME NEW m \in LabelSet, NEW k \in LabelSet, new[m] # {}, new[k] # {}, Norm[m] = Norm[k]
      PROVE  m = k
  <2>1. CASE Norm[m] = Norm[l]
    BY <1>7, <1>8, <2>1
  <2>2. CASE Norm[m] # Norm[l]
    BY <1>1, <1>4, <1>8, <2>2
  <2> QED BY <2>1, <2>2
<1> QED BY <1>6, <1>8 DEF Tidy, new

Request == [label : LabelSet, observed : Nat, jobs : SUBSET Nat]
Requested == [Norms -> Request]

LEMMA CloneStepFits ==
  ASSUME NEW s, NEW config, NEW acc, Fits(config, acc), NEW r, r.label \in LabelSet
  PROVE  Fits(config, CloneStep(s, config, r, acc))
BY ClonedFits DEF CloneStep

LEMMA DemandStepFits ==
  ASSUME NEW s, NEW config, NEW acc, Fits(config, acc), NEW pending, NEW l \in LabelSet
  PROVE  /\ Fits(config, DemandStep(s, pending, acc, l))
         /\ Tidy(acc.config) => Tidy(DemandStep(s, pending, acc, l).config)
<1> DEFINE new == DemandStep(s, pending, acc, l)
<1>1. \/ new = acc
      \/ /\ new = Specialist(pending, acc, l)
         /\ Cardinality(CategoryAgents(acc.config, l)) < MaxPerCategory
  BY DEF DemandStep
<1>2. /\ Fits(config, Specialist(pending, acc, l))
      /\ Specialist(pending, acc, l).config = Push(acc, l).config
  BY SpecialistFits
<1> HIDE DEF new
<1>3. Fits(config, new)
  BY <1>1, <1>2
<1>4. Tidy(acc.config) => Tidy(new.config)
  BY <1>1, <1>2, PushTidy
<1> QED BY <1>3, <1>4 DEF new

\* The loops of a run have results.
CloneTurns(s, config, reqs, start, f) ==
  f = [i \in 0..Len(NormSeq) |->
         IF i = 0 THEN start ELSE CloneStep(s, config, reqs[NormSeq[i]], f[i - 1])]
DemandTurns(s, pending, start, f) ==
  f = [i \in 0..Len(Labels) |->
         IF i = 0 THEN start ELSE DemandStep(s, pending, f[i - 1], Labels[i])]

LEMMA ClonesRun ==
  ASSUME NEW s, NEW config, NEW reqs \in Requested, NEW start, Fits(config, start)
  PROVE  \E f : CloneTurns(s, config, reqs, start, f)
                  /\ Clones(s, config, reqs, start) = f[Len(NormSeq)]
<1> DEFINE n == Len(NormSeq)
           A == {x \in Result : Fits(config, x)}
           g == [i \in 1..n |-> [x \in A |-> CloneStep(s, config, reqs[NormSeq[i]], x)]]
<1>1. n \in Nat /\ start \in A
  BY NormsInOrder DEF Fits
<1>2. ASSUME NEW i \in 1..n, NEW x \in A PROVE CloneStep(s, config, reqs[NormSeq[i]], x) \in A
  <2>1. reqs[NormSeq[i]].label \in LabelSet
    BY NormsInOrder DEF Requested, Request
  <2>2. Fits(config, CloneStep(s, config, reqs[NormSeq[i]], x))
    BY <2>1, CloneStepFits
  <2> QED BY <2>2 DEF Fits
<1>3. g \in [1..n -> [A -> A]]
  BY <1>2
<1>4. \A i \in 1..n, x \in A : g[i][x] = CloneStep(s, config, reqs[NormSeq[i]], x)
  OBVIOUS
<1> HIDE DEF g, A
<1>5. PICK f \in [0..n -> A] : Turns(f, n, start, g)
  <2> HIDE DEF n
  <2> QED BY <1>1, <1>3, LoopRuns
<1>6. \A i \in 0..n : i # 0 => i \in 1..n /\ f[i - 1] \in A
  BY <1>1
<1>7. CloneTurns(s, config, reqs, start, f)
  <2>1. f = [i \in 0..n |-> IF i = 0 THEN start ELSE g[i][f[i - 1]]]
    BY <1>5 DEF Turns
  <2>2. \A i \in 0..n : (IF i = 0 THEN start ELSE g[i][f[i - 1]]) =
          IF i = 0 THEN start ELSE CloneStep(s, config, reqs[NormSeq[i]], f[i - 1])
    BY <1>4, <1>6
  <2> QED BY <2>1, <2>2 DEF CloneTurns
<1> DEFINE made == CHOOSE h : CloneTurns(s, config, reqs, start, h)
<1>8. CloneTurns(s, config, reqs, start, made)
  BY <1>7
<1>9. Clones(s, config, reqs, start) = made[Len(NormSeq)]
  BY DEF Clones, CloneTurns
<1> QED BY <1>8, <1>9

LEMMA SpecialistsRun ==
  ASSUME NEW s, NEW config, NEW pending, NEW start, Fits(config, start)
  PROVE  \E f : DemandTurns(s, pending, start, f)
                  /\ Specialists(s, pending, start) = f[Len(Labels)]
<1> DEFINE n == Len(Labels)
           A == {x \in Result : Fits(config, x)}
           g == [i \in 1..n |-> [x \in A |-> DemandStep(s, pending, x, Labels[i])]]
<1>1. n \in Nat /\ start \in A
  BY FleetAssumption DEF Fits
<1>2. ASSUME NEW i \in 1..n, NEW x \in A PROVE DemandStep(s, pending, x, Labels[i]) \in A
  <2>1. Labels[i] \in LabelSet
    BY FleetAssumption
  <2>2. Fits(config, DemandStep(s, pending, x, Labels[i]))
    BY <2>1, DemandStepFits
  <2> QED BY <2>2 DEF Fits
<1>3. g \in [1..n -> [A -> A]]
  BY <1>2
<1>4. \A i \in 1..n, x \in A : g[i][x] = DemandStep(s, pending, x, Labels[i])
  OBVIOUS
<1> HIDE DEF g, A
<1>5. PICK f \in [0..n -> A] : Turns(f, n, start, g)
  <2> HIDE DEF n
  <2> QED BY <1>1, <1>3, LoopRuns
<1>6. \A i \in 0..n : i # 0 => i \in 1..n /\ f[i - 1] \in A
  BY <1>1
<1>7. DemandTurns(s, pending, start, f)
  <2>1. f = [i \in 0..n |-> IF i = 0 THEN start ELSE g[i][f[i - 1]]]
    BY <1>5 DEF Turns
  <2>2. \A i \in 0..n : (IF i = 0 THEN start ELSE g[i][f[i - 1]]) =
          IF i = 0 THEN start ELSE DemandStep(s, pending, f[i - 1], Labels[i])
    BY <1>4, <1>6
  <2> QED BY <2>1, <2>2 DEF DemandTurns
<1> DEFINE made == CHOOSE h : DemandTurns(s, pending, start, h)
<1>8. DemandTurns(s, pending, start, made)
  BY <1>7
<1>9. Specialists(s, pending, start) = made[Len(Labels)]
  BY DEF Specialists, DemandTurns
<1> QED BY <1>8, <1>9
LEMMA CloneEntries ==
  ASSUME NEW s, NEW config, NEW reqs, NEW start, NEW f,
         CloneTurns(s, config, reqs, start, f)
  PROVE  /\ f[0] = start
         /\ \A i \in 1..Len(NormSeq) :
              f[i] = CloneStep(s, config, reqs[NormSeq[i]], f[i - 1])
<1>1. Len(NormSeq) \in Nat
  BY NormsInOrder
<1>2. \A i \in 0..Len(NormSeq) :
        f[i] = IF i = 0 THEN start ELSE CloneStep(s, config, reqs[NormSeq[i]], f[i - 1])
  BY DEF CloneTurns
<1> QED BY <1>1, <1>2

LEMMA DemandEntries ==
  ASSUME NEW s, NEW pending, NEW start, NEW f, DemandTurns(s, pending, start, f)
  PROVE  /\ f[0] = start
         /\ \A i \in 1..Len(Labels) : f[i] = DemandStep(s, pending, f[i - 1], Labels[i])
<1>1. Len(Labels) \in Nat
  BY FleetAssumption
<1>2. \A i \in 0..Len(Labels) :
        f[i] = IF i = 0 THEN start ELSE DemandStep(s, pending, f[i - 1], Labels[i])
  BY DEF DemandTurns
<1> QED BY <1>1, <1>2

LEMMA ClonesFit ==
  ASSUME NEW s, NEW config, NEW reqs \in Requested, NEW start, Fits(config, start)
  PROVE  Fits(config, Clones(s, config, reqs, start))
<1>1. PICK f : CloneTurns(s, config, reqs, start, f)
                 /\ Clones(s, config, reqs, start) = f[Len(NormSeq)]
  BY ClonesRun
<1> DEFINE n == Len(NormSeq)
           B == {i \in 0..n : Fits(config, f[i])}
<1>2. n \in Nat
  BY NormsInOrder
<1>3. f[0] = start /\ \A i \in 1..n : f[i] = CloneStep(s, config, reqs[NormSeq[i]], f[i - 1])
  BY <1>1, CloneEntries
<1>4. 0 \in B
  BY <1>2, <1>3
<1>5. ASSUME NEW i \in 1..n, i - 1 \in B PROVE i \in B
  <2>1. reqs[NormSeq[i]].label \in LabelSet
    BY NormsInOrder DEF Requested, Request
  <2>2. Fits(config, CloneStep(s, config, reqs[NormSeq[i]], f[i - 1]))
    BY <1>5, <2>1, CloneStepFits
  <2> QED BY <1>3, <2>2
<1>6. \A i \in 1..n : i - 1 \in B => i \in B
  BY <1>5
<1>7. \A i \in 0..n : i \in B
  <2> HIDE DEF B, n
  <2> QED BY <1>2, <1>4, <1>6, Throughout
<1> QED BY <1>1, <1>2, <1>7

\* The specialists of a run, like its clones, fit in.
LEMMA SpecialistsFit ==
  ASSUME NEW s, NEW config, NEW pending, NEW start, Fits(config, start)
  PROVE  LET made == Specialists(s, pending, start)
         IN  Fits(config, made) /\ (Tidy(start.config) => Tidy(made.config))
<1>1. PICK f : DemandTurns(s, pending, start, f)
                 /\ Specialists(s, pending, start) = f[Len(Labels)]
  BY SpecialistsRun
<1> DEFINE n == Len(Labels)
           B == {i \in 0..n : Fits(config, f[i]) /\ (Tidy(start.config) => Tidy(f[i].config))}
<1>2. n \in Nat
  BY FleetAssumption
<1>3. f[0] = start /\ \A i \in 1..n : f[i] = DemandStep(s, pending, f[i - 1], Labels[i])
  BY <1>1, DemandEntries
<1>4. 0 \in B
  BY <1>2, <1>3
<1>5. ASSUME NEW i \in 1..n, i - 1 \in B PROVE i \in B
  <2>1. Labels[i] \in LabelSet
    BY FleetAssumption
  <2>2. /\ Fits(config, DemandStep(s, pending, f[i - 1], Labels[i]))
        /\ Tidy(f[i - 1].config) => Tidy(DemandStep(s, pending, f[i - 1], Labels[i]).config)
    BY <1>5, <2>1, DemandStepFits
  <2> QED BY <1>3, <1>5, <2>2
<1>6. \A i \in 1..n : i - 1 \in B => i \in B
  BY <1>5
<1>7. \A i \in 0..n : i \in B
  <2> HIDE DEF B, n
  <2> QED BY <1>2, <1>4, <1>6, Throughout
<1> QED BY <1>1, <1>2, <1>7

\* A request is kept under the norm of its label.
Matched(reqs) == \A n \in Norms : reqs[n].observed > 0 => Norm[reqs[n].label] = n

\* Two configurations that agree on a niche, or on all others.
SameAt(n, config, other) == \A l \in LabelSet : Norm[l] = n => other[l] = config[l]
SameElsewhere(n, config, other) == \A l \in LabelSet : Norm[l] # n => other[l] = config[l]

\* A category without agents gets its first.
LEMMA CloneStepTidy ==
  ASSUME NEW s, NEW config, NEW acc, Fits(config, acc), NEW reqs \in Requested,
         Matched(reqs), NEW n \in Norms,
         SameAt(n, config, acc.config),
         MaxPerCategory > 0, Tidy(acc.config)
  PROVE  LET new == CloneStep(s, config, reqs[n], acc)
         IN  /\ Tidy(new.config)
             /\ SameElsewhere(n, acc.config, new.config)
<1> DEFINE r == reqs[n]
           new == CloneStep(s, config, r, acc)
<1>0. r.label \in LabelSet /\ (r.observed > 0 => Norm[r.label] = n)
  BY DEF Requested, Request, Matched
<1> SUFFICES Tidy(new.config) /\ SameElsewhere(n, acc.config, new.config)
  OBVIOUS
<1> HIDE DEF r
<1>1. CASE new = acc
  BY <1>1 DEF SameElsewhere
<1>2. CASE new # acc
  <2>1. Clonable(s, config, r) /\ new = Cloned(acc, Norm[r.label], r.label)
    BY <1>2 DEF CloneStep
  <2>2. Norm[r.label] = n /\ CategoryAgents(config, r.label) = {}
    BY <1>0, <2>1 DEF Clonable
  <2>3. new.config = Push(acc, r.label).config
    BY <1>0, <2>1, ClonedFits
  <2>4. \A m \in LabelSet : Norm[m] = n => acc.config[m] = {}
    BY <1>0, <2>2, KeyOfCategory DEF CategoryAgents, SameAt
  <2>5. CategoryAgents(acc.config, r.label) = {}
    BY <1>0, <2>2, <2>4, KeyOfCategory DEF CategoryAgents
  <2>6. Cardinality(CategoryAgents(acc.config, r.label)) < MaxPerCategory
    BY <1>0, <2>5, FS_EmptySet
  <2>7. Tidy(new.config)
    BY <1>0, <2>3, <2>6, PushTidy
  <2>8. ASSUME NEW l \in LabelSet, Norm[l] # n PROVE new.config[l] = acc.config[l]
    BY <1>0, <2>2, <2>3, <2>8, PushIs
  <2> QED BY <2>7, <2>8 DEF SameElsewhere
<1> QED BY <1>1, <1>2

LEMMA ClonesTidy ==
  ASSUME NEW s, NEW config, NEW reqs \in Requested, NEW start, Fits(config, start),
         start.config = config, Matched(reqs), MaxPerCategory > 0, Tidy(config)
  PROVE  Tidy(Clones(s, config, reqs, start).config)
<1>1. PICK f : CloneTurns(s, config, reqs, start, f)
                 /\ Clones(s, config, reqs, start) = f[Len(NormSeq)]
  BY ClonesRun
<1> DEFINE n == Len(NormSeq)
           Untouched(i) == \A l \in LabelSet :
             (\A j \in 1..i : Norm[l] # NormSeq[j]) => f[i].config[l] = config[l]
           B == {i \in 0..n : Fits(config, f[i]) /\ Tidy(f[i].config) /\ Untouched(i)}
<1>2. n \in Nat
  BY NormsInOrder
<1>3. f[0] = start /\ \A i \in 1..n : f[i] = CloneStep(s, config, reqs[NormSeq[i]], f[i - 1])
  BY <1>1, CloneEntries
<1>4. 0 \in B
  BY <1>2, <1>3
<1>5. ASSUME NEW i \in 1..n, i - 1 \in B PROVE i \in B
  <2> DEFINE m == NormSeq[i]
             r == reqs[m]
  <2>1. m \in Norms /\ r.label \in LabelSet /\ (r.observed > 0 => Norm[r.label] = m)
    BY NormsInOrder DEF Requested, Request, Matched
  <2>2. Fits(config, f[i - 1]) /\ Tidy(f[i - 1].config) /\ Untouched(i - 1)
    BY <1>5
  <2>3. \A j \in 1..(i - 1) : m # NormSeq[j]
    <3>1. \A j \in 1..(i - 1) : j \in 1..n /\ j # i
      BY <1>2
    <3> QED BY <3>1, NormsInOrder
  <2>4. \A l \in LabelSet : Norm[l] = m => f[i - 1].config[l] = config[l]
    BY <2>2, <2>3
  <2>5. f[i] = CloneStep(s, config, r, f[i - 1])
    BY <1>3
  <2> HIDE DEF m, r
  <2>6. Fits(config, f[i])
    BY <2>1, <2>2, <2>5, CloneStepFits
  <2>7. /\ Tidy(f[i].config)
        /\ \A l \in LabelSet : Norm[l] # m => f[i].config[l] = f[i - 1].config[l]
    <3> DEFINE acc == f[i - 1]
               new == f[i]
    <3>1. m \in Norms /\ Fits(config, acc) /\ Tidy(acc.config)
      BY <2>1, <2>2
    <3>2. SameAt(m, config, acc.config)
      BY <2>4 DEF SameAt
    <3>3. new = CloneStep(s, config, reqs[m], acc)
      BY <2>5 DEF r
    <3> HIDE DEF acc, new
    <3>4. Tidy(new.config) /\ SameElsewhere(m, acc.config, new.config)
      BY <3>1, <3>2, <3>3, CloneStepTidy
    <3> QED BY <3>4 DEF acc, new, SameElsewhere
  <2>8. Untouched(i)
    <3> SUFFICES ASSUME NEW l \in LabelSet, \A j \in 1..i : Norm[l] # NormSeq[j]
                 PROVE  f[i].config[l] = config[l]
      OBVIOUS
    <3>1. Norm[l] # m
      BY <1>2 DEF m
    <3>2. \A j \in 1..(i - 1) : Norm[l] # NormSeq[j]
      BY <1>2
    <3> QED BY <2>2, <2>7, <3>1, <3>2
  <2>9. i \in 0..n
    BY <1>2
  <2>10. Tidy(f[i].config)
    BY <2>7
  <2> HIDE DEF Untouched, n
  <2> QED BY <2>6, <2>8, <2>9, <2>10
<1>6. \A i \in 1..n : i - 1 \in B => i \in B
  BY <1>5
<1>7. \A i \in 0..n : i \in B
  <2> HIDE DEF B, n
  <2> QED BY <1>2, <1>4, <1>6, Throughout
<1> QED BY <1>1, <1>2, <1>7

\* What a run prepares from the files it has read.
LEMMA SpawnedFits ==
  ASSUME NEW s, NEW config \in [LabelSet -> SUBSET Wallets], NEW reqs \in Requested,
         NEW next \in Nat \ {0}
  PROVE  LET made == Spawned(s, config, reqs, next)
         IN  /\ Fits(config, made)
             /\ Matched(reqs) /\ MaxPerCategory > 0 /\ Tidy(config) => Tidy(made.config)
<1> DEFINE start == [config |-> config, consume |-> <<>>, done |-> {}, next |-> next]
           pending == {n \in Norms : reqs[n].observed > 0}
           cloned == IF BaseCandidates(s, config) = {} THEN start
                     ELSE Clones(s, config, reqs, start)
<1>1. Spawned(s, config, reqs, next) = Specialists(s, pending, cloned)
  BY DEF Spawned
<1>2. Fits(config, start)
  <2>1. config \in [LabelSet -> SUBSET Nat]
    BY FleetAssumption DEF Wallets
  <2>2. start \in Result
    BY <2>1 DEF Result
  <2> QED BY <2>2 DEF Fits
<1>3. start.config = config
  OBVIOUS
<1> HIDE DEF start
<1>4. Fits(config, cloned)
  BY <1>2, ClonesFit
<1>5. Matched(reqs) /\ MaxPerCategory > 0 /\ Tidy(config) => Tidy(cloned.config)
  BY <1>2, <1>3, ClonesTidy
<1> HIDE DEF cloned, pending
<1> QED BY <1>1, <1>4, <1>5, SpecialistsFit
-----------------------------------------------------------------------------
(* The configuration, the requests and the runs of the spawn script. *)

Runs == [phase : {"running"}, config : [LabelSet -> SUBSET Wallets], consume : Seq(Norms),
         took : SUBSET Norms, read : SUBSET Norms]

\* A run is about to clear requests its own copy of the configuration serves.
RunOK(run) ==
  /\ run \in Runs
  /\ \A i \in 1..Len(run.consume) : Serves(run.config, run.consume[i])

SpawnInv ==
  /\ minted \in 0..MaxWallets
  /\ requests \in Requested /\ Matched(requests)
  /\ agents \in [LabelSet -> SUBSET Wallets]
  /\ spawner \in [Spawners -> Runs \cup {NoRun}]
  /\ \A p \in Spawners : spawner[p] = NoRun \/ RunOK(spawner[p])
  /\ crashes \in 0..MaxCrashes /\ cleared \in SUBSET Norms

\* What is running is a run.
LEMMA Running ==
  ASSUME SpawnInv, NEW p \in Spawners, spawner[p].phase = "running" \/ spawner[p].phase # "idle"
  PROVE  RunOK(spawner[p])
BY DEF SpawnInv, NoRun

LEMMA SpawnStarts == Init => SpawnInv
<1> SUFFICES ASSUME Init PROVE SpawnInv
  OBVIOUS
<1>1. /\ requests = [n \in Norms |-> [label |-> Labels[1], observed |-> 0, jobs |-> {}]]
      /\ agents = Employed /\ spawner = [p \in Spawners |-> NoRun]
      /\ minted = FirstWallet - 1 /\ crashes = 0 /\ cleared = {}
  BY DEF Init
<1>2. /\ FirstWallet \in 1 .. MaxWallets + 1 /\ MaxWallets \in Nat /\ MaxCrashes \in Nat
      /\ Employed \in [LabelSet -> SUBSET (1 .. FirstWallet - 1)]
  BY FleetAssumption
<1>3. minted \in 0..MaxWallets /\ crashes \in 0..MaxCrashes
      /\ 1 .. FirstWallet - 1 \subseteq Wallets
  BY <1>1, <1>2 DEF Wallets
<1>4. agents \in [LabelSet -> SUBSET Wallets]
  <2> HIDE DEF Wallets
  <2> QED BY <1>1, <1>2, <1>3
<1>5. Labels[1] \in LabelSet
  <2>1. 1 \in DOMAIN Labels
    BY FleetAssumption
  <2> QED BY <2>1 DEF LabelSet
<1>6. requests \in Requested /\ Matched(requests)
  BY <1>1, <1>5 DEF Requested, Request, Matched
<1> QED BY <1>1, <1>3, <1>4, <1>6 DEF SpawnInv

LEMMA ObserveSpawns ==
  ASSUME SpawnInv, NEW l \in LabelSet, Observe(l)
  PROVE  SpawnInv'
<1> DEFINE n == Norm[l]
           entry == [label |-> l, observed |-> requests[n].observed + 1,
                     jobs |-> requests[n].jobs]
<1>1. n \in Norms
  BY DEF Norms
<1>2. /\ requests' = [requests EXCEPT ![n] = entry]
      /\ agents' = agents /\ spawner' = spawner /\ minted' = minted
      /\ cleared' = cleared \ {n} /\ crashes' = crashes
  BY DEF Observe
<1>3. requests \in Requested /\ Matched(requests)
  BY DEF SpawnInv
<1>4. entry \in Request /\ entry.label = l
  <2>1. requests[n].observed \in Nat /\ requests[n].jobs \in SUBSET Nat
    BY <1>1, <1>3 DEF Requested, Request
  <2> QED BY <2>1 DEF Request
<1> HIDE DEF entry
<1>5. requests' \in Requested
  BY <1>1, <1>2, <1>3, <1>4 DEF Requested, Request
<1>6. Matched(requests')
  BY <1>1, <1>2, <1>3, <1>4 DEF Requested, Request, Matched
<1> QED BY <1>2, <1>5, <1>6 DEF SpawnInv

\* A run that starts.
LEMMA RunStarts ==
  ASSUME SpawnInv, NEW p \in Spawners, Start(p)
  PROVE  /\ SpawnInv'
         /\ spawner'[p].config \in [LabelSet -> SUBSET Wallets]
         /\ \A l \in LabelSet : agents[l] \subseteq spawner'[p].config[l]
         /\ spawner'[p].took = {} /\ spawner'[p].read = Served(agents)
         /\ MaxPerCategory > 0 /\ Tidy(agents) => Tidy(spawner'[p].config)
<1> DEFINE made == Spawned(jobs, agents, requests, minted + 1)
           run == [phase |-> "running", config |-> made.config, consume |-> made.consume,
                   took |-> {}, read |-> Served(agents)]
<1>1. /\ made.next > minted + 1 /\ made.next <= MaxWallets + 1
      /\ minted' = made.next - 1
      /\ spawner' = [spawner EXCEPT ![p] = run]
      /\ requests' = requests /\ agents' = agents /\ cleared' = cleared
      /\ crashes' = crashes
  BY DEF Start
<1>2. /\ minted \in 0..MaxWallets /\ requests \in Requested /\ Matched(requests)
      /\ agents \in [LabelSet -> SUBSET Wallets] /\ minted + 1 \in Nat \ {0}
      /\ MaxWallets \in Nat
  BY FleetAssumption DEF SpawnInv
<1>3. /\ Fits(agents, made)
      /\ MaxPerCategory > 0 /\ Tidy(agents) => Tidy(made.config)
  BY <1>2, SpawnedFits
<1> HIDE DEF made
<1>4. made.next \in Nat \ {0} /\ made.consume \in Seq(Norms)
      /\ made.config \in [LabelSet -> SUBSET Nat]
  BY <1>3 DEF Fits, Result
<1>5. minted' \in 0..MaxWallets /\ 1..(made.next - 1) \subseteq Wallets
  BY <1>1, <1>2, <1>4 DEF Wallets
<1>6. made.config \in [LabelSet -> SUBSET Wallets]
  <2>1. \A l \in LabelSet : made.config[l] \subseteq Wallets
    BY <1>3, <1>5 DEF Fits
  <2> QED BY <1>4, <2>1
<1>7. /\ run.config = made.config /\ run.consume = made.consume
      /\ run \in Runs
      /\ run.took = {} /\ run.read = Served(agents)
  BY <1>4, <1>6 DEF Runs, Served
<1> HIDE DEF run
<1>8. RunOK(run)
  BY <1>3, <1>7 DEF RunOK, Fits
<1>9. /\ spawner' \in [Spawners -> Runs \cup {NoRun}] /\ spawner'[p] = run
      /\ \A q \in Spawners : spawner'[q] = NoRun \/ RunOK(spawner'[q])
  BY <1>1, <1>7, <1>8 DEF SpawnInv
<1>10. SpawnInv'
  BY <1>1, <1>2, <1>5, <1>9 DEF SpawnInv
<1>11. \A l \in LabelSet : agents[l] \subseteq made.config[l]
  BY <1>3 DEF Fits
<1> QED BY <1>3, <1>6, <1>7, <1>9, <1>10, <1>11

\* A request that is cleared remains one.
LEMMA RequestCleared ==
  ASSUME NEW r \in Request
  PROVE  /\ [r EXCEPT !.observed = 0, !.jobs = {}] \in Request
         /\ [r EXCEPT !.observed = 0, !.jobs = {}].observed = 0
BY DEF Request

\* A run clears the next of its requests.
LEMMA RunConsumes ==
  ASSUME SpawnInv, NEW p \in Spawners, Consume(p)
  PROVE  /\ SpawnInv'
         /\ RunOK(spawner[p]) /\ RunOK(spawner'[p])
         /\ spawner'[p].config = spawner[p].config /\ spawner'[p].read = spawner[p].read
         /\ spawner'[p].took = spawner[p].took \cup {Head(spawner[p].consume)}
         /\ Head(spawner[p].consume) \in Norms
         /\ Serves(spawner[p].config, Head(spawner[p].consume))
<1> DEFINE run == spawner[p]
           n == Head(run.consume)
           new == [run EXCEPT !.consume = Tail(@), !.took = @ \cup {n}]
           entry == [requests[n] EXCEPT !.observed = 0, !.jobs = {}]
<1>1. RunOK(run) /\ run.consume # <<>>
  BY Running DEF Consume
<1>2. /\ requests' = [requests EXCEPT ![n] = entry]
      /\ spawner' = [spawner EXCEPT ![p] = new] /\ cleared' = cleared \cup {n}
      /\ agents' = agents /\ minted' = minted /\ crashes' = crashes
  BY DEF Consume
<1>3. /\ run \in Runs /\ run.consume \in Seq(Norms)
      /\ \A i \in 1..Len(run.consume) : Serves(run.config, run.consume[i])
  BY <1>1 DEF RunOK, Runs
<1>4. /\ n \in Norms /\ Serves(run.config, n) /\ Tail(run.consume) \in Seq(Norms)
      /\ \A i \in 1..Len(Tail(run.consume)) :
           i + 1 \in 1..Len(run.consume) /\ Tail(run.consume)[i] = run.consume[i + 1]
  BY <1>1, <1>3
<1>5. /\ new \in Runs /\ new.config = run.config /\ new.consume = Tail(run.consume)
      /\ new.read = run.read /\ new.took = run.took \cup {n}
  <2> DEFINE rest == Tail(run.consume)
  <2>1. new = [run EXCEPT !.consume = rest, !.took = @ \cup {n}] /\ rest \in Seq(Norms) /\ n \in Norms
    BY <1>4
  <2> HIDE DEF rest, new, run, n
  <2> QED BY <1>3, <2>1 DEF Runs, rest
<1> HIDE DEF new, n
<1>6. RunOK(new)
  BY <1>3, <1>4, <1>5 DEF RunOK
<1>7. /\ spawner' \in [Spawners -> Runs \cup {NoRun}] /\ spawner'[p] = new
      /\ \A q \in Spawners : spawner'[q] = NoRun \/ RunOK(spawner'[q])
  BY <1>2, <1>5, <1>6 DEF SpawnInv
<1>8. requests \in Requested /\ Matched(requests)
  BY DEF SpawnInv
<1>9. /\ entry \in Request /\ entry.observed = 0
      /\ ~(0 > 0)
  <2>1. requests[n] \in Request
    BY <1>4, <1>8 DEF Requested
  <2>2. entry \in Request /\ entry.observed = 0
    BY <2>1, RequestCleared
  <2> QED BY <2>2
<1> HIDE DEF entry
<1>10. requests' \in Requested
  BY <1>2, <1>4, <1>8, <1>9 DEF Requested, Request
<1>11. Matched(requests')
  BY <1>2, <1>4, <1>8, <1>9 DEF Requested, Request, Matched
<1>12. SpawnInv'
  BY <1>2, <1>4, <1>7, <1>10, <1>11 DEF SpawnInv
<1> QED BY <1>1, <1>4, <1>5, <1>6, <1>7, <1>12 DEF n

\* A run writes the configuration.
LEMMA RunSaves ==
  ASSUME SpawnInv, NEW p \in Spawners, Save(p)
  PROVE  SpawnInv'
<1>1. RunOK(spawner[p])
  BY Running DEF Save
<1>2. spawner[p].config \in [LabelSet -> SUBSET Wallets]
  BY <1>1 DEF RunOK, Runs
<1> QED BY <1>2 DEF Save, SpawnInv

\* A run dies.
LEMMA RunCrashes ==
  ASSUME SpawnInv, NEW p \in Spawners, CrashSpawner(p)
  PROVE  SpawnInv' /\ crashes' # 0
<1>1. crashes \in 0..MaxCrashes /\ crashes < MaxCrashes /\ crashes' = crashes + 1
  BY DEF CrashSpawner, SpawnInv
<1>2. MaxCrashes \in Nat
  BY FleetAssumption
<1>3. crashes' \in 0..MaxCrashes /\ crashes' # 0
  BY <1>1, <1>2
<1> QED BY <1>3 DEF CrashSpawner, SpawnInv

\* The loop dies.
LEMMA LoopCrashes ==
  ASSUME SpawnInv, CrashTrainer
  PROVE  SpawnInv' /\ crashes' # 0
<1>1. crashes \in 0..MaxCrashes /\ crashes < MaxCrashes /\ crashes' = crashes + 1
  BY DEF CrashTrainer, SpawnInv
<1>2. MaxCrashes \in Nat
  BY FleetAssumption
<1>3. crashes' \in 0..MaxCrashes /\ crashes' # 0
  BY <1>1, <1>2
<1> QED BY <1>3 DEF CrashTrainer, SpawnInv, spawning

\* A job is recorded that a request lists.
LEMMA ListedSpawns ==
  ASSUME SpawnInv, TrainingInv, NEW k \in Kinds, RecordListed(k)
  PROVE  SpawnInv' /\ UNCHANGED <<agents, spawner, minted, cleared, lost, crashes>>
<1> DEFINE n == Norm[k.label]
           entry == [requests[n] EXCEPT !.jobs = @ \cup {Len(jobs')}]
<1>1. /\ requests' = [requests EXCEPT ![n] = entry]
      /\ UNCHANGED <<agents, spawner, minted, cleared, lost, crashes>>
  BY DEF RecordListed, AppendJob
<1>2. requests \in Requested /\ Matched(requests)
  BY DEF SpawnInv
<1>3. Len(jobs') \in Nat
  BY DEF RecordListed, AppendJob, TrainingInv
<1>4. n \in Norms => entry \in Request /\ entry.label = requests[n].label
                        /\ entry.observed = requests[n].observed
  BY <1>2, <1>3 DEF Requested, Request
<1> HIDE DEF entry, n
<1>5. requests' \in Requested
  BY <1>1, <1>2, <1>4 DEF Requested
<1>6. Matched(requests')
  BY <1>1, <1>2, <1>4 DEF Requested, Matched
<1> QED BY <1>1, <1>5, <1>6 DEF SpawnInv

\* All other steps leave it alone.
LEMMA OthersSpawnNothing ==
  ASSUME [Next]_vars
  PROVE  \/ \E k \in Kinds : RecordListed(k)
         \/ \E l \in LabelSet : Observe(l)
         \/ \E p \in Spawners : Start(p) \/ Consume(p) \/ Save(p) \/ CrashSpawner(p)
         \/ CrashTrainer
         \/ UNCHANGED <<spawning, crashes>>
<1>1. ASSUME NEW k \in Kinds, Record(k) PROVE UNCHANGED <<spawning, crashes>>
  BY <1>1 DEF Record, AppendJob, spawning
<1>2. ASSUME RunCycle \/ SaveRegistry \/ SaveActiveState PROVE UNCHANGED <<spawning, crashes>>
  BY <1>2 DEF RunCycle, SaveRegistry, SaveActiveState
<1>3. ASSUME NEW a \in Wallets, ProcessAgent(a) PROVE UNCHANGED <<spawning, crashes>>
  BY <1>3 DEF ProcessAgent
<1>4. ASSUME UNCHANGED vars PROVE UNCHANGED <<spawning, crashes>>
  BY <1>4 DEF vars, spawning
<1> QED BY <1>1, <1>2, <1>3, <1>4 DEF Next

LEMMA SpawnKept == TrainingInv /\ SpawnInv /\ [Next]_vars => SpawnInv'
<1> SUFFICES ASSUME TrainingInv, SpawnInv, [Next]_vars PROVE SpawnInv'
  OBVIOUS
<1>1. ASSUME UNCHANGED <<spawning, crashes>> PROVE SpawnInv'
  BY <1>1 DEF SpawnInv, spawning
<1> QED BY <1>1, OthersSpawnNothing, ListedSpawns, ObserveSpawns, RunStarts, RunConsumes,
           RunSaves, RunCrashes, LoopCrashes

\* The minimum of new records keeps versions apart from a mere count of cycles.
NewsNeeded == MinNewRecords > 0

\* Types, and the bounds of what a finite history can bring about: no entry claims
\* more than the jobs there are, and no version is published that so many jobs
\* cannot have produced.  train/updateModels.ts:299-467, agents/spawn.ts:461-708.
THEOREM FleetTypes == NewsNeeded => (Spec => []TypeOK)
<1> SUFFICES ASSUME NewsNeeded PROVE Spec => []TypeOK
  OBVIOUS
<1>1. TrainingInv /\ SpawnInv => TypeOK
  <2> SUFFICES ASSUME TrainingInv, SpawnInv PROVE TypeOK
    OBVIOUS
  <2>1. jobs \in Seq(Kinds) /\ Len(jobs) <= MaxJobs /\ MaxJobs \in Nat
    BY FleetAssumption DEF TrainingInv
  <2>2. \A m \in DOMAIN models : models[m] \in 1 .. MaxJobs
    BY DEF TrainingInv
  <2>3. RegistryOK(jobs, models, registry) /\ ActiveOK(jobs, models, registry, active)
    BY DEF TrainingInv
  <2>4. ASSUME NEW a \in Wallets
        PROVE  registry[a].processed \in 0 .. MaxJobs /\ active[a] \in 0 .. MaxJobs
    <3>1. /\ registry[a].processed \in Nat /\ registry[a].version \in Nat /\ active[a] \in Nat
      BY <2>3 DEF RegistryOK, ActiveOK, Entry
    <3>2. /\ registry[a].processed <= Len(OfAgent(jobs, a)) /\ active[a] <= registry[a].version
          /\ registry[a].version <= registry[a].processed
      BY <2>3 DEF RegistryOK, ActiveOK, NewsNeeded
    <3>3. Len(OfAgent(jobs, a)) \in Nat /\ Len(OfAgent(jobs, a)) <= Len(jobs) /\ Len(jobs) \in Nat
      BY <2>1, OfAgentType
    <3> QED BY <2>1, <3>1, <3>2, <3>3
  <2>5. active \in [Wallets -> 0 .. MaxJobs]
    BY <2>3, <2>4 DEF ActiveOK
  <2> QED BY <2>1, <2>2, <2>4, <2>5 DEF SpawnInv, TypeOK
<1> QED BY <1>1, TrainingStarts, TrainingKept, SpawnStarts, SpawnKept, PTL DEF Spec
-----------------------------------------------------------------------------
(* Cleared requests are served. *)

\* A running run's copy of the configuration serves the requests it took and all that
\* was served when it read.  What is cleared has an agent, is lost, or was taken by a
\* run that is still to write.
CopiesServe ==
  \A p \in Spawners : spawner[p].phase = "running" =>
    \A n \in spawner[p].took \cup spawner[p].read : Serves(spawner[p].config, n)
Accounted ==
  \A n \in cleared :
    \/ Serves(agents, n) \/ n \in lost
    \/ \E p \in Spawners : spawner[p].phase = "running" /\ n \in spawner[p].took
ServedInv == CopiesServe /\ Accounted

LEMMA ServedStarts == Init => ServedInv
BY DEF Init, ServedInv, CopiesServe, Accounted, NoRun

\* Who joins takes nobody's place.
LEMMA ServesGrows ==
  ASSUME NEW config, NEW other, NEW n, Serves(config, n),
         \A l \in LabelSet : config[l] \subseteq other[l]
  PROVE  Serves(other, n)
BY DEF Serves

LEMMA ObserveServes ==
  ASSUME ServedInv, NEW l \in LabelSet, Observe(l)
  PROVE  ServedInv'
BY DEF Observe, ServedInv, CopiesServe, Accounted

LEMMA StartServes ==
  ASSUME SpawnInv, ServedInv, NEW p \in Spawners, Start(p)
  PROVE  ServedInv'
<1>1. /\ agents' = agents /\ cleared' = cleared /\ lost' = lost
      /\ spawner[p].phase = "idle"
      /\ \A q \in Spawners \ {p} : spawner'[q] = spawner[q]
  BY DEF Start, SpawnInv
<1>2. /\ \A l \in LabelSet : agents[l] \subseteq spawner'[p].config[l]
      /\ spawner'[p].took = {} /\ spawner'[p].read = Served(agents)
  BY RunStarts
<1>3. \A n \in Served(agents) : Serves(spawner'[p].config, n)
  BY <1>2, ServesGrows DEF Served
<1>4. CopiesServe'
  BY <1>1, <1>2, <1>3 DEF ServedInv, CopiesServe
<1>5. Accounted'
  BY <1>1 DEF ServedInv, Accounted
<1> QED BY <1>4, <1>5 DEF ServedInv

LEMMA ConsumeServes ==
  ASSUME SpawnInv, ServedInv, NEW p \in Spawners, Consume(p)
  PROVE  ServedInv'
<1> DEFINE n == Head(spawner[p].consume)
<1>1. /\ agents' = agents /\ cleared' = cleared \cup {n} /\ lost' = lost
      /\ spawner[p].phase = "running"
      /\ \A q \in Spawners \ {p} : spawner'[q] = spawner[q]
  BY DEF Consume, SpawnInv
<1>2. /\ RunOK(spawner'[p]) /\ spawner'[p].config = spawner[p].config
      /\ spawner'[p].read = spawner[p].read /\ spawner'[p].took = spawner[p].took \cup {n}
      /\ Serves(spawner[p].config, n)
  BY RunConsumes
<1>3. spawner'[p].phase = "running"
  BY <1>2 DEF RunOK, Runs
<1> HIDE DEF n
<1>4. CopiesServe'
  BY <1>1, <1>2, <1>3 DEF ServedInv, CopiesServe
<1>5. Accounted'
  <2> SUFFICES ASSUME NEW m \in cleared'
               PROVE  \/ Serves(agents', m) \/ m \in lost'
                      \/ \E q \in Spawners : spawner'[q].phase = "running" /\ m \in spawner'[q].took
    BY DEF Accounted
  <2>1. CASE m = n
    BY <1>2, <1>3, <2>1
  <2>2. CASE m # n
    <3>1. \/ Serves(agents, m) \/ m \in lost
          \/ \E q \in Spawners : spawner[q].phase = "running" /\ m \in spawner[q].took
      BY <1>1, <2>2 DEF ServedInv, Accounted
    <3> QED BY <1>1, <1>2, <1>3, <3>1
  <2> QED BY <2>1, <2>2
<1> QED BY <1>4, <1>5 DEF ServedInv

\* Over the file go the agents of whoever wrote it since: their niches are lost.
LEMMA SaveServes ==
  ASSUME SpawnInv, ServedInv, NEW p \in Spawners, Save(p)
  PROVE  ServedInv'
<1> DEFINE config == spawner[p].config
<1>1. /\ agents' = config /\ cleared' = cleared
      /\ lost' = (lost \cup (Served(agents) \ spawner[p].read)) \ Served(config)
      /\ spawner[p].phase = "running" /\ spawner'[p] = NoRun
      /\ \A q \in Spawners \ {p} : spawner'[q] = spawner[q]
  BY DEF Save, SpawnInv
<1>2. CopiesServe'
  BY <1>1 DEF ServedInv, CopiesServe, NoRun
<1>3. Accounted'
  <2> SUFFICES ASSUME NEW n \in cleared, ~Serves(config, n)
               PROVE  \/ n \in lost'
                      \/ \E q \in Spawners : spawner'[q].phase = "running" /\ n \in spawner'[q].took
    BY <1>1 DEF Accounted
  <2>1. n \in Norms /\ n \notin Served(config)
    BY DEF SpawnInv, Served
  <2>2. n \notin spawner[p].took /\ n \notin spawner[p].read
    BY <1>1 DEF ServedInv, CopiesServe
  <2>3. CASE Serves(agents, n) \/ n \in lost
    BY <1>1, <2>1, <2>2, <2>3 DEF Served
  <2>4. CASE \E q \in Spawners : spawner[q].phase = "running" /\ n \in spawner[q].took
    BY <1>1, <2>2, <2>4
  <2> QED BY <2>3, <2>4 DEF ServedInv, Accounted
<1> QED BY <1>2, <1>3 DEF ServedInv

\* What a run took dies with it.
LEMMA CrashServes ==
  ASSUME SpawnInv, ServedInv, NEW p \in Spawners, CrashSpawner(p)
  PROVE  ServedInv'
<1>1. /\ agents' = agents /\ cleared' = cleared
      /\ lost' = lost \cup (spawner[p].took \ Served(agents))
      /\ spawner'[p] = NoRun /\ \A q \in Spawners \ {p} : spawner'[q] = spawner[q]
  BY DEF CrashSpawner, SpawnInv
<1>2. CopiesServe'
  BY <1>1 DEF ServedInv, CopiesServe, NoRun
<1>3. Accounted'
  <2> SUFFICES ASSUME NEW n \in cleared, ~Serves(agents, n), n \notin lost
               PROVE  \/ n \in lost'
                      \/ \E q \in Spawners : spawner'[q].phase = "running" /\ n \in spawner'[q].took
    BY <1>1 DEF Accounted
  <2>1. PICK q \in Spawners : spawner[q].phase = "running" /\ n \in spawner[q].took
    BY DEF ServedInv, Accounted
  <2>2. CASE q = p
    BY <1>1, <2>1, <2>2 DEF Served
  <2>3. CASE q # p
    BY <1>1, <2>1, <2>3
  <2> QED BY <2>2, <2>3
<1> QED BY <1>2, <1>3 DEF ServedInv

\* Though requests and configuration are two files, a request is cleared for an agent
\* who is, or is about to be, in the configuration, unless the very run that cleared it
\* died before it wrote, or a run that had read before wrote over the agent; whatever
\* other runs and the training loop do, overlapping or dying.  agents/spawn.ts:608-706.
THEOREM ClearedAreServed == Spec => []ClearedMeansServed
<1>1. ServedInv => ClearedMeansServed
  BY DEF ServedInv, CopiesServe, Accounted, ClearedMeansServed
<1>2. SpawnInv /\ TrainingInv /\ ServedInv /\ [Next]_vars => ServedInv'
  <2> SUFFICES ASSUME SpawnInv, TrainingInv, ServedInv, [Next]_vars PROVE ServedInv'
    OBVIOUS
  <2>1. ASSUME UNCHANGED <<agents, spawner, cleared, lost>> PROVE ServedInv'
    BY <2>1 DEF ServedInv, CopiesServe, Accounted
  <2>2. ASSUME CrashTrainer PROVE ServedInv'
    BY <2>1, <2>2 DEF CrashTrainer, spawning
  <2>3. ASSUME UNCHANGED <<spawning, crashes>> PROVE ServedInv'
    BY <2>1, <2>3 DEF spawning
  <2>4. ASSUME NEW k \in Kinds, RecordListed(k) PROVE ServedInv'
    BY <2>1, <2>4, ListedSpawns
  <2> QED BY <2>2, <2>3, <2>4, OthersSpawnNothing, ObserveServes, StartServes, ConsumeServes,
             SaveServes, CrashServes
<1> QED BY <1>1, <1>2, SpawnStarts, SpawnKept, TrainingStarts, TrainingKept, ServedStarts, PTL
        DEF Spec
-----------------------------------------------------------------------------
(* The limit of a category. *)

\* The fleet employed at first spells every category in one way, within the limit.
TidyStart == MaxPerCategory > 0 /\ Tidy(Employed)

TidyInv ==
  /\ Tidy(agents)
  /\ \A p \in Spawners : spawner[p].phase # "idle" => Tidy(spawner[p].config)

LEMMA TidyStarts == TidyStart /\ Init => TidyInv
BY DEF TidyStart, Init, TidyInv, NoRun

LEMMA TidyKept ==
  TidyStart /\ SpawnInv /\ TrainingInv /\ TidyInv /\ [Next]_vars => TidyInv'
<1> SUFFICES ASSUME TidyStart, SpawnInv, TrainingInv, TidyInv, [Next]_vars PROVE TidyInv'
  OBVIOUS
<1>1. ASSUME agents' = agents, spawner' = spawner PROVE TidyInv'
  BY <1>1 DEF TidyInv
<1>2. ASSUME NEW l \in LabelSet, Observe(l) PROVE TidyInv'
  BY <1>1, <1>2 DEF Observe
<1>9. ASSUME NEW k \in Kinds, RecordListed(k) PROVE TidyInv'
  BY <1>1, <1>9, ListedSpawns
<1>3. ASSUME CrashTrainer PROVE TidyInv'
  BY <1>1, <1>3 DEF CrashTrainer, spawning
<1>4. ASSUME UNCHANGED <<spawning, crashes>> PROVE TidyInv'
  BY <1>1, <1>4 DEF spawning
<1>5. ASSUME NEW p \in Spawners, Start(p) PROVE TidyInv'
  <2>1. agents' = agents /\ \A q \in Spawners \ {p} : spawner'[q] = spawner[q]
    BY <1>5 DEF Start, SpawnInv
  <2>2. Tidy(spawner'[p].config)
    BY <1>5, RunStarts DEF TidyStart, TidyInv
  <2> QED BY <2>1, <2>2 DEF TidyInv
<1>6. ASSUME NEW p \in Spawners, Consume(p) PROVE TidyInv'
  <2>1. /\ agents' = agents /\ \A q \in Spawners \ {p} : spawner'[q] = spawner[q]
        /\ spawner[p].phase # "idle"
    BY <1>6 DEF Consume, SpawnInv
  <2>2. spawner'[p].config = spawner[p].config
    BY <1>6, RunConsumes
  <2> QED BY <2>1, <2>2 DEF TidyInv
<1>7. ASSUME NEW p \in Spawners, Save(p) PROVE TidyInv'
  <2>1. /\ agents' = spawner[p].config /\ spawner'[p] = NoRun /\ spawner[p].phase # "idle"
        /\ \A q \in Spawners \ {p} : spawner'[q] = spawner[q]
    BY <1>7 DEF Save, SpawnInv
  <2> QED BY <2>1 DEF TidyInv, NoRun
<1>8. ASSUME NEW p \in Spawners, CrashSpawner(p) PROVE TidyInv'
  <2>1. /\ agents' = agents /\ spawner'[p] = NoRun
        /\ \A q \in Spawners \ {p} : spawner'[q] = spawner[q]
    BY <1>8 DEF CrashSpawner, SpawnInv
  <2> QED BY <2>1 DEF TidyInv, NoRun
<1> QED BY <1>2, <1>3, <1>4, <1>5, <1>6, <1>7, <1>8, <1>9, OthersSpawnNothing

\* A niche never has more agents than the limit, whatever its spellings and however
\* many runs work on copies of the configuration.  agents/spawn.ts:516-708.
THEOREM CapHolds == TidyStart => (Spec => []CategoryCap)
<1> SUFFICES ASSUME TidyStart PROVE Spec => []CategoryCap
  OBVIOUS
<1>1. TidyInv => CategoryCap
  <2> SUFFICES ASSUME TidyInv, NEW n \in Norms
               PROVE  Cardinality(UNION {agents[l] : l \in {l \in LabelSet : Norm[l] = n}}) <= MaxPerCategory
    BY DEF CategoryCap
  <2> DEFINE all == UNION {agents[l] : l \in {l \in LabelSet : Norm[l] = n}}
  <2>1. CASE all = {}
    <3>1. Cardinality(all) = 0
      BY <2>1, FS_EmptySet
    <3>2. MaxPerCategory \in Int /\ MaxPerCategory > 0
      BY FleetAssumption DEF TidyStart
    <3> QED BY <3>1, <3>2
  <2>2. CASE all # {}
    <3>1. PICK l \in LabelSet : Norm[l] = n /\ agents[l] # {}
      BY <2>2
    <3>2. \A m \in LabelSet : Norm[m] = n => m = l \/ agents[m] = {}
      BY <3>1 DEF TidyInv, Tidy
    <3>3. all = agents[l]
      BY <3>1, <3>2
    <3> QED BY <3>1, <3>3 DEF TidyInv, Tidy
  <2> QED BY <2>1, <2>2
<1>2. Init => TidyInv
  BY TidyStarts
<1>3. SpawnInv /\ TrainingInv /\ TidyInv /\ [Next]_vars => TidyInv'
  BY TidyKept
<1> QED BY <1>1, <1>2, <1>3, SpawnStarts, SpawnKept, TrainingStarts, TrainingKept, PTL DEF Spec
=============================================================================
