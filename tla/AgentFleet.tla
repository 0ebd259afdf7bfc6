------------------------------ MODULE AgentFleet ------------------------------
(***************************************************************************)
(* The agents' life off the chain: the gateway records finished jobs and   *)
(* asks for specialists in niches nobody serves; the spawn script clones   *)
(* or creates agents; the training loop turns an agent's history into      *)
(* models and publishes those that pass the sandbox.  Each is a process of *)
(* its own, reads whole files, works on copies and writes whole files.     *)
(***************************************************************************)
EXTENDS Integers, FiniteSets, SequencesExt

CONSTANTS
    Labels,         \* category labels as written in job records, in order
    Norm,           \* label -> its lower-case form
    Employed,       \* label -> agents of the initial configuration
    Kinds,          \* finished jobs: records [agent, label, ok, reward, measured]
    Spawners,       \* runs of the spawn script that may overlap
    MinTasks, MinRate, MaxPerCategory, NicheThreshold, BaseMinSamples, BaseMinRate,
    MinNewRecords,
    Tests,          \* sandbox tests: records [minSamples, window, minRate, minReward, labels]
    MaxJobs, MaxObserved, MaxWallets, MaxCrashes    \* bounds

LabelSet == {Labels[i] : i \in DOMAIN Labels}
Norms == {Norm[l] : l \in LabelSet}
NormSeq == SetToSeq(Norms)
Wallets == 1 .. MaxWallets
FirstWallet == 1 + Cardinality(UNION {Employed[l] : l \in LabelSet})

\* There are categories, and the agents employed at first are the first wallets.
ASSUME FleetAssumption ==
  /\ Labels \in Seq(LabelSet) /\ Labels # <<>> /\ Norm \in [LabelSet -> Norms]
  /\ FirstWallet \in 1 .. MaxWallets + 1
  /\ Employed \in [LabelSet -> SUBSET (1 .. FirstWallet - 1)]
  /\ MinNewRecords \in Int /\ MaxPerCategory \in Int
  /\ {MaxJobs, MaxObserved, MaxWallets, MaxCrashes} \subseteq Nat

VARIABLES
    jobs,           \* finished jobs, oldest first
    requests,       \* niche -> [label, observed, jobs]; observed is 0 without a request
    agents,         \* agents.json: label -> agents
    spawner,        \* the runs of the spawn script; took and read are history
    minted,         \* wallets created so far
    registry,       \* registry.json: agent -> [version, processed, status]
    active,         \* active.json: agent -> published version, 0 without
    models,         \* model files: <<agent, version>> -> jobs it was trained on
    trainer,        \* the training loop
    crashes,
    torn,           \* did the loop die between its two files?
    cleared,        \* niches whose last request was cleared
    lost            \* niches whose agent was dropped, or not written at all, since

vars == <<jobs, requests, agents, spawner, minted, registry, active, models, trainer,
          crashes, torn, cleared, lost>>
----------------------------------------------------------------------------
\* Statistics of a list of jobs.
Successes(s) == Len(SelectSeq(s, LAMBDA j : j.ok))
RateAtLeast(s, pct) == 100 * Successes(s) >= pct * Len(s)
RewardAtLeast(s, min) ==
  LET sum[i \in 0 .. Len(s)] == IF i = 0 THEN 0 ELSE sum[i - 1] + s[i].reward
  IN  sum[Len(s)] >= min * Len(s)
OfAgent(s, a) ==
  LET own[i \in 0 .. Len(s)] ==
        IF i = 0 THEN <<>>
        ELSE IF s[i].agent = a THEN Append(own[i - 1], s[i]) ELSE own[i - 1]
  IN  own[Len(s)]
OfLabel(s, l) == SelectSeq(s, LAMBDA j : j.label = l)
OfNorm(s, n) == SelectSeq(s, LAMBDA j : Norm[j.label] = n)
LastOf(s, n) == IF Len(s) > n THEN SubSeq(s, Len(s) - n + 1, Len(s)) ELSE s

\* utils/sandbox.ts: every test passes on the last `window` of the jobs in the
\* categories it is about.  Of no jobs the rate and the average reward are 0.
Passes(s, t) ==
  LET relevant == LastOf(SelectSeq(s, LAMBDA j : j.label \in t.labels), t.window) IN
  /\ Len(relevant) >= t.minSamples
  /\ relevant = <<>> => t.minRate = 0 /\ t.minReward = 0
  /\ RateAtLeast(relevant, t.minRate) /\ RewardAtLeast(relevant, t.minReward)
EvaluateSandbox(s) == \A t \in Tests : Passes(s, t)

\* Without a measurement of energy the efficiency of an agent is 0.
Efficient(s) == Successes(s) > 0 /\ \E i \in DOMAIN s : s[i].measured

\* agents/spawn.ts: agents good enough to be cloned
Members(config) == UNION {config[l] : l \in LabelSet}
BaseCandidates(s, config) ==
  {a \in Members(config) :
     LET own == OfAgent(s, a) IN
     Len(own) >= BaseMinSamples /\ RateAtLeast(own, BaseMinRate) /\ Efficient(own)}

\* The key under which a category is kept, whatever its capitals.
CategoryKey(config, l) ==
  LET same == {m \in LabelSet : Norm[m] = Norm[l] /\ config[m] # {}} IN
  IF same = {} THEN l ELSE CHOOSE m \in same : TRUE
CategoryAgents(config, l) == config[CategoryKey(config, l)]

\* A new agent joins the copy of the configuration.
Push(acc, l) ==
  [acc EXCEPT !.config[CategoryKey(acc.config, l)] = @ \cup {acc.next}, !.next = @ + 1]

\* The jobs a request was made for, as far as they were recorded since or, if none
\* was, all jobs of its niche.
JobsAt(s, places) ==
  LET order == SetToSortSeq(places, LAMBDA i, j : i < j) IN [i \in DOMAIN order |-> s[order[i]]]
NicheJobs(s, r) == IF r.jobs = {} THEN OfNorm(s, Norm[r.label]) ELSE JobsAt(s, r.jobs)

\* There is a request, and its jobs, relabelled as the clone's, pass under the
\* request's own spelling of the category.
Clonable(s, config, r) ==
  /\ r.observed > 0 /\ r.observed >= NicheThreshold
  /\ CategoryAgents(config, r.label) = {} /\ NicheJobs(s, r) # <<>>
  /\ EvaluateSandbox(OfLabel(NicheJobs(s, r), r.label))

\* The niche is served by a clone, and its request is cleared.
Cloned(acc, n, l) ==
  [Push(acc, l) EXCEPT !.done = @ \cup {n}, !.consume = Append(@, n)]

\* Mutant of CloneStep: one observation more is needed.
CloneStepLate(s, config, r, acc) ==
  IF Clonable(s, config, r) /\ r.observed > NicheThreshold
  THEN Cloned(acc, Norm[r.label], r.label) ELSE acc

CloneStep(s, config, r, acc) ==
  IF Clonable(s, config, r) THEN Cloned(acc, Norm[r.label], r.label) ELSE acc

\* The requests, one after the other.
Clones(s, config, reqs, start) ==
  LET made[i \in 0 .. Len(NormSeq)] ==
        IF i = 0 THEN start ELSE CloneStep(s, config, reqs[NormSeq[i]], made[i - 1])
  IN  made[Len(NormSeq)]

\* One more specialist for a label in demand, who serves its niche as well.
InDemand(s, acc, l) ==
  LET own == OfLabel(s, l) IN
  /\ Norm[l] \notin acc.done
  /\ Len(own) >= MinTasks /\ RateAtLeast(own, MinRate)
  /\ EvaluateSandbox(own)
Specialist(pending, acc, l) ==
  IF Norm[l] \in pending /\ Norm[l] \notin ToSet(acc.consume)
  THEN [Push(acc, l) EXCEPT !.consume = Append(@, Norm[l])] ELSE Push(acc, l)

\* Mutant of DemandStep: the limit may be exceeded by one.
DemandStepOver(s, pending, acc, l) ==
  IF InDemand(s, acc, l) /\ Cardinality(CategoryAgents(acc.config, l)) <= MaxPerCategory
  THEN Specialist(pending, acc, l) ELSE acc

\* Up to the limit of its category.
DemandStep(s, pending, acc, l) ==
  IF InDemand(s, acc, l) /\ Cardinality(CategoryAgents(acc.config, l)) < MaxPerCategory
  THEN Specialist(pending, acc, l) ELSE acc

\* The categories of the job records, one after the other.
Specialists(s, pending, cloned) ==
  LET made[i \in 0 .. Len(Labels)] ==
        IF i = 0 THEN cloned ELSE DemandStep(s, pending, made[i - 1], Labels[i])
  IN  made[Len(Labels)]

\* What one run prepares from the files it has read.
Spawned(s, config, reqs, next) ==
  LET start == [config |-> config, consume |-> <<>>, done |-> {}, next |-> next]
      cloned == IF BaseCandidates(s, config) = {} THEN start
                ELSE Clones(s, config, reqs, start)
  IN  Specialists(s, {n \in Norms : reqs[n].observed > 0}, cloned)
----------------------------------------------------------------------------
NoRun == [phase |-> "idle"]
NoModel == [version |-> 0, processed |-> 0, status |-> "none"]

Init ==
  /\ jobs = <<>>
  /\ requests = [n \in Norms |-> [label |-> Labels[1], observed |-> 0, jobs |-> {}]]
  /\ agents = Employed
  /\ spawner = [p \in Spawners |-> NoRun]
  /\ minted = FirstWallet - 1
  /\ registry = [a \in Wallets |-> NoModel]
  /\ active = [a \in Wallets |-> 0]
  /\ models = [m \in {} |-> 0]
  /\ trainer = NoRun
  /\ crashes = 0 /\ torn = FALSE /\ cleared = {} /\ lost = {}

training == <<registry, active, models, trainer, torn>>
spawning == <<requests, agents, spawner, minted, cleared, lost>>

\* A finished job is appended to the history.
AppendJob(k) ==
  /\ Len(jobs) < MaxJobs
  /\ jobs' = Append(jobs, k)
  /\ UNCHANGED <<agents, spawner, minted, cleared, lost, training, crashes>>
Record(k) == AppendJob(k) /\ UNCHANGED requests

\* The gateway asks for a specialist when it had to turn a job of a category away,
\* and lists that job, which somebody else may finish.
Observe(l) ==
  LET n == Norm[l] IN
  /\ requests[n].observed < MaxObserved
  /\ requests' = [requests EXCEPT ![n] = [label |-> l, observed |-> @.observed + 1, jobs |-> @.jobs]]
  /\ cleared' = cleared \ {n} /\ lost' = lost \ {n}
  /\ UNCHANGED <<jobs, agents, spawner, minted, training, crashes>>
RecordListed(k) ==
  LET n == Norm[k.label] IN
  /\ Cardinality(requests[n].jobs) < requests[n].observed
  /\ AppendJob(k)
  /\ requests' = [requests EXCEPT ![n].jobs = @ \cup {Len(jobs')}]
----------------------------------------------------------------------------
Serves(config, n) == \E l \in LabelSet : Norm[l] = n /\ config[l] # {}
Served(config) == {n \in Norms : Serves(config, n)}

\* Mutant of Start: the new agents are not entered in the configuration.
StartUnlisted(p) ==
  /\ spawner[p].phase = "idle" /\ jobs # <<>>
  /\ LET made == Spawned(jobs, agents, requests, minted + 1) IN
     /\ made.next > minted + 1 /\ made.next <= MaxWallets + 1
     /\ minted' = made.next - 1
     /\ spawner' = [spawner EXCEPT ![p] =
          [phase |-> "running", config |-> agents, consume |-> made.consume, took |-> {},
           read |-> Served(agents)]]
  /\ UNCHANGED <<jobs, requests, agents, cleared, lost, training, crashes>>

\* agents/spawn.ts, main: read, then decide on copies.  Nothing is left to do
\* when no agent was made.
Start(p) ==
  /\ spawner[p].phase = "idle" /\ jobs # <<>>
  /\ \E made \in {Spawned(jobs, agents, requests, minted + 1)} :
     /\ made.next > minted + 1 /\ made.next <= MaxWallets + 1
     /\ minted' = made.next - 1
     /\ spawner' = [spawner EXCEPT ![p] =
          [phase |-> "running", config |-> made.config, consume |-> made.consume, took |-> {},
           read |-> Served(agents)]]
  /\ UNCHANGED <<jobs, requests, agents, cleared, lost, training, crashes>>

\* Requests are cleared as their agents are prepared ...
Consume(p) ==
  /\ spawner[p].phase = "running" /\ spawner[p].consume # <<>>
  /\ LET n == Head(spawner[p].consume) IN
     /\ requests' = [requests EXCEPT ![n].observed = 0, ![n].jobs = {}]
     /\ spawner' = [spawner EXCEPT ![p].consume = Tail(@), ![p].took = @ \cup {n}]
     /\ cleared' = cleared \cup {n}
  /\ UNCHANGED <<jobs, agents, minted, lost, training, crashes>>

\* ... and the whole configuration is written at the end, over what others wrote
\* since it was read.
Save(p) ==
  /\ spawner[p].phase = "running" /\ spawner[p].consume = <<>>
  /\ agents' = spawner[p].config
  /\ lost' = (lost \cup (Served(agents) \ spawner[p].read)) \ Served(spawner[p].config)
  /\ spawner' = [spawner EXCEPT ![p] = NoRun]
  /\ UNCHANGED <<jobs, requests, minted, cleared, training, crashes>>
----------------------------------------------------------------------------
\* train/updateModels.ts.  A cycle reads the jobs and the registry once.
\* Mutant of HasNews: agents without a new job are trained as well.
HasNewsAlways(a, s, reg) == TRUE
\* Mutant of HasNews: one job more is needed.
HasNewsLate(a, s, reg) == Len(OfAgent(s, a)) - reg[a].processed > MinNewRecords

HasNews(a, s, reg) == Len(OfAgent(s, a)) - reg[a].processed >= MinNewRecords

RunCycle ==
  /\ trainer.phase = "idle"
  /\ LET due == {a \in Wallets : OfAgent(jobs, a) # <<>> /\ HasNews(a, jobs, registry)} IN
     /\ due # {}
     /\ trainer' = [phase |-> "training", todo |-> due, seen |-> jobs, registry |-> registry]
  /\ UNCHANGED <<jobs, spawning, registry, active, models, torn, crashes>>

\* Mutant of ProcessAgent: the new model takes the place of the old one.
ProcessAgentInPlace(a) ==
  /\ trainer.phase = "training" /\ a \in trainer.todo
  /\ LET own == OfAgent(trainer.seen, a)
         entry == [version |-> 1, processed |-> Len(own),
                   status |-> IF EvaluateSandbox(own) THEN "active" ELSE "pending"] IN
     /\ models' = [m \in DOMAIN models \cup {<<a, 1>>} |-> IF m = <<a, 1>> THEN Len(own) ELSE models[m]]
     /\ trainer' = [trainer EXCEPT !.todo = @ \ {a}, !.registry[a] = entry]
  /\ UNCHANGED <<jobs, spawning, registry, active, torn, crashes>>

\* The model file is written before the sandbox judges it.
ProcessAgent(a) ==
  /\ trainer.phase = "training" /\ a \in trainer.todo
  /\ LET own == OfAgent(trainer.seen, a)
         version == trainer.registry[a].version + 1
         entry == [version |-> version, processed |-> Len(own),
                   status |-> IF EvaluateSandbox(own) THEN "active" ELSE "pending"] IN
     /\ models' = [m \in DOMAIN models \cup {<<a, version>>} |->
                     IF m = <<a, version>> THEN Len(own) ELSE models[m]]
     /\ trainer' = [trainer EXCEPT !.todo = @ \ {a}, !.registry[a] = entry]
  /\ UNCHANGED <<jobs, spawning, registry, active, torn, crashes>>

SaveRegistry ==
  /\ trainer.phase = "training" /\ trainer.todo = {}
  /\ registry' = trainer.registry
  /\ trainer' = [trainer EXCEPT !.phase = "publishing"]
  /\ UNCHANGED <<jobs, spawning, active, models, torn, crashes>>

ActiveState(reg) ==
  [a \in Wallets |-> IF reg[a].status = "active" THEN reg[a].version ELSE 0]

SaveActiveState ==
  /\ trainer.phase = "publishing"
  /\ active' = ActiveState(trainer.registry)
  /\ trainer' = NoRun /\ torn' = FALSE
  /\ UNCHANGED <<jobs, spawning, registry, models, crashes>>
----------------------------------------------------------------------------
CrashSpawner(p) ==
  /\ spawner[p].phase # "idle" /\ crashes < MaxCrashes
  /\ crashes' = crashes + 1
  /\ lost' = lost \cup (spawner[p].took \ Served(agents))
  /\ spawner' = [spawner EXCEPT ![p] = NoRun]
  /\ UNCHANGED <<jobs, requests, agents, minted, cleared, training>>

CrashTrainer ==
  /\ trainer.phase # "idle" /\ crashes < MaxCrashes
  /\ crashes' = crashes + 1
  /\ torn' = (torn \/ trainer.phase = "publishing")
  /\ trainer' = NoRun
  /\ UNCHANGED <<jobs, spawning, registry, active, models>>

Next ==
  \/ \E k \in Kinds : Record(k) \/ RecordListed(k)
  \/ \E l \in LabelSet : Observe(l)
  \/ \E p \in Spawners : Start(p) \/ Consume(p) \/ Save(p) \/ CrashSpawner(p)
  \/ RunCycle \/ SaveRegistry \/ SaveActiveState \/ CrashTrainer
  \/ \E a \in Wallets : ProcessAgent(a)

Spec == Init /\ [][Next]_vars

\* The scripts run again and again and, once started, go on: weak fairness of a run's
\* actions and of the loop's, with the states in which none is enabled spelt out.
NothingToSpawn ==
  jobs = <<>> \/ \E made \in {Spawned(jobs, agents, requests, minted + 1)} :
                  ~(made.next > minted + 1 /\ made.next <= MaxWallets + 1)
NothingToTrain == \A a \in Wallets : OfAgent(jobs, a) = <<>> \/ ~HasNews(a, jobs, registry)
Fairness ==
  /\ \A p \in Spawners :
       \/ []<>(spawner[p].phase = "idle" /\ NothingToSpawn)
       \/ []<><<Start(p) \/ Consume(p) \/ Save(p)>>_vars
  /\ \/ []<>(trainer.phase = "idle" /\ NothingToTrain)
     \/ []<><<RunCycle \/ (\E a \in Wallets : ProcessAgent(a)) \/ SaveRegistry \/ SaveActiveState>>_vars

FairSpec == Spec /\ Fairness
----------------------------------------------------------------------------
TypeOK ==
  /\ jobs \in Seq(Kinds) /\ Len(jobs) <= MaxJobs
  /\ agents \in [LabelSet -> SUBSET Wallets]
  /\ minted \in 0 .. MaxWallets
  /\ active \in [Wallets -> 0 .. MaxJobs]
  /\ \A a \in Wallets : registry[a].processed \in 0 .. MaxJobs
  /\ \A m \in DOMAIN models : models[m] \in 1 .. MaxJobs
  /\ crashes \in 0 .. MaxCrashes

\* A cleared request has brought an agent, or the run that cleared it is about to
\* write one, though requests and configuration are two files.  The niche is lost
\* only if that very run died before it wrote, or if another, which had read the
\* configuration before, wrote its older copy over the agent; a new request or a
\* new agent makes it good again.
ClearedMeansServed ==
  \A n \in cleared \ lost :
    \/ Serves(agents, n)
    \/ \E p \in Spawners : spawner[p].phase = "running" /\ Serves(spawner[p].config, n)

\* However its categories are spelt, and though several runs decide on copies of
\* the configuration, a niche never has more agents than the limit.
CategoryCap ==
  \A n \in Norms : Cardinality(UNION {agents[l] : l \in {l \in LabelSet : Norm[l] = n}}) <= MaxPerCategory

\* The model file that is published for an agent was trained on a history that
\* passed the sandbox: a later training, finished, failed or cut off half way,
\* does not touch that file.
ActivePassed ==
  \A a \in Wallets : active[a] # 0 =>
    /\ <<a, active[a]>> \in DOMAIN models
    /\ EvaluateSandbox(SubSeq(OfAgent(jobs, a), 1, models[<<a, active[a]>>]))

\* Between cycles both files of the loop agree, unless it died between writing
\* the one and the other.
ActiveFollowsRegistry == (trainer.phase = "idle" /\ ~torn) => active = ActiveState(registry)

\* What is published is sound through every crash and every failed training: a
\* model that passed, and the one the registry names.
ActiveSound == ActivePassed /\ ActiveFollowsRegistry

\* In spite of crashes every history of sufficient news is processed in the end ...
CatchesUp ==
  []<>(\A a \in Wallets : Len(OfAgent(jobs, a)) - registry[a].processed < MinNewRecords)

\* ... and no niche waits for ever: once asked for it has an agent or was lost as
\* above, unless the script will not clone anybody for it: nobody is worth cloning,
\* or the jobs it goes by fail under the spelling of the request.
NicheServed ==
  \A n \in Norms :
    []<>(\/ Serves(agents, n) \/ n \in lost
         \/ n \notin cleared /\ (BaseCandidates(jobs, agents) = {} \/ ~Clonable(jobs, agents, requests[n])))
==============================================================================
