---------------------------- MODULE RolloutProofs ----------------------------
(***************************************************************************)
(* Theorems about Rollout for any setups, attempts, kills and ways to copy *)
(* addresses.  The invariant says of the script that runs which of its     *)
(* transactions are done: each is still to be sent or has left its effect  *)
(* on the contract it was sent to, and no later transaction undoes it.     *)
(***************************************************************************)
EXTENDS Rollout, SequenceTheorems, TLAPS

-----------------------------------------------------------------------------
(* Sequences of transactions. *)

IsSeq(s) == s \in Seq(Range(s))

\* x may not come before y: contracts are created before anything is done with
\* them, a registry acknowledges for others only after everybody who allows it
\* has, and nothing follows for a contract once it is handed on.
Clash(x, y) ==
  \/ y.do = "create" /\ x.do # "create"
  \/ /\ x.do = "grant" /\ x.arg[1] = "acknowledged"
     /\ y.do = "grant" /\ y.arg[1] = "acknowledger"
  \/ /\ x.do \in {"hand", "handOnce"} /\ y.do \in {"hand", "handOnce", "set"}
     /\ x.to = y.to

InOrder(s) == \A i, k \in DOMAIN s : i < k => ~Clash(s[i], s[k])

LEMMA EmptyIsSeq == IsSeq(<<>>) /\ Range(<<>>) = {} /\ InOrder(<<>>)
BY DEF IsSeq, Range, InOrder

LEMMA OneIsSeq ==
  ASSUME NEW x
  PROVE  IsSeq(<<x>>) /\ Range(<<x>>) = {x} /\ InOrder(<<x>>)
BY DEF IsSeq, Range, InOrder

LEMMA Entries ==
  ASSUME NEW s, IsSeq(s)
  PROVE  /\ Len(s) \in Nat /\ DOMAIN s = 1..Len(s)
         /\ \A i \in 1..Len(s) : s[i] \in Range(s)
         /\ \A x \in Range(s) : \E i \in 1..Len(s) : x = s[i]
<1>1. Len(s) \in Nat /\ DOMAIN s = 1..Len(s)
  BY LenProperties DEF IsSeq
<1> QED BY <1>1 DEF Range

LEMMA ConcatIsSeq ==
  ASSUME NEW s, NEW t, IsSeq(s), IsSeq(t)
  PROVE  IsSeq(s \o t) /\ Range(s \o t) = Range(s) \cup Range(t)
<1> DEFINE S == Range(s) \cup Range(t)
<1>1. s \in Seq(S) /\ t \in Seq(S)
  <2>1. Range(s) \subseteq S /\ Range(t) \subseteq S
    OBVIOUS
  <2> QED BY <2>1, SeqMonotonic DEF IsSeq
<1>2. Len(s) \in Nat /\ Len(t) \in Nat
  BY Entries
<1>3. /\ s \o t \in Seq(S)
      /\ Len(s \o t) = Len(s) + Len(t)
      /\ \A i \in 1..Len(s) + Len(t) :
           (s \o t)[i] = IF i <= Len(s) THEN s[i] ELSE t[i - Len(s)]
  BY <1>1, ConcatProperties
<1>4. DOMAIN (s \o t) = 1..Len(s) + Len(t)
  BY <1>3, LenProperties
<1>5. Range(s \o t) \subseteq S
  BY <1>3, <1>4, LenProperties, ElementOfSeq DEF Range
<1>6. Range(s) \subseteq Range(s \o t)
  <2> SUFFICES ASSUME NEW i \in 1..Len(s) PROVE s[i] \in Range(s \o t)
    BY Entries
  <2>1. i \in 1..Len(s) + Len(t) /\ i <= Len(s)
    BY <1>2
  <2>2. (s \o t)[i] = s[i]
    BY <1>3, <2>1
  <2> QED BY <1>4, <2>1, <2>2 DEF Range
<1>7. Range(t) \subseteq Range(s \o t)
  <2> SUFFICES ASSUME NEW i \in 1..Len(t) PROVE t[i] \in Range(s \o t)
    BY Entries
  <2>1. /\ i + Len(s) \in 1..Len(s) + Len(t) /\ ~(i + Len(s) <= Len(s))
        /\ i + Len(s) - Len(s) = i
    BY <1>2
  <2>2. (s \o t)[i + Len(s)] = t[i]
    BY <1>3, <2>1
  <2> QED BY <1>4, <2>1, <2>2 DEF Range
<1>8. Range(s \o t) = S
  BY <1>5, <1>6, <1>7
<1> QED BY <1>3, <1>8 DEF IsSeq

LEMMA ConcatInOrder ==
  ASSUME NEW s, NEW t, IsSeq(s), IsSeq(t), InOrder(s), InOrder(t),
         \A x \in Range(s), y \in Range(t) : ~Clash(x, y)
  PROVE  InOrder(s \o t)
<1> DEFINE S == Range(s) \cup Range(t)
<1>1. s \in Seq(S) /\ t \in Seq(S)
  <2>1. Range(s) \subseteq S /\ Range(t) \subseteq S
    OBVIOUS
  <2> QED BY <2>1, SeqMonotonic DEF IsSeq
<1>2. /\ Len(s) \in Nat /\ DOMAIN s = 1..Len(s)
      /\ Len(t) \in Nat /\ DOMAIN t = 1..Len(t)
      /\ \A i \in 1..Len(s) : s[i] \in Range(s)
      /\ \A i \in 1..Len(t) : t[i] \in Range(t)
  BY Entries
<1>3. /\ s \o t \in Seq(S)
      /\ Len(s \o t) = Len(s) + Len(t)
      /\ \A i \in 1..Len(s) + Len(t) :
           (s \o t)[i] = IF i <= Len(s) THEN s[i] ELSE t[i - Len(s)]
  BY <1>1, ConcatProperties
<1>4. DOMAIN (s \o t) = 1..Len(s) + Len(t)
  BY <1>3, LenProperties
<1> SUFFICES ASSUME NEW i \in 1..Len(s) + Len(t), NEW k \in 1..Len(s) + Len(t), i < k
             PROVE  ~Clash((s \o t)[i], (s \o t)[k])
  BY <1>4 DEF InOrder
<1>5. CASE k <= Len(s)
  <2>1. i \in 1..Len(s) /\ k \in 1..Len(s) /\ (s \o t)[i] = s[i] /\ (s \o t)[k] = s[k]
    BY <1>2, <1>3, <1>5
  <2> QED BY <1>2, <2>1 DEF InOrder
<1>6. CASE ~(k <= Len(s)) /\ i <= Len(s)
  <2>1. /\ i \in 1..Len(s) /\ k - Len(s) \in 1..Len(t)
        /\ (s \o t)[i] = s[i] /\ (s \o t)[k] = t[k - Len(s)]
    BY <1>2, <1>3, <1>6
  <2> QED BY <1>2, <2>1
<1>7. CASE ~(k <= Len(s)) /\ ~(i <= Len(s))
  <2>1. /\ i - Len(s) \in 1..Len(t) /\ k - Len(s) \in 1..Len(t)
        /\ i - Len(s) < k - Len(s)
        /\ (s \o t)[i] = t[i - Len(s)] /\ (s \o t)[k] = t[k - Len(s)]
    BY <1>2, <1>3, <1>7
  <2> QED BY <1>2, <2>1 DEF InOrder
<1> QED BY <1>5, <1>6, <1>7

\* What is left of a sequence after its first transaction.
LEMMA TailFacts ==
  ASSUME NEW S, NEW s \in Seq(S), s # <<>>
  PROVE  /\ Head(s) \in Range(s) /\ Tail(s) \in Seq(S)
         /\ Range(s) = {Head(s)} \cup Range(Tail(s))
         /\ InOrder(s) => /\ InOrder(Tail(s))
                          /\ \A y \in Range(Tail(s)) : ~Clash(Head(s), y)
<1>1. /\ Len(s) \in Nat /\ Len(s) # 0 /\ DOMAIN s = 1..Len(s) /\ Head(s) = s[1]
  BY EmptySeq, LenProperties
<1>2. /\ Tail(s) \in Seq(S) /\ Len(Tail(s)) = Len(s) - 1
      /\ \A i \in 1..Len(s) - 1 : Tail(s)[i] = s[i + 1]
  BY HeadTailProperties
<1>3. DOMAIN Tail(s) = 1..Len(s) - 1
  BY <1>2, LenProperties
<1>4. Head(s) \in Range(s)
  BY <1>1 DEF Range
<1>5. Range(Tail(s)) \subseteq Range(s)
  <2> SUFFICES ASSUME NEW i \in 1..Len(s) - 1 PROVE Tail(s)[i] \in Range(s)
    BY <1>3 DEF Range
  <2>1. i + 1 \in 1..Len(s)
    BY <1>1
  <2> QED BY <1>1, <1>2, <2>1 DEF Range
<1>6. Range(s) \subseteq {Head(s)} \cup Range(Tail(s))
  <2> SUFFICES ASSUME NEW i \in 1..Len(s), i # 1 PROVE s[i] \in Range(Tail(s))
    BY <1>1 DEF Range
  <2>1. i - 1 \in 1..Len(s) - 1 /\ i - 1 + 1 = i
    BY <1>1
  <2>2. Tail(s)[i - 1] = s[i]
    BY <1>2, <2>1
  <2> QED BY <1>3, <2>1, <2>2 DEF Range
<1>7. ASSUME InOrder(s) PROVE InOrder(Tail(s))
  <2> SUFFICES ASSUME NEW i \in 1..Len(s) - 1, NEW k \in 1..Len(s) - 1, i < k
               PROVE  ~Clash(Tail(s)[i], Tail(s)[k])
    BY <1>3 DEF InOrder
  <2>1. i + 1 \in 1..Len(s) /\ k + 1 \in 1..Len(s) /\ i + 1 < k + 1
    BY <1>1
  <2>2. Tail(s)[i] = s[i + 1] /\ Tail(s)[k] = s[k + 1]
    BY <1>2
  <2> QED BY <1>1, <1>7, <2>1, <2>2 DEF InOrder
<1>8. ASSUME InOrder(s), NEW y \in Range(Tail(s)) PROVE ~Clash(Head(s), y)
  <2>1. PICK i \in 1..Len(s) - 1 : y = Tail(s)[i]
    BY <1>3 DEF Range
  <2>2. y = s[i + 1] /\ i + 1 \in 1..Len(s) /\ 1 \in 1..Len(s) /\ 1 < i + 1
    BY <1>1, <1>2, <2>1
  <2> QED BY <1>1, <1>8, <2>2 DEF InOrder
<1> QED BY <1>2, <1>4, <1>5, <1>6, <1>7, <1>8
-----------------------------------------------------------------------------
(* The transactions of a deployment. *)

\* Who creates a contract and is in charge of it until the handover.
Creator(c, m) == IF m \in {"stakeManager", "jobRegistry"} THEN c.initial ELSE c.deployer

\* What a reference of a contract is set to, whichever contract it is.
LinkValue(c, a, g) ==
  CASE g = "taxPolicy" -> TaxPolicyAddress(c, a)
    [] g = "committee" -> None
    [] g = "ens" -> c.ens
    [] g = "roots" -> c.roots
    [] g = "treasury" -> c.treasury
    [] g = "governance" -> c.initial
    [] OTHER -> <<g, a>>

Refers(c, a, link) == \A g \in DOMAIN link : link[g] = LinkValue(c, a, g)

Acknowledged(t) == t.do = "grant" /\ t.arg[1] = "acknowledged"
Acknowledger(t) == t.do = "grant" /\ t.arg[1] = "acknowledger"

DeployStep(c, a, t) ==
  \/ t.do = "write"
  \/ /\ t.do \in {"create", "set", "grant", "tune"}
     /\ t.to \in Created /\ t.by = Creator(c, t.to)
     /\ t.to = "taxPolicy" => c.tax = "deploy"
     /\ t.do \in {"create", "set"} => Refers(c, a, t.arg)

\* Blocks of a deployment's plan: what creates comes first, and nothing that
\* acknowledges for others comes before what lets it.
Plain(s) ==
  /\ IsSeq(s) /\ InOrder(s)
  /\ \A t \in Range(s) : t.do \in {"create", "set", "grant", "tune", "write"}

NoCreate(s) == \A t \in Range(s) : t.do # "create"
NoAcknowledged(s) == \A t \in Range(s) : ~Acknowledged(t)
NoAcknowledger(s) == \A t \in Range(s) : ~Acknowledger(t)

Creating(s) == Plain(s) /\ \A t \in Range(s) : t.do = "create"
Early(s) == Plain(s) /\ NoCreate(s) /\ NoAcknowledged(s)
Late(s) == Plain(s) /\ NoCreate(s) /\ NoAcknowledger(s)

AllSteps(c, a, s) == \A t \in Range(s) : DeployStep(c, a, t)

LEMMA FoundationsBlock ==
  ASSUME NEW c, NEW a
  PROVE  Creating(Foundations(c, a)) /\ AllSteps(c, a, Foundations(c, a))
<1> DEFINE s == Foundations(c, a)
<1>1. IsSeq(s)
  BY DEF IsSeq, Range, Foundations
<1>2. \A t \in Range(s) : t.do = "create"
  BY DEF Range, Foundations, Create
<1>3. AllSteps(c, a, s)
  BY DEF Range, Foundations, Create, AllSteps, DeployStep, Refers, LinkValue, Creator, Created
<1>4. InOrder(s)
  BY <1>1, <1>2, Entries DEF InOrder, Clash
<1> QED BY <1>1, <1>2, <1>3, <1>4 DEF Creating, Plain

LEMMA DependentsBlock ==
  ASSUME NEW c, NEW a
  PROVE  Creating(Dependents(c, a)) /\ AllSteps(c, a, Dependents(c, a))
<1> DEFINE s == Dependents(c, a)
<1>1. IsSeq(s)
  BY DEF IsSeq, Range, Dependents
<1>2. \A t \in Range(s) : t.do = "create"
  BY DEF Range, Dependents, Create
<1>3. AllSteps(c, a, s)
  BY DEF Range, Dependents, Create, AllSteps, DeployStep, Refers, LinkValue, Creator, Created
<1>4. InOrder(s)
  BY <1>1, <1>2, Entries DEF InOrder, Clash
<1> QED BY <1>1, <1>2, <1>3, <1>4 DEF Creating, Plain

LEMMA RegistryLinksBlock ==
  ASSUME NEW c, NEW a
  PROVE  Early(RegistryLinks(c, a)) /\ AllSteps(c, a, RegistryLinks(c, a))
<1> DEFINE s == RegistryLinks(c, a)
<1>1. IsSeq(s)
  BY DEF IsSeq, Range, RegistryLinks
<1>2. \A t \in Range(s) : t.do \in {"set", "tune"}
  BY DEF Range, RegistryLinks, SetLinks, Tune
<1>3. AllSteps(c, a, s)
  BY DEF Range, RegistryLinks, SetLinks, Tune, AllSteps, DeployStep, Refers, LinkValue,
         Creator, Created
<1>4. InOrder(s)
  BY <1>1, <1>2, Entries DEF InOrder, Clash
<1> QED BY <1>1, <1>2, <1>3, <1>4 DEF Early, Plain, NoCreate, NoAcknowledged, Acknowledged

LEMMA AcknowledgementBlock ==
  ASSUME NEW c, NEW a
  PROVE  /\ Plain(Acknowledgement(c, a)) /\ NoCreate(Acknowledgement(c, a))
         /\ AllSteps(c, a, Acknowledgement(c, a))
<1> DEFINE s == Acknowledgement(c, a)
<1>1. IsSeq(s)
  BY DEF IsSeq, Range, Acknowledgement
<1>2. \A t \in Range(s) : t.do \in {"set", "grant"}
  BY DEF Range, Acknowledgement, SetLinks, Grant
<1>3. AllSteps(c, a, s)
  BY DEF Range, Acknowledgement, SetLinks, Grant, AllSteps, DeployStep, Refers, LinkValue,
         Creator, Created
<1>4. DOMAIN s = 1..6 /\ \A i \in 3..6 : s[i].arg[1] = "acknowledged"
  BY DEF Acknowledgement, Grant
<1>5. s[1].do = "set"
  BY DEF Acknowledgement, SetLinks
<1>6. InOrder(s)
  <2> SUFFICES ASSUME NEW i \in 1..6, NEW k \in 1..6, i < k PROVE ~Clash(s[i], s[k])
    BY <1>4 DEF InOrder
  <2>1. s[i].do \in {"set", "grant"} /\ s[k].do \in {"set", "grant"}
    BY <1>2, <1>4 DEF Range
  <2>2. CASE i = 1
    BY <1>5, <2>1, <2>2 DEF Clash
  <2>3. CASE i # 1
    <3>1. k \in 3..6
      BY <2>3
    <3> QED BY <1>4, <2>1, <3>1 DEF Clash
  <2> QED BY <2>2, <2>3
<1> QED BY <1>1, <1>2, <1>3, <1>6 DEF Plain, NoCreate

LEMMA StakeLinksBlock ==
  ASSUME NEW c, NEW a
  PROVE  Late(StakeLinks(c, a)) /\ AllSteps(c, a, StakeLinks(c, a))
<1> DEFINE s == StakeLinks(c, a)
<1>1. IsSeq(s)
  BY DEF IsSeq, Range, StakeLinks
<1>2. \A t \in Range(s) : t.do = "set"
  BY DEF Range, StakeLinks, SetLinks
<1>3. AllSteps(c, a, s)
  BY DEF Range, StakeLinks, SetLinks, AllSteps, DeployStep, Refers, LinkValue, Creator, Created
<1>4. InOrder(s)
  BY <1>1, <1>2, Entries DEF InOrder, Clash
<1> QED BY <1>1, <1>2, <1>3, <1>4 DEF Late, Plain, NoCreate, NoAcknowledger, Acknowledger

LEMMA ModuleLinksBlock ==
  ASSUME NEW c, NEW a
  PROVE  Late(ModuleLinks(c, a)) /\ AllSteps(c, a, ModuleLinks(c, a))
<1> DEFINE s == ModuleLinks(c, a)
<1>1. IsSeq(s)
  BY DEF IsSeq, Range, ModuleLinks
<1>2. \A t \in Range(s) : t.do \in {"set", "tune"}
  BY DEF Range, ModuleLinks, SetLinks, Tune
<1>3. AllSteps(c, a, s)
  BY DEF Range, ModuleLinks, SetLinks, Tune, AllSteps, DeployStep, Refers, LinkValue,
         Creator, Created
<1>4. InOrder(s)
  BY <1>1, <1>2, Entries DEF InOrder, Clash
<1> QED BY <1>1, <1>2, <1>3, <1>4 DEF Late, Plain, NoCreate, NoAcknowledger, Acknowledger

LEMMA LastLinksBlock ==
  ASSUME NEW c, NEW a
  PROVE  Late(LastLinks(c, a)) /\ AllSteps(c, a, LastLinks(c, a))
<1> DEFINE s == LastLinks(c, a)
<1>1. IsSeq(s)
  BY DEF IsSeq, Range, LastLinks
<1>2. \A t \in Range(s) : t.do \in {"set", "tune"} \/ (t.do = "grant" /\ t.arg[1] = "caller")
  <2>1. DOMAIN s = 1..5 /\ s[1].do = "tune" /\ s[2].do = "set" /\ s[5].do = "set"
    BY DEF LastLinks, SetLinks, Tune
  <2>2. s[3].do = "grant" /\ s[3].arg[1] = "caller"
    BY DEF LastLinks, Grant
  <2>3. s[4].do = "grant" /\ s[4].arg[1] = "caller"
    BY DEF LastLinks, Grant
  <2>4. \A i \in 1..5 : i = 1 \/ i = 2 \/ i = 3 \/ i = 4 \/ i = 5
    OBVIOUS
  <2> HIDE DEF s
  <2> QED BY <2>1, <2>2, <2>3, <2>4 DEF Range
<1>3. AllSteps(c, a, s)
  BY DEF Range, LastLinks, SetLinks, Tune, Grant, AllSteps, DeployStep, Refers, LinkValue,
         Creator, Created
<1>4. InOrder(s)
  BY <1>1, <1>2, Entries DEF InOrder, Clash
<1> QED BY <1>1, <1>2, <1>3, <1>4 DEF Late, Plain, NoCreate, NoAcknowledger, Acknowledger

LEMMA WhenPlain ==
  ASSUME NEW b \in BOOLEAN, NEW s
  PROVE  /\ Range(When(b, s)) = IF b THEN Range(s) ELSE {}
         /\ Plain(s) => Plain(When(b, s))
         /\ Creating(s) => Creating(When(b, s))
         /\ Early(s) => Early(When(b, s))
         /\ Late(s) => Late(When(b, s))
         /\ NoCreate(s) => NoCreate(When(b, s))
         /\ NoAcknowledged(s) => NoAcknowledged(When(b, s))
<1>1. CASE b
  BY <1>1 DEF When
<1>2. CASE ~b
  <2>1. When(b, s) = <<>>
    BY <1>2 DEF When
  <2> QED BY <1>2, <2>1, EmptyIsSeq
          DEF Plain, Creating, Early, Late, NoCreate, NoAcknowledged, NoAcknowledger
<1> QED BY <1>1, <1>2

LEMMA PlainConcat ==
  ASSUME NEW s, NEW t, Plain(s), Plain(t),
         Creating(s) \/ NoCreate(t), NoAcknowledged(s) \/ NoAcknowledger(t)
  PROVE  Plain(s \o t) /\ Range(s \o t) = Range(s) \cup Range(t)
<1>1. IsSeq(s \o t) /\ Range(s \o t) = Range(s) \cup Range(t)
  BY ConcatIsSeq DEF Plain
<1>2. ASSUME NEW x \in Range(s), NEW y \in Range(t) PROVE ~Clash(x, y)
  <2>1. x.do \notin {"hand", "handOnce"}
    BY DEF Plain
  <2>2. ~(y.do = "create" /\ x.do # "create")
    BY DEF Creating, NoCreate
  <2>3. ~(Acknowledged(x) /\ Acknowledger(y))
    BY DEF NoAcknowledged, NoAcknowledger
  <2> QED BY <2>1, <2>2, <2>3 DEF Clash, Acknowledged, Acknowledger
<1>3. InOrder(s \o t)
  BY <1>2, ConcatInOrder DEF Plain
<1> QED BY <1>1, <1>3 DEF Plain

LEMMA CreationPlan ==
  ASSUME NEW c, NEW a
  PROVE  /\ Creating(Creation(c, a)) /\ AllSteps(c, a, Creation(c, a))
         /\ Range(Foundations(c, a)) \cup Range(Dependents(c, a)) \subseteq Range(Creation(c, a))
         /\ \A t \in Range(Creation(c, a)) :
              t \in Range(Foundations(c, a)) \cup Range(Dependents(c, a)) \/ t.to = "taxPolicy"
         /\ c.tax = "deploy" => \E t \in Range(Creation(c, a)) : t.to = "taxPolicy"
<1> DEFINE s == Foundations(c, a)
           one == << Create("taxPolicy", c.deployer, <<>>) >>
           t == When(c.tax = "deploy", one)
           u == Dependents(c, a)
<1>1. Creating(s) /\ AllSteps(c, a, s) /\ Creating(u) /\ AllSteps(c, a, u)
  BY FoundationsBlock, DependentsBlock
<1>2. IsSeq(one) /\ Range(one) = {Create("taxPolicy", c.deployer, <<>>)} /\ InOrder(one)
  BY OneIsSeq
<1>3. \A x \in Range(one) : /\ x.do = "create" /\ x.to = "taxPolicy"
                            /\ c.tax = "deploy" => DeployStep(c, a, x)
  BY <1>2 DEF Create, DeployStep, Creator, Created, Refers
<1>4. Creating(one)
  BY <1>2, <1>3 DEF Creating, Plain
<1> HIDE DEF one
<1>5. Creating(t) /\ Range(t) = IF c.tax = "deploy" THEN Range(one) ELSE {}
  BY <1>4, WhenPlain
<1> HIDE DEF s, t, u
<1>6. \A x, y : Creating(x) /\ Creating(y) =>
        Creating(x \o y) /\ Range(x \o y) = Range(x) \cup Range(y)
  <2> SUFFICES ASSUME NEW x, NEW y, Creating(x), Creating(y)
               PROVE  Creating(x \o y) /\ Range(x \o y) = Range(x) \cup Range(y)
    OBVIOUS
  <2>1. Plain(x) /\ Plain(y) /\ NoAcknowledged(x)
    BY DEF Creating, NoAcknowledged, Acknowledged
  <2>2. Plain(x \o y) /\ Range(x \o y) = Range(x) \cup Range(y)
    BY <2>1, PlainConcat
  <2> QED BY <2>2 DEF Creating
<1>7. Creating(s \o t) /\ Range(s \o t) = Range(s) \cup Range(t)
  BY <1>1, <1>5, <1>6
<1>8. Creating((s \o t) \o u) /\ Range((s \o t) \o u) = (Range(s) \cup Range(t)) \cup Range(u)
  BY <1>1, <1>6, <1>7
<1>9. Creation(c, a) = (s \o t) \o u
  BY DEF Creation, s, t, one, u
<1>10. c.tax = "deploy" => \E x \in Range(Creation(c, a)) : x.to = "taxPolicy"
  BY <1>2, <1>3, <1>5, <1>8, <1>9
<1> QED BY <1>1, <1>3, <1>5, <1>8, <1>9, <1>10 DEF AllSteps, s, u

\* The blocks of the registry's wiring and what they hold.
LEMMA RegistryPlan ==
  ASSUME NEW c, NEW a
  PROVE  LET s == RegistryWiring(c, a)
             allow == Grant("taxPolicy", c.deployer, "acknowledger", <<"jobRegistry", a>>)
         IN  /\ Plain(s) /\ NoCreate(s) /\ AllSteps(c, a, s)
             /\ c.tax = "deploy" => allow \in Range(s)
             /\ c.tax # "none" => Range(Acknowledgement(c, a)) \subseteq Range(s)
             /\ Range(RegistryLinks(c, a)) \cup Range(StakeLinks(c, a)) \subseteq Range(s)
             /\ \A t \in Range(s) :
                  \/ t = allow /\ c.tax = "deploy"
                  \/ t \in Range(RegistryLinks(c, a)) \cup Range(StakeLinks(c, a))
                  \/ t \in Range(Acknowledgement(c, a)) /\ c.tax # "none"
                  \/ t.do = "set" /\ c.treasury # None
<1> DEFINE allow == Grant("taxPolicy", c.deployer, "acknowledger", <<"jobRegistry", a>>)
           pay == SetLinks("stakeManager", c.initial, [treasury |-> c.treasury])
           p == When(c.tax = "deploy", <<allow>>)
           q == RegistryLinks(c, a)
           r == When(c.tax # "none", Acknowledgement(c, a))
           s == StakeLinks(c, a)
           t == When(c.treasury # None, <<pay>>)
<1>1. /\ allow.do = "grant" /\ ~Acknowledged(allow)
      /\ c.tax = "deploy" => DeployStep(c, a, allow)
  BY DEF Grant, DeployStep, Creator, Created, Acknowledged
<1>2. pay.do = "set" /\ DeployStep(c, a, pay)
  BY DEF SetLinks, DeployStep, Creator, Created, Refers, LinkValue
<1>3. /\ IsSeq(<<allow>>) /\ InOrder(<<allow>>) /\ Range(<<allow>>) = {allow}
      /\ IsSeq(<<pay>>) /\ InOrder(<<pay>>) /\ Range(<<pay>>) = {pay}
  BY OneIsSeq
<1> HIDE DEF allow, pay
<1>4. Early(<<allow>>) /\ Late(<<pay>>)
  BY <1>1, <1>2, <1>3
     DEF Early, Late, Plain, NoCreate, NoAcknowledged, NoAcknowledger, Acknowledger
<1>5. Early(p) /\ Range(p) = IF c.tax = "deploy" THEN {allow} ELSE {}
  BY <1>3, <1>4, WhenPlain
<1>6. Late(t) /\ Range(t) = IF c.treasury # None THEN {pay} ELSE {}
  BY <1>3, <1>4, WhenPlain
<1>7. Early(q) /\ AllSteps(c, a, q) /\ Late(s) /\ AllSteps(c, a, s)
  BY RegistryLinksBlock, StakeLinksBlock
<1>8. /\ Plain(r) /\ NoCreate(r)
      /\ Range(r) = IF c.tax # "none" THEN Range(Acknowledgement(c, a)) ELSE {}
      /\ AllSteps(c, a, Acknowledgement(c, a))
  BY AcknowledgementBlock, WhenPlain
<1> HIDE DEF p, q, r, s, t
<1>9. /\ Early(p \o q) /\ Range(p \o q) = Range(p) \cup Range(q)
  BY <1>5, <1>7, PlainConcat DEF Early, NoCreate, NoAcknowledged
<1>10. /\ Plain((p \o q) \o r) /\ NoCreate((p \o q) \o r)
       /\ Range((p \o q) \o r) = Range(p \o q) \cup Range(r)
  BY <1>8, <1>9, PlainConcat DEF Early, NoCreate
<1>11. /\ Plain(((p \o q) \o r) \o s) /\ NoCreate(((p \o q) \o r) \o s)
       /\ Range(((p \o q) \o r) \o s) = Range((p \o q) \o r) \cup Range(s)
  BY <1>7, <1>10, PlainConcat DEF Late, NoCreate
<1>12. /\ Plain((((p \o q) \o r) \o s) \o t) /\ NoCreate((((p \o q) \o r) \o s) \o t)
       /\ Range((((p \o q) \o r) \o s) \o t) = Range(((p \o q) \o r) \o s) \cup Range(t)
  BY <1>6, <1>11, PlainConcat DEF Late, NoCreate
<1>13. RegistryWiring(c, a) = (((p \o q) \o r) \o s) \o t
  BY DEF RegistryWiring, allow, pay, p, q, r, s, t
<1>14. Range(RegistryWiring(c, a)) =
         (((Range(p) \cup Range(q)) \cup Range(r)) \cup Range(s)) \cup Range(t)
  BY <1>9, <1>10, <1>11, <1>12, <1>13
<1>15. AllSteps(c, a, RegistryWiring(c, a))
  BY <1>1, <1>2, <1>5, <1>6, <1>7, <1>8, <1>14 DEF AllSteps
<1> QED BY <1>2, <1>5, <1>6, <1>8, <1>12, <1>13, <1>14, <1>15 DEF allow, q, s

LEMMA ModulePlan ==
  ASSUME NEW c, NEW a
  PROVE  LET s == ModuleWiring(c, a)
         IN  /\ Late(s) /\ AllSteps(c, a, s)
             /\ Range(ModuleLinks(c, a)) \cup Range(LastLinks(c, a)) \subseteq Range(s)
             /\ \A t \in Range(s) :
                  \/ t \in Range(ModuleLinks(c, a)) \cup Range(LastLinks(c, a))
                  \/ t.do = "set" /\ t.to = "feePool"
<1> DEFINE tax == SetLinks("feePool", c.deployer, [taxPolicy |-> TaxPolicyAddress(c, a)])
           p == ModuleLinks(c, a)
           q == When(c.tax # "none", <<tax>>)
           r == LastLinks(c, a)
<1>1. tax.do = "set" /\ tax.to = "feePool" /\ DeployStep(c, a, tax)
  BY DEF SetLinks, DeployStep, Creator, Created, Refers, LinkValue
<1>2. IsSeq(<<tax>>) /\ InOrder(<<tax>>) /\ Range(<<tax>>) = {tax}
  BY OneIsSeq
<1> HIDE DEF tax
<1>3. Late(<<tax>>)
  BY <1>1, <1>2 DEF Late, Plain, NoCreate, NoAcknowledger, Acknowledger
<1>4. Late(q) /\ Range(q) \subseteq {tax}
  BY <1>2, <1>3, WhenPlain
<1>5. Late(p) /\ AllSteps(c, a, p) /\ Late(r) /\ AllSteps(c, a, r)
  BY ModuleLinksBlock, LastLinksBlock
<1> HIDE DEF p, q, r
<1>6. Late(p \o q) /\ Range(p \o q) = Range(p) \cup Range(q)
  BY <1>4, <1>5, PlainConcat DEF Late, NoCreate, NoAcknowledger
<1>7. Late((p \o q) \o r) /\ Range((p \o q) \o r) = Range(p \o q) \cup Range(r)
  BY <1>5, <1>6, PlainConcat DEF Late, NoCreate, NoAcknowledger
<1>8. ModuleWiring(c, a) = (p \o q) \o r
  BY DEF ModuleWiring, tax, p, q, r
<1>9. AllSteps(c, a, ModuleWiring(c, a))
  BY <1>1, <1>4, <1>5, <1>6, <1>7, <1>8 DEF AllSteps
<1> QED BY <1>1, <1>4, <1>6, <1>7, <1>8, <1>9 DEF p, r

LEMMA WholePlan ==
  ASSUME NEW c, NEW a
  PROVE  LET s == DeployPlan(c, a)
         IN  /\ Plain(s) /\ AllSteps(c, a, s)
             /\ Range(s) = Range(Creation(c, a)) \cup {WriteAddresses}
                             \cup Range(RegistryWiring(c, a)) \cup Range(ModuleWiring(c, a))
<1> DEFINE p == Creation(c, a)
           q == <<WriteAddresses>>
           r == RegistryWiring(c, a)
           s == ModuleWiring(c, a)
<1>1. Creating(p) /\ AllSteps(c, a, p)
  BY CreationPlan
<1>2. IsSeq(q) /\ InOrder(q) /\ Range(q) = {WriteAddresses} /\ WriteAddresses.do = "write"
  BY OneIsSeq DEF WriteAddresses
<1>3. Early(q) /\ AllSteps(c, a, q)
  BY <1>2 DEF Early, Plain, NoCreate, NoAcknowledged, Acknowledged, AllSteps, DeployStep
<1>4. Plain(r) /\ NoCreate(r) /\ AllSteps(c, a, r)
  BY RegistryPlan
<1>5. Late(s) /\ AllSteps(c, a, s)
  BY ModulePlan
<1> HIDE DEF p, q, r, s
<1>6. NoAcknowledged(p)
  BY <1>1 DEF Creating, NoAcknowledged, Acknowledged
<1>7. /\ Plain(p \o q) /\ Range(p \o q) = Range(p) \cup Range(q) /\ NoAcknowledged(p \o q)
  BY <1>1, <1>3, <1>6, PlainConcat DEF Early, Creating, NoAcknowledged
<1>8. Plain((p \o q) \o r) /\ Range((p \o q) \o r) = Range(p \o q) \cup Range(r)
  BY <1>4, <1>7, PlainConcat
<1>9. /\ Plain(((p \o q) \o r) \o s)
      /\ Range(((p \o q) \o r) \o s) = Range((p \o q) \o r) \cup Range(s)
  BY <1>5, <1>8, PlainConcat DEF Late
<1>10. DeployPlan(c, a) = ((p \o q) \o r) \o s
  BY DEF DeployPlan, p, q, r, s
<1>11. Range(DeployPlan(c, a)) = ((Range(p) \cup {WriteAddresses}) \cup Range(r)) \cup Range(s)
  BY <1>2, <1>7, <1>8, <1>9, <1>10
<1>12. AllSteps(c, a, DeployPlan(c, a))
  BY <1>1, <1>2, <1>3, <1>4, <1>5, <1>11 DEF AllSteps
<1> QED BY <1>9, <1>10, <1>11, <1>12 DEF p, r, s

\* Some transaction of the plan sets the reference g of module m.
Sets(c, a, m, g) ==
  \E t \in Range(DeployPlan(c, a)) :
    t.do \in {"create", "set"} /\ t.to = m /\ g \in DOMAIN t.arg

LEMMA SetsIn ==
  ASSUME NEW c, NEW a, NEW s, Range(s) \subseteq Range(DeployPlan(c, a)), NEW i \in DOMAIN s,
         s[i].do \in {"create", "set"}, NEW g \in DOMAIN s[i].arg
  PROVE  Sets(c, a, s[i].to, g)
<1>1. s[i] \in Range(DeployPlan(c, a))
  BY DEF Range
<1> QED BY <1>1 DEF Sets

LEMMA PlannedBlocks ==
  ASSUME NEW c, NEW a
  PROVE  /\ Range(Foundations(c, a)) \subseteq Range(DeployPlan(c, a))
         /\ Range(Dependents(c, a)) \subseteq Range(DeployPlan(c, a))
         /\ Range(RegistryLinks(c, a)) \subseteq Range(DeployPlan(c, a))
         /\ Range(StakeLinks(c, a)) \subseteq Range(DeployPlan(c, a))
         /\ Range(ModuleLinks(c, a)) \subseteq Range(DeployPlan(c, a))
         /\ Range(LastLinks(c, a)) \subseteq Range(DeployPlan(c, a))
<1>1. /\ Range(Creation(c, a)) \subseteq Range(DeployPlan(c, a))
      /\ Range(RegistryWiring(c, a)) \subseteq Range(DeployPlan(c, a))
      /\ Range(ModuleWiring(c, a)) \subseteq Range(DeployPlan(c, a))
  BY WholePlan
<1>2. /\ Range(Foundations(c, a)) \subseteq Range(Creation(c, a))
      /\ Range(Dependents(c, a)) \subseteq Range(Creation(c, a))
  BY CreationPlan
<1>3. /\ Range(RegistryLinks(c, a)) \subseteq Range(RegistryWiring(c, a))
      /\ Range(StakeLinks(c, a)) \subseteq Range(RegistryWiring(c, a))
  BY RegistryPlan
<1>4. /\ Range(ModuleLinks(c, a)) \subseteq Range(ModuleWiring(c, a))
      /\ Range(LastLinks(c, a)) \subseteq Range(ModuleWiring(c, a))
  BY ModulePlan
<1> QED BY <1>1, <1>2, <1>3, <1>4

LEMMA NeedsPlanned ==
  ASSUME NEW c, NEW a, NEW m \in Created, NEW g \in Needs(m)
  PROVE  Sets(c, a, m, g)
<1>1. CASE m = "stakeManager"
  <2> DEFINE s == StakeLinks(c, a)
  <2>1. /\ DOMAIN s = 1..3 /\ \A i \in 1..3 : s[i].do = "set" /\ s[i].to = "stakeManager"
        /\ DOMAIN s[1].arg = {"jobRegistry", "disputeModule"}
        /\ DOMAIN s[2].arg = {"validationModule"} /\ DOMAIN s[3].arg = {"feePool"}
    BY DEF StakeLinks, SetLinks
  <2>2. Range(s) \subseteq Range(DeployPlan(c, a))
    BY PlannedBlocks
  <2>3. g \in {"jobRegistry", "disputeModule", "validationModule", "feePool"}
    BY <1>1 DEF Needs
  <2> HIDE DEF s
  <2>4. \A i \in 1..3 : \A x \in DOMAIN s[i].arg : Sets(c, a, "stakeManager", x)
    BY <2>1, <2>2, SetsIn
  <2> QED BY <1>1, <2>1, <2>3, <2>4
<1>2. CASE m = "jobRegistry"
  <2> DEFINE s == RegistryLinks(c, a)
             r == LastLinks(c, a)
  <2>1. /\ 1 \in DOMAIN s /\ s[1].do = "set" /\ s[1].to = "jobRegistry"
        /\ DOMAIN s[1].arg = {"validationModule", "stakeManager", "reputationEngine",
                              "disputeModule", "certificateNFT", "feePool"}
    BY DEF RegistryLinks, SetLinks
  <2>2. /\ 2 \in DOMAIN r /\ r[2].do = "set" /\ r[2].to = "jobRegistry"
        /\ DOMAIN r[2].arg = {"identityRegistry"}
    BY DEF LastLinks, SetLinks
  <2>3. Range(s) \subseteq Range(DeployPlan(c, a)) /\ Range(r) \subseteq Range(DeployPlan(c, a))
    BY PlannedBlocks
  <2>4. g \in Created \ {"jobRegistry", "taxPolicy"}
    BY <1>2 DEF Needs
  <2> HIDE DEF s, r
  <2>5. \A x \in DOMAIN s[1].arg : Sets(c, a, "jobRegistry", x)
    BY <2>1, <2>3, SetsIn
  <2>6. Sets(c, a, "jobRegistry", "identityRegistry")
    BY <2>2, <2>3, SetsIn
  <2> QED BY <1>2, <2>1, <2>4, <2>5, <2>6 DEF Created
<1>3. CASE m = "validationModule"
  <2> DEFINE s == ModuleLinks(c, a)
             r == Foundations(c, a)
  <2>1. /\ DOMAIN s = 1..12 /\ \A i \in 1..3 : s[i].do = "set" /\ s[i].to = "validationModule"
        /\ DOMAIN s[1].arg = {"jobRegistry"} /\ DOMAIN s[2].arg = {"identityRegistry"}
        /\ DOMAIN s[3].arg = {"reputationEngine"}
    BY DEF ModuleLinks, SetLinks
  <2>2. /\ 4 \in DOMAIN r /\ r[4].do = "create" /\ r[4].to = "validationModule"
        /\ DOMAIN r[4].arg = {"stakeManager"}
    BY DEF Foundations, Create
  <2>3. Range(s) \subseteq Range(DeployPlan(c, a)) /\ Range(r) \subseteq Range(DeployPlan(c, a))
    BY PlannedBlocks
  <2>4. g \in {"jobRegistry", "stakeManager", "identityRegistry", "reputationEngine"}
    BY <1>3 DEF Needs
  <2> HIDE DEF s, r
  <2>5. \A i \in 1..3 : \A x \in DOMAIN s[i].arg : Sets(c, a, "validationModule", x)
    BY <2>1, <2>3, SetsIn
  <2>6. Sets(c, a, "validationModule", "stakeManager")
    BY <2>2, <2>3, SetsIn
  <2> QED BY <1>3, <2>1, <2>4, <2>5, <2>6
<1>4. CASE m \in {"disputeModule", "certificateNFT"}
  <2> DEFINE s == ModuleLinks(c, a)
  <2>1. /\ DOMAIN s = 1..12
        /\ s[5].do = "set" /\ s[5].to = "disputeModule" /\ DOMAIN s[5].arg = {"jobRegistry"}
        /\ s[6].do = "set" /\ s[6].to = "disputeModule" /\ DOMAIN s[6].arg = {"stakeManager"}
    BY DEF ModuleLinks, SetLinks
  <2>2. /\ s[9].do = "set" /\ s[9].to = "certificateNFT" /\ DOMAIN s[9].arg = {"jobRegistry"}
        /\ s[10].do = "set" /\ s[10].to = "certificateNFT" /\ DOMAIN s[10].arg = {"stakeManager"}
    BY DEF ModuleLinks, SetLinks
  <2>3. Range(s) \subseteq Range(DeployPlan(c, a))
    BY PlannedBlocks
  <2>4. g \in {"jobRegistry", "stakeManager"}
    BY <1>4 DEF Needs
  <2> HIDE DEF s
  <2>5. Sets(c, a, "disputeModule", "jobRegistry") /\ Sets(c, a, "disputeModule", "stakeManager")
    BY <2>1, <2>3, SetsIn
  <2>6. Sets(c, a, "certificateNFT", "jobRegistry") /\ Sets(c, a, "certificateNFT", "stakeManager")
    BY <2>1, <2>2, <2>3, SetsIn
  <2> QED BY <1>4, <2>4, <2>5, <2>6
<1>5. CASE m \in {"feePool", "reputationEngine"}
  <2> DEFINE s == ModuleLinks(c, a)
             r == Foundations(c, a)
  <2>1. 11 \in DOMAIN s /\ s[11].do = "set" /\ s[11].to = "feePool" /\ DOMAIN s[11].arg = {"stakeManager"}
    BY DEF ModuleLinks, SetLinks
  <2>2. 2 \in DOMAIN r /\ r[2].do = "create" /\ r[2].to = "reputationEngine" /\ DOMAIN r[2].arg = {"stakeManager"}
    BY DEF Foundations, Create
  <2>3. Range(s) \subseteq Range(DeployPlan(c, a)) /\ Range(r) \subseteq Range(DeployPlan(c, a))
    BY PlannedBlocks
  <2>4. g = "stakeManager"
    BY <1>5 DEF Needs
  <2> HIDE DEF s, r
  <2>5. Sets(c, a, "feePool", "stakeManager") /\ Sets(c, a, "reputationEngine", "stakeManager")
    BY <2>1, <2>2, <2>3, SetsIn
  <2> QED BY <1>5, <2>4, <2>5
<1>6. CASE m = "identityRegistry"
  <2> DEFINE r == Foundations(c, a)
  <2>1. 3 \in DOMAIN r /\ r[3].do = "create" /\ r[3].to = "identityRegistry" /\ "reputationEngine" \in DOMAIN r[3].arg
    BY DEF Foundations, Create
  <2>2. Range(r) \subseteq Range(DeployPlan(c, a))
    BY PlannedBlocks
  <2>3. g = "reputationEngine"
    BY <1>6 DEF Needs
  <2> HIDE DEF r
  <2>4. Sets(c, a, "identityRegistry", "reputationEngine")
    BY <2>1, <2>2, SetsIn
  <2> QED BY <1>6, <2>3, <2>4
<1>7. CASE m = "taxPolicy"
  BY <1>7 DEF Needs
<1> QED BY <1>1, <1>2, <1>3, <1>4, <1>5, <1>6, <1>7 DEF Created

LEMMA GrantsPlanned ==
  ASSUME NEW c, NEW a
  PROVE  /\ \A m \in {"jobRegistry", "validationModule"} :
              Grant("reputationEngine", c.deployer, "caller", <<m, a>>)
                \in Range(DeployPlan(c, a))
         /\ c.tax = "deploy" =>
              Grant("taxPolicy", c.deployer, "acknowledger", <<"jobRegistry", a>>)
                \in Range(DeployPlan(c, a))
         /\ c.tax # "none" =>
              Grant("jobRegistry", c.initial, "acknowledger", c.initial)
                \in Range(DeployPlan(c, a))
<1>1. Range(LastLinks(c, a)) \subseteq Range(DeployPlan(c, a))
  BY PlannedBlocks
<1>2. \A m \in {"jobRegistry", "validationModule"} :
        Grant("reputationEngine", c.deployer, "caller", <<m, a>>) \in Range(LastLinks(c, a))
  <2> DEFINE s == LastLinks(c, a)
  <2>1. /\ 3 \in DOMAIN s /\ 4 \in DOMAIN s
        /\ s[3] = Grant("reputationEngine", c.deployer, "caller", <<"jobRegistry", a>>)
        /\ s[4] = Grant("reputationEngine", c.deployer, "caller", <<"validationModule", a>>)
    BY DEF LastLinks
  <2> HIDE DEF s
  <2> QED BY <2>1 DEF Range, s
<1>3. Range(RegistryWiring(c, a)) \subseteq Range(DeployPlan(c, a))
  BY WholePlan
<1>4. Grant("jobRegistry", c.initial, "acknowledger", c.initial) \in Range(Acknowledgement(c, a))
  <2> DEFINE s == Acknowledgement(c, a)
  <2>1. 2 \in DOMAIN s /\ s[2] = Grant("jobRegistry", c.initial, "acknowledger", c.initial)
    BY DEF Acknowledgement
  <2> HIDE DEF s
  <2> QED BY <2>1 DEF Range, s
<1> QED BY <1>1, <1>2, <1>3, <1>4, RegistryPlan

\* Who is deployed, and handed over.
Passed(c) == IF c.tax = "deploy" THEN Created ELSE Created \ {"taxPolicy"}

\* Which transactions create: no contract is created twice.
LEMMA CreatesPlanned ==
  ASSUME NEW c, NEW a
  PROVE  /\ \A t, u \in Range(DeployPlan(c, a)) :
              t.do = "create" /\ u.do = "create" /\ t.to = u.to => t = u
         /\ \A m \in Passed(c) :
              \E t \in Range(DeployPlan(c, a)) : t.do = "create" /\ t.to = m
         /\ \A t \in Range(DeployPlan(c, a)) :
              t.do = "create" /\ t.to = "jobRegistry" =>
                "taxPolicy" \in DOMAIN t.arg /\ t.arg["taxPolicy"] = TaxPolicyAddress(c, a)
<1> DEFINE s == Foundations(c, a)
           u == Dependents(c, a)
           tax == Create("taxPolicy", c.deployer, <<>>)
<1>1. /\ DOMAIN s = 1..6 /\ s[1].to = "stakeManager" /\ s[2].to = "reputationEngine"
      /\ s[3].to = "identityRegistry" /\ s[4].to = "validationModule"
      /\ s[5].to = "disputeModule" /\ s[6].to = "certificateNFT" /\ s[1].do = "create"
  BY DEF Foundations, Create
<1>2. /\ DOMAIN u = 1..2 /\ u[1].to = "feePool" /\ u[2].to = "jobRegistry" /\ u[2].do = "create"
  BY DEF Dependents, Create
<1>3. Range(Creation(c, a)) \subseteq Range(s) \cup Range(u) \cup {tax} /\ tax.to = "taxPolicy"
  <2> DEFINE one == <<tax>>
             w == When(c.tax = "deploy", one)
  <2>1. /\ Creating(s) /\ Creating(u) /\ IsSeq(s) /\ IsSeq(u)
    BY FoundationsBlock, DependentsBlock DEF Creating, Plain
  <2>2. IsSeq(one) /\ Range(one) = {tax} /\ IsSeq(<<>>) /\ Range(<<>>) = {}
    BY OneIsSeq, EmptyIsSeq
  <2>3. IsSeq(w) /\ Range(w) \subseteq {tax}
    BY <2>2 DEF When
  <2>4. Creation(c, a) = (s \o w) \o u
    BY DEF Creation
  <2>5. tax.to = "taxPolicy"
    BY DEF Create
  <2> HIDE DEF s, w, u, tax
  <2>6. IsSeq(s \o w) /\ Range(s \o w) = Range(s) \cup Range(w)
    BY <2>1, <2>3, ConcatIsSeq
  <2>7. Range((s \o w) \o u) = Range(s \o w) \cup Range(u)
    BY <2>1, <2>6, ConcatIsSeq
  <2> QED BY <2>3, <2>4, <2>5, <2>6, <2>7
<1>4. \A t \in Range(DeployPlan(c, a)) : t.do = "create" => t \in Range(Creation(c, a))
  <2>1. NoCreate(RegistryWiring(c, a)) /\ NoCreate(ModuleWiring(c, a))
    BY RegistryPlan, ModulePlan DEF Late
  <2>2. WriteAddresses.do # "create"
    BY DEF WriteAddresses
  <2> QED BY <2>1, <2>2, WholePlan DEF NoCreate
<1>5. Range(s) \subseteq Range(DeployPlan(c, a)) /\ Range(u) \subseteq Range(DeployPlan(c, a))
  BY PlannedBlocks
<1> HIDE DEF s, u, tax
<1>6. \A t \in Range(s) \cup Range(u) \cup {tax} :
        t \in {s[1], s[2], s[3], s[4], s[5], s[6], u[1], u[2], tax}
  <2>1. \A i \in 1..6 : s[i] \in {s[1], s[2], s[3], s[4], s[5], s[6]}
    OBVIOUS
  <2>2. \A i \in 1..2 : u[i] \in {u[1], u[2]}
    OBVIOUS
  <2> QED BY <1>1, <1>2, <2>1, <2>2 DEF Range
<1>7. ASSUME NEW t \in Range(DeployPlan(c, a)), NEW v \in Range(DeployPlan(c, a)),
             t.do = "create", v.do = "create", t.to = v.to
      PROVE  t = v
  <2>1. /\ t \in {s[1], s[2], s[3], s[4], s[5], s[6], u[1], u[2], tax}
        /\ v \in {s[1], s[2], s[3], s[4], s[5], s[6], u[1], u[2], tax}
    BY <1>3, <1>4, <1>6, <1>7
  <2> QED BY <1>1, <1>2, <1>3, <1>7, <2>1
<1>8. /\ \A i \in 1..6 : s[i] \in Range(DeployPlan(c, a)) /\ s[i].do = "create"
      /\ \A i \in 1..2 : u[i] \in Range(DeployPlan(c, a)) /\ u[i].do = "create"
  <2>1. \A t \in Range(s) \cup Range(u) : t.do = "create"
    BY FoundationsBlock, DependentsBlock DEF Creating, s, u
  <2> QED BY <1>1, <1>2, <1>5, <2>1 DEF Range
<1>9. c.tax = "deploy" =>
        \E t \in Range(DeployPlan(c, a)) : t.do = "create" /\ t.to = "taxPolicy"
  BY CreationPlan, WholePlan DEF Creating
<1>10. ASSUME NEW m \in Passed(c)
       PROVE  \E t \in Range(DeployPlan(c, a)) : t.do = "create" /\ t.to = m
  <2>1. CASE m = "taxPolicy"
    BY <1>9, <2>1 DEF Passed
  <2>2. CASE m # "taxPolicy"
    <3>1. m \in {s[1].to, s[2].to, s[3].to, s[4].to, s[5].to, s[6].to, u[1].to, u[2].to}
      BY <1>1, <1>2, <2>2 DEF Passed, Created
    <3> QED BY <1>8, <3>1
  <2> QED BY <2>1, <2>2
<1>11. ASSUME NEW t \in Range(DeployPlan(c, a)), t.do = "create", t.to = "jobRegistry"
       PROVE  "taxPolicy" \in DOMAIN t.arg /\ t.arg["taxPolicy"] = TaxPolicyAddress(c, a)
  <2>1. t = u[2]
    BY <1>2, <1>7, <1>8, <1>11
  <2>2. "taxPolicy" \in DOMAIN u[2].arg /\ u[2].arg["taxPolicy"] = TaxPolicyAddress(c, a)
    BY DEF u, Dependents, Create
  <2> QED BY <2>1, <2>2
<1> QED BY <1>7, <1>10, <1>11

\* Without a treasury none is set.
NoTreasury(s) ==
  \A t \in Range(s) : ~(t.to = "stakeManager" /\ t.do = "set" /\ "treasury" \in DOMAIN t.arg)

LEMMA TreasuryUnplanned ==
  ASSUME NEW c, NEW a, c.treasury = None
  PROVE  NoTreasury(DeployPlan(c, a))
<1>1. NoTreasury(RegistryLinks(c, a))
  <2>1. \A t \in Range(RegistryLinks(c, a)) : t.to = "jobRegistry"
    BY DEF Range, RegistryLinks, SetLinks, Tune
  <2> QED BY <2>1 DEF NoTreasury
<1>2. NoTreasury(Acknowledgement(c, a))
  <2>1. \A t \in Range(Acknowledgement(c, a)) : t.to = "jobRegistry"
    BY DEF Range, Acknowledgement, SetLinks, Grant
  <2> QED BY <2>1 DEF NoTreasury
<1>3. NoTreasury(StakeLinks(c, a))
  <2> DEFINE s == StakeLinks(c, a)
  <2>1. /\ DOMAIN s = 1..3 /\ DOMAIN s[1].arg = {"jobRegistry", "disputeModule"}
        /\ DOMAIN s[2].arg = {"validationModule"} /\ DOMAIN s[3].arg = {"feePool"}
    BY DEF StakeLinks, SetLinks
  <2> HIDE DEF s
  <2>2. \A i \in 1..3 : "treasury" \notin DOMAIN s[i].arg
    BY <2>1
  <2> QED BY <2>1, <2>2 DEF NoTreasury, Range, s
<1>4. \A t \in Range(ModuleLinks(c, a)) :
        t.to \in {"validationModule", "disputeModule", "certificateNFT", "feePool"}
  BY DEF Range, ModuleLinks, SetLinks, Tune
<1>5. \A t \in Range(LastLinks(c, a)) :
        t.to \in {"feePool", "jobRegistry", "reputationEngine", "identityRegistry"}
  BY DEF Range, LastLinks, SetLinks, Tune, Grant
<1>6. NoTreasury(ModuleWiring(c, a))
  BY <1>4, <1>5, ModulePlan DEF NoTreasury
<1>7. NoTreasury(RegistryWiring(c, a))
  <2>1. Grant("taxPolicy", c.deployer, "acknowledger", <<"jobRegistry", a>>).do = "grant"
    BY DEF Grant
  <2> QED BY <1>1, <1>2, <1>3, <2>1, RegistryPlan DEF NoTreasury
<1>8. \A t \in Range(Creation(c, a)) : t.do = "create"
  BY CreationPlan DEF Creating
<1>9. WriteAddresses.do = "write"
  BY DEF WriteAddresses
<1> QED BY <1>6, <1>7, <1>8, <1>9, WholePlan DEF NoTreasury

\* Who acknowledges, and that there is a tax policy then.
LEMMA AcknowledgedPlanned ==
  ASSUME NEW c, NEW a, NEW t \in Range(DeployPlan(c, a)), Acknowledged(t)
  PROVE  c.tax # "none" /\ t.to = "jobRegistry"
<1>1. t \in Range(RegistryWiring(c, a)) \cup Range(ModuleWiring(c, a))
  <2>1. \A u \in Range(Creation(c, a)) : u.do = "create"
    BY CreationPlan DEF Creating
  <2>2. WriteAddresses.do = "write"
    BY DEF WriteAddresses
  <2> QED BY <2>1, <2>2, WholePlan DEF Acknowledged
<1>2. \A u \in Range(Acknowledgement(c, a)) : u.to = "jobRegistry"
  BY DEF Range, Acknowledgement, SetLinks, Grant
<1>3. \A u \in Range(RegistryLinks(c, a)) \cup Range(StakeLinks(c, a))
              \cup Range(ModuleLinks(c, a)) : u.do \in {"set", "tune"}
  BY DEF Range, RegistryLinks, StakeLinks, ModuleLinks, SetLinks, Tune
<1>4. \A u \in Range(LastLinks(c, a)) : ~Acknowledged(u)
  <2> DEFINE s == LastLinks(c, a)
  <2>1. DOMAIN s = 1..5 /\ s[1].do = "tune" /\ s[2].do = "set" /\ s[5].do = "set"
    BY DEF LastLinks, SetLinks, Tune
  <2>2. s[3].arg[1] = "caller"
    BY DEF LastLinks, Grant
  <2>3. s[4].arg[1] = "caller"
    BY DEF LastLinks, Grant
  <2>4. \A i \in 1..5 : i = 1 \/ i = 2 \/ i = 3 \/ i = 4 \/ i = 5
    OBVIOUS
  <2> HIDE DEF s
  <2> QED BY <2>1, <2>2, <2>3, <2>4 DEF Range, Acknowledged, s
<1>5. ~Acknowledged(Grant("taxPolicy", c.deployer, "acknowledger", <<"jobRegistry", a>>))
  BY DEF Grant, Acknowledged
<1>6. t \in Range(Acknowledgement(c, a)) /\ c.tax # "none"
  BY <1>1, <1>3, <1>4, <1>5, RegistryPlan, ModulePlan DEF Acknowledged
<1> QED BY <1>2, <1>6
-----------------------------------------------------------------------------
(* The transactions of a handover and of a transfer. *)

HandoverStep(c, t) ==
  /\ t.to \in Created /\ (t.to = "taxPolicy" => c.tax = "deploy")
  /\ \/ /\ t.do = "set" /\ t.to = "feePool" /\ t.by = c.deployer
        /\ t.arg = [governance |-> c.final]
     \/ /\ t.do = "handOnce" \/ (t.do = "hand" /\ t.to \notin TwoStep)
        /\ t.by = Creator(c, t.to) /\ t.arg = c.final
     \/ t.do = "accept" /\ t.by = c.final /\ c.final = c.deployer /\ t.to \in TwoStep

\* A block of the handover for the contracts ms.
Handing(c, s, ms) ==
  IsSeq(s) /\ InOrder(s) /\ \A t \in Range(s) : HandoverStep(c, t) /\ t.to \in ms

HandsOver(s, m) == \E t \in Range(s) : t.do \in {"hand", "handOnce"} /\ t.to = m

\* The transactions of s leave those of t alone.
Apart(s, t) == \A x \in Range(s), y \in Range(t) : x.to # y.to \/ x.do = "set"

LEMMA HandingConcat ==
  ASSUME NEW c, NEW s, NEW t, NEW ms, Handing(c, s, ms), Handing(c, t, ms), Apart(s, t)
  PROVE  Handing(c, s \o t, ms) /\ Range(s \o t) = Range(s) \cup Range(t)
<1>1. IsSeq(s \o t) /\ Range(s \o t) = Range(s) \cup Range(t)
  BY ConcatIsSeq DEF Handing
<1>2. ASSUME NEW x \in Range(s), NEW y \in Range(t) PROVE ~Clash(x, y)
  <2>1. x.do \in {"set", "hand", "handOnce", "accept"} /\ y.do \in {"set", "hand", "handOnce", "accept"}
    BY DEF Handing, HandoverStep
  <2>2. x.to # y.to \/ x.do = "set"
    BY DEF Apart
  <2> QED BY <2>1, <2>2 DEF Clash
<1>3. InOrder(s \o t)
  BY <1>2, ConcatInOrder DEF Handing
<1> QED BY <1>1, <1>3 DEF Handing

LEMMA HandingOne ==
  ASSUME NEW c, NEW x, HandoverStep(c, x)
  PROVE  Handing(c, <<x>>, {x.to}) /\ Range(<<x>>) = {x}
BY OneIsSeq DEF Handing

LEMMA HandingNone ==
  ASSUME NEW c, NEW ms
  PROVE  Handing(c, <<>>, ms)
BY EmptyIsSeq DEF Handing

LEMMA OfferBlock ==
  ASSUME NEW c, NEW m \in TwoStep, m = "taxPolicy" => c.tax = "deploy"
  PROVE  /\ Handing(c, Offer(c, m), {m})
         /\ HandsOver(Offer(c, m), m)
<1> DEFINE x == HandOnce(m, c.deployer, c.final)
           y == Accept(m, c.final)
           s == <<x>>
           t == When(c.final = c.deployer, <<y>>)
<1>1. m \in Created /\ Creator(c, m) = c.deployer
  BY DEF TwoStep, Created, Creator
<1>2. HandoverStep(c, x) /\ x.to = m /\ x.do = "handOnce"
  BY <1>1 DEF HandoverStep, HandOnce
<1>3. c.final = c.deployer => HandoverStep(c, y)
  BY <1>1 DEF HandoverStep, Accept
<1>4. y.to = m /\ y.do = "accept"
  BY DEF Accept
<1> HIDE DEF x, y
<1>5. Handing(c, s, {m}) /\ Range(s) = {x}
  BY <1>2, HandingOne
<1>6. c.final = c.deployer => Handing(c, <<y>>, {m})
  BY <1>3, <1>4, HandingOne
<1>7. Handing(c, t, {m}) /\ Range(t) \subseteq {y}
  <2>1. CASE c.final = c.deployer
    <3>1. t = <<y>>
      BY <2>1 DEF When
    <3> HIDE DEF t
    <3> QED BY <1>6, <2>1, <3>1, OneIsSeq
  <2>2. CASE c.final # c.deployer
    <3>1. t = <<>>
      BY <2>2 DEF When
    <3> HIDE DEF t
    <3> QED BY <3>1, HandingNone, EmptyIsSeq
  <2> QED BY <2>1, <2>2
<1>8. Offer(c, m) = s \o t
  BY DEF Offer, x, y
<1> HIDE DEF s, t
<1>9. IsSeq(s \o t) /\ Range(s \o t) = Range(s) \cup Range(t)
  BY <1>5, <1>7, ConcatIsSeq DEF Handing
<1>10. ASSUME NEW u \in Range(s), NEW v \in Range(t) PROVE ~Clash(u, v)
  BY <1>2, <1>4, <1>5, <1>7 DEF Clash
<1>11. InOrder(s \o t)
  BY <1>5, <1>7, <1>10, ConcatInOrder DEF Handing
<1> QED BY <1>2, <1>5, <1>7, <1>8, <1>9, <1>11 DEF Handing, HandsOver

LEMMA HandoverPlanned ==
  ASSUME NEW c
  PROVE  LET s == HandoverPlan(c)
         IN  /\ Handing(c, s, Created)
             /\ SetLinks("feePool", c.deployer, [governance |-> c.final]) \in Range(s)
             /\ \A m \in Passed(c) :
                  HandsOver(s, m) \/ (m \in {"stakeManager", "jobRegistry"} /\ c.initial = c.final)
<1> DEFINE g2 == << HandTo("stakeManager", c.initial, c.final),
                    HandTo("jobRegistry", c.initial, c.final) >>
           g == GovernableHandover(c)
           x == SetLinks("feePool", c.deployer, [governance |-> c.final])
           p == PoolGovernance(c)
           o == OwnableHandover(c)
           r == Offer(c, "identityRegistry")
           t == When(c.tax = "deploy", Offer(c, "taxPolicy"))
           os == {"validationModule", "disputeModule", "certificateNFT", "reputationEngine",
                  "feePool"}
<1>1. Handing(c, g2, {"stakeManager", "jobRegistry"})
      /\ HandsOver(g2, "stakeManager") /\ HandsOver(g2, "jobRegistry")
  <2>1. /\ DOMAIN g2 = 1..2 /\ g2[1].to = "stakeManager" /\ g2[2].to = "jobRegistry"
        /\ g2[1].do = "hand" /\ g2[2].do = "hand"
    BY DEF HandTo
  <2>2. HandoverStep(c, g2[1]) /\ HandoverStep(c, g2[2])
    BY DEF HandTo, HandoverStep, Creator, Created, TwoStep
  <2>3. IsSeq(g2)
    BY DEF IsSeq, Range
  <2> HIDE DEF g2
  <2>4. InOrder(g2)
    BY <2>1 DEF InOrder, Clash
  <2>5. \A i \in 1..2 : i = 1 \/ i = 2
    OBVIOUS
  <2>6. \A u \in Range(g2) : HandoverStep(c, u) /\ u.to \in {"stakeManager", "jobRegistry"}
    BY <2>1, <2>2, <2>5 DEF Range
  <2>7. g2[1] \in Range(g2) /\ g2[2] \in Range(g2)
    BY <2>1 DEF Range
  <2> QED BY <2>1, <2>3, <2>4, <2>6, <2>7 DEF Handing, HandsOver
<1>2. g = When(c.initial # c.final, g2)
  BY DEF GovernableHandover
<1> HIDE DEF g2
<1>3. Handing(c, g, {"stakeManager", "jobRegistry"})
      /\ Range(g) = IF c.initial # c.final THEN Range(g2) ELSE {}
  <2>1. CASE c.initial # c.final
    <3>1. g = g2
      BY <1>2, <2>1 DEF When
    <3> HIDE DEF g
    <3> QED BY <1>1, <2>1, <3>1
  <2>2. CASE c.initial = c.final
    <3>1. g = <<>>
      BY <1>2, <2>2 DEF When
    <3> HIDE DEF g
    <3> QED BY <2>2, <3>1, HandingNone, EmptyIsSeq
  <2> QED BY <2>1, <2>2
<1>4. HandoverStep(c, x) /\ x.to = "feePool" /\ x.do = "set"
  BY DEF SetLinks, HandoverStep, Created
<1>5. p = <<x>>
  BY DEF PoolGovernance
<1> HIDE DEF x
<1>6. Handing(c, p, {"feePool"}) /\ Range(p) = {x}
  BY <1>4, <1>5, HandingOne
<1>7. Handing(c, o, os) /\ \A m \in os : HandsOver(o, m)
  <2>1. /\ DOMAIN o = 1..5 /\ \A i \in 1..5 : o[i].do = "handOnce"
        /\ o[1].to = "validationModule" /\ o[2].to = "disputeModule"
        /\ o[3].to = "certificateNFT" /\ o[4].to = "reputationEngine" /\ o[5].to = "feePool"
    BY DEF OwnableHandover, HandOnce
  <2>2. \A i \in 1..5 : HandoverStep(c, o[i])
    BY DEF OwnableHandover, HandOnce, HandoverStep, Creator, Created
  <2>3. IsSeq(o)
    BY DEF IsSeq, Range, OwnableHandover
  <2>4. \A i \in 1..5 : i = 1 \/ i = 2 \/ i = 3 \/ i = 4 \/ i = 5
    OBVIOUS
  <2> HIDE DEF o
  <2>5. InOrder(o)
    BY <2>1, <2>4 DEF InOrder, Clash
  <2>6. \A u \in Range(o) : HandoverStep(c, u) /\ u.to \in os
    BY <2>1, <2>2, <2>4 DEF Range
  <2>7. \A i \in 1..5 : o[i] \in Range(o)
    BY <2>1 DEF Range
  <2> QED BY <2>1, <2>3, <2>5, <2>6, <2>7 DEF Handing, HandsOver
<1>8. Handing(c, r, {"identityRegistry"}) /\ HandsOver(r, "identityRegistry")
  BY OfferBlock DEF TwoStep
<1>9. c.tax = "deploy" =>
        Handing(c, Offer(c, "taxPolicy"), {"taxPolicy"}) /\ HandsOver(Offer(c, "taxPolicy"), "taxPolicy")
  BY OfferBlock DEF TwoStep
<1>10. Handing(c, t, {"taxPolicy"}) /\ (c.tax = "deploy" => HandsOver(t, "taxPolicy"))
  <2>1. CASE c.tax = "deploy"
    <3>1. t = Offer(c, "taxPolicy")
      BY <2>1 DEF When
    <3> HIDE DEF t
    <3> QED BY <1>9, <2>1, <3>1
  <2>2. CASE c.tax # "deploy"
    <3>1. t = <<>>
      BY <2>2 DEF When
    <3> HIDE DEF t
    <3> QED BY <2>2, <3>1, HandingNone
  <2> QED BY <2>1, <2>2
<1>11. HandoverPlan(c) = ((g \o p) \o o) \o (r \o t)
  BY DEF HandoverPlan, TwoStepHandover
<1> HIDE DEF g, p, o, r, t
<1>12. /\ Handing(c, g \o p, {"stakeManager", "jobRegistry", "feePool"})
       /\ Range(g \o p) = Range(g) \cup Range(p)
  <2>1. Apart(g, p)
    BY <1>3, <1>4, <1>6 DEF Apart, Handing
  <2> DEFINE ms == {"stakeManager", "jobRegistry", "feePool"}
  <2>2. Handing(c, g, ms) /\ Handing(c, p, ms)
    BY <1>3, <1>6 DEF Handing
  <2> HIDE DEF ms
  <2>3. Handing(c, g \o p, ms) /\ Range(g \o p) = Range(g) \cup Range(p)
    BY <2>1, <2>2, HandingConcat
  <2> QED BY <2>3 DEF ms
<1>13. /\ IsSeq((g \o p) \o o) /\ Range((g \o p) \o o) = Range(g \o p) \cup Range(o)
  BY <1>7, <1>12, ConcatIsSeq DEF Handing
<1>14. InOrder((g \o p) \o o)
  <2>1. ASSUME NEW u \in Range(g \o p), NEW v \in Range(o) PROVE ~Clash(u, v)
    <3>1. HandoverStep(c, u) /\ HandoverStep(c, v) /\ v.to \in os
      BY <1>7, <1>12 DEF Handing
    <3>2. u.to \in {"stakeManager", "jobRegistry"} \/ u.do = "set"
      BY <1>3, <1>4, <1>6, <1>12 DEF Handing
    <3> QED BY <3>1, <3>2 DEF Clash, HandoverStep
  <2> QED BY <1>7, <1>12, <2>1, ConcatInOrder DEF Handing
<1>15. Handing(c, (g \o p) \o o, Created \ TwoStep)
  BY <1>7, <1>12, <1>13, <1>14 DEF Handing, Created, TwoStep
<1>16. Handing(c, r \o t, TwoStep) /\ Range(r \o t) = Range(r) \cup Range(t)
  <2>1. Handing(c, r, TwoStep) /\ Handing(c, t, TwoStep)
    BY <1>8, <1>10 DEF Handing, TwoStep
  <2>2. Apart(r, t)
    BY <1>8, <1>10 DEF Apart, Handing
  <2> DEFINE ms == TwoStep
  <2>3. Handing(c, r, ms) /\ Handing(c, t, ms)
    BY <2>1
  <2> HIDE DEF ms
  <2>4. Handing(c, r \o t, ms) /\ Range(r \o t) = Range(r) \cup Range(t)
    BY <2>2, <2>3, HandingConcat
  <2> QED BY <2>4 DEF ms
<1>17. /\ Handing(c, ((g \o p) \o o) \o (r \o t), Created)
       /\ Range(((g \o p) \o o) \o (r \o t)) = Range((g \o p) \o o) \cup Range(r \o t)
  <2>1. Apart((g \o p) \o o, r \o t)
    BY <1>15, <1>16 DEF Apart, Handing
  <2> DEFINE us == (g \o p) \o o
             vs == r \o t
             ms == Created
  <2>2. Handing(c, us, ms) /\ Handing(c, vs, ms) /\ Apart(us, vs)
    BY <1>15, <1>16, <2>1 DEF Handing, TwoStep, Created
  <2> HIDE DEF us, vs, ms
  <2>3. Handing(c, us \o vs, ms) /\ Range(us \o vs) = Range(us) \cup Range(vs)
    BY <2>2, HandingConcat
  <2> QED BY <2>3 DEF us, vs, ms
<1>18. Handing(c, HandoverPlan(c), Created)
  BY <1>11, <1>17
<1>19. Range(HandoverPlan(c)) = Range(g) \cup {x} \cup Range(o) \cup Range(r) \cup Range(t)
  BY <1>6, <1>11, <1>12, <1>13, <1>16, <1>17
<1>20. ASSUME NEW m \in Passed(c)
       PROVE  HandsOver(HandoverPlan(c), m)
              \/ (m \in {"stakeManager", "jobRegistry"} /\ c.initial = c.final)
  <2>1. CASE m \in os
    BY <1>7, <1>19, <2>1 DEF HandsOver
  <2>2. CASE m = "identityRegistry"
    BY <1>8, <1>19, <2>2 DEF HandsOver
  <2>3. CASE m = "taxPolicy"
    BY <1>10, <1>19, <2>3 DEF HandsOver, Passed
  <2>4. CASE m \in {"stakeManager", "jobRegistry"}
    BY <1>1, <1>3, <1>19, <2>4 DEF HandsOver
  <2> QED BY <2>1, <2>2, <2>3, <2>4 DEF Passed, Created
<1> QED BY <1>18, <1>19, <1>20 DEF x

\* A module's turn in the transfer.
TransferStep(c, addresses, t) ==
  /\ t.to \in Listed /\ addresses[t.to] # 0
  /\ t = HandOnce(t.to, c.final, c.newOwner) \/ t = Confirm(t.to, c.newOwner)

Transferring(c, addresses, s) ==
  IsSeq(s) /\ \A t \in Range(s) : TransferStep(c, addresses, t)

Insists(c, addresses, s, m) ==
  addresses[m] # 0 => Confirm(m, c.newOwner) \in Range(s)

LEMMA TurnBlock ==
  ASSUME NEW c, NEW addresses, NEW m \in Listed
  PROVE  /\ Transferring(c, addresses, HandAndConfirm(c, addresses, m))
         /\ Insists(c, addresses, HandAndConfirm(c, addresses, m), m)
<1> DEFINE s == HandAndConfirm(c, addresses, m)
           x == HandOnce(m, c.final, c.newOwner)
           y == Confirm(m, c.newOwner)
<1>1. CASE addresses[m] # 0
  <2>1. s = <<x, y>>
    BY <1>1 DEF HandAndConfirm, When
  <2>2. x.to = m /\ y.to = m
    BY DEF HandOnce, Confirm
  <2> HIDE DEF s, x, y
  <2>3. IsSeq(s) /\ Range(s) = {x, y}
    BY <2>1 DEF IsSeq, Range
  <2> QED BY <1>1, <2>2, <2>3 DEF Transferring, TransferStep, Insists, s, x, y
<1>2. CASE addresses[m] = 0
  <2>1. s = <<>>
    BY <1>2 DEF HandAndConfirm, When
  <2> HIDE DEF s
  <2> QED BY <1>2, <2>1, EmptyIsSeq DEF Transferring, Insists, s
<1> QED BY <1>1, <1>2

LEMMA TransferringConcat ==
  ASSUME NEW c, NEW ad, NEW s, NEW t, Transferring(c, ad, s), Transferring(c, ad, t)
  PROVE  Transferring(c, ad, s \o t) /\ Range(s \o t) = Range(s) \cup Range(t)
<1>1. IsSeq(s \o t) /\ Range(s \o t) = Range(s) \cup Range(t)
  BY ConcatIsSeq DEF Transferring
<1> QED BY <1>1 DEF Transferring

LEMMA TransferPlanned ==
  ASSUME NEW c, NEW ad
  PROVE  /\ Transferring(c, ad, TransferPlan(c, ad))
         /\ \A m \in Listed : Insists(c, ad, TransferPlan(c, ad), m)
<1> DEFINE Turn(m) == HandAndConfirm(c, ad, m)
           s1 == Turn("stakeManager")
           s2 == s1 \o Turn("jobRegistry")
           s3 == s2 \o Turn("validationModule")
           s4 == s3 \o Turn("reputationEngine")
           s5 == s4 \o Turn("disputeModule")
           s6 == s5 \o Turn("certificateNFT")
           s7 == s6 \o Turn("taxPolicy")
           s8 == s7 \o Turn("feePool")
<1>1. TransferPlan(c, ad) = s8
  BY DEF TransferPlan
<1>2. \A m \in Listed : Transferring(c, ad, Turn(m)) /\ Insists(c, ad, Turn(m), m)
  BY TurnBlock
<1>3. Listed = {"stakeManager", "jobRegistry", "validationModule", "reputationEngine",
                "disputeModule", "certificateNFT", "taxPolicy", "feePool"}
  BY DEF Listed, Created
<1> HIDE DEF Turn
<1> DEFINE Longer(s, t, m) ==
             Transferring(c, ad, t) /\ Range(t) = Range(s) \cup Range(Turn(m))
<1>0. ASSUME NEW m \in Listed, NEW s, Transferring(c, ad, s)
      PROVE  Longer(s, s \o Turn(m), m)
  <2> DEFINE t == Turn(m)
  <2>1. Transferring(c, ad, t)
    BY <1>2
  <2> HIDE DEF t
  <2>2. Transferring(c, ad, s \o t) /\ Range(s \o t) = Range(s) \cup Range(t)
    BY <1>0, <2>1, TransferringConcat
  <2> QED BY <2>2 DEF t
<1>4. Transferring(c, ad, s1)
  BY <1>2, <1>3
<1> HIDE DEF s1, Longer
<1>5. Longer(s1, s2, "jobRegistry") /\ Transferring(c, ad, s2)
  BY <1>0, <1>3, <1>4 DEF Longer
<1> HIDE DEF s2
<1>6. Longer(s2, s3, "validationModule") /\ Transferring(c, ad, s3)
  BY <1>0, <1>3, <1>5 DEF Longer
<1> HIDE DEF s3
<1>7. Longer(s3, s4, "reputationEngine") /\ Transferring(c, ad, s4)
  BY <1>0, <1>3, <1>6 DEF Longer
<1> HIDE DEF s4
<1>8. Longer(s4, s5, "disputeModule") /\ Transferring(c, ad, s5)
  BY <1>0, <1>3, <1>7 DEF Longer
<1> HIDE DEF s5
<1>9. Longer(s5, s6, "certificateNFT") /\ Transferring(c, ad, s6)
  BY <1>0, <1>3, <1>8 DEF Longer
<1> HIDE DEF s6
<1>10. Longer(s6, s7, "taxPolicy") /\ Transferring(c, ad, s7)
  BY <1>0, <1>3, <1>9 DEF Longer
<1> HIDE DEF s7
<1>11. Longer(s7, s8, "feePool") /\ Transferring(c, ad, s8)
  BY <1>0, <1>3, <1>10 DEF Longer
<1> HIDE DEF s8
<1>12. Range(s1) = Range(Turn("stakeManager"))
  BY DEF s1
<1>13. ASSUME NEW m \in Listed PROVE Range(Turn(m)) \subseteq Range(s8)
  BY <1>3, <1>5, <1>6, <1>7, <1>8, <1>9, <1>10, <1>11, <1>12 DEF Longer
<1>14. \A m \in Listed : Insists(c, ad, s8, m)
  BY <1>2, <1>13 DEF Insists
<1> QED BY <1>1, <1>11, <1>14
-----------------------------------------------------------------------------
(* The invariant. *)

PlanOf(sc, c, a, addresses) ==
  CASE sc = "deploy" -> DeployPlan(c, a)
    [] sc = "handover" -> HandoverPlan(c)
    [] sc = "transfer" -> TransferPlan(c, addresses)
    [] OTHER -> <<>>

StepOf(sc, c, a, addresses, t) ==
  /\ sc = "deploy" => DeployStep(c, a, t)
  /\ sc = "handover" => HandoverStep(c, t)
  /\ sc = "transfer" => TransferStep(c, addresses, t)

Scripts == {"none", "deploy", "handover", "transfer"}

LEMMA PlanFacts ==
  ASSUME NEW sc \in Scripts, NEW c, NEW a, NEW ad
  PROVE  LET s == PlanOf(sc, c, a, ad)
         IN  /\ IsSeq(s) /\ (sc # "transfer" => InOrder(s))
             /\ \A t \in Range(s) : StepOf(sc, c, a, ad, t)
             /\ sc = "none" => s = <<>> /\ Range(s) = {}
<1>1. CASE sc = "none"
  <2>1. PlanOf(sc, c, a, ad) = <<>>
    BY <1>1 DEF PlanOf
  <2> QED BY <1>1, <2>1, EmptyIsSeq
<1>2. CASE sc = "deploy"
  <2>1. PlanOf(sc, c, a, ad) = DeployPlan(c, a)
    BY <1>2 DEF PlanOf
  <2> QED BY <1>2, <2>1, WholePlan DEF Plain, AllSteps, StepOf
<1>3. CASE sc = "handover"
  <2>1. PlanOf(sc, c, a, ad) = HandoverPlan(c)
    BY <1>3 DEF PlanOf
  <2> QED BY <1>3, <2>1, HandoverPlanned DEF Handing, StepOf
<1>4. CASE sc = "transfer"
  <2>1. PlanOf(sc, c, a, ad) = TransferPlan(c, ad)
    BY <1>4 DEF PlanOf
  <2> QED BY <1>4, <2>1, TransferPlanned DEF Transferring, StepOf
<1> QED BY <1>1, <1>2, <1>3, <1>4 DEF Scripts

Fields == {"owner", "pending", "link", "grant"}

\* A contract belongs to who created it until it is handed on, and refers to
\* its own deployment only.
Sound(m, a, c) ==
  /\ DOMAIN c = Fields
  /\ c.pending \in {None, conf.final, conf.newOwner}
  /\ c.owner \in {None, Creator(conf, m), conf.final, conf.newOwner}
  /\ a > attempt => c = Absent
  /\ m \notin TwoStep => c.pending = None
  /\ script = "deploy" /\ a = attempt => c.pending = None /\ c.owner \in {None, Creator(conf, m)}
  /\ \A g \in DOMAIN c.link : g \in Created \ {"taxPolicy"} => c.link[g] = <<g, a>>

Contracts ==
  /\ DOMAIN chain = Created
  /\ \A m \in Created : DOMAIN chain[m] = 1..MaxAttempts
  /\ \A m \in Created, a \in 1..MaxAttempts : Sound(m, a, chain[m][a])

\* What a transaction leaves on the contract it is sent to.
InCharge(m, c) == Taken(c) \/ (m \in TwoStep /\ Offered(c))

Left(t, c) ==
  /\ t.do \in {"create", "set"} =>
       \A g \in DOMAIN t.arg : g \in DOMAIN c.link /\ c.link[g] = t.arg[g]
  /\ t.do = "create" => c.owner # None
  /\ t.do = "grant" => t.arg \in c.grant
  /\ t.do \in {"hand", "handOnce"} => InCharge(t.to, c)

Plan == PlanOf(script, conf, attempt, modules)
Place(t) == IF script = "transfer" THEN modules[t.to] ELSE attempt
Done(t) == Left(t, chain[t.to][Place(t)])

\* Each transaction of the running script is still to be sent or done.
Progress == \A t \in Range(Plan) : t \in Range(todo) \/ Done(t)

CreatesFirst ==
  \A t \in Range(todo) : t.do = "create" =>
    \A u \in Range(Plan) : u.do # "create" => u \in Range(todo)

Follows ==
  /\ todo \in Seq(Range(Plan))
  /\ script # "transfer" => InOrder(todo)
  /\ CreatesFirst
  /\ Progress

\* A completed deployment is wired, and only such a one is handed on.
Stages ==
  /\ script = "deploy" => stage = 2 /\ attempt > 0
  /\ stage > 2 => /\ attempt > 0 /\ Wired(attempt)
                  /\ \A m \in Passed(conf) : chain[m][attempt].owner # None

Entrusted ==
  \A a \in 1..MaxAttempts :
    LET c == chain["identityRegistry"][a]
    IN  c.pending # None \/ c.owner \notin {None, conf.deployer} => Wired(a)

Inv ==
  /\ TypeOK /\ DOMAIN outcome = {"migrate", "transfer"}
  /\ Contracts /\ Follows /\ Stages /\ Entrusted /\ HandedOver

\* Nothing in the way of a first run of the migrations.
Smooth == Deployable /\ kills = 0

\* The account a handover uses is in charge of what it has still to hand over,
\* and has nothing to accept.
Ready(t) ==
  LET c == chain[t.to][attempt]
  IN  /\ c.pending = None
      /\ c.owner = IF t.do = "accept" THEN t.by ELSE Creator(conf, t.to)

SmoothInv ==
  /\ RefusedOnlyForConfig
  /\ Smooth => /\ Idle \/ script = "transfer" => stage # 3
               /\ script = "handover" => \A t \in Range(todo) : Ready(t)

\* The new owner keeps what was confirmed to be his.
Kept ==
  /\ \A a \in 1..MaxAttempts :
       LET c == chain["taxPolicy"][a]
       IN  c.owner = conf.newOwner => c.pending \in {None, conf.newOwner}
  /\ script = "transfer" =>
       \A t \in Range(Plan) : t.do = "confirm" =>
         t \in Range(todo) \/ chain[t.to][modules[t.to]].owner = t.arg
-----------------------------------------------------------------------------
(* The steps of the invariant. *)

LEMMA InvInit == Init => Inv
<1> SUFFICES ASSUME Init PROVE Inv
  OBVIOUS
<1> USE RolloutAssumption
<1>1. /\ conf \in Setups /\ chain = Fresh /\ attempt = 0 /\ file = 0
      /\ modules = [m \in Created |-> 0] /\ stage = 2 /\ script = "none" /\ todo = <<>>
      /\ outcome = [migrate |-> "none", transfer |-> "none"] /\ kills = 0
  BY DEF Init
<1>2. \A m \in Created, a \in 1..MaxAttempts : chain[m][a] = Absent
  BY <1>1 DEF Fresh
<1>3. DOMAIN Absent = Fields /\ Absent.owner = None /\ Absent.pending = None
      /\ DOMAIN Absent.link = {} /\ Absent.link = <<>>
  BY DEF Absent, Fields
<1>4. DOMAIN chain = Created /\ \A m \in Created : DOMAIN chain[m] = 1..MaxAttempts
  BY <1>1 DEF Fresh
<1>5. Contracts
  BY <1>1, <1>2, <1>3, <1>4 DEF Contracts, Sound
<1>6. TypeOK
  BY <1>1, <1>2, <1>3 DEF TypeOK, Accounts, Idle
<1>7. Follows
  <2>1. Plan = <<>> /\ Range(Plan) = {}
    BY <1>1, PlanFacts DEF Plan, Scripts
  <2>2. todo = <<>> /\ todo \in Seq(Range(Plan)) /\ Range(todo) = {}
    BY <1>1, EmptyIsSeq DEF IsSeq
  <2> QED BY <2>1, <2>2, EmptyIsSeq DEF Follows, CreatesFirst, Progress
<1>8. Entrusted
  <2>1. "identityRegistry" \in Created
    BY DEF Created
  <2> QED BY <1>2, <1>3, <2>1 DEF Entrusted
<1> QED BY <1>1, <1>5, <1>6, <1>7, <1>8 DEF Inv, Stages, HandedOver

\* A script that starts, or stops, has all its transactions before it.
LEMMA FollowsStart ==
  ASSUME script' \in Scripts, todo' = Plan'
  PROVE  Follows'
<1>1. /\ IsSeq(Plan') /\ (script' # "transfer" => InOrder(Plan'))
  BY PlanFacts DEF Plan
<1>2. todo' \in Seq(Range(Plan'))
  BY <1>1 DEF IsSeq
<1> QED BY <1>1, <1>2 DEF Follows, CreatesFirst, Progress

LEMMA Stopped ==
  ASSUME script' = "none", todo' = <<>>
  PROVE  Follows'
<1>1. Plan' = <<>>
  BY PlanFacts DEF Plan, Scripts
<1> QED BY <1>1, FollowsStart DEF Scripts

\* Nothing happens to the contracts.
LEMMA Quiet ==
  ASSUME Inv, UNCHANGED <<conf, chain>>,
         \/ attempt' = attempt /\ (script' = "deploy" => script = "deploy")
         \/ attempt' = attempt + 1
  PROVE  Contracts' /\ Entrusted'
<1> USE RolloutAssumption
<1>1. attempt \in Nat /\ MaxAttempts \in Nat
  BY DEF Inv, TypeOK
<1>2. Entrusted'
  BY DEF Inv, Entrusted, Wired
<1>3. ASSUME NEW m \in Created, NEW a \in 1..MaxAttempts
      PROVE  Sound(m, a, chain[m][a])'
  <2> DEFINE c == chain[m][a]
  <2>1. Sound(m, a, c)
    BY DEF Inv, Contracts
  <2>2. a > attempt => c.pending = None /\ c.owner = None
    BY <2>1 DEF Sound, Absent
  <2>3. /\ a > attempt' => a > attempt
        /\ (script' = "deploy" /\ a = attempt') =>
             a > attempt \/ (script = "deploy" /\ a = attempt)
    BY <1>1
  <2> QED BY <2>1, <2>2, <2>3 DEF Sound
<1> QED BY <1>2, <1>3 DEF Inv, Contracts

LEMMA ContractTypes ==
  ASSUME Contracts', conf' \in Setups
  PROVE  \A m \in Created, a \in 1..MaxAttempts :
           LET c == chain'[m][a]
           IN  /\ c.owner \in Accounts' \union {None}
               /\ c.pending \in Accounts' \union {None}
               /\ a > attempt' => c = Absent
               /\ m \notin TwoStep => c.pending = None
BY DEF Contracts, Sound, Accounts, Creator

LEMMA DeployStarts ==
  ASSUME Inv, StartDeploy, stage < 4,
         outcome' = [outcome EXCEPT !.migrate = "none"],
         UNCHANGED <<conf, chain, file, modules, kills>>
  PROVE  Inv'
<1> USE RolloutAssumption
<1>1. /\ attempt' = attempt + 1 /\ attempt' \in 0..MaxAttempts /\ file' \in 0..attempt'
      /\ attempt' > 0 /\ script' = "deploy" /\ todo' = DeployPlan(conf, attempt') /\ stage' = 2
  BY DEF Inv, TypeOK, StartDeploy
<1>2. Contracts' /\ Entrusted'
  BY <1>1, Quiet
<1>3. Follows'
  <2>1. Plan' = DeployPlan(conf', attempt')
    BY <1>1 DEF Plan, PlanOf
  <2> QED BY <1>1, <2>1, FollowsStart DEF Scripts
<1>4. DOMAIN outcome' = {"migrate", "transfer"} /\ outcome'.migrate = "none"
      /\ outcome'.transfer = outcome.transfer
  BY DEF Inv
<1>5. TypeOK'
  <2>1. conf' \in Setups
    BY DEF Inv, TypeOK
  <2>2. \A m \in Created, a \in 1..MaxAttempts :
          LET c == chain'[m][a]
          IN  /\ c.owner \in Accounts' \union {None}
              /\ c.pending \in Accounts' \union {None}
              /\ a > attempt' => c = Absent
              /\ m \notin TwoStep => c.pending = None
    BY <1>2, <2>1, ContractTypes
  <2> QED BY <1>1, <1>4, <2>1, <2>2 DEF Inv, TypeOK, Idle
<1>6. Stages' /\ HandedOver'
  BY <1>1 DEF Stages, HandedOver
<1> QED BY <1>2, <1>3, <1>4, <1>5, <1>6 DEF Inv

LEMMA MigrateInv == Inv /\ Migrate => Inv'
<1> SUFFICES ASSUME Inv, Migrate PROVE Inv'
  OBVIOUS
<1> USE RolloutAssumption
<1>1. /\ script = "none" /\ UNCHANGED <<conf, chain, file, modules, kills>>
      /\ outcome' = [outcome EXCEPT !.migrate = "none"]
  BY DEF Migrate, Idle
<1>2. CASE stage = 2 /\ StartDeploy
  BY <1>1, <1>2, DeployStarts
<1>3. CASE /\ stage = 3 /\ script' = "handover" /\ todo' = HandoverPlan(conf)
           /\ UNCHANGED <<attempt, stage>>
  <2>1. Contracts' /\ Entrusted'
    BY <1>1, <1>3, Quiet
  <2>2. Follows'
    <3>1. Plan' = HandoverPlan(conf')
      BY <1>3 DEF Plan, PlanOf
    <3> QED BY <1>1, <1>3, <3>1, FollowsStart DEF Scripts
  <2>3. DOMAIN outcome' = {"migrate", "transfer"} /\ outcome'.migrate = "none"
        /\ outcome'.transfer = outcome.transfer
    BY <1>1 DEF Inv
  <2>4. TypeOK'
    BY <1>1, <1>3, <2>3 DEF Inv, TypeOK, Idle, Accounts
  <2>5. Stages'
    BY <1>1, <1>3 DEF Inv, Stages, Wired, Passed
  <2> QED BY <1>1, <1>3, <2>1, <2>2, <2>3, <2>4, <2>5 DEF Inv, HandedOver
<1>4. \/ stage = 2 /\ StartDeploy
      \/ /\ stage = 3 /\ script' = "handover" /\ todo' = HandoverPlan(conf)
         /\ UNCHANGED <<attempt, stage>>
  BY DEF Migrate
<1> QED BY <1>2, <1>3, <1>4

LEMMA MigrateResetInv == Inv /\ MigrateReset => Inv'
BY DeployStarts DEF MigrateReset

\* A script that ends, or goes on as it is, with the contracts as they are.
LEMMA Same ==
  ASSUME Inv, UNCHANGED <<conf, chain, attempt, stage>>,
         script' = "deploy" => script = "deploy"
  PROVE  Contracts' /\ Entrusted' /\ Stages' /\ HandedOver'
<1>1. Contracts' /\ Entrusted'
  BY Quiet
<1>2. Stages' /\ HandedOver'
  BY DEF Inv, Stages, HandedOver, Wired, Passed, Taken, Offered
<1> QED BY <1>1, <1>2

LEMMA TransferOwnershipInv == Inv /\ TransferOwnership => Inv'
<1> SUFFICES ASSUME Inv, TransferOwnership PROVE Inv'
  OBVIOUS
<1>1. /\ script = "none" /\ script' = "transfer" /\ todo' = TransferPlan(conf, modules)
      /\ outcome' = [outcome EXCEPT !.transfer = "none"]
      /\ UNCHANGED <<conf, chain, attempt, file, modules, stage, kills>>
  BY DEF TransferOwnership, Idle
<1>2. Contracts' /\ Entrusted' /\ Stages' /\ HandedOver'
  BY <1>1, Same
<1>3. Follows'
  <2>1. Plan' = TransferPlan(conf', modules')
    BY <1>1 DEF Plan, PlanOf
  <2> QED BY <1>1, <2>1, FollowsStart DEF Scripts
<1>4. DOMAIN outcome' = {"migrate", "transfer"} /\ outcome'.transfer = "none"
      /\ outcome'.migrate = outcome.migrate
  BY <1>1 DEF Inv
<1>5. TypeOK'
  BY <1>1, <1>4 DEF Inv, TypeOK, Idle, Accounts
<1> QED BY <1>2, <1>3, <1>4, <1>5 DEF Inv

LEMMA CopyAddressesInv == Inv /\ CopyAddresses => Inv'
<1> SUFFICES ASSUME Inv, CopyAddresses PROVE Inv'
  OBVIOUS
<1>1. /\ script = "none" /\ file # 0
      /\ UNCHANGED <<conf, chain, attempt, file, stage, script, todo, outcome, kills>>
  BY DEF CopyAddresses, Idle
<1>2. PICK some \in Copies :
        modules' = [m \in Created |->
          IF m \in some /\ (m = "taxPolicy" => conf.tax = "deploy") THEN file ELSE modules[m]]
  BY DEF CopyAddresses
<1>3. file \in 0..file /\ modules \in [Created -> 0..file]
  BY RolloutAssumption DEF Inv, TypeOK
<1>4. modules' \in [Created -> 0..file]
  BY <1>2, <1>3
<1>5. Contracts' /\ Entrusted' /\ Stages' /\ HandedOver'
  BY <1>1, Same
<1>6. Follows'
  BY <1>1, Stopped DEF Inv, TypeOK, Idle
<1>7. TypeOK'
  BY <1>1, <1>4 DEF Inv, TypeOK, Idle, Accounts
<1> QED BY <1>1, <1>5, <1>6, <1>7 DEF Inv

LEMMA EndedInv ==
  ASSUME Inv, NEW how, Ended(how), UNCHANGED <<conf, chain, attempt, file, modules, stage>>,
         kills' \in 0..MaxKills,
         IF script = "transfer" THEN how \in {"none", "refused", "unconfirmed", "transferred"}
                                ELSE how \in {"none", "refused"}
  PROVE  Inv'
<1>1. Contracts' /\ Entrusted' /\ Stages' /\ HandedOver'
  BY Same DEF Ended
<1>2. Follows'
  BY Stopped DEF Ended
<1>3. DOMAIN outcome' = {"migrate", "transfer"}
      /\ outcome'.migrate \in {"none", "refused", "migrated"}
      /\ outcome'.transfer \in {"none", "refused", "unconfirmed", "transferred"}
  BY DEF Inv, TypeOK, Ended
<1>4. TypeOK'
  BY <1>3 DEF Inv, TypeOK, Idle, Accounts, Ended
<1> QED BY <1>1, <1>2, <1>3, <1>4 DEF Inv

LEMMA KillInv == Inv /\ Kill => Inv'
<1> SUFFICES ASSUME Inv, Kill PROVE Inv'
  OBVIOUS
<1>1. kills' \in 0..MaxKills
  BY RolloutAssumption DEF Inv, TypeOK, Kill
<1> QED BY <1>1, EndedInv DEF Kill
\* The transaction whose turn it is.
LEMMA StepFacts ==
  ASSUME Inv, todo # <<>>
  PROVE  /\ script \in {"deploy", "handover", "transfer"}
         /\ Step \in Range(Plan) /\ Step \in Range(todo)
         /\ StepOf(script, conf, attempt, modules, Step)
         /\ Tail(todo) \in Seq(Range(Plan)) /\ Range(todo) = {Step} \cup Range(Tail(todo))
         /\ script # "transfer" => /\ InOrder(Tail(todo))
                                   /\ \A y \in Range(Tail(todo)) : ~Clash(Step, y)
         /\ \A t \in Range(todo) : t \in Range(Plan)
         /\ Instance = Place(Step)
         /\ Step.do # "write" =>
              Step.to \in Created /\ Instance \in 1..MaxAttempts /\ Instance \in 1..attempt
<1> USE RolloutAssumption
<1>1. script \in {"deploy", "handover", "transfer"}
  BY DEF Inv, TypeOK, Idle
<1>2. todo \in Seq(Range(Plan)) /\ (script # "transfer" => InOrder(todo))
  BY DEF Inv, Follows
<1>3. /\ Step \in Range(todo)
      /\ Tail(todo) \in Seq(Range(Plan)) /\ Range(todo) = {Step} \cup Range(Tail(todo))
      /\ script # "transfer" => /\ InOrder(Tail(todo))
                                /\ \A y \in Range(Tail(todo)) : ~Clash(Step, y)
  <2> DEFINE S == Range(Plan)
             s == todo
  <2>1. s \in Seq(S) /\ s # <<>>
    BY <1>2
  <2> HIDE DEF S, s
  <2>2. /\ Head(s) \in Range(s) /\ Tail(s) \in Seq(S)
        /\ Range(s) = {Head(s)} \cup Range(Tail(s))
        /\ InOrder(s) => /\ InOrder(Tail(s))
                         /\ \A y \in Range(Tail(s)) : ~Clash(Head(s), y)
    BY <2>1, TailFacts
  <2> QED BY <1>2, <2>2 DEF S, s, Step
<1>4. \A t \in Range(todo) : t \in Range(Plan)
  <2>1. \A i \in DOMAIN todo : todo[i] \in Range(Plan)
    BY <1>2, LenProperties, ElementOfSeq
  <2> QED BY <2>1 DEF Range
<1>5. StepOf(script, conf, attempt, modules, Step)
  BY <1>1, <1>3, <1>4, PlanFacts DEF Plan, Scripts
<1>6. ASSUME Step.do # "write" PROVE Step.to \in Created
  BY <1>1, <1>5, <1>6 DEF StepOf, DeployStep, HandoverStep, TransferStep, Listed
<1>7. Instance = Place(Step)
  BY DEF Instance, Place
<1>8. ASSUME Step.do # "write" PROVE Instance \in 1..attempt /\ Instance \in 1..MaxAttempts
  <2>1. attempt \in 0..MaxAttempts /\ file \in 0..attempt /\ modules \in [Created -> 0..file]
    BY DEF Inv, TypeOK
  <2>2. CASE script = "transfer"
    <3>1. Step.to \in Created /\ modules[Step.to] # 0
      BY <1>5, <2>2 DEF StepOf, TransferStep, Listed
    <3>2. modules[Step.to] \in 0..file
      BY <2>1, <3>1
    <3> QED BY <2>1, <2>2, <3>1, <3>2 DEF Instance
  <2>3. CASE script # "transfer"
    <3>1. script = "handover" => stage = 3
      BY DEF Inv, TypeOK
    <3>2. attempt > 0
      BY <1>1, <2>3, <3>1 DEF Inv, Stages
    <3> QED BY <2>1, <2>3, <3>2 DEF Instance
  <2> QED BY <2>2, <2>3
<1> QED BY <1>1, <1>3, <1>4, <1>5, <1>6, <1>7, <1>8

\* A transaction is done, the others stay to be sent or as done as they were.
LEMMA FollowsTail ==
  ASSUME Inv, todo # <<>>, todo' = Tail(todo), UNCHANGED <<conf, script, attempt, modules>>,
         NEW x, x = Step, Done(x)',
         \A t \in Range(Plan) : t \notin Range(todo) /\ Done(t) => Done(t)'
  PROVE  Follows'
<1>1. Plan' = Plan
  BY DEF Plan
<1>2. todo' \in Seq(Range(Plan')) /\ (script' # "transfer" => InOrder(todo'))
  BY <1>1, StepFacts
<1>3. CreatesFirst'
  <2> SUFFICES ASSUME NEW t \in Range(Tail(todo)), t.do = "create",
                      NEW u \in Range(Plan), u.do # "create"
               PROVE  u \in Range(Tail(todo))
    BY <1>1 DEF CreatesFirst
  <2>1. t \in Range(todo)
    BY StepFacts
  <2>2. u \in Range(todo)
    BY <2>1 DEF Inv, Follows, CreatesFirst
  <2>3. Step.do = "create"
    <3>1. CASE script = "transfer"
      <4>1. t \in Range(Plan)
        BY <2>1, StepFacts
      <4>2. TransferStep(conf, modules, t)
        BY <3>1, <4>1, PlanFacts DEF Plan, Scripts, StepOf
      <4> QED BY <4>2 DEF TransferStep, HandOnce, Confirm
    <3>2. CASE script # "transfer"
      BY <3>2, StepFacts DEF Clash
    <3> QED BY <3>1, <3>2
  <2> QED BY <2>2, <2>3, StepFacts
<1>4. Progress'
  <2> SUFFICES ASSUME NEW t \in Range(Plan), t \notin Range(Tail(todo))
               PROVE  Done(t)'
    BY <1>1 DEF Progress
  <2>1. CASE t = x
    BY <2>1
  <2>2. CASE t # x
    BY <2>2, StepFacts DEF Inv, Follows, Progress
  <2> QED BY <2>1, <2>2
<1> QED BY <1>2, <1>3, <1>4 DEF Follows
LEMMA AdvanceInv == Inv /\ Advance => Inv'
<1> SUFFICES ASSUME Inv, Advance PROVE Inv'
  OBVIOUS
<1>1. /\ todo # <<>> /\ Skips /\ todo' = Tail(todo)
      /\ file' = IF Step.do = "write" THEN attempt ELSE file
      /\ UNCHANGED <<conf, chain, attempt, modules, stage, script, outcome, kills>>
  BY DEF Advance, Running
<1>2. Contracts' /\ Entrusted' /\ Stages' /\ HandedOver'
  BY <1>1, Same
<1>3. ASSUME NEW x, x = Step PROVE Done(x)'
  <2>1. Done(x)' <=> Left(x, Target)
    BY <1>1, <1>3 DEF Done, Place, Left, InCharge, Taken, Offered, Target, Instance
  <2>2. /\ x.do \in {"write", "accept", "confirm"} \/ (x.do = "handOnce" /\ Target.owner = x.arg)
    BY <1>1, <1>3 DEF Skips
  <2>3. x.do = "handOnce" => x.arg \in {conf.final, conf.newOwner}
    <3>1. StepOf(script, conf, attempt, modules, x) /\ script \in {"deploy", "handover", "transfer"}
      BY <1>1, <1>3, StepFacts
    <3>2. script = "transfer" => x.do # "handOnce" \/ x.arg = conf.newOwner
      BY <3>1 DEF StepOf, TransferStep, HandOnce, Confirm
    <3> QED BY <3>1, <3>2 DEF StepOf, DeployStep, HandoverStep
  <2> QED BY <2>1, <2>2, <2>3 DEF Left, InCharge, Taken, Offered
<1>4. \A t \in Range(Plan) : Done(t) => Done(t)'
  BY <1>1 DEF Done, Place, Left, InCharge, Taken, Offered
<1>5. Follows'
  <2>1. PICK x : x = Step
    OBVIOUS
  <2> QED BY <1>1, <1>3, <1>4, <2>1, FollowsTail
<1>6. file' \in 0..attempt /\ modules \in [Created -> 0..file']
  BY <1>1, RolloutAssumption DEF Inv, TypeOK
<1>7. TypeOK'
  BY <1>1, <1>6, StepFacts DEF Inv, TypeOK, Idle, Accounts
<1> QED BY <1>1, <1>2, <1>5, <1>7 DEF Inv

LEMMA NotConfirmedInv == Inv /\ NotConfirmed => Inv'
<1> SUFFICES ASSUME Inv, NotConfirmed PROVE Inv'
  OBVIOUS
<1>1. /\ todo # <<>> /\ Step.do = "confirm" /\ Ended("unconfirmed")
      /\ UNCHANGED <<conf, chain, attempt, file, modules, stage, kills>>
  BY DEF NotConfirmed, Running
<1>2. script = "transfer"
  BY <1>1, StepFacts DEF StepOf, DeployStep, HandoverStep
<1>3. kills' \in 0..MaxKills
  BY <1>1 DEF Inv, TypeOK
<1> QED BY <1>1, <1>2, <1>3, EndedInv

\* All that a completed deployment sent has left its mark.
LEMMA DeployedWired ==
  ASSUME Inv, script = "deploy", todo = <<>>
  PROVE  /\ Wired(attempt)
         /\ \A m \in Passed(conf) : chain[m][attempt].owner # None
<1>1. Plan = DeployPlan(conf, attempt)
  BY DEF Plan, PlanOf
<1>2. Range(todo) = {}
  BY EmptyIsSeq
<1>3. \A t \in Range(DeployPlan(conf, attempt)) : Left(t, chain[t.to][attempt])
  BY <1>1, <1>2 DEF Inv, Follows, Progress, Done, Place
<1>4. attempt \in 1..MaxAttempts
  BY RolloutAssumption DEF Inv, TypeOK, Stages
<1>5. ASSUME NEW m \in Created, NEW g \in Needs(m)
      PROVE  g \in DOMAIN chain[m][attempt].link /\ chain[m][attempt].link[g] = <<g, attempt>>
  <2>1. Sets(conf, attempt, m, g)
    BY NeedsPlanned
  <2>2. PICK t \in Range(DeployPlan(conf, attempt)) :
          t.do \in {"create", "set"} /\ t.to = m /\ g \in DOMAIN t.arg
    BY <2>1 DEF Sets
  <2>3. g \in DOMAIN chain[m][attempt].link
    BY <1>3, <2>2 DEF Left
  <2>4. g \in Created \ {"taxPolicy"}
    BY DEF Needs, Created
  <2> QED BY <1>4, <2>3, <2>4 DEF Inv, Contracts, Sound
<1>6. ASSUME NEW m \in {"jobRegistry", "validationModule"}
      PROVE  <<"caller", <<m, attempt>> >> \in chain["reputationEngine"][attempt].grant
  <2> DEFINE t == Grant("reputationEngine", conf.deployer, "caller", <<m, attempt>>)
  <2>1. t \in Range(DeployPlan(conf, attempt))
    BY GrantsPlanned
  <2>2. t.to = "reputationEngine" /\ t.do = "grant" /\ t.arg = <<"caller", <<m, attempt>> >>
    BY DEF Grant
  <2> HIDE DEF t
  <2> QED BY <1>3, <2>1, <2>2 DEF Left
<1>7. ASSUME conf.tax = "deploy"
      PROVE  <<"acknowledger", <<"jobRegistry", attempt>> >> \in chain["taxPolicy"][attempt].grant
  <2> DEFINE t == Grant("taxPolicy", conf.deployer, "acknowledger", <<"jobRegistry", attempt>>)
  <2>1. t \in Range(DeployPlan(conf, attempt))
    BY <1>7, GrantsPlanned
  <2>2. /\ t.to = "taxPolicy" /\ t.do = "grant"
        /\ t.arg = <<"acknowledger", <<"jobRegistry", attempt>> >>
    BY DEF Grant
  <2> HIDE DEF t
  <2> QED BY <1>3, <2>1, <2>2 DEF Left
<1>8. ASSUME NEW m \in Passed(conf) PROVE chain[m][attempt].owner # None
  <2>1. PICK t \in Range(DeployPlan(conf, attempt)) : t.do = "create" /\ t.to = m
    BY CreatesPlanned
  <2> QED BY <1>3, <2>1 DEF Left
<1> QED BY <1>5, <1>6, <1>7, <1>8 DEF Wired
LEMMA HandoverDone ==
  ASSUME Inv, script = "handover", todo = <<>>
  PROVE  /\ chain["feePool"][attempt].link["governance"] = conf.final
         /\ \A m \in Passed(conf) : InCharge(m, chain[m][attempt])
<1>1. Plan = HandoverPlan(conf)
  BY DEF Plan, PlanOf
<1>2. Range(todo) = {}
  BY EmptyIsSeq
<1>3. \A t \in Range(HandoverPlan(conf)) : Left(t, chain[t.to][attempt])
  BY <1>1, <1>2 DEF Inv, Follows, Progress, Done, Place
<1>4. stage = 3 /\ attempt \in 1..MaxAttempts
  BY RolloutAssumption DEF Inv, TypeOK, Stages
<1>5. chain["feePool"][attempt].link["governance"] = conf.final
  <2> DEFINE t == SetLinks("feePool", conf.deployer, [governance |-> conf.final])
  <2>1. t \in Range(HandoverPlan(conf))
    BY HandoverPlanned
  <2>2. /\ t.to = "feePool" /\ t.do = "set" /\ "governance" \in DOMAIN t.arg
        /\ t.arg["governance"] = conf.final
    BY DEF SetLinks
  <2> HIDE DEF t
  <2> QED BY <1>3, <2>1, <2>2 DEF Left
<1>6. ASSUME NEW m \in Passed(conf) PROVE InCharge(m, chain[m][attempt])
  <2>1. CASE HandsOver(HandoverPlan(conf), m)
    <3>1. PICK t \in Range(HandoverPlan(conf)) : t.do \in {"hand", "handOnce"} /\ t.to = m
      BY <2>1 DEF HandsOver
    <3> QED BY <1>3, <3>1 DEF Left
  <2>2. CASE m \in {"stakeManager", "jobRegistry"} /\ conf.initial = conf.final
    <3>1. m \in Created
      BY <2>2 DEF Created
    <3>2. chain[m][attempt].owner # None
      BY <1>4 DEF Inv, Stages
    <3>3. chain[m][attempt].owner \in {None, Creator(conf, m), conf.final, conf.newOwner}
      BY <1>4, <3>1 DEF Inv, Contracts, Sound
    <3> QED BY <2>2, <3>2, <3>3 DEF Creator, InCharge, Taken, Offered
  <2> QED BY <2>1, <2>2, HandoverPlanned
<1> QED BY <1>5, <1>6

LEMMA CompleteInv == Inv /\ Complete => Inv'
<1> SUFFICES ASSUME Inv, Complete PROVE Inv'
  OBVIOUS
<1>1. /\ script \in {"deploy", "handover", "transfer"} /\ todo = <<>>
      /\ UNCHANGED <<conf, chain, attempt, file, modules, kills>>
  BY DEF Complete, Idle, Running, Inv, TypeOK
<1>2. attempt > 0 => attempt \in 1..MaxAttempts
  BY RolloutAssumption DEF Inv, TypeOK
<1>3. CASE script = "deploy"
  <2>1. stage' = 3 /\ script' = "handover" /\ todo' = HandoverPlan(conf) /\ UNCHANGED outcome
    BY <1>3 DEF Complete
  <2>2. Contracts' /\ Entrusted'
    BY <1>1, <2>1, Quiet
  <2>3. Follows'
    <3>1. Plan' = HandoverPlan(conf')
      BY <2>1 DEF Plan, PlanOf
    <3> QED BY <1>1, <2>1, <3>1, FollowsStart DEF Scripts
  <2>4. Stages' /\ HandedOver'
    <3>1. Wired(attempt)'
      BY <1>1, <1>3, DeployedWired DEF Wired
    <3>2. \A m \in Passed(conf) : chain[m][attempt].owner # None
      BY <1>1, <1>3, DeployedWired
    <3> QED BY <1>1, <1>3, <2>1, <3>1, <3>2 DEF Inv, Stages, HandedOver
  <2>5. TypeOK'
    BY <1>1, <2>1 DEF Inv, TypeOK, Idle, Accounts
  <2> QED BY <1>1, <2>1, <2>2, <2>3, <2>4, <2>5 DEF Inv
<1>4. CASE script = "handover"
  <2>1. stage' = 4 /\ Ended("migrated")
    BY <1>4 DEF Complete
  <2>2. Contracts' /\ Entrusted'
    BY <1>1, <2>1, Quiet DEF Ended
  <2>3. Follows'
    BY <2>1, Stopped DEF Ended
  <2>4. stage = 3
    BY <1>4 DEF Inv, TypeOK
  <2>5. Stages'
    BY <1>1, <1>4, <2>1, <2>4 DEF Inv, Stages, Wired, Passed, Ended
  <2>6. HandedOver'
    <3>1. /\ chain["feePool"][attempt].link["governance"] = conf.final
          /\ \A m \in Passed(conf) : InCharge(m, chain[m][attempt])
      BY <1>1, <1>4, HandoverDone
    <3> QED BY <1>1, <3>1 DEF HandedOver, Passed, InCharge, Taken, Offered
  <2>7. /\ DOMAIN outcome' = {"migrate", "transfer"} /\ outcome'.migrate = "migrated"
        /\ outcome'.transfer = outcome.transfer
    BY <1>4, <2>1 DEF Inv, Ended
  <2>8. TypeOK'
    BY <1>1, <2>1, <2>7 DEF Inv, TypeOK, Idle, Accounts, Ended
  <2> QED BY <2>2, <2>3, <2>5, <2>6, <2>7, <2>8 DEF Inv
<1>5. CASE script = "transfer"
  <2>1. Ended("transferred") /\ UNCHANGED stage
    BY <1>5 DEF Complete
  <2>2. kills' \in 0..MaxKills
    BY <1>1 DEF Inv, TypeOK
  <2> QED BY <1>1, <1>5, <2>1, <2>2, EndedInv
<1> QED BY <1>1, <1>3, <1>4, <1>5

\* What a mined transaction makes of a contract.
LEMMA MinedFacts ==
  ASSUME NEW c, DOMAIN c = Fields
  PROVE  LET d == Mined(c)
         IN  /\ DOMAIN d = Fields
             /\ Step.do = "create" => d.owner = Step.by /\ d.pending = None /\ d.link = Step.arg
             /\ Step.do = "set" =>
                  /\ d.owner = c.owner /\ d.pending = c.pending /\ d.grant = c.grant
                  /\ DOMAIN d.link = DOMAIN Step.arg \cup DOMAIN c.link
                  /\ \A x \in DOMAIN Step.arg : d.link[x] = Step.arg[x]
                  /\ \A x \in DOMAIN c.link : x \notin DOMAIN Step.arg => d.link[x] = c.link[x]
             /\ Step.do = "grant" =>
                  /\ d.owner = c.owner /\ d.pending = c.pending /\ d.link = c.link
                  /\ d.grant = c.grant \cup {Step.arg}
             /\ Step.do = "tune" => d = c
             /\ Step.do = "accept" =>
                  /\ d.owner = c.pending /\ d.pending = None
                  /\ d.link = c.link /\ d.grant = c.grant
             /\ Step.do \in {"hand", "handOnce"} =>
                  /\ d.link = c.link /\ d.grant = c.grant
                  /\ Step.to \in TwoStep => d.owner = c.owner /\ d.pending = Step.arg
                  /\ Step.to \notin TwoStep => d.owner = Step.arg /\ d.pending = c.pending
<1>1. CASE Step.do = "create"
  BY <1>1 DEF Mined, Absent, Fields
<1>2. CASE Step.do = "set"
  <2> DEFINE l == Over(Step.arg, c.link)
  <2>1. Mined(c) = [c EXCEPT !.link = l]
    BY <1>2 DEF Mined, Fields
  <2>2. /\ DOMAIN l = DOMAIN Step.arg \cup DOMAIN c.link
        /\ \A x \in DOMAIN Step.arg : l[x] = Step.arg[x]
        /\ \A x \in DOMAIN c.link : x \notin DOMAIN Step.arg => l[x] = c.link[x]
    BY DEF Over
  <2> HIDE DEF l
  <2> QED BY <1>2, <2>1, <2>2 DEF Fields
<1>3. CASE Step.do = "grant"
  BY <1>3 DEF Mined, Fields
<1>4. CASE Step.do = "tune"
  BY <1>4 DEF Mined
<1>5. CASE Step.do = "accept"
  BY <1>5 DEF Mined, Fields
<1>6. CASE Step.do \notin {"create", "set", "grant", "tune", "accept"}
  BY <1>6 DEF Mined, Fields
<1> QED BY <1>1, <1>2, <1>3, <1>4, <1>5, <1>6

\* A transaction that is sent is refused, or changes one contract.
LEMMA SendEffect ==
  ASSUME Inv, Send
  PROVE  /\ todo # <<>> /\ ~Skips /\ Step.do \notin {"confirm", "write"}
         /\ UNCHANGED <<conf, attempt, file, modules, stage, kills>>
         /\ \/ Ended("refused") /\ UNCHANGED chain /\ ~Permitted
            \/ /\ Permitted /\ todo' = Tail(todo) /\ UNCHANGED <<script, outcome>>
               /\ DOMAIN chain' = Created
               /\ \A m \in Created : DOMAIN chain'[m] = 1..MaxAttempts
               /\ chain'[Step.to][Instance] = Mined(Target)
               /\ \A m \in Created, a \in 1..MaxAttempts :
                    m # Step.to \/ a # Instance => chain'[m][a] = chain[m][a]
<1>1. /\ todo # <<>> /\ ~Skips /\ Step.do \notin {"confirm", "write"}
      /\ UNCHANGED <<conf, attempt, file, modules, stage, kills>>
  BY DEF Send, Running, Skips
<1>2. CASE ~Permitted
  BY <1>1, <1>2 DEF Send
<1>3. CASE Permitted
  <2>1. /\ chain' = [chain EXCEPT ![Step.to][Instance] = Mined(@)]
        /\ todo' = Tail(todo) /\ UNCHANGED <<script, outcome>>
    BY <1>3 DEF Send
  <2>2. Step.to \in Created /\ Instance \in 1..MaxAttempts
    BY <1>1, StepFacts
  <2>3. DOMAIN chain = Created /\ \A m \in Created : DOMAIN chain[m] = 1..MaxAttempts
    BY DEF Inv, Contracts
  <2>4. chain' = [chain EXCEPT ![Step.to][Instance] = Mined(Target)]
    BY <2>1, <2>2, <2>3 DEF Target
  <2>5. /\ DOMAIN chain' = Created
        /\ \A m \in Created : DOMAIN chain'[m] = 1..MaxAttempts
        /\ chain'[Step.to][Instance] = Mined(Target)
        /\ \A m \in Created, a \in 1..MaxAttempts :
             m # Step.to \/ a # Instance => chain'[m][a] = chain[m][a]
    <3> DEFINE n == Step.to
               b == Instance
               v == Mined(Target)
    <3>1. n \in Created /\ b \in 1..MaxAttempts /\ chain' = [chain EXCEPT ![n][b] = v]
      BY <2>2, <2>4
    <3> HIDE DEF n, b, v
    <3>2. /\ DOMAIN chain' = Created
          /\ \A m \in Created : DOMAIN chain'[m] = 1..MaxAttempts
          /\ chain'[n][b] = v
          /\ \A m \in Created, a \in 1..MaxAttempts : m # n \/ a # b => chain'[m][a] = chain[m][a]
      BY <2>3, <3>1
    <3> QED BY <3>2 DEF n, b, v
  <2> QED BY <1>1, <1>3, <2>1, <2>5
<1> QED BY <1>2, <1>3
Sendable == todo # <<>> /\ ~Skips /\ Step.do \notin {"confirm", "write"} /\ Permitted

\* What a transaction can be, script by script.
LEMMA Sendables ==
  ASSUME Inv, Sendable
  PROVE  /\ Step.to \in Created /\ Instance \in 1..MaxAttempts /\ Instance <= attempt
         /\ script \in {"deploy", "handover", "transfer"}
         /\ Sound(Step.to, Instance, Target) /\ DOMAIN Target = Fields
         /\ script = "deploy" =>
              /\ Step.do \in {"create", "set", "grant", "tune"} /\ Instance = attempt
              /\ Step.by = Creator(conf, Step.to)
              /\ Step.do \in {"create", "set"} => Refers(conf, attempt, Step.arg)
         /\ script = "handover" =>
              /\ Instance = attempt
              /\ \/ Step.do = "set" /\ Step.arg = [governance |-> conf.final]
                 \/ Step.do \in {"hand", "handOnce"} /\ Step.arg = conf.final
                 \/ Step.do = "accept" /\ Target.pending = conf.final /\ Step.to \in TwoStep
         /\ script = "transfer" =>
              Step.do = "handOnce" /\ Step.arg = conf.newOwner /\ Step.to # "identityRegistry"
<1>1. /\ Step.to \in Created /\ Instance \in 1..MaxAttempts /\ Instance <= attempt
      /\ script \in {"deploy", "handover", "transfer"}
      /\ StepOf(script, conf, attempt, modules, Step)
  BY RolloutAssumption, StepFacts DEF Sendable, Inv, TypeOK
<1>2. Sound(Step.to, Instance, Target)
  BY <1>1 DEF Inv, Contracts, Target
<1>3. script = "transfer" =>
        Step.do = "handOnce" /\ Step.arg = conf.newOwner /\ Step.to # "identityRegistry"
  BY <1>1 DEF Sendable, StepOf, TransferStep, HandOnce, Confirm, Listed
<1>4. Step.do = "accept" => Step.by = Target.pending
  BY DEF Sendable, Permitted
<1>5. script = "handover" =>
        /\ Instance = attempt
        /\ \/ Step.do = "set" /\ Step.arg = [governance |-> conf.final]
           \/ Step.do \in {"hand", "handOnce"} /\ Step.arg = conf.final
           \/ Step.do = "accept" /\ Target.pending = conf.final /\ Step.to \in TwoStep
  BY <1>1, <1>4 DEF StepOf, HandoverStep, Instance
<1>6. script = "deploy" =>
        /\ Step.do \in {"create", "set", "grant", "tune"} /\ Instance = attempt
        /\ Step.by = Creator(conf, Step.to)
        /\ Step.do \in {"create", "set"} => Refers(conf, attempt, Step.arg)
  BY <1>1 DEF Sendable, StepOf, DeployStep, Instance
<1> QED BY <1>1, <1>2, <1>3, <1>5, <1>6 DEF Sound

\* Who is handed a contract owns it, or has it on offer.
LEMMA MinedInCharge ==
  ASSUME Inv, Sendable, Step.do \in {"hand", "handOnce", "accept"}
  PROVE  InCharge(Step.to, Mined(Target))
<1> DEFINE d == Mined(Target)
<1>1. DOMAIN Target = Fields
  BY Sendables
<1>2. CASE Step.do = "accept"
  <2>1. Target.pending = conf.final
    BY <1>2, Sendables
  <2> QED BY <1>1, <1>2, <2>1, MinedFacts DEF InCharge, Taken
<1>3. CASE Step.do \in {"hand", "handOnce"} /\ Step.to \notin TwoStep
  <2>1. Step.arg \in {conf.final, conf.newOwner}
    BY <1>3, Sendables
  <2> QED BY <1>1, <1>3, <2>1, MinedFacts DEF InCharge, Taken
<1>4. CASE Step.do \in {"hand", "handOnce"} /\ Step.to \in TwoStep
  <2>1. d.owner = Target.owner /\ d.pending = Step.arg /\ Target.owner = Step.by
    BY <1>1, <1>4, MinedFacts DEF Sendable, Permitted
  <2>2. StepOf(script, conf, attempt, modules, Step)
    BY StepFacts DEF Sendable
  <2>3. CASE script = "handover"
    <3>1. Step.by = conf.deployer /\ Step.arg = conf.final
      BY <1>4, <2>2, <2>3 DEF StepOf, HandoverStep, Creator, TwoStep
    <3> QED BY <1>4, <2>1, <3>1 DEF InCharge, Offered
  <2>4. CASE script = "transfer"
    <3>1. Step.by = conf.final
      BY <1>4, <2>2, <2>4 DEF StepOf, TransferStep, HandOnce, Confirm
    <3> QED BY <2>1, <3>1 DEF InCharge, Taken
  <2>5. script # "deploy"
    BY <1>4, Sendables
  <2> QED BY <2>3, <2>4, <2>5, Sendables
<1> QED BY <1>2, <1>3, <1>4

LEMMA MinedSound ==
  ASSUME Inv, Sendable
  PROVE  Sound(Step.to, Instance, Mined(Target))
<1> DEFINE c == Target
           d == Mined(c)
<1>1. conf.deployer # None /\ conf.initial # None
  BY RolloutAssumption DEF Inv, TypeOK
<1>2. Sound(Step.to, Instance, c) /\ DOMAIN c = Fields /\ ~(Instance > attempt)
  BY RolloutAssumption, Sendables DEF Inv, TypeOK
<1>3. DOMAIN d = Fields
  BY <1>2, MinedFacts
<1>4. /\ d.pending \in {None, conf.final, conf.newOwner}
      /\ d.owner \in {None, Creator(conf, Step.to), conf.final, conf.newOwner}
      /\ Step.to \notin TwoStep => d.pending = None
      /\ script = "deploy" => d.pending = None /\ d.owner \in {None, Creator(conf, Step.to)}
  <2>1. CASE script = "deploy"
    BY <1>2, <2>1, MinedFacts, Sendables DEF Sound
  <2>2. CASE script = "handover"
    BY <1>2, <2>2, MinedFacts, Sendables DEF Sound
  <2>3. CASE script = "transfer"
    BY <1>2, <2>3, MinedFacts, Sendables DEF Sound
  <2> QED BY <2>1, <2>2, <2>3, Sendables
<1>5. ASSUME NEW g \in DOMAIN d.link, g \in Created \ {"taxPolicy"}
      PROVE  d.link[g] = <<g, Instance>>
  <2>1. g \in DOMAIN c.link => c.link[g] = <<g, Instance>>
    BY <1>2, <1>5 DEF Sound
  <2>2. CASE Step.do \in {"create", "set"} /\ g \in DOMAIN Step.arg
    <3>1. script = "deploy" \/ (script = "handover" /\ Step.arg = [governance |-> conf.final])
      BY <2>2, Sendables
    <3>2. g # "governance"
      BY <1>5 DEF Created
    <3>3. script = "deploy"
      BY <2>2, <3>1, <3>2
    <3>4. Step.arg[g] = LinkValue(conf, attempt, g) /\ Instance = attempt
      BY <2>2, <3>3, Sendables DEF Refers
    <3>5. g \notin {"taxPolicy", "committee", "ens", "roots", "treasury", "governance"}
      BY <1>5 DEF Created
    <3>6. LinkValue(conf, attempt, g) = <<g, attempt>>
      BY <3>5 DEF LinkValue
    <3>7. d.link[g] = Step.arg[g]
      BY <1>2, <2>2, MinedFacts
    <3> QED BY <3>4, <3>6, <3>7
  <2>3. CASE ~(Step.do \in {"create", "set"} /\ g \in DOMAIN Step.arg)
    <3>1. g \in DOMAIN c.link /\ d.link[g] = c.link[g]
      <4>1. CASE Step.do = "create"
        BY <1>2, <1>5, <2>3, <4>1, MinedFacts
      <4>2. CASE Step.do = "set"
        BY <1>2, <1>5, <2>3, <4>2, MinedFacts
      <4>3. CASE Step.do \notin {"create", "set"}
        BY <1>2, <1>5, <4>3, MinedFacts, Sendables
      <4> QED BY <4>1, <4>2, <4>3
    <3> QED BY <2>1, <3>1
  <2> QED BY <2>2, <2>3
<1> QED BY <1>2, <1>3, <1>4, <1>5 DEF Sound

LEMMA LeftNow ==
  ASSUME Inv, Sendable
  PROVE  Left(Step, Mined(Target))
<1> DEFINE c == Target
           d == Mined(c)
<1>1. conf.deployer # None /\ conf.initial # None
  BY RolloutAssumption DEF Inv, TypeOK
<1>2. DOMAIN c = Fields
  BY Sendables
<1>3. Step.do \in {"create", "set"} =>
        \A g \in DOMAIN Step.arg : g \in DOMAIN d.link /\ d.link[g] = Step.arg[g]
  BY <1>2, MinedFacts
<1>4. Step.do = "create" => d.owner # None
  BY <1>1, <1>2, MinedFacts, Sendables DEF Creator
<1>5. Step.do = "grant" => Step.arg \in d.grant
  BY <1>2, MinedFacts
<1>6. Step.do \in {"hand", "handOnce"} => InCharge(Step.to, d)
  BY MinedInCharge
<1> QED BY <1>3, <1>4, <1>5, <1>6 DEF Left

LEMMA LeftKept ==
  ASSUME Inv, Sendable,
         NEW t \in Range(Plan), t \notin Range(todo), t.to = Step.to, Left(t, Target)
  PROVE  Left(t, Mined(Target))
<1> DEFINE c == Target
           d == Mined(c)
<1>1. DOMAIN c = Fields /\ todo # <<>>
  BY Sendables DEF Sendable
<1>2. StepOf(script, conf, attempt, modules, t)
  BY Sendables, PlanFacts DEF Plan, Scripts
<1>3. Step \in Range(Plan) /\ Step \in Range(todo)
  BY <1>1, StepFacts
<1>4. CASE script = "deploy"
  <2>1. /\ t.do \in {"create", "set", "grant", "tune", "write"}
        /\ t.do \in {"create", "set"} => Refers(conf, attempt, t.arg)
    BY <1>2, <1>4 DEF StepOf, DeployStep
  <2>2. CASE Step.do = "create"
    <3>1. t.do = "create"
      BY <1>3, <2>2 DEF Inv, Follows, CreatesFirst
    <3>2. Plan = DeployPlan(conf, attempt)
      BY <1>4 DEF Plan, PlanOf
    <3>3. t = Step
      BY <1>3, <2>2, <3>1, <3>2, CreatesPlanned
    <3> QED BY <1>3, <3>3
  <2>3. CASE Step.do = "set"
    <3>1. Refers(conf, attempt, Step.arg)
      BY <1>4, <2>3, Sendables
    <3>2. ASSUME t.do \in {"create", "set"}, NEW g \in DOMAIN t.arg
          PROVE  g \in DOMAIN d.link /\ d.link[g] = t.arg[g]
      <4>1. g \in DOMAIN c.link /\ c.link[g] = t.arg[g]
        BY <3>2 DEF Left
      <4>2. g \in DOMAIN Step.arg => Step.arg[g] = t.arg[g]
        BY <2>1, <3>1, <3>2 DEF Refers
      <4> QED BY <1>1, <2>3, <4>1, <4>2, MinedFacts
    <3>3. d.owner = c.owner /\ d.grant = c.grant
      BY <1>1, <2>3, MinedFacts
    <3> QED BY <2>1, <3>2, <3>3 DEF Left
  <2>4. CASE Step.do \in {"grant", "tune"}
    BY <1>1, <2>1, <2>4, MinedFacts DEF Left
  <2> QED BY <1>4, <2>2, <2>3, <2>4, Sendables
<1>5. CASE script = "handover"
  <2>1. \/ t.do = "set" /\ t.arg = [governance |-> conf.final]
        \/ t.do \in {"hand", "handOnce", "accept"}
    BY <1>2, <1>5 DEF StepOf, HandoverStep
  <2>2. CASE Step.do = "set" /\ Step.arg = [governance |-> conf.final]
    <3>1. /\ d.owner = c.owner /\ d.pending = c.pending
          /\ \A g \in DOMAIN Step.arg : g \in DOMAIN d.link /\ d.link[g] = Step.arg[g]
      BY <1>1, <2>2, MinedFacts
    <3>2. t.do = "set" => t.arg = Step.arg
      BY <2>1, <2>2
    <3> QED BY <2>1, <3>1, <3>2 DEF Left, InCharge, Taken, Offered
  <2>3. CASE Step.do \in {"hand", "handOnce"} /\ Step.arg = conf.final
    <3>1. d.link = c.link /\ InCharge(Step.to, d)
      BY <1>1, <2>3, MinedFacts, MinedInCharge
    <3> QED BY <2>1, <3>1 DEF Left
  <2>4. CASE Step.do = "accept" /\ c.pending = conf.final
    <3>1. d.link = c.link /\ InCharge(Step.to, d)
      BY <1>1, <2>4, MinedFacts, MinedInCharge
    <3> QED BY <2>1, <3>1 DEF Left
  <2> QED BY <1>5, <2>2, <2>3, <2>4, Sendables
<1>6. CASE script = "transfer"
  <2>1. t.do \in {"handOnce", "confirm"}
    BY <1>2, <1>6 DEF StepOf, TransferStep, HandOnce, Confirm
  <2>2. InCharge(Step.to, d)
    BY <1>6, MinedInCharge, Sendables
  <2> QED BY <2>1, <2>2 DEF Left
<1> QED BY <1>4, <1>5, <1>6, Sendables
\* d kept the references to contracts and the permissions of c.
Grew(c, d) ==
  /\ \A g \in DOMAIN c.link : g \in Created => g \in DOMAIN d.link /\ d.link[g] = c.link[g]
  /\ c.grant \subseteq d.grant

LEMMA GrewMined ==
  ASSUME Inv, Sendable, script # "deploy"
  PROVE  Grew(Target, Mined(Target))
<1>1. DOMAIN Target = Fields
  BY Sendables
<1>2. \/ Step.do = "set" /\ Step.arg = [governance |-> conf.final]
      \/ Step.do \in {"hand", "handOnce", "accept"}
  BY Sendables
<1>3. CASE Step.do = "set" /\ Step.arg = [governance |-> conf.final]
  <2>1. DOMAIN Step.arg = {"governance"} /\ "governance" \notin Created
    BY <1>3 DEF Created
  <2> QED BY <1>1, <1>3, <2>1, MinedFacts DEF Grew
<1>4. CASE Step.do \in {"hand", "handOnce", "accept"}
  BY <1>1, <1>4, MinedFacts DEF Grew
<1> QED BY <1>2, <1>3, <1>4

LEMMA WiredKept ==
  ASSUME NEW a, Wired(a), UNCHANGED conf, \A m \in Created : Grew(chain[m][a], chain'[m][a])
  PROVE  Wired(a)'
<1>1. {"reputationEngine", "taxPolicy"} \subseteq Created
      /\ \A m \in Created : Needs(m) \subseteq Created
  BY DEF Needs, Created
<1>2. ASSUME NEW m \in Created, NEW g \in Needs(m)
      PROVE  g \in DOMAIN chain'[m][a].link /\ chain'[m][a].link[g] = <<g, a>>
  <2>1. g \in DOMAIN chain[m][a].link /\ chain[m][a].link[g] = <<g, a>>
    BY DEF Wired
  <2> QED BY <1>1, <2>1 DEF Grew
<1>3. ASSUME NEW m \in {"jobRegistry", "validationModule"}
      PROVE  <<"caller", <<m, a>> >> \in chain'["reputationEngine"][a].grant
  BY <1>1 DEF Wired, Grew
<1>4. ASSUME conf.tax = "deploy"
      PROVE  <<"acknowledger", <<"jobRegistry", a>> >> \in chain'["taxPolicy"][a].grant
  BY <1>1, <1>4 DEF Wired, Grew
<1> QED BY <1>2, <1>3, <1>4 DEF Wired

LEMMA WiredSame ==
  ASSUME NEW a, Wired(a), UNCHANGED conf, \A m \in Created : chain'[m][a] = chain[m][a]
  PROVE  Wired(a)'
<1>1. \A m \in Created : Grew(chain[m][a], chain'[m][a])
  BY DEF Grew
<1> QED BY <1>1, WiredKept

LEMMA SendInv == Inv /\ Send => Inv'
<1> SUFFICES ASSUME Inv, Send PROVE Inv'
  OBVIOUS
<1> USE RolloutAssumption
<1>1. CASE Ended("refused") /\ UNCHANGED chain
  <2>1. kills' \in 0..MaxKills /\ UNCHANGED <<conf, attempt, file, modules, stage>>
    BY SendEffect DEF Inv, TypeOK
  <2> QED BY <1>1, <2>1, EndedInv
<1>2. CASE ~(Ended("refused") /\ UNCHANGED chain)
  <2>1. /\ Sendable /\ todo # <<>> /\ todo' = Tail(todo)
        /\ UNCHANGED <<conf, attempt, file, modules, stage, kills, script, outcome>>
        /\ DOMAIN chain' = Created
        /\ \A m \in Created : DOMAIN chain'[m] = 1..MaxAttempts
        /\ chain'[Step.to][Instance] = Mined(Target)
        /\ \A m \in Created, a \in 1..MaxAttempts :
             m # Step.to \/ a # Instance => chain'[m][a] = chain[m][a]
    BY <1>2, SendEffect DEF Sendable
  <2>2. Step.to \in Created /\ Instance \in 1..MaxAttempts /\ DOMAIN Target = Fields
    BY <2>1, Sendables
  <2>3. Contracts'
    <3> SUFFICES ASSUME NEW m \in Created, NEW a \in 1..MaxAttempts
                 PROVE  Sound(m, a, chain[m][a])'
      BY <2>1 DEF Contracts
    <3>1. Sound(m, a, chain[m][a])' <=> Sound(m, a, chain'[m][a])
      BY <2>1 DEF Sound
    <3>2. CASE m = Step.to /\ a = Instance
      BY <2>1, <3>1, <3>2, MinedSound
    <3>3. CASE m # Step.to \/ a # Instance
      BY <2>1, <3>1, <3>3 DEF Inv, Contracts
    <3> QED BY <3>2, <3>3
  <2>4. Follows'
    <3>1. ASSUME NEW t, t.to \in Created, Place(t) \in 1..MaxAttempts
          PROVE  Done(t)' <=> Left(t, chain'[t.to][Place(t)])
      BY <2>1 DEF Done, Place, Left, InCharge, Taken, Offered
    <3>2. ASSUME NEW x, x = Step PROVE Done(x)'
      <4>1. Place(x) = Instance /\ x.to \in Created
        BY <2>1, <2>2, <3>2, StepFacts
      <4>2. Left(x, chain'[x.to][Place(x)])
        BY <2>1, <3>2, <4>1, LeftNow
      <4> QED BY <2>2, <3>1, <4>1, <4>2
    <3>3. ASSUME NEW t \in Range(Plan), t \notin Range(todo), Done(t) PROVE Done(t)'
      <4>1. CASE t.to = Step.to
        <5>1. Place(t) = Instance
          BY <4>1 DEF Place, Instance
        <5>2. Left(t, Target)
          BY <3>3, <4>1, <5>1 DEF Done, Target
        <5>3. Left(t, Mined(Target))
          BY <2>1, <3>3, <4>1, <5>2, LeftKept
        <5> QED BY <2>1, <2>2, <3>1, <4>1, <5>1, <5>3
      <4>2. CASE t.to # Step.to /\ t.do # "write"
        <5>1. StepOf(script, conf, attempt, modules, t) /\ script \in {"deploy", "handover", "transfer"}
          BY <2>1, <3>3, PlanFacts, Sendables DEF Plan, Scripts
        <5>2. t.to \in Created
          BY <4>2, <5>1 DEF StepOf, DeployStep, HandoverStep, TransferStep, Listed
        <5>3. Place(t) \in 1..MaxAttempts
          <6>1. script = "transfer" => modules[t.to] # 0
            BY <5>1 DEF StepOf, TransferStep
          <6>2. modules[t.to] \in 0..file /\ file \in 0..attempt /\ attempt \in 0..MaxAttempts
            BY <5>2 DEF Inv, TypeOK
          <6>3. script # "transfer" => attempt = Instance
            BY DEF Instance
          <6> QED BY <2>2, <6>1, <6>2, <6>3 DEF Place
        <5>4. chain'[t.to][Place(t)] = chain[t.to][Place(t)]
          BY <2>1, <4>2, <5>2, <5>3
        <5> QED BY <3>1, <3>3, <5>2, <5>3, <5>4 DEF Done
      <4>3. CASE t.do = "write"
        BY <4>3 DEF Done, Left
      <4> QED BY <4>1, <4>2, <4>3
    <3>4. PICK x : x = Step
      OBVIOUS
    <3> QED BY <2>1, <3>2, <3>3, <3>4, FollowsTail
  <2>5. script # "deploy" =>
          \A m \in Created, a \in 1..MaxAttempts : Grew(chain[m][a], chain'[m][a])
    <3> SUFFICES ASSUME script # "deploy", NEW m \in Created, NEW a \in 1..MaxAttempts
                 PROVE  Grew(chain[m][a], chain'[m][a])
      OBVIOUS
    <3>1. CASE m = Step.to /\ a = Instance
      BY <2>1, <3>1, GrewMined DEF Target
    <3>2. CASE m # Step.to \/ a # Instance
      BY <2>1, <3>2 DEF Grew
    <3> QED BY <3>1, <3>2
  <2>6. Entrusted'
    <3> SUFFICES ASSUME NEW a \in 1..MaxAttempts,
                        LET c == chain'["identityRegistry"][a]
                        IN  c.pending # None \/ c.owner \notin {None, conf.deployer}
                 PROVE  Wired(a)'
      BY <2>1 DEF Entrusted
    <3>1. "identityRegistry" \in Created /\ Creator(conf, "identityRegistry") = conf.deployer
      BY DEF Created, Creator
    <3>2. CASE script = "deploy"
      <4>1. a # attempt
        BY <2>1, <2>3, <3>1, <3>2 DEF Contracts, Sound
      <4>2. \A m \in Created : chain'[m][a] = chain[m][a]
        BY <2>1, <3>2, <4>1, Sendables
      <4>3. Wired(a)
        BY <3>1, <4>2 DEF Inv, Entrusted
      <4> QED BY <2>1, <4>2, <4>3, WiredSame
    <3>3. CASE script = "handover"
      <4>1. CASE a = attempt
        <5>1. Wired(a)
          BY <3>3, <4>1 DEF Inv, TypeOK, Stages
        <5> QED BY <2>1, <2>5, <3>3, <5>1, WiredKept
      <4>2. CASE a # attempt
        <5>1. \A m \in Created : chain'[m][a] = chain[m][a]
          BY <2>1, <3>3, <4>2, Sendables
        <5>2. Wired(a)
          BY <3>1, <5>1 DEF Inv, Entrusted
        <5> QED BY <2>1, <5>1, <5>2, WiredSame
      <4> QED BY <4>1, <4>2
    <3>4. CASE script = "transfer"
      <4>1. chain'["identityRegistry"][a] = chain["identityRegistry"][a]
        BY <2>1, <3>1, <3>4, Sendables
      <4>2. Wired(a)
        BY <4>1 DEF Inv, Entrusted
      <4> QED BY <2>1, <2>5, <3>4, <4>2, WiredKept
    <3> QED BY <2>1, <3>2, <3>3, <3>4, Sendables
  <2>7. Stages'
    <3>1. stage > 2 => script \in {"handover", "transfer"} /\ attempt \in 1..MaxAttempts
      BY <2>1, Sendables DEF Inv, TypeOK, Stages
    <3>2. stage > 2 => Wired(attempt)'
      <4>1. ASSUME NEW a, a = attempt, stage > 2 PROVE Wired(a)'
        BY <2>1, <2>5, <3>1, <4>1, WiredKept DEF Inv, Stages
      <4> QED BY <2>1, <4>1 DEF Wired
    <3>3. ASSUME NEW m \in Passed(conf), stage > 2 PROVE chain'[m][attempt].owner # None
      <4>1. m \in Created /\ chain[m][attempt].owner # None
        BY <3>3 DEF Inv, Stages, Passed, Created
      <4>2. CASE m = Step.to /\ attempt = Instance
        <5>1. Target.owner # None
          BY <4>1, <4>2 DEF Target
        <5>2. conf.final # None /\ conf.newOwner # None
          BY DEF Inv, TypeOK
        <5>3. Mined(Target).owner # None
          BY <2>1, <2>2, <3>1, <3>3, <5>1, <5>2, MinedFacts, Sendables
        <5> QED BY <2>1, <4>2, <5>3
      <4>3. CASE m # Step.to \/ attempt # Instance
        BY <2>1, <3>1, <3>3, <4>1, <4>3
      <4> QED BY <4>2, <4>3
    <3> QED BY <2>1, <3>2, <3>3 DEF Inv, Stages
  <2>8. HandedOver'
    <3> SUFFICES ASSUME stage = 4 PROVE HandedOver'
      BY <2>1 DEF HandedOver
    <3>1. script = "transfer" /\ attempt \in 1..MaxAttempts
      BY <2>1, Sendables DEF Inv, TypeOK, Stages
    <3>2. Mined(Target).link = Target.link /\ InCharge(Step.to, Mined(Target))
      BY <2>1, <2>2, <3>1, MinedFacts, MinedInCharge, Sendables
    <3>3. \A m \in Created : chain'[m][attempt].link = chain[m][attempt].link
      BY <2>1, <3>1, <3>2 DEF Target
    <3>4. \A m \in Created : InCharge(m, chain[m][attempt]) => InCharge(m, chain'[m][attempt])
      BY <2>1, <3>1, <3>2
    <3>5. "feePool" \in Created
      BY DEF Created
    <3> QED BY <2>1, <3>3, <3>4, <3>5 DEF Inv, HandedOver, InCharge, Taken, Offered
  <2>9. TypeOK'
    <3>1. conf' \in Setups
      BY <2>1 DEF Inv, TypeOK
    <3>2. \A m \in Created, a \in 1..MaxAttempts :
            LET c == chain'[m][a]
            IN  /\ c.owner \in Accounts' \union {None}
                /\ c.pending \in Accounts' \union {None}
                /\ a > attempt' => c = Absent
                /\ m \notin TwoStep => c.pending = None
      BY <2>3, <3>1, ContractTypes
    <3> QED BY <2>1, <3>1, <3>2, Sendables DEF Inv, TypeOK, Idle
  <2> QED BY <2>1, <2>3, <2>4, <2>6, <2>7, <2>8, <2>9 DEF Inv
<1> QED BY <1>1, <1>2
\* Who was offered a contract takes it: the others stay as they are.
Accepts(m, a) ==
  /\ m \in TwoStep /\ a \in 1..MaxAttempts /\ chain[m][a].pending # None
  /\ DOMAIN chain' = Created
  /\ \A n \in Created : DOMAIN chain'[n] = 1..MaxAttempts
  /\ \A n \in Created, b \in 1..MaxAttempts : n # m \/ b # a => chain'[n][b] = chain[n][b]
  /\ LET c == chain[m][a]
         d == chain'[m][a]
     IN  /\ DOMAIN d = Fields /\ d.owner = c.pending /\ d.pending = None
         /\ d.link = c.link /\ d.grant = c.grant

LEMMA AcceptEffect ==
  ASSUME Inv, AcceptOwnership
  PROVE  /\ \E m \in TwoStep, a \in 1..MaxAttempts : Accepts(m, a)
         /\ UNCHANGED <<conf, attempt, file, modules, stage, script, todo, outcome, kills>>
<1>1. PICK m \in TwoStep, a \in 1..MaxAttempts :
        /\ chain[m][a].pending # None
        /\ chain' = [chain EXCEPT ![m][a].owner = chain[m][a].pending, ![m][a].pending = None]
  BY DEF AcceptOwnership
<1>2. /\ m \in Created /\ DOMAIN chain = Created
      /\ \A n \in Created : DOMAIN chain[n] = 1..MaxAttempts
      /\ DOMAIN chain[m][a] = Fields
  BY DEF Inv, Contracts, Sound, TwoStep, Created
<1> DEFINE d == [chain[m][a] EXCEPT !.owner = chain[m][a].pending, !.pending = None]
<1>3. chain' = [chain EXCEPT ![m][a] = d]
  BY <1>1, <1>2
<1>4. /\ DOMAIN d = Fields /\ d.owner = chain[m][a].pending /\ d.pending = None
      /\ d.link = chain[m][a].link /\ d.grant = chain[m][a].grant
  BY <1>2 DEF Fields
<1> HIDE DEF d
<1>5. /\ DOMAIN chain' = Created /\ chain'[m][a] = d
      /\ \A n \in Created : DOMAIN chain'[n] = 1..MaxAttempts
      /\ \A n \in Created, b \in 1..MaxAttempts : n # m \/ b # a => chain'[n][b] = chain[n][b]
  BY <1>2, <1>3
<1>6. Accepts(m, a)
  BY <1>1, <1>4, <1>5 DEF Accepts
<1> QED BY <1>6 DEF AcceptOwnership

LEMMA AcceptOwnershipInv == Inv /\ AcceptOwnership => Inv'
<1> SUFFICES ASSUME Inv, AcceptOwnership PROVE Inv'
  OBVIOUS
<1> USE RolloutAssumption
<1>1. PICK m \in TwoStep, a \in 1..MaxAttempts : Accepts(m, a)
  BY AcceptEffect
<1>2. UNCHANGED <<conf, attempt, file, modules, stage, script, todo, outcome, kills>>
  BY AcceptEffect
<1> DEFINE c == chain[m][a]
           d == chain'[m][a]
<1>3. /\ m \in Created /\ c.pending # None /\ Sound(m, a, c)
      /\ DOMAIN d = Fields /\ d.owner = c.pending /\ d.pending = None
      /\ d.link = c.link /\ d.grant = c.grant
      /\ \A n \in Created, b \in 1..MaxAttempts : n # m \/ b # a => chain'[n][b] = chain[n][b]
  BY <1>1 DEF Accepts, Inv, Contracts, TwoStep, Created
<1>4. Taken(d) /\ InCharge(m, d) /\ d.owner # None /\ c.pending \in {conf.final, conf.newOwner}
  BY <1>3 DEF Sound, InCharge, Taken
<1>5. c # Absent
  BY <1>3 DEF Absent
<1>6. Contracts'
  <2> SUFFICES ASSUME NEW n \in Created, NEW b \in 1..MaxAttempts PROVE Sound(n, b, chain[n][b])'
    BY <1>1 DEF Contracts, Accepts
  <2>1. Sound(n, b, chain[n][b])' <=> Sound(n, b, chain'[n][b])
    BY <1>2 DEF Sound
  <2>2. CASE n = m /\ b = a
    BY <1>3, <1>4, <1>5, <2>1, <2>2 DEF Sound
  <2>3. CASE n # m \/ b # a
    BY <1>3, <2>1, <2>3 DEF Inv, Contracts
  <2> QED BY <2>2, <2>3
<1>7. \A n \in Created, b \in 1..MaxAttempts : Grew(chain[n][b], chain'[n][b])
  <2> SUFFICES ASSUME NEW n \in Created, NEW b \in 1..MaxAttempts
               PROVE  Grew(chain[n][b], chain'[n][b])
    OBVIOUS
  <2>1. CASE n = m /\ b = a
    BY <1>3, <2>1 DEF Grew
  <2>2. CASE n # m \/ b # a
    BY <1>3, <2>2 DEF Grew
  <2> QED BY <2>1, <2>2
<1>8. Follows'
  <2>1. Plan' = Plan
    BY <1>2 DEF Plan
  <2>2. ASSUME NEW t \in Range(Plan), Done(t) PROVE Done(t)'
    <3>1. CASE t.do = "write"
      BY <3>1 DEF Done, Left
    <3>2. CASE t.do # "write"
      <4>1. StepOf(script, conf, attempt, modules, t) /\ script # "none"
        BY <2>2, PlanFacts DEF Plan, Scripts, Inv, TypeOK
      <4>2. t.to \in Created
        BY <3>2, <4>1 DEF StepOf, DeployStep, HandoverStep, TransferStep, Listed, Inv, TypeOK
      <4>3. Place(t) \in 1..MaxAttempts
        <5>1. script = "transfer" => modules[t.to] # 0
          BY <4>1 DEF StepOf, TransferStep
        <5>2. modules[t.to] \in 0..file /\ file \in 0..attempt /\ attempt \in 0..MaxAttempts
          BY <4>2 DEF Inv, TypeOK
        <5>3. script # "transfer" => attempt > 0
          BY <4>1 DEF Inv, TypeOK, Stages
        <5> QED BY <5>1, <5>2, <5>3 DEF Place
      <4>4. Left(t, chain'[t.to][Place(t)])
        <5>1. Left(t, chain[t.to][Place(t)])
          BY <2>2 DEF Done
        <5>2. CASE t.to = m /\ Place(t) = a
          <6>1. Left(t, c)
            BY <5>1, <5>2
          <6>2. Left(t, d)
            BY <1>3, <1>4, <5>2, <6>1 DEF Left
          <6> QED BY <5>2, <6>2
        <5>3. CASE t.to # m \/ Place(t) # a
          BY <1>3, <4>2, <4>3, <5>1, <5>3
        <5> QED BY <5>2, <5>3
      <4> QED BY <1>2, <4>4 DEF Done, Place, Left, InCharge, Taken, Offered
    <3> QED BY <3>1, <3>2
  <2> QED BY <1>2, <2>1, <2>2 DEF Inv, Follows, CreatesFirst, Progress
<1>9. Entrusted'
  <2> SUFFICES ASSUME NEW b \in 1..MaxAttempts,
                      LET e == chain'["identityRegistry"][b]
                      IN  e.pending # None \/ e.owner \notin {None, conf.deployer}
               PROVE  Wired(b)'
    BY <1>2 DEF Entrusted
  <2>1. "identityRegistry" \in Created
    BY DEF Created
  <2>2. Wired(b)
    <3>1. CASE m = "identityRegistry" /\ b = a
      BY <1>3, <3>1 DEF Inv, Entrusted
    <3>2. CASE m # "identityRegistry" \/ b # a
      BY <1>3, <2>1, <3>2 DEF Inv, Entrusted
    <3> QED BY <3>1, <3>2
  <2> QED BY <1>2, <1>7, <2>2, WiredKept
<1>10. attempt > 0 => attempt \in 1..MaxAttempts
  BY DEF Inv, TypeOK
<1>11. Stages'
  <2>1. ASSUME NEW b, b = attempt, stage > 2 PROVE Wired(b)'
    BY <1>2, <1>7, <1>10, <2>1, WiredKept DEF Inv, Stages
  <2>2. stage > 2 => Wired(attempt)'
    BY <1>2, <2>1 DEF Wired
  <2>3. ASSUME NEW n \in Passed(conf), stage > 2 PROVE chain'[n][attempt].owner # None
    <3>1. n \in Created /\ chain[n][attempt].owner # None /\ attempt \in 1..MaxAttempts
      BY <1>10, <2>3 DEF Inv, Stages, Passed, Created
    <3> QED BY <1>3, <1>4, <3>1
  <2> QED BY <1>2, <2>2, <2>3 DEF Inv, Stages
<1>12. HandedOver'
  <2> SUFFICES ASSUME stage = 4 PROVE HandedOver'
    BY <1>2 DEF HandedOver
  <2>1. attempt \in 1..MaxAttempts
    BY <1>10 DEF Inv, Stages
  <2>2. /\ \A n \in Created : chain'[n][attempt].link = chain[n][attempt].link
        /\ \A n \in Created : InCharge(n, chain[n][attempt]) => InCharge(n, chain'[n][attempt])
    BY <1>3, <1>4, <2>1
  <2>3. "feePool" \in Created
    BY DEF Created
  <2> QED BY <1>2, <2>2, <2>3 DEF Inv, HandedOver, InCharge, Taken, Offered
<1>13. TypeOK'
  <2>1. conf' \in Setups
    BY <1>2 DEF Inv, TypeOK
  <2>2. \A n \in Created, b \in 1..MaxAttempts :
          LET e == chain'[n][b]
          IN  /\ e.owner \in Accounts' \union {None}
              /\ e.pending \in Accounts' \union {None}
              /\ b > attempt' => e = Absent
              /\ n \notin TwoStep => e.pending = None
    BY <1>6, <2>1, ContractTypes
  <2> QED BY <1>2, <2>1, <2>2 DEF Inv, TypeOK, Idle
<1> QED BY <1>2, <1>6, <1>8, <1>9, <1>11, <1>12, <1>13 DEF Inv

LEMMA InvNext == Inv /\ [Next]_vars => Inv'
<1> SUFFICES ASSUME Inv, [Next]_vars PROVE Inv'
  OBVIOUS
<1>1. CASE UNCHANGED vars
  <2>1. /\ Contracts' /\ Entrusted' /\ Stages' /\ HandedOver'
    BY <1>1, Same DEF vars
  <2>2. TypeOK' /\ DOMAIN outcome' = {"migrate", "transfer"}
    BY <1>1 DEF vars, Inv, TypeOK, Idle, Accounts
  <2>3. Follows'
    BY <1>1 DEF vars, Inv, Follows, CreatesFirst, Progress, Plan, Done, Place, Left, InCharge, Taken, Offered
  <2> QED BY <2>1, <2>2, <2>3 DEF Inv
<1> QED BY <1>1, MigrateInv, MigrateResetInv, TransferOwnershipInv, CopyAddressesInv,
           AdvanceInv, SendInv, NotConfirmedInv, CompleteInv, KillInv, AcceptOwnershipInv DEF Next

LEMMA InvAlways == Spec => []Inv
BY InvInit, InvNext, PTL DEF Spec

-----------------------------------------------------------------------------
(* The contracts, the addresses and the scripts' progress are what they     *)
(* should be: nothing exists of a deployment that has not begun, and only   *)
(* the two Ownable2Step contracts are ever on offer.                        *)
THEOREM RolloutTypes == Spec => []TypeOK
BY InvAlways, PTL DEF Inv

LEMMA InvVerified == Inv => VerifiedMeansDeployed
<1> SUFFICES ASSUME Inv, \A m \in Core : modules[m] # 0, Failures(conf, modules) = {}
             PROVE  /\ \A m \in Core : modules[m] = modules["jobRegistry"]
                    /\ Wired(modules["jobRegistry"])
  BY DEF VerifiedMeansDeployed
<1> USE RolloutAssumption
<1>1. /\ Core = {"stakeManager", "reputationEngine", "identityRegistry", "validationModule",
                 "disputeModule", "certificateNFT", "jobRegistry"}
      /\ Core \subseteq Created
  BY DEF Core, Created
<1>2. \A m \in Core : modules[m] \in 1..MaxAttempts
  BY <1>1 DEF Inv, TypeOK
<1> DEFINE a == modules["jobRegistry"]
           link == chain["jobRegistry"][a].link
<1>3. a \in 1..MaxAttempts /\ "jobRegistry" \in Created
  BY <1>1, <1>2
<1>4. LinkFailures(conf, modules, "jobRegistry") = {}
  BY <1>1, <1>3 DEF Failures
<1>5. /\ Checks["jobRegistry"] =
           {"stakeManager", "validationModule", "reputationEngine", "disputeModule",
            "certificateNFT", "taxPolicy", "feePool", "identityRegistry"}
  BY DEF Checks, Over, CoreChecks
<1>6. ASSUME NEW m \in Core \ {"jobRegistry"} PROVE modules[m] = a
  <2>1. m \in Checks["jobRegistry"] /\ m \in Created \ {"taxPolicy"}
        /\ m \notin {"ens", "roots"}
    BY <1>1, <1>5 DEF Created
  <2>2. Expected(conf, modules, m) = <<m, modules[m]>>
    BY <1>2, <2>1 DEF Expected
  <2>3. <<m, modules[m]>> # None
    BY <1>2, <2>1
  <2>4. m \in DOMAIN link /\ link[m] = <<m, modules[m]>>
    BY <1>4, <2>1, <2>2, <2>3 DEF LinkFailures
  <2>5. link[m] = <<m, a>>
    BY <1>3, <2>1, <2>4 DEF Inv, Contracts, Sound
  <2> QED BY <2>4, <2>5
<1>7. OwnerAllowed(conf, chain["identityRegistry"][modules["identityRegistry"]].owner)
  BY <1>1, <1>2 DEF Failures
<1>8. Wired(modules["identityRegistry"])
  <2>1. conf \in Setups
    BY DEF Inv, TypeOK
  <2>2. conf.deployer \notin conf.code
    BY <2>1
  <2> QED BY <1>1, <1>2, <1>7, <2>2 DEF OwnerAllowed, Inv, Entrusted
<1> QED BY <1>1, <1>6, <1>8

(* A wiring check that passes for the core modules was made against one     *)
(* deployment, finished to its last call, for any number of deployments     *)
(* and kills and however the addresses were copied: the identity registry,  *)
(* owned by an account with code, has left the deployer's hands, and that   *)
(* happens only after the last call.                                        *)
THEOREM VerifiedIsDeployed == Spec => []VerifiedMeansDeployed
BY InvAlways, InvVerified, PTL
-----------------------------------------------------------------------------
(* The migrations are refused nothing but a handover that is resumed. *)

\* Values in bounds are accepted by every constructor and every setter.
LEMMA Accepted ==
  ASSUME conf \in Setups, Deployable, NEW m
  PROVE  /\ Constructed(conf, m) /\ Tuned(conf, m)
         /\ \A links : "treasury" \notin links => SetAccepted(conf, m, links)
<1> USE RolloutAssumption
<1> DEFINE least == MinValidators(conf)
           most == MaxValidators(conf)
           perJob == conf.numbers["validatorsPerJob"]
<1>1. conf.initial # None
  OBVIOUS
<1>2. least \in Nat
  BY DEF MinValidators, Number, Numbers
<1>3. perJob \in Nat \union {None}
  BY DEF Numbers
<1>4. InBounds(conf)
  BY DEF Deployable
<1>5. /\ 3 <= least /\ least <= Number(conf, "validatorsPerJob", least)
      /\ Number(conf, "validatorsPerJob", least) <= most /\ most <= 100
      /\ Number(conf, "validatorPool", 0) <= 1000
      /\ Number(conf, "commitWindow", 3600) # 0 /\ Number(conf, "revealWindow", 3600) # 0
      /\ SlashShares(conf) \in {0, 100}
  BY <1>4 DEF InBounds
<1>6. Number(conf, "validatorsPerJob", least) = IF perJob = None THEN least ELSE perJob
  BY DEF Number
<1>7. most \in Int
  <2>1. CASE conf.numbers["maxValidators"] # None
    BY <2>1 DEF MaxValidators, Number, Numbers
  <2>2. CASE conf.numbers["maxValidators"] = None
    <3>1. most = Max({least, 3})
      BY <2>2 DEF MaxValidators, Number
    <3>2. Max({least, 3}) \in Int
      BY <1>2, <1>5 DEF Max
    <3> QED BY <3>1, <3>2
  <2> QED BY <2>1, <2>2
<1> HIDE DEF least, most, perJob
<1>8. 3 <= most /\ least <= most /\ least # 0 /\ most # 0
  BY <1>2, <1>3, <1>5, <1>6, <1>7
<1>9. Seats(least) = least /\ Seats(most) = most
  BY <1>8 DEF Seats
<1>10. Constructed(conf, m)
  <2>1. Bounds(Seats(least), Seats(most))
    BY <1>5, <1>8, <1>9 DEF Bounds
  <2> QED BY <1>1, <1>5, <2>1 DEF Constructed, Deployable, least, most
<1>11. Tuned(conf, m)
  <2>1. perJob # None => Seats(least) <= perJob /\ perJob <= Seats(most) /\ perJob <= 100
    BY <1>2, <1>3, <1>5, <1>6, <1>7, <1>9
  <2>2. Bounds(least, most) /\ most <= 100
    BY <1>5, <1>8 DEF Bounds
  <2>3. ValidationTuned(conf)
    BY <1>5, <2>1, <2>2 DEF ValidationTuned, least, most, perJob
  <2> QED BY <2>3 DEF Tuned, Deployable
<1> QED BY <1>10, <1>11 DEF SetAccepted, Deployable

\* A deployment is permitted whatever has happened before, a handover if it
\* runs for the first time.
LEMMA SmoothPermits ==
  ASSUME Inv, SmoothInv, Deployable, todo # <<>>, ~Skips, Step.do \notin {"confirm", "write"},
         script # "transfer", script = "handover" => kills = 0
  PROVE  Permitted
<1>0. \A n \in Passed(conf) :
        \E t \in Range(DeployPlan(conf, attempt)) : t.do = "create" /\ t.to = n
  BY CreatesPlanned
<1> USE RolloutAssumption
<1>1. /\ script \in {"deploy", "handover"} /\ Instance = attempt
      /\ Step.to \in Created /\ attempt \in 1..MaxAttempts
      /\ StepOf(script, conf, attempt, modules, Step)
      /\ Step \in Range(Plan) /\ Step \in Range(todo)
  BY StepFacts DEF Instance
<1>2. conf \in Setups /\ conf.initial \in conf.signers /\ conf.deployer \in conf.signers
      /\ \A m : Creator(conf, m) \in conf.signers
  BY DEF Inv, TypeOK, Deployable, Creator
<1>3. CASE script = "deploy"
  <2>1. /\ Step.do \in {"create", "set", "grant", "tune"} /\ Step.by = Creator(conf, Step.to)
        /\ Step.to = "taxPolicy" => conf.tax = "deploy"
    BY <1>1, <1>3 DEF StepOf, DeployStep
  <2>2. Plan = DeployPlan(conf, attempt)
    BY <1>3 DEF Plan, PlanOf
  <2>3. ASSUME NEW t \in Range(DeployPlan(conf, attempt)), t \notin Range(todo)
        PROVE  Left(t, chain[t.to][attempt])
    BY <1>3, <2>2, <2>3 DEF Inv, Follows, Progress, Done, Place
  <2>4. ASSUME Step.do # "create", NEW t \in Range(DeployPlan(conf, attempt)), t.do = "create"
        PROVE  t \notin Range(todo)
    BY <1>3, <2>4, StepFacts DEF Clash
  <2>5. ASSUME Step.do # "create" PROVE Step.by = Target.owner
    <3>1. Step.to \in Passed(conf)
      BY <1>1, <2>1 DEF Passed
    <3> DEFINE m == Step.to
    <3>3. PICK t \in Range(DeployPlan(conf, attempt)) : t.do = "create" /\ t.to = m
      <4> HIDE DEF m
      <4> QED BY <1>0, <3>1 DEF m
    <3>4. Target.owner # None
      BY <1>1, <2>3, <2>4, <2>5, <3>3 DEF Left, Target
    <3>5. Sound(Step.to, Instance, Target)
      BY <1>1 DEF Inv, Contracts, Target
    <3> QED BY <1>1, <1>3, <2>1, <3>4, <3>5 DEF Sound
  <2>6. Step.do = "set" => SetAccepted(conf, Step.to, DOMAIN Step.arg)
    <3>1. ~(Step.to = "stakeManager" /\ Step.do = "set" /\ "treasury" \in DOMAIN Step.arg)
      BY <1>1, <2>2, TreasuryUnplanned DEF Deployable, NoTreasury
    <3> QED BY <3>1 DEF SetAccepted, Deployable
  <2>7. ASSUME Step.do = "grant", Step.arg[1] = "acknowledged"
        PROVE  LET policy == Target.link.taxPolicy
               IN  /\ <<"acknowledger", Step.by>> \in Target.grant
                   /\ policy[2] # 0
                   /\ <<"acknowledger", <<"jobRegistry", attempt>> >>
                        \in chain["taxPolicy"][policy[2]].grant
    <3>1. conf.tax = "deploy" /\ Step.to = "jobRegistry"
      BY <1>1, <1>2, <2>2, <2>7, AcknowledgedPlanned DEF Acknowledged, Deployable
    <3>2. Step.by = conf.initial /\ "jobRegistry" \in Passed(conf)
      BY <2>1, <3>1 DEF Creator, Passed, Created
    <3>3. Target.link.taxPolicy = <<"taxPolicy", attempt>>
      <4>1. PICK t \in Range(DeployPlan(conf, attempt)) : t.do = "create" /\ t.to = "jobRegistry"
        BY <3>2, CreatesPlanned
      <4>2. "taxPolicy" \in DOMAIN t.arg /\ t.arg["taxPolicy"] = TaxPolicyAddress(conf, attempt)
        BY <4>1, CreatesPlanned
      <4>3. Left(t, Target)
        BY <1>1, <2>3, <2>4, <2>7, <3>1, <4>1 DEF Target
      <4> QED BY <3>1, <4>1, <4>2, <4>3 DEF Left, TaxPolicyAddress
    <3>4. ASSUME NEW t \in Range(DeployPlan(conf, attempt)), Acknowledger(t)
          PROVE  t.arg \in chain[t.to][attempt].grant
      <4>1. ~Clash(Step, t) \/ t \notin Range(Tail(todo))
        BY <1>3, StepFacts
      <4>2. t # Step
        BY <2>7, <3>4 DEF Acknowledger
      <4>3. t \notin Range(todo)
        BY <2>7, <3>4, <4>1, <4>2, StepFacts DEF Clash, Acknowledger
      <4> QED BY <2>3, <3>4, <4>3 DEF Left, Acknowledger
    <3>5. <<"acknowledger", conf.initial>> \in chain["jobRegistry"][attempt].grant
      <4> DEFINE t == Grant("jobRegistry", conf.initial, "acknowledger", conf.initial)
      <4>1. t \in Range(DeployPlan(conf, attempt))
        BY <3>1, GrantsPlanned
      <4>2. t.to = "jobRegistry" /\ t.do = "grant" /\ t.arg = <<"acknowledger", conf.initial>>
        BY DEF Grant
      <4> HIDE DEF t
      <4> QED BY <3>4, <4>1, <4>2 DEF Acknowledger
    <3>6. <<"acknowledger", <<"jobRegistry", attempt>> >> \in chain["taxPolicy"][attempt].grant
      <4> DEFINE t == Grant("taxPolicy", conf.deployer, "acknowledger", <<"jobRegistry", attempt>>)
      <4>1. t \in Range(DeployPlan(conf, attempt))
        BY <3>1, GrantsPlanned
      <4>2. /\ t.to = "taxPolicy" /\ t.do = "grant"
            /\ t.arg = <<"acknowledger", <<"jobRegistry", attempt>> >>
        BY DEF Grant
      <4> HIDE DEF t
      <4> QED BY <3>4, <4>1, <4>2 DEF Acknowledger
    <3>7. <<"taxPolicy", attempt>>[2] = attempt /\ attempt # 0
      BY <1>1
    <3> QED BY <1>1, <3>1, <3>2, <3>3, <3>5, <3>6, <3>7 DEF Target
  <2>8. Constructed(conf, Step.to) /\ Tuned(conf, Step.to)
    BY <1>2, Accepted
  <2> QED BY <1>2, <2>1, <2>5, <2>6, <2>7, <2>8 DEF Permitted
<1>4. CASE script = "handover"
  <2>1. HandoverStep(conf, Step) /\ Ready(Step)
    BY <1>1, <1>4 DEF StepOf, SmoothInv, Smooth
  <2>2. Target = chain[Step.to][attempt]
    BY <1>1 DEF Target
  <2>3. Step.do # "accept"
    BY <2>1, <2>2 DEF Skips, Ready
  <2>4. /\ Step.by = Creator(conf, Step.to) /\ Step.do \in {"set", "hand", "handOnce"}
        /\ Step.to \in {"stakeManager", "jobRegistry"} => Step.do # "set"
    BY <2>1, <2>3 DEF HandoverStep, Creator
  <2>5. Step.by = Target.owner
    BY <2>1, <2>2, <2>3, <2>4 DEF Ready
  <2>6. Step.do = "set" => SetAccepted(conf, Step.to, DOMAIN Step.arg)
    BY <2>4 DEF SetAccepted
  <2> QED BY <1>2, <2>4, <2>5, <2>6 DEF Permitted
<1> QED BY <1>1, <1>3, <1>4

\* What the handover starts with.
LEMMA HandoverReady ==
  ASSUME Inv, script = "deploy", todo = <<>>, NEW t \in Range(HandoverPlan(conf))
  PROVE  Ready(t)
<1>1. HandoverStep(conf, t)
  BY HandoverPlanned DEF Handing
<1>2. attempt \in 1..MaxAttempts
  BY RolloutAssumption DEF Inv, TypeOK, Stages
<1> DEFINE c == chain[t.to][attempt]
<1>3. t.to \in Created /\ t.to \in Passed(conf)
  BY <1>1 DEF HandoverStep, Passed
<1>4. c.owner # None
  BY <1>3, DeployedWired
<1>5. c.pending = None /\ c.owner \in {None, Creator(conf, t.to)}
  BY <1>2, <1>3 DEF Inv, Contracts, Sound
<1>6. t.do = "accept" => t.by = Creator(conf, t.to)
  BY <1>1 DEF HandoverStep, Creator, TwoStep
<1> QED BY <1>4, <1>5, <1>6 DEF Ready
LEMMA SmoothSend ==
  ASSUME Inv, SmoothInv, Smooth, Send, script = "handover", NEW t \in Range(Tail(todo))
  PROVE  Ready(t)'
<1> USE RolloutAssumption
<1>1. /\ Permitted /\ Sendable /\ todo # <<>> /\ UNCHANGED <<conf, attempt>>
      /\ chain'[Step.to][Instance] = Mined(Target)
      /\ \A m \in Created, a \in 1..MaxAttempts :
           m # Step.to \/ a # Instance => chain'[m][a] = chain[m][a]
  BY SendEffect, SmoothPermits DEF Sendable, Smooth
<1>2. /\ Step.to \in Created /\ Instance = attempt /\ attempt \in 1..MaxAttempts
      /\ DOMAIN Target = Fields /\ Target = chain[Step.to][attempt]
  BY <1>1, Sendables DEF Target
<1>3. /\ HandoverStep(conf, t) /\ HandoverStep(conf, Step) /\ Ready(t) /\ Ready(Step)
      /\ ~Clash(Step, t)
  <2>1. t \in Range(todo) /\ t \in Range(Plan) /\ Step \in Range(todo) /\ Step \in Range(Plan)
        /\ ~Clash(Step, t)
    BY <1>1, StepFacts
  <2>2. HandoverStep(conf, t) /\ HandoverStep(conf, Step)
    BY <2>1, PlanFacts DEF Plan, Scripts, StepOf
  <2> QED BY <2>1, <2>2 DEF SmoothInv
<1>4. Ready(t)' <=> LET c == chain'[t.to][attempt]
                    IN  /\ c.pending = None
                        /\ c.owner = IF t.do = "accept" THEN t.by ELSE Creator(conf, t.to)
  BY <1>1 DEF Ready
<1>5. CASE t.to # Step.to
  <2>1. chain'[t.to][attempt] = chain[t.to][attempt]
    BY <1>1, <1>2, <1>3, <1>5 DEF HandoverStep
  <2> QED BY <1>3, <1>4, <2>1 DEF Ready
<1>6. CASE t.to = Step.to
  <2>1. chain'[t.to][attempt] = Mined(Target)
    BY <1>1, <1>2, <1>6
  <2>2. CASE Step.do = "set"
    <3>1. Mined(Target).owner = Target.owner /\ Mined(Target).pending = Target.pending
      BY <1>2, <2>2, MinedFacts
    <3> QED BY <1>2, <1>3, <1>4, <1>6, <2>1, <3>1 DEF Ready
  <2>3. CASE Step.do \in {"hand", "handOnce"}
    <3>1. t.do = "accept"
      BY <1>3, <1>6, <2>3 DEF Clash, HandoverStep
    <3>2. t.to \in TwoStep /\ conf.final = conf.deployer
      BY <1>3, <3>1 DEF HandoverStep
    <3>3. Step.do = "handOnce" /\ Step.arg = conf.deployer
      BY <1>3, <1>6, <2>3, <3>2 DEF HandoverStep
    <3>4. Target.owner = conf.deployer
      BY <1>2, <1>3, <1>6, <3>2, <3>3 DEF Ready, Creator, TwoStep
    <3> QED BY <1>1, <3>3, <3>4 DEF Sendable, Skips
  <2>4. CASE Step.do = "accept"
    BY <1>1, <1>2, <1>3, <2>4 DEF Sendable, Skips, Ready
  <2> QED BY <1>3, <2>2, <2>3, <2>4 DEF HandoverStep
<1> QED BY <1>5, <1>6

LEMMA ConfKept ==
  ASSUME Inv, [Next]_vars
  PROVE  UNCHANGED conf /\ kills' \in {kills, kills + 1}
BY DEF Next, vars, Migrate, MigrateReset, TransferOwnership, CopyAddresses, Advance, Send,
       NotConfirmed, Complete, Kill, AcceptOwnership

\* What is refused is a handover that was killed before.
LEMMA RefusedNext ==
  ASSUME Inv, SmoothInv, [Next]_vars, Deployable, outcome'.migrate = "refused"
  PROVE  stage' = 3 /\ kills' > 0
<1>1. /\ kills \in Nat /\ DOMAIN outcome = {"migrate", "transfer"}
      /\ script = "handover" => stage = 3
  BY RolloutAssumption DEF Inv, TypeOK
<1>2. outcome.migrate = "refused" => stage = 3 /\ kills > 0
  BY DEF SmoothInv, RefusedOnlyForConfig
<1>3. CASE UNCHANGED <<outcome, stage, kills>>
  BY <1>2, <1>3
<1>4. CASE Migrate \/ MigrateReset
  BY <1>1, <1>4 DEF Migrate, MigrateReset
<1>5. CASE TransferOwnership
  BY <1>1, <1>2, <1>5 DEF TransferOwnership
<1>6. CASE Send
  <2>1. /\ todo # <<>> /\ ~Skips /\ Step.do \notin {"confirm", "write"}
        /\ UNCHANGED <<stage, kills>>
        /\ \/ Ended("refused") /\ ~Permitted
           \/ UNCHANGED outcome
    BY <1>6, SendEffect
  <2>2. CASE UNCHANGED outcome
    BY <1>2, <2>1, <2>2
  <2>3. CASE script = "transfer"
    BY <1>1, <1>2, <2>1, <2>3 DEF Ended
  <2>4. CASE Ended("refused") /\ ~Permitted /\ script # "transfer"
    <3>1. script = "handover" /\ kills # 0
      BY <2>1, <2>4, SmoothPermits
    <3> QED BY <1>1, <2>1, <3>1
  <2> QED BY <2>1, <2>2, <2>3, <2>4
<1>7. CASE NotConfirmed
  <2>1. script = "transfer"
    BY <1>7, StepFacts DEF NotConfirmed, Running, StepOf, DeployStep, HandoverStep
  <2> QED BY <1>1, <1>2, <1>7, <2>1 DEF NotConfirmed, Ended
<1>8. CASE Complete
  <2>1. CASE script = "deploy"
    BY <1>1, <1>2, <1>8, <2>1 DEF Complete
  <2>2. CASE script = "handover"
    BY <1>1, <1>8, <2>2 DEF Complete, Ended
  <2>3. CASE script = "transfer"
    BY <1>1, <1>2, <1>8, <2>3 DEF Complete, Ended
  <2>4. script \in {"deploy", "handover", "transfer"}
    BY <1>8 DEF Complete, Idle, Inv, TypeOK
  <2> QED BY <2>1, <2>2, <2>3, <2>4
<1>9. CASE Kill
  BY <1>1, <1>2, <1>9 DEF Kill, Ended
<1> QED BY <1>3, <1>4, <1>5, <1>6, <1>7, <1>8, <1>9
        DEF Next, vars, CopyAddresses, Advance, AcceptOwnership

LEMMA SmoothNext == Inv /\ SmoothInv /\ [Next]_vars => SmoothInv'
<1> USE RolloutAssumption
<1>0. ASSUME Inv, SmoothInv, [Next]_vars PROVE RefusedOnlyForConfig'
  <2> SUFFICES ASSUME Deployable', outcome'.migrate = "refused" PROVE stage' = 3 /\ kills' > 0
    BY DEF RefusedOnlyForConfig
  <2>1. Deployable
    BY <1>0, ConfKept DEF Deployable
  <2> QED BY <1>0, <2>1, RefusedNext
<1> SUFFICES ASSUME Inv, SmoothInv, [Next]_vars, Smooth'
             PROVE  /\ script' \in {"none", "transfer"} => stage' # 3
                    /\ script' = "handover" => \A t \in Range(todo') : Ready(t)'
  BY <1>0 DEF SmoothInv, Idle
<1>1. /\ UNCHANGED conf /\ kills' \in {kills, kills + 1} /\ kills \in Nat
      /\ DOMAIN outcome = {"migrate", "transfer"}
  <2>1. kills \in Nat /\ DOMAIN outcome = {"migrate", "transfer"}
    BY DEF Inv, TypeOK
  <2> QED BY <2>1, ConfKept
<1>2. Smooth
  BY <1>1 DEF Smooth, Deployable
<1>3. /\ outcome.migrate # "refused"
      /\ script \in {"none", "transfer"} => stage # 3
      /\ script = "handover" => \A t \in Range(todo) : Ready(t)
  BY <1>1, <1>2 DEF SmoothInv, RefusedOnlyForConfig, Smooth, Idle
<1>4. CASE UNCHANGED vars
  BY <1>3, <1>4 DEF vars, Ready
<1>5. CASE Migrate
  <2>1. stage = 2 /\ StartDeploy
    BY <1>1, <1>3, <1>5 DEF Migrate, Idle
  <2> QED BY <2>1 DEF StartDeploy
<1>6. CASE MigrateReset
  BY <1>3, <1>6 DEF MigrateReset
<1>7. CASE TransferOwnership
  BY <1>1, <1>3, <1>7 DEF TransferOwnership, Idle
<1>8. CASE CopyAddresses
  BY <1>3, <1>8 DEF CopyAddresses, Idle
<1>9. CASE Advance
  <2>1. /\ todo # <<>> /\ todo' = Tail(todo)
        /\ UNCHANGED <<conf, chain, attempt, modules, stage, script, outcome, kills>>
    BY <1>9 DEF Advance, Running
  <2>2. \A t \in Range(todo') : t \in Range(todo)
    BY <2>1, StepFacts
  <2> QED BY <1>3, <2>1, <2>2 DEF Ready
<1>10. CASE Send
  <2>1. /\ todo # <<>> /\ ~Skips /\ Step.do \notin {"confirm", "write"}
        /\ UNCHANGED <<conf, attempt, stage>>
        /\ \/ Ended("refused") /\ ~Permitted
           \/ todo' = Tail(todo) /\ UNCHANGED <<script, outcome>>
    BY <1>10, SendEffect
  <2>2. CASE script = "transfer"
    <3>1. script' \in {"none", "transfer"}
      BY <2>1, <2>2 DEF Ended
    <3> QED BY <1>3, <2>1, <2>2, <3>1
  <2>3. CASE script # "transfer"
    <3>1. todo' = Tail(todo) /\ UNCHANGED <<script, outcome>>
      BY <1>2, <2>1, <2>3, SmoothPermits DEF Smooth
    <3> QED BY <1>2, <1>3, <1>10, <2>1, <3>1, SmoothSend
  <2> QED BY <2>2, <2>3
<1>11. CASE NotConfirmed
  <2>1. script = "transfer"
    BY <1>11, StepFacts DEF NotConfirmed, Running, StepOf, DeployStep, HandoverStep
  <2>2. script' = "none" /\ stage' = stage
    BY <1>11 DEF NotConfirmed, Ended
  <2> QED BY <1>3, <2>1, <2>2
<1>12. CASE Complete
  <2>1. /\ script \in {"deploy", "handover", "transfer"} /\ todo = <<>>
        /\ UNCHANGED <<conf, chain, attempt>>
    BY <1>12 DEF Complete, Idle, Running, Inv, TypeOK
  <2>2. CASE script = "deploy"
    <3>1. script' = "handover" /\ todo' = HandoverPlan(conf) /\ UNCHANGED outcome
      BY <1>12, <2>2 DEF Complete
    <3>2. ASSUME NEW t \in Range(todo') PROVE Ready(t)'
      <4>1. Ready(t)
        BY <2>1, <2>2, <3>1, <3>2, HandoverReady
      <4> QED BY <2>1, <4>1 DEF Ready
    <3> QED BY <1>3, <3>1, <3>2
  <2>3. CASE script = "handover"
    BY <1>1, <1>12, <2>3 DEF Complete, Ended
  <2>4. CASE script = "transfer"
    BY <1>1, <1>3, <1>12, <2>4 DEF Complete, Ended
  <2> QED BY <2>1, <2>2, <2>3, <2>4
<1>13. CASE Kill
  <2>1. kills' = kills + 1
    BY <1>13 DEF Kill
  <2> QED BY <1>1, <2>1 DEF Smooth
<1>14. CASE AcceptOwnership
  <2>1. UNCHANGED <<conf, attempt, stage, script, todo, outcome>>
    BY <1>14, AcceptEffect
  <2>2. ASSUME script = "handover", NEW t \in Range(todo) PROVE Ready(t)'
    <3>1. PICK m \in TwoStep, a \in 1..MaxAttempts : Accepts(m, a)
      BY <1>14, AcceptEffect
    <3>2. Ready(t)
      BY <1>3, <2>2
    <3>3. t.to \in Created /\ attempt \in 1..MaxAttempts
      <4>1. todo # <<>>
        BY <2>2, EmptyIsSeq
      <4>2. t \in Range(Plan)
        BY <2>2, <4>1, StepFacts
      <4>3. HandoverStep(conf, t)
        BY <2>2, <4>2, PlanFacts DEF Plan, Scripts, StepOf
      <4> QED BY <2>2, <4>3 DEF HandoverStep, Inv, TypeOK, Stages
    <3>4. t.to # m \/ attempt # a
      BY <3>1, <3>2 DEF Accepts, Ready
    <3>5. chain'[t.to][attempt] = chain[t.to][attempt]
      BY <3>1, <3>3, <3>4 DEF Accepts
    <3> QED BY <2>1, <3>2, <3>5 DEF Ready
  <2> QED BY <1>3, <2>1, <2>2
<1> QED BY <1>4, <1>5, <1>6, <1>7, <1>8, <1>9, <1>10, <1>11, <1>12, <1>13, <1>14 DEF Next

(* A configuration with its values in bounds, no treasury or tax policy the *)
(* contracts turn down and the governance key at hand is refused nothing,   *)
(* for any number of kills, restarts and transfers, except a handover that  *)
(* is resumed after a kill: every constructor and setter accepts the        *)
(* values, the account that sends is in charge of every contract it sends   *)
(* to, and every acknowledgement has been allowed before.                   *)
THEOREM RefusedOnlyWhenResumed == Spec => []RefusedOnlyForConfig
<1>1. Init => SmoothInv
  BY DEF Init, SmoothInv, RefusedOnlyForConfig, Idle
<1>2. SmoothInv => RefusedOnlyForConfig
  BY DEF SmoothInv
<1> QED BY <1>1, <1>2, InvAlways, SmoothNext, PTL DEF Spec
-----------------------------------------------------------------------------
(* The transfer confirms what stays so. *)

\* Ownership passes to somebody else than the deployer.
NewOwners == \A s \in Setups : s.newOwner # s.deployer

LEMMA KeptSend ==
  ASSUME Inv, Kept, NewOwners, Send
  PROVE  Kept'
<1> USE RolloutAssumption
<1>1. CASE ~(Ended("refused") /\ UNCHANGED chain)
  <2>1. /\ Sendable /\ todo # <<>> /\ todo' = Tail(todo)
        /\ UNCHANGED <<conf, attempt, modules, script>>
        /\ chain'[Step.to][Instance] = Mined(Target)
        /\ \A m \in Created, a \in 1..MaxAttempts :
             m # Step.to \/ a # Instance => chain'[m][a] = chain[m][a]
    BY <1>1, SendEffect DEF Sendable
  <2>2. Step.to \in Created /\ Instance \in 1..MaxAttempts /\ DOMAIN Target = Fields
    BY <2>1, Sendables
  <2>3. Plan' = Plan /\ conf.newOwner # conf.deployer
    BY <2>1 DEF Plan, NewOwners, Inv, TypeOK
  <2>4. ASSUME NEW a \in 1..MaxAttempts, chain'["taxPolicy"][a].owner = conf.newOwner
        PROVE  chain'["taxPolicy"][a].pending \in {None, conf.newOwner}
    <3>1. "taxPolicy" \in Created /\ "taxPolicy" \in TwoStep
      BY DEF Created, TwoStep
    <3>2. CASE Step.to # "taxPolicy" \/ a # Instance
      BY <2>1, <2>4, <3>1, <3>2 DEF Kept
    <3>3. CASE Step.to = "taxPolicy" /\ a = Instance
      <4> DEFINE d == Mined(Target)
      <4>1. chain'["taxPolicy"][a] = d /\ Target = chain["taxPolicy"][a]
        BY <2>1, <3>3 DEF Target
      <4>2. Target.owner = conf.newOwner => Target.pending \in {None, conf.newOwner}
        BY <4>1 DEF Kept
      <4>3. CASE script = "deploy"
        BY <2>1, <2>2, <3>3, <4>1, <4>3, MinedSound, Sendables DEF Sound
      <4>4. CASE script = "handover"
        <5>1. CASE Step.do = "set"
          BY <2>2, <2>4, <4>1, <4>2, <5>1, MinedFacts
        <5>2. CASE Step.do \in {"hand", "handOnce"}
          <6>1. Step.by = conf.deployer
            BY <2>1, <3>3, <4>4, <5>2, StepFacts DEF StepOf, HandoverStep, Creator
          <6>2. Target.owner = conf.deployer
            BY <2>1, <5>2, <6>1 DEF Sendable, Permitted
          <6>3. d.owner = Target.owner
            BY <2>2, <3>1, <3>3, <5>2, MinedFacts
          <6> QED BY <2>3, <2>4, <4>1, <6>2, <6>3
        <5>3. CASE Step.do = "accept"
          BY <2>2, <4>1, <5>3, MinedFacts
        <5> QED BY <2>1, <4>4, <5>1, <5>2, <5>3, Sendables
      <4>5. CASE script = "transfer"
        BY <2>1, <2>2, <3>1, <3>3, <4>1, <4>5, MinedFacts, Sendables
      <4> QED BY <2>1, <4>3, <4>4, <4>5, Sendables
    <3> QED BY <3>2, <3>3
  <2>5. ASSUME script = "transfer", NEW t \in Range(Plan), t.do = "confirm",
               t \notin Range(Tail(todo))
        PROVE  chain'[t.to][modules[t.to]].owner = t.arg
    <3>1. /\ t # Step /\ t \notin Range(todo)
      BY <2>1, <2>5, StepFacts DEF Sendable
    <3>2. chain[t.to][modules[t.to]].owner = t.arg
      BY <2>5, <3>1 DEF Kept
    <3>3. t.to \in Created /\ modules[t.to] # 0 /\ t.arg = conf.newOwner
      BY <2>5, PlanFacts DEF Plan, Scripts, StepOf, TransferStep, Listed, HandOnce, Confirm
    <3>4. modules[t.to] \in 1..MaxAttempts
      <4>1. modules[t.to] \in 0..file /\ file \in 0..attempt /\ attempt \in 0..MaxAttempts
        BY <3>3 DEF Inv, TypeOK
      <4> QED BY <3>3, <4>1
    <3>5. CASE t.to = Step.to
      <4>1. Instance = modules[t.to]
        BY <2>5, <3>5 DEF Instance
      <4>2. Target.owner = conf.newOwner
        BY <3>2, <3>3, <3>5, <4>1 DEF Target
      <4>3. Mined(Target).owner = conf.newOwner
        BY <2>1, <2>2, <2>5, <4>2, MinedFacts, Sendables
      <4> QED BY <2>1, <3>3, <3>5, <4>1, <4>3
    <3>6. CASE t.to # Step.to
      BY <2>1, <3>2, <3>3, <3>4, <3>6
    <3> QED BY <3>5, <3>6
  <2> QED BY <2>1, <2>3, <2>4, <2>5 DEF Kept
<1>2. CASE Ended("refused") /\ UNCHANGED chain
  BY <1>2, SendEffect DEF Kept, Ended
<1> QED BY <1>1, <1>2

LEMMA KeptAccept ==
  ASSUME Inv, Kept, AcceptOwnership
  PROVE  Kept'
<1> USE RolloutAssumption
<1>1. UNCHANGED <<conf, attempt, file, modules, stage, script, todo, outcome, kills>>
  BY AcceptEffect
<1>2. PICK m \in TwoStep, a \in 1..MaxAttempts : Accepts(m, a)
  BY AcceptEffect
<1>3. Plan' = Plan
  BY <1>1 DEF Plan
<1>4. ASSUME NEW b \in 1..MaxAttempts, chain'["taxPolicy"][b].owner = conf.newOwner
      PROVE  chain'["taxPolicy"][b].pending \in {None, conf.newOwner}
  <2>1. "taxPolicy" \in Created
    BY DEF Created
  <2>2. CASE m = "taxPolicy" /\ b = a
    BY <1>2, <2>2 DEF Accepts
  <2>3. CASE m # "taxPolicy" \/ b # a
    BY <1>2, <1>4, <2>1, <2>3 DEF Accepts, Kept
  <2> QED BY <2>2, <2>3
<1>5. ASSUME script = "transfer", NEW t \in Range(Plan), t.do = "confirm", t \notin Range(todo)
      PROVE  chain'[t.to][modules[t.to]].owner = t.arg
  <2>1. /\ t.to \in Created /\ modules[t.to] # 0 /\ t.arg = conf.newOwner
        /\ t.to # "identityRegistry"
    BY <1>5, PlanFacts DEF Plan, Scripts, StepOf, TransferStep, Listed, HandOnce, Confirm
  <2>2. modules[t.to] \in 1..MaxAttempts
    <3>1. modules[t.to] \in 0..file /\ file \in 0..attempt /\ attempt \in 0..MaxAttempts
      BY <2>1 DEF Inv, TypeOK
    <3> QED BY <2>1, <3>1
  <2>3. chain[t.to][modules[t.to]].owner = conf.newOwner
    BY <1>5, <2>1 DEF Kept
  <2>4. CASE t.to = m /\ modules[t.to] = a
    <3>1. m = "taxPolicy"
      BY <2>1, <2>4 DEF TwoStep
    <3>2. chain[m][a].pending = conf.newOwner
      BY <1>2, <2>3, <2>4, <3>1 DEF Accepts, Kept
    <3> QED BY <1>2, <2>1, <2>4, <3>2 DEF Accepts
  <2>5. CASE t.to # m \/ modules[t.to] # a
    BY <1>2, <2>1, <2>2, <2>3, <2>5 DEF Accepts
  <2> QED BY <2>4, <2>5
<1> QED BY <1>1, <1>3, <1>4, <1>5 DEF Kept

LEMMA KeptNext == Inv /\ Kept /\ NewOwners /\ [Next]_vars => Kept'
<1> SUFFICES ASSUME Inv, Kept, NewOwners, [Next]_vars PROVE Kept'
  OBVIOUS
<1>1. CASE UNCHANGED <<conf, chain>> /\ script' # "transfer"
  BY <1>1 DEF Kept
<1>2. CASE UNCHANGED vars
  BY <1>2 DEF vars, Kept, Plan
<1>3. CASE TransferOwnership
  <2>1. /\ script' = "transfer" /\ todo' = TransferPlan(conf, modules)
        /\ UNCHANGED <<conf, chain, modules>>
    BY <1>3 DEF TransferOwnership
  <2>2. Plan' = todo'
    BY <2>1 DEF Plan, PlanOf
  <2> QED BY <2>1, <2>2 DEF Kept
<1>4. CASE Advance
  <2>1. /\ todo # <<>> /\ Skips /\ todo' = Tail(todo)
        /\ UNCHANGED <<conf, chain, attempt, modules, script>>
    BY <1>4 DEF Advance, Running
  <2>2. Plan' = Plan
    BY <2>1 DEF Plan
  <2>3. ASSUME script = "transfer", NEW t \in Range(Plan), t.do = "confirm",
               t \notin Range(Tail(todo))
        PROVE  chain[t.to][modules[t.to]].owner = t.arg
    <3>1. CASE t = Step
      BY <2>1, <2>3, <3>1 DEF Skips, Target, Instance
    <3>2. CASE t # Step
      BY <2>1, <2>3, <3>2, StepFacts DEF Kept
    <3> QED BY <3>1, <3>2
  <2> QED BY <2>1, <2>2, <2>3 DEF Kept
<1>5. CASE CopyAddresses
  BY <1>1, <1>5 DEF CopyAddresses, Idle
<1>6. CASE Migrate
  BY <1>1, <1>6 DEF Migrate, StartDeploy
<1>7. CASE MigrateReset
  BY <1>1, <1>7 DEF MigrateReset, StartDeploy
<1>8. CASE NotConfirmed
  BY <1>1, <1>8 DEF NotConfirmed, Ended
<1>9. CASE Complete
  BY <1>1, <1>9 DEF Complete, Ended, Inv, TypeOK, Idle
<1>10. CASE Kill
  BY <1>1, <1>10 DEF Kill, Ended
<1> QED BY <1>2, <1>3, <1>4, <1>5, <1>6, <1>7, <1>8, <1>9, <1>10, KeptSend, KeptAccept DEF Next

LEMMA TransferredOwned ==
  ASSUME Inv, Kept, script = "transfer", todo = <<>>
  PROVE  ListedOwned
<1> SUFFICES ASSUME NEW m \in Listed, modules[m] # 0
             PROVE  chain[m][modules[m]].owner = conf.newOwner
  BY DEF ListedOwned
<1> DEFINE t == Confirm(m, conf.newOwner)
<1>1. Plan = TransferPlan(conf, modules)
  BY DEF Plan, PlanOf
<1>2. Insists(conf, modules, TransferPlan(conf, modules), m)
  BY TransferPlanned
<1>3. t \in Range(Plan)
  BY <1>1, <1>2 DEF Insists
<1>4. t.do = "confirm" /\ t.to = m /\ t.arg = conf.newOwner
  BY DEF Confirm
<1>5. Range(todo) = {}
  BY EmptyIsSeq
<1> HIDE DEF t
<1> QED BY <1>3, <1>4, <1>5 DEF Kept

LEMMA ReportsOnlyAtTheEnd ==
  ASSUME Inv, [Next]_vars, outcome.transfer = "none", outcome'.transfer = "transferred"
  PROVE  script = "transfer" /\ todo = <<>> /\ UNCHANGED <<conf, chain, modules>>
<1>1. DOMAIN outcome = {"migrate", "transfer"} /\ script \in Scripts
  BY DEF Inv, TypeOK, Scripts
<1>2. ASSUME NEW how, Ended(how), how # "transferred" PROVE FALSE
  BY <1>1, <1>2 DEF Ended
<1>3. CASE Complete
  <2>1. CASE script = "transfer"
    BY <1>3, <2>1 DEF Complete, Running
  <2>2. CASE script = "handover"
    BY <1>2, <1>3, <2>2 DEF Complete
  <2>3. CASE script = "deploy"
    BY <1>3, <2>3 DEF Complete
  <2> QED BY <1>1, <1>3, <2>1, <2>2, <2>3 DEF Scripts, Complete, Idle
<1>4. CASE Send
  BY <1>2, <1>4, SendEffect
<1>5. CASE NotConfirmed
  BY <1>2, <1>5 DEF NotConfirmed
<1>6. CASE Kill
  BY <1>2, <1>6 DEF Kill
<1>7. CASE Migrate \/ MigrateReset \/ TransferOwnership
  BY <1>1, <1>7 DEF Migrate, MigrateReset, TransferOwnership
<1>8. CASE UNCHANGED outcome
  BY <1>8
<1> QED BY <1>3, <1>4, <1>5, <1>6, <1>7, <1>8, AcceptEffect
        DEF Next, vars, CopyAddresses, Advance

(* A script that reports success leaves the owners it reports, for any      *)
(* number of kills, restarts and partial copies of the addresses, as long   *)
(* as the new owner is not the deployer: a deployer who is to be the owner  *)
(* again already owns the tax policy when the transfer looks at it, while   *)
(* the offer of the handover to the final governance still stands and may   *)
(* be taken before the transfer ends.                                       *)
THEOREM ReportedOwnersOwn == NewOwners => (Spec => OwnersAsReported)
<1>1. ASSUME NewOwners PROVE Init => Kept
  <2> SUFFICES ASSUME Init PROVE Kept
    OBVIOUS
  <2>1. script = "none" /\ conf.newOwner # None
    BY RolloutAssumption DEF Init
  <2>2. \A a \in 1..MaxAttempts : chain["taxPolicy"][a].owner = None
    <3>1. "taxPolicy" \in Created
      BY DEF Created
    <3> QED BY <3>1 DEF Init, Fresh, Absent
  <2> QED BY <2>1, <2>2 DEF Kept
<1>2. Inv /\ Kept /\ Inv' /\ [Next]_vars =>
        [/\ HandedOver'
         /\ (outcome.transfer = "none" /\ outcome'.transfer = "transferred") => ListedOwned']_vars
  <2> SUFFICES ASSUME Inv, Kept, Inv', [Next]_vars,
                      outcome.transfer = "none", outcome'.transfer = "transferred"
               PROVE  ListedOwned'
    BY DEF Inv
  <2>1. script = "transfer" /\ todo = <<>> /\ UNCHANGED <<conf, chain, modules>>
    BY ReportsOnlyAtTheEnd
  <2>2. ListedOwned
    BY <2>1, TransferredOwned
  <2> QED BY <2>1, <2>2 DEF ListedOwned
<1> SUFFICES ASSUME NewOwners PROVE Spec => OwnersAsReported
  OBVIOUS
<1>3. Init => Kept
  BY <1>1
<1>4. Inv /\ Kept /\ [Next]_vars => Kept'
  BY KeptNext
<1> QED BY <1>2, <1>3, <1>4, InvAlways, PTL DEF Spec, OwnersAsReported
=============================================================================
