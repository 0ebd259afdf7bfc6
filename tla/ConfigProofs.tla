---------------------------- MODULE ConfigProofs ----------------------------
(***************************************************************************)
(* Theorems about ConfigScripts for any configuration files, deployments,  *)
(* accounts and numbers of kills and automatic changes.                    *)
(***************************************************************************)
EXTENDS ConfigScripts, SequenceTheorems, FiniteSetTheorems, TLAPS

-----------------------------------------------------------------------------
(* Sequences. *)

IsSeq(s) == s \in Seq(Range(s))

LEMMA Entries1 ==
  ASSUME NEW s, IsSeq(s)
  PROVE  /\ Len(s) \in Nat /\ DOMAIN s = 1..Len(s)
         /\ \A i \in 1..Len(s) : s[i] \in Range(s)
         /\ \A x \in Range(s) : \E i \in 1..Len(s) : x = s[i]
<1>1. Len(s) \in Nat /\ DOMAIN s = 1..Len(s)
  BY LenProperties DEF IsSeq
<1> QED BY <1>1 DEF Range

LEMMA EmptyIsSeq == IsSeq(<<>>) /\ Range(<<>>) = {}
BY DEF IsSeq, Range

LEMMA OneIsSeq == ASSUME NEW x PROVE IsSeq(<<x>>) /\ Range(<<x>>) = {x}
BY DEF IsSeq, Range

LEMMA ConcatIsSeq ==
  ASSUME NEW s, NEW t, IsSeq(s), IsSeq(t)
  PROVE  IsSeq(s \o t) /\ Range(s \o t) = Range(s) \cup Range(t)
<1> DEFINE S == Range(s) \cup Range(t)
<1>1. s \in Seq(S) /\ t \in Seq(S)
  <2>1. Range(s) \subseteq S /\ Range(t) \subseteq S
    OBVIOUS
  <2> QED BY <2>1, SeqMonotonic DEF IsSeq
<1>2. Len(s) \in Nat /\ Len(t) \in Nat
  BY Entries1
<1>3. /\ s \o t \in Seq(S)
      /\ Len(s \o t) = Len(s) + Len(t)
      /\ \A i \in 1..Len(s) + Len(t) :
           (s \o t)[i] = IF i <= Len(s) THEN s[i] ELSE t[i - Len(s)]
  BY <1>1, ConcatProperties
<1>4. DOMAIN (s \o t) = 1..Len(s) + Len(t)
  BY <1>3, LenProperties
<1>5. Range(s \o t) \subseteq S
  BY <1>3, <1>4, LenProperties, ElementOfSeq DEF Range
<1>6. Range(s) \subseteq Range(s \o t)
  <2> SUFFICES ASSUME NEW i \in 1..Len(s) PROVE s[i] \in Range(s \o t)
    BY Entries1
  <2>1. i \in 1..Len(s) + Len(t) /\ i <= Len(s)
    BY <1>2
  <2>2. (s \o t)[i] = s[i]
    BY <1>3, <2>1
  <2> QED BY <1>4, <2>1, <2>2 DEF Range
<1>7. Range(t) \subseteq Range(s \o t)
  <2> SUFFICES ASSUME NEW i \in 1..Len(t) PROVE t[i] \in Range(s \o t)
    BY Entries1
  <2>1. /\ i + Len(s) \in 1..Len(s) + Len(t) /\ ~(i + Len(s) <= Len(s))
        /\ i + Len(s) - Len(s) = i
    BY <1>2
  <2>2. (s \o t)[i + Len(s)] = t[i]
    BY <1>3, <2>1
  <2> QED BY <1>4, <2>1, <2>2 DEF Range
<1>8. Range(s \o t) = S
  BY <1>5, <1>6, <1>7
<1> QED BY <1>3, <1>8 DEF IsSeq

\* What holds before a loop and survives every turn holds throughout.
LEMMA Throughout ==
  ASSUME NEW n \in Nat, NEW B,
         0 \in B, \A i \in 1..n : i - 1 \in B => i \in B
  PROVE  \A i \in 0..n : i \in B
<1> DEFINE bad == {i \in 0..n : i \notin B}
<1> SUFFICES ASSUME bad # {} PROVE FALSE
  OBVIOUS
<1>1. bad \subseteq Nat
  OBVIOUS
<1>2. PICK x \in bad : \A y \in bad : <<y, x>> \notin OpToRel(<, Nat)
  BY <1>1, NatLessThanWellFounded, WFMin
<1>3. x # 0 /\ x - 1 \in 0..n /\ x \in 1..n
  OBVIOUS
<1>4. <<x - 1, x>> \in OpToRel(<, Nat)
  BY <1>1, <1>3 DEF OpToRel
<1>5. x - 1 \in B
  BY <1>2, <1>3, <1>4
<1> QED BY <1>3, <1>5

\* The intermediate results of FlattenSeq.
Flattened(seqs, n, f) ==
  f = [i \in 1..n |-> IF i = 1 THEN seqs[i] ELSE f[i - 1] \o seqs[i]]

LEMMA FlattenRuns ==
  ASSUME NEW seqs, NEW n \in Nat
  PROVE  \E f : Flattened(seqs, n, f)
<1> DEFINE B == {k \in 0..n : \E f : Flattened(seqs, k, f)}
<1>1. 0 \in B
  <2> DEFINE f == [i \in 1..0 |-> seqs[i]]
  <2>1. f = [i \in 1..0 |-> IF i = 1 THEN seqs[i] ELSE f[i - 1] \o seqs[i]]
    OBVIOUS
  <2> HIDE DEF f
  <2>2. Flattened(seqs, 0, f)
    BY <2>1 DEF Flattened
  <2> QED BY <2>2
<1>2. ASSUME NEW k \in 1..n, k - 1 \in B PROVE k \in B
  <2>1. PICK f : Flattened(seqs, k - 1, f)
    BY <1>2
  <2>2. \A i \in 1..(k - 1) : f[i] = IF i = 1 THEN seqs[i] ELSE f[i - 1] \o seqs[i]
    BY <2>1 DEF Flattened
  <2> DEFINE h == [i \in 1..k |-> IF i = 1 THEN seqs[1] ELSE IF i = k THEN f[k - 1] \o seqs[k] ELSE f[i]]
  <2>8. \A i \in 1..k : h[i] = IF i = 1 THEN seqs[1] ELSE IF i = k THEN f[k - 1] \o seqs[k] ELSE f[i]
    OBVIOUS
  <2>5. h = [i \in 1..k |-> h[i]]
    OBVIOUS
  <2> HIDE DEF h
  <2>3. \A i \in 1..(k - 1) : h[i] = f[i]
    BY <2>2, <2>8
  <2>4. \A i \in 1..k : h[i] = IF i = 1 THEN seqs[i] ELSE h[i - 1] \o seqs[i]
    <3> TAKE i \in 1..k
    <3>1. CASE i = 1
      BY <2>8, <3>1
    <3>2. CASE i # 1 /\ i = k
      <4>2. i = k /\ k - 1 \in 1..(k - 1)
        BY <3>2
      <4>1. h[k] = f[k - 1] \o seqs[k] /\ i - 1 = k - 1
        BY <2>8, <3>2, <4>2
      <4>3. h[k - 1] = f[k - 1]
        BY <2>3, <4>2
      <4> QED BY <3>2, <4>1, <4>2, <4>3
    <3>3. CASE i # 1 /\ i # k
      <4>1. i \in 1..(k - 1) /\ i - 1 \in 1..(k - 1)
        BY <3>3
      <4>2. h[i] = f[i] /\ h[i - 1] = f[i - 1]
        BY <2>3, <4>1
      <4>3. f[i] = f[i - 1] \o seqs[i]
        BY <2>2, <3>3, <4>1
      <4> QED BY <3>3, <4>2, <4>3
    <3> QED BY <3>1, <3>2, <3>3
  <2>6. Flattened(seqs, k, h)
    BY <2>4, <2>5 DEF Flattened
  <2> QED BY <2>6
<1>3. \A i \in 1..n : i - 1 \in B => i \in B
  BY <1>2
<1> HIDE DEF B
<1>4. \A i \in 0..n : i \in B
  BY <1>1, <1>3, Throughout
<1>5. n \in B
  BY <1>4
<1> QED BY <1>5 DEF B

LEMMA FlattenFacts ==
  ASSUME NEW n \in Nat, NEW seqs, Len(seqs) = n, DOMAIN seqs = 1..n,
         seqs = [i \in 1..n |-> seqs[i]], \A i \in 1..n : IsSeq(seqs[i])
  PROVE  /\ IsSeq(FlattenSeq(seqs))
         /\ Range(FlattenSeq(seqs)) = UNION {Range(seqs[i]) : i \in 1..n}
<1>1. CASE n = 0
  <2>1. seqs = <<>> /\ FlattenSeq(seqs) = <<>> /\ 1..n = {}
    BY <1>1 DEF FlattenSeq
  <2> QED BY <2>1, EmptyIsSeq
<1>2. CASE n # 0
  <2> DEFINE f == CHOOSE g : Flattened(seqs, n, g)
             B == {i \in 0..n : i = 0 \/ (/\ IsSeq(f[i])
                                          /\ Range(f[i]) = UNION {Range(seqs[j]) : j \in 1..i})}
  <2>1. Flattened(seqs, n, f)
    BY FlattenRuns
  <2>2. FlattenSeq(seqs) = f[n]
    BY <1>2 DEF FlattenSeq, Flattened
  <2> HIDE DEF f
  <2>3. 0 \in B
    OBVIOUS
  <2>4. ASSUME NEW i \in 1..n, i - 1 \in B PROVE i \in B
    <3>1. f[i] = IF i = 1 THEN seqs[i] ELSE f[i - 1] \o seqs[i]
      BY <2>1 DEF Flattened
    <3>2. CASE i = 1
      <4>1. f[i] = seqs[i] /\ IsSeq(seqs[i]) /\ 1..i = {i}
        BY <3>1, <3>2
      <4> QED BY <4>1
    <3>3. CASE i # 1
      <4>1. /\ f[i] = f[i - 1] \o seqs[i] /\ IsSeq(f[i - 1]) /\ IsSeq(seqs[i])
            /\ Range(f[i - 1]) = UNION {Range(seqs[j]) : j \in 1..(i - 1)}
        BY <2>4, <3>1, <3>3
      <4>2. IsSeq(f[i]) /\ Range(f[i]) = Range(f[i - 1]) \cup Range(seqs[i])
        BY <4>1, ConcatIsSeq
      <4>3. 1..i = 1..(i - 1) \cup {i}
        BY <3>3
      <4>5. UNION {Range(seqs[j]) : j \in 1..(i - 1) \cup {i}} =
              (UNION {Range(seqs[j]) : j \in 1..(i - 1)}) \cup Range(seqs[i])
        OBVIOUS
      <4>4. Range(f[i]) = UNION {Range(seqs[j]) : j \in 1..i}
        BY <4>1, <4>2, <4>3, <4>5
      <4> QED BY <4>2, <4>4
    <3> QED BY <3>2, <3>3
  <2>5. \A i \in 1..n : i - 1 \in B => i \in B
    BY <2>4
  <2> HIDE DEF B
  <2>6. \A i \in 0..n : i \in B
    BY <2>3, <2>5, Throughout
  <2>7. n \in B
    BY <2>6
  <2> QED BY <1>2, <2>2, <2>7 DEF B
<1> QED BY <1>1, <1>2

\* x may not come before y: the participants acknowledge one text once.
Clash(x, y) == x.fn = <<"tp", "policy">> /\ y.fn = <<"tp", "policy">>

InOrder(s) == \A i, k \in DOMAIN s : i < k => ~Clash(s[i], s[k])

LEMMA ConcatInOrder ==
  ASSUME NEW s, NEW t, IsSeq(s), IsSeq(t), InOrder(s), InOrder(t),
         \A x \in Range(s), y \in Range(t) : ~Clash(x, y)
  PROVE  InOrder(s \o t)
<1> DEFINE S == Range(s) \cup Range(t)
<1>1. s \in Seq(S) /\ t \in Seq(S)
  <2>1. Range(s) \subseteq S /\ Range(t) \subseteq S
    OBVIOUS
  <2> QED BY <2>1, SeqMonotonic DEF IsSeq
<1>2. /\ Len(s) \in Nat /\ DOMAIN s = 1..Len(s)
      /\ Len(t) \in Nat /\ DOMAIN t = 1..Len(t)
      /\ \A i \in 1..Len(s) : s[i] \in Range(s)
      /\ \A i \in 1..Len(t) : t[i] \in Range(t)
  BY Entries1
<1>3. /\ s \o t \in Seq(S)
      /\ Len(s \o t) = Len(s) + Len(t)
      /\ \A i \in 1..Len(s) + Len(t) :
           (s \o t)[i] = IF i <= Len(s) THEN s[i] ELSE t[i - Len(s)]
  BY <1>1, ConcatProperties
<1>4. DOMAIN (s \o t) = 1..Len(s) + Len(t)
  BY <1>3, LenProperties
<1> SUFFICES ASSUME NEW i \in 1..Len(s) + Len(t), NEW k \in 1..Len(s) + Len(t), i < k
             PROVE  ~Clash((s \o t)[i], (s \o t)[k])
  BY <1>4 DEF InOrder
<1>5. CASE k <= Len(s)
  <2>1. i \in 1..Len(s) /\ k \in 1..Len(s) /\ (s \o t)[i] = s[i] /\ (s \o t)[k] = s[k]
    BY <1>2, <1>3, <1>5
  <2> QED BY <1>2, <2>1 DEF InOrder
<1>6. CASE ~(k <= Len(s)) /\ i <= Len(s)
  <2>1. /\ i \in 1..Len(s) /\ k - Len(s) \in 1..Len(t)
        /\ (s \o t)[i] = s[i] /\ (s \o t)[k] = t[k - Len(s)]
    BY <1>2, <1>3, <1>6
  <2> QED BY <1>2, <2>1
<1>7. CASE ~(k <= Len(s)) /\ ~(i <= Len(s))
  <2>1. /\ i - Len(s) \in 1..Len(t) /\ k - Len(s) \in 1..Len(t)
        /\ i - Len(s) < k - Len(s)
        /\ (s \o t)[i] = t[i - Len(s)] /\ (s \o t)[k] = t[k - Len(s)]
    BY <1>2, <1>3, <1>7
  <2> QED BY <1>2, <2>1 DEF InOrder
<1> QED BY <1>5, <1>6, <1>7

-----------------------------------------------------------------------------
(* What the operators of the plans send. *)

\* The two kinds of transactions: one parameter, or several together.
Lone(cfg, k) == [fn |-> k, set |-> Only(k, cfg[k])]
Joint(ch, cfg, fn, ks) == [fn |-> fn, set |-> [k \in ks |-> Target(ch, cfg, k)]]

LEMMA OneFacts ==
  ASSUME NEW ch, NEW cfg, NEW k
  PROVE  /\ IsSeq(One(ch, cfg, k))
         /\ \A c \in Range(One(ch, cfg, k)) : Differs(ch, cfg, k) /\ c = Lone(cfg, k)
         /\ Differs(ch, cfg, k) => Lone(cfg, k) \in Range(One(ch, cfg, k))
BY EmptyIsSeq, OneIsSeq DEF One, Call, Lone

LEMMA EachFacts ==
  ASSUME NEW ch, NEW cfg, NEW ks, IsSeq(ks)
  PROVE  /\ IsSeq(Each(ch, cfg, ks))
         /\ \A c \in Range(Each(ch, cfg, ks)) :
              \E k \in Range(ks) : Differs(ch, cfg, k) /\ c = Lone(cfg, k)
         /\ \A k \in Range(ks) :
              Differs(ch, cfg, k) => Lone(cfg, k) \in Range(Each(ch, cfg, ks))
<1> DEFINE n == Len(ks)
           seqs == [i \in DOMAIN ks |-> One(ch, cfg, ks[i])]
<1>1. n \in Nat /\ DOMAIN ks = 1..n /\ \A x \in Range(ks) : \E i \in 1..n : x = ks[i]
  BY Entries1
<1>2. \A i \in 1..n : ks[i] \in Range(ks)
  BY Entries1
<1>3. seqs \in [1..n -> {One(ch, cfg, k) : k \in Range(ks)}]
  BY <1>1, <1>2
<1>4. DOMAIN seqs = 1..n /\ Len(seqs) = n /\ seqs = [i \in 1..n |-> seqs[i]]
  BY <1>1
<1>5. \A i \in 1..n : seqs[i] = One(ch, cfg, ks[i])
  BY <1>1
<1>6. Each(ch, cfg, ks) = FlattenSeq(seqs)
  BY DEF Each
<1> HIDE DEF seqs
<1>8. \A i \in 1..n : /\ IsSeq(seqs[i])
                      /\ \A c \in Range(seqs[i]) : Differs(ch, cfg, ks[i]) /\ c = Lone(cfg, ks[i])
                      /\ Differs(ch, cfg, ks[i]) => Lone(cfg, ks[i]) \in Range(seqs[i])
  BY <1>5, OneFacts
<1> HIDE DEF n
<1>9. /\ IsSeq(FlattenSeq(seqs))
      /\ Range(FlattenSeq(seqs)) = UNION {Range(seqs[i]) : i \in 1..n}
  BY <1>1, <1>4, <1>8, FlattenFacts
<1>10. ASSUME NEW c \in Range(FlattenSeq(seqs))
       PROVE  \E k \in Range(ks) : Differs(ch, cfg, k) /\ c = Lone(cfg, k)
  <2>1. PICK i \in 1..n : c \in Range(seqs[i])
    BY <1>9
  <2>2. Differs(ch, cfg, ks[i]) /\ c = Lone(cfg, ks[i])
    BY <1>8, <2>1
  <2> QED BY <1>2, <2>2
<1>11. ASSUME NEW k \in Range(ks), Differs(ch, cfg, k)
       PROVE  Lone(cfg, k) \in Range(FlattenSeq(seqs))
  <2>1. PICK i \in 1..n : k = ks[i]
    BY <1>1
  <2>2. Lone(cfg, k) \in Range(seqs[i])
    BY <1>8, <1>11, <2>1
  <2> QED BY <1>9, <2>2
<1> QED BY <1>6, <1>9, <1>10, <1>11

LEMMA AmongFacts ==
  ASSUME NEW list, NEW S, IsSeq(list)
  PROVE  IsSeq(Among(list, S)) /\ Range(Among(list, S)) = Range(list) \cap S
<1> DEFINE n == Len(list)
           seqs == [i \in DOMAIN list |-> IF list[i] \in S THEN <<list[i]>> ELSE <<>>]
<1>1. n \in Nat /\ DOMAIN list = 1..n /\ \A x \in Range(list) : \E i \in 1..n : x = list[i]
  BY Entries1
<1>2. \A i \in 1..n : list[i] \in Range(list)
  BY Entries1
<1>3. DOMAIN seqs = 1..n /\ Len(seqs) = n /\ seqs = [i \in 1..n |-> seqs[i]]
  BY <1>1
<1>4. \A i \in 1..n : seqs[i] = IF list[i] \in S THEN <<list[i]>> ELSE <<>>
  BY <1>1
<1>5. Among(list, S) = FlattenSeq(seqs)
  BY DEF Among
<1> HIDE DEF seqs
<1>6. \A i \in 1..n : /\ IsSeq(seqs[i])
                      /\ Range(seqs[i]) = IF list[i] \in S THEN {list[i]} ELSE {}
  BY <1>4, EmptyIsSeq, OneIsSeq
<1> HIDE DEF n
<1>7. /\ IsSeq(FlattenSeq(seqs))
      /\ Range(FlattenSeq(seqs)) = UNION {Range(seqs[i]) : i \in 1..n}
  BY <1>1, <1>3, <1>6, FlattenFacts
<1>8. \A x : x \in UNION {Range(seqs[i]) : i \in 1..n} <=> x \in Range(list) \cap S
  <2> TAKE x
  <2>1. x \in UNION {Range(seqs[i]) : i \in 1..n} <=> \E i \in 1..n : x \in Range(seqs[i])
    OBVIOUS
  <2>2. \A i \in 1..n : x \in Range(seqs[i]) <=> x = list[i] /\ list[i] \in S
    BY <1>6
  <2> QED BY <1>1, <1>2, <2>1, <2>2
<1> QED BY <1>5, <1>7, <1>8

LEMMA TogetherFacts ==
  ASSUME NEW ch, NEW cfg, NEW fn, NEW ks
  PROVE  /\ IsSeq(Together(ch, cfg, fn, ks))
         /\ \A c \in Range(Together(ch, cfg, fn, ks)) :
              c = Joint(ch, cfg, fn, ks) /\ \E k \in ks : Differs(ch, cfg, k)
         /\ IsSeq(AllOrNone(ch, cfg, fn, ks))
         /\ \A c \in Range(AllOrNone(ch, cfg, fn, ks)) :
              c = Joint(ch, cfg, fn, ks) /\ ks \subseteq DOMAIN cfg
<1>1. IsSeq(Together(ch, cfg, fn, ks))
  BY EmptyIsSeq, OneIsSeq DEF Together, Call
<1>2. \A c \in Range(Together(ch, cfg, fn, ks)) :
        c = Joint(ch, cfg, fn, ks) /\ \E k \in ks : Differs(ch, cfg, k)
  BY EmptyIsSeq, OneIsSeq DEF Together, Call, Joint
<1>3. IsSeq(AllOrNone(ch, cfg, fn, ks))
  BY <1>1, EmptyIsSeq DEF AllOrNone
<1>4. \A c \in Range(AllOrNone(ch, cfg, fn, ks)) :
        c = Joint(ch, cfg, fn, ks) /\ ks \subseteq DOMAIN cfg
  BY <1>2, EmptyIsSeq DEF AllOrNone
<1> QED BY <1>1, <1>2, <1>3, <1>4


-----------------------------------------------------------------------------
(* Lists of keys. *)

LEMMA NamedFacts ==
  ASSUME NEW c, NEW ns, IsSeq(ns)
  PROVE  /\ IsSeq(Named(c, ns))
         /\ \A k \in Range(Named(c, ns)) : \E n \in Range(ns) : k = <<c, n>>
         /\ \A n \in Range(ns) : <<c, n>> \in Range(Named(c, ns))
<1>1. /\ Len(ns) \in Nat /\ DOMAIN ns = 1..Len(ns)
      /\ \A i \in 1..Len(ns) : ns[i] \in Range(ns)
      /\ \A x \in Range(ns) : \E i \in 1..Len(ns) : x = ns[i]
  BY Entries1
<1> QED BY <1>1 DEF Named, IsSeq, Range

LEMMA PerAccountFacts ==
  ASSUME NEW c, NEW list
  PROVE  /\ IsSeq(PerAccount(c, list))
         /\ \A k \in Range(PerAccount(c, list)) : \E a \in Members : k = <<c, list, a>>
         /\ \A a \in Members : <<c, list, a>> \in Range(PerAccount(c, list))
<1>1. Accounts \in Seq(Members)
  BY ChainAssumption
<1>2. Len(Accounts) \in Nat /\ DOMAIN Accounts = 1..Len(Accounts)
  BY <1>1, LenProperties
<1>3. /\ \A i \in 1..Len(Accounts) : Accounts[i] \in Members
      /\ \A a \in Members : \E i \in 1..Len(Accounts) : a = Accounts[i]
  BY <1>2 DEF Members
<1>4. PerAccount(c, list) = [i \in 1..Len(Accounts) |-> <<c, list, Accounts[i]>>]
  BY <1>2 DEF PerAccount
<1> DEFINE p == PerAccount(c, list)
<1>5. DOMAIN p = 1..Len(Accounts) /\ \A i \in 1..Len(Accounts) : p[i] = <<c, list, Accounts[i]>>
  BY <1>4
<1>6. IsSeq(p)
  <2>1. p \in [1..Len(Accounts) -> Range(p)]
    BY <1>4 DEF Range
  <2> HIDE DEF p
  <2> QED BY <1>2, <2>1 DEF IsSeq
<1> HIDE DEF p
<1>7. \A k \in Range(p) : \E a \in Members : k = <<c, list, a>>
  <2> SUFFICES ASSUME NEW i \in 1..Len(Accounts) PROVE \E a \in Members : p[i] = <<c, list, a>>
    BY <1>5 DEF Range
  <2>1. p[i] = <<c, list, Accounts[i]>> /\ Accounts[i] \in Members
    BY <1>3, <1>5
  <2> QED BY <2>1
<1>8. \A a \in Members : <<c, list, a>> \in Range(p)
  BY <1>3, <1>5 DEF Range
<1> QED BY <1>6, <1>7, <1>8 DEF p

LEMMA PerRoleFacts ==
  ASSUME NEW c, NEW list
  PROVE  /\ IsSeq(PerRole(c, list))
         /\ \A k \in Range(PerRole(c, list)) : \E r \in Roles : k = <<c, list, r>>
         /\ \A r \in Roles : <<c, list, r>> \in Range(PerRole(c, list))
<1>1. DOMAIN RoleOrder = 1..4 /\ \A i \in 1..4 : RoleOrder[i] \in Roles
  BY DEF RoleOrder, Roles
<1>2. RoleOrder[1] = "agent" /\ RoleOrder[2] = "validator" /\ RoleOrder[3] = "operator" /\ RoleOrder[4] = "employer"
  BY DEF RoleOrder
<1>3. \A r \in Roles : \E i \in 1..4 : r = RoleOrder[i]
  BY <1>2 DEF Roles
<1> QED BY <1>1, <1>3 DEF PerRole, IsSeq, Range

-----------------------------------------------------------------------------
(* What a plan may contain. *)

Names(c, ns) == {<<c, n>> : n \in ns}
Each3(c, list, xs) == {<<c, list, x>> : x \in xs}

\* The parameters a script compares and sends one by one.
RegistrySingles ==
  Names("jr", Scalars.jr \ {"feePool"}) \cup Each3("jr", "acknowledger", Members)
StakeSingles ==
  Names("sm", {"treasury", "pauser", "thermostat", "hamiltonianFeed", "jobRegistry",
               "disputeModule", "validationModule", "feePool", "minStake", "maxStake", "feePct",
               "burnPct", "validatorRewardPct", "unbondingPeriod", "autoStakeTuning",
               "maxAGITypes", "maxTotalPayoutPct"})
  \cup Each3("sm", "allow", Members)
PoolSingles ==
  Names("fp", Scalars.fp) \cup Each3("fp", "allow", Members) \cup Each3("fp", "rewarder", Members)
TaxSingles == Each3("tp", "acknowledger", Members)
ThermoSingles ==
  Names("re", Scalars.re) \cup Each3("re", "settler", Members)
  \cup Each3("re", "mu", Roles) \cup Each3("re", "baseline", Roles)
  \cup {<<"th", "systemTemperature">>} \cup RoleTemps
EconomicsSingles ==
  Names("jr", Scalars.jr)
  \cup Names("sm", {"minStake", "treasury", "feePct", "burnPct", "validatorRewardPct",
                    "unbondingPeriod", "maxStake"})
  \cup Each3("sm", "allow", Members) \cup Names("fp", {"burnPct", "treasury"})
  \cup Each3("fp", "allow", Members) \cup TaxSingles

SlashKeys == {K("sm", "employerSlashPct"), K("sm", "treasurySlashPct")}
PoolKeys == {K("pi", n) : n \in {"stakeManager", "platformRegistry", "jobRouter"}}

\* A key with an entry in the file, sent on its own.
Single(keys, ch, cfg, c) ==
  \E k \in keys : k \in DOMAIN cfg /\ c = Lone(cfg, k) /\ cfg[k] # ch[k]

Recommending(ch, cfg, c) ==
  /\ c = Joint(ch, Recommended(cfg), K("sm", "recommendations"), Recommendable)
  /\ DOMAIN Recommended(cfg) # {}

Policy(set) == [fn |-> K("tp", "policy"), set |-> set]

RegistryCall(ch, cfg, c) ==
  Single(RegistrySingles, ch, cfg, c) /\ (c.fn = TaxPolicyKey => cfg[c.fn] # Zero)

StakeCall(ch, cfg, c) ==
  \/ Single(StakeSingles, ch, cfg, c) /\ (c.fn \in Range(StakeModules) => cfg[c.fn] # Zero)
  \/ Recommending(ch, cfg, c)
  \/ c = Joint(ch, cfg, K("sm", "slashing"), SlashKeys) /\ SlashKeys \cap DOMAIN cfg # {}
  \/ c = Joint(ch, cfg, K("sm", "autoStake"), AutoStake)

PoolCall(ch, cfg, c) ==
  LET t == K("fp", "treasury") IN
  \/ Single(PoolSingles, ch, cfg, c) /\ (c.fn \in FeePoolAddresses => cfg[c.fn] # Zero)
  \/ t \in DOMAIN cfg /\ cfg[t] # Zero
       /\ c = [fn |-> <<"fp", "allow", cfg[t]>>, set |-> Only(<<"fp", "allow", cfg[t]>>, TRUE)]

IncentivesCall(ch, cfg, c) == c = Joint(ch, cfg, K("pi", "modules"), PoolKeys)

TaxCall(ch, cfg, c) ==
  \/ \E k \in TaxSingles : k \in DOMAIN cfg /\ c = Lone(cfg, k)
  \/ \E ks : /\ ks \subseteq Texts \cap DOMAIN cfg /\ ks # {}
             /\ \A k \in ks : cfg[k] # Trim(ch[k])
             /\ c = Policy([k \in ks |-> cfg[k]])
  \/ K("tp", "bumpVersion") \in DOMAIN cfg /\ c = Policy(<<>>)

ThermoGroups ==
  {[fn |-> K("th", "bounds"), keys |-> Bounds],
   [fn |-> K("th", "integralBounds"), keys |-> IntegralBounds],
   [fn |-> K("th", "pid"), keys |-> PID],
   [fn |-> K("th", "weights"), keys |-> Weights]}
ThermoCall(ch, cfg, c) ==
  \/ Single(ThermoSingles \ RoleTemps, ch, cfg, c)
  \/ \E k \in RoleTemps : k \in DOMAIN cfg /\ cfg[k] # Unset /\ c = Lone(cfg, k)
  \/ \E k \in RoleTemps : k \in DOMAIN cfg /\ c = [fn |-> <<"th", "unset", k[3]>>, set |-> Only(k, 0)]
  \/ c = Joint(ch, cfg, K("re", "shares"), Shares) /\ \E k \in Shares : Differs(ch, cfg, k)
  \/ \E g \in ThermoGroups : g.keys \subseteq DOMAIN cfg /\ c = Joint(ch, cfg, g.fn, g.keys)

PauseCall(ch, cfg, c) == c = [fn |-> K("sp", "modules"), set |-> [k \in PauseKeys |-> cfg[k]]]

EconomicsCall(ch, cfg, c) ==
  \/ Single(EconomicsSingles \ TaxSingles, ch, cfg, c)
  \/ \E k \in TaxSingles : k \in DOMAIN cfg /\ c = Lone(cfg, k)
  \/ Recommending(ch, cfg, c)
  \/ c = Joint(ch, cfg, K("sm", "slashing"), SlashKeys)
  \/ \E ks : /\ ks = Texts \cap DOMAIN cfg /\ \E k \in ks : cfg[k] # ch[k]
             /\ c = Policy([k \in ks |-> cfg[k]])

-----------------------------------------------------------------------------

LEMMA LoneFields ==
  ASSUME NEW cfg, NEW k
  PROVE  Lone(cfg, k).fn = k /\ Lone(cfg, k).set = Only(k, cfg[k])
BY DEF Lone

\* The transactions Each plans are single ones, without the values left at zero.
LEMMA EachSingles ==
  ASSUME NEW ch, NEW cfg, NEW ks, NEW keys, IsSeq(ks), Range(ks) \subseteq keys
  PROVE  /\ IsSeq(Each(ch, cfg, ks))
         /\ \A c \in Range(Each(ch, cfg, ks)) : Single(keys, ch, cfg, c) /\ c.fn \in Range(ks)
<1>1. /\ IsSeq(Each(ch, cfg, ks))
      /\ \A c \in Range(Each(ch, cfg, ks)) :
           \E k \in Range(ks) : Differs(ch, cfg, k) /\ c = Lone(cfg, k)
  BY EachFacts
<1> SUFFICES ASSUME NEW c \in Range(Each(ch, cfg, ks))
             PROVE  Single(keys, ch, cfg, c) /\ c.fn \in Range(ks)
  BY <1>1
<1>2. PICK k \in Range(ks) : Differs(ch, cfg, k) /\ c = Lone(cfg, k)
  BY <1>1
<1>3. k \in keys /\ k \in DOMAIN cfg /\ cfg[k] # ch[k] /\ c.fn = k
  BY <1>2, LoneFields DEF Differs
<1> QED BY <1>2, <1>3 DEF Single

LEMMA EachSinglesWithout ==
  ASSUME NEW ch, NEW cfg, NEW ks, NEW keys, NEW z, IsSeq(ks), Range(ks) \subseteq keys
  PROVE  LET p == Each(ch, Without(cfg, z), ks) IN
         /\ IsSeq(p)
         /\ \A c \in Range(p) : /\ Single(keys, ch, cfg, c) /\ c.fn \in Range(ks)
                                /\ c.fn \in z => cfg[c.fn] # Zero
<1> DEFINE own == Without(cfg, z)
           p == Each(ch, own, ks)
<1>1. /\ IsSeq(p)
      /\ \A c \in Range(p) : \E k \in Range(ks) : Differs(ch, own, k) /\ c = Lone(own, k)
  <2> HIDE DEF own
  <2> QED BY EachFacts
<1>2. \A k \in DOMAIN own : own[k] = cfg[k] /\ k \in DOMAIN cfg /\ (k \in z => cfg[k] # Zero)
  BY DEF Without
<1> SUFFICES ASSUME NEW c \in Range(p)
             PROVE  /\ Single(keys, ch, cfg, c) /\ c.fn \in Range(ks)
                    /\ c.fn \in z => cfg[c.fn] # Zero
  BY <1>1
<1>3. PICK k \in Range(ks) : Differs(ch, own, k) /\ c = Lone(own, k)
  BY <1>1
<1>4. k \in DOMAIN own /\ own[k] # ch[k]
  BY <1>3 DEF Differs
<1>5. Lone(own, k) = Lone(cfg, k)
  BY <1>2, <1>4 DEF Lone
<1>6. c.fn = k /\ k \in keys /\ c = Lone(cfg, k)
  BY <1>3, <1>5, LoneFields
<1> HIDE DEF own
<1> QED BY <1>2, <1>4, <1>6 DEF Single

LEMMA NamedKeys ==
  ASSUME NEW c, NEW ns, NEW N, NEW keys, IsSeq(ns), Range(ns) \subseteq N, Names(c, N) \subseteq keys
  PROVE  IsSeq(Named(c, ns)) /\ Range(Named(c, ns)) \subseteq keys
BY NamedFacts DEF Names

LEMMA ListKeys ==
  ASSUME NEW c, NEW list
  PROVE  /\ IsSeq(PerAccount(c, list)) /\ Range(PerAccount(c, list)) = Each3(c, list, Members)
         /\ IsSeq(PerRole(c, list)) /\ Range(PerRole(c, list)) = Each3(c, list, Roles)
BY PerAccountFacts, PerRoleFacts DEF Each3

\* Keys of lists are not keys of parameters with another name.
LEMMA Parts ==
  /\ \A c, n : <<c, n>>[1] = c /\ <<c, n>>[2] = n
  /\ \A c, l, x : <<c, l, x>>[1] = c /\ <<c, l, x>>[2] = l /\ <<c, l, x>>[3] = x
OBVIOUS

-----------------------------------------------------------------------------
LEMMA RegistryPlanFacts ==
  ASSUME NEW ch, NEW cfg
  PROVE  LET p == JobRegistryPlan(ch, cfg) \o JobRegistryAcknowledgers(ch, cfg) IN
         IsSeq(p) /\ \A c \in Range(p) : RegistryCall(ch, cfg, c)
<1> DEFINE ns == <<"jobStake", "minAgentStake", "maxJobReward", "maxJobDuration",
                   "maxActiveJobs", "expirationGrace", "feePct",
                   "validatorRewardPct", "treasury", "taxPolicy">>
           p1 == JobRegistryPlan(ch, cfg)
           p2 == JobRegistryAcknowledgers(ch, cfg)
<1>1. IsSeq(ns) /\ Range(ns) \subseteq Scalars.jr \ {"feePool"}
  BY DEF IsSeq, Range, Scalars
<1>2. p1 = Each(ch, Without(cfg, {TaxPolicyKey}), Named("jr", ns))
  BY DEF JobRegistryPlan, TaxPolicyKey
<1> HIDE DEF ns
<1>3. IsSeq(Named("jr", ns)) /\ Range(Named("jr", ns)) \subseteq RegistrySingles
  BY <1>1, NamedKeys DEF RegistrySingles
<1>4. /\ IsSeq(p1)
      /\ \A c \in Range(p1) : Single(RegistrySingles, ch, cfg, c)
                              /\ (c.fn \in {TaxPolicyKey} => cfg[c.fn] # Zero)
  BY <1>2, <1>3, EachSinglesWithout
<1>5. /\ IsSeq(PerAccount("jr", "acknowledger"))
      /\ Range(PerAccount("jr", "acknowledger")) = Each3("jr", "acknowledger", Members)
  BY ListKeys
<1>6. /\ IsSeq(p2)
      /\ \A c \in Range(p2) : Single(RegistrySingles, ch, cfg, c)
                              /\ c.fn \in Each3("jr", "acknowledger", Members)
  BY <1>5, EachSingles DEF RegistrySingles, JobRegistryAcknowledgers
<1>7. TaxPolicyKey \notin Each3("jr", "acknowledger", Members)
  <2>1. TaxPolicyKey[2] = "taxPolicy" /\ \A k \in Each3("jr", "acknowledger", Members) : k[2] = "acknowledger"
    BY DEF TaxPolicyKey, K, Each3
  <2> QED BY <2>1
<1> HIDE DEF p1, p2
<1>8. IsSeq(p1 \o p2) /\ Range(p1 \o p2) = Range(p1) \cup Range(p2)
  BY <1>4, <1>6, ConcatIsSeq
<1>9. \A c \in Range(p1) \cup Range(p2) : RegistryCall(ch, cfg, c)
  BY <1>4, <1>6, <1>7 DEF RegistryCall
<1> QED BY <1>8, <1>9 DEF p1, p2

\* Two parts of a plan whose transactions are in S make one.
LEMMA Joined ==
  ASSUME NEW S, NEW s, NEW t, IsSeq(s), IsSeq(t), Range(s) \subseteq S, Range(t) \subseteq S
  PROVE  IsSeq(s \o t) /\ Range(s \o t) \subseteq S
BY ConcatIsSeq

LEMMA TreasuryPlanFacts ==
  ASSUME NEW ch, NEW cfg, NEW keys,
         K("sm", "treasury") \in keys, Each3("sm", "allow", Members) \subseteq keys
  PROVE  /\ IsSeq(StakeTreasuryPlan(ch, cfg))
         /\ \A c \in Range(StakeTreasuryPlan(ch, cfg)) :
              Single(keys, ch, cfg, c) /\ c.fn \notin Range(StakeModules)
<1> DEFINE t == <<K("sm", "treasury")>>
           as == PerAccount("sm", "allow")
<1>1. IsSeq(t) /\ Range(t) = {K("sm", "treasury")}
  BY OneIsSeq
<1>2. IsSeq(as) /\ Range(as) = Each3("sm", "allow", Members)
  BY ListKeys
<1>3. IsSeq(t \o as) /\ Range(t \o as) = {K("sm", "treasury")} \cup Each3("sm", "allow", Members)
  <2> HIDE DEF t, as
  <2> QED BY <1>1, <1>2, ConcatIsSeq
<1>4. StakeTreasuryPlan(ch, cfg) = Each(ch, cfg, t \o as)
  BY DEF StakeTreasuryPlan
<1> HIDE DEF t, as
<1>5. \A k \in Range(t \o as) : k \notin Range(StakeModules)
  <2>1. \A k \in Range(t \o as) : k[2] \in {"treasury", "allow"}
    BY <1>3 DEF K, Each3
  <2>2. \A k \in Range(StakeModules) : k[2] \notin {"treasury", "allow"}
    BY DEF StakeModules, Range, Named
  <2> QED BY <2>1, <2>2
<1> DEFINE ks == t \o as
<1>6. IsSeq(ks) /\ Range(ks) \subseteq keys
  BY <1>3
<1> HIDE DEF ks
<1>7. /\ IsSeq(Each(ch, cfg, ks))
      /\ \A c \in Range(Each(ch, cfg, ks)) : Single(keys, ch, cfg, c) /\ c.fn \in Range(ks)
  BY <1>6, EachSingles
<1> QED BY <1>4, <1>5, <1>7 DEF ks

LEMMA StakeModulesPlanFacts ==
  ASSUME NEW ch, NEW cfg
  PROVE  /\ IsSeq(StakeModulesPlan(ch, cfg))
         /\ \A c \in Range(StakeModulesPlan(ch, cfg)) :
              Single(StakeSingles, ch, cfg, c) /\ cfg[c.fn] # Zero
<1> DEFINE ns == <<"jobRegistry", "disputeModule", "validationModule", "feePool">>
           N == {"jobRegistry", "disputeModule", "validationModule", "feePool"}
<1>1. IsSeq(ns) /\ Range(ns) \subseteq N
  BY DEF IsSeq, Range
<1>2. StakeModules = Named("sm", ns)
  BY DEF StakeModules
<1>3. Names("sm", N) \subseteq StakeSingles
  BY DEF Names, StakeSingles
<1> HIDE DEF ns, N
<1>4. IsSeq(StakeModules) /\ Range(StakeModules) \subseteq StakeSingles
  BY <1>1, <1>2, <1>3, NamedKeys
<1>5. ToSet(StakeModules) = Range(StakeModules)
  BY DEF ToSet, Range
<1> QED BY <1>4, <1>5, EachSinglesWithout DEF StakeModulesPlan

\* A plan over listed names of the stake manager that are no modules.
LEMMA StakeNamedFacts ==
  ASSUME NEW ch, NEW cfg, NEW ns, NEW keys, NEW N, IsSeq(ns), Range(ns) \subseteq N,
         Names("sm", N) \subseteq keys,
         N \cap {"jobRegistry", "disputeModule", "validationModule", "feePool"} = {}
  PROVE  LET p == Each(ch, cfg, Named("sm", ns)) IN
         IsSeq(p) /\ \A c \in Range(p) : /\ Single(keys, ch, cfg, c)
                                         /\ c.fn \in Names("sm", N)
                                         /\ c.fn \notin Range(StakeModules)
<1>1. IsSeq(Named("sm", ns)) /\ Range(Named("sm", ns)) \subseteq Names("sm", N)
  BY NamedKeys
<1>2. \A k \in Range(StakeModules) :
        k[2] \in {"jobRegistry", "disputeModule", "validationModule", "feePool"}
  BY DEF StakeModules, Range, Named
<1>3. \A k \in Names("sm", N) : k[2] \in N
  BY DEF Names
<1>4. \A k \in Names("sm", N) : k \notin Range(StakeModules)
  BY <1>2, <1>3
<1> QED BY <1>1, <1>4, EachSingles

LEMMA RecommendFacts ==
  ASSUME NEW ch, NEW cfg
  PROVE  /\ IsSeq(Recommend(ch, cfg))
         /\ \A c \in Range(Recommend(ch, cfg)) : Recommending(ch, cfg, c)
<1>1. \A k : Differs(ch, Recommended(cfg), k) => DOMAIN Recommended(cfg) # {}
  BY DEF Differs
<1> QED BY <1>1, TogetherFacts DEF Recommend, Recommending, Recommendable

LEMMA PercentPlanFacts ==
  ASSUME NEW ch, NEW cfg
  PROVE  /\ IsSeq(StakePercentPlan(ch, cfg))
         /\ \A c \in Range(StakePercentPlan(ch, cfg)) :
              /\ Single(PercentagesSM, ch, cfg, c)
              /\ c.fn \in PercentagesSM /\ c.fn \notin Range(StakeModules)
<1> DEFINE ns == <<"feePct", "burnPct", "validatorRewardPct">>
           N == {"feePct", "burnPct", "validatorRewardPct"}
           calls == Each(ch, cfg, Named("sm", ns))
           Rank(c) == Cardinality({d \in ToSet(calls) : Delta(ch, d) < Delta(ch, c)})
           parts == [r \in DOMAIN calls |-> Among(calls, {c \in ToSet(calls) : Rank(c) + 1 = r})]
<1>1. IsSeq(ns) /\ Range(ns) \subseteq N
  BY DEF IsSeq, Range
<1>2. Names("sm", N) = PercentagesSM
  BY DEF Names, PercentagesSM
<1>3. N \cap {"jobRegistry", "disputeModule", "validationModule", "feePool"} = {}
  OBVIOUS
<1>4. StakePercentPlan(ch, cfg) = FlattenSeq(parts)
  BY DEF StakePercentPlan
<1> HIDE DEF N, ns
<1>5. /\ IsSeq(calls)
      /\ \A c \in Range(calls) : /\ Single(PercentagesSM, ch, cfg, c)
                                 /\ c.fn \in PercentagesSM /\ c.fn \notin Range(StakeModules)
  BY <1>1, <1>2, <1>3, StakeNamedFacts
<1> HIDE DEF calls
<1>6. Len(calls) \in Nat /\ DOMAIN calls = 1..Len(calls)
  BY <1>5, Entries1
<1> DEFINE n == Len(calls)
<1>7. /\ DOMAIN parts = 1..n /\ Len(parts) = n /\ parts = [i \in 1..n |-> parts[i]]
      /\ \A r \in 1..n : parts[r] = Among(calls, {c \in ToSet(calls) : Rank(c) + 1 = r})
  BY <1>6
<1> HIDE DEF parts, Rank
<1>8. \A r \in 1..n : IsSeq(parts[r]) /\ Range(parts[r]) \subseteq Range(calls)
  <2> SUFFICES ASSUME NEW r \in 1..n PROVE IsSeq(parts[r]) /\ Range(parts[r]) \subseteq Range(calls)
    OBVIOUS
  <2> DEFINE S == {c \in ToSet(calls) : Rank(c) + 1 = r}
  <2>1. parts[r] = Among(calls, S)
    BY <1>7
  <2> HIDE DEF S
  <2> QED BY <1>5, <2>1, AmongFacts
<1>9. IsSeq(FlattenSeq(parts)) /\ Range(FlattenSeq(parts)) = UNION {Range(parts[i]) : i \in 1..n}
  BY <1>6, <1>7, <1>8, FlattenFacts
<1>10. Range(FlattenSeq(parts)) \subseteq Range(calls)
  BY <1>8, <1>9
<1> QED BY <1>4, <1>5, <1>9, <1>10

LEMMA LimitsPlanFacts ==
  ASSUME NEW ch, NEW cfg
  PROVE  /\ IsSeq(StakeLimitsPlan(ch, cfg))
         /\ \A c \in Range(StakeLimitsPlan(ch, cfg)) :
              \/ Recommending(ch, cfg, c)
              \/ Single(StakeSingles, ch, cfg, c) /\ c.fn \notin Range(StakeModules)
<1> DEFINE rec == Recommend(ch, cfg)
           min == IF rec # <<>> /\ K("sm", "recMin") \in DOMAIN cfg THEN <<>>
                  ELSE One(ch, cfg, K("sm", "minStake"))
           max == One(ch, cfg, K("sm", "maxStake"))
           OK(c) == \/ Recommending(ch, cfg, c)
                    \/ Single(StakeSingles, ch, cfg, c) /\ c.fn \notin Range(StakeModules)
<1>1. IsSeq(rec) /\ \A c \in Range(rec) : OK(c)
  BY RecommendFacts
<1>2. ASSUME NEW n \in {"minStake", "maxStake"}
      PROVE  /\ IsSeq(One(ch, cfg, K("sm", n)))
             /\ \A c \in Range(One(ch, cfg, K("sm", n))) : OK(c)
  <2>1. /\ IsSeq(One(ch, cfg, K("sm", n)))
        /\ \A c \in Range(One(ch, cfg, K("sm", n))) :
             Differs(ch, cfg, K("sm", n)) /\ c = Lone(cfg, K("sm", n))
    BY OneFacts
  <2>2. K("sm", n) \in StakeSingles
    BY DEF StakeSingles, Names, K
  <2>3. K("sm", n) \notin Range(StakeModules)
    <3>1. \A k \in Range(StakeModules) :
            k[2] \in {"jobRegistry", "disputeModule", "validationModule", "feePool"}
      BY DEF StakeModules, Range, Named
    <3>2. K("sm", n)[2] = n
      BY DEF K
    <3> QED BY <3>1, <3>2
  <2> QED BY <2>1, <2>2, <2>3, LoneFields DEF Single, Differs
<1>3. IsSeq(min) /\ \A c \in Range(min) : OK(c)
  BY <1>2, EmptyIsSeq
<1>4. IsSeq(max) /\ \A c \in Range(max) : OK(c)
  BY <1>2
<1>5. StakeLimitsPlan(ch, cfg) = (rec \o min) \o max
  BY DEF StakeLimitsPlan
<1> HIDE DEF rec, min, max
<1>6. IsSeq(rec \o min) /\ Range(rec \o min) = Range(rec) \cup Range(min)
  BY <1>1, <1>3, ConcatIsSeq
<1>7. /\ IsSeq((rec \o min) \o max)
      /\ Range((rec \o min) \o max) = Range(rec \o min) \cup Range(max)
  BY <1>4, <1>6, ConcatIsSeq
<1> HIDE DEF OK
<1>8. \A c \in Range((rec \o min) \o max) : OK(c)
  BY <1>1, <1>3, <1>4, <1>6, <1>7
<1> QED BY <1>5, <1>7, <1>8 DEF OK

\* A setter of several parameters, sent if one of them differs.
LEMMA TogetherAsked ==
  ASSUME NEW ch, NEW cfg, NEW fn, NEW ks
  PROVE  /\ IsSeq(Together(ch, cfg, fn, ks))
         /\ \A c \in Range(Together(ch, cfg, fn, ks)) :
              c = Joint(ch, cfg, fn, ks) /\ ks \cap DOMAIN cfg # {}
BY TogetherFacts DEF Differs

LEMMA StakePlanFacts ==
  ASSUME NEW ch, NEW cfg
  PROVE  /\ IsSeq(StakeManagerPlan(ch, cfg))
         /\ \A c \in Range(StakeManagerPlan(ch, cfg)) : StakeCall(ch, cfg, c)
<1> DEFINE p1 == StakeTreasuryPlan(ch, cfg)
           p2 == StakeFeedsPlan(ch, cfg)
           p3 == StakeModulesPlan(ch, cfg)
           p4 == StakeLimitsPlan(ch, cfg)
           p5 == StakePercentPlan(ch, cfg)
           p6 == StakeSlashPlan(ch, cfg)
           e7 == Each(ch, cfg, Named("sm", <<"unbondingPeriod", "autoStakeTuning">>))
           g7 == Together(ch, cfg, K("sm", "autoStake"), AutoStake)
           p8 == StakeCapsPlan(ch, cfg)
           OK(c) == StakeCall(ch, cfg, c)
<1>1. IsSeq(p1) /\ \A c \in Range(p1) : OK(c)
  <2>1. K("sm", "treasury") \in StakeSingles /\ Each3("sm", "allow", Members) \subseteq StakeSingles
    BY DEF StakeSingles, Names, K
  <2> QED BY <2>1, TreasuryPlanFacts DEF StakeCall
<1>2. IsSeq(p2) /\ \A c \in Range(p2) : OK(c)
  <2> DEFINE ns == <<"pauser", "thermostat", "hamiltonianFeed">>
             N == {"pauser", "thermostat", "hamiltonianFeed"}
  <2>1. IsSeq(ns) /\ Range(ns) \subseteq N
    BY DEF IsSeq, Range
  <2>2. /\ Names("sm", N) \subseteq StakeSingles
        /\ N \cap {"jobRegistry", "disputeModule", "validationModule", "feePool"} = {}
    BY DEF Names, StakeSingles
  <2>3. p2 = Each(ch, cfg, Named("sm", ns))
    BY DEF StakeFeedsPlan
  <2> HIDE DEF ns, N
  <2> QED BY <2>1, <2>2, <2>3, StakeNamedFacts DEF StakeCall
<1>3. IsSeq(p3) /\ \A c \in Range(p3) : OK(c)
  BY StakeModulesPlanFacts DEF StakeCall
<1>4. IsSeq(p4) /\ \A c \in Range(p4) : OK(c)
  BY LimitsPlanFacts DEF StakeCall
<1>5. IsSeq(p5) /\ \A c \in Range(p5) : OK(c)
  <2>1. PercentagesSM \subseteq StakeSingles
    BY DEF PercentagesSM, StakeSingles, Names
  <2>2. \A c : Single(PercentagesSM, ch, cfg, c) => Single(StakeSingles, ch, cfg, c)
    BY <2>1 DEF Single
  <2> QED BY <2>2, PercentPlanFacts DEF StakeCall
<1>6. IsSeq(p6) /\ \A c \in Range(p6) : OK(c)
  BY TogetherAsked DEF StakeSlashPlan, SlashKeys, StakeCall
<1>7. IsSeq(e7) /\ \A c \in Range(e7) : OK(c)
  <2> DEFINE ns == <<"unbondingPeriod", "autoStakeTuning">>
             N == {"unbondingPeriod", "autoStakeTuning"}
  <2>1. IsSeq(ns) /\ Range(ns) \subseteq N
    BY DEF IsSeq, Range
  <2>2. /\ Names("sm", N) \subseteq StakeSingles
        /\ N \cap {"jobRegistry", "disputeModule", "validationModule", "feePool"} = {}
    BY DEF Names, StakeSingles
  <2>3. e7 = Each(ch, cfg, Named("sm", ns))
    OBVIOUS
  <2> HIDE DEF ns, N, e7
  <2> QED BY <2>1, <2>2, <2>3, StakeNamedFacts DEF StakeCall
<1>8. IsSeq(g7) /\ \A c \in Range(g7) : OK(c)
  BY TogetherAsked DEF StakeCall
<1>9. IsSeq(p8) /\ \A c \in Range(p8) : OK(c)
  <2> DEFINE ns == <<"maxAGITypes", "maxTotalPayoutPct">>
             N == {"maxAGITypes", "maxTotalPayoutPct"}
  <2>1. IsSeq(ns) /\ Range(ns) \subseteq N
    BY DEF IsSeq, Range
  <2>2. /\ Names("sm", N) \subseteq StakeSingles
        /\ N \cap {"jobRegistry", "disputeModule", "validationModule", "feePool"} = {}
    BY DEF Names, StakeSingles
  <2>3. p8 = Each(ch, cfg, Named("sm", ns))
    BY DEF StakeCapsPlan
  <2> HIDE DEF ns, N
  <2> QED BY <2>1, <2>2, <2>3, StakeNamedFacts DEF StakeCall
<1>10. StakeManagerPlan(ch, cfg) =
         ((((((p1 \o p2) \o p3) \o p4) \o p5) \o p6) \o (e7 \o g7)) \o p8
  BY DEF StakeManagerPlan, StakeAutoPlan
<1> HIDE DEF p1, p2, p3, p4, p5, p6, e7, g7, p8, OK
<1> DEFINE S == Range(p1) \cup Range(p2) \cup Range(p3) \cup Range(p4) \cup Range(p5)
                \cup Range(p6) \cup Range(e7) \cup Range(g7) \cup Range(p8)
<1>11. \A c \in S : OK(c)
  BY <1>1, <1>2, <1>3, <1>4, <1>5, <1>6, <1>7, <1>8, <1>9
<1>12. /\ Range(p1) \subseteq S /\ Range(p2) \subseteq S /\ Range(p3) \subseteq S
       /\ Range(p4) \subseteq S /\ Range(p5) \subseteq S /\ Range(p6) \subseteq S
       /\ Range(e7) \subseteq S /\ Range(g7) \subseteq S /\ Range(p8) \subseteq S
  OBVIOUS
<1> HIDE DEF S
<1> DEFINE q2 == p1 \o p2
           q3 == q2 \o p3
           q4 == q3 \o p4
           q5 == q4 \o p5
           q6 == q5 \o p6
           r7 == e7 \o g7
           q7 == q6 \o r7
           q8 == q7 \o p8
           In(q) == IsSeq(q) /\ Range(q) \subseteq S
<1>13. In(q2)
  BY <1>1, <1>2, <1>12, Joined
<1> HIDE DEF q2
<1>14. In(q3)
  BY <1>3, <1>12, <1>13, Joined
<1> HIDE DEF q3
<1>15. In(q4)
  BY <1>4, <1>12, <1>14, Joined
<1> HIDE DEF q4
<1>16. In(q5)
  BY <1>5, <1>12, <1>15, Joined
<1> HIDE DEF q5
<1>17. In(q6)
  BY <1>6, <1>12, <1>16, Joined
<1> HIDE DEF q6
<1>18. In(r7)
  BY <1>7, <1>8, <1>12, Joined
<1> HIDE DEF r7
<1>19. In(q7)
  BY <1>17, <1>18, Joined
<1> HIDE DEF q7
<1>20. In(q8)
  BY <1>9, <1>12, <1>19, Joined
<1>21. StakeManagerPlan(ch, cfg) = q8
  BY <1>10 DEF q2, q3, q4, q5, q6, r7, q7
<1> HIDE DEF q8
<1> QED BY <1>11, <1>20, <1>21 DEF OK

LEMMA PoolPlanFacts ==
  ASSUME NEW ch, NEW cfg
  PROVE  LET p == FeePoolAllowlist(ch, cfg) \o FeePoolPlan(ch, cfg) \o FeePoolRewarders(ch, cfg) IN
         IsSeq(p) /\ \A c \in Range(p) : PoolCall(ch, cfg, c)
<1> DEFINE t == K("fp", "treasury")
           a == IF t \in DOMAIN cfg THEN <<"fp", "allow", cfg[t]>> ELSE t
           asked == Each(ch, cfg, PerAccount("fp", "allow"))
           more == One(ch, Only(a, TRUE), a)
           p1 == FeePoolAllowlist(ch, cfg)
           p2 == FeePoolPlan(ch, cfg)
           p3 == FeePoolRewarders(ch, cfg)
           OK(c) == PoolCall(ch, cfg, c)
<1>1. \A k \in Each3("fp", "allow", Members) \cup Each3("fp", "rewarder", Members) :
        k \notin FeePoolAddresses
  <2>1. \A k \in FeePoolAddresses : k[2] \in {"stakeManager", "governance", "taxPolicy"}
    BY DEF FeePoolAddresses, K
  <2>2. \A k \in Each3("fp", "allow", Members) \cup Each3("fp", "rewarder", Members) :
          k[2] \in {"allow", "rewarder"}
    BY DEF Each3
  <2> QED BY <2>1, <2>2
<1>2. ASSUME NEW l \in {"allow", "rewarder"}
      PROVE  LET p == Each(ch, cfg, PerAccount("fp", l)) IN
             IsSeq(p) /\ \A c \in Range(p) : OK(c)
  <2>1. IsSeq(PerAccount("fp", l)) /\ Range(PerAccount("fp", l)) = Each3("fp", l, Members)
    BY ListKeys
  <2>2. Range(PerAccount("fp", l)) \subseteq PoolSingles
    BY <2>1 DEF PoolSingles
  <2>3. LET p == Each(ch, cfg, PerAccount("fp", l)) IN
        /\ IsSeq(p)
        /\ \A c \in Range(p) : Single(PoolSingles, ch, cfg, c) /\ c.fn \in Each3("fp", l, Members)
    BY <2>1, <2>2, EachSingles
  <2> QED BY <1>1, <2>3 DEF PoolCall
<1>3. t \in DOMAIN cfg /\ cfg[t] # Zero => IsSeq(more) /\ \A c \in Range(more) : OK(c)
  <2> SUFFICES ASSUME t \in DOMAIN cfg, cfg[t] # Zero
               PROVE  IsSeq(more) /\ \A c \in Range(more) : OK(c)
    OBVIOUS
  <2>1. a = <<"fp", "allow", cfg[t]>>
    OBVIOUS
  <2>2. Lone(Only(a, TRUE), a) = [fn |-> a, set |-> Only(a, TRUE)]
    BY DEF Lone, Only
  <2> HIDE DEF a
  <2>3. IsSeq(more) /\ \A c \in Range(more) : c = Lone(Only(a, TRUE), a)
    BY OneFacts
  <2> QED BY <2>1, <2>2, <2>3 DEF PoolCall
<1>4. IsSeq(asked) /\ \A c \in Range(asked) : OK(c)
  BY <1>2
<1>5. p1 = IF t \in DOMAIN cfg /\ cfg[t] # Zero /\ a \notin DOMAIN cfg THEN asked \o more ELSE asked
  BY DEF FeePoolAllowlist
<1>6. IsSeq(p2) /\ \A c \in Range(p2) : OK(c)
  <2> DEFINE ns == <<"stakeManager", "rewardRole", "burnPct", "treasury", "governance", "pauser",
                     "taxPolicy">>
  <2>1. IsSeq(ns) /\ Range(ns) \subseteq Scalars.fp
    BY DEF IsSeq, Range, Scalars
  <2>2. Names("fp", Scalars.fp) \subseteq PoolSingles
    BY DEF PoolSingles
  <2>3. p2 = Each(ch, Without(cfg, FeePoolAddresses), Named("fp", ns))
    BY DEF FeePoolPlan
  <2> HIDE DEF ns
  <2>4. IsSeq(Named("fp", ns)) /\ Range(Named("fp", ns)) \subseteq PoolSingles
    BY <2>1, <2>2, NamedKeys
  <2> QED BY <2>3, <2>4, EachSinglesWithout DEF PoolCall
<1>7. IsSeq(p3) /\ \A c \in Range(p3) : OK(c)
  BY <1>2 DEF FeePoolRewarders
<1> HIDE DEF t, a, asked, more, p1, p2, p3, OK
<1>8. IsSeq(p1) /\ \A c \in Range(p1) : OK(c)
  <2>1. CASE t \in DOMAIN cfg /\ cfg[t] # Zero /\ a \notin DOMAIN cfg
    <3>1. IsSeq(asked \o more) /\ Range(asked \o more) = Range(asked) \cup Range(more)
      BY <1>3, <1>4, <2>1, ConcatIsSeq
    <3> QED BY <1>3, <1>4, <1>5, <2>1, <3>1
  <2>2. CASE ~(t \in DOMAIN cfg /\ cfg[t] # Zero /\ a \notin DOMAIN cfg)
    BY <1>4, <1>5, <2>2
  <2> QED BY <2>1, <2>2
<1> DEFINE q == p1 \o p2
<1>9. IsSeq(q) /\ Range(q) = Range(p1) \cup Range(p2)
  BY <1>6, <1>8, ConcatIsSeq
<1> HIDE DEF q
<1>10. IsSeq(q \o p3) /\ Range(q \o p3) = Range(q) \cup Range(p3)
  BY <1>7, <1>9, ConcatIsSeq
<1>11. \A c \in Range(q \o p3) : OK(c)
  BY <1>6, <1>7, <1>8, <1>9, <1>10
<1> QED BY <1>10, <1>11 DEF q, p1, p2, p3, OK

LEMMA IncentivesPlanFacts ==
  ASSUME NEW ch, NEW cfg
  PROVE  /\ IsSeq(PlatformIncentivesPlan(ch, cfg))
         /\ \A c \in Range(PlatformIncentivesPlan(ch, cfg)) : IncentivesCall(ch, cfg, c)
BY TogetherFacts DEF PlatformIncentivesPlan, PoolKeys, IncentivesCall

LEMMA PausePlanFacts ==
  ASSUME NEW ch, NEW cfg
  PROVE  /\ IsSeq(SystemPausePlan(ch, cfg))
         /\ \A c \in Range(SystemPausePlan(ch, cfg)) : PauseCall(ch, cfg, c)
BY EmptyIsSeq, OneIsSeq DEF SystemPausePlan, Call, PauseCall

LEMMA TaxPlanFacts ==
  ASSUME NEW ch, NEW cfg
  PROVE  /\ IsSeq(TaxPolicyPlan(ch, cfg))
         /\ \A c \in Range(TaxPolicyPlan(ch, cfg)) : TaxCall(ch, cfg, c)
<1> DEFINE news == {k \in Texts \cap DOMAIN cfg : cfg[k] # Trim(ch[k])}
           acks == Among(PerAccount("tp", "acknowledger"), DOMAIN cfg)
           p1 == IF news = {} THEN <<>> ELSE Call(K("tp", "policy"), [k \in news |-> cfg[k]])
           p2 == [i \in DOMAIN acks |-> [fn |-> acks[i], set |-> Only(acks[i], cfg[acks[i]])]]
           p3 == IF K("tp", "bumpVersion") \in DOMAIN cfg THEN Call(K("tp", "policy"), <<>>) ELSE <<>>
           OK(c) == TaxCall(ch, cfg, c)
<1>1. IsSeq(p1) /\ \A c \in Range(p1) : OK(c)
  <2>1. CASE news = {}
    BY <2>1, EmptyIsSeq
  <2>2. CASE news # {}
    <3>1. p1 = <<Policy([k \in news |-> cfg[k]])>>
      BY <2>2 DEF Call, Policy
    <3>2. /\ news \subseteq Texts \cap DOMAIN cfg
          /\ \A k \in news : cfg[k] # Trim(ch[k])
      OBVIOUS
    <3> HIDE DEF news, p1
    <3>3. TaxCall(ch, cfg, Policy([k \in news |-> cfg[k]]))
      BY <2>2, <3>2 DEF TaxCall
    <3> QED BY <3>1, <3>3, OneIsSeq
  <2> QED BY <2>1, <2>2
<1>2. IsSeq(p2) /\ \A c \in Range(p2) : OK(c)
  <2>1. /\ IsSeq(PerAccount("tp", "acknowledger"))
        /\ Range(PerAccount("tp", "acknowledger")) = TaxSingles
    BY ListKeys DEF TaxSingles
  <2>2. IsSeq(acks) /\ Range(acks) = TaxSingles \cap DOMAIN cfg
    BY <2>1, AmongFacts
  <2> HIDE DEF acks
  <2>3. /\ Len(acks) \in Nat /\ DOMAIN acks = 1..Len(acks)
        /\ \A i \in 1..Len(acks) : acks[i] \in Range(acks)
    BY <2>2, Entries1
  <2> DEFINE L == {Lone(cfg, k) : k \in TaxSingles \cap DOMAIN cfg}
  <2>4. p2 = [i \in 1..Len(acks) |-> Lone(cfg, acks[i])]
    BY <2>3 DEF Lone
  <2> HIDE DEF p2
  <2>5. IsSeq(p2) /\ \A c \in Range(p2) : \E i \in 1..Len(acks) : c = Lone(cfg, acks[i])
    BY <2>3, <2>4 DEF IsSeq, Range
  <2> QED BY <2>2, <2>3, <2>5 DEF TaxCall
<1>3. IsSeq(p3) /\ \A c \in Range(p3) : OK(c)
  <2>1. CASE K("tp", "bumpVersion") \in DOMAIN cfg
    <3>1. p3 = <<Policy(<<>>)>>
      BY <2>1 DEF Call, Policy
    <3>2. TaxCall(ch, cfg, Policy(<<>>))
      BY <2>1 DEF TaxCall
    <3> HIDE DEF p3
    <3> QED BY <3>1, <3>2, OneIsSeq
  <2>2. CASE K("tp", "bumpVersion") \notin DOMAIN cfg
    BY <2>2, EmptyIsSeq
  <2> QED BY <2>1, <2>2
<1>4. TaxPolicyPlan(ch, cfg) = (p1 \o p2) \o p3
  BY DEF TaxPolicyPlan
<1> HIDE DEF p1, p2, p3, OK
<1> DEFINE q == p1 \o p2
<1>5. IsSeq(q) /\ Range(q) = Range(p1) \cup Range(p2)
  BY <1>1, <1>2, ConcatIsSeq
<1> HIDE DEF q
<1>6. IsSeq(q \o p3) /\ Range(q \o p3) = Range(q) \cup Range(p3)
  BY <1>3, <1>5, ConcatIsSeq
<1>7. \A c \in Range(q \o p3) : OK(c)
  BY <1>1, <1>2, <1>3, <1>5, <1>6
<1> QED BY <1>4, <1>6, <1>7 DEF q, OK

LEMMA RewardPlanFacts ==
  ASSUME NEW ch, NEW cfg
  PROVE  /\ IsSeq(RewardEnginePlan(ch, cfg))
         /\ \A c \in Range(RewardEnginePlan(ch, cfg)) : ThermoCall(ch, cfg, c) /\ c.fn[1] = "re"
<1> DEFINE ns == <<"kappa", "maxProofs", "treasury", "thermostat", "temperature">>
           rs == PerRole("re", "mu") \o PerRole("re", "baseline")
           keys == {k \in ThermoSingles \ RoleTemps : k[1] = "re"}
           p1 == RewardScalarsPlan(ch, cfg)
           p2 == Each(ch, cfg, PerAccount("re", "settler"))
           p3 == RewardSharesPlan(ch, cfg)
           p4 == Each(ch, cfg, rs)
           OK(c) == ThermoCall(ch, cfg, c) /\ c.fn[1] = "re"
<1>1. /\ Names("re", Scalars.re) \subseteq keys
      /\ Each3("re", "settler", Members) \subseteq keys
      /\ Each3("re", "mu", Roles) \subseteq keys
      /\ Each3("re", "baseline", Roles) \subseteq keys
  <2>1. \A k \in RoleTemps : k[1] = "th"
    BY DEF RoleTemps
  <2>2. \A k \in Names("re", Scalars.re) \cup Each3("re", "settler", Members)
                 \cup Each3("re", "mu", Roles) \cup Each3("re", "baseline", Roles) : k[1] = "re"
    BY DEF Names, Each3
  <2> QED BY <2>1, <2>2 DEF ThermoSingles
<1>0. ASSUME NEW c, Single(keys, ch, cfg, c) PROVE OK(c)
  BY <1>0, LoneFields DEF ThermoCall, Single
<1>2. IsSeq(p1) /\ \A c \in Range(p1) : OK(c)
  <2>1. IsSeq(ns) /\ Range(ns) \subseteq Scalars.re
    BY DEF IsSeq, Range, Scalars
  <2>3. p1 = Each(ch, cfg, Named("re", ns))
    BY DEF RewardScalarsPlan
  <2> HIDE DEF ns, keys, OK
  <2>4. IsSeq(Named("re", ns)) /\ Range(Named("re", ns)) \subseteq keys
    BY <1>1, <2>1, NamedKeys
  <2>5. IsSeq(p1) /\ \A c \in Range(p1) : Single(keys, ch, cfg, c)
    BY <2>3, <2>4, EachSingles
  <2> QED BY <1>0, <2>5
<1>3. IsSeq(p2) /\ \A c \in Range(p2) : OK(c)
  <2>1. /\ IsSeq(PerAccount("re", "settler"))
        /\ Range(PerAccount("re", "settler")) = Each3("re", "settler", Members)
    BY ListKeys
  <2> HIDE DEF keys, OK
  <2>2. Range(PerAccount("re", "settler")) \subseteq keys
    BY <1>1, <2>1
  <2>3. IsSeq(p2) /\ \A c \in Range(p2) : Single(keys, ch, cfg, c)
    BY <2>1, <2>2, EachSingles
  <2> QED BY <1>0, <2>3
<1>4. IsSeq(p3) /\ \A c \in Range(p3) : OK(c)
  BY TogetherFacts DEF RewardSharesPlan, ThermoCall, Joint, K
<1>5. IsSeq(p4) /\ \A c \in Range(p4) : OK(c)
  <2>1. /\ IsSeq(PerRole("re", "mu")) /\ Range(PerRole("re", "mu")) = Each3("re", "mu", Roles)
        /\ IsSeq(PerRole("re", "baseline"))
        /\ Range(PerRole("re", "baseline")) = Each3("re", "baseline", Roles)
    BY ListKeys
  <2>2. IsSeq(rs) /\ Range(rs) = Each3("re", "mu", Roles) \cup Each3("re", "baseline", Roles)
    BY <2>1, ConcatIsSeq
  <2> HIDE DEF keys, rs, OK
  <2>3. Range(rs) \subseteq keys
    BY <1>1, <2>2
  <2>4. IsSeq(p4) /\ \A c \in Range(p4) : Single(keys, ch, cfg, c)
    BY <2>2, <2>3, EachSingles
  <2> QED BY <1>0, <2>4
<1>6. RewardEnginePlan(ch, cfg) = ((p1 \o p2) \o p3) \o p4
  BY DEF RewardEnginePlan
<1> HIDE DEF p1, p2, p3, p4, OK
<1> DEFINE q2 == p1 \o p2
           q3 == q2 \o p3
<1>7. IsSeq(q2) /\ Range(q2) = Range(p1) \cup Range(p2)
  BY <1>2, <1>3, ConcatIsSeq
<1> HIDE DEF q2
<1>8. IsSeq(q3) /\ Range(q3) = Range(q2) \cup Range(p3)
  BY <1>4, <1>7, ConcatIsSeq
<1> HIDE DEF q3
<1>9. IsSeq(q3 \o p4) /\ Range(q3 \o p4) = Range(q3) \cup Range(p4)
  BY <1>5, <1>8, ConcatIsSeq
<1>10. \A c \in Range(q3 \o p4) : OK(c)
  BY <1>2, <1>3, <1>4, <1>5, <1>7, <1>8, <1>9
<1> QED BY <1>6, <1>9, <1>10 DEF q2, q3, OK

LEMMA ThermostatPlanFacts ==
  ASSUME NEW ch, NEW cfg
  PROVE  /\ IsSeq(ThermostatPlan(ch, cfg))
         /\ \A c \in Range(ThermostatPlan(ch, cfg)) : ThermoCall(ch, cfg, c)
<1> DEFINE p1 == One(ch, cfg, K("th", "systemTemperature"))
           Group(g) == AllOrNone(ch, cfg, g.fn, g.keys)
           p2 == AllOrNone(ch, cfg, K("th", "bounds"), Bounds)
           p3 == AllOrNone(ch, cfg, K("th", "integralBounds"), IntegralBounds)
           p4 == AllOrNone(ch, cfg, K("th", "pid"), PID)
           p5 == AllOrNone(ch, cfg, K("th", "weights"), Weights)
           OK(c) == ThermoCall(ch, cfg, c)
<1>1. IsSeq(p1) /\ \A c \in Range(p1) : OK(c)
  <2>1. K("th", "systemTemperature") \in ThermoSingles \ RoleTemps
    <3>1. \A k \in RoleTemps : k[2] = "roleTemp"
      BY DEF RoleTemps
    <3>2. K("th", "systemTemperature")[2] = "systemTemperature"
      BY DEF K
    <3> QED BY <3>1, <3>2 DEF ThermoSingles, K
  <2>2. /\ IsSeq(p1)
        /\ \A c \in Range(p1) : /\ Differs(ch, cfg, K("th", "systemTemperature"))
                                /\ c = Lone(cfg, K("th", "systemTemperature"))
    BY OneFacts
  <2> QED BY <2>1, <2>2 DEF ThermoCall, Single, Differs
<1>2. ASSUME NEW g \in ThermoGroups
      PROVE  IsSeq(Group(g)) /\ \A c \in Range(Group(g)) : OK(c)
  BY TogetherFacts DEF ThermoCall
<1>3. IsSeq(p2) /\ \A c \in Range(p2) : OK(c)
  <2>1. [fn |-> K("th", "bounds"), keys |-> Bounds] \in ThermoGroups
    BY DEF ThermoGroups
  <2> QED BY <1>2, <2>1
<1>4. IsSeq(p3) /\ \A c \in Range(p3) : OK(c)
  <2>1. [fn |-> K("th", "integralBounds"), keys |-> IntegralBounds] \in ThermoGroups
    BY DEF ThermoGroups
  <2> QED BY <1>2, <2>1
<1>5. IsSeq(p4) /\ \A c \in Range(p4) : OK(c)
  <2>1. [fn |-> K("th", "pid"), keys |-> PID] \in ThermoGroups
    BY DEF ThermoGroups
  <2> QED BY <1>2, <2>1
<1>6. IsSeq(p5) /\ \A c \in Range(p5) : OK(c)
  <2>1. [fn |-> K("th", "weights"), keys |-> Weights] \in ThermoGroups
    BY DEF ThermoGroups
  <2> QED BY <1>2, <2>1
<1>7. ThermostatPlan(ch, cfg) = (((p1 \o p2) \o p3) \o p4) \o p5
  BY DEF ThermostatPlan
<1> HIDE DEF p1, p2, p3, p4, p5, OK
<1> DEFINE q2 == p1 \o p2
           q3 == q2 \o p3
           q4 == q3 \o p4
<1>8. IsSeq(q2) /\ Range(q2) = Range(p1) \cup Range(p2)
  BY <1>1, <1>3, ConcatIsSeq
<1> HIDE DEF q2
<1>9. IsSeq(q3) /\ Range(q3) = Range(q2) \cup Range(p3)
  BY <1>4, <1>8, ConcatIsSeq
<1> HIDE DEF q3
<1>10. IsSeq(q4) /\ Range(q4) = Range(q3) \cup Range(p4)
  BY <1>5, <1>9, ConcatIsSeq
<1> HIDE DEF q4
<1>11. IsSeq(q4 \o p5) /\ Range(q4 \o p5) = Range(q4) \cup Range(p5)
  BY <1>6, <1>10, ConcatIsSeq
<1>12. \A c \in Range(q4 \o p5) : OK(c)
  BY <1>1, <1>3, <1>4, <1>5, <1>6, <1>8, <1>9, <1>10, <1>11
<1> QED BY <1>7, <1>11, <1>12 DEF q2, q3, q4, OK

LEMMA RolePlanFacts ==
  ASSUME NEW ch, NEW cfg
  PROVE  /\ IsSeq(RoleTemperaturePlan(ch, cfg))
         /\ \A c \in Range(RoleTemperaturePlan(ch, cfg)) : ThermoCall(ch, cfg, c)
<1> DEFINE asked == Among(PerRole("th", "roleTemp"), DOMAIN cfg)
           Now(k) == IF ch[k] = 0 THEN ch[K("th", "systemTemperature")] ELSE ch[k]
           Part(k) == IF cfg[k] = Unset THEN Call(<<"th", "unset", k[3]>>, Only(k, 0))
                      ELSE IF cfg[k] # Now(k) THEN Call(k, Only(k, cfg[k])) ELSE <<>>
           parts == [i \in DOMAIN asked |-> Part(asked[i])]
           OK(c) == ThermoCall(ch, cfg, c)
           n == Len(asked)
<1>1. /\ IsSeq(PerRole("th", "roleTemp"))
      /\ Range(PerRole("th", "roleTemp")) = RoleTemps
  BY ListKeys DEF RoleTemps, Each3
<1>2. IsSeq(asked) /\ Range(asked) = RoleTemps \cap DOMAIN cfg
  BY <1>1, AmongFacts
<1>3. RoleTemperaturePlan(ch, cfg) = FlattenSeq(parts)
  BY DEF RoleTemperaturePlan
<1> HIDE DEF asked
<1>4. /\ n \in Nat /\ DOMAIN asked = 1..n
      /\ \A i \in 1..n : asked[i] \in Range(asked)
  BY <1>2, Entries1
<1>5. ASSUME NEW k \in RoleTemps \cap DOMAIN cfg
      PROVE  IsSeq(Part(k)) /\ \A c \in Range(Part(k)) : OK(c)
  <2>1. CASE cfg[k] = Unset
    <3> DEFINE u == [fn |-> <<"th", "unset", k[3]>>, set |-> Only(k, 0)]
    <3>1. Part(k) = <<u>>
      BY <2>1 DEF Call
    <3>2. ThermoCall(ch, cfg, u)
      BY DEF ThermoCall
    <3> HIDE DEF Part, u
    <3> QED BY <3>1, <3>2, OneIsSeq
  <2>2. CASE cfg[k] # Unset /\ cfg[k] # Now(k)
    <3>1. Part(k) = <<Lone(cfg, k)>>
      BY <2>2 DEF Call, Lone
    <3>2. ThermoCall(ch, cfg, Lone(cfg, k))
      BY <2>2 DEF ThermoCall
    <3> HIDE DEF Part
    <3> QED BY <3>1, <3>2, OneIsSeq
  <2>3. CASE cfg[k] # Unset /\ cfg[k] = Now(k)
    BY <2>3, EmptyIsSeq
  <2> QED BY <2>1, <2>2, <2>3
<1> HIDE DEF Part
<1>6. /\ DOMAIN parts = 1..n /\ Len(parts) = n /\ parts = [i \in 1..n |-> parts[i]]
      /\ \A i \in 1..n : parts[i] = Part(asked[i])
  BY <1>4
<1> HIDE DEF parts, OK
<1>7. \A i \in 1..n : IsSeq(parts[i]) /\ \A c \in Range(parts[i]) : OK(c)
  BY <1>2, <1>4, <1>5, <1>6
<1> HIDE DEF n
<1>8. IsSeq(FlattenSeq(parts)) /\ Range(FlattenSeq(parts)) = UNION {Range(parts[i]) : i \in 1..n}
  BY <1>4, <1>6, <1>7, FlattenFacts
<1>9. \A c \in Range(FlattenSeq(parts)) : OK(c)
  BY <1>7, <1>8
<1> QED BY <1>3, <1>8, <1>9 DEF OK

\* A call of updateThermodynamics: to the thermostat only if the file names it.
ThermoPlanned(ch, cfg, c) ==
  ThermoCall(ch, cfg, c) /\ (c.fn[1] = "re" \/ NamesThermostat(cfg))

LEMMA ThermoPlanFacts ==
  ASSUME NEW ch, NEW cfg
  PROVE  LET p == RewardEnginePlan(ch, cfg) \o ThermostatSection(ch, cfg) IN
         IsSeq(p) /\ \A c \in Range(p) : ThermoPlanned(ch, cfg, c)
<1> DEFINE p1 == RewardEnginePlan(ch, cfg)
           p2 == ThermostatPlan(ch, cfg)
           p3 == RoleTemperaturePlan(ch, cfg)
           q == ThermostatSection(ch, cfg)
<1>1. /\ IsSeq(p1) /\ \A c \in Range(p1) : ThermoPlanned(ch, cfg, c)
      /\ IsSeq(p2) /\ \A c \in Range(p2) : ThermoCall(ch, cfg, c)
      /\ IsSeq(p3) /\ \A c \in Range(p3) : ThermoCall(ch, cfg, c)
  BY RewardPlanFacts, ThermostatPlanFacts, RolePlanFacts DEF ThermoPlanned
<1>2. IsSeq(q) /\ \A c \in Range(q) : ThermoPlanned(ch, cfg, c)
  <2>1. CASE NamesThermostat(cfg)
    <3>1. q = p2 \o p3
      BY <2>1 DEF ThermostatSection
    <3> HIDE DEF p2, p3, q
    <3>2. IsSeq(p2 \o p3) /\ Range(p2 \o p3) = Range(p2) \cup Range(p3)
      BY <1>1, ConcatIsSeq
    <3> QED BY <1>1, <2>1, <3>1, <3>2 DEF ThermoPlanned
  <2>2. CASE ~NamesThermostat(cfg)
    BY <2>2, EmptyIsSeq DEF ThermostatSection
  <2> QED BY <2>1, <2>2
<1> HIDE DEF p1, p2, p3, q
<1>3. IsSeq(p1 \o q) /\ Range(p1 \o q) = Range(p1) \cup Range(q)
  BY <1>1, <1>2, ConcatIsSeq
<1>4. \A c \in Range(p1 \o q) : ThermoPlanned(ch, cfg, c)
  BY <1>1, <1>2, <1>3
<1> QED BY <1>3, <1>4 DEF q, p1

\* update-economics up to the tax policy: no text is sent.
EconomicsBefore(ch, cfg, c) ==
  \/ Single(EconomicsSingles \ TaxSingles, ch, cfg, c)
  \/ Recommending(ch, cfg, c)
  \/ c = Joint(ch, cfg, K("sm", "slashing"), SlashKeys)

LEMMA EconomicsNamed ==
  ASSUME NEW ch, NEW cfg, NEW c \in {"jr", "sm", "fp"}, NEW ns, NEW N, IsSeq(ns),
         Range(ns) \subseteq N, Names(c, N) \subseteq EconomicsSingles
  PROVE  LET p == Each(ch, cfg, Named(c, ns)) IN
         IsSeq(p) /\ \A x \in Range(p) : EconomicsBefore(ch, cfg, x)
<1> DEFINE keys == EconomicsSingles \ TaxSingles
<1>1. \A k \in Names(c, N) : k \notin TaxSingles
  <2>1. \A k \in Names(c, N) : k[1] = c
    BY DEF Names
  <2>2. \A k \in TaxSingles : k[1] = "tp"
    BY DEF TaxSingles, Each3
  <2> QED BY <2>1, <2>2
<1>2. Names(c, N) \subseteq keys
  BY <1>1
<1> HIDE DEF keys
<1>3. IsSeq(Named(c, ns)) /\ Range(Named(c, ns)) \subseteq keys
  BY <1>2, NamedKeys
<1>4. LET p == Each(ch, cfg, Named(c, ns)) IN
      IsSeq(p) /\ \A x \in Range(p) : Single(keys, ch, cfg, x)
  BY <1>3, EachSingles
<1> QED BY <1>4 DEF EconomicsBefore, keys

LEMMA EconomicsStakeFacts ==
  ASSUME NEW ch, NEW cfg
  PROVE  /\ IsSeq(EconomicsStakePlan(ch, cfg))
         /\ \A c \in Range(EconomicsStakePlan(ch, cfg)) : EconomicsBefore(ch, cfg, c)
<1> DEFINE keys == EconomicsSingles \ TaxSingles
           p1 == One(ch, cfg, K("sm", "minStake"))
           p2 == StakeSlashPlan(ch, cfg)
           p3 == StakeTreasuryPlan(ch, cfg)
           p4 == EconomicsPercentPlan(ch, cfg)
           p5 == Recommend(ch, cfg)
           OK(c) == EconomicsBefore(ch, cfg, c)
<1>1. \A k \in {K("sm", "minStake"), K("sm", "treasury")} \cup Each3("sm", "allow", Members) : k \in keys
  <2>1. \A k \in {K("sm", "minStake"), K("sm", "treasury")} \cup Each3("sm", "allow", Members) :
          k[1] = "sm" /\ k \in EconomicsSingles
    BY DEF K, Each3, EconomicsSingles, Names
  <2>2. \A k \in TaxSingles : k[1] = "tp"
    BY DEF TaxSingles, Each3
  <2> QED BY <2>1, <2>2
<1>2. IsSeq(p1) /\ \A c \in Range(p1) : OK(c)
  <2>1. /\ IsSeq(p1)
        /\ \A c \in Range(p1) : /\ Differs(ch, cfg, K("sm", "minStake"))
                                /\ c = Lone(cfg, K("sm", "minStake"))
    BY OneFacts
  <2> QED BY <1>1, <2>1 DEF EconomicsBefore, Single, Differs
<1>3. IsSeq(p2) /\ \A c \in Range(p2) : OK(c)
  BY TogetherAsked DEF StakeSlashPlan, SlashKeys, EconomicsBefore
<1>4. IsSeq(p3) /\ \A c \in Range(p3) : OK(c)
  <2> HIDE DEF keys
  <2>1. K("sm", "treasury") \in keys /\ Each3("sm", "allow", Members) \subseteq keys
    BY <1>1
  <2>2. IsSeq(p3) /\ \A c \in Range(p3) : Single(keys, ch, cfg, c)
    BY <2>1, TreasuryPlanFacts
  <2> QED BY <2>2 DEF EconomicsBefore, keys
<1>5. IsSeq(p4) /\ \A c \in Range(p4) : OK(c)
  <2> DEFINE ns == <<"feePct", "burnPct", "validatorRewardPct", "unbondingPeriod", "maxStake">>
             N == {"feePct", "burnPct", "validatorRewardPct", "unbondingPeriod", "maxStake"}
  <2>1. IsSeq(ns) /\ Range(ns) \subseteq N
    BY DEF IsSeq, Range
  <2>2. Names("sm", N) \subseteq EconomicsSingles
    BY DEF Names, EconomicsSingles
  <2>3. p4 = Each(ch, cfg, Named("sm", ns))
    BY DEF EconomicsPercentPlan
  <2> HIDE DEF ns, N
  <2> QED BY <2>1, <2>2, <2>3, EconomicsNamed
<1>6. IsSeq(p5) /\ \A c \in Range(p5) : OK(c)
  BY RecommendFacts DEF EconomicsBefore
<1>7. EconomicsStakePlan(ch, cfg) = (((p1 \o p2) \o p3) \o p4) \o p5
  BY DEF EconomicsStakePlan, EconomicsSlashPlan, EconomicsTreasuryPlan
<1> HIDE DEF p1, p2, p3, p4, p5, OK
<1> DEFINE q2 == p1 \o p2
           q3 == q2 \o p3
           q4 == q3 \o p4
<1>8. IsSeq(q2) /\ Range(q2) = Range(p1) \cup Range(p2)
  BY <1>2, <1>3, ConcatIsSeq
<1> HIDE DEF q2
<1>9. IsSeq(q3) /\ Range(q3) = Range(q2) \cup Range(p3)
  BY <1>4, <1>8, ConcatIsSeq
<1> HIDE DEF q3
<1>10. IsSeq(q4) /\ Range(q4) = Range(q3) \cup Range(p4)
  BY <1>5, <1>9, ConcatIsSeq
<1> HIDE DEF q4
<1>11. IsSeq(q4 \o p5) /\ Range(q4 \o p5) = Range(q4) \cup Range(p5)
  BY <1>6, <1>10, ConcatIsSeq
<1>12. \A c \in Range(q4 \o p5) : OK(c)
  BY <1>2, <1>3, <1>4, <1>5, <1>6, <1>8, <1>9, <1>10, <1>11
<1> QED BY <1>7, <1>11, <1>12 DEF q2, q3, q4, OK

LEMMA EconomicsPoolFacts ==
  ASSUME NEW ch, NEW cfg
  PROVE  /\ IsSeq(EconomicsFeePoolPlan(ch, cfg))
         /\ \A c \in Range(EconomicsFeePoolPlan(ch, cfg)) : EconomicsBefore(ch, cfg, c)
<1> DEFINE ns == <<"burnPct", "treasury">>
           N == {"burnPct", "treasury"}
           k1 == Named("fp", ns)
           k2 == PerAccount("fp", "allow")
           keys == EconomicsSingles \ TaxSingles
<1>1. IsSeq(ns) /\ Range(ns) \subseteq N
  BY DEF IsSeq, Range
<1>2. \A k \in Names("fp", N) \cup Each3("fp", "allow", Members) : k \in keys
  <2>1. \A k \in Names("fp", N) \cup Each3("fp", "allow", Members) :
          k[1] = "fp" /\ k \in EconomicsSingles
    BY DEF Names, Each3, EconomicsSingles
  <2>2. \A k \in TaxSingles : k[1] = "tp"
    BY DEF TaxSingles, Each3
  <2> QED BY <2>1, <2>2
<1>3. EconomicsFeePoolPlan(ch, cfg) = Each(ch, cfg, k1 \o k2)
  BY DEF EconomicsFeePoolPlan
<1> HIDE DEF ns, N, keys
<1>4. Names("fp", N) \subseteq keys /\ Each3("fp", "allow", Members) \subseteq keys
  BY <1>2
<1>5. IsSeq(k1) /\ Range(k1) \subseteq keys
  BY <1>1, <1>4, NamedKeys
<1>6. IsSeq(k2) /\ Range(k2) \subseteq keys
  BY <1>4, ListKeys
<1> HIDE DEF k1, k2
<1> DEFINE ks == k1 \o k2
<1>7. IsSeq(ks) /\ Range(ks) \subseteq keys
  BY <1>5, <1>6, Joined
<1> HIDE DEF ks
<1>8. /\ IsSeq(Each(ch, cfg, ks))
      /\ \A c \in Range(Each(ch, cfg, ks)) : Single(keys, ch, cfg, c)
  BY <1>7, EachSingles
<1> QED BY <1>3, <1>8 DEF EconomicsBefore, keys, ks

\* All texts in one transaction, then the acknowledgers.
TextsOf(cfg) == [k \in Texts \cap DOMAIN cfg |-> cfg[k]]
EconomicsTexts(ch, cfg) ==
  IF {k \in Texts : Differs(ch, cfg, k)} = {} THEN <<>>
  ELSE Call(K("tp", "policy"), [k \in Texts \cap DOMAIN cfg |-> cfg[k]])

EconomicsAcks(ch, cfg, history) ==
  Each(IF history THEN ch
       ELSE Over([k \in {<<"tp", "acknowledger", a>> : a \in Members} |-> FALSE], ch),
       cfg, PerAccount("tp", "acknowledger"))

LEMMA EconomicsTaxFacts ==
  ASSUME NEW ch, NEW cfg, NEW history
  PROVE  LET acks == EconomicsAcks(ch, cfg, history) IN
         /\ EconomicsTaxPlan(ch, cfg, history) = EconomicsTexts(ch, cfg) \o acks
         /\ IsSeq(acks)
         /\ \A c \in Range(acks) : \E k \in TaxSingles : k \in DOMAIN cfg /\ c = Lone(cfg, k)
         /\ IsSeq(EconomicsTexts(ch, cfg)) /\ Len(EconomicsTexts(ch, cfg)) <= 1
         /\ \A c \in Range(EconomicsTexts(ch, cfg)) :
              /\ c = Policy(TextsOf(cfg))
              /\ \E k \in Texts \cap DOMAIN cfg : cfg[k] # ch[k]
<1> DEFINE seen == IF history THEN ch
                   ELSE Over([k \in {<<"tp", "acknowledger", a>> : a \in Members} |-> FALSE], ch)
           ks == PerAccount("tp", "acknowledger")
           acks == EconomicsAcks(ch, cfg, history)
<1>1. /\ EconomicsTaxPlan(ch, cfg, history) = EconomicsTexts(ch, cfg) \o acks
      /\ acks = Each(seen, cfg, ks)
  BY DEF EconomicsTaxPlan, EconomicsTexts, EconomicsAcks
<1>2. IsSeq(ks) /\ Range(ks) = TaxSingles
  BY ListKeys DEF TaxSingles
<1> HIDE DEF seen, ks
<1>3. /\ IsSeq(acks)
      /\ \A c \in Range(acks) : \E k \in Range(ks) : Differs(seen, cfg, k) /\ c = Lone(cfg, k)
  BY <1>1, <1>2, EachFacts
<1>4. \A c \in Range(acks) : \E k \in TaxSingles : k \in DOMAIN cfg /\ c = Lone(cfg, k)
  BY <1>2, <1>3 DEF Differs
<1>5. /\ IsSeq(EconomicsTexts(ch, cfg)) /\ Len(EconomicsTexts(ch, cfg)) <= 1
      /\ \A c \in Range(EconomicsTexts(ch, cfg)) :
           /\ c = Policy(TextsOf(cfg))
           /\ \E k \in Texts \cap DOMAIN cfg : cfg[k] # ch[k]
  <2>1. CASE \A k \in Texts : ~Differs(ch, cfg, k)
    <3>1. EconomicsTexts(ch, cfg) = <<>>
      BY <2>1 DEF EconomicsTexts
    <3> QED BY <3>1, EmptyIsSeq
  <2>2. CASE \E k \in Texts : Differs(ch, cfg, k)
    <3>1. EconomicsTexts(ch, cfg) = <<Policy(TextsOf(cfg))>>
      BY <2>2 DEF EconomicsTexts, Call, Policy, TextsOf
    <3>2. \E k \in Texts \cap DOMAIN cfg : cfg[k] # ch[k]
      BY <2>2 DEF Differs
    <3> DEFINE P == Policy(TextsOf(cfg))
    <3> HIDE DEF P
    <3>3. IsSeq(<<P>>) /\ Range(<<P>>) = {P} /\ Len(<<P>>) = 1
      BY OneIsSeq
    <3>4. EconomicsTexts(ch, cfg) = <<P>>
      BY <3>1 DEF P
    <3> QED BY <3>2, <3>3, <3>4 DEF P
  <2> QED BY <2>1, <2>2
<1> HIDE DEF acks
<1> QED BY <1>1, <1>3, <1>4, <1>5 DEF acks

-----------------------------------------------------------------------------
(* The contract a transaction goes to; one policy text per plan. *)

LEMMA LoneIn ==
  ASSUME NEW ch, NEW cfg, NEW keys, NEW X, NEW c, \A k \in keys : k[1] \in X,
         Single(keys, ch, cfg, c)
  PROVE  c.fn \in keys /\ c.fn[1] \in X /\ c = Lone(cfg, c.fn) /\ c.fn \in DOMAIN cfg
BY LoneFields DEF Single

LEMMA SinglesOf ==
  /\ \A k \in RegistrySingles : k[1] = "jr"
  /\ \A k \in StakeSingles : k[1] = "sm"
  /\ \A k \in PoolSingles : k[1] = "fp"
  /\ \A k \in TaxSingles : k[1] = "tp" /\ k[2] = "acknowledger"
  /\ \A k \in ThermoSingles : k[1] \in {"re", "th"}
  /\ \A k \in EconomicsSingles : k \notin TaxSingles => k[1] \in {"jr", "sm", "fp"}
<1>1. \A k \in RegistrySingles : k[1] = "jr"
  BY DEF RegistrySingles, Names, Each3
<1>2. \A k \in StakeSingles : k[1] = "sm"
  BY DEF StakeSingles, Names, Each3
<1>3. \A k \in PoolSingles : k[1] = "fp"
  BY DEF PoolSingles, Names, Each3
<1>4. \A k \in TaxSingles : k[1] = "tp" /\ k[2] = "acknowledger"
  BY DEF TaxSingles, Each3
<1>5. \A k \in ThermoSingles : k[1] \in {"re", "th"}
  BY DEF ThermoSingles, Names, Each3, RoleTemps
<1>6. \A k \in EconomicsSingles : k \notin TaxSingles => k[1] \in {"jr", "sm", "fp"}
  BY DEF EconomicsSingles, Names, Each3
<1> QED BY <1>1, <1>2, <1>3, <1>4, <1>5, <1>6

\* No script but those of the tax policy and of the economics sends a text.
LEMMA NoText ==
  ASSUME NEW ch, NEW cfg, NEW c,
         \/ RegistryCall(ch, cfg, c)
         \/ StakeCall(ch, cfg, c)
         \/ PoolCall(ch, cfg, c)
         \/ IncentivesCall(ch, cfg, c)
         \/ ThermoCall(ch, cfg, c)
         \/ PauseCall(ch, cfg, c)
         \/ EconomicsBefore(ch, cfg, c)
  PROVE  c.fn[1] # "tp"
<1>1. CASE RegistryCall(ch, cfg, c)
  BY <1>1, SinglesOf, LoneFields DEF RegistryCall, Single
<1>2. CASE StakeCall(ch, cfg, c)
  <2>1. CASE Single(StakeSingles, ch, cfg, c)
    BY <2>1, SinglesOf, LoneFields DEF Single
  <2>2. CASE ~Single(StakeSingles, ch, cfg, c)
    BY <1>2, <2>2 DEF StakeCall, Recommending, Joint, K
  <2> QED BY <2>1, <2>2
<1>3. CASE PoolCall(ch, cfg, c)
  <2>1. CASE Single(PoolSingles, ch, cfg, c)
    BY <2>1, SinglesOf, LoneFields DEF Single
  <2>2. CASE ~Single(PoolSingles, ch, cfg, c)
    <3> DEFINE a == <<"fp", "allow", cfg[K("fp", "treasury")]>>
    <3>1. c = [fn |-> a, set |-> Only(a, TRUE)]
      BY <1>3, <2>2 DEF PoolCall
    <3>2. a[1] = "fp"
      OBVIOUS
    <3> HIDE DEF a
    <3> QED BY <3>1, <3>2
  <2> QED BY <2>1, <2>2
<1>4. CASE IncentivesCall(ch, cfg, c)
  BY <1>4 DEF IncentivesCall, Joint, K
<1>5. CASE ThermoCall(ch, cfg, c)
  <2>1. CASE Single(ThermoSingles \ RoleTemps, ch, cfg, c)
    BY <2>1, SinglesOf, LoneFields DEF Single
  <2>2. CASE \E k \in RoleTemps : c = Lone(cfg, k)
    <3>1. \A k \in RoleTemps : k[1] = "th"
      BY DEF RoleTemps
    <3> QED BY <2>2, <3>1, LoneFields
  <2>3. CASE ~Single(ThermoSingles \ RoleTemps, ch, cfg, c) /\ ~\E k \in RoleTemps : c = Lone(cfg, k)
    <3>1. \A g \in ThermoGroups : g.fn[1] = "th"
      BY DEF ThermoGroups, K
    <3> QED BY <1>5, <2>3, <3>1 DEF ThermoCall, Joint, K
  <2> QED BY <2>1, <2>2, <2>3
<1>6. CASE PauseCall(ch, cfg, c)
  BY <1>6 DEF PauseCall, K
<1>7. CASE EconomicsBefore(ch, cfg, c)
  <2>1. CASE Single(EconomicsSingles \ TaxSingles, ch, cfg, c)
    BY <2>1, SinglesOf, LoneFields DEF Single
  <2>2. CASE ~Single(EconomicsSingles \ TaxSingles, ch, cfg, c)
    BY <1>7, <2>2 DEF EconomicsBefore, Recommending, Joint, K
  <2> QED BY <2>1, <2>2
<1> QED BY <1>1, <1>2, <1>3, <1>4, <1>5, <1>6, <1>7

LEMMA NoTextInOrder ==
  ASSUME NEW s, IsSeq(s), \A c \in Range(s) : c.fn # <<"tp", "policy">>
  PROVE  InOrder(s)
BY Entries1 DEF InOrder, Clash

LEMMA ShortInOrder ==
  ASSUME NEW s, IsSeq(s), Len(s) <= 1
  PROVE  InOrder(s)
BY Entries1 DEF InOrder

LEMMA AcknowledgersSendNoText ==
  ASSUME NEW cfg, NEW c, \E k \in TaxSingles : k \in DOMAIN cfg /\ c = Lone(cfg, k)
  PROVE  c.fn # <<"tp", "policy">>
<1>1. PICK k \in TaxSingles : c = Lone(cfg, k)
  OBVIOUS
<1>2. c.fn[2] = "acknowledger"
  BY <1>1, SinglesOf, LoneFields
<1> QED BY <1>2

LEMMA EconomicsPlanFacts ==
  ASSUME NEW ch, NEW cfg, NEW history
  PROVE  LET p == EconomicsPaymentPlan(ch, cfg) \o EconomicsLimitsPlan(ch, cfg)
                  \o EconomicsStakePlan(ch, cfg) \o EconomicsFeePoolPlan(ch, cfg)
                  \o EconomicsTaxPlan(ch, cfg, history) IN
         /\ IsSeq(p) /\ InOrder(p)
         /\ \A c \in Range(p) : EconomicsCall(ch, cfg, c)
<1> DEFINE p1 == EconomicsPaymentPlan(ch, cfg)
           p2 == EconomicsLimitsPlan(ch, cfg)
           p3 == EconomicsStakePlan(ch, cfg)
           p4 == EconomicsFeePoolPlan(ch, cfg)
           texts == EconomicsTexts(ch, cfg)
           acks == EconomicsAcks(ch, cfg, history)
           OK(c) == EconomicsBefore(ch, cfg, c)
<1>1. IsSeq(p1) /\ \A c \in Range(p1) : OK(c)
  <2> DEFINE ns == <<"feePct", "validatorRewardPct", "treasury">>
  <2>1. IsSeq(ns) /\ Range(ns) \subseteq Scalars.jr
    BY DEF IsSeq, Range, Scalars
  <2>2. Names("jr", Scalars.jr) \subseteq EconomicsSingles
    BY DEF EconomicsSingles
  <2>3. p1 = Each(ch, cfg, Named("jr", ns))
    BY DEF EconomicsPaymentPlan
  <2> HIDE DEF ns
  <2> QED BY <2>1, <2>2, <2>3, EconomicsNamed
<1>2. IsSeq(p2) /\ \A c \in Range(p2) : OK(c)
  <2> DEFINE ns == <<"jobStake", "minAgentStake", "maxJobReward", "maxJobDuration",
                     "maxActiveJobs", "expirationGrace", "feePool", "taxPolicy">>
  <2>1. IsSeq(ns) /\ Range(ns) \subseteq Scalars.jr
    BY DEF IsSeq, Range, Scalars
  <2>2. Names("jr", Scalars.jr) \subseteq EconomicsSingles
    BY DEF EconomicsSingles
  <2>3. p2 = Each(ch, cfg, Named("jr", ns))
    BY DEF EconomicsLimitsPlan
  <2> HIDE DEF ns
  <2> QED BY <2>1, <2>2, <2>3, EconomicsNamed
<1>3. /\ IsSeq(p3) /\ \A c \in Range(p3) : OK(c)
      /\ IsSeq(p4) /\ \A c \in Range(p4) : OK(c)
  BY EconomicsStakeFacts, EconomicsPoolFacts
<1>4. /\ EconomicsTaxPlan(ch, cfg, history) = texts \o acks
      /\ IsSeq(acks)
      /\ \A c \in Range(acks) : \E k \in TaxSingles : k \in DOMAIN cfg /\ c = Lone(cfg, k)
      /\ IsSeq(texts) /\ Len(texts) <= 1
      /\ \A c \in Range(texts) :
           /\ c = Policy(TextsOf(cfg))
           /\ \E k \in Texts \cap DOMAIN cfg : cfg[k] # ch[k]
  BY EconomicsTaxFacts
<1>5. \A c \in Range(acks) : EconomicsCall(ch, cfg, c) /\ c.fn # <<"tp", "policy">>
  BY <1>4, AcknowledgersSendNoText DEF EconomicsCall
<1>6. \A c \in Range(texts) : EconomicsCall(ch, cfg, c)
  BY <1>4 DEF EconomicsCall, TextsOf
<1>7. ASSUME NEW c, OK(c)
      PROVE  EconomicsCall(ch, cfg, c) /\ c.fn # <<"tp", "policy">>
  <2>1. EconomicsCall(ch, cfg, c)
    BY <1>7 DEF EconomicsBefore, EconomicsCall
  <2>2. c.fn[1] # "tp" /\ <<"tp", "policy">>[1] = "tp"
    BY <1>7, NoText
  <2> QED BY <2>1, <2>2
<1> HIDE DEF p1, p2, p3, p4, texts, acks, OK
<1> DEFINE q2 == p1 \o p2
           q3 == q2 \o p3
           q4 == q3 \o p4
           tax == texts \o acks
<1>8. IsSeq(q2) /\ Range(q2) = Range(p1) \cup Range(p2)
  BY <1>1, <1>2, ConcatIsSeq
<1> HIDE DEF q2
<1>9. IsSeq(q3) /\ Range(q3) = Range(q2) \cup Range(p3)
  BY <1>3, <1>8, ConcatIsSeq
<1> HIDE DEF q3
<1>10. IsSeq(q4) /\ Range(q4) = Range(q3) \cup Range(p4)
  BY <1>3, <1>9, ConcatIsSeq
<1> HIDE DEF q4
<1>11. \A c \in Range(q4) : EconomicsCall(ch, cfg, c) /\ c.fn # <<"tp", "policy">>
  BY <1>1, <1>2, <1>3, <1>7, <1>8, <1>9, <1>10
<1>12. InOrder(q4)
  BY <1>10, <1>11, NoTextInOrder
<1>13. IsSeq(tax) /\ Range(tax) = Range(texts) \cup Range(acks)
  BY <1>4, ConcatIsSeq
<1>14. InOrder(tax)
  <2>1. InOrder(texts) /\ InOrder(acks)
    BY <1>4, <1>5, ShortInOrder, NoTextInOrder
  <2>2. \A x \in Range(texts), y \in Range(acks) : ~Clash(x, y)
    BY <1>5 DEF Clash
  <2> QED BY <1>4, <2>1, <2>2, ConcatInOrder
<1> HIDE DEF tax
<1>15. IsSeq(q4 \o tax) /\ Range(q4 \o tax) = Range(q4) \cup Range(tax)
  BY <1>10, <1>13, ConcatIsSeq
<1>16. InOrder(q4 \o tax)
  <2>1. \A x \in Range(q4), y \in Range(tax) : ~Clash(x, y)
    BY <1>11 DEF Clash
  <2> QED BY <1>10, <1>12, <1>13, <1>14, <2>1, ConcatInOrder
<1>17. \A c \in Range(q4 \o tax) : EconomicsCall(ch, cfg, c)
  BY <1>5, <1>6, <1>11, <1>13, <1>15
<1> QED BY <1>4, <1>15, <1>16, <1>17 DEF q2, q3, q4, tax, p1, p2, p3, p4

\* The transactions of a script's plan.
ScriptCall(s, ch, cfg, c) ==
  /\ s = "jobRegistry" => RegistryCall(ch, cfg, c)
  /\ s = "stakeManager" => StakeCall(ch, cfg, c)
  /\ s = "feePool" => PoolCall(ch, cfg, c)
  /\ s = "incentives" => IncentivesCall(ch, cfg, c)
  /\ s = "taxPolicy" => TaxCall(ch, cfg, c)
  /\ s = "thermodynamics" => ThermoPlanned(ch, cfg, c)
  /\ s = "systemPause" => PauseCall(ch, cfg, c)
  /\ s = "economics" => EconomicsCall(ch, cfg, c)

LEMMA ScriptNames ==
  Scripts = {"jobRegistry", "stakeManager", "feePool", "incentives", "taxPolicy",
             "thermodynamics", "systemPause", "economics"}
BY DEF Scripts, Modules, ToSet

LEMMA TaxPlanInOrder ==
  ASSUME NEW ch, NEW cfg, K("tp", "bumpVersion") \notin DOMAIN cfg
  PROVE  InOrder(TaxPolicyPlan(ch, cfg))
<1> DEFINE news == {k \in Texts \cap DOMAIN cfg : cfg[k] # Trim(ch[k])}
           acks == Among(PerAccount("tp", "acknowledger"), DOMAIN cfg)
           set == [k \in news |-> cfg[k]]
           p1 == IF news = {} THEN <<>> ELSE Call(K("tp", "policy"), set)
           p2 == [i \in DOMAIN acks |-> [fn |-> acks[i], set |-> Only(acks[i], cfg[acks[i]])]]
<1>1. TaxPolicyPlan(ch, cfg) = (p1 \o p2) \o <<>>
  BY DEF TaxPolicyPlan
<1>2. IsSeq(p1) /\ Len(p1) <= 1
  <2>1. p1 = <<>> \/ p1 = <<Policy(set)>>
    BY DEF Call, Policy
  <2> HIDE DEF p1
  <2>2. Len(<<>>) <= 1 /\ Len(<<Policy(set)>>) <= 1
    OBVIOUS
  <2> QED BY <2>1, <2>2, EmptyIsSeq, OneIsSeq
<1>3. /\ IsSeq(PerAccount("tp", "acknowledger"))
      /\ Range(PerAccount("tp", "acknowledger")) = TaxSingles
  BY ListKeys DEF TaxSingles
<1>4. IsSeq(acks) /\ Range(acks) = TaxSingles \cap DOMAIN cfg
  BY <1>3, AmongFacts
<1> HIDE DEF acks, p1
<1>5. /\ Len(acks) \in Nat /\ DOMAIN acks = 1..Len(acks)
      /\ \A i \in 1..Len(acks) : acks[i] \in Range(acks)
  BY <1>4, Entries1
<1>6. p2 = [i \in 1..Len(acks) |-> Lone(cfg, acks[i])]
  BY <1>5 DEF Lone
<1> HIDE DEF p2
<1>7. IsSeq(p2) /\ \A c \in Range(p2) : \E i \in 1..Len(acks) : c = Lone(cfg, acks[i])
  BY <1>5, <1>6 DEF IsSeq, Range
<1>8. \A c \in Range(p2) : \E k \in TaxSingles : k \in DOMAIN cfg /\ c = Lone(cfg, k)
  BY <1>4, <1>5, <1>7
<1>9. \A c \in Range(p2) : c.fn # <<"tp", "policy">>
  BY <1>8, AcknowledgersSendNoText
<1>10. InOrder(p1) /\ InOrder(p2)
  BY <1>2, <1>7, <1>9, ShortInOrder, NoTextInOrder
<1>11. \A x \in Range(p1), y \in Range(p2) : ~Clash(x, y)
  BY <1>9 DEF Clash
<1> DEFINE q == p1 \o p2
<1>12. IsSeq(q) /\ InOrder(q)
  BY <1>2, <1>7, <1>10, <1>11, ConcatIsSeq, ConcatInOrder
<1> HIDE DEF q
<1>13. InOrder(<<>>) /\ IsSeq(<<>>) /\ \A x \in Range(q), y \in Range(<<>>) : ~Clash(x, y)
  BY EmptyIsSeq DEF InOrder
<1>14. InOrder(q \o <<>>)
  BY <1>12, <1>13, ConcatInOrder
<1> QED BY <1>1, <1>14 DEF q

LEMMA PlanFacts ==
  ASSUME NEW s \in Scripts, NEW ch, NEW cfg, NEW history
  PROVE  /\ IsSeq(Plan(s, ch, cfg, history))
         /\ \A c \in Range(Plan(s, ch, cfg, history)) : ScriptCall(s, ch, cfg, c)
         /\ K("tp", "bumpVersion") \notin DOMAIN cfg => InOrder(Plan(s, ch, cfg, history))
<1> DEFINE P == Plan(s, ch, cfg, history)
<1>0. ASSUME IsSeq(P), \A c \in Range(P) : c.fn[1] # "tp" PROVE InOrder(P)
  <2>1. \A c \in Range(P) : c.fn # <<"tp", "policy">>
    BY <1>0
  <2> HIDE DEF P
  <2> QED BY <1>0, <2>1, NoTextInOrder
<1>1. CASE s = "jobRegistry"
  <2>1. P = JobRegistryPlan(ch, cfg) \o JobRegistryAcknowledgers(ch, cfg)
    BY <1>1 DEF Plan
  <2>2. IsSeq(P) /\ \A c \in Range(P) : RegistryCall(ch, cfg, c)
    BY <2>1, RegistryPlanFacts
  <2> HIDE DEF P
  <2>3. \A c \in Range(P) : c.fn[1] # "tp"
    BY <2>2, NoText
  <2> QED BY <1>0, <1>1, <2>2, <2>3 DEF P, ScriptCall
<1>2. CASE s = "stakeManager"
  <2>1. P = StakeManagerPlan(ch, cfg)
    BY <1>2 DEF Plan
  <2>2. IsSeq(P) /\ \A c \in Range(P) : StakeCall(ch, cfg, c)
    BY <2>1, StakePlanFacts
  <2> HIDE DEF P
  <2>3. \A c \in Range(P) : c.fn[1] # "tp"
    BY <2>2, NoText
  <2> QED BY <1>0, <1>2, <2>2, <2>3 DEF P, ScriptCall
<1>3. CASE s = "feePool"
  <2>1. P = FeePoolAllowlist(ch, cfg) \o FeePoolPlan(ch, cfg) \o FeePoolRewarders(ch, cfg)
    BY <1>3 DEF Plan
  <2>2. IsSeq(P) /\ \A c \in Range(P) : PoolCall(ch, cfg, c)
    BY <2>1, PoolPlanFacts
  <2> HIDE DEF P
  <2>3. \A c \in Range(P) : c.fn[1] # "tp"
    BY <2>2, NoText
  <2> QED BY <1>0, <1>3, <2>2, <2>3 DEF P, ScriptCall
<1>4. CASE s = "incentives"
  <2>1. P = PlatformIncentivesPlan(ch, cfg)
    BY <1>4 DEF Plan
  <2>2. IsSeq(P) /\ \A c \in Range(P) : IncentivesCall(ch, cfg, c)
    BY <2>1, IncentivesPlanFacts
  <2> HIDE DEF P
  <2>3. \A c \in Range(P) : c.fn[1] # "tp"
    BY <2>2, NoText
  <2> QED BY <1>0, <1>4, <2>2, <2>3 DEF P, ScriptCall
<1>5. CASE s = "taxPolicy"
  <2>1. P = TaxPolicyPlan(ch, cfg)
    BY <1>5 DEF Plan
  <2> HIDE DEF P
  <2>2. IsSeq(P) /\ \A c \in Range(P) : TaxCall(ch, cfg, c)
    BY <2>1, TaxPlanFacts
  <2> QED BY <1>5, <2>1, <2>2, TaxPlanInOrder DEF P, ScriptCall
<1>6. CASE s = "thermodynamics"
  <2>1. P = RewardEnginePlan(ch, cfg) \o ThermostatSection(ch, cfg)
    BY <1>6 DEF Plan
  <2>2. IsSeq(P) /\ \A c \in Range(P) : ThermoPlanned(ch, cfg, c)
    BY <2>1, ThermoPlanFacts
  <2> HIDE DEF P
  <2>3. \A c \in Range(P) : c.fn[1] # "tp"
    BY <2>2, NoText DEF ThermoPlanned
  <2> QED BY <1>0, <1>6, <2>2, <2>3 DEF P, ScriptCall
<1>7. CASE s = "systemPause"
  <2>1. P = SystemPausePlan(ch, cfg)
    BY <1>7 DEF Plan
  <2>2. IsSeq(P) /\ \A c \in Range(P) : PauseCall(ch, cfg, c)
    BY <2>1, PausePlanFacts
  <2> HIDE DEF P
  <2>3. \A c \in Range(P) : c.fn[1] # "tp"
    BY <2>2, NoText
  <2> QED BY <1>0, <1>7, <2>2, <2>3 DEF P, ScriptCall
<1>8. CASE s = "economics"
  <2>1. P = EconomicsPaymentPlan(ch, cfg) \o EconomicsLimitsPlan(ch, cfg)
            \o EconomicsStakePlan(ch, cfg) \o EconomicsFeePoolPlan(ch, cfg)
            \o EconomicsTaxPlan(ch, cfg, history)
    BY <1>8 DEF Plan
  <2>2. IsSeq(P) /\ InOrder(P) /\ \A c \in Range(P) : EconomicsCall(ch, cfg, c)
    BY <2>1, EconomicsPlanFacts
  <2> HIDE DEF P
  <2> QED BY <1>8, <2>2 DEF P, ScriptCall
<1> QED BY <1>1, <1>2, <1>3, <1>4, <1>5, <1>6, <1>7, <1>8, ScriptNames

-----------------------------------------------------------------------------
(* What the parsers make of blank entries. *)

Blanks == {Null, Empty, Blank}

LEMMA WordFacts ==
  /\ Limit \in Nat
  /\ Null # Empty /\ Null # Blank /\ Empty # Blank /\ Skip # Throw
  /\ Empty # Unset /\ Blank # Unset /\ Null # Unset
  /\ Null \notin Int /\ Empty \notin Int /\ Blank \notin Int /\ Skip \notin Int /\ Throw \notin Int
  /\ Null \notin BOOLEAN /\ Empty \notin BOOLEAN /\ Blank \notin BOOLEAN
<1>1. /\ Words[1] = Null /\ Words[2] = Empty /\ Words[3] = Blank /\ Words[4] = Junk
      /\ Words[5] = Unset /\ Words[6] = Skip /\ Words[7] = Throw
      /\ DOMAIN Words = 1..7
  BY DEF Words
<1>2. /\ 1 \in 1..7 /\ 2 \in 1..7 /\ 3 \in 1..7 /\ 4 \in 1..7 /\ 5 \in 1..7 /\ 6 \in 1..7
      /\ 7 \in 1..7
  OBVIOUS
<1>3. /\ Limit \in Nat
      /\ \A i \in 1..7 : Words[i] \notin Int /\ Words[i] \notin BOOLEAN
      /\ \A i, j \in 1..7 : Words[i] = Words[j] => i = j
  BY <1>1, WordsAssumption
<1> QED BY <1>1, <1>2, <1>3

LEMMA OwnReading ==
  ASSUME NEW raw, NEW k,
         Given(raw, k) \in Blanks, Given(raw, InTokens(k)) \in Blanks,
         k \notin Addresses, k \in Stakes => k \notin DOMAIN raw,
         k # K("tp", "bumpVersion"), k # K("sp", "refresh"),
         k \in Percents => Given(raw, k) # Blank,
         k[2] \in ListNames => Given(raw, k) = Null,
         k \in Texts => Given(raw, k) = Null,
         k \in RoleTemps => Given(raw, k) # Null
  PROVE  \/ ReadOwn(raw, k) \in {Skip, Throw}
         \/ k \in Caps /\ ReadOwn(raw, k) = 0
         \/ k = TaxPolicyKey /\ ReadOwn(raw, k) = Zero
<1> DEFINE v == Given(raw, k)
           Nothing(x) == x \in {Skip, Throw}
<1>1. v \in Blanks /\ Given(raw, InTokens(k)) \in Blanks
  OBVIOUS
<1> HIDE DEF v
<1>2. k \in Percents => Nothing(ParsePercentage(v))
  BY <1>1, WordFacts DEF ParsePercentage, Blanks, v
<1>3. /\ Nothing(ParseTokenValue(v, Given(raw, InTokens(k))))
      /\ Nothing(ParseTokenValue(Null, Given(raw, InTokens(k))))
  BY <1>1, WordFacts DEF ParseTokenValue, ParseInteger, Blanks, Natural
<1>4. ParseNumber(v) = 0
  BY <1>1, WordFacts DEF ParseNumber, Blanks, Integer
<1>5. Nothing(ParseSignedInteger(v)) /\ Nothing(ParseInteger(v))
  BY <1>1, WordFacts DEF ParseSignedInteger, ParseInteger, Blanks, Integer, Natural
<1>6. Nothing(ParseBigInt(v)) /\ Nothing(ParseUnsigned(v))
  BY <1>1, WordFacts DEF ParseBigInt, ParseUnsigned, Blanks, Integer
<1>7. Nothing(ParseRoleShare(v)) /\ Nothing(ParseBoolean(v)) /\ Nothing(ParseRewardRole(v))
      /\ Nothing(ParseInstance(v))
  BY <1>1, WordFacts DEF ParseRoleShare, ParseBoolean, ParseRewardRole, ParseInstance, Blanks
<1>8. Nothing(EnsureTaxPolicy(v)) \/ EnsureTaxPolicy(v) = Zero
  BY <1>1, WordFacts DEF EnsureTaxPolicy, Blanks
<1>9. k[2] \in ListNames => Nothing(Membership(v))
  BY WordFacts DEF Membership, v
<1>10. k \in RoleTemps => Nothing(ParseRoleTemperature(v))
  BY <1>1, <1>6, WordFacts DEF ParseRoleTemperature, Blanks, v
<1>11. k \in Texts => Nothing(ParseText(v))
  BY WordFacts DEF ParseText, v
<1> HIDE DEF Nothing
<1>12. \/ Nothing(ReadOwn(raw, k))
       \/ k \in Caps /\ ReadOwn(raw, k) = 0
       \/ k = TaxPolicyKey /\ ReadOwn(raw, k) = Zero
  BY <1>2, <1>3, <1>4, <1>5, <1>6, <1>7, <1>8, <1>9, <1>10, <1>11 DEF ReadOwn, v
<1> QED BY <1>12 DEF Nothing

LEMMA EconomicsReading ==
  ASSUME NEW raw, NEW k, Given(raw, k) \in Blanks,
         k \notin Addresses, k[2] \notin ListNames,
         k \in Texts => Given(raw, k) \in {Null, Empty}
  PROVE  ReadEconomics(raw, k) \in {Skip, Throw}
<1> DEFINE v == Given(raw, k)
           Nothing(x) == x \in {Skip, Throw}
<1>1. v \in Blanks
  OBVIOUS
<1> HIDE DEF v
<1>2. Nothing(EconomicsPercent(v))
  BY <1>1, WordFacts DEF EconomicsPercent, Blanks
<1>3. Nothing(ParseTokenValue(Null, v))
  BY <1>1, WordFacts DEF ParseTokenValue, Blanks, Natural
<1>4. Nothing(EconomicsAddress(v))
  BY <1>1, WordFacts DEF EconomicsAddress, Blanks
<1>5. k \in Texts => Nothing(EconomicsText(v))
  BY WordFacts DEF EconomicsText, v
<1>6. Nothing(EconomicsInteger(v))
  BY <1>1, WordFacts DEF EconomicsInteger, Blanks, Natural
<1> HIDE DEF Nothing
<1>7. Nothing(ReadEconomics(raw, k))
  BY <1>2, <1>3, <1>4, <1>5, <1>6 DEF ReadEconomics, v
<1> QED BY <1>7 DEF Nothing

LEMMA NoParameter ==
  ~(K("tp", "bumpVersion") \in Keys) /\ ~(K("sp", "refresh") \in Keys)
<1>1. \A c \in DOMAIN Scalars : c \notin {"refresh", "bumpVersion"}
  BY DEF Scalars
<1>2. \A k \in Keys : k[1] = "tp" => k[2] # "bumpVersion"
  <2>1. \A k \in Lists \cup Roots : k[2] \in {"acknowledger", "allow", "rewarder", "settler", "share", "mu",
                                        "baseline", "roleTemp"} \cup DOMAIN Scalars
    BY DEF Lists, Roots
  <2>2. \A k \in Lists \cup Roots : k[2] # "bumpVersion"
    BY <1>1, <2>1
  <2>3. \A c \in DOMAIN Scalars : \A n \in Scalars[c] : c = "tp" => n # "bumpVersion"
    BY DEF Scalars
  <2> QED BY <2>2, <2>3 DEF Keys
<1>3. \A k \in Keys : k[1] = "sp" => k[2] # "refresh"
  <2>1. \A k \in Lists \cup Roots : k[2] \in {"acknowledger", "allow", "rewarder", "settler", "share", "mu",
                                        "baseline", "roleTemp"} \cup DOMAIN Scalars
    BY DEF Lists, Roots
  <2>2. \A k \in Lists \cup Roots : k[2] # "refresh"
    BY <1>1, <2>1
  <2>3. \A c \in DOMAIN Scalars : c = "sp" => Scalars[c] = PauseModules
    BY DEF Scalars
  <2>4. \A c \in DOMAIN Scalars : \A n \in Scalars[c] : c = "sp" => n # "refresh"
    BY <1>1, <2>3, ChainAssumption
  <2> QED BY <2>2, <2>4 DEF Keys
<1>4. /\ K("tp", "bumpVersion")[1] = "tp" /\ K("tp", "bumpVersion")[2] = "bumpVersion"
      /\ K("sp", "refresh")[1] = "sp" /\ K("sp", "refresh")[2] = "refresh"
  BY DEF K
<1> QED BY <1>2, <1>3, <1>4

LEMMA ConfigFacts ==
  ASSUME NEW s, NEW k \in DOMAIN Config(s)
  PROVE  /\ k \in Entries(files[s])
         /\ Config(s)[k] = Read(s, files[s], k)
         /\ Config(s)[k] \notin {Skip, Throw}
BY DEF Config, Parsed

\* What a script reads from its file for a parameter, the file asks for.
LEMMA ReadIsAsked ==
  ASSUME NEW s \in DOMAIN files, NEW k \in DOMAIN Config(s), k \in Keys,
         s # "economics" => /\ k \in Caps => Config(s)[k] # 0
                            /\ k = TaxPolicyKey => Config(s)[k] # Zero
  PROVE  k \in Asked
<1> DEFINE v == Given(files[s], k)
<1>1. SUFFICES ~SaysNothing(s, k)
  BY ConfigFacts DEF Asked
<1>2. SUFFICES ASSUME SaysNothing(s, k) PROVE FALSE
  OBVIOUS
<1>3. /\ v \in Blanks
      /\ Given(files[s], InTokens(k)) \in Blanks
      /\ k \notin Addresses
      /\ k \in Stakes => s = "economics" \/ k \notin DOMAIN files[s]
      /\ k \in Percents => s = "economics" \/ v # Blank
      /\ k[2] \in ListNames => s # "economics" /\ v = Null
      /\ k \in Texts => v = Null \/ (s = "economics" /\ v = Empty)
      /\ k \in RoleTemps => v # Null
  BY <1>2 DEF SaysNothing, Blanks
<1>4. k # K("tp", "bumpVersion") /\ k # K("sp", "refresh")
  BY NoParameter
<1>5. CASE s = "economics"
  <2>1. ReadEconomics(files[s], k) \in {Skip, Throw}
    BY <1>3, <1>5, EconomicsReading
  <2> QED BY <1>5, <2>1, ConfigFacts DEF Read
<1>6. CASE s # "economics"
  <2>1. \/ ReadOwn(files[s], k) \in {Skip, Throw}
        \/ k \in Caps /\ ReadOwn(files[s], k) = 0
        \/ k = TaxPolicyKey /\ ReadOwn(files[s], k) = Zero
    BY <1>3, <1>4, <1>6, OwnReading
  <2> QED BY <1>6, <2>1, ConfigFacts DEF Read
<1> QED BY <1>5, <1>6

LEMMA RecommendedIsAsked ==
  ASSUME NEW s \in DOMAIN files, NEW k \in DOMAIN Recommended(Config(s))
  PROVE  k \in Asked
BY DEF Asked, SaysNothing

-----------------------------------------------------------------------------
(* Every transaction a script plans is harmless: it writes parameters, those *)
(* of the policy's text only as a text, and only what a file asks for or what *)
(* is there already.                                                          *)

PolicyFn == K("tp", "policy")
ModulesFn == K("sp", "modules")

Sound(c) ==
  /\ DOMAIN c.set \subseteq Keys
  /\ c.fn = ModulesFn => \A k \in PauseKeys : k \in DOMAIN c.set /\ c.set[k] \in {1, 2}
  /\ c.fn # PolicyFn => DOMAIN c.set \cap Texts = {}

Settled(ch, c) ==
  \A k \in DOMAIN c.set :
    k \in Asked \cup meddled \/ (k[1] \in {"sm", "pi", "re"} /\ c.set[k] = ch[k])

\* A text is sent only if it is a new one.
News(ch, c) == c.fn = PolicyFn => \E k \in DOMAIN c.set \cap Texts : c.set[k] # ch[k]
Bumped == \E s \in DOMAIN files : K("tp", "bumpVersion") \in DOMAIN Config(s)

Good(ch, c) == Sound(c) /\ Settled(ch, c) /\ (Bumped \/ News(ch, c))

LEMMA ScalarKeys ==
  /\ Names("jr", Scalars.jr) \subseteq Keys
  /\ Names("sm", Scalars.sm) \subseteq Keys
  /\ Names("fp", Scalars.fp) \subseteq Keys
  /\ Names("pi", Scalars.pi) \subseteq Keys
  /\ Names("tp", Scalars.tp) \subseteq Keys
  /\ Names("re", Scalars.re) \subseteq Keys
  /\ Names("th", Scalars.th) \subseteq Keys
  /\ Names("sp", PauseModules) \subseteq Keys
<1>1. \A c \in DOMAIN Scalars : Names(c, Scalars[c]) \subseteq Keys
  BY DEF Names, Keys
<1>2. /\ DOMAIN Scalars = {"jr", "sm", "fp", "pi", "tp", "re", "th", "sp"}
      /\ Scalars["sp"] = PauseModules
  BY DEF Scalars
<1> QED BY <1>1, <1>2

LEMMA ListsAreKeys ==
  /\ Each3("jr", "acknowledger", Members) \subseteq Keys
  /\ Each3("tp", "acknowledger", Members) \subseteq Keys
  /\ Each3("sm", "allow", Members) \subseteq Keys
  /\ Each3("fp", "allow", Members) \subseteq Keys
  /\ Each3("fp", "rewarder", Members) \subseteq Keys
  /\ Each3("re", "settler", Members) \subseteq Keys
  /\ Each3("re", "mu", Roles) \subseteq Keys
  /\ Each3("re", "baseline", Roles) \subseteq Keys
  /\ RoleTemps \subseteq Keys
  /\ Shares \subseteq Keys
<1>1. /\ Each3("jr", "acknowledger", Members) \subseteq Lists
      /\ Each3("tp", "acknowledger", Members) \subseteq Lists
      /\ Each3("fp", "rewarder", Members) \subseteq Lists
      /\ Each3("re", "settler", Members) \subseteq Lists
  BY DEF Each3, Lists
<1>2. /\ Each3("sm", "allow", Members) \subseteq Lists
      /\ Each3("fp", "allow", Members) \subseteq Lists
  BY DEF Each3, Lists
<1>3. /\ Each3("re", "mu", Roles) \subseteq Lists
      /\ Each3("re", "baseline", Roles) \subseteq Lists
  BY DEF Each3, Lists
<1>4. RoleTemps \subseteq Lists /\ Shares \subseteq Lists
  BY DEF RoleTemps, Shares, Lists
<1> QED BY <1>1, <1>2, <1>3, <1>4 DEF Keys

LEMMA SinglesAreKeys ==
  /\ RegistrySingles \subseteq Keys
  /\ StakeSingles \subseteq Keys
  /\ PoolSingles \subseteq Keys
  /\ TaxSingles \subseteq Keys
  /\ ThermoSingles \subseteq Keys
  /\ EconomicsSingles \subseteq Keys
<1>1. RegistrySingles \subseteq Keys
  <2>1. Names("jr", Scalars.jr \ {"feePool"}) \subseteq Names("jr", Scalars.jr)
    BY DEF Names
  <2> QED BY <2>1, ScalarKeys, ListsAreKeys DEF RegistrySingles
<1> DEFINE N == {"treasury", "pauser", "thermostat", "hamiltonianFeed", "jobRegistry",
                 "disputeModule", "validationModule", "feePool", "minStake", "maxStake", "feePct",
                 "burnPct", "validatorRewardPct", "unbondingPeriod", "autoStakeTuning",
                 "maxAGITypes", "maxTotalPayoutPct"}
           E == {"minStake", "treasury", "feePct", "burnPct", "validatorRewardPct",
                 "unbondingPeriod", "maxStake"}
<1>2. N \subseteq Scalars.sm /\ E \subseteq Scalars.sm
  BY DEF Scalars
<1>3. Names("sm", N) \subseteq Names("sm", Scalars.sm) /\ Names("sm", E) \subseteq Names("sm", Scalars.sm)
  <2> HIDE DEF N, E
  <2> QED BY <1>2 DEF Names
<1>4. StakeSingles \subseteq Keys
  BY <1>3, ScalarKeys, ListsAreKeys DEF StakeSingles
<1>5. PoolSingles \subseteq Keys
  BY ScalarKeys, ListsAreKeys DEF PoolSingles
<1>6. TaxSingles \subseteq Keys
  BY ListsAreKeys DEF TaxSingles
<1>7. ThermoSingles \subseteq Keys
  <2>1. "systemTemperature" \in Scalars.th
    BY DEF Scalars
  <2>2. <<"th", "systemTemperature">> \in Names("th", Scalars.th)
    BY <2>1 DEF Names
  <2> QED BY <2>2, ScalarKeys, ListsAreKeys DEF ThermoSingles
<1>8. EconomicsSingles \subseteq Keys
  <2>1. {"burnPct", "treasury"} \subseteq Scalars.fp
    BY DEF Scalars
  <2>2. Names("fp", {"burnPct", "treasury"}) \subseteq Names("fp", Scalars.fp)
    BY <2>1 DEF Names
  <2> QED BY <1>3, <1>6, <2>2, ScalarKeys, ListsAreKeys DEF EconomicsSingles
<1> QED BY <1>1, <1>4, <1>5, <1>6, <1>7, <1>8

LEMMA GroupsAreKeys ==
  /\ Recommendable \subseteq Keys /\ \A k \in Recommendable : k[1] = "sm"
  /\ SlashKeys \subseteq Keys /\ \A k \in SlashKeys : k[1] = "sm"
  /\ AutoStake \subseteq Keys /\ \A k \in AutoStake : k[1] = "sm"
  /\ PoolKeys \subseteq Keys /\ \A k \in PoolKeys : k[1] = "pi"
  /\ Shares \subseteq Keys /\ \A k \in Shares : k[1] = "re"
  /\ \A g \in ThermoGroups : g.fn[1] = "th" /\ g.keys \subseteq Keys /\ \A k \in g.keys : k[1] = "th"
  /\ Texts \subseteq Keys /\ \A k \in Texts : k[1] = "tp" /\ k[2] # "acknowledger"
  /\ PauseKeys \subseteq Keys /\ \A k \in PauseKeys : k[1] = "sp"
<1>1. Recommendable \subseteq Keys /\ \A k \in Recommendable : k[1] = "sm"
  <2>1. Recommendable \subseteq Names("sm", Scalars.sm)
    BY DEF Recommendable, Names, Scalars, K
  <2> QED BY <2>1, ScalarKeys DEF Names
<1>2. SlashKeys \subseteq Keys /\ \A k \in SlashKeys : k[1] = "sm"
  <2>1. SlashKeys \subseteq Names("sm", Scalars.sm)
    BY DEF SlashKeys, Names, Scalars, K
  <2> QED BY <2>1, ScalarKeys DEF Names
<1>3. AutoStake \subseteq Keys /\ \A k \in AutoStake : k[1] = "sm"
  <2>1. AutoStake \subseteq Names("sm", Scalars.sm)
    BY DEF AutoStake, Names, Scalars, K
  <2> QED BY <2>1, ScalarKeys DEF Names
<1>4. PoolKeys \subseteq Keys /\ \A k \in PoolKeys : k[1] = "pi"
  <2>1. PoolKeys \subseteq Names("pi", Scalars.pi)
    BY DEF PoolKeys, Names, Scalars, K
  <2> QED BY <2>1, ScalarKeys DEF Names
<1>5. Shares \subseteq Keys /\ \A k \in Shares : k[1] = "re"
  BY ListsAreKeys DEF Shares
<1>6. \A g \in ThermoGroups : g.fn[1] = "th" /\ g.keys \subseteq Keys /\ \A k \in g.keys : k[1] = "th"
  <2>1. /\ Bounds \subseteq Names("th", Scalars.th) /\ IntegralBounds \subseteq Names("th", Scalars.th)
        /\ PID \subseteq Names("th", Scalars.th) /\ Weights \subseteq Names("th", Scalars.th)
    BY DEF Bounds, IntegralBounds, PID, Weights, Names, Scalars, K
  <2>2. \A g \in ThermoGroups : g.fn[1] = "th" /\ g.keys \in {Bounds, IntegralBounds, PID, Weights}
    BY DEF ThermoGroups, K
  <2> QED BY <2>1, <2>2, ScalarKeys DEF Names
<1>7. Texts \subseteq Keys /\ \A k \in Texts : k[1] = "tp" /\ k[2] # "acknowledger"
  <2>1. Texts \subseteq Names("tp", Scalars.tp)
    BY DEF Texts, Names, Scalars, K
  <2>2. \A k \in Texts : k[1] = "tp" /\ k[2] # "acknowledger"
    BY DEF Texts, K
  <2> QED BY <2>1, <2>2, ScalarKeys
<1>8. PauseKeys \subseteq Keys /\ \A k \in PauseKeys : k[1] = "sp"
  <2>1. PauseKeys = Names("sp", PauseModules)
    BY DEF PauseKeys, Names
  <2> QED BY <2>1, ScalarKeys DEF Names
<1> QED BY <1>1, <1>2, <1>3, <1>4, <1>5, <1>6, <1>7, <1>8

LEMMA OnlyFacts ==
  ASSUME NEW k, NEW v
  PROVE  DOMAIN Only(k, v) = {k} /\ Only(k, v)[k] = v
BY DEF Only

\* One parameter the file asks for.
LEMMA OneIsGood ==
  ASSUME NEW ch, NEW k, NEW v, NEW fn, k \in Keys, k \in Asked, k \notin Texts,
         fn # PolicyFn, fn # ModulesFn
  PROVE  Good(ch, [fn |-> fn, set |-> Only(k, v)])
<1> DEFINE c == [fn |-> fn, set |-> Only(k, v)]
<1>1. c.fn = fn /\ DOMAIN c.set = {k}
  BY OnlyFacts
<1> HIDE DEF c
<1>2. Sound(c)
  BY <1>1 DEF Sound
<1>3. Settled(ch, c)
  BY <1>1 DEF Settled
<1>4. News(ch, c)
  BY <1>1 DEF News
<1> QED BY <1>2, <1>3, <1>4 DEF Good, c

LEMMA LoneIsGood ==
  ASSUME NEW ch, NEW s \in DOMAIN files, NEW k \in DOMAIN Config(s), k \in Keys,
         k[1] # "sp", k[1] = "tp" => k[2] = "acknowledger",
         s # "economics" => /\ k \in Caps => Config(s)[k] # 0
                            /\ k = TaxPolicyKey => Config(s)[k] # Zero
  PROVE  Good(ch, Lone(Config(s), k))
<1>1. k \in Asked
  BY ReadIsAsked
<1>2. k \notin Texts
  BY GroupsAreKeys
<1>3. k # PolicyFn /\ k # ModulesFn
  <2>1. PolicyFn[1] = "tp" /\ PolicyFn[2] = "policy" /\ ModulesFn[1] = "sp"
    BY DEF PolicyFn, ModulesFn, K
  <2> QED BY <2>1
<1> QED BY <1>1, <1>2, <1>3, OneIsGood DEF Lone

\* Several parameters at once: those the file leaves out keep their values.
LEMMA JointIsGood ==
  ASSUME NEW ch, NEW cfg, NEW fn, NEW ks, ks \subseteq Keys, ks \cap Texts = {},
         fn # PolicyFn, fn # ModulesFn,
         \A k \in ks \cap DOMAIN cfg : k \in Asked,
         \A k \in ks : k \in DOMAIN cfg \/ k[1] \in {"sm", "pi", "re"}
  PROVE  Good(ch, Joint(ch, cfg, fn, ks))
<1> DEFINE c == Joint(ch, cfg, fn, ks)
<1>1. /\ c.fn = fn /\ DOMAIN c.set = ks
      /\ \A k \in ks : k \notin DOMAIN cfg => c.set[k] = ch[k]
  BY DEF Joint, Target
<1> HIDE DEF c
<1>2. Sound(c)
  BY <1>1 DEF Sound
<1>3. Settled(ch, c)
  BY <1>1 DEF Settled
<1>4. News(ch, c)
  BY <1>1 DEF News
<1> QED BY <1>2, <1>3, <1>4 DEF Good, c

LEMMA FnNames ==
  /\ PolicyFn[1] = "tp" /\ PolicyFn[2] = "policy" /\ ModulesFn[1] = "sp"
  /\ PolicyFn = <<"tp", "policy">>
BY DEF PolicyFn, ModulesFn, K

\* The two parts of a recommendation.
LEMMA RecommendedKeys ==
  ASSUME NEW cfg
  PROVE  DOMAIN Recommended(cfg) \subseteq Recommendable
BY DEF Recommended, Recommendable

LEMMA RecommendingIsGood ==
  ASSUME NEW ch, NEW s \in DOMAIN files, NEW c, Recommending(ch, Config(s), c)
  PROVE  Good(ch, c)
<1> DEFINE rec == Recommended(Config(s))
           fn == K("sm", "recommendations")
<1>1. c = Joint(ch, rec, fn, Recommendable)
  BY DEF Recommending
<1>2. fn[1] = "sm"
  BY DEF K
<1>3. \A k \in Recommendable \cap DOMAIN rec : k \in Asked
  BY RecommendedIsAsked
<1> HIDE DEF rec, fn
<1>4. fn # PolicyFn /\ fn # ModulesFn
  BY <1>2, FnNames
<1>5. Recommendable \subseteq Keys /\ Recommendable \cap Texts = {} /\ \A k \in Recommendable : k[1] = "sm"
  BY GroupsAreKeys
<1> QED BY <1>1, <1>3, <1>4, <1>5, JointIsGood

\* A group of the stake manager, the incentives or the reward engine.
LEMMA GroupIsGood ==
  ASSUME NEW ch, NEW s \in DOMAIN files, NEW x \in {"sm", "pi", "re"}, NEW n,
         NEW ks, ks \subseteq Keys, \A k \in ks : k[1] = x, ks \cap Caps = {}
  PROVE  Good(ch, Joint(ch, Config(s), K(x, n), ks))
<1>1. \A k \in ks : k # TaxPolicyKey
  <2>1. TaxPolicyKey[1] = "jr"
    BY DEF TaxPolicyKey, K
  <2> QED BY <2>1
<1>2. \A k \in ks \cap DOMAIN Config(s) : k \in Asked
  BY <1>1, ReadIsAsked
<1>3. ks \cap Texts = {}
  BY GroupsAreKeys
<1>4. K(x, n)[1] = x
  BY DEF K
<1>5. K(x, n) # PolicyFn /\ K(x, n) # ModulesFn
  BY <1>4, FnNames
<1>6. \A k \in ks : k \in DOMAIN Config(s) \/ k[1] \in {"sm", "pi", "re"}
  OBVIOUS
<1> DEFINE cfg == Config(s)
           fn == K(x, n)
<1> HIDE DEF cfg, fn
<1>7. Good(ch, Joint(ch, cfg, fn, ks))
  BY <1>2, <1>3, <1>5, <1>6, JointIsGood DEF cfg, fn
<1> QED BY <1>7 DEF cfg, fn

LEMMA SlashIsGood ==
  ASSUME NEW ch, NEW s \in DOMAIN files
  PROVE  Good(ch, Joint(ch, Config(s), K("sm", "slashing"), SlashKeys))
<1>1. SlashKeys \cap Caps = {}
  BY DEF SlashKeys, Caps, K
<1> QED BY <1>1, GroupsAreKeys, GroupIsGood

LEMMA StakeCallIsGood ==
  ASSUME NEW ch, "stakeManager" \in DOMAIN files, NEW c,
         StakeCall(ch, Config("stakeManager"), c),
         ~StakeManagerRefuses(ch, Config("stakeManager"))
  PROVE  Good(ch, c)
<1> DEFINE s == "stakeManager"
           cfg == Config(s)
<1>1. CASE Single(StakeSingles, ch, cfg, c)
  <2>1. PICK k \in StakeSingles : k \in DOMAIN cfg /\ c = Lone(cfg, k)
    BY <1>1 DEF Single
  <2>2. k \in Keys /\ k[1] = "sm"
    BY SinglesAreKeys, SinglesOf
  <2>3. k # TaxPolicyKey
    <3>1. TaxPolicyKey[1] = "jr"
      BY DEF TaxPolicyKey, K
    <3> QED BY <2>2, <3>1
  <2>4. k \in Caps => cfg[k] # 0
    <3>1. CASE k = K("sm", "maxAGITypes")
      <4>1. cfg[k] \in {n \in 1 .. 50 : n >= ch[K("sm", "agiTypes")]}
        BY <2>1, <3>1 DEF StakeManagerRefuses, Target
      <4> QED BY <4>1
    <3>2. CASE k = K("sm", "maxTotalPayoutPct")
      <4>1. cfg[k] \in 100 .. 200
        BY <2>1, <3>2 DEF StakeManagerRefuses, Target
      <4> QED BY <4>1
    <3> QED BY <3>1, <3>2 DEF Caps
  <2> QED BY <2>1, <2>2, <2>3, <2>4, LoneIsGood
<1>2. CASE Recommending(ch, cfg, c)
  BY <1>2, RecommendingIsGood
<1>3. CASE c = Joint(ch, cfg, K("sm", "slashing"), SlashKeys)
  BY <1>3, SlashIsGood
<1>4. CASE c = Joint(ch, cfg, K("sm", "autoStake"), AutoStake)
  <2>1. AutoStake \cap Caps = {}
    BY DEF AutoStake, Caps, K
  <2> QED BY <1>4, <2>1, GroupsAreKeys, GroupIsGood
<1> QED BY <1>1, <1>2, <1>3, <1>4 DEF StakeCall

\* A single parameter of one of the contracts without caps and tax policy.
LEMMA PlainLoneIsGood ==
  ASSUME NEW ch, NEW s \in DOMAIN files, NEW c, NEW keys, keys \subseteq Keys,
         \A k \in keys : k[1] \in {"jr", "fp", "re", "th"},
         Single(keys, ch, Config(s), c),
         c.fn = TaxPolicyKey => Config(s)[c.fn] # Zero
  PROVE  Good(ch, c)
<1>1. PICK k \in keys : k \in DOMAIN Config(s) /\ c = Lone(Config(s), k)
  BY DEF Single
<1>2. c.fn = k /\ k \in Keys /\ k[1] \in {"jr", "fp", "re", "th"}
  BY <1>1, LoneFields
<1>3. k \notin Caps
  <2>1. \A x \in Caps : x[1] = "sm"
    BY DEF Caps, K
  <2> QED BY <1>2, <2>1
<1> QED BY <1>1, <1>2, <1>3, LoneIsGood

LEMMA RegistryCallIsGood ==
  ASSUME NEW ch, "jobRegistry" \in DOMAIN files, NEW c,
         RegistryCall(ch, Config("jobRegistry"), c)
  PROVE  Good(ch, c)
BY SinglesAreKeys, SinglesOf, PlainLoneIsGood DEF RegistryCall

LEMMA IncentivesCallIsGood ==
  ASSUME NEW ch, "incentives" \in DOMAIN files, NEW c,
         IncentivesCall(ch, Config("incentives"), c)
  PROVE  Good(ch, c)
<1>1. PoolKeys \cap Caps = {}
  BY DEF PoolKeys, Caps, K
<1> QED BY <1>1, GroupsAreKeys, GroupIsGood DEF IncentivesCall

\* A text that is to be sent is trimmed, so it differs from the one on chain if
\* that one differs after trimming.
LEMMA OtherGuards ==
  /\ \A k \in Percents \cup Amounts \cup Stakes \cup Caps \cup Signed \cup Unsigned \cup Shares
              \cup Addresses \cup RoleTemps \cup BigInts : k[1] \notin {"tp", "sp"}
  /\ \A k \in {TaxPolicyKey, K("sm", "autoStakeTuning"), K("fp", "rewardRole")} : k[1] \notin {"tp", "sp"}
<1>1. \A k \in Percents : k[1] \notin {"tp", "sp"}
  BY DEF Percents, PercentagesJR, PercentagesSM, K
<1>2. \A k \in Amounts \cup Stakes \cup Caps \cup Signed \cup Unsigned : k[1] \notin {"tp", "sp"}
  BY DEF Amounts, Stakes, Caps, Signed, Unsigned, K
<1>3. \A k \in Shares \cup RoleTemps : k[1] \notin {"tp", "sp"}
  BY DEF Shares, RoleTemps
<1>4. \A k \in Addresses : k[1] \notin {"tp", "sp"}
  BY DEF Addresses, K
<1>5. \A k \in BigInts : k[1] \notin {"tp", "sp"}
  BY DEF BigInts, K
<1>6. \A k \in {TaxPolicyKey, K("sm", "autoStakeTuning"), K("fp", "rewardRole")} : k[1] \notin {"tp", "sp"}
  BY DEF TaxPolicyKey, K
<1> QED BY <1>1, <1>2, <1>3, <1>4, <1>5, <1>6

LEMMA TextReading ==
  ASSUME NEW raw, NEW k \in Texts
  PROVE  \/ ReadOwn(raw, k) = ParseText(Given(raw, k)) /\ ParseText(Given(raw, k)) # Blank
         \/ ReadOwn(raw, k) = Throw
<1>1. k[1] = "tp" /\ k[2] \in {"policyURI", "acknowledgement"}
  BY DEF Texts, K
<1>2. /\ k \notin Percents /\ k \notin Amounts /\ k \notin Stakes /\ k \notin Caps
      /\ k \notin Signed /\ k \notin Unsigned /\ k \notin Shares /\ k \notin Addresses
      /\ k # TaxPolicyKey /\ k # K("sm", "autoStakeTuning") /\ k # K("fp", "rewardRole")
      /\ k \notin RoleTemps /\ k \notin BigInts
  BY <1>1, OtherGuards
<1>3. k[2] \notin ListNames
  BY <1>1 DEF ListNames
<1>4. k # K("tp", "bumpVersion") /\ k # K("sp", "refresh") /\ k \notin PauseKeys
  BY <1>1 DEF K, PauseKeys
<1>5. ReadOwn(raw, k) = ParseText(Given(raw, k))
  BY <1>2, <1>3, <1>4 DEF ReadOwn
<1>6. ParseText(Given(raw, k)) # Blank \/ ParseText(Given(raw, k)) = Throw
  BY WordFacts DEF ParseText, Trim
<1> QED BY <1>5, <1>6

LEMMA PolicyIsGood ==
  ASSUME NEW ch, NEW s \in DOMAIN files, NEW ks, ks \subseteq Texts \cap DOMAIN Config(s),
         \E k \in ks : Config(s)[k] # ch[k]
  PROVE  Good(ch, Policy([k \in ks |-> Config(s)[k]]))
<1> DEFINE c == Policy([k \in ks |-> Config(s)[k]])
<1>1. /\ c.fn = PolicyFn /\ DOMAIN c.set = ks
      /\ \A k \in ks : c.set[k] = Config(s)[k]
  BY DEF Policy, PolicyFn
<1> HIDE DEF c
<1>2. \A k \in ks : k \in Asked
  <2>1. \A k \in Texts : k \notin Caps /\ k # TaxPolicyKey
    <3>1. \A x \in Caps \cup {TaxPolicyKey} : x[1] # "tp"
      BY DEF Caps, TaxPolicyKey, K
    <3> QED BY <3>1, GroupsAreKeys
  <2> QED BY <2>1, GroupsAreKeys, ReadIsAsked
<1>3. Sound(c)
  <2>1. PolicyFn # ModulesFn
    BY FnNames
  <2> QED BY <1>1, <2>1, GroupsAreKeys DEF Sound
<1>4. Settled(ch, c)
  BY <1>1, <1>2 DEF Settled
<1>5. News(ch, c)
  BY <1>1 DEF News
<1> QED BY <1>3, <1>4, <1>5 DEF Good, c

LEMMA TaxCallIsGood ==
  ASSUME NEW ch, "taxPolicy" \in DOMAIN files, NEW c, TaxCall(ch, Config("taxPolicy"), c)
  PROVE  Good(ch, c)
<1> DEFINE s == "taxPolicy"
           cfg == Config(s)
<1>1. CASE \E k \in TaxSingles : k \in DOMAIN cfg /\ c = Lone(cfg, k)
  <2>1. PICK k \in TaxSingles : k \in DOMAIN cfg /\ c = Lone(cfg, k)
    BY <1>1
  <2>2. k \in Keys /\ k[1] = "tp" /\ k[2] = "acknowledger"
    BY SinglesAreKeys, SinglesOf
  <2>3. k \notin Caps /\ k # TaxPolicyKey
    <3>1. \A x \in Caps \cup {TaxPolicyKey} : x[1] # "tp"
      BY DEF Caps, TaxPolicyKey, K
    <3> QED BY <2>2, <3>1
  <2> QED BY <2>1, <2>2, <2>3, LoneIsGood
<1>2. CASE \E ks : /\ ks \subseteq Texts \cap DOMAIN cfg /\ ks # {}
                   /\ \A k \in ks : cfg[k] # Trim(ch[k])
                   /\ c = Policy([k \in ks |-> cfg[k]])
  <2>1. PICK ks : /\ ks \subseteq Texts \cap DOMAIN cfg /\ ks # {}
                  /\ \A k \in ks : cfg[k] # Trim(ch[k])
                  /\ c = Policy([k \in ks |-> cfg[k]])
    BY <1>2
  <2>2. PICK k \in ks : TRUE
    BY <2>1
  <2>3. cfg[k] = ReadOwn(files[s], k) /\ cfg[k] # Throw
    BY <2>1, ConfigFacts DEF Read
  <2>4. cfg[k] # Blank
    BY <2>1, <2>3, TextReading
  <2>5. cfg[k] # ch[k]
    BY <2>1, <2>4 DEF Trim
  <2> QED BY <2>1, <2>5, PolicyIsGood
<1>3. CASE K("tp", "bumpVersion") \in DOMAIN cfg /\ c = Policy(<<>>)
  <2>1. Bumped
    BY <1>3 DEF Bumped
  <2>2. c.fn = PolicyFn /\ DOMAIN c.set = {}
    BY <1>3 DEF Policy, PolicyFn
  <2>3. PolicyFn # ModulesFn
    BY FnNames
  <2>4. Sound(c) /\ Settled(ch, c)
    BY <2>2, <2>3 DEF Sound, Settled
  <2> QED BY <2>1, <2>4 DEF Good
<1> QED BY <1>1, <1>2, <1>3 DEF TaxCall

LEMMA EconomicsCallIsGood ==
  ASSUME NEW ch, "economics" \in DOMAIN files, NEW c, EconomicsCall(ch, Config("economics"), c)
  PROVE  Good(ch, c)
<1> DEFINE s == "economics"
           cfg == Config(s)
<1>1. CASE \E k \in EconomicsSingles : k \in DOMAIN cfg /\ c = Lone(cfg, k)
  <2>1. PICK k \in EconomicsSingles : k \in DOMAIN cfg /\ c = Lone(cfg, k)
    BY <1>1
  <2>2. k \in Keys /\ k[1] # "sp" /\ (k[1] = "tp" => k[2] = "acknowledger")
    BY SinglesAreKeys, SinglesOf
  <2> QED BY <2>1, <2>2, LoneIsGood
<1>2. CASE Recommending(ch, cfg, c)
  BY <1>2, RecommendingIsGood
<1>3. CASE c = Joint(ch, cfg, K("sm", "slashing"), SlashKeys)
  BY <1>3, SlashIsGood
<1>4. CASE \E ks : /\ ks = Texts \cap DOMAIN cfg /\ \E k \in ks : cfg[k] # ch[k]
                   /\ c = Policy([k \in ks |-> cfg[k]])
  <2>1. PICK ks : /\ ks = Texts \cap DOMAIN cfg /\ \E k \in ks : cfg[k] # ch[k]
                  /\ c = Policy([k \in ks |-> cfg[k]])
    BY <1>4
  <2> QED BY <2>1, PolicyIsGood
<1>5. TaxSingles \subseteq EconomicsSingles
  BY DEF EconomicsSingles
<1> QED BY <1>1, <1>2, <1>3, <1>4, <1>5 DEF EconomicsCall, Single

\* The files are never changed.
FilesOK == \E setup \in Setups : files = setup.files

LEMMA FilesFacts ==
  ASSUME FilesOK
  PROVE  /\ DOMAIN files \subseteq Scripts
         /\ "feePool" \in DOMAIN files =>
              Given(files["feePool"], K("fp", "treasury"))
                \in Members \cup {Zero, Signer, Null, Empty, Blank, Junk}
BY SetupAssumption DEF FilesOK

LEMMA TreasuryReading ==
  ASSUME NEW raw
  PROVE  ReadOwn(raw, K("fp", "treasury")) = EnsureAddress(Given(raw, K("fp", "treasury")))
<1> DEFINE t == K("fp", "treasury")
<1>1. t[1] = "fp" /\ t[2] = "treasury" /\ t = <<"fp", "treasury">>
  BY DEF K
<1>2. t \in Addresses
  BY DEF Addresses
<1>3. t \notin Percents
  BY DEF Percents, PercentagesJR, PercentagesSM, K
<1>4. t \notin Amounts /\ t \notin Stakes /\ t \notin Caps /\ t \notin Signed /\ t \notin Unsigned
  BY DEF Amounts, Stakes, Caps, Signed, Unsigned, K
<1>5. t \notin Shares /\ t \notin RoleTemps /\ t \notin BigInts
  <2>1. \A k \in Shares \cup RoleTemps : k[1] # "fp"
    BY DEF Shares, RoleTemps
  <2>2. \A k \in BigInts : k[1] # "fp"
    BY DEF BigInts, K
  <2> QED BY <1>1, <2>1, <2>2
<1>6. /\ t # TaxPolicyKey /\ t # K("sm", "autoStakeTuning") /\ t # K("fp", "rewardRole")
      /\ t \notin Texts /\ t # K("tp", "bumpVersion") /\ t # K("sp", "refresh")
  BY DEF TaxPolicyKey, Texts, K
<1>7. t[2] \notin ListNames
  BY <1>1 DEF ListNames
<1>8. t \notin PauseKeys
  BY <1>1 DEF PauseKeys
<1> HIDE DEF t
<1>9. ReadOwn(raw, t) = EnsureAddress(Given(raw, t))
  BY <1>2, <1>3, <1>4, <1>5, <1>6, <1>7, <1>8 DEF ReadOwn
<1> QED BY <1>9 DEF t

LEMMA PoolCallIsGood ==
  ASSUME NEW ch, FilesOK, "feePool" \in DOMAIN files, NEW c, PoolCall(ch, Config("feePool"), c),
         ~FeePoolRefuses(ch, Config("feePool")), OwnerOf(ch, "fp") = Signer
  PROVE  Good(ch, c)
<1> DEFINE s == "feePool"
           cfg == Config(s)
           t == K("fp", "treasury")
<1>1. CASE Single(PoolSingles, ch, cfg, c)
  <2>1. TaxPolicyKey \notin PoolSingles
    <3>1. TaxPolicyKey[1] = "jr"
      BY DEF TaxPolicyKey, K
    <3> QED BY <3>1, SinglesOf
  <2>2. c.fn \in PoolSingles
    BY <1>1, LoneFields DEF Single
  <2> QED BY <1>1, <2>1, <2>2, SinglesAreKeys, SinglesOf, PlainLoneIsGood
<1>2. CASE /\ t \in DOMAIN cfg /\ cfg[t] # Zero
           /\ c = [fn |-> <<"fp", "allow", cfg[t]>>, set |-> Only(<<"fp", "allow", cfg[t]>>, TRUE)]
  <2> DEFINE v == Given(files[s], t)
             a == <<"fp", "allow", cfg[t]>>
  <2>1. cfg[t] = EnsureAddress(v) /\ cfg[t] # Throw
    BY <1>2, ConfigFacts, TreasuryReading DEF Read
  <2>2. v \in Members \cup {Zero, Signer, Null, Empty, Blank, Junk}
    BY FilesFacts
  <2>3. cfg[t] # Signer
    BY <1>2 DEF FeePoolRefuses
  <2>4. cfg[t] \in Members
    <3> HIDE DEF v, cfg
    <3>1. \/ EnsureAddress(v) = Zero
          \/ EnsureAddress(v) = Throw
          \/ EnsureAddress(v) = v /\ v \notin {Null, Empty, Blank, Junk}
      BY DEF EnsureAddress
    <3> QED BY <1>2, <2>1, <2>2, <2>3, <3>1
  <2>5. a \in Keys
    BY <2>4, ListsAreKeys DEF Each3
  <2>6. a \in Asked
    BY <1>2 DEF Asked
  <2>7. a[1] = "fp"
    OBVIOUS
  <2>8. c = [fn |-> a, set |-> Only(a, TRUE)]
    BY <1>2
  <2> HIDE DEF a, cfg
  <2>9. a \notin Texts /\ a # PolicyFn /\ a # ModulesFn
    BY <2>7, GroupsAreKeys, FnNames
  <2> QED BY <2>5, <2>6, <2>8, <2>9, OneIsGood
<1> QED BY <1>1, <1>2 DEF PoolCall

LEMMA ThermoCallIsGood ==
  ASSUME NEW ch, "thermodynamics" \in DOMAIN files, NEW c,
         ThermoCall(ch, Config("thermodynamics"), c)
  PROVE  Good(ch, c)
<1> DEFINE s == "thermodynamics"
           cfg == Config(s)
<1>0. \A k : k[1] \in {"re", "th"} => k \notin Caps /\ k # TaxPolicyKey
  <2>1. \A x \in Caps \cup {TaxPolicyKey} : x[1] \notin {"re", "th"}
    BY DEF Caps, TaxPolicyKey, K
  <2> QED BY <2>1
<1>1. CASE Single(ThermoSingles \ RoleTemps, ch, cfg, c)
  <2> DEFINE keys == ThermoSingles \ RoleTemps
  <2>1. keys \subseteq Keys /\ \A k \in keys : k[1] \in {"re", "th"}
    BY SinglesAreKeys, SinglesOf
  <2> HIDE DEF keys
  <2>2. c.fn \in keys
    BY <1>1, LoneFields DEF Single, keys
  <2>3. c.fn # TaxPolicyKey
    BY <1>0, <2>1, <2>2
  <2> QED BY <1>1, <2>1, <2>3, PlainLoneIsGood DEF keys
<1>2. ASSUME NEW k \in RoleTemps, k \in DOMAIN cfg
      PROVE  /\ k \in Keys /\ k \in Asked /\ k \notin Texts
             /\ k # PolicyFn /\ k # ModulesFn
             /\ <<"th", "unset", k[3]>> # PolicyFn /\ <<"th", "unset", k[3]>> # ModulesFn
  <2>1. k[1] = "th" /\ k \in Keys
    BY ListsAreKeys DEF RoleTemps
  <2>2. k \in Asked
    BY <1>0, <1>2, <2>1, ReadIsAsked
  <2>3. <<"th", "unset", k[3]>>[1] = "th"
    OBVIOUS
  <2> QED BY <2>1, <2>2, <2>3, GroupsAreKeys, FnNames
<1>3. CASE \E k \in RoleTemps : k \in DOMAIN cfg /\ cfg[k] # Unset /\ c = Lone(cfg, k)
  BY <1>2, <1>3, OneIsGood DEF Lone
<1>4. CASE \E k \in RoleTemps : k \in DOMAIN cfg /\ c = [fn |-> <<"th", "unset", k[3]>>, set |-> Only(k, 0)]
  BY <1>2, <1>4, OneIsGood
<1>5. CASE c = Joint(ch, cfg, K("re", "shares"), Shares)
  <2>1. Shares \cap Caps = {}
    BY <1>0, GroupsAreKeys
  <2> QED BY <1>5, <2>1, GroupsAreKeys, GroupIsGood
<1>6. CASE \E g \in ThermoGroups : g.keys \subseteq DOMAIN cfg /\ c = Joint(ch, cfg, g.fn, g.keys)
  <2>1. PICK g \in ThermoGroups : g.keys \subseteq DOMAIN cfg /\ c = Joint(ch, cfg, g.fn, g.keys)
    BY <1>6
  <2>2. g.fn[1] = "th" /\ g.keys \subseteq Keys /\ \A k \in g.keys : k[1] = "th"
    BY GroupsAreKeys
  <2>3. \A k \in g.keys : k \in Asked
    BY <1>0, <2>1, <2>2, ReadIsAsked
  <2>4. g.keys \cap Texts = {}
    BY <2>2, GroupsAreKeys
  <2>5. g.fn # PolicyFn /\ g.fn # ModulesFn
    BY <2>2, FnNames
  <2> DEFINE fn == g.fn
             ks == g.keys
  <2> HIDE DEF fn, ks, cfg
  <2>6. Good(ch, Joint(ch, cfg, fn, ks))
    BY <2>1, <2>2, <2>3, <2>4, <2>5, JointIsGood DEF fn, ks
  <2> QED BY <2>1, <2>6 DEF fn, ks
<1> QED BY <1>1, <1>3, <1>4, <1>5, <1>6 DEF ThermoCall

LEMMA PauseReading ==
  ASSUME NEW raw, NEW k \in PauseKeys
  PROVE  ReadOwn(raw, k) \in {1, 2, Skip, Throw}
<1>1. PICK m \in PauseModules : k = <<"sp", m>>
  BY DEF PauseKeys
<1>2. k[1] = "sp" /\ k[2] = m /\ m \in DOMAIN Scalars
  BY <1>1, ChainAssumption
<1>3. k[2] \notin ListNames /\ k[2] # "refresh"
  BY <1>2 DEF ListNames, Scalars
<1>4. /\ k \notin Percents /\ k \notin Amounts /\ k \notin Stakes /\ k \notin Caps
      /\ k \notin Signed /\ k \notin Unsigned /\ k \notin Shares /\ k \notin Addresses
      /\ k # TaxPolicyKey /\ k # K("sm", "autoStakeTuning") /\ k # K("fp", "rewardRole")
      /\ k \notin RoleTemps /\ k \notin BigInts
  BY <1>2, OtherGuards
<1>5. k \notin Texts /\ k # K("tp", "bumpVersion") /\ k # K("sp", "refresh")
  <2>1. K("tp", "bumpVersion")[1] = "tp" /\ K("sp", "refresh")[2] = "refresh"
    BY DEF K
  <2> QED BY <1>2, <1>3, <2>1, GroupsAreKeys
<1>6. ReadOwn(raw, k) = ParseInstance(Given(raw, k))
  BY <1>3, <1>4, <1>5 DEF ReadOwn
<1>7. ParseInstance(Given(raw, k)) \in {1, 2, Skip, Throw}
  BY DEF ParseInstance
<1> QED BY <1>6, <1>7

LEMMA PauseCallIsGood ==
  ASSUME NEW ch, "systemPause" \in DOMAIN files, NEW c, PauseCall(ch, Config("systemPause"), c),
         ~SystemPauseRefuses(ch, Config("systemPause"))
  PROVE  Good(ch, c)
<1> DEFINE s == "systemPause"
           cfg == Config(s)
<1>1. PauseKeys \subseteq DOMAIN cfg
  BY DEF SystemPauseRefuses
<1>2. /\ c.fn = ModulesFn /\ DOMAIN c.set = PauseKeys
      /\ \A k \in PauseKeys : c.set[k] = cfg[k]
  BY DEF PauseCall, ModulesFn
<1>3. \A k \in PauseKeys : cfg[k] \in {1, 2}
  <2> SUFFICES ASSUME NEW k \in PauseKeys PROVE cfg[k] \in {1, 2}
    OBVIOUS
  <2>1. cfg[k] = ReadOwn(files[s], k) /\ cfg[k] \notin {Skip, Throw}
    BY <1>1, ConfigFacts DEF Read
  <2> QED BY <2>1, PauseReading
<1>4. \A k \in PauseKeys : k \in Asked
  <2>1. \A k \in PauseKeys : k \notin Caps /\ k # TaxPolicyKey
    <3>1. \A x \in Caps \cup {TaxPolicyKey} : x[1] # "sp"
      BY DEF Caps, TaxPolicyKey, K
    <3> QED BY <3>1, GroupsAreKeys
  <2> QED BY <1>1, <2>1, GroupsAreKeys, ReadIsAsked
<1> HIDE DEF cfg
<1>5. Sound(c)
  BY <1>2, <1>3, GroupsAreKeys DEF Sound
<1>6. Settled(ch, c)
  BY <1>2, <1>4 DEF Settled
<1>7. News(ch, c)
  <2>1. ModulesFn # PolicyFn
    BY FnNames
  <2> QED BY <1>2, <2>1 DEF News
<1> QED BY <1>5, <1>6, <1>7 DEF Good

LEMMA ScriptCallIsGood ==
  ASSUME FilesOK, NEW s \in DOMAIN files, NEW ch, NEW c, ScriptCall(s, ch, Config(s), c),
         ~NotOwner(s, ch, Config(s)), ~Refuses(s, ch, Config(s))
  PROVE  Good(ch, c)
<1>1. s \in Scripts
  BY FilesFacts
<1>2. CASE s = "jobRegistry"
  BY <1>2, RegistryCallIsGood DEF ScriptCall
<1>3. CASE s = "stakeManager"
  BY <1>3, StakeCallIsGood DEF ScriptCall, Refuses
<1>4. CASE s = "feePool"
  <2>1. OwnerOf(ch, "fp") = Signer
    BY <1>4 DEF NotOwner, Contracts
  <2>2. PoolCall(ch, Config("feePool"), c) /\ ~FeePoolRefuses(ch, Config("feePool"))
    BY <1>4 DEF ScriptCall, Refuses
  <2> QED BY <1>4, <2>1, <2>2, PoolCallIsGood
<1>5. CASE s = "incentives"
  BY <1>5, IncentivesCallIsGood DEF ScriptCall
<1>6. CASE s = "taxPolicy"
  BY <1>6, TaxCallIsGood DEF ScriptCall
<1>7. CASE s = "thermodynamics"
  BY <1>7, ThermoCallIsGood DEF ScriptCall, ThermoPlanned
<1>8. CASE s = "systemPause"
  BY <1>8, PauseCallIsGood DEF ScriptCall, Refuses
<1>9. CASE s = "economics"
  BY <1>9, EconomicsCallIsGood DEF ScriptCall
<1> QED BY <1>1, <1>2, <1>3, <1>4, <1>5, <1>6, <1>7, <1>8, <1>9, ScriptNames

-----------------------------------------------------------------------------
(* Taking a transaction from a plan and handing it to the mempool. *)

LEMMA SeqIsSeq == ASSUME NEW S, NEW s \in Seq(S) PROVE IsSeq(s)
<1>1. Len(s) \in Nat /\ DOMAIN s = 1..Len(s) /\ s = [i \in 1..Len(s) |-> s[i]]
  BY LenProperties
<1>2. \A i \in 1..Len(s) : s[i] \in Range(s)
  BY <1>1 DEF Range
<1>3. s \in [1..Len(s) -> Range(s)]
  BY <1>1, <1>2
<1> QED BY <1>1, <1>3 DEF IsSeq

LEMMA TailFacts ==
  ASSUME NEW s, IsSeq(s), s # <<>>
  PROVE  /\ Head(s) \in Range(s) /\ IsSeq(Tail(s))
         /\ Range(s) = {Head(s)} \cup Range(Tail(s))
         /\ InOrder(s) => /\ InOrder(Tail(s))
                          /\ \A y \in Range(Tail(s)) : ~Clash(Head(s), y)
         /\ Len(s) = 1 => Tail(s) = <<>>
<1> DEFINE S == Range(s)
<1>0. s \in Seq(S)
  BY DEF IsSeq
<1>1. /\ Len(s) \in Nat /\ Len(s) # 0 /\ DOMAIN s = 1..Len(s) /\ Head(s) = s[1]
  BY <1>0, EmptySeq, LenProperties
<1>2. /\ Tail(s) \in Seq(S) /\ Len(Tail(s)) = Len(s) - 1
      /\ \A i \in 1..Len(s) - 1 : Tail(s)[i] = s[i + 1]
  BY <1>0, HeadTailProperties
<1>3. DOMAIN Tail(s) = 1..Len(s) - 1
  BY <1>2, LenProperties
<1>4. Head(s) \in Range(s)
  BY <1>1 DEF Range
<1>5. Range(Tail(s)) \subseteq Range(s)
  <2> SUFFICES ASSUME NEW i \in 1..Len(s) - 1 PROVE Tail(s)[i] \in Range(s)
    BY <1>3 DEF Range
  <2>1. i + 1 \in 1..Len(s)
    BY <1>1
  <2> QED BY <1>1, <1>2, <2>1 DEF Range
<1>6. Range(s) \subseteq {Head(s)} \cup Range(Tail(s))
  <2> SUFFICES ASSUME NEW i \in 1..Len(s), i # 1 PROVE s[i] \in Range(Tail(s))
    BY <1>1 DEF Range
  <2>1. i - 1 \in 1..Len(s) - 1 /\ i - 1 + 1 = i
    BY <1>1
  <2>2. Tail(s)[i - 1] = s[i]
    BY <1>2, <2>1
  <2> QED BY <1>3, <2>1, <2>2 DEF Range
<1>7. ASSUME InOrder(s) PROVE InOrder(Tail(s))
  <2> SUFFICES ASSUME NEW i \in 1..Len(s) - 1, NEW k \in 1..Len(s) - 1, i < k
               PROVE  ~Clash(Tail(s)[i], Tail(s)[k])
    BY <1>3 DEF InOrder
  <2>1. i + 1 \in 1..Len(s) /\ k + 1 \in 1..Len(s) /\ i + 1 < k + 1
    BY <1>1
  <2>2. Tail(s)[i] = s[i + 1] /\ Tail(s)[k] = s[k + 1]
    BY <1>2
  <2> QED BY <1>1, <1>7, <2>1, <2>2 DEF InOrder
<1>8. ASSUME InOrder(s), NEW y \in Range(Tail(s)) PROVE ~Clash(Head(s), y)
  <2>1. PICK i \in 1..Len(s) - 1 : y = Tail(s)[i]
    BY <1>3 DEF Range
  <2>2. y = s[i + 1] /\ i + 1 \in 1..Len(s) /\ 1 \in 1..Len(s) /\ 1 < i + 1
    BY <1>1, <1>2, <2>1
  <2> QED BY <1>1, <1>8, <2>2 DEF InOrder
<1>9. IsSeq(Tail(s))
  BY <1>2, SeqIsSeq
<1>10. Len(s) = 1 => Tail(s) = <<>>
  <2> SUFFICES ASSUME Len(s) = 1 PROVE Tail(s) = <<>>
    OBVIOUS
  <2>1. Tail(s) \in Seq(S) /\ Len(Tail(s)) = 0
    BY <1>2
  <2> DEFINE t == Tail(s)
  <2> HIDE DEF t, S
  <2>2. t # <<>> => Len(t) \in Nat \ {0}
    BY <2>1, EmptySeq DEF t
  <2> QED BY <2>1, <2>2 DEF t
<1> QED BY <1>4, <1>5, <1>6, <1>7, <1>8, <1>9, <1>10

LEMMA AppendFacts ==
  ASSUME NEW s, NEW x, IsSeq(s)
  PROVE  /\ IsSeq(Append(s, x)) /\ Range(Append(s, x)) = Range(s) \cup {x}
         /\ Append(s, x) # <<>> /\ (s = <<>> => Len(Append(s, x)) = 1)
<1> DEFINE S == Range(s) \cup {x}
           t == Append(s, x)
<1>1. s \in Seq(S)
  <2>1. Range(s) \subseteq S
    OBVIOUS
  <2> QED BY <2>1, SeqMonotonic DEF IsSeq
<1>2. Len(s) \in Nat /\ DOMAIN s = 1..Len(s)
  BY Entries1
<1>3. /\ t \in Seq(S) /\ Len(t) = Len(s) + 1
      /\ \A i \in 1..Len(s) : t[i] = s[i]
      /\ t[Len(s) + 1] = x
  BY <1>1, AppendProperties
<1>4. DOMAIN t = 1..Len(s) + 1
  BY <1>3, LenProperties
<1>5. IsSeq(t)
  BY <1>3, SeqIsSeq
<1> HIDE DEF t
<1>6. \A i \in 1..Len(s) + 1 : t[i] \in Range(s) \cup {x}
  BY <1>2, <1>3 DEF Range
<1>7. x \in Range(t)
  BY <1>2, <1>3, <1>4 DEF Range
<1>8. Range(s) \subseteq Range(t)
  <2> SUFFICES ASSUME NEW i \in 1..Len(s) PROVE s[i] \in Range(t)
    BY <1>2 DEF Range
  <2>1. i \in 1..Len(s) + 1 /\ t[i] = s[i]
    BY <1>2, <1>3
  <2> QED BY <1>4, <2>1 DEF Range
<1>9. Range(t) = Range(s) \cup {x}
  BY <1>4, <1>6, <1>7, <1>8 DEF Range
<1>10. t # <<>> /\ (s = <<>> => Len(t) = 1)
  BY <1>2, <1>3, EmptySeq
<1> QED BY <1>5, <1>9, <1>10 DEF t

-----------------------------------------------------------------------------
(* What a transaction does to the chain. *)

LEMMA OverFacts ==
  ASSUME NEW f, NEW g, NEW X, DOMAIN g = X, DOMAIN f \subseteq X
  PROVE  /\ DOMAIN Over(f, g) = X
         /\ \A k \in DOMAIN f : Over(f, g)[k] = f[k]
         /\ \A k \in X : k \notin DOMAIN f => Over(f, g)[k] = g[k]
<1>1. DOMAIN f \cup DOMAIN g = X
  OBVIOUS
<1>2. Over(f, g) = [k \in X |-> IF k \in DOMAIN f THEN f[k] ELSE g[k]]
  BY <1>1 DEF Over
<1> QED BY <1>2

\* Only what the call gives changes, and three consequences of it.
Moved(k, c) ==
  \/ k = K("th", "systemTemperature")
  \/ k \in Roots /\ k[1] = "pauser"
  \/ k = K("tp", "version") /\ c.fn = PolicyFn

LEMMA EffectFacts ==
  ASSUME NEW ch, NEW c, DOMAIN ch = Keys, Sound(c)
  PROVE  LET after == Effect(ch, c) IN
         /\ DOMAIN after = Keys
         /\ \A k \in Keys : after[k] # ch[k] =>
              (k \in DOMAIN c.set /\ c.set[k] # ch[k]) \/ Moved(k, c)
         /\ c.fn = PolicyFn => \A k \in DOMAIN c.set \cap Texts : after[k] = c.set[k]
         /\ c.fn # PolicyFn => \A k \in Texts : after[k] = ch[k]
<1> DEFINE set == c.set
           over == Over(set, ch)
           after == Effect(ch, c)
           t == K("th", "systemTemperature")
           v == K("tp", "version")
<1>1. DOMAIN set \subseteq Keys /\ (c.fn # PolicyFn => DOMAIN set \cap Texts = {})
  BY DEF Sound
<1>2. /\ DOMAIN over = Keys
      /\ \A k \in DOMAIN set : over[k] = set[k]
      /\ \A k \in Keys : k \notin DOMAIN set => over[k] = ch[k]
  BY <1>1, OverFacts
<1>3. t \in Keys /\ v \in Keys /\ t \notin Texts /\ v \notin Texts
  <2>1. "systemTemperature" \in Scalars.th /\ "version" \in Scalars.tp
    BY DEF Scalars
  <2>2. t \in Names("th", Scalars.th) /\ v \in Names("tp", Scalars.tp)
    BY <2>1 DEF Names, K
  <2>3. t[1] = "th"
    BY DEF K
  <2>4. v \notin Texts
    BY DEF Texts, K
  <2> QED BY <2>2, <2>3, <2>4, ScalarKeys, GroupsAreKeys
<1>4. CASE c.fn = <<"sm", "autoStake">>
  <2> DEFINE zeroed == {k \in DOMAIN set \cap {<<"sm", "window">>, <<"sm", "floor">>} : set[k] = 0}
             kept == [k \in DOMAIN set \ zeroed |-> set[k]]
  <2>1. after = Over(kept, ch)
    BY <1>4 DEF Effect, ConfigureAutoStake
  <2>2. DOMAIN kept \subseteq DOMAIN set /\ \A k \in DOMAIN kept : kept[k] = set[k]
    OBVIOUS
  <2> HIDE DEF kept, after
  <2>3. /\ DOMAIN after = Keys
        /\ \A k \in DOMAIN kept : after[k] = set[k]
        /\ \A k \in Keys : k \notin DOMAIN kept => after[k] = ch[k]
    BY <1>1, <2>1, <2>2, OverFacts
  <2>4. c.fn # PolicyFn
    BY <1>4, FnNames
  <2> QED BY <1>1, <2>2, <2>3, <2>4, GroupsAreKeys DEF after
<1>5. CASE c.fn = <<"th", "bounds">>
  <2> DEFINE x == Clamp(ch[t], set[<<"th", "minTemp">>], set[<<"th", "maxTemp">>])
  <2>1. after = Over(Only(t, x), over)
    BY <1>5 DEF Effect, SetTemperatureBounds, K
  <2> DEFINE o == Only(t, x)
  <2> HIDE DEF x, after, over, t
  <2>a. DOMAIN o \subseteq Keys /\ \A k \in DOMAIN o : k = t
    BY <1>3 DEF Only
  <2>b. after = Over(o, over)
    BY <2>1
  <2> HIDE DEF o
  <2>2. /\ DOMAIN after = Keys
        /\ \A k \in Keys : k # t => after[k] = over[k]
    BY <1>2, <2>a, <2>b, OverFacts
  <2>3. c.fn # PolicyFn
    BY <1>5, FnNames
  <2>4. \A k \in Keys : k # t /\ after[k] # ch[k] => k \in DOMAIN set /\ set[k] # ch[k]
    BY <1>2, <2>2
  <2>5. \A k \in Texts : after[k] = ch[k]
    BY <1>1, <1>2, <1>3, <2>2, <2>3, GroupsAreKeys
  <2> QED BY <2>2, <2>3, <2>4, <2>5 DEF after, t, Moved
<1>6. CASE c.fn = <<"tp", "policy">>
  <2>1. after = Over(Only(v, ch[v] + 1), over)
    BY <1>6 DEF Effect, SetPolicy, K
  <2> DEFINE o == Only(v, ch[v] + 1)
  <2> HIDE DEF after, over, v
  <2>a. DOMAIN o \subseteq Keys /\ \A k \in DOMAIN o : k = v
    BY <1>3 DEF Only
  <2>b. after = Over(o, over)
    BY <2>1
  <2> HIDE DEF o
  <2>2. /\ DOMAIN after = Keys
        /\ \A k \in Keys : k # v => after[k] = over[k]
    BY <1>2, <2>a, <2>b, OverFacts
  <2>3. c.fn = PolicyFn
    BY <1>6, FnNames
  <2>4. \A k \in Keys : k # v /\ after[k] # ch[k] => k \in DOMAIN set /\ set[k] # ch[k]
    BY <1>2, <2>2
  <2>5. \A k \in DOMAIN set \cap Texts : after[k] = set[k]
    BY <1>1, <1>2, <1>3, <2>2
  <2> QED BY <2>2, <2>3, <2>4, <2>5 DEF after, v, Moved
<1>7. CASE c.fn = <<"sp", "modules">>
  <2> DEFINE ps == {<<"pauser", m, set[<<"sp", m>>]>> : m \in PauseModules}
             pausers == [k \in ps |-> Pause]
  <2>1. after = Over(pausers, over)
    BY <1>7 DEF Effect, SetPauseModules
  <2>2. c.fn = ModulesFn
    BY <1>7 DEF ModulesFn, K
  <2>3. ps \subseteq Roots /\ \A k \in ps : k[1] = "pauser"
    <3> SUFFICES ASSUME NEW m \in PauseModules
                 PROVE  /\ <<"pauser", m, set[<<"sp", m>>]>> \in Roots
                        /\ <<"pauser", m, set[<<"sp", m>>]>>[1] = "pauser"
      OBVIOUS
    <3>1. m \in DOMAIN Scalars
      BY ChainAssumption
    <3>2. <<"sp", m>> \in PauseKeys
      BY DEF PauseKeys
    <3>3. set[<<"sp", m>>] \in {1, 2}
      BY <2>2, <3>2 DEF Sound
    <3> HIDE DEF set
    <3> QED BY <3>1, <3>3 DEF Roots
  <2>4. Roots \subseteq Keys
    BY DEF Keys
  <2>5. DOMAIN pausers = ps
    OBVIOUS
  <2> HIDE DEF after, over, pausers, ps
  <2>6. /\ DOMAIN after = Keys
        /\ \A k \in Keys : k \notin ps => after[k] = over[k]
    BY <1>2, <2>1, <2>3, <2>4, <2>5, OverFacts
  <2>7. c.fn # PolicyFn
    BY <2>2, FnNames
  <2>8. \A k \in Keys : k \notin ps /\ after[k] # ch[k] => k \in DOMAIN set /\ set[k] # ch[k]
    BY <1>2, <2>6
  <2>9. \A k \in Texts : after[k] = ch[k]
    <3>1. \A k \in Texts : k \in Keys /\ k \notin ps
      BY <2>3, GroupsAreKeys
    <3> QED BY <1>1, <1>2, <2>6, <2>7, <3>1
  <2> QED BY <2>3, <2>6, <2>7, <2>8, <2>9 DEF after, Moved
<1>8. CASE /\ c.fn # <<"sm", "autoStake">> /\ c.fn # <<"th", "bounds">>
           /\ c.fn # <<"tp", "policy">> /\ c.fn # <<"sp", "modules">>
  <2>1. after = over
    BY <1>8 DEF Effect
  <2>2. c.fn # PolicyFn
    BY <1>8, FnNames
  <2> HIDE DEF after, over
  <2>3. \A k \in Keys : after[k] # ch[k] => k \in DOMAIN set /\ set[k] # ch[k]
    BY <1>2, <2>1
  <2>4. \A k \in Texts : after[k] = ch[k]
    BY <1>1, <1>2, <2>1, <2>2, GroupsAreKeys
  <2> QED BY <1>2, <2>1, <2>2, <2>3, <2>4 DEF after
<1> QED BY <1>4, <1>5, <1>6, <1>7, <1>8

-----------------------------------------------------------------------------
(* The inductive invariant.                                                  *)

Shape ==
  /\ FilesOK
  /\ DOMAIN chain = Keys
  /\ script \in DOMAIN files \cup {"none"}
  /\ waiting \in BOOLEAN
  /\ waiting => script # "none" /\ mempool # <<>>
  /\ IsSeq(plan) /\ IsSeq(mempool)
  /\ IsSeq(queue) /\ Range(queue) \subseteq DOMAIN files \cap ToSet(Modules)
  /\ ended \in {"none", "ok", "gave up", "refused", "misread", "killed"}
  /\ kills \in 0 .. MaxKills /\ tunes \in 0 .. MaxTunes

\* What is planned or on its way writes what a file asks for or others have
\* changed, or the values the script has read, which nobody has changed since.
Pending == Range(plan) \cup Range(mempool)
Harmless == \A c \in Pending : Sound(c) /\ Settled(chain, c)

\* Without kills a script has one transaction on its way, the one it waits for.
OneOnItsWay ==
  kills = 0 => /\ waiting => Len(mempool) = 1
               /\ ~waiting => mempool = <<>>

\* Without kills a text is sent once, and it is a new one.
TextsSentOnce ==
  kills = 0 /\ ~Bumped =>
    /\ InOrder(plan)
    /\ \A c \in Pending : News(chain, c)
    /\ \A x \in Range(mempool), y \in Range(plan) : ~Clash(x, y)

Inv == Shape /\ Harmless /\ OneOnItsWay /\ TextsSentOnce

LEMMA RangeIsToSet == ASSUME NEW s PROVE Range(s) = ToSet(s)
BY DEF Range, ToSet

\* What the files ask for depends on the files alone.
LEMMA FilesDecide ==
  ASSUME files' = files
  PROVE  FilesOK' = FilesOK /\ Asked' = Asked /\ Bumped' = Bumped
<1>1. FilesOK' = FilesOK
  BY DEF FilesOK
<1>2. Asked' = Asked
  BY DEF Asked, SaysNothing, Config
<1>3. Bumped' = Bumped
  BY DEF Bumped, Config
<1> QED BY <1>1, <1>2, <1>3

\* A call stays settled while others change what files ask for or meddle.
LEMMA SettledStays ==
  ASSUME files' = files, meddled \subseteq meddled', NEW c, Settled(chain, c), DOMAIN c.set \subseteq Keys,
         \A k \in Keys : chain'[k] # chain[k] => k \in Asked \cup meddled' \/ k[1] \notin {"sm", "pi", "re"}
  PROVE  Settled(chain, c)'
<1>1. Asked' = Asked
  BY FilesDecide
<1>2. SUFFICES ASSUME NEW k \in DOMAIN c.set
               PROVE  k \in Asked \cup meddled' \/ (k[1] \in {"sm", "pi", "re"} /\ c.set[k] = chain'[k])
  BY <1>1 DEF Settled
<1>3. CASE k \in Asked \cup meddled
  BY <1>3
<1>4. CASE k[1] \in {"sm", "pi", "re"} /\ c.set[k] = chain[k]
  BY <1>4
<1> QED BY <1>3, <1>4 DEF Settled

LEMMA NewsStays ==
  ASSUME NEW c, News(chain, c), \A k \in Texts : chain'[k] = chain[k]
  PROVE  News(chain, c)'
<1>1. CASE c.fn # PolicyFn
  BY <1>1 DEF News, PolicyFn
<1>2. CASE c.fn = PolicyFn
  <2>1. PICK k \in DOMAIN c.set \cap Texts : c.set[k] # chain[k]
    BY <1>2 DEF News
  <2>2. c.set[k] # chain'[k]
    BY <2>1
  <2> QED BY <2>1, <2>2 DEF News, PolicyFn
<1> QED BY <1>1, <1>2

LEMMA TypeFollows == Inv => TypeOK
<1> SUFFICES ASSUME Inv PROVE TypeOK
  OBVIOUS
<1>1. \A i \in DOMAIN plan : plan[i] \in Range(plan)
  BY DEF Range
<1>2. \A i \in DOMAIN plan : DOMAIN plan[i].set \subseteq Keys
  BY <1>1 DEF Inv, Harmless, Pending, Sound
<1>3. ToSet(queue) \subseteq ToSet(Modules)
  BY RangeIsToSet DEF Inv, Shape
<1>4. DOMAIN files \subseteq Scripts
  BY FilesFacts DEF Inv, Shape
<1> QED BY <1>2, <1>3, <1>4 DEF Inv, Shape, TypeOK

LEMMA InitInv == Init => Inv
<1> SUFFICES ASSUME Init PROVE Inv
  OBVIOUS
<1>1. PICK setup \in Setups : chain = setup.chain /\ files = setup.files
  BY DEF Init
<1>2. FilesOK /\ DOMAIN chain = Keys
  BY <1>1, SetupAssumption DEF FilesOK
<1>3. /\ script = "none" /\ plan = <<>> /\ waiting = FALSE /\ mempool = <<>>
      /\ queue = <<>> /\ ended = "none" /\ kills = 0 /\ tunes = 0
  BY DEF Init
<1>4. IsSeq(<<>>) /\ Range(<<>>) = {}
  BY EmptyIsSeq
<1>5. 0 \in 0 .. MaxKills /\ 0 \in 0 .. MaxTunes
  BY SetupAssumption
<1>6. Shape
  BY <1>2, <1>3, <1>4, <1>5 DEF Shape
<1>7. Harmless /\ OneOnItsWay
  BY <1>3, <1>4 DEF Harmless, Pending, OneOnItsWay
<1>8. TextsSentOnce
  BY <1>3, <1>4 DEF TextsSentOnce, Pending, InOrder
<1> QED BY <1>6, <1>7, <1>8 DEF Inv

LEMMA LastOne == ASSUME NEW s, IsSeq(s), s # <<>>, Tail(s) = <<>> PROVE Len(s) = 1
<1>1. s \in Seq(Range(s))
  BY DEF IsSeq
<1>2. Len(s) \in Nat /\ Len(Tail(s)) = Len(s) - 1
  BY <1>1, HeadTailProperties, LenProperties
<1>3. Len(<<>>) = 0
  OBVIOUS
<1> QED BY <1>2, <1>3

LEMMA Unmoved ==
  ASSUME files' = files, chain' = chain, meddled' = meddled, NEW c
  PROVE  /\ Sound(c) => Sound(c)'
         /\ Settled(chain, c) => Settled(chain, c)'
         /\ News(chain, c) => News(chain, c)'
<1>1. Asked' = Asked
  BY FilesDecide
<1>2. Settled(chain, c) => Settled(chain, c)'
  BY <1>1 DEF Settled
<1> QED BY <1>2 DEF Sound, News

\* A process that ends takes its plan with it.
LEMMA EndKeepsInv ==
  ASSUME Inv, script' = "none", plan' = <<>>, waiting' = FALSE,
         chain' = chain, files' = files, meddled' = meddled, mempool' = mempool, tunes' = tunes,
         IsSeq(queue'), Range(queue') \subseteq DOMAIN files \cap ToSet(Modules),
         ended' \in {"none", "ok", "gave up", "refused", "misread", "killed"},
         kills' \in 0 .. MaxKills, kills' = 0 => kills = 0 /\ mempool = <<>>
  PROVE  Inv'
<1>1. FilesOK' /\ Bumped' = Bumped
  BY FilesDecide DEF Inv, Shape
<1>2. IsSeq(<<>>) /\ Range(<<>>) = {}
  BY EmptyIsSeq
<1>3. Shape'
  BY <1>1, <1>2 DEF Inv, Shape, IsSeq, Range
<1>4. Pending' \subseteq Pending
  BY <1>2 DEF Pending, Range
<1>5. Harmless'
  BY <1>4, Unmoved DEF Inv, Harmless
<1>6. OneOnItsWay'
  BY DEF OneOnItsWay
<1>7. TextsSentOnce'
  <2> SUFFICES ASSUME kills' = 0 PROVE TextsSentOnce'
    BY DEF TextsSentOnce
  <2>1. Pending' = {}
    BY <1>2 DEF Pending, Range
  <2>2. Range(plan') = {} /\ Range(mempool') = {}
    BY <1>2 DEF Range
  <2> QED BY <2>1, <2>2 DEF TextsSentOnce, InOrder, Range
<1> QED BY <1>3, <1>5, <1>6, <1>7 DEF Inv

LEMMA BeginKeepsInv ==
  ASSUME Inv, script = "none", NEW s \in DOMAIN files, NEW rest, IsSeq(rest),
         Range(rest) \subseteq DOMAIN files \cap ToSet(Modules), Begin(s, rest)
  PROVE  Inv'
<1>0. /\ chain' = chain /\ files' = files /\ mempool' = mempool
      /\ meddled' = meddled /\ kills' = kills /\ tunes' = tunes
  BY DEF Begin
<1>1. ~waiting /\ (kills = 0 => mempool = <<>>)
  BY DEF Inv, Shape, OneOnItsWay
<1>2. CASE NotOwner(s, chain, Config(s)) \/ Unreadable(s, files[s]) \/ Refuses(s, chain, Config(s))
  <2>1. Fail("gave up")
    BY <1>2 DEF Begin
  <2>2. IsSeq(<<>>) /\ Range(<<>>) \subseteq DOMAIN files \cap ToSet(Modules)
    BY EmptyIsSeq
  <2> QED BY <1>0, <1>1, <2>1, <2>2, EndKeepsInv DEF Fail, Inv, Shape
<1>3. CASE ~(NotOwner(s, chain, Config(s)) \/ Unreadable(s, files[s]) \/ Refuses(s, chain, Config(s)))
  <2>1. PICK history \in BOOLEAN : plan' = Plan(s, chain, Config(s), history)
    BY <1>3 DEF Begin
  <2>2. script' = s /\ waiting' = FALSE /\ queue' = rest /\ ended' = "none"
    BY <1>3 DEF Begin
  <2>3. s \in Scripts
    BY FilesFacts DEF Inv, Shape
  <2> DEFINE p == Plan(s, chain, Config(s), history)
             cfg == Config(s)
             ch == chain
  <2>4. /\ IsSeq(p) /\ (K("tp", "bumpVersion") \notin DOMAIN cfg => InOrder(p))
        /\ \A c \in Range(p) : ScriptCall(s, ch, cfg, c)
    BY <2>3, PlanFacts
  <2>5. \A c \in Range(p) : Good(chain, c)
    BY <1>3, <2>4, ScriptCallIsGood DEF Inv, Shape
  <2>6. ~Bumped => InOrder(p)
    BY <2>4 DEF Bumped
  <2> HIDE DEF p
  <2>7. plan' = p
    BY <2>1 DEF p
  <2>8. FilesOK' /\ Bumped' = Bumped
    BY <1>0, FilesDecide DEF Inv, Shape
  <2>9. Shape'
    BY <1>0, <2>2, <2>4, <2>7, <2>8 DEF Inv, Shape, IsSeq, Range
  <2>10. \A c \in Pending' : c \in Range(p) \/ c \in Range(mempool)
    BY <1>0, <2>7 DEF Pending, Range
  <2>11. \A c \in Pending' : Sound(c) /\ Settled(chain, c)
    BY <2>5, <2>10 DEF Inv, Harmless, Pending, Good
  <2>12. Harmless'
    BY <1>0, <2>11, Unmoved DEF Harmless
  <2>13. OneOnItsWay'
    BY <1>0, <1>1, <2>2 DEF OneOnItsWay
  <2>14. TextsSentOnce'
    <3> SUFFICES ASSUME kills = 0, ~Bumped PROVE TextsSentOnce'
      BY <1>0, <2>8 DEF TextsSentOnce
    <3>1. mempool' = <<>> /\ Range(<<>>) = {}
      BY <1>0, <1>1, EmptyIsSeq
    <3>2. \A c \in Pending' : c \in Range(p)
      BY <1>0, <2>10, <3>1
    <3>3. \A c \in Pending' : News(chain, c)
      BY <2>5, <3>2 DEF Good
    <3>4. \A c \in Pending' : News(chain, c)'
      BY <1>0, <3>3, Unmoved
    <3>5. InOrder(plan)'
      BY <2>6, <2>7 DEF InOrder
    <3>6. Range(mempool)' = {}
      BY <3>1 DEF Range
    <3> QED BY <3>4, <3>5, <3>6 DEF TextsSentOnce
  <2> QED BY <2>9, <2>12, <2>13, <2>14 DEF Inv
<1> QED BY <1>2, <1>3

LEMMA LaunchKeepsInv == ASSUME Inv, NEW s \in DOMAIN files, Launch(s) PROVE Inv'
<1>1. IsSeq(<<>>) /\ Range(<<>>) \subseteq DOMAIN files \cap ToSet(Modules)
  BY EmptyIsSeq
<1>2. script = "none" /\ Begin(s, <<>>)
  BY DEF Launch, Idle
<1> QED BY <1>1, <1>2, BeginKeepsInv

LEMMA ApplyKeepsInv ==
  ASSUME Inv, NEW names \in SUBSET (DOMAIN files \cap ToSet(Modules)), ApplyConfig(names)
  PROVE  Inv'
<1> DEFINE selected == Among(Modules, names)
<1>1. script = "none" /\ selected # <<>> /\ Begin(Head(selected), Tail(selected))
  BY DEF ApplyConfig, Idle
<1>2. IsSeq(Modules)
  <2>1. Modules \in Seq({"jobRegistry", "stakeManager", "feePool", "incentives", "taxPolicy"})
    BY DEF Modules
  <2> QED BY <2>1, SeqIsSeq
<1>3. IsSeq(selected) /\ Range(selected) \subseteq names
  BY <1>2, AmongFacts
<1> HIDE DEF selected
<1>4. Head(selected) \in names /\ IsSeq(Tail(selected)) /\ Range(Tail(selected)) \subseteq names
  BY <1>1, <1>3, TailFacts
<1> QED BY <1>1, <1>4, BeginKeepsInv

LEMMA NextModuleKeepsInv == ASSUME Inv, NextModule PROVE Inv'
<1>1. script = "none" /\ queue # <<>> /\ Begin(Head(queue), Tail(queue))
  BY DEF NextModule
<1>2. IsSeq(queue) /\ Range(queue) \subseteq DOMAIN files \cap ToSet(Modules)
  BY DEF Inv, Shape
<1>3. /\ Head(queue) \in DOMAIN files /\ IsSeq(Tail(queue))
      /\ Range(Tail(queue)) \subseteq DOMAIN files \cap ToSet(Modules)
  BY <1>1, <1>2, TailFacts
<1> QED BY <1>1, <1>3, BeginKeepsInv

LEMMA SendKeepsInv == ASSUME Inv, Send PROVE Inv'
<1>1. /\ script # "none" /\ plan # <<>> /\ ~waiting
      /\ chain' = chain /\ files' = files /\ meddled' = meddled /\ kills' = kills /\ tunes' = tunes
  BY DEF Send
<1>2. kills = 0 => mempool = <<>>
  BY <1>1 DEF Inv, OneOnItsWay
<1>3. CASE ~Accepts(chain, Head(plan))
  <2>1. Fail("refused") /\ mempool' = mempool
    BY <1>3 DEF Send
  <2>2. IsSeq(<<>>) /\ Range(<<>>) \subseteq DOMAIN files \cap ToSet(Modules)
    BY EmptyIsSeq
  <2> QED BY <1>1, <1>2, <2>1, <2>2, EndKeepsInv DEF Fail, Inv, Shape
<1>4. CASE Accepts(chain, Head(plan))
  <2>1. /\ mempool' = Append(mempool, Head(plan)) /\ plan' = Tail(plan) /\ waiting' = TRUE
        /\ script' = script /\ queue' = queue /\ ended' = ended
    BY <1>4 DEF Send
  <2> DEFINE x == Head(plan)
  <2>2. IsSeq(plan) /\ IsSeq(mempool)
    BY DEF Inv, Shape
  <2>3. /\ x \in Range(plan) /\ IsSeq(Tail(plan))
        /\ Range(plan) = {x} \cup Range(Tail(plan))
        /\ InOrder(plan) => /\ InOrder(Tail(plan))
                            /\ \A y \in Range(Tail(plan)) : ~Clash(x, y)
    BY <1>1, <2>2, TailFacts
  <2>4. /\ IsSeq(Append(mempool, x)) /\ Range(Append(mempool, x)) = Range(mempool) \cup {x}
        /\ Append(mempool, x) # <<>> /\ (mempool = <<>> => Len(Append(mempool, x)) = 1)
    BY <2>2, AppendFacts
  <2> HIDE DEF x
  <2>5. mempool' = Append(mempool, x)
    BY <2>1 DEF x
  <2>6. Range(plan)' = Range(Tail(plan)) /\ Range(mempool)' = Range(mempool) \cup {x}
    BY <2>1, <2>4, <2>5 DEF Range
  <2>7. IsSeq(plan)' /\ IsSeq(mempool)'
    BY <2>1, <2>3, <2>4, <2>5 DEF IsSeq, Range
  <2>8. \A c \in Pending' : c \in Pending
    BY <2>3, <2>6 DEF Pending
  <2>9. FilesOK' /\ Bumped' = Bumped
    BY <1>1, FilesDecide DEF Inv, Shape
  <2>10. Shape'
    BY <1>1, <2>1, <2>4, <2>5, <2>7, <2>9 DEF Inv, Shape, IsSeq, Range
  <2>11. Harmless'
    BY <1>1, <2>8, Unmoved DEF Inv, Harmless
  <2>12. OneOnItsWay'
    BY <1>1, <1>2, <2>1, <2>4, <2>5 DEF OneOnItsWay
  <2>13. TextsSentOnce'
    <3> SUFFICES ASSUME kills = 0, ~Bumped PROVE TextsSentOnce'
      BY <1>1, <2>9 DEF TextsSentOnce
    <3>1. InOrder(plan) /\ \A c \in Pending : News(chain, c)
      BY DEF Inv, TextsSentOnce
    <3>2. \A c \in Pending' : News(chain, c)'
      BY <1>1, <2>8, <3>1, Unmoved
    <3>3. InOrder(plan)'
      BY <2>1, <2>3, <3>1 DEF InOrder
    <3>4. Range(mempool)' = {x}
      BY <1>2, <2>6, EmptyIsSeq
    <3>5. \A y \in Range(plan)' : ~Clash(x, y)
      BY <2>3, <2>6, <3>1
    <3> QED BY <3>2, <3>3, <3>4, <3>5 DEF TextsSentOnce, Clash
  <2> QED BY <2>10, <2>11, <2>12, <2>13 DEF Inv
<1> QED BY <1>3, <1>4

LEMMA FinishKeepsInv == ASSUME Inv, Finish PROVE Inv'
<1>1. /\ plan = <<>> /\ ~waiting /\ script' = "none" /\ ended' = "ok"
      /\ UNCHANGED <<chain, files, plan, waiting, mempool, queue, meddled, kills, tunes>>
  BY DEF Finish
<1>2. FilesOK' /\ Bumped' = Bumped
  BY <1>1, FilesDecide DEF Inv, Shape
<1>3. Shape'
  BY <1>1, <1>2 DEF Inv, Shape, IsSeq, Range
<1>4. Pending' = Pending
  BY <1>1 DEF Pending, Range
<1>5. Harmless'
  BY <1>1, <1>4, Unmoved DEF Inv, Harmless
<1>6. OneOnItsWay'
  BY <1>1 DEF Inv, OneOnItsWay
<1>7. TextsSentOnce'
  <2> SUFFICES ASSUME kills = 0, ~Bumped PROVE TextsSentOnce'
    BY <1>1, <1>2 DEF TextsSentOnce
  <2>1. \A c \in Pending' : News(chain, c)'
    BY <1>1, <1>4, Unmoved DEF Inv, TextsSentOnce
  <2>2. InOrder(plan)' /\ Range(plan)' = Range(plan) /\ Range(mempool)' = Range(mempool)
    BY <1>1 DEF Inv, TextsSentOnce, InOrder, Range
  <2>3. \A y \in Range(mempool), z \in Range(plan) : ~Clash(y, z)
    BY DEF Inv, TextsSentOnce
  <2> QED BY <2>1, <2>2, <2>3 DEF TextsSentOnce
<1> QED BY <1>3, <1>5, <1>6, <1>7 DEF Inv

LEMMA KillKeepsInv == ASSUME Inv, Kill PROVE Inv'
<1>1. /\ kills < MaxKills /\ kills' = kills + 1
      /\ script' = "none" /\ plan' = <<>> /\ waiting' = FALSE /\ ended' = "killed"
      /\ queue' \in {queue, <<>>}
      /\ UNCHANGED <<chain, files, mempool, meddled, tunes>>
  BY DEF Kill
<1>2. kills' \in 0 .. MaxKills /\ kills' # 0
  <2>1. MaxKills \in Nat /\ kills \in 0 .. MaxKills
    BY SetupAssumption DEF Inv, Shape
  <2> QED BY <1>1, <2>1
<1>3. IsSeq(queue') /\ Range(queue') \subseteq DOMAIN files \cap ToSet(Modules)
  BY <1>1, EmptyIsSeq DEF Inv, Shape
<1> QED BY <1>1, <1>2, <1>3, EndKeepsInv

\* Others change the chain, and are remembered for it.
LEMMA OthersKeepInv ==
  ASSUME Inv, NEW others, others \subseteq Keys, others \cap Texts = {},
         DOMAIN chain' = Keys, \A k \in Keys : k \notin others => chain'[k] = chain[k],
         meddled' = meddled \cup others, tunes' \in 0 .. MaxTunes,
         UNCHANGED <<files, script, plan, waiting, mempool, queue, ended, kills>>
  PROVE  Inv'
<1>1. FilesOK' /\ Bumped' = Bumped
  BY FilesDecide DEF Inv, Shape
<1>2. Shape'
  BY <1>1 DEF Inv, Shape, IsSeq, Range
<1>3. Pending' = Pending
  BY DEF Pending, Range
<1>4. \A c \in Pending : Settled(chain, c)'
  BY SettledStays DEF Inv, Harmless, Sound
<1>5. Harmless'
  BY <1>3, <1>4 DEF Inv, Harmless, Sound
<1>6. OneOnItsWay'
  BY DEF Inv, OneOnItsWay
<1>7. \A k \in Texts : chain'[k] = chain[k]
  BY GroupsAreKeys
<1>8. TextsSentOnce'
  <2> SUFFICES ASSUME kills = 0, ~Bumped PROVE TextsSentOnce'
    BY <1>1 DEF TextsSentOnce
  <2>1. \A c \in Pending' : News(chain, c)'
    BY <1>3, <1>7, NewsStays DEF Inv, TextsSentOnce
  <2>2. InOrder(plan)' /\ Range(plan)' = Range(plan) /\ Range(mempool)' = Range(mempool)
    BY DEF Inv, TextsSentOnce, InOrder, Range
  <2>3. \A y \in Range(mempool), z \in Range(plan) : ~Clash(y, z)
    BY DEF Inv, TextsSentOnce
  <2> QED BY <2>1, <2>2, <2>3 DEF TextsSentOnce
<1> QED BY <1>2, <1>5, <1>6, <1>8 DEF Inv

LEMMA TuneKeepsInv == ASSUME Inv, Tune PROVE Inv'
<1> DEFINE k == K("sm", "minStake")
<1>1. /\ tunes < MaxTunes /\ tunes' = tunes + 1
      /\ MaybeAdjustStake(chain, chain') /\ meddled' = meddled \cup {k}
      /\ UNCHANGED <<files, script, plan, waiting, mempool, queue, ended, kills>>
  BY DEF Tune
<1>2. PICK min : chain' = Over(Only(k, min), chain)
  BY <1>1 DEF MaybeAdjustStake, K
<1>3. k \in Keys /\ k[1] = "sm"
  BY GroupsAreKeys DEF Recommendable, K
<1> DEFINE o == Only(k, min)
<1>4. DOMAIN o = {k}
  BY DEF Only
<1>5. chain' = Over(o, chain)
  BY <1>2
<1> HIDE DEF o, k
<1>6. DOMAIN chain' = Keys /\ \A j \in Keys : j # k => chain'[j] = chain[j]
  <2>1. DOMAIN chain = Keys /\ DOMAIN o \subseteq Keys
    BY <1>3, <1>4 DEF Inv, Shape
  <2> QED BY <1>4, <1>5, <2>1 DEF Over
<1>7. tunes' \in 0 .. MaxTunes
  <2>1. MaxTunes \in Nat /\ tunes \in 0 .. MaxTunes
    BY SetupAssumption DEF Inv, Shape
  <2> QED BY <1>1, <2>1
<1>8. {k} \subseteq Keys /\ {k} \cap Texts = {}
  BY <1>3, GroupsAreKeys
<1> QED BY <1>1, <1>6, <1>7, <1>8, OthersKeepInv

LEMMA HandOverKeepsInv == ASSUME Inv, HandOver PROVE Inv'
<1> DEFINE roots == {<<"owner", m, i>> : m \in PauseModules, i \in {1, 2}}
           o == [r \in roots |-> Pause]
<1>1. /\ chain' = Over(o, chain) /\ meddled' = meddled \cup roots
      /\ UNCHANGED <<files, script, plan, waiting, mempool, queue, ended, kills, tunes>>
  BY DEF HandOver
<1>2. roots \subseteq Keys /\ \A r \in roots : r[1] = "owner"
  <2>1. ASSUME NEW r \in roots PROVE r \in Keys /\ r[1] = "owner"
    <3>1. PICK m \in PauseModules, i \in {1, 2} : r = <<"owner", m, i>>
      OBVIOUS
    <3>2. r[1] = "owner" /\ r \in Roots
      BY <3>1, ChainAssumption DEF Roots
    <3> QED BY <3>2 DEF Keys
  <2> HIDE DEF roots
  <2> QED BY <2>1
<1>3. DOMAIN o = roots
  OBVIOUS
<1> HIDE DEF o, roots
<1>4. DOMAIN chain' = Keys /\ \A j \in Keys : j \notin roots => chain'[j] = chain[j]
  <2>1. DOMAIN chain = Keys /\ DOMAIN o \subseteq Keys
    BY <1>2, <1>3 DEF Inv, Shape
  <2> QED BY <1>1, <1>3, <2>1 DEF Over
<1>5. roots \cap Texts = {}
  BY <1>2, GroupsAreKeys
<1>6. tunes' \in 0 .. MaxTunes
  BY <1>1 DEF Inv, Shape
<1> QED BY <1>1, <1>2, <1>4, <1>5, <1>6, OthersKeepInv

LEMMA MineFacts ==
  ASSUME Inv, Mine
  PROVE  LET x == Head(mempool) IN
         /\ x \in Range(mempool) /\ Sound(x) /\ Settled(chain, x)
         /\ DOMAIN chain' = Keys
         /\ \A k \in Keys : chain'[k] # chain[k] =>
              (k \in DOMAIN x.set /\ x.set[k] # chain[k]) \/ Moved(k, x)
         /\ chain' # chain /\ x.fn = PolicyFn => \A k \in DOMAIN x.set \cap Texts : chain'[k] = x.set[k]
         /\ x.fn # PolicyFn => \A k \in Texts : chain'[k] = chain[k]
<1> DEFINE x == Head(mempool)
<1>1. mempool # <<>> /\ chain' = IF Accepts(chain, x) THEN Effect(chain, x) ELSE chain
  BY DEF Mine
<1>2. IsSeq(mempool) /\ DOMAIN chain = Keys
  BY DEF Inv, Shape
<1>3. x \in Range(mempool)
  BY <1>1, <1>2, TailFacts
<1>4. Sound(x) /\ Settled(chain, x)
  BY <1>3 DEF Inv, Harmless, Pending
<1> HIDE DEF x
<1>5. CASE chain' = chain
  BY <1>2, <1>3, <1>4, <1>5 DEF x
<1>6. CASE chain' = Effect(chain, x)
  <2> DEFINE ch == chain
  <2> HIDE DEF ch
  <2>1. DOMAIN ch = Keys
    BY <1>2 DEF ch
  <2>2. LET after == Effect(ch, x) IN
         /\ DOMAIN after = Keys
         /\ \A k \in Keys : after[k] # ch[k] =>
              (k \in DOMAIN x.set /\ x.set[k] # ch[k]) \/ Moved(k, x)
         /\ x.fn = PolicyFn => \A k \in DOMAIN x.set \cap Texts : after[k] = x.set[k]
         /\ x.fn # PolicyFn => \A k \in Texts : after[k] = ch[k]
    BY <1>4, <2>1, EffectFacts
  <2> QED BY <1>3, <1>4, <1>6, <2>2 DEF ch, x
<1> QED BY <1>1, <1>5, <1>6

LEMMA MineKeepsInv == ASSUME Inv, Mine PROVE Inv'
<1> DEFINE x == Head(mempool)
           rest == Tail(mempool)
           heard == waiting /\ Len(mempool) = 1
<1>1. /\ mempool # <<>> /\ mempool' = rest
      /\ files' = files /\ meddled' = meddled /\ kills' = kills /\ tunes' = tunes
  BY DEF Mine
<1>2. IsSeq(mempool) /\ IsSeq(plan)
  BY DEF Inv, Shape
<1>3. /\ x \in Range(mempool) /\ IsSeq(rest) /\ Range(mempool) = {x} \cup Range(rest)
      /\ Len(mempool) = 1 => rest = <<>>
  BY <1>1, <1>2, TailFacts
<1>4. /\ Sound(x) /\ Settled(chain, x) /\ DOMAIN chain' = Keys
      /\ \A k \in Keys : chain'[k] # chain[k] =>
           (k \in DOMAIN x.set /\ x.set[k] # chain[k]) \/ Moved(k, x)
      /\ x.fn # PolicyFn => \A k \in Texts : chain'[k] = chain[k]
  BY MineFacts
\* What becomes of the process.
<1>5. \/ /\ heard /\ Fail("refused")
      \/ /\ heard /\ Fail("misread")
      \/ /\ heard /\ waiting' = FALSE
         /\ script' = script /\ plan' = plan /\ queue' = queue /\ ended' = ended
      \/ /\ ~heard /\ waiting' = waiting
         /\ script' = script /\ plan' = plan /\ queue' = queue /\ ended' = ended
  BY DEF Mine
<1>6. rest = <<>> => Len(mempool) = 1
  BY <1>1, <1>2, LastOne
<1> HIDE DEF x, rest
<1>7. FilesOK' /\ Bumped' = Bumped
  BY <1>1, FilesDecide DEF Inv, Shape
<1>8. IsSeq(<<>>) /\ Range(<<>>) = {}
  BY EmptyIsSeq
<1>9. \/ plan' = <<>> /\ script' = "none" /\ waiting' = FALSE /\ queue' = <<>> /\ ended' \in {"refused", "misread"}
      \/ plan' = plan /\ script' = script /\ waiting' = (waiting /\ ~heard) /\ queue' = queue /\ ended' = ended
  <2>1. waiting \in BOOLEAN
    BY DEF Inv, Shape
  <2> QED BY <1>5, <2>1 DEF Fail
<1>10. Shape'
  <2>1. IsSeq(plan') /\ IsSeq(mempool') /\ IsSeq(queue') /\ Range(queue') \subseteq DOMAIN files \cap ToSet(Modules)
    BY <1>1, <1>3, <1>8, <1>9 DEF Inv, Shape
  <2>2. waiting' => script' # "none" /\ mempool' # <<>>
    BY <1>1, <1>6, <1>9 DEF Inv, Shape
  <2>3. script' \in DOMAIN files \cup {"none"} /\ waiting' \in BOOLEAN
    BY <1>9 DEF Inv, Shape
  <2>4. ended' \in {"none", "ok", "gave up", "refused", "misread", "killed"}
    BY <1>9 DEF Inv, Shape
  <2>5. kills \in 0 .. MaxKills /\ tunes \in 0 .. MaxTunes
    BY DEF Inv, Shape
  <2> QED BY <1>1, <1>4, <1>7, <2>1, <2>2, <2>3, <2>4, <2>5 DEF Shape, IsSeq, Range
<1>11. Range(plan)' \subseteq Range(plan) /\ Range(mempool)' = Range(rest)
  <2>1. Range(plan') = Range(plan) \/ Range(plan') = {}
    BY <1>8, <1>9
  <2> QED BY <1>1, <2>1 DEF Range
<1>12. \A c \in Pending' : c \in Pending
  BY <1>3, <1>11 DEF Pending
<1>13. \A k \in Keys : chain'[k] # chain[k] => k \in Asked \cup meddled' \/ k[1] \notin {"sm", "pi", "re"}
  <2> SUFFICES ASSUME NEW k \in Keys, chain'[k] # chain[k], k \notin Asked \cup meddled
               PROVE  k[1] \notin {"sm", "pi", "re"}
    BY <1>1
  <2>1. Moved(k, x)
    BY <1>4 DEF Settled
  <2> QED BY <2>1 DEF Moved, K
<1>14. Harmless'
  <2> SUFFICES ASSUME NEW c \in Pending' PROVE Sound(c)' /\ Settled(chain, c)'
    BY DEF Harmless
  <2>1. Sound(c) /\ Settled(chain, c)
    BY <1>12 DEF Inv, Harmless
  <2> QED BY <1>1, <1>13, <2>1, SettledStays DEF Sound
\* Without kills the process heard of its only transaction.
<1>15. ASSUME kills = 0 PROVE waiting /\ heard /\ mempool' = <<>> /\ ~waiting'
  <2>1. waiting /\ Len(mempool) = 1
    BY <1>1, <1>15 DEF Inv, OneOnItsWay
  <2> QED BY <1>1, <1>3, <1>9, <2>1
<1>16. OneOnItsWay'
  BY <1>1, <1>15 DEF OneOnItsWay
<1>17. TextsSentOnce'
  <2> SUFFICES ASSUME kills = 0, ~Bumped PROVE TextsSentOnce'
    BY <1>1, <1>7 DEF TextsSentOnce
  <2>1. /\ InOrder(plan) /\ \A c \in Pending : News(chain, c)
        /\ \A z \in Range(mempool), y \in Range(plan) : ~Clash(z, y)
    BY DEF Inv, TextsSentOnce
  <2>2. Range(mempool)' = {}
    BY <1>8, <1>15 DEF Range
  <2>3. InOrder(plan)'
    BY <1>9, <2>1 DEF InOrder
  <2>4. ASSUME NEW c \in Pending' PROVE News(chain, c)'
    <3>1. c \in Range(plan) /\ News(chain, c)
      BY <1>11, <1>12, <2>1, <2>2 DEF Pending
    <3>2. CASE x.fn = PolicyFn
      <4>1. c.fn # PolicyFn
        BY <1>3, <2>1, <3>1, <3>2, FnNames DEF Clash
      <4> QED BY <4>1 DEF News, PolicyFn
    <3>3. CASE x.fn # PolicyFn
      BY <1>4, <3>1, <3>3, NewsStays
    <3> QED BY <3>2, <3>3
  <2> QED BY <2>2, <2>3, <2>4 DEF TextsSentOnce
<1> QED BY <1>10, <1>14, <1>16, <1>17 DEF Inv

LEMMA NextKeepsInv == Inv /\ [Next]_vars => Inv'
<1> SUFFICES ASSUME Inv, [Next]_vars PROVE Inv'
  OBVIOUS
<1>1. CASE \E s \in DOMAIN files : Launch(s)
  BY <1>1, LaunchKeepsInv
<1>2. CASE \E names \in SUBSET (DOMAIN files \cap ToSet(Modules)) : ApplyConfig(names)
  BY <1>2, ApplyKeepsInv
<1>3. CASE NextModule
  BY <1>3, NextModuleKeepsInv
<1>4. CASE Send
  BY <1>4, SendKeepsInv
<1>5. CASE Mine
  BY <1>5, MineKeepsInv
<1>6. CASE Finish
  BY <1>6, FinishKeepsInv
<1>7. CASE Kill
  BY <1>7, KillKeepsInv
<1>8. CASE Tune
  BY <1>8, TuneKeepsInv
<1>9. CASE HandOver
  BY <1>9, HandOverKeepsInv
<1>10. CASE UNCHANGED vars
  <2>1. UNCHANGED <<chain, files, script, plan, waiting, mempool, queue, ended, refused, meddled, kills, tunes>>
    BY <1>10 DEF vars
  <2>2. FilesOK' /\ Bumped' = Bumped
    BY <2>1, FilesDecide DEF Inv, Shape
  <2>3. Shape'
    BY <2>1, <2>2 DEF Inv, Shape, IsSeq, Range
  <2>4. Pending' = Pending /\ Range(plan)' = Range(plan) /\ Range(mempool)' = Range(mempool)
    BY <2>1 DEF Pending, Range
  <2>5. Harmless'
    BY <2>1, <2>4, Unmoved DEF Inv, Harmless
  <2>6. OneOnItsWay'
    BY <2>1 DEF Inv, OneOnItsWay
  <2>7. TextsSentOnce'
    <3> SUFFICES ASSUME kills = 0, ~Bumped PROVE TextsSentOnce'
      BY <2>1, <2>2 DEF TextsSentOnce
    <3>1. /\ InOrder(plan) /\ \A c \in Pending : News(chain, c)
          /\ \A z \in Range(mempool), y \in Range(plan) : ~Clash(z, y)
      BY DEF Inv, TextsSentOnce
    <3>2. \A c \in Pending' : News(chain, c)'
      BY <2>1, <2>4, <3>1, Unmoved
    <3>3. InOrder(plan)'
      BY <2>1, <3>1 DEF InOrder
    <3> QED BY <2>4, <3>1, <3>2, <3>3 DEF TextsSentOnce
  <2> QED BY <2>3, <2>5, <2>6, <2>7 DEF Inv
<1> QED BY <1>1, <1>2, <1>3, <1>4, <1>5, <1>6, <1>7, <1>8, <1>9, <1>10 DEF Next

\* In every reachable state the plan and the mempool hold only transactions that
\* write what a file asks for, what others have changed, or the value the script
\* read and nobody changed since; a policy text is sent once unless a file asks
\* for a new version or a run was killed.
THEOREM PlansAreHarmless == Spec => []Inv
<1>1. Init => Inv
  BY InitInv
<1>2. Inv /\ [Next]_vars => Inv'
  BY NextKeepsInv
<1> QED BY <1>1, <1>2, PTL DEF Spec

\* Transactions name parameters that exist, a script waits only for one it sent,
\* and apply-config runs only scripts that have a file.
THEOREM ScriptTypes == Spec => []TypeOK
BY PlansAreHarmless, TypeFollows, PTL

\* What a mined transaction changes is asked for by a file, was changed by others
\* before, or follows from the call; a new policy version is due.
LEMMA MineKeepsUnasked ==
  ASSUME Inv, Mine, NEW k \in Keys, chain'[k] # chain[k]
  PROVE  k \in Asked \cup meddled \cup Consequences
<1> DEFINE x == Head(mempool)
<1>1. /\ x \in Range(mempool) /\ Settled(chain, x)
      /\ (k \in DOMAIN x.set /\ x.set[k] # chain[k]) \/ Moved(k, x)
      /\ x.fn = PolicyFn => \A t \in DOMAIN x.set \cap Texts : chain'[t] = x.set[t]
  BY MineFacts
<1> HIDE DEF x
<1>2. CASE k \in DOMAIN x.set /\ x.set[k] # chain[k]
  BY <1>1, <1>2 DEF Settled
<1>3. CASE k = K("th", "systemTemperature")
  BY <1>3 DEF Consequences
<1>4. CASE k \in Roots /\ k[1] = "pauser"
  BY <1>4 DEF Consequences
<1>5. CASE k = K("tp", "version") /\ x.fn = PolicyFn
  <2>1. NewVersionDue
    <3>1. CASE kills > 0
      BY <3>1 DEF NewVersionDue
    <3>2. CASE Bumped
      BY <3>2 DEF NewVersionDue, Bumped
    <3>3. CASE ~(kills > 0) /\ ~Bumped
      <4>1. kills = 0
        <5>1. kills \in 0 .. MaxKills
          BY DEF Inv, Shape
        <5> QED BY <3>3, <5>1
      <4>2. News(chain, x)
        BY <1>1, <3>3, <4>1 DEF Inv, TextsSentOnce, Pending
      <4>3. PICK t \in DOMAIN x.set \cap Texts : x.set[t] # chain[t]
        BY <1>5, <4>2 DEF News
      <4>4. chain'[t] # chain[t]
        BY <1>1, <1>5, <4>3
      <4> QED BY <4>3, <4>4 DEF NewVersionDue
    <3> QED BY <3>1, <3>2, <3>3
  <2> QED BY <1>5, <2>1 DEF Consequences
<1> QED BY <1>1, <1>2, <1>3, <1>4, <1>5 DEF Moved

\* Whatever the files, the deployment and the interleaving of scripts, kills and
\* automatic changes: no script changes a parameter no file asks for, unless
\* somebody else did so before, and none makes the participants acknowledge the
\* same policy text twice.
THEOREM OnlyAskedChanges == Spec => UnaskedKept
<1> DEFINE A == Mine => \A k \in Keys : chain'[k] # chain[k] => k \in Asked \cup meddled \cup Consequences
<1>1. Inv /\ [Next]_vars => [A]_vars
  BY MineKeepsUnasked
<1>2. Spec => [][A]_vars
  BY <1>1, PlansAreHarmless, PTL DEF Spec
<1> QED BY <1>2 DEF UnaskedKept

-----------------------------------------------------------------------------
(* Which transactions may be refused.                                        *)

PoolTreasury == K("fp", "treasury")
StakeFile == Config("stakeManager")
PoolFile == Config("feePool")

\* What no script ever writes.
Fixed == {k \in Keys : k[1] = "owner"} \cup {K("sm", "agiTypes")}

\* The parameters whose setters check the value they are given.
Guarded ==
  ModuleSetters \cup PercentagesSM
  \cup {K("jr", "treasury"), TaxPolicyKey, K("sm", "minStake"), K("sm", "unbondingPeriod"),
        K("sm", "maxAGITypes"), K("sm", "maxTotalPayoutPct"), K("fp", "burnPct"),
        K("fp", "governance"), K("fp", "taxPolicy"), PoolTreasury,
        K("re", "kappa"), K("re", "temperature"), K("re", "treasury")}

\* A call gives every value its setter checks.
Covers(c) ==
  /\ c.fn[1] \in DOMAIN Scalars
  /\ c.fn \in Guarded => c.fn \in DOMAIN c.set
  /\ c.fn = K("sm", "slashing") => SlashKeys \subseteq DOMAIN c.set
  /\ c.fn = K("sm", "recommendations") => Recommendable \subseteq DOMAIN c.set
  /\ c.fn = K("sm", "autoStake") => AutoStake \subseteq DOMAIN c.set
  /\ c.fn = K("re", "shares") => Shares \subseteq DOMAIN c.set
  /\ c.fn = K("th", "bounds") => Bounds \subseteq DOMAIN c.set
  /\ c.fn = K("th", "integralBounds") => IntegralBounds \subseteq DOMAIN c.set
  /\ c.fn = ModulesFn => PauseKeys \subseteq DOMAIN c.set

\* A setter is checked by the rules of its own contract.
LEMMA OtherContracts ==
  ASSUME NEW ch, NEW fn, NEW after
  PROVE  /\ fn[1] # "jr" => AcceptsJR(ch, fn, after)
         /\ fn[1] # "sm" => AcceptsSM(ch, fn, after)
         /\ fn[1] \notin {"sm", "fp"} => AcceptsTreasury(ch, fn, after)
         /\ fn[1] # "fp" => AcceptsFP(ch, fn, after)
         /\ fn[1] # "re" => AcceptsRE(ch, fn, after)
         /\ fn[1] # "th" => AcceptsTH(ch, fn, after)
         /\ fn[1] # "sp" => AcceptsSP(ch, fn, after)
<1>1. fn[1] # "jr" => AcceptsJR(ch, fn, after)
  BY DEF AcceptsJR, PercentagesJR
<1>2. fn[1] # "sm" => AcceptsSM(ch, fn, after)
  BY DEF AcceptsSM, PercentagesSM
<1>3. fn[1] \notin {"sm", "fp"} => AcceptsTreasury(ch, fn, after)
  BY DEF AcceptsTreasury
<1>4. fn[1] # "fp" => AcceptsFP(ch, fn, after)
  BY DEF AcceptsFP
<1>5. fn[1] # "re" => AcceptsRE(ch, fn, after)
  BY DEF AcceptsRE
<1>6. fn[1] # "th" => AcceptsTH(ch, fn, after)
  BY DEF AcceptsTH
<1>7. fn[1] # "sp" => AcceptsSP(ch, fn, after)
  BY DEF AcceptsSP
<1> QED BY <1>1, <1>2, <1>3, <1>4, <1>5, <1>6, <1>7

\* What a setter accepts it accepts later, as long as owners stay and the order
\* of the calls does not matter to it.
LEMMA AcceptsStays ==
  ASSUME NEW ch, NEW later, NEW c, DOMAIN ch = Keys, DOMAIN later = Keys, Sound(c), Covers(c),
         \A k \in Fixed : later[k] = ch[k],
         c.fn \notin PercentagesSM \cup {PoolTreasury} \cup OrderBlind, Accepts(ch, c)
  PROVE  Accepts(later, c)
<1> DEFINE fn == c.fn
           now == Over(c.set, ch)
           then == Over(c.set, later)
<1>1. \A k \in DOMAIN c.set : now[k] = c.set[k] /\ then[k] = c.set[k]
  BY OverFacts DEF Sound
<1>2. \A m \in DOMAIN Scalars, i \in {1, 2} : later[<<"owner", m, i>>] = ch[<<"owner", m, i>>]
  <2> SUFFICES ASSUME NEW m \in DOMAIN Scalars, NEW i \in {1, 2}
               PROVE  later[<<"owner", m, i>>] = ch[<<"owner", m, i>>]
    OBVIOUS
  <2>1. <<"owner", m, i>> \in Roots /\ <<"owner", m, i>>[1] = "owner"
    BY DEF Roots
  <2> QED BY <2>1 DEF Fixed, Keys
<1>3. OwnerOf(later, fn[1]) = Signer
  BY <1>2 DEF OwnerOf, Accepts, Covers
<1>4. /\ fn \in ModuleSetters => now[fn] \in Version2
      /\ AcceptsJR(ch, fn, now) /\ AcceptsSM(ch, fn, now)
      /\ AcceptsFP(ch, fn, now) /\ AcceptsRE(ch, fn, now) /\ AcceptsTH(ch, fn, now)
      /\ AcceptsSP(ch, fn, now)
  BY DEF Accepts
<1>5. fn \in Guarded => now[fn] = c.set[fn] /\ then[fn] = c.set[fn]
  BY <1>1 DEF Covers
<1>6. fn \notin OrderBlind /\ fn \notin PercentagesSM /\ fn # PoolTreasury
  OBVIOUS
<1>7. Covers(c)
  OBVIOUS
<1> HIDE DEF now, then, fn
<1>8. fn \in ModuleSetters => then[fn] \in Version2
  BY <1>4, <1>5 DEF Guarded
<1>9. AcceptsJR(later, fn, then)
  BY <1>4, <1>5, <1>6 DEF AcceptsJR, Guarded, OrderBlind, K, TaxPolicyKey
<1>10. AcceptsSM(later, fn, then)
  <2>1. fn = <<"sm", "slashing">> => SumSlash(then) <= 100
    BY <1>1, <1>4, <1>7 DEF AcceptsSM, SumSlash, Covers, SlashKeys, K, fn
  <2>2. fn \in {<<"sm", "minStake">>, <<"sm", "unbondingPeriod">>} => then[fn] > 0
    BY <1>4, <1>5 DEF AcceptsSM, Guarded, K
  <2>3. fn = <<"sm", "recommendations">> =>
          /\ then[<<"sm", "minStake">>] > 0
          /\ \/ then[<<"sm", "maxStake">>] = 0
             \/ then[<<"sm", "maxStake">>] >= then[<<"sm", "minStake">>]
    BY <1>1, <1>4, <1>7 DEF AcceptsSM, Covers, Recommendable, K, fn
  <2>4. fn = <<"sm", "autoStake">> =>
          then[<<"sm", "increasePct">>] <= 100 /\ then[<<"sm", "decreasePct">>] <= 100
    BY <1>1, <1>4, <1>7 DEF AcceptsSM, Covers, AutoStake, K, fn
  <2>5. later[<<"sm", "agiTypes">>] = ch[<<"sm", "agiTypes">>]
    BY DEF Fixed, K
  <2>6. fn = <<"sm", "maxAGITypes">> => then[fn] \in later[<<"sm", "agiTypes">>] .. 50
    BY <1>4, <1>5, <2>5 DEF AcceptsSM, Guarded, K
  <2>7. fn = <<"sm", "maxTotalPayoutPct">> => then[fn] \in 100 .. 200
    BY <1>4, <1>5 DEF AcceptsSM, Guarded, K
  <2> QED BY <1>6, <2>1, <2>2, <2>3, <2>4, <2>6, <2>7 DEF AcceptsSM
<1>11. AcceptsTreasury(later, fn, then)
  BY <1>6 DEF AcceptsTreasury, OrderBlind, PoolTreasury, K
<1>12. AcceptsFP(later, fn, then)
  BY <1>4, <1>5 DEF AcceptsFP, Guarded, K
<1>13. AcceptsRE(later, fn, then)
  <2>1. fn = <<"re", "shares">> => SumShares(then) = 100
    <3> SUFFICES ASSUME fn = <<"re", "shares">> PROVE SumShares(then) = 100
      OBVIOUS
    <3>1. \A r \in Roles : then[<<"re", "share", r>>] = now[<<"re", "share", r>>]
      BY <1>1, <1>7 DEF Covers, Shares, K, fn
    <3>2. {"agent", "validator", "operator", "employer"} = Roles
      BY DEF Roles
    <3> QED BY <1>4, <3>1, <3>2 DEF AcceptsRE, SumShares
  <2> QED BY <1>4, <1>5, <2>1 DEF AcceptsRE, Guarded, K
<1>14. AcceptsTH(later, fn, then)
  <2>1. fn = <<"th", "bounds">> => then[<<"th", "minTemp">>] > 0 /\ then[<<"th", "maxTemp">>] > then[<<"th", "minTemp">>]
    BY <1>1, <1>4, <1>7 DEF AcceptsTH, Covers, Bounds, K, fn
  <2>2. fn = <<"th", "integralBounds">> => then[<<"th", "integralMax">>] > then[<<"th", "integralMin">>]
    BY <1>1, <1>4, <1>7 DEF AcceptsTH, Covers, IntegralBounds, K, fn
  <2> QED BY <1>6, <2>1, <2>2 DEF AcceptsTH, OrderBlind, K
<1>15. AcceptsSP(later, fn, then)
  <2> SUFFICES ASSUME fn = <<"sp", "modules">>, NEW m \in PauseModules
               PROVE  later[<<"owner", m, then[<<"sp", m>>]>>] = Pause
    BY DEF AcceptsSP
  <2>1. <<"sp", m>> \in PauseKeys /\ m \in DOMAIN Scalars
    BY ChainAssumption DEF PauseKeys
  <2>2. <<"sp", m>> \in DOMAIN c.set /\ c.set[<<"sp", m>>] \in {1, 2}
    BY <2>1 DEF Sound, ModulesFn, K, fn
  <2>3. now[<<"sp", m>>] = c.set[<<"sp", m>>] /\ then[<<"sp", m>>] = c.set[<<"sp", m>>]
    BY <1>1, <2>2
  <2>4. ch[<<"owner", m, now[<<"sp", m>>]>>] = Pause
    BY <1>4 DEF AcceptsSP
  <2> QED BY <1>2, <2>1, <2>2, <2>3, <2>4
<1>16. /\ OwnerOf(later, c.fn[1]) = Signer
       /\ c.fn \in ModuleSetters => Over(c.set, later)[c.fn] \in Version2
       /\ AcceptsJR(later, c.fn, Over(c.set, later)) /\ AcceptsSM(later, c.fn, Over(c.set, later))
       /\ AcceptsTreasury(later, c.fn, Over(c.set, later)) /\ AcceptsFP(later, c.fn, Over(c.set, later))
       /\ AcceptsRE(later, c.fn, Over(c.set, later)) /\ AcceptsTH(later, c.fn, Over(c.set, later))
       /\ AcceptsSP(later, c.fn, Over(c.set, later))
  BY <1>3, <1>8, <1>9, <1>10, <1>11, <1>12, <1>13, <1>14, <1>15 DEF fn, then
<1> QED BY <1>16 DEF Accepts

\* A call leaves a parameter alone or gives it the value it carries, but for the
\* three it moves by itself.
LEMMA EffectWrites ==
  ASSUME NEW ch, NEW c, DOMAIN ch = Keys, Sound(c)
  PROVE  LET after == Effect(ch, c) IN
         /\ DOMAIN after = Keys
         /\ \A k \in Keys : \/ Moved(k, c)
                            \/ after[k] = ch[k]
                            \/ k \in DOMAIN c.set /\ after[k] = c.set[k]
         /\ c.fn[2] \notin {"autoStake", "bounds", "policy", "modules"} => after = Over(c.set, ch)
<1> DEFINE set == c.set
           over == Over(set, ch)
           after == Effect(ch, c)
           t == K("th", "systemTemperature")
           v == K("tp", "version")
<1>1. DOMAIN set \subseteq Keys
  BY DEF Sound
<1>2. /\ DOMAIN over = Keys
      /\ \A k \in DOMAIN set : over[k] = set[k]
      /\ \A k \in Keys : k \notin DOMAIN set => over[k] = ch[k]
  BY <1>1, OverFacts
<1>3. DOMAIN after = Keys
  BY EffectFacts
<1>4. CASE c.fn = <<"sm", "autoStake">>
  <2> DEFINE zeroed == {k \in DOMAIN set \cap {<<"sm", "window">>, <<"sm", "floor">>} : set[k] = 0}
             kept == [k \in DOMAIN set \ zeroed |-> set[k]]
  <2>1. after = Over(kept, ch)
    BY <1>4 DEF Effect, ConfigureAutoStake
  <2>2. DOMAIN kept \subseteq DOMAIN set /\ \A k \in DOMAIN kept : kept[k] = set[k]
    OBVIOUS
  <2> HIDE DEF kept, after
  <2>3. /\ \A k \in DOMAIN kept : after[k] = set[k]
        /\ \A k \in Keys : k \notin DOMAIN kept => after[k] = ch[k]
    BY <1>1, <2>1, <2>2, OverFacts
  <2> QED BY <1>3, <1>4, <2>2, <2>3 DEF after
<1>5. CASE c.fn = <<"th", "bounds">>
  <2> DEFINE x == Clamp(ch[t], set[<<"th", "minTemp">>], set[<<"th", "maxTemp">>])
             o == Only(t, x)
  <2>1. after = Over(o, over)
    BY <1>5 DEF Effect, SetTemperatureBounds, K
  <2>2. DOMAIN o = {t}
    BY DEF Only
  <2>3. t \in Keys
    <3>1. t \in Names("th", Scalars.th)
      BY DEF Names, Scalars, K
    <3> QED BY <3>1, ScalarKeys
  <2> HIDE DEF o, x, after, over, t
  <2>4. \A k \in Keys : k # t => after[k] = over[k]
    BY <1>2, <2>1, <2>2, <2>3, OverFacts
  <2> QED BY <1>2, <1>3, <1>5, <2>4 DEF after, t, Moved
<1>6. CASE c.fn = <<"tp", "policy">>
  <2> DEFINE o == Only(v, ch[v] + 1)
  <2>1. after = Over(o, over)
    BY <1>6 DEF Effect, SetPolicy, K
  <2>2. DOMAIN o = {v}
    BY DEF Only
  <2>3. v \in Keys
    <3>1. v \in Names("tp", Scalars.tp)
      BY DEF Names, Scalars, K
    <3> QED BY <3>1, ScalarKeys
  <2> HIDE DEF o, after, over, v
  <2>4. \A k \in Keys : k # v => after[k] = over[k]
    BY <1>2, <2>1, <2>2, <2>3, OverFacts
  <2> QED BY <1>2, <1>3, <1>6, <2>4, FnNames DEF after, v, Moved
<1>7. CASE c.fn = <<"sp", "modules">>
  <2>1. \A k \in Keys : after[k] # ch[k] => (k \in DOMAIN set /\ set[k] # ch[k]) \/ Moved(k, c)
    BY EffectFacts
  <2> DEFINE ps == {<<"pauser", m, set[<<"sp", m>>]>> : m \in PauseModules}
             pausers == [k \in ps |-> Pause]
  <2>2. after = Over(pausers, over)
    BY <1>7 DEF Effect, SetPauseModules
  <2>3. DOMAIN pausers = ps
    OBVIOUS
  <2>4. c.fn = ModulesFn
    BY <1>7 DEF ModulesFn, K
  <2>5. \A k \in ps : k \in Roots /\ k[1] = "pauser"
    <3> SUFFICES ASSUME NEW m \in PauseModules
                 PROVE  /\ <<"pauser", m, set[<<"sp", m>>]>> \in Roots
                        /\ <<"pauser", m, set[<<"sp", m>>]>>[1] = "pauser"
      OBVIOUS
    <3>1. m \in DOMAIN Scalars /\ <<"sp", m>> \in PauseKeys
      BY ChainAssumption DEF PauseKeys
    <3>2. set[<<"sp", m>>] \in {1, 2}
      BY <2>4, <3>1 DEF Sound
    <3> HIDE DEF set
    <3> QED BY <3>1, <3>2 DEF Roots
  <2> HIDE DEF after, over, pausers, ps
  <2>6. \A k \in Keys : k \notin ps => after[k] = over[k]
    <3>1. DOMAIN pausers \subseteq Keys
      BY <2>3, <2>5 DEF Keys
    <3> QED BY <1>2, <2>2, <2>3, <3>1, OverFacts
  <2>7. \A k \in Keys : Moved(k, c) \/ after[k] = ch[k] \/ (k \in DOMAIN set /\ after[k] = set[k])
    BY <1>2, <2>5, <2>6 DEF Moved
  <2> QED BY <1>3, <1>7, <2>7 DEF after
<1>8. CASE /\ c.fn # <<"sm", "autoStake">> /\ c.fn # <<"th", "bounds">>
           /\ c.fn # <<"tp", "policy">> /\ c.fn # <<"sp", "modules">>
  <2>1. after = over
    BY <1>8 DEF Effect
  <2> QED BY <1>2, <2>1
<1> QED BY <1>4, <1>5, <1>6, <1>7, <1>8

Undisturbed == meddled = {} /\ "economics" \notin DOMAIN files

Excused == OrderBlind \cup UNION {Unacceptable(Config(s)) : s \in DOMAIN files}

\* The entry of the pool's allowlist its treasury has to have.
TreasuryEntry == <<"fp", "allow", PoolFile[PoolTreasury]>>
TreasuryGiven ==
  /\ "feePool" \in DOMAIN files /\ PoolTreasury \in DOMAIN PoolFile
  /\ PoolFile[PoolTreasury] # Zero /\ PoolFile[PoolTreasury] \in Members

\* Where the stake manager's percentages are to end.
Goal(ch, k) == Target(ch, StakeFile, k)
GoalSum(ch) ==
  Goal(ch, K("sm", "feePct")) + Goal(ch, K("sm", "burnPct")) + Goal(ch, K("sm", "validatorRewardPct"))
Rises(ch, k) == Goal(ch, k) > ch[k]
Falls(ch, k) == ch[k] > Goal(ch, k)

\* A call its setter accepts, whatever the scripts send before it, but for the
\* calls that are excused and those that wait for others.
Fit(ch, c) ==
  /\ Covers(c)
  /\ DOMAIN c.set \cap Fixed = {}
  /\ OwnerOf(ch, c.fn[1]) = Signer
  /\ \A k \in DOMAIN c.set \cap Numbers : c.set[k] \in Nat
  /\ \A k \in DOMAIN c.set \cap {K("sm", "increasePct"), K("sm", "decreasePct")} : c.set[k] <= 100
  /\ c.fn \in PercentagesSM \cup {PoolTreasury} \cup Excused \/ Accepts(ch, c)
  /\ \A k \in DOMAIN c.set \cap PercentagesSM :
       c.fn = k /\ k \in DOMAIN StakeFile /\ c.set[k] = StakeFile[k]
  /\ c.fn \in PercentagesSM => /\ \A k \in PercentagesSM : Goal(ch, k) \in Nat
                                /\ GoalSum(ch) <= 100
  /\ c.fn = PoolTreasury => /\ "feePool" \in DOMAIN files /\ PoolTreasury \in DOMAIN PoolFile
                            /\ c.set[PoolTreasury] = PoolFile[PoolTreasury]
                            /\ c.set[PoolTreasury] \in Members \cup {Zero}
                            /\ c.set[PoolTreasury] # Signer
  /\ TreasuryGiven => /\ c.fn = TreasuryEntry => TreasuryEntry \in DOMAIN c.set
                      /\ TreasuryEntry \in DOMAIN c.set => c.set[TreasuryEntry] = TRUE

\* The setters that have to be called before c: a percentage rises when those
\* that fall have fallen, the pool's treasury comes after its entry.
Needs(ch, c) ==
  {k \in PercentagesSM : c.fn \in PercentagesSM /\ Rises(ch, c.fn) /\ Falls(ch, k)}
  \cup {k \in {TreasuryEntry} : c.fn = PoolTreasury /\ TreasuryGiven /\ ch[k] # TRUE}

\* Every setter a call of p needs is among fns or called before it.
Fns(s) == {s[i].fn : i \in DOMAIN s}
Backed(ch, fns, p) ==
  \A i \in DOMAIN p : \A k \in Needs(ch, p[i]) : k \in fns \/ \E h \in 1 .. i - 1 : p[h].fn = k
Ordered(ch, p) == Backed(ch, {}, p)

LEMMA BackedMore ==
  ASSUME NEW ch, NEW F, NEW G, F \subseteq G, NEW p, Backed(ch, F, p)
  PROVE  Backed(ch, G, p)
BY DEF Backed

\* The first call has what it needs, and the others may need it.
LEMMA BackedTail ==
  ASSUME NEW ch, NEW F, NEW p, IsSeq(p), p # <<>>, Backed(ch, F, p)
  PROVE  /\ Needs(ch, Head(p)) \subseteq F
         /\ Backed(ch, F \cup {Head(p).fn}, Tail(p))
         /\ Fns(p) = Fns(Tail(p)) \cup {Head(p).fn}
<1> DEFINE S == Range(p)
<1>0. p \in Seq(S)
  BY DEF IsSeq
<1>1. /\ Len(p) \in Nat /\ Len(p) # 0 /\ DOMAIN p = 1..Len(p) /\ Head(p) = p[1]
  BY <1>0, EmptySeq, LenProperties
<1>2. /\ Tail(p) \in Seq(S) /\ Len(Tail(p)) = Len(p) - 1
      /\ \A i \in 1..Len(p) - 1 : Tail(p)[i] = p[i + 1]
  BY <1>0, HeadTailProperties
<1>3. DOMAIN Tail(p) = 1..Len(p) - 1
  BY <1>2, LenProperties
<1>4. Needs(ch, Head(p)) \subseteq F
  <2>1. 1 \in DOMAIN p /\ 1 .. 1 - 1 = {}
    BY <1>1
  <2> QED BY <1>1, <2>1 DEF Backed
<1>5. Backed(ch, F \cup {Head(p).fn}, Tail(p))
  <2> SUFFICES ASSUME NEW i \in DOMAIN Tail(p), NEW k \in Needs(ch, Tail(p)[i]),
                      k \notin F, k # Head(p).fn
               PROVE  \E h \in 1 .. i - 1 : Tail(p)[h].fn = k
    BY DEF Backed
  <2>0. i \in 1..Len(p) - 1 /\ k \in Needs(ch, p[i + 1]) /\ k # p[1].fn
    BY <1>1, <1>2, <1>3
  <2>1. i + 1 \in 1..Len(p) /\ i + 1 - 1 = i
    BY <1>1, <2>0
  <2>2. PICK h \in 1 .. i : p[h].fn = k
    BY <1>1, <2>0, <2>1 DEF Backed
  <2>3. h # 1
    BY <2>0, <2>2
  <2>4. h - 1 \in 1 .. i - 1 /\ h - 1 \in 1 .. Len(p) - 1 /\ h - 1 + 1 = h
    BY <1>1, <2>0, <2>3
  <2>5. Tail(p)[h - 1] = p[h]
    BY <1>2, <2>4
  <2> QED BY <2>2, <2>4, <2>5
<1>6. Fns(p) = Fns(Tail(p)) \cup {Head(p).fn}
  <2>1. ASSUME NEW i \in 1..Len(p) PROVE p[i].fn \in Fns(Tail(p)) \cup {p[1].fn}
    <3>1. CASE i = 1
      BY <3>1
    <3>2. CASE i # 1
      <4>1. i - 1 \in 1..Len(p) - 1 /\ i - 1 + 1 = i
        BY <1>1, <3>2
      <4> QED BY <1>2, <1>3, <4>1 DEF Fns
    <3> QED BY <3>1, <3>2
  <2>2. ASSUME NEW i \in 1..Len(p) - 1 PROVE Tail(p)[i].fn \in Fns(p)
    <3>1. i + 1 \in 1..Len(p)
      BY <1>1
    <3> QED BY <1>1, <1>2, <3>1 DEF Fns
  <2>3. p[1].fn \in Fns(p)
    BY <1>1 DEF Fns
  <2> QED BY <1>1, <1>3, <2>1, <2>2, <2>3 DEF Fns
<1> QED BY <1>4, <1>5, <1>6

\* A call that has what it needs goes to the end.
LEMMA BackedAppend ==
  ASSUME NEW ch, NEW F, NEW p, NEW x, IsSeq(p), Backed(ch, F, p), Needs(ch, x) \subseteq F
  PROVE  Backed(ch, F, Append(p, x)) /\ Fns(Append(p, x)) = Fns(p) \cup {x.fn}
<1> DEFINE S == Range(p) \cup {x}
           t == Append(p, x)
<1>1. p \in Seq(S)
  <2>1. Range(p) \subseteq S
    OBVIOUS
  <2> QED BY <2>1, SeqMonotonic DEF IsSeq
<1>2. Len(p) \in Nat /\ DOMAIN p = 1..Len(p)
  BY Entries1
<1>3. /\ t \in Seq(S) /\ Len(t) = Len(p) + 1
      /\ \A i \in 1..Len(p) : t[i] = p[i]
      /\ t[Len(p) + 1] = x
  BY <1>1, AppendProperties
<1>4. DOMAIN t = 1..Len(p) + 1
  BY <1>3, LenProperties
<1> HIDE DEF t
<1>5. Backed(ch, F, t)
  <2> SUFFICES ASSUME NEW i \in 1..Len(p) + 1, NEW k \in Needs(ch, t[i]), k \notin F
               PROVE  \E h \in 1 .. i - 1 : t[h].fn = k
    BY <1>4 DEF Backed
  <2>1. i # Len(p) + 1
    BY <1>3
  <2>2. i \in 1..Len(p)
    BY <1>2, <2>1
  <2>3. PICK h \in 1 .. i - 1 : p[h].fn = k
    BY <1>2, <1>3, <2>2 DEF Backed
  <2>4. h \in 1..Len(p)
    BY <1>2, <2>2
  <2> QED BY <1>3, <2>3, <2>4
<1>6. Fns(t) = Fns(p) \cup {x.fn}
  <2>1. ASSUME NEW i \in 1..Len(p) + 1 PROVE t[i].fn \in Fns(p) \cup {x.fn}
    <3>1. CASE i = Len(p) + 1
      BY <1>3, <3>1
    <3>2. CASE i # Len(p) + 1
      <4>1. i \in 1..Len(p)
        BY <1>2, <3>2
      <4> QED BY <1>2, <1>3, <4>1 DEF Fns
    <3> QED BY <3>1, <3>2
  <2>2. ASSUME NEW i \in 1..Len(p) PROVE p[i].fn \in Fns(t)
    <3>1. i \in 1..Len(p) + 1
      BY <1>2
    <3> QED BY <1>3, <1>4, <3>1, <2>2 DEF Fns
  <2>3. x.fn \in Fns(t)
    <3>1. Len(p) + 1 \in 1..Len(p) + 1
      BY <1>2
    <3> QED BY <1>3, <1>4, <3>1 DEF Fns
  <2> QED BY <1>2, <1>4, <2>1, <2>2, <2>3 DEF Fns
<1> QED BY <1>5, <1>6 DEF t

\* Once f has done its work nobody needs it any more.
LEMMA BackedLater ==
  ASSUME NEW ch, NEW later, NEW F, NEW f, NEW p, IsSeq(p), Backed(ch, F \cup {f}, p),
         \A c \in Range(p) : Needs(later, c) \subseteq Needs(ch, c) \ {f}
  PROVE  Backed(later, F, p)
<1>1. \A i \in DOMAIN p : p[i] \in Range(p)
  BY DEF Range
<1> SUFFICES ASSUME NEW i \in DOMAIN p, NEW k \in Needs(later, p[i]), k \notin F
             PROVE  \E h \in 1 .. i - 1 : p[h].fn = k
  BY DEF Backed
<1>2. k \in Needs(ch, p[i]) /\ k # f
  BY <1>1
<1> QED BY <1>2 DEF Backed

LEMMA Needless ==
  ASSUME NEW ch, NEW F, NEW p, \A c \in Range(p) : Needs(ch, c) = {}
  PROVE  Backed(ch, F, p)
BY DEF Backed, Range

LEMMA BackedConcat ==
  ASSUME NEW ch, NEW F, NEW s, NEW t, IsSeq(s), IsSeq(t),
         Backed(ch, F, s), NEW G, G = F \cup Fns(s), Backed(ch, G, t)
  PROVE  Backed(ch, F, s \o t) /\ Fns(s \o t) = Fns(s) \cup Fns(t)
<1> DEFINE S == Range(s) \cup Range(t)
           u == s \o t
<1>1. s \in Seq(S) /\ t \in Seq(S)
  <2>1. Range(s) \subseteq S /\ Range(t) \subseteq S
    OBVIOUS
  <2> QED BY <2>1, SeqMonotonic DEF IsSeq
<1>2. /\ Len(s) \in Nat /\ DOMAIN s = 1..Len(s)
      /\ Len(t) \in Nat /\ DOMAIN t = 1..Len(t)
  BY Entries1
<1>3. /\ u \in Seq(S)
      /\ Len(u) = Len(s) + Len(t)
      /\ \A i \in 1..Len(s) + Len(t) :
           u[i] = IF i <= Len(s) THEN s[i] ELSE t[i - Len(s)]
  BY <1>1, ConcatProperties
<1>4. DOMAIN u = 1..Len(s) + Len(t)
  BY <1>3, LenProperties
<1>5. \A i \in 1..Len(s) : u[i] = s[i] /\ i \in 1..Len(s) + Len(t)
  <2> TAKE i \in 1..Len(s)
  <2>1. i \in 1..Len(s) + Len(t) /\ i <= Len(s)
    BY <1>2
  <2> QED BY <1>3, <2>1
<1>6. \A i \in 1..Len(t) : u[i + Len(s)] = t[i] /\ i + Len(s) \in 1..Len(s) + Len(t)
  <2> TAKE i \in 1..Len(t)
  <2>1. i + Len(s) \in 1..Len(s) + Len(t) /\ ~(i + Len(s) <= Len(s)) /\ i + Len(s) - Len(s) = i
    BY <1>2
  <2> QED BY <1>3, <2>1
<1>7. \A i \in 1..Len(s) + Len(t) : i \in 1..Len(s) \/ \E j \in 1..Len(t) : i = j + Len(s)
  <2> TAKE i \in 1..Len(s) + Len(t)
  <2>1. i \in 1..Len(s) \/ (i - Len(s) \in 1..Len(t) /\ i = (i - Len(s)) + Len(s))
    BY <1>2
  <2> QED BY <2>1
<1> HIDE DEF u
<1>8. Backed(ch, F, u)
  <2> SUFFICES ASSUME NEW i \in 1..Len(s) + Len(t), NEW k \in Needs(ch, u[i]), k \notin F
               PROVE  \E h \in 1 .. i - 1 : u[h].fn = k
    BY <1>4 DEF Backed
  <2>1. CASE i \in 1..Len(s)
    <3>1. PICK h \in 1 .. i - 1 : s[h].fn = k
      BY <1>2, <1>5, <2>1 DEF Backed
    <3>2. h \in 1..Len(s)
      BY <1>2, <2>1
    <3> QED BY <1>5, <3>1, <3>2
  <2>2. CASE \E j \in 1..Len(t) : i = j + Len(s)
    <3>1. PICK j \in 1..Len(t) : i = j + Len(s)
      BY <2>2
    <3>2. k \in Fns(s) \/ \E h \in 1 .. j - 1 : t[h].fn = k
      BY <1>2, <1>6, <3>1 DEF Backed
    <3>3. CASE k \in Fns(s)
      <4>1. PICK h \in 1..Len(s) : s[h].fn = k
        BY <1>2, <3>3 DEF Fns
      <4>2. h \in 1 .. i - 1
        BY <1>2, <3>1
      <4> QED BY <1>5, <4>1, <4>2
    <3>4. CASE \E h \in 1 .. j - 1 : t[h].fn = k
      <4>1. PICK h \in 1 .. j - 1 : t[h].fn = k
        BY <3>4
      <4>2. h \in 1..Len(t) /\ h + Len(s) \in 1 .. i - 1
        BY <1>2, <3>1
      <4> QED BY <1>6, <4>1, <4>2
    <3> QED BY <3>2, <3>3, <3>4
  <2> QED BY <1>7, <2>1, <2>2
<1>9. Fns(u) = Fns(s) \cup Fns(t)
  <2>1. ASSUME NEW i \in 1..Len(s) + Len(t) PROVE u[i].fn \in Fns(s) \cup Fns(t)
    BY <1>2, <1>5, <1>6, <1>7 DEF Fns
  <2>2. \A i \in 1..Len(s) : s[i].fn \in Fns(u)
    BY <1>4, <1>5 DEF Fns
  <2>3. \A i \in 1..Len(t) : t[i].fn \in Fns(u)
    BY <1>4, <1>6 DEF Fns
  <2> QED BY <1>2, <1>4, <2>1, <2>2, <2>3 DEF Fns
<1> QED BY <1>8, <1>9 DEF u

\* Several sequences one after the other, each backed by those before it.
LEMMA BackedFlatten ==
  ASSUME NEW ch, NEW F, NEW n \in Nat, NEW seqs, Len(seqs) = n, DOMAIN seqs = 1..n,
         seqs = [i \in 1..n |-> seqs[i]], \A i \in 1..n : IsSeq(seqs[i]),
         \A i \in 1..n : Backed(ch, F \cup UNION {Fns(seqs[q]) : q \in 1..(i - 1)}, seqs[i])
  PROVE  Backed(ch, F, FlattenSeq(seqs))
<1>1. CASE n = 0
  <2>1. FlattenSeq(seqs) = <<>>
    BY <1>1 DEF FlattenSeq
  <2> QED BY <2>1 DEF Backed
<1>2. CASE n # 0
  <2> DEFINE f == CHOOSE g : Flattened(seqs, n, g)
             Before(i) == UNION {Fns(seqs[q]) : q \in 1..i}
             B == {i \in 0..n : i = 0 \/ (/\ IsSeq(f[i]) /\ Backed(ch, F, f[i])
                                          /\ Fns(f[i]) = Before(i))}
  <2>1. Flattened(seqs, n, f)
    BY FlattenRuns
  <2>2. FlattenSeq(seqs) = f[n]
    BY <1>2 DEF FlattenSeq, Flattened
  <2> HIDE DEF f
  <2>3. 0 \in B
    OBVIOUS
  <2>4. ASSUME NEW i \in 1..n, i - 1 \in B PROVE i \in B
    <3>1. f[i] = IF i = 1 THEN seqs[i] ELSE f[i - 1] \o seqs[i]
      BY <2>1 DEF Flattened
    <3>0. IsSeq(seqs[i]) /\ Backed(ch, F \cup Before(i - 1), seqs[i])
      OBVIOUS
    <3>2. CASE i = 1
      <4>1. f[i] = seqs[i] /\ 1..i = {i} /\ 1..(i - 1) = {}
        BY <3>1, <3>2
      <4>2. Before(i - 1) = {} /\ Before(i) = Fns(seqs[i])
        BY <4>1
      <4> HIDE DEF Before
      <4>3. Backed(ch, F, seqs[i])
        BY <3>0, <4>2, BackedMore
      <4> QED BY <3>0, <4>1, <4>2, <4>3
    <3>3. CASE i # 1
      <4>0. i - 1 # 0
        BY <3>3
      <4>1. /\ f[i] = f[i - 1] \o seqs[i] /\ IsSeq(f[i - 1])
            /\ Backed(ch, F, f[i - 1]) /\ Fns(f[i - 1]) = Before(i - 1)
        BY <2>4, <3>1, <3>3, <4>0
      <4>3. 1..i = 1..(i - 1) \cup {i}
        BY <3>3
      <4>5. UNION {Fns(seqs[j]) : j \in 1..(i - 1) \cup {i}} =
              (UNION {Fns(seqs[j]) : j \in 1..(i - 1)}) \cup Fns(seqs[i])
        OBVIOUS
      <4>4. Before(i) = Before(i - 1) \cup Fns(seqs[i])
        BY <4>3, <4>5
      <4> HIDE DEF Before
      <4>6. IsSeq(f[i])
        BY <3>0, <4>1, ConcatIsSeq
      <4>7. Backed(ch, F \cup Fns(f[i - 1]), seqs[i])
        BY <3>0, <4>1
      <4>8. Backed(ch, F, f[i]) /\ Fns(f[i]) = Fns(f[i - 1]) \cup Fns(seqs[i])
        <5> DEFINE s == f[i - 1]
                   t == seqs[i]
        <5>1. IsSeq(s) /\ IsSeq(t) /\ Backed(ch, F, s) /\ Backed(ch, F \cup Fns(s), t) /\ f[i] = s \o t
          BY <3>0, <4>1, <4>7
        <5> HIDE DEF s, t
        <5>2. Backed(ch, F, s \o t) /\ Fns(s \o t) = Fns(s) \cup Fns(t)
          BY <5>1, BackedConcat
        <5> QED BY <5>1, <5>2 DEF s, t
      <4>9. Fns(f[i]) = Before(i) /\ i \in 0..n
        BY <4>1, <4>4, <4>8
      <4> QED BY <4>6, <4>8, <4>9
    <3> QED BY <3>2, <3>3
  <2>5. \A i \in 1..n : i - 1 \in B => i \in B
    BY <2>4
  <2> HIDE DEF B
  <2>6. \A i \in 0..n : i \in B
    BY <2>3, <2>5, Throughout
  <2>7. n \in B
    BY <2>6
  <2> QED BY <1>2, <2>2, <2>7 DEF B
<1> QED BY <1>1, <1>2

-----------------------------------------------------------------------------
(* What a transaction leaves as it was. *)

LEMMA NumbersAreKeys ==
  /\ Numbers \subseteq Keys /\ PercentagesSM \subseteq Numbers
  /\ K("sm", "increasePct") \in Numbers /\ K("sm", "decreasePct") \in Numbers
  /\ \A k \in Numbers : k[1] = "sm"
<1> DEFINE N == {"feePct", "burnPct", "validatorRewardPct", "employerSlashPct", "treasurySlashPct",
                 "minStake", "maxStake", "increasePct", "decreasePct", "agiTypes"}
<1>1. Numbers = Names("sm", N)
  BY DEF Numbers, Names, K
<1>2. N \subseteq Scalars.sm
  BY DEF Scalars
<1>3. Names("sm", N) \subseteq Names("sm", Scalars.sm)
  BY <1>2 DEF Names
<1>4. PercentagesSM \subseteq Numbers
  BY <1>1 DEF PercentagesSM, Names
<1>5. \A k \in Names("sm", N) : k[1] = "sm"
  BY DEF Names
<1>6. K("sm", "increasePct") \in Numbers /\ K("sm", "decreasePct") \in Numbers
  BY DEF Numbers
<1> HIDE DEF N
<1> QED BY <1>1, <1>3, <1>4, <1>5, <1>6, ScalarKeys

LEMMA PercentSetters ==
  \A k \in PercentagesSM :
    /\ k[1] = "sm" /\ k[2] \in {"feePct", "burnPct", "validatorRewardPct"}
    /\ k # PoolTreasury /\ k \notin Excused
    /\ k \notin ModuleSetters \cup {K("sm", "slashing"), K("sm", "recommendations"), K("sm", "autoStake")}
<1> SUFFICES ASSUME NEW k \in PercentagesSM
    PROVE /\ k[1] = "sm" /\ k[2] \in {"feePct", "burnPct", "validatorRewardPct"}
          /\ k # PoolTreasury /\ k \notin Excused
          /\ k \notin ModuleSetters \cup {K("sm", "slashing"), K("sm", "recommendations"), K("sm", "autoStake")}
  OBVIOUS
<1>1. k[1] = "sm" /\ k[2] \in {"feePct", "burnPct", "validatorRewardPct"}
  BY DEF PercentagesSM
<1>2. k # PoolTreasury
  BY <1>1 DEF PoolTreasury, K
<1>3. k \notin OrderBlind
  BY <1>1 DEF OrderBlind, PercentagesJR, K
<1>4. \A cfg : k \notin Unacceptable(cfg)
  <2> SUFFICES ASSUME NEW cfg, k \in Unacceptable(cfg) PROVE FALSE
    OBVIOUS
  <2>1. k[1] \in {"re", "jr", "th"}
    BY DEF Unacceptable, K, TaxPolicyKey
  <2> QED BY <1>1, <2>1
<1>5. k \notin ModuleSetters \cup {K("sm", "slashing"), K("sm", "recommendations"), K("sm", "autoStake")}
  BY <1>1 DEF ModuleSetters, K
<1> QED BY <1>1, <1>2, <1>3, <1>4, <1>5 DEF Excused

\* Owners, the number of types and the goals of the percentages stay; a percentage
\* changes only in one step, from what it was to what it is to be.
Kept(ch, x, after) ==
  /\ DOMAIN after = Keys
  /\ \A k \in Fixed : after[k] = ch[k]
  /\ \A k \in Numbers : after[k] = ch[k] \/ (k \in DOMAIN x.set /\ after[k] = x.set[k])
  /\ \A k \in PercentagesSM : /\ Goal(after, k) = Goal(ch, k)
                              /\ after[k] = ch[k] \/ (x.fn = k /\ after[k] = Goal(ch, k))
  /\ x.fn \in PercentagesSM => after[x.fn] = Goal(ch, x.fn) /\ after = Over(x.set, ch)
  /\ GoalSum(after) = GoalSum(ch)
  /\ TreasuryGiven =>
       /\ after[TreasuryEntry] = ch[TreasuryEntry] \/ after[TreasuryEntry] = TRUE
       /\ x.fn = TreasuryEntry => after[TreasuryEntry] = TRUE

LEMMA EffectKeeps ==
  ASSUME NEW ch, NEW x, DOMAIN ch = Keys, Sound(x), Fit(ch, x)
  PROVE  Kept(ch, x, Effect(ch, x))
<1> DEFINE after == Effect(ch, x)
<1>1. /\ DOMAIN after = Keys
      /\ \A k \in Keys : \/ Moved(k, x)
                         \/ after[k] = ch[k]
                         \/ k \in DOMAIN x.set /\ after[k] = x.set[k]
      /\ x.fn[2] \notin {"autoStake", "bounds", "policy", "modules"} => after = Over(x.set, ch)
  BY EffectWrites
<1> HIDE DEF after
<1>2. \A k \in Fixed : after[k] = ch[k]
  <2> SUFFICES ASSUME NEW k \in Fixed PROVE after[k] = ch[k]
    OBVIOUS
  <2>1. K("sm", "agiTypes") \in Keys
    BY NumbersAreKeys DEF Numbers
  <2>2. k \in Keys /\ k[1] \in {"owner", "sm"}
    BY <2>1 DEF Fixed, K
  <2>3. ~Moved(k, x)
    BY <2>2 DEF Moved, K
  <2>4. k \notin DOMAIN x.set
    BY DEF Fit
  <2> QED BY <1>1, <2>2, <2>3, <2>4
<1>3. \A k \in Numbers : after[k] = ch[k] \/ (k \in DOMAIN x.set /\ after[k] = x.set[k])
  <2> SUFFICES ASSUME NEW k \in Numbers
               PROVE  after[k] = ch[k] \/ (k \in DOMAIN x.set /\ after[k] = x.set[k])
    OBVIOUS
  <2>1. k \in Keys /\ k[1] = "sm"
    BY NumbersAreKeys
  <2>2. ~Moved(k, x)
    BY <2>1 DEF Moved, K
  <2> QED BY <1>1, <2>1, <2>2
<1>4. \A k \in PercentagesSM \cap DOMAIN x.set :
        x.fn = k /\ k \in DOMAIN StakeFile /\ x.set[k] = Goal(ch, k)
  BY DEF Fit, Goal, Target
<1>5. \A k \in PercentagesSM : after[k] = ch[k] \/ (x.fn = k /\ after[k] = Goal(ch, k))
  BY <1>3, <1>4, NumbersAreKeys
<1>6. \A k \in PercentagesSM : Goal(after, k) = Goal(ch, k)
  BY <1>3, <1>4, NumbersAreKeys DEF Goal, Target
<1>7. ASSUME x.fn \in PercentagesSM PROVE after[x.fn] = Goal(ch, x.fn) /\ after = Over(x.set, ch)
  <2>1. after = Over(x.set, ch)
    BY <1>1, <1>7, PercentSetters
  <2>2. x.fn \in DOMAIN x.set
    BY <1>7 DEF Fit, Covers, Guarded
  <2>3. Over(x.set, ch)[x.fn] = x.set[x.fn]
    BY <2>2, OverFacts DEF Sound
  <2> QED BY <1>4, <1>7, <2>1, <2>2, <2>3
<1>8. GoalSum(after) = GoalSum(ch)
  <2>1. K("sm", "feePct") \in PercentagesSM /\ K("sm", "burnPct") \in PercentagesSM
        /\ K("sm", "validatorRewardPct") \in PercentagesSM
    BY DEF PercentagesSM, K
  <2> QED BY <1>6, <2>1 DEF GoalSum
<1>9. ASSUME TreasuryGiven
      PROVE  /\ after[TreasuryEntry] = ch[TreasuryEntry] \/ after[TreasuryEntry] = TRUE
             /\ x.fn = TreasuryEntry => after[TreasuryEntry] = TRUE
  <2> DEFINE a == TreasuryEntry
  <2>1. a \in Keys /\ a[1] = "fp" /\ a[2] = "allow"
    BY <1>9, ListsAreKeys DEF TreasuryEntry, TreasuryGiven, Each3
  <2>2. ~Moved(a, x)
    BY <2>1 DEF Moved, K, Roots
  <2>3. a \in DOMAIN x.set => x.set[a] = TRUE
    BY <1>9 DEF Fit
  <2>4. after[a] = ch[a] \/ after[a] = TRUE
    BY <1>1, <2>1, <2>2, <2>3
  <2>5. ASSUME x.fn = a PROVE after[a] = TRUE
    <3>1. a \in DOMAIN x.set
      BY <1>9, <2>5 DEF Fit
    <3>2. after = Over(x.set, ch)
      BY <1>1, <2>1, <2>5
    <3>3. Over(x.set, ch)[a] = x.set[a]
      BY <3>1, OverFacts DEF Sound
    <3> QED BY <2>3, <3>1, <3>2, <3>3
  <2> QED BY <2>4, <2>5
<1> QED BY <1>1, <1>2, <1>3, <1>5, <1>6, <1>7, <1>8, <1>9 DEF Kept, after

LEMMA FitStays ==
  ASSUME NEW ch, NEW later, NEW c, DOMAIN ch = Keys, DOMAIN later = Keys, Sound(c), Fit(ch, c),
         \A k \in Fixed : later[k] = ch[k],
         \A k \in PercentagesSM : Goal(later, k) = Goal(ch, k), GoalSum(later) = GoalSum(ch)
  PROVE  Fit(later, c)
<1>1. c.fn[1] \in DOMAIN Scalars /\ Covers(c)
  BY DEF Fit, Covers
<1>2. <<"owner", c.fn[1], 1>> \in Fixed
  <2> DEFINE r == <<"owner", c.fn[1], 1>>
  <2>1. r \in Roots /\ r[1] = "owner"
    BY <1>1 DEF Roots
  <2> HIDE DEF r
  <2>2. r \in Fixed
    BY <2>1 DEF Fixed, Keys
  <2> QED BY <2>2 DEF r
<1>3. OwnerOf(later, c.fn[1]) = Signer
  BY <1>2 DEF OwnerOf, Fit
<1>4. c.fn \in PercentagesSM \cup {PoolTreasury} \cup Excused \/ Accepts(later, c)
  <2>1. CASE c.fn \in PercentagesSM \cup {PoolTreasury} \cup Excused
    BY <2>1
  <2>2. CASE c.fn \notin PercentagesSM \cup {PoolTreasury} \cup Excused
    <3>1. c.fn \notin PercentagesSM \cup {PoolTreasury} \cup OrderBlind
      BY <2>2 DEF Excused
    <3>2. Accepts(ch, c)
      BY <2>2 DEF Fit
    <3> QED BY <1>1, <3>1, <3>2, AcceptsStays
  <2> QED BY <2>1, <2>2
<1> QED BY <1>3, <1>4 DEF Fit

\* The deployment stays within its limits.
LEMMA DeployedStays ==
  ASSUME NEW ch, NEW x, DOMAIN ch = Keys, Sound(x), Fit(ch, x), Deployed(ch), Accepts(ch, x)
  PROVE  Deployed(Effect(ch, x))
<1> DEFINE after == Effect(ch, x)
<1>0. Kept(ch, x, after)
  BY EffectKeeps
<1> HIDE DEF after
<1>1. /\ \A k \in Numbers : after[k] = ch[k] \/ (k \in DOMAIN x.set /\ after[k] = x.set[k])
      /\ \A k \in PercentagesSM : /\ Goal(after, k) = Goal(ch, k)
                                  /\ after[k] = ch[k] \/ (x.fn = k /\ after[k] = Goal(ch, k))
      /\ x.fn \in PercentagesSM => after[x.fn] = Goal(ch, x.fn) /\ after = Over(x.set, ch)
  BY <1>0 DEF Kept
<1>2. \A k \in Numbers : after[k] \in Nat
  BY <1>1 DEF Fit, Deployed
<1>3. SumSM(after) <= 100
  <2>1. CASE x.fn \in PercentagesSM
    <3>1. AcceptsSM(ch, x.fn, after)
      BY <1>1, <2>1 DEF Accepts
    <3> QED BY <2>1, <3>1 DEF AcceptsSM
  <2>2. CASE x.fn \notin PercentagesSM
    <3>1. \A k \in PercentagesSM : after[k] = ch[k]
      BY <1>1, <2>2
    <3> QED BY <3>1 DEF Deployed, SumSM, PercentagesSM
  <2> QED BY <2>1, <2>2
<1>4. /\ after[K("sm", "increasePct")] <= 100
      /\ after[K("sm", "decreasePct")] <= 100
  BY <1>1, NumbersAreKeys DEF Fit, Deployed
<1> QED BY <1>2, <1>3, <1>4 DEF Deployed, after

\* What has been called is not needed any more, and nothing else becomes needed.
LEMMA NeedsShrink ==
  ASSUME NEW ch, NEW x, NEW c, DOMAIN ch = Keys, Sound(x), Fit(ch, x), Fit(ch, c), Deployed(ch)
  PROVE  Needs(Effect(ch, x), c) \subseteq Needs(ch, c) \ {x.fn}
<1> DEFINE after == Effect(ch, x)
<1>0. Kept(ch, x, after)
  BY EffectKeeps
<1> HIDE DEF after
<1>1. /\ \A k \in PercentagesSM : /\ Goal(after, k) = Goal(ch, k)
                                  /\ after[k] = ch[k] \/ (x.fn = k /\ after[k] = Goal(ch, k))
      /\ x.fn \in PercentagesSM => after[x.fn] = Goal(ch, x.fn)
      /\ TreasuryGiven =>
              /\ after[TreasuryEntry] = ch[TreasuryEntry] \/ after[TreasuryEntry] = TRUE
              /\ x.fn = TreasuryEntry => after[TreasuryEntry] = TRUE
  BY <1>0 DEF Kept
<1> SUFFICES ASSUME NEW k \in Needs(after, c) PROVE k \in Needs(ch, c) \ {x.fn}
  BY DEF after
<1>2. CASE c.fn = PoolTreasury /\ TreasuryGiven /\ k = TreasuryEntry /\ after[k] # TRUE
  BY <1>1, <1>2 DEF Needs
<1>3. CASE k \in PercentagesSM /\ c.fn \in PercentagesSM /\ Rises(after, c.fn) /\ Falls(after, k)
  <2>1. \A j \in PercentagesSM : Goal(ch, j) \in Nat /\ ch[j] \in Nat
    BY <1>3, NumbersAreKeys DEF Fit, Deployed
  <2>2. Goal(after, c.fn) > after[c.fn] /\ after[k] > Goal(after, k)
    BY <1>3 DEF Rises, Falls
  <2>3. after[c.fn] = ch[c.fn]
    <3>1. CASE after[c.fn] = Goal(ch, c.fn)
      BY <1>1, <1>3, <2>1, <2>2, <3>1
    <3> QED BY <1>1, <1>3, <3>1
  <2>4. after[k] = ch[k] /\ x.fn # k
    <3>1. ~(after[k] = Goal(ch, k))
      BY <1>1, <1>3, <2>1, <2>2
    <3> QED BY <1>1, <1>3, <3>1
  <2>5. Rises(ch, c.fn) /\ Falls(ch, k)
    BY <1>1, <1>3, <2>2, <2>3, <2>4 DEF Rises, Falls
  <2> QED BY <1>3, <2>4, <2>5 DEF Needs
<1> QED BY <1>2, <1>3 DEF Needs

\* A call that needs nothing is accepted, or is one of those excused.
LEMMA Accepted ==
  ASSUME NEW ch, NEW c, DOMAIN ch = Keys, Sound(c), Fit(ch, c), Deployed(ch), Needs(ch, c) = {}
  PROVE  /\ Accepts(ch, c) \/ c.fn \in Excused
         /\ c.fn \in PercentagesSM \cup {PoolTreasury} => Accepts(ch, c)
<1> DEFINE fn == c.fn
           after == Over(c.set, ch)
<1>1. /\ \A k \in DOMAIN c.set : after[k] = c.set[k]
      /\ \A k \in Keys : k \notin DOMAIN c.set => after[k] = ch[k]
  BY OverFacts DEF Sound
<1>2. OwnerOf(ch, fn[1]) = Signer
  BY DEF Fit
<1> HIDE DEF fn, after
<1>3. ASSUME fn \in PercentagesSM PROVE Accepts(ch, c)
  <2>1. /\ fn[1] = "sm" /\ fn # PoolTreasury /\ fn \notin Excused
        /\ fn \notin ModuleSetters \cup {K("sm", "slashing"), K("sm", "recommendations"), K("sm", "autoStake")}
    BY <1>3, PercentSetters
  <2>2. /\ fn \in DOMAIN c.set /\ \A k \in PercentagesSM \cap DOMAIN c.set : k = fn /\ c.set[k] = Goal(ch, k)
    BY <1>3 DEF Fit, Covers, Guarded, fn, Goal, Target
  <2>3. /\ \A k \in PercentagesSM : Goal(ch, k) \in Nat /\ ch[k] \in Nat
        /\ GoalSum(ch) <= 100 /\ SumSM(ch) <= 100
    BY <1>3, NumbersAreKeys DEF Fit, Deployed, fn
  <2>4. /\ after[fn] = Goal(ch, fn)
        /\ \A k \in PercentagesSM : k # fn => after[k] = ch[k]
    <3>1. PercentagesSM \subseteq Keys
      BY NumbersAreKeys
    <3> QED BY <1>1, <1>3, <2>2, <3>1
  <2>5. \/ \A k \in PercentagesSM : after[k] <= ch[k]
        \/ \A k \in PercentagesSM : after[k] <= Goal(ch, k)
    <3>1. CASE ~(Goal(ch, fn) > ch[fn])
      BY <1>3, <2>3, <2>4, <3>1
    <3>2. CASE Goal(ch, fn) > ch[fn]
      <4>1. \A k \in PercentagesSM : ~(ch[k] > Goal(ch, k))
        BY <1>3, <3>2 DEF Needs, Rises, Falls, fn
      <4>2. \A k \in PercentagesSM : after[k] <= Goal(ch, k)
        BY <1>3, <2>3, <2>4, <4>1
      <4> QED BY <4>2
    <3> QED BY <3>1, <3>2
  <2>6. \A k \in PercentagesSM : after[k] \in Nat
    BY <1>3, <2>3, <2>4
  <2>7. SumSM(after) <= 100
    <3> DEFINE f == K("sm", "feePct")
               b == K("sm", "burnPct")
               v == K("sm", "validatorRewardPct")
    <3>1. /\ f \in PercentagesSM /\ b \in PercentagesSM /\ v \in PercentagesSM
          /\ SumSM(after) = after[f] + after[b] + after[v]
          /\ SumSM(ch) = ch[f] + ch[b] + ch[v]
          /\ GoalSum(ch) = Goal(ch, f) + Goal(ch, b) + Goal(ch, v)
      BY DEF PercentagesSM, SumSM, GoalSum, K
    <3> HIDE DEF f, b, v
    <3>2. /\ after[f] \in Nat /\ after[b] \in Nat /\ after[v] \in Nat
          /\ ch[f] \in Nat /\ ch[b] \in Nat /\ ch[v] \in Nat
          /\ Goal(ch, f) \in Nat /\ Goal(ch, b) \in Nat /\ Goal(ch, v) \in Nat
      BY <2>3, <2>6, <3>1
    <3>3. \/ after[f] <= ch[f] /\ after[b] <= ch[b] /\ after[v] <= ch[v]
          \/ after[f] <= Goal(ch, f) /\ after[b] <= Goal(ch, b) /\ after[v] <= Goal(ch, v)
      BY <2>5, <3>1
    <3>4. ch[f] + ch[b] + ch[v] <= 100 /\ Goal(ch, f) + Goal(ch, b) + Goal(ch, v) <= 100
      BY <2>3, <3>1
    <3>5. after[f] + after[b] + after[v] <= 100
      <4> DEFINE x1 == after[f]
                 x2 == after[b]
                 x3 == after[v]
                 y1 == ch[f]
                 y2 == ch[b]
                 y3 == ch[v]
                 z1 == Goal(ch, f)
                 z2 == Goal(ch, b)
                 z3 == Goal(ch, v)
      <4>1. /\ x1 \in Nat /\ x2 \in Nat /\ x3 \in Nat /\ y1 \in Nat /\ y2 \in Nat /\ y3 \in Nat
            /\ z1 \in Nat /\ z2 \in Nat /\ z3 \in Nat
            /\ (x1 <= y1 /\ x2 <= y2 /\ x3 <= y3) \/ (x1 <= z1 /\ x2 <= z2 /\ x3 <= z3)
            /\ y1 + y2 + y3 <= 100 /\ z1 + z2 + z3 <= 100
        BY <3>2, <3>3, <3>4
      <4> HIDE DEF x1, x2, x3, y1, y2, y3, z1, z2, z3
      <4>2. x1 + x2 + x3 <= 100
        BY <4>1
      <4> QED BY <4>2 DEF x1, x2, x3
    <3> QED BY <3>1, <3>5
  <2>8. AcceptsSM(ch, fn, after)
    <3>1. fn[2] \in {"feePct", "burnPct", "validatorRewardPct"}
      BY <1>3, PercentSetters
    <3>2. /\ fn # <<"sm", "slashing">> /\ fn # <<"sm", "minStake">> /\ fn # <<"sm", "unbondingPeriod">>
          /\ fn # <<"sm", "recommendations">> /\ fn # <<"sm", "autoStake">>
          /\ fn # <<"sm", "maxAGITypes">> /\ fn # <<"sm", "maxTotalPayoutPct">>
      BY <3>1
    <3> QED BY <2>7, <3>2 DEF AcceptsSM
  <2>9. AcceptsTreasury(ch, fn, after)
    <3>1. fn[2] \in {"feePct", "burnPct", "validatorRewardPct"}
      BY <1>3, PercentSetters
    <3> QED BY <3>1 DEF AcceptsTreasury
  <2>10. /\ AcceptsJR(ch, fn, after) /\ AcceptsFP(ch, fn, after) /\ AcceptsRE(ch, fn, after)
         /\ AcceptsTH(ch, fn, after) /\ AcceptsSP(ch, fn, after)
    BY <2>1, OtherContracts
  <2> QED BY <1>2, <2>1, <2>8, <2>9, <2>10 DEF Accepts, fn, after
<1>4. ASSUME fn = PoolTreasury PROVE Accepts(ch, c)
  <2> DEFINE t == PoolTreasury
  <2>1. t[1] = "fp" /\ t[2] = "treasury" /\ t = <<"fp", "treasury">>
    BY DEF PoolTreasury, K
  <2>2. /\ "feePool" \in DOMAIN files /\ t \in DOMAIN PoolFile /\ c.set[t] = PoolFile[t]
        /\ c.set[t] \in Members \cup {Zero} /\ c.set[t] # Signer /\ t \in DOMAIN c.set
    BY <1>4 DEF Fit, Covers, Guarded, fn
  <2>3. after[t] = PoolFile[t] /\ after[t] # Signer /\ after[t] \in Members \cup {Zero}
    BY <1>1, <2>2
  <2>4. after[t] # Zero => ch[<<"fp", "allow", after[t]>>] = TRUE
    <3> SUFFICES ASSUME after[t] # Zero PROVE ch[<<"fp", "allow", after[t]>>] = TRUE
      OBVIOUS
    <3>1. TreasuryGiven /\ TreasuryEntry = <<"fp", "allow", after[t]>>
      BY <2>2, <2>3 DEF TreasuryGiven, TreasuryEntry
    <3> QED BY <1>4, <3>1 DEF Needs, fn
  <2>5. AcceptsTreasury(ch, fn, after)
    BY <1>2, <1>4, <2>1, <2>3, <2>4 DEF AcceptsTreasury
  <2>6. AcceptsFP(ch, fn, after) /\ fn \notin ModuleSetters
    BY <1>4, <2>1 DEF AcceptsFP, ModuleSetters
  <2>7. /\ AcceptsJR(ch, fn, after) /\ AcceptsSM(ch, fn, after) /\ AcceptsRE(ch, fn, after)
        /\ AcceptsTH(ch, fn, after) /\ AcceptsSP(ch, fn, after)
    BY <1>4, <2>1, OtherContracts
  <2> QED BY <1>2, <2>5, <2>6, <2>7 DEF Accepts, fn, after
<1> QED BY <1>3, <1>4 DEF Fit, fn

\* What others need is accepted.
LEMMA NeededIsAccepted ==
  ASSUME NEW ch, NEW x, NEW c, DOMAIN ch = Keys, Sound(x), Fit(ch, x), Fit(ch, c), Deployed(ch),
         x.fn \in Needs(ch, c)
  PROVE  Accepts(ch, x)
<1>1. CASE x.fn \in PercentagesSM
  <2>1. c.fn \in PercentagesSM /\ Falls(ch, x.fn)
    <3>1. x.fn # TreasuryEntry
      BY <1>1, PercentSetters DEF TreasuryEntry
    <3> QED BY <3>1 DEF Needs
  <2>2. Goal(ch, x.fn) \in Nat /\ ch[x.fn] \in Nat
    BY <1>1, <2>1, NumbersAreKeys DEF Fit, Deployed
  <2>3. ~Rises(ch, x.fn)
    BY <2>1, <2>2 DEF Rises, Falls
  <2>4. Needs(ch, x) = {}
    BY <1>1, <2>3, PercentSetters DEF Needs
  <2> QED BY <1>1, <2>4, Accepted
<1>2. CASE x.fn \notin PercentagesSM
  <2>1. x.fn = TreasuryEntry
    BY <1>2 DEF Needs
  <2> DEFINE fn == x.fn
             after == Over(x.set, ch)
  <2>2. fn[1] = "fp" /\ fn[2] = "allow"
    BY <2>1 DEF TreasuryEntry
  <2>3. OwnerOf(ch, fn[1]) = Signer
    BY DEF Fit
  <2> HIDE DEF fn, after
  <2>4. fn \notin ModuleSetters /\ AcceptsFP(ch, fn, after) /\ AcceptsTreasury(ch, fn, after)
    BY <2>2 DEF ModuleSetters, AcceptsFP, AcceptsTreasury
  <2>5. /\ AcceptsJR(ch, fn, after) /\ AcceptsSM(ch, fn, after) /\ AcceptsRE(ch, fn, after)
        /\ AcceptsTH(ch, fn, after) /\ AcceptsSP(ch, fn, after)
    BY <2>2, OtherContracts
  <2> QED BY <2>3, <2>4, <2>5 DEF Accepts, fn, after
<1> QED BY <1>1, <1>2

-----------------------------------------------------------------------------
(* A plan sends every call after those it needs. *)

LEMMA OrderedConcat ==
  ASSUME NEW ch, NEW s, NEW t, IsSeq(s), IsSeq(t), Ordered(ch, s), Ordered(ch, t)
  PROVE  IsSeq(s \o t) /\ Ordered(ch, s \o t) /\ Range(s \o t) = Range(s) \cup Range(t)
<1> DEFINE G == {} \cup Fns(s)
<1>1. Backed(ch, {}, s) /\ Backed(ch, {}, t)
  BY DEF Ordered
<1> HIDE DEF G
<1>2. Backed(ch, G, t)
  BY <1>1, BackedMore
<1>3. Backed(ch, {}, s \o t)
  BY <1>1, <1>2, BackedConcat DEF G
<1> QED BY <1>3, ConcatIsSeq DEF Ordered

LEMMA OrderedJoin ==
  ASSUME NEW ch, NEW s, NEW t, IsSeq(s), IsSeq(t), Ordered(ch, s), Ordered(ch, t)
  PROVE  /\ IsSeq(s \o t) /\ Ordered(ch, s \o t)
         /\ \A c \in Range(s \o t) : c \in Range(s) \/ c \in Range(t)
         /\ \A f : f \in Fns(s) \/ f \in Fns(t) => f \in Fns(s \o t)
<1>1. IsSeq(s \o t) /\ Ordered(ch, s \o t) /\ Range(s \o t) = Range(s) \cup Range(t)
  BY OrderedConcat
<1>2. \A p, f : f \in Fns(p) <=> \E c \in Range(p) : f = c.fn
  BY DEF Fns, Range
<1>3. \A c : c \in Range(s) \/ c \in Range(t) => c \in Range(s \o t)
  BY <1>1
<1>4. \A f : f \in Fns(s) \/ f \in Fns(t) => f \in Fns(s \o t)
  BY <1>2, <1>3
<1> QED BY <1>1, <1>4

\* Only percentages and the pool's treasury need others.
LEMMA NeedsNothing ==
  ASSUME NEW ch, NEW c, c.fn \notin PercentagesSM, c.fn # PoolTreasury
  PROVE  Needs(ch, c) = {}
BY DEF Needs

LEMMA PlainIsOrdered ==
  ASSUME NEW ch, NEW p, \A c \in Range(p) : c.fn \notin PercentagesSM /\ c.fn # PoolTreasury
  PROVE  Ordered(ch, p)
<1>1. \A c \in Range(p) : Needs(ch, c) = {}
  BY NeedsNothing
<1> QED BY <1>1, Needless DEF Ordered

\* The plan of the stake manager is in order if its percentages are.
LEMMA StakePlanOrdered ==
  ASSUME NEW ch, NEW cfg, Ordered(ch, StakePercentPlan(ch, cfg))
  PROVE  /\ Ordered(ch, StakeManagerPlan(ch, cfg))
         /\ \A c \in Range(StakeManagerPlan(ch, cfg)) :
              c.fn = K("sm", "minStake") => c \in Range(StakeLimitsPlan(ch, cfg))
<1> DEFINE p1 == StakeTreasuryPlan(ch, cfg)
           p2 == StakeFeedsPlan(ch, cfg)
           p3 == StakeModulesPlan(ch, cfg)
           p4 == StakeLimitsPlan(ch, cfg)
           p5 == StakePercentPlan(ch, cfg)
           p6 == StakeSlashPlan(ch, cfg)
           e7 == Each(ch, cfg, Named("sm", <<"unbondingPeriod", "autoStakeTuning">>))
           g7 == Together(ch, cfg, K("sm", "autoStake"), AutoStake)
           p8 == StakeCapsPlan(ch, cfg)
           min == K("sm", "minStake")
           Other(c) == c.fn[1] = "sm" /\ c.fn[2] \notin {"feePct", "burnPct", "validatorRewardPct", "minStake"}
           OK(q) == /\ IsSeq(q) /\ Ordered(ch, q)
                    /\ \A c \in Range(q) : c.fn = min => c \in Range(p4)
<1>0. ASSUME NEW q, IsSeq(q), \A c \in Range(q) : Other(c) PROVE OK(q)
  <2>1. \A k \in PercentagesSM : k[2] \in {"feePct", "burnPct", "validatorRewardPct"}
    BY PercentSetters
  <2>2. PoolTreasury[1] = "fp" /\ min[2] = "minStake"
    BY DEF PoolTreasury, K
  <2>3. \A c \in Range(q) : c.fn \notin PercentagesSM /\ c.fn # PoolTreasury /\ c.fn # min
    BY <1>0, <2>1, <2>2
  <2>4. Ordered(ch, q)
    BY <2>3, PlainIsOrdered
  <2> QED BY <1>0, <2>3, <2>4
<1>00. ASSUME NEW keys, NEW c, Single(keys, ch, cfg, c) PROVE c.fn \in keys
  BY <1>00, LoneFields DEF Single
<1>000. ASSUME NEW n \in {"slashing", "autoStake"}, NEW c, NEW ks, c = Joint(ch, cfg, K("sm", n), ks)
        PROVE  Other(c)
  BY <1>000 DEF Joint, K
<1>1. IsSeq(p1) /\ \A c \in Range(p1) : Other(c)
  <2> DEFINE keys == {K("sm", "treasury")} \cup Each3("sm", "allow", Members)
  <2>1. \A k \in keys : k[1] = "sm" /\ k[2] \in {"treasury", "allow"}
    BY DEF K, Each3
  <2>2. K("sm", "treasury") \in keys /\ Each3("sm", "allow", Members) \subseteq keys
    OBVIOUS
  <2> HIDE DEF keys
  <2>3. IsSeq(p1) /\ \A c \in Range(p1) : Single(keys, ch, cfg, c)
    BY <2>2, TreasuryPlanFacts
  <2> QED BY <1>00, <2>1, <2>3
<1>2. ASSUME NEW ns, NEW N, IsSeq(ns), Range(ns) \subseteq N,
             N \cap {"jobRegistry", "disputeModule", "validationModule", "feePool"} = {},
             N \cap {"feePct", "burnPct", "validatorRewardPct", "minStake"} = {}
      PROVE  LET q == Each(ch, cfg, Named("sm", ns)) IN IsSeq(q) /\ \A c \in Range(q) : Other(c)
  <2>1. LET q == Each(ch, cfg, Named("sm", ns)) IN
        IsSeq(q) /\ \A c \in Range(q) : c.fn \in Names("sm", N)
    BY <1>2, StakeNamedFacts
  <2>2. \A k \in Names("sm", N) : k[1] = "sm" /\ k[2] \in N
    BY DEF Names
  <2> QED BY <1>2, <2>1, <2>2
<1>3. IsSeq(p2) /\ \A c \in Range(p2) : Other(c)
  <2> DEFINE ns == <<"pauser", "thermostat", "hamiltonianFeed">>
             N == {"pauser", "thermostat", "hamiltonianFeed"}
  <2>1. IsSeq(ns) /\ Range(ns) \subseteq N
    BY DEF IsSeq, Range
  <2>2. /\ N \cap {"jobRegistry", "disputeModule", "validationModule", "feePool"} = {}
        /\ N \cap {"feePct", "burnPct", "validatorRewardPct", "minStake"} = {}
    OBVIOUS
  <2>3. p2 = Each(ch, cfg, Named("sm", ns))
    BY DEF StakeFeedsPlan
  <2> HIDE DEF ns, N, p2, Other
  <2> QED BY <1>2, <2>1, <2>2, <2>3
<1>4. IsSeq(p3) /\ \A c \in Range(p3) : Other(c)
  <2> DEFINE ns == <<"jobRegistry", "disputeModule", "validationModule", "feePool">>
             N == {"jobRegistry", "disputeModule", "validationModule", "feePool"}
             keys == Names("sm", N)
  <2>1. IsSeq(ns) /\ Range(ns) \subseteq N
    BY DEF IsSeq, Range
  <2>2. StakeModules = Named("sm", ns)
    BY DEF StakeModules
  <2>3. \A k \in keys : k[1] = "sm" /\ k[2] \notin {"feePct", "burnPct", "validatorRewardPct", "minStake"}
    BY DEF Names
  <2> HIDE DEF ns, N
  <2>4. IsSeq(StakeModules) /\ Range(StakeModules) \subseteq keys
    BY <2>1, <2>2, NamedKeys
  <2> HIDE DEF keys
  <2>5. IsSeq(p3) /\ \A c \in Range(p3) : Single(keys, ch, cfg, c)
    BY <2>4, EachSinglesWithout DEF StakeModulesPlan
  <2> QED BY <1>00, <2>3, <2>5
<1>5. OK(p4)
  <2>1. IsSeq(p4) /\ \A c \in Range(p4) : c.fn[1] = "sm" /\ c.fn[2] \in {"minStake", "maxStake", "recommendations"}
    <3> DEFINE rec == Recommend(ch, cfg)
               min1 == IF rec # <<>> /\ K("sm", "recMin") \in DOMAIN cfg THEN <<>>
                       ELSE One(ch, cfg, K("sm", "minStake"))
               max1 == One(ch, cfg, K("sm", "maxStake"))
               Named3(c) == c.fn[1] = "sm" /\ c.fn[2] \in {"minStake", "maxStake", "recommendations"}
    <3>1. IsSeq(rec) /\ \A c \in Range(rec) : Named3(c)
      BY RecommendFacts DEF Recommending, Joint, K
    <3>2. ASSUME NEW n \in {"minStake", "maxStake"}
          PROVE  LET q == One(ch, cfg, K("sm", n)) IN IsSeq(q) /\ \A c \in Range(q) : Named3(c)
      <4>1. LET q == One(ch, cfg, K("sm", n)) IN IsSeq(q) /\ \A c \in Range(q) : c.fn = K("sm", n)
        BY OneFacts, LoneFields
      <4> QED BY <4>1 DEF K
    <3>3. IsSeq(min1) /\ \A c \in Range(min1) : Named3(c)
      BY <3>2, EmptyIsSeq
    <3>4. IsSeq(max1) /\ \A c \in Range(max1) : Named3(c)
      BY <3>2
    <3>5. StakeLimitsPlan(ch, cfg) = (rec \o min1) \o max1
      BY DEF StakeLimitsPlan
    <3> HIDE DEF rec, min1, max1, Named3
    <3>6. IsSeq(rec \o min1) /\ Range(rec \o min1) = Range(rec) \cup Range(min1)
      BY <3>1, <3>3, ConcatIsSeq
    <3>7. /\ IsSeq((rec \o min1) \o max1)
          /\ Range((rec \o min1) \o max1) = Range(rec \o min1) \cup Range(max1)
      BY <3>4, <3>6, ConcatIsSeq
    <3>8. \A c \in Range((rec \o min1) \o max1) : Named3(c)
      BY <3>1, <3>3, <3>4, <3>6, <3>7
    <3> QED BY <3>5, <3>7, <3>8 DEF Named3
  <2>2. PoolTreasury[1] = "fp"
    BY DEF PoolTreasury, K
  <2>3. \A k \in PercentagesSM : k[2] \in {"feePct", "burnPct", "validatorRewardPct"}
    BY PercentSetters
  <2>4. \A c \in Range(p4) : c.fn \notin PercentagesSM /\ c.fn # PoolTreasury
    BY <2>1, <2>2, <2>3
  <2>5. Ordered(ch, p4)
    BY <2>4, PlainIsOrdered
  <2> QED BY <2>1, <2>5
<1>6. OK(p5)
  <2>1. \A k \in PercentagesSM : k # min
    BY PercentSetters DEF K
  <2> QED BY <2>1, PercentPlanFacts
<1>7. IsSeq(p6) /\ \A c \in Range(p6) : Other(c)
  <2> HIDE DEF Other
  <2> QED BY <1>000, TogetherAsked DEF StakeSlashPlan, SlashKeys
<1>8. IsSeq(e7) /\ \A c \in Range(e7) : Other(c)
  <2> DEFINE ns == <<"unbondingPeriod", "autoStakeTuning">>
             N == {"unbondingPeriod", "autoStakeTuning"}
  <2>1. IsSeq(ns) /\ Range(ns) \subseteq N
    BY DEF IsSeq, Range
  <2>2. /\ N \cap {"jobRegistry", "disputeModule", "validationModule", "feePool"} = {}
        /\ N \cap {"feePct", "burnPct", "validatorRewardPct", "minStake"} = {}
    OBVIOUS
  <2>3. e7 = Each(ch, cfg, Named("sm", ns))
    OBVIOUS
  <2> HIDE DEF ns, N, e7, Other
  <2> QED BY <1>2, <2>1, <2>2, <2>3
<1>9. IsSeq(g7) /\ \A c \in Range(g7) : Other(c)
  <2> HIDE DEF Other
  <2> QED BY <1>000, TogetherAsked
<1>10. IsSeq(p8) /\ \A c \in Range(p8) : Other(c)
  <2> DEFINE ns == <<"maxAGITypes", "maxTotalPayoutPct">>
             N == {"maxAGITypes", "maxTotalPayoutPct"}
  <2>1. IsSeq(ns) /\ Range(ns) \subseteq N
    BY DEF IsSeq, Range
  <2>2. /\ N \cap {"jobRegistry", "disputeModule", "validationModule", "feePool"} = {}
        /\ N \cap {"feePct", "burnPct", "validatorRewardPct", "minStake"} = {}
    OBVIOUS
  <2>3. p8 = Each(ch, cfg, Named("sm", ns))
    BY DEF StakeCapsPlan
  <2> HIDE DEF ns, N, p8, Other
  <2> QED BY <1>2, <2>1, <2>2, <2>3
<1>11. StakeManagerPlan(ch, cfg) =
         ((((((p1 \o p2) \o p3) \o p4) \o p5) \o p6) \o (e7 \o g7)) \o p8
  BY DEF StakeManagerPlan, StakeAutoPlan
<1> HIDE DEF Other
<1>12. OK(p1) /\ OK(p2) /\ OK(p3) /\ OK(p6) /\ OK(e7) /\ OK(g7) /\ OK(p8)
  BY <1>0, <1>1, <1>3, <1>4, <1>7, <1>8, <1>9, <1>10
<1> HIDE DEF p1, p2, p3, p4, p5, p6, e7, g7, p8, min
<1>13. ASSUME NEW q, NEW r, OK(q), OK(r) PROVE OK(q \o r)
  <2>1. IsSeq(q \o r) /\ Ordered(ch, q \o r) /\ Range(q \o r) = Range(q) \cup Range(r)
    <3>1. IsSeq(q) /\ IsSeq(r) /\ Ordered(ch, q) /\ Ordered(ch, r)
      BY <1>13
    <3> QED BY ONLY <3>1, OrderedConcat
  <2> QED BY <1>13, <2>1
<1> HIDE DEF OK
<1> DEFINE q2 == p1 \o p2
           q3 == q2 \o p3
           q4 == q3 \o p4
           q5 == q4 \o p5
           q6 == q5 \o p6
           r7 == e7 \o g7
           q7 == q6 \o r7
<1>14. OK(q2) /\ OK(r7)
  BY <1>12, <1>13
<1> HIDE DEF q2, r7
<1>15. OK(q3)
  BY <1>12, <1>13, <1>14
<1> HIDE DEF q3
<1>16. OK(q4)
  BY <1>5, <1>13, <1>15
<1> HIDE DEF q4
<1>17. OK(q5)
  BY <1>6, <1>13, <1>16
<1> HIDE DEF q5
<1>18. OK(q6)
  BY <1>12, <1>13, <1>17
<1> HIDE DEF q6
<1>19. OK(q7)
  BY <1>13, <1>14, <1>18
<1> HIDE DEF q7
<1>20. OK(q7 \o p8)
  BY <1>12, <1>13, <1>19
<1>21. StakeManagerPlan(ch, cfg) = q7 \o p8
  BY <1>11 DEF q2, q3, q4, q5, q6, r7, q7
<1> QED BY <1>20, <1>21 DEF OK, p4, min

\* The percentages go out in the order of their changes, those that fall first.
LEMMA PercentPlanOrdered ==
  ASSUME NEW ch, NEW cfg, cfg = StakeFile,
         \A k \in PercentagesSM : Goal(ch, k) \in Nat /\ ch[k] \in Nat
  PROVE  Ordered(ch, StakePercentPlan(ch, cfg))
<1> DEFINE ns == <<"feePct", "burnPct", "validatorRewardPct">>
           N == {"feePct", "burnPct", "validatorRewardPct"}
           calls == Each(ch, cfg, Named("sm", ns))
           S == Range(calls)
           Below(c) == {d \in ToSet(calls) : Delta(ch, d) < Delta(ch, c)}
           Rank(c) == Cardinality(Below(c))
           parts == [r \in DOMAIN calls |-> Among(calls, {c \in ToSet(calls) : Rank(c) + 1 = r})]
<1>1. IsSeq(ns) /\ Range(ns) \subseteq N /\ \A x \in N : x \in Range(ns)
  BY DEF IsSeq, Range
<1>2. Names("sm", N) = PercentagesSM
  BY DEF Names, PercentagesSM
<1>3. StakePercentPlan(ch, cfg) = FlattenSeq(parts)
  BY DEF StakePercentPlan
<1> HIDE DEF N, ns
<1>4. IsSeq(Named("sm", ns)) /\ \A k : k \in Range(Named("sm", ns)) <=> k \in PercentagesSM
  <2>1. /\ IsSeq(Named("sm", ns))
        /\ \A k \in Range(Named("sm", ns)) : \E n \in Range(ns) : k = <<"sm", n>>
        /\ \A n \in Range(ns) : <<"sm", n>> \in Range(Named("sm", ns))
    BY <1>1, NamedFacts
  <2>2. \A k : k \in PercentagesSM <=> \E n \in N : k = <<"sm", n>>
    BY <1>2 DEF Names
  <2> QED BY <1>1, <2>1, <2>2
<1>5. /\ IsSeq(calls)
      /\ \A c \in S : \E k \in PercentagesSM : Differs(ch, cfg, k) /\ c = Lone(cfg, k)
      /\ \A k \in PercentagesSM : Differs(ch, cfg, k) => Lone(cfg, k) \in S
  BY <1>4, EachFacts
<1> HIDE DEF calls
<1>6. ToSet(calls) = S
  BY RangeIsToSet
<1>7. Len(calls) \in Nat /\ DOMAIN calls = 1..Len(calls)
  BY <1>5, Entries1
<1> DEFINE n == Len(calls)
<1>8. /\ DOMAIN parts = 1..n /\ Len(parts) = n /\ parts = [i \in 1..n |-> parts[i]]
      /\ \A r \in 1..n : parts[r] = Among(calls, {c \in ToSet(calls) : Rank(c) + 1 = r})
  BY <1>7
<1>9. \A c \in S : /\ c.fn \in PercentagesSM /\ Delta(ch, c) = Goal(ch, c.fn) - ch[c.fn]
                   /\ Goal(ch, c.fn) # ch[c.fn]
  <2> SUFFICES ASSUME NEW c \in S
               PROVE  /\ c.fn \in PercentagesSM /\ Delta(ch, c) = Goal(ch, c.fn) - ch[c.fn]
                      /\ Goal(ch, c.fn) # ch[c.fn]
    OBVIOUS
  <2>1. PICK k \in PercentagesSM : Differs(ch, cfg, k) /\ c = Lone(cfg, k)
    BY <1>5
  <2>2. c.fn = k /\ c.set[k] = cfg[k]
    <3>1. c.fn = k /\ c.set = Only(k, cfg[k])
      BY <2>1, LoneFields
    <3> QED BY <3>1, OnlyFacts DEF Only
  <2>3. k \in DOMAIN StakeFile /\ cfg[k] = Goal(ch, k) /\ cfg[k] # ch[k]
    BY <2>1 DEF Differs, Goal, Target
  <2> QED BY <2>2, <2>3 DEF Delta
<1>10. IsFiniteSet(S)
  <2> DEFINE f == Lone(cfg, K("sm", "feePct"))
             b == Lone(cfg, K("sm", "burnPct"))
             v == Lone(cfg, K("sm", "validatorRewardPct"))
  <2>1. \A k \in PercentagesSM : k = K("sm", "feePct") \/ k = K("sm", "burnPct") \/ k = K("sm", "validatorRewardPct")
    BY DEF PercentagesSM, K
  <2>2. S \subseteq (({} \cup {f}) \cup {b}) \cup {v}
    BY <1>5, <2>1
  <2> HIDE DEF f, b, v
  <2>3. IsFiniteSet((({} \cup {f}) \cup {b}) \cup {v})
    BY FS_EmptySet, FS_AddElement
  <2> HIDE DEF S
  <2> QED BY <2>2, <2>3, FS_Subset
<1>11. \A c \in S : IsFiniteSet(Below(c)) /\ Rank(c) \in Nat
  <2> SUFFICES ASSUME NEW c \in S PROVE IsFiniteSet(Below(c)) /\ Rank(c) \in Nat
    OBVIOUS
  <2>1. Below(c) \subseteq S
    BY <1>6
  <2> HIDE DEF Below, S
  <2> QED BY <1>10, <2>1, FS_Subset, FS_CardinalityType DEF Rank
<1>12. ASSUME NEW c \in S, NEW d \in S, Delta(ch, d) < 0, 0 < Delta(ch, c)
       PROVE  Rank(d) < Rank(c)
  <2>1. Delta(ch, c) \in Int /\ Delta(ch, d) \in Int /\ \A e \in S : Delta(ch, e) \in Int
    BY <1>9
  <2>2. \A e \in Below(d) : e \in Below(c)
    BY <1>6, <1>12, <2>1
  <2>3. d \in Below(c) /\ d \notin Below(d)
    BY <1>6, <1>12, <2>1
  <2>4. IsFiniteSet(Below(c)) /\ Below(d) \subseteq Below(c) /\ Below(d) # Below(c)
    BY <1>11, <2>2, <2>3
  <2> HIDE DEF Below, S
  <2>5. /\ Cardinality(Below(d)) <= Cardinality(Below(c))
        /\ Cardinality(Below(d)) # Cardinality(Below(c))
    BY <2>4, FS_Subset
  <2>6. Cardinality(Below(d)) \in Nat /\ Cardinality(Below(c)) \in Nat
    BY <1>11 DEF Rank
  <2> QED BY <2>5, <2>6 DEF Rank
<1> HIDE DEF Rank, Below, parts
<1>13. \A r \in 1..n : /\ IsSeq(parts[r])
                       /\ \A c : c \in Range(parts[r]) <=> (c \in S /\ Rank(c) + 1 = r)
  <2> SUFFICES ASSUME NEW r \in 1..n
               PROVE  IsSeq(parts[r]) /\ \A c : c \in Range(parts[r]) <=> (c \in S /\ Rank(c) + 1 = r)
    OBVIOUS
  <2> DEFINE X == {c \in ToSet(calls) : Rank(c) + 1 = r}
  <2>1. parts[r] = Among(calls, X)
    BY <1>8
  <2>2. \A c : c \in X <=> (c \in S /\ Rank(c) + 1 = r)
    BY <1>6
  <2> HIDE DEF X
  <2>3. IsSeq(parts[r]) /\ Range(parts[r]) = S \cap X
    BY <1>5, <2>1, AmongFacts
  <2> QED BY <2>2, <2>3
<1>14. ASSUME NEW i \in 1..n
       PROVE  Backed(ch, {} \cup UNION {Fns(parts[q]) : q \in 1..(i - 1)}, parts[i])
  <2> DEFINE U == {} \cup UNION {Fns(parts[q]) : q \in 1..(i - 1)}
  <2>1. ASSUME NEW c \in Range(parts[i]), NEW k \in Needs(ch, c) PROVE k \in U
    <3>1. c \in S /\ Rank(c) + 1 = i
      BY <1>13, <2>1
    <3>2. c.fn \in PercentagesSM /\ c.fn # PoolTreasury
      BY <1>9, <3>1, PercentSetters
    <3>3. k \in PercentagesSM /\ Rises(ch, c.fn) /\ Falls(ch, k)
      BY <2>1, <3>2 DEF Needs
    <3>4. Differs(ch, cfg, k)
      <4>1. Goal(ch, k) # ch[k]
        BY <3>3 DEF Falls
      <4> QED BY <4>1 DEF Differs, Goal, Target
    <3> DEFINE d == Lone(cfg, k)
    <3>5. d \in S /\ d.fn = k
      BY <1>5, <3>3, <3>4, LoneFields
    <3> HIDE DEF d
    <3>6. Delta(ch, d) < 0 /\ 0 < Delta(ch, c)
      <4>1. /\ Goal(ch, k) \in Nat /\ ch[k] \in Nat /\ Goal(ch, c.fn) \in Nat /\ ch[c.fn] \in Nat
            /\ ch[k] > Goal(ch, k) /\ Goal(ch, c.fn) > ch[c.fn]
        BY <3>2, <3>3 DEF Rises, Falls
      <4>2. Delta(ch, d) = Goal(ch, k) - ch[k] /\ Delta(ch, c) = Goal(ch, c.fn) - ch[c.fn]
        BY <1>9, <3>1, <3>5
      <4> QED BY <4>1, <4>2
    <3>7. Rank(d) < Rank(c) /\ Rank(d) \in Nat /\ Rank(c) \in Nat
      BY <1>11, <1>12, <3>1, <3>5, <3>6
    <3>8. Rank(d) + 1 \in 1..(i - 1) /\ Rank(d) + 1 \in 1..n
      BY <1>7, <3>1, <3>7
    <3>9. d \in Range(parts[Rank(d) + 1])
      BY <1>13, <3>5, <3>8
    <3>10. k \in Fns(parts[Rank(d) + 1])
      BY <3>5, <3>9 DEF Fns, Range
    <3> QED BY <3>8, <3>10
  <2> HIDE DEF U
  <2>2. Backed(ch, U, parts[i])
    BY <2>1 DEF Backed, Range
  <2> QED BY <2>2 DEF U
<1> HIDE DEF S
<1>15. Backed(ch, {}, FlattenSeq(parts))
  BY <1>7, <1>8, <1>13, <1>14, BackedFlatten
<1> QED BY <1>3, <1>15 DEF Ordered

\* Which parser reads which parameter.
PercentNames == {"feePct", "validatorRewardPct", "burnPct", "employerSlashPct", "treasurySlashPct",
                 "increasePct", "decreasePct"}
AmountNames == {"minStake", "maxStake", "recMin", "recMax", "floor", "ceil", "maxJobReward"}
UnsignedNames == {"kappa", "maxProofs", "temperature"}
BigIntNames == {"systemTemperature", "minTemp", "maxTemp", "integralMin", "integralMax", "kp", "ki",
                "kd", "wEmission", "wBacklog", "wSla", "mu", "baseline"}
OtherNames ==
  {"jobStake", "minAgentStake", "maxAGITypes", "maxTotalPayoutPct", "tempThreshold",
   "hamThreshold", "share", "treasury", "feePool", "thermostat", "pauser", "jobRegistry",
   "disputeModule", "validationModule", "hamiltonianFeed", "stakeManager", "governance",
   "taxPolicy", "address", "platformRegistry", "jobRouter", "autoStakeTuning", "rewardRole", "roleTemp",
   "policyURI", "acknowledgement", "bumpVersion", "refresh"}

LEMMA Kinds ==
  /\ \A k \in Percents : k[2] \in PercentNames
  /\ \A k \in Amounts : k[2] \in AmountNames
  /\ \A k \in Unsigned : k[2] \in UnsignedNames
  /\ \A k \in BigInts : k[2] \in BigIntNames
  /\ \A k \in Stakes \cup Caps \cup Signed \cup Shares \cup Addresses \cup RoleTemps \cup Texts :
       k[2] \in OtherNames
  /\ \A k \in {TaxPolicyKey, K("sm", "autoStakeTuning"), K("fp", "rewardRole"),
               K("tp", "bumpVersion"), K("sp", "refresh")} : k[2] \in OtherNames
  /\ \A k \in PauseKeys : k[2] \in DOMAIN Scalars
<1>1. \A k \in Percents : k[2] \in PercentNames
  BY DEF Percents, PercentagesJR, PercentagesSM, K, PercentNames
<1>2. \A k \in Amounts : k[2] \in AmountNames
  BY DEF Amounts, K, AmountNames
<1>3. \A k \in Unsigned : k[2] \in UnsignedNames
  BY DEF Unsigned, K, UnsignedNames
<1>4. \A k \in BigInts : k[2] \in BigIntNames
  <2>1. Scalars.th = {"systemTemperature", "minTemp", "maxTemp", "integralMin", "integralMax",
                      "kp", "ki", "kd", "wEmission", "wBacklog", "wSla"}
    BY DEF Scalars
  <2>2. \A k \in BigInts : k[2] \in Scalars.th \cup {"mu", "baseline"}
    BY DEF BigInts, K
  <2> QED BY <2>1, <2>2 DEF BigIntNames
<1>5. \A k \in Stakes \cup Caps \cup Signed \cup Shares : k[2] \in OtherNames
  BY DEF Stakes, Caps, Signed, Shares, K, OtherNames
<1>6. \A k \in Addresses : k[2] \in OtherNames
  BY DEF Addresses, K, OtherNames
<1>7. \A k \in RoleTemps \cup Texts : k[2] \in OtherNames
  BY DEF RoleTemps, Texts, K, OtherNames
<1>8. \A k \in {TaxPolicyKey, K("sm", "autoStakeTuning"), K("fp", "rewardRole"),
                K("tp", "bumpVersion"), K("sp", "refresh")} : k[2] \in OtherNames
  BY DEF TaxPolicyKey, K, OtherNames
<1>9. \A k \in PauseKeys : k[2] \in DOMAIN Scalars
  BY ChainAssumption DEF PauseKeys
<1> QED BY <1>1, <1>2, <1>3, <1>4, <1>5, <1>6, <1>7, <1>8, <1>9

LEMMA KindsDiffer ==
  /\ DOMAIN Scalars \cap (PercentNames \cup AmountNames \cup UnsignedNames \cup BigIntNames
                          \cup OtherNames \cup ListNames \cup {"unbondingPeriod"}) = {}
  /\ PercentNames \cap (AmountNames \cup UnsignedNames \cup BigIntNames \cup OtherNames
                        \cup ListNames \cup {"unbondingPeriod"}) = {}
  /\ AmountNames \cap (UnsignedNames \cup BigIntNames \cup OtherNames \cup ListNames
                       \cup {"unbondingPeriod"}) = {}
  /\ UnsignedNames \cap (BigIntNames \cup OtherNames \cup ListNames \cup {"unbondingPeriod"}) = {}
  /\ BigIntNames \cap (OtherNames \cup ListNames \cup {"unbondingPeriod"}) = {}
  /\ OtherNames \cap (ListNames \cup {"unbondingPeriod"}) = {}
  /\ "unbondingPeriod" \notin ListNames
<1>1. DOMAIN Scalars = {"jr", "sm", "fp", "pi", "tp", "re", "th", "sp"}
  BY DEF Scalars
<1>2. DOMAIN Scalars \cap (PercentNames \cup AmountNames \cup UnsignedNames \cup BigIntNames
                          \cup OtherNames \cup ListNames \cup {"unbondingPeriod"}) = {}
  BY <1>1 DEF PercentNames, AmountNames, UnsignedNames, BigIntNames, OtherNames, ListNames
<1>3. PercentNames \cap (AmountNames \cup UnsignedNames \cup BigIntNames \cup OtherNames
                        \cup ListNames \cup {"unbondingPeriod"}) = {}
  BY DEF PercentNames, AmountNames, UnsignedNames, BigIntNames, OtherNames, ListNames
<1>4. AmountNames \cap (UnsignedNames \cup BigIntNames \cup OtherNames \cup ListNames
                       \cup {"unbondingPeriod"}) = {}
  BY DEF AmountNames, UnsignedNames, BigIntNames, OtherNames, ListNames
<1>5. UnsignedNames \cap (BigIntNames \cup OtherNames \cup ListNames \cup {"unbondingPeriod"}) = {}
  BY DEF UnsignedNames, BigIntNames, OtherNames, ListNames
<1>6. BigIntNames \cap (OtherNames \cup ListNames \cup {"unbondingPeriod"}) = {}
  BY DEF BigIntNames, OtherNames, ListNames
<1>7. OtherNames \cap (ListNames \cup {"unbondingPeriod"}) = {} /\ "unbondingPeriod" \notin ListNames
  BY DEF OtherNames, ListNames
<1> QED BY <1>2, <1>3, <1>4, <1>5, <1>6, <1>7

LEMMA Readings ==
  ASSUME NEW raw, NEW k
  PROVE  /\ k \in Percents => ReadOwn(raw, k) = ParsePercentage(Given(raw, k))
         /\ k \in Amounts => ReadOwn(raw, k) = ParseTokenValue(Given(raw, k), Given(raw, InTokens(k)))
         /\ k \in Unsigned => ReadOwn(raw, k) = ParseUnsigned(Given(raw, k))
         /\ k \in BigInts => ReadOwn(raw, k) = ParseBigInt(Given(raw, k))
         /\ k[2] \in ListNames => ReadOwn(raw, k) = Membership(Given(raw, k))
         /\ k[2] = "unbondingPeriod" => ReadOwn(raw, k) = ParseInteger(Given(raw, k))
<1> DEFINE N == k[2]
<1> HIDE DEF N
<1>1. /\ N \notin PercentNames => k \notin Percents
      /\ N \notin AmountNames => k \notin Amounts
      /\ N \notin UnsignedNames => k \notin Unsigned
      /\ N \notin BigIntNames => k \notin BigInts
      /\ N \notin OtherNames =>
           /\ k \notin Stakes /\ k \notin Caps /\ k \notin Signed /\ k \notin Shares
           /\ k \notin Addresses /\ k \notin RoleTemps /\ k \notin Texts
           /\ k # TaxPolicyKey /\ k # K("sm", "autoStakeTuning") /\ k # K("fp", "rewardRole")
           /\ k # K("tp", "bumpVersion") /\ k # K("sp", "refresh")
      /\ N \notin DOMAIN Scalars => k \notin PauseKeys
  BY Kinds DEF N
<1>2. /\ k \in Percents => N \in PercentNames
      /\ k \in Amounts => N \in AmountNames
      /\ k \in Unsigned => N \in UnsignedNames
      /\ k \in BigInts => N \in BigIntNames
  BY Kinds DEF N
<1>3. k \in Percents => ReadOwn(raw, k) = ParsePercentage(Given(raw, k))
  <2> SUFFICES ASSUME k \in Percents PROVE ReadOwn(raw, k) = ParsePercentage(Given(raw, k))
    OBVIOUS
  <2>1. /\ N \notin AmountNames /\ N \notin UnsignedNames /\ N \notin BigIntNames
        /\ N \notin OtherNames /\ N \notin DOMAIN Scalars /\ N \notin ListNames
    BY <1>2, KindsDiffer
  <2> QED BY <1>1, <2>1 DEF ReadOwn, N
<1>4. k \in Amounts => ReadOwn(raw, k) = ParseTokenValue(Given(raw, k), Given(raw, InTokens(k)))
  <2> SUFFICES ASSUME k \in Amounts
               PROVE  ReadOwn(raw, k) = ParseTokenValue(Given(raw, k), Given(raw, InTokens(k)))
    OBVIOUS
  <2>1. /\ N \notin PercentNames /\ N \notin UnsignedNames /\ N \notin BigIntNames
        /\ N \notin OtherNames /\ N \notin DOMAIN Scalars /\ N \notin ListNames
    BY <1>2, KindsDiffer
  <2> QED BY <1>1, <2>1 DEF ReadOwn, N
<1>5. k \in Unsigned => ReadOwn(raw, k) = ParseUnsigned(Given(raw, k))
  <2> SUFFICES ASSUME k \in Unsigned PROVE ReadOwn(raw, k) = ParseUnsigned(Given(raw, k))
    OBVIOUS
  <2>1. /\ N \notin PercentNames /\ N \notin AmountNames /\ N \notin BigIntNames
        /\ N \notin OtherNames /\ N \notin DOMAIN Scalars /\ N \notin ListNames
    BY <1>2, KindsDiffer
  <2> QED BY <1>1, <2>1 DEF ReadOwn, N
<1>6. k \in BigInts => ReadOwn(raw, k) = ParseBigInt(Given(raw, k))
  <2> SUFFICES ASSUME k \in BigInts PROVE ReadOwn(raw, k) = ParseBigInt(Given(raw, k))
    OBVIOUS
  <2>1. /\ N \notin PercentNames /\ N \notin AmountNames /\ N \notin UnsignedNames
        /\ N \notin OtherNames /\ N \notin DOMAIN Scalars /\ N \notin ListNames
    BY <1>2, KindsDiffer
  <2> QED BY <1>1, <2>1 DEF ReadOwn, N
<1>7. N \in ListNames => ReadOwn(raw, k) = Membership(Given(raw, k))
  <2> SUFFICES ASSUME N \in ListNames PROVE ReadOwn(raw, k) = Membership(Given(raw, k))
    OBVIOUS
  <2>1. /\ N \notin PercentNames /\ N \notin AmountNames /\ N \notin UnsignedNames
        /\ N \notin BigIntNames /\ N \notin OtherNames /\ N \notin DOMAIN Scalars
    BY KindsDiffer
  <2> QED BY <1>1, <2>1 DEF ReadOwn, N
<1>8. N = "unbondingPeriod" => ReadOwn(raw, k) = ParseInteger(Given(raw, k))
  <2> SUFFICES ASSUME N = "unbondingPeriod" PROVE ReadOwn(raw, k) = ParseInteger(Given(raw, k))
    OBVIOUS
  <2>1. /\ N \notin PercentNames /\ N \notin AmountNames /\ N \notin UnsignedNames
        /\ N \notin BigIntNames /\ N \notin OtherNames /\ N \notin DOMAIN Scalars /\ N \notin ListNames
    BY KindsDiffer
  <2> QED BY <1>1, <2>1 DEF ReadOwn, N
<1> QED BY <1>3, <1>4, <1>5, <1>6, <1>7, <1>8 DEF N

\* What the parsers give back.
LEMMA ParsedNumbers ==
  ASSUME NEW v, NEW w
  PROVE  /\ ParsePercentage(v) \in (0 .. 100) \cup {Skip, Throw}
         /\ ParseInteger(v) \in Nat \cup {Skip, Throw}
         /\ ParseTokenValue(v, w) \in Nat \cup {Skip, Throw}
         /\ ParseBigInt(v) \in Int \cup {Skip, Throw}
         /\ ParseUnsigned(v) \in Nat \cup {Skip, Throw}
         /\ Membership(v) \in BOOLEAN \cup {Skip}
<1>0. /\ Limit \in Nat /\ \A n \in Natural : n \in Nat /\ 10 * n \in Nat
      /\ \A n \in Integer : n \in Int /\ (n \notin -Limit .. -1 => n \in Nat)
  BY WordFacts DEF Natural, Integer
<1>1. ParsePercentage(v) \in (0 .. 100) \cup {Skip, Throw}
  BY WordFacts DEF ParsePercentage
<1>2. ASSUME NEW x PROVE ParseInteger(x) \in Nat \cup {Skip, Throw}
  <2>1. x \in Natural => x \notin {Null, Empty, Blank}
    BY <1>0, WordFacts
  <2> QED BY <1>0, <2>1 DEF ParseInteger
<1>3. ParseTokenValue(v, w) \in Nat \cup {Skip, Throw}
  <2>1. w \in Natural => w \notin {Null, Empty, Blank}
    BY <1>0, WordFacts
  <2> QED BY <1>0, <1>2, <2>1 DEF ParseTokenValue
<1>4. ParseBigInt(v) \in Integer \cup {Skip, Throw}
  <2>1. v \in Integer => v \notin {Null, Empty}
    BY <1>0, WordFacts
  <2> QED BY <2>1 DEF ParseBigInt
<1>5. ParseUnsigned(v) \in Nat \cup {Skip, Throw}
  BY <1>0, <1>4 DEF ParseUnsigned
<1>6. Membership(v) \in BOOLEAN \cup {Skip}
  BY WordFacts DEF Membership, Truthy
<1> QED BY <1>0, <1>1, <1>2, <1>3, <1>4, <1>5, <1>6

\* What a script other than update-economics finds in its file.
LEMMA ConfigNumbers ==
  ASSUME NEW s, s # "economics", NEW k \in DOMAIN Config(s)
  PROVE  /\ k \in Percents => Config(s)[k] \in 0 .. 100
         /\ k \in Amounts \/ k[2] = "unbondingPeriod" => Config(s)[k] \in Nat
         /\ k \in Unsigned => Config(s)[k] \in Nat
         /\ k \in BigInts => Config(s)[k] \in Int
         /\ k[2] \in ListNames => Config(s)[k] \in BOOLEAN
<1>1. Config(s)[k] = ReadOwn(files[s], k) /\ Config(s)[k] \notin {Skip, Throw}
  BY ConfigFacts DEF Read
<1> DEFINE x == Config(s)[k]
<1> HIDE DEF x
<1>2. x = ReadOwn(files[s], k) /\ x # Skip /\ x # Throw
  BY <1>1 DEF x
<1>3. k \in Percents => x \in 0 .. 100
  BY <1>2, Readings, ParsedNumbers
<1>4. k \in Amounts => x \in Nat
  BY <1>2, Readings, ParsedNumbers
<1>5. k[2] = "unbondingPeriod" => x \in Nat
  BY <1>2, Readings, ParsedNumbers
<1>6. k \in Unsigned => x \in Nat
  BY <1>2, Readings, ParsedNumbers
<1>7. k \in BigInts => x \in Int
  BY <1>2, Readings, ParsedNumbers
<1>8. k[2] \in ListNames => x \in BOOLEAN
  BY <1>2, Readings, ParsedNumbers
<1> QED BY <1>3, <1>4, <1>5, <1>6, <1>7, <1>8 DEF x

\* The pool's script does not ask to block its treasury.
LEMMA EntryIsAllowed ==
  ASSUME NEW ch, TreasuryGiven, ~FeePoolRefuses(ch, PoolFile), TreasuryEntry \in DOMAIN PoolFile
  PROVE  PoolFile[TreasuryEntry] = TRUE
<1>1. /\ PoolTreasury \in DOMAIN PoolFile /\ PoolFile[PoolTreasury] # Zero
      /\ TreasuryEntry = <<"fp", "allow", PoolFile[PoolTreasury]>>
  BY DEF TreasuryGiven, TreasuryEntry
<1>2. PoolFile[TreasuryEntry]
  BY <1>1 DEF FeePoolRefuses, PoolTreasury
<1>3. TreasuryEntry[2] \in ListNames
  BY <1>1 DEF ListNames
<1>4. TreasuryEntry \in DOMAIN Config("feePool")
  BY DEF PoolFile
<1>5. Config("feePool")[TreasuryEntry] \in BOOLEAN
  <2> DEFINE k == TreasuryEntry
  <2> HIDE DEF k
  <2>1. k \in DOMAIN Config("feePool") /\ k[2] \in ListNames
    BY <1>3, <1>4 DEF k
  <2>2. Config("feePool")[k] \in BOOLEAN
    BY <2>1, ConfigNumbers
  <2> QED BY <2>2 DEF k
<1> DEFINE b == PoolFile[TreasuryEntry]
<1>6. b /\ b \in BOOLEAN
  BY <1>2, <1>5 DEF PoolFile
<1> HIDE DEF b
<1>7. b = TRUE
  BY <1>6
<1> QED BY <1>7 DEF b

\* The pool's script allows its treasury before it sets it.
LEMMA PoolPlanOrdered ==
  ASSUME NEW ch, ~FeePoolRefuses(ch, PoolFile)
  PROVE  Ordered(ch, FeePoolAllowlist(ch, PoolFile) \o FeePoolPlan(ch, PoolFile)
                     \o FeePoolRewarders(ch, PoolFile))
<1> DEFINE cfg == PoolFile
           t == PoolTreasury
           a == IF t \in DOMAIN cfg THEN <<"fp", "allow", cfg[t]>> ELSE t
           asked == Each(ch, cfg, PerAccount("fp", "allow"))
           more == One(ch, Only(a, TRUE), a)
           p1 == FeePoolAllowlist(ch, cfg)
           p2 == FeePoolPlan(ch, cfg)
           p3 == FeePoolRewarders(ch, cfg)
           extra == t \in DOMAIN cfg /\ cfg[t] # Zero /\ a \notin DOMAIN cfg
<1>1. ~FeePoolRefuses(ch, cfg)
  OBVIOUS
<1>2. p1 = IF extra THEN asked \o more ELSE asked
  BY DEF FeePoolAllowlist, PoolTreasury
<1>3. ASSUME NEW l \in {"allow", "rewarder"}
      PROVE  LET p == Each(ch, cfg, PerAccount("fp", l)) IN
             /\ IsSeq(p)
             /\ \A c \in Range(p) : c.fn[1] = "fp" /\ c.fn[2] = l
             /\ \A x \in Members : Differs(ch, cfg, <<"fp", l, x>>) => <<"fp", l, x>> \in Fns(p)
  <2> DEFINE ks == PerAccount("fp", l)
             p == Each(ch, cfg, ks)
  <2>1. IsSeq(ks) /\ Range(ks) = Each3("fp", l, Members)
    BY ListKeys
  <2> HIDE DEF ks, cfg
  <2>2. /\ IsSeq(p)
        /\ \A c \in Range(p) : \E k \in Range(ks) : Differs(ch, cfg, k) /\ c = Lone(cfg, k)
        /\ \A k \in Range(ks) : Differs(ch, cfg, k) => Lone(cfg, k) \in Range(p)
    BY <2>1, EachFacts
  <2> HIDE DEF p
  <2>3. \A c \in Range(p) : c.fn[1] = "fp" /\ c.fn[2] = l
    <3>1. \A k \in Range(ks) : k[1] = "fp" /\ k[2] = l
      BY <2>1 DEF Each3
    <3> QED BY <2>2, <3>1, LoneFields
  <2>4. \A x \in Members : Differs(ch, cfg, <<"fp", l, x>>) => <<"fp", l, x>> \in Fns(p)
    <3> SUFFICES ASSUME NEW x \in Members, Differs(ch, cfg, <<"fp", l, x>>)
                 PROVE  <<"fp", l, x>> \in Fns(p)
      OBVIOUS
    <3>1. <<"fp", l, x>> \in Range(ks)
      BY <2>1 DEF Each3
    <3>2. PICK i \in DOMAIN p : p[i] = Lone(cfg, <<"fp", l, x>>)
      BY <2>2, <3>1 DEF Range
    <3>3. p[i].fn = <<"fp", l, x>>
      BY <3>2, LoneFields
    <3> QED BY <3>3 DEF Fns
  <2> QED BY <2>2, <2>3, <2>4 DEF p, ks
<1>4. IsSeq(more) /\ (extra => \A c \in Range(more) : c.fn[1] = "fp" /\ c.fn[2] = "allow")
      /\ (extra /\ ch[a] # TRUE => a \in Fns(more))
  <2>1. extra => a[1] = "fp" /\ a[2] = "allow"
    OBVIOUS
  <2> HIDE DEF a, cfg, t
  <2>2. /\ IsSeq(more)
        /\ \A c \in Range(more) : c = Lone(Only(a, TRUE), a)
        /\ Differs(ch, Only(a, TRUE), a) => Lone(Only(a, TRUE), a) \in Range(more)
    BY OneFacts
  <2>3. Lone(Only(a, TRUE), a).fn = a
    BY LoneFields
  <2>4. ch[a] # TRUE => Differs(ch, Only(a, TRUE), a)
    BY DEF Differs, Only
  <2> HIDE DEF more
  <2>5. ch[a] # TRUE => a \in Fns(more)
    BY <2>2, <2>3, <2>4 DEF Fns, Range
  <2> QED BY <2>1, <2>2, <2>3, <2>5
<1>5. IsSeq(asked) /\ \A c \in Range(asked) : c.fn[1] = "fp" /\ c.fn[2] = "allow"
  BY <1>3
<1>6. \A x \in Members : Differs(ch, cfg, <<"fp", "allow", x>>) => <<"fp", "allow", x>> \in Fns(asked)
  BY <1>3
<1> DEFINE ns == <<"stakeManager", "rewardRole", "burnPct", "treasury", "governance", "pauser",
                   "taxPolicy">>
<1>7. IsSeq(p2) /\ \A c \in Range(p2) : c.fn[1] = "fp"
  <2>1. IsSeq(ns) /\ Range(ns) \subseteq Scalars.fp
    BY DEF IsSeq, Range, Scalars
  <2>2. p2 = Each(ch, Without(cfg, FeePoolAddresses), Named("fp", ns))
    BY DEF FeePoolPlan
  <2> DEFINE keys == Names("fp", Scalars.fp)
  <2> HIDE DEF ns
  <2>3. IsSeq(Named("fp", ns)) /\ Range(Named("fp", ns)) \subseteq keys
    BY <2>1, NamedKeys
  <2>4. \A k \in keys : k[1] = "fp"
    BY DEF Names
  <2> HIDE DEF keys, cfg, p2
  <2>5. IsSeq(p2) /\ \A c \in Range(p2) : c.fn \in Range(Named("fp", ns))
    BY <2>2, <2>3, EachSinglesWithout
  <2> QED BY <2>3, <2>4, <2>5
<1>8. IsSeq(p3) /\ \A c \in Range(p3) : c.fn[1] = "fp" /\ c.fn[2] = "rewarder"
  BY <1>3 DEF FeePoolRewarders
<1>9. \A k \in PercentagesSM \cup {t} : k[1] # "fp" \/ k[2] = "treasury"
  <2>1. t[2] = "treasury"
    BY DEF PoolTreasury, K
  <2> QED BY <2>1, PercentSetters
<1>10. /\ FeePoolAllowlist(ch, cfg) \o FeePoolPlan(ch, cfg) \o FeePoolRewarders(ch, cfg) = (p1 \o p2) \o p3
  OBVIOUS
<1>11. \/ ~TreasuryGiven \/ ch[TreasuryEntry] = TRUE
       \/ /\ TreasuryGiven
          /\ TreasuryEntry \in (IF extra THEN Fns(asked) \cup Fns(more) ELSE Fns(asked))
  <2> SUFFICES ASSUME TreasuryGiven, ch[TreasuryEntry] # TRUE
               PROVE  TreasuryEntry \in (IF extra THEN Fns(asked) \cup Fns(more) ELSE Fns(asked))
    OBVIOUS
  <2>1. t \in DOMAIN cfg /\ cfg[t] # Zero /\ cfg[t] \in Members /\ a = TreasuryEntry
    BY DEF TreasuryGiven, TreasuryEntry
  <2>2. CASE a \notin DOMAIN cfg
    <3>1. extra
      BY <2>1, <2>2
    <3> HIDE DEF extra, a, asked, more
    <3> QED BY <1>4, <2>1, <3>1
  <2>3. CASE a \in DOMAIN cfg
    <3>1. cfg[a] = TRUE
      BY <1>1, <2>1, <2>3, EntryIsAllowed
    <3>2. Differs(ch, cfg, TreasuryEntry)
      BY <2>1, <2>3, <3>1 DEF Differs
    <3>3. TreasuryEntry = <<"fp", "allow", cfg[t]>>
      BY DEF TreasuryEntry
    <3>4. TreasuryEntry \in Fns(asked)
      BY <1>6, <2>1, <3>2, <3>3
    <3>5. ~extra
      BY <2>3
    <3> HIDE DEF extra, asked, more
    <3> QED BY <3>4, <3>5
  <2> QED BY <2>2, <2>3
<1> HIDE DEF cfg, t, a, asked, more, p1, p2, p3, extra
<1>12. /\ IsSeq(p1) /\ \A c \in Range(p1) : c.fn[1] = "fp" /\ c.fn[2] = "allow"
       /\ Ordered(ch, p1)
       /\ TreasuryGiven /\ ch[TreasuryEntry] # TRUE => TreasuryEntry \in {} \cup Fns(p1)
  <2>0. /\ \A c \in Range(asked) : c.fn \notin PercentagesSM /\ c.fn # PoolTreasury
        /\ extra => \A c \in Range(more) : c.fn \notin PercentagesSM /\ c.fn # PoolTreasury
    BY <1>4, <1>5, <1>9 DEF t
  <2>1. Ordered(ch, asked) /\ (extra => Ordered(ch, more))
    BY <2>0, PlainIsOrdered
  <2>2. CASE extra
    <3>1. /\ IsSeq(asked \o more) /\ Ordered(ch, asked \o more)
          /\ \A c \in Range(asked \o more) : c \in Range(asked) \/ c \in Range(more)
          /\ \A f : f \in Fns(asked) \/ f \in Fns(more) => f \in Fns(asked \o more)
      <4>1. IsSeq(asked) /\ IsSeq(more) /\ Ordered(ch, asked) /\ Ordered(ch, more)
        BY <1>4, <1>5, <2>1, <2>2
      <4> QED BY <4>1, OrderedJoin
    <3>3. p1 = asked \o more
      BY <1>2, <2>2
    <3>4. \A c \in Range(p1) : c.fn[1] = "fp" /\ c.fn[2] = "allow"
      BY <1>4, <1>5, <2>2, <3>1, <3>3
    <3>5. TreasuryGiven /\ ch[TreasuryEntry] # TRUE => TreasuryEntry \in {} \cup Fns(p1)
      BY <1>11, <2>2, <3>1, <3>3
    <3> QED BY <3>1, <3>3, <3>4, <3>5
  <2>3. CASE ~extra
    BY <1>2, <1>5, <1>11, <2>1, <2>3
  <2> QED BY <2>2, <2>3
<1> DEFINE G == {} \cup Fns(p1)
<1>13. Backed(ch, G, p2)
  <2>1. \A c \in Range(p2) : Needs(ch, c) \subseteq G
    <3> SUFFICES ASSUME NEW c \in Range(p2), NEW k \in Needs(ch, c) PROVE k \in G
      OBVIOUS
    <3>1. c.fn \notin PercentagesSM
      BY <1>7, PercentSetters
    <3>2. k = TreasuryEntry /\ TreasuryGiven /\ ch[k] # TRUE
      BY <3>1 DEF Needs
    <3> QED BY <1>12, <3>2
  <2> HIDE DEF G
  <2> QED BY <2>1 DEF Backed, Range
<1> HIDE DEF G
<1>14. Backed(ch, {}, p1 \o p2)
  <2>1. Backed(ch, {}, p1)
    BY <1>12 DEF Ordered
  <2> QED BY <1>7, <1>12, <1>13, <2>1, BackedConcat DEF G
<1>15. IsSeq(p1 \o p2) /\ Ordered(ch, p1 \o p2)
  BY <1>7, <1>12, <1>14, ConcatIsSeq DEF Ordered
<1>16. Ordered(ch, p3)
  <2>1. \A c \in Range(p3) : c.fn \notin PercentagesSM /\ c.fn # PoolTreasury
    BY <1>8, <1>9 DEF t
  <2> QED BY <2>1, PlainIsOrdered
<1> DEFINE q == p1 \o p2
<1> HIDE DEF q
<1>17. Ordered(ch, q \o p3)
  BY <1>8, <1>15, <1>16, OrderedConcat DEF q
<1> QED BY <1>10, <1>17 DEF q, cfg

-----------------------------------------------------------------------------
(* What a script plans is fit: the limits it checks, or leaves to the file,  *)
(* are those of the setters.                                                 *)

\* Setters of several parameters are not called like one of them.
GroupNames == {"slashing", "recommendations", "autoStake", "shares", "bounds", "integralBounds",
               "pid", "weights", "modules"}

LEMMA GroupNamesFacts ==
  /\ \A k \in Keys : k[2] \notin GroupNames
  /\ \A k \in Keys : k[1] \in DOMAIN Scalars \cup {"owner", "pauser"}
<1>1. DOMAIN Scalars = {"jr", "sm", "fp", "pi", "tp", "re", "th", "sp"}
  BY DEF Scalars
<1>2. \A k \in Lists : /\ k[2] \in {"acknowledger", "allow", "rewarder", "settler", "share", "mu",
                                    "baseline", "roleTemp"}
                       /\ k[1] \in DOMAIN Scalars
  BY <1>1 DEF Lists
<1>3. \A k \in Roots : k[2] \in DOMAIN Scalars /\ k[1] \in {"owner", "pauser"}
  BY DEF Roots
<1>4. \A x \in DOMAIN Scalars : \A n \in Scalars[x] : n \notin GroupNames
  <2> SUFFICES ASSUME NEW x \in DOMAIN Scalars, NEW n \in Scalars[x] PROVE n \notin GroupNames
    OBVIOUS
  <2>1. x = "sp" => n \in DOMAIN Scalars
    <3>1. Scalars["sp"] = PauseModules
      BY DEF Scalars
    <3> QED BY <3>1, ChainAssumption
  <2>2. x # "sp" => n \notin GroupNames
    BY DEF Scalars, GroupNames
  <2>3. DOMAIN Scalars \cap GroupNames = {}
    BY <1>1 DEF GroupNames
  <2> QED BY <2>1, <2>2, <2>3
<1>5. \A k \in Keys \ (Lists \cup Roots) : k[1] \in DOMAIN Scalars /\ k[2] \notin GroupNames
  <2> SUFFICES ASSUME NEW x \in DOMAIN Scalars, NEW n \in Scalars[x]
               PROVE  <<x, n>>[1] \in DOMAIN Scalars /\ <<x, n>>[2] \notin GroupNames
    BY DEF Keys
  <2> QED BY <1>4
<1>6. \A k \in Lists \cup Roots : k[2] \notin GroupNames
  BY <1>1, <1>2, <1>3 DEF GroupNames
<1> QED BY <1>2, <1>3, <1>5, <1>6

LEMMA LoneCovers ==
  ASSUME NEW cfg, NEW k \in Keys, k[1] \in DOMAIN Scalars
  PROVE  /\ Covers(Lone(cfg, k)) /\ Lone(cfg, k).fn = k
         /\ DOMAIN Lone(cfg, k).set = {k} /\ Lone(cfg, k).set[k] = cfg[k]
<1> DEFINE c == Lone(cfg, k)
<1>1. c.fn = k /\ DOMAIN c.set = {k} /\ c.set[k] = cfg[k]
  <2>1. c.fn = k /\ c.set = Only(k, cfg[k])
    BY LoneFields
  <2>2. DOMAIN Only(k, cfg[k]) = {k} /\ Only(k, cfg[k])[k] = cfg[k]
    BY OnlyFacts
  <2> HIDE DEF c
  <2> QED BY <2>1, <2>2
<1> HIDE DEF c
<1>2. k[2] \notin GroupNames
  BY GroupNamesFacts
<1>3. /\ k # K("sm", "slashing") /\ k # K("sm", "recommendations") /\ k # K("sm", "autoStake")
      /\ k # K("re", "shares") /\ k # K("th", "bounds") /\ k # K("th", "integralBounds")
      /\ k # ModulesFn
  BY <1>2 DEF GroupNames, K, ModulesFn
<1>4. Covers(c)
  BY <1>1, <1>3 DEF Covers
<1> QED BY <1>1, <1>4 DEF c

LEMMA LoneAfter ==
  ASSUME NEW ch, DOMAIN ch = Keys, NEW cfg, NEW k \in Keys
  PROVE  Over(Lone(cfg, k).set, ch)[k] = cfg[k]
<1> DEFINE f == Lone(cfg, k).set
<1>1. DOMAIN f = {k} /\ f[k] = cfg[k]
  <2>1. f = Only(k, cfg[k])
    BY LoneFields
  <2> HIDE DEF f
  <2> QED BY <2>1, OnlyFacts
<1> HIDE DEF f
<1>2. Over(f, ch)[k] = f[k]
  BY <1>1, OverFacts
<1> QED BY <1>1, <1>2 DEF f

LEMMA JointFacts ==
  ASSUME NEW ch, DOMAIN ch = Keys, NEW cfg, NEW fn, NEW ks, ks \subseteq Keys
  PROVE  LET c == Joint(ch, cfg, fn, ks) IN
         /\ c.fn = fn /\ DOMAIN c.set = ks /\ \A k \in ks : c.set[k] = Target(ch, cfg, k)
         /\ \A k \in ks : Over(c.set, ch)[k] = Target(ch, cfg, k)
         /\ \A k \in Keys : k \notin ks => Over(c.set, ch)[k] = ch[k]
<1> DEFINE c == Joint(ch, cfg, fn, ks)
           f == c.set
<1>1. c.fn = fn /\ DOMAIN f = ks /\ \A k \in ks : f[k] = Target(ch, cfg, k)
  BY DEF Joint
<1> HIDE DEF f
<1>2. /\ \A k \in ks : Over(f, ch)[k] = f[k]
      /\ \A k \in Keys : k \notin ks => Over(f, ch)[k] = ch[k]
  BY <1>1, OverFacts
<1> QED BY <1>1, <1>2 DEF f

\* Calls that touch neither the stake manager nor the pool.
LEMMA ForeignFit ==
  ASSUME NEW ch, NEW c, Covers(c), c.fn[1] \notin {"sm", "fp"},
         \A k \in DOMAIN c.set : k[1] \notin {"sm", "fp", "owner"},
         OwnerOf(ch, c.fn[1]) = Signer, c.fn \in Excused \/ Accepts(ch, c)
  PROVE  Fit(ch, c)
<1>1. DOMAIN c.set \cap Fixed = {}
  BY DEF Fixed, K
<1>2. DOMAIN c.set \cap Numbers = {} /\ DOMAIN c.set \cap PercentagesSM = {}
      /\ DOMAIN c.set \cap {K("sm", "increasePct"), K("sm", "decreasePct")} = {}
  BY NumbersAreKeys
<1>3. c.fn \notin PercentagesSM /\ c.fn # PoolTreasury /\ c.fn # TreasuryEntry
  <2>1. PoolTreasury[1] = "fp" /\ TreasuryEntry[1] = "fp"
    BY DEF PoolTreasury, TreasuryEntry, K
  <2> QED BY <2>1, PercentSetters
<1>4. TreasuryEntry \notin DOMAIN c.set
  <2>1. TreasuryEntry[1] = "fp"
    BY DEF TreasuryEntry
  <2> QED BY <2>1
<1> QED BY <1>1, <1>2, <1>3, <1>4 DEF Fit

\* What the limits of a file do not allow is excused.
LEMMA UnacceptableIsExcused ==
  ASSUME NEW s \in DOMAIN files, NEW k \in Unacceptable(Config(s)) PROVE k \in Excused
BY DEF Excused

LEMMA RegistryFit ==
  ASSUME NEW ch, "jobRegistry" \in DOMAIN files, NEW c, RegistryCall(ch, Config("jobRegistry"), c),
         DOMAIN ch = Keys, OwnerOf(ch, "jr") = Signer
  PROVE  Fit(ch, c)
<1> DEFINE cfg == Config("jobRegistry")
<1>1. PICK k \in RegistrySingles : k \in DOMAIN cfg /\ c = Lone(cfg, k)
  BY DEF RegistryCall, Single
<1>2. k \in Keys /\ k[1] = "jr" /\ "jr" \in DOMAIN Scalars
  BY SinglesAreKeys, SinglesOf DEF Scalars
<1>3. Covers(c) /\ c.fn = k /\ DOMAIN c.set = {k} /\ c.set[k] = cfg[k]
  BY <1>1, <1>2, LoneCovers
<1> DEFINE after == Over(c.set, ch)
<1>4. after[k] = cfg[k]
  BY <1>1, <1>2, LoneAfter
<1> HIDE DEF after
<1>5. k \notin ModuleSetters
  <2>1. \A x \in RegistrySingles : x # <<"jr", "feePool">>
    <3>1. \A x \in RegistrySingles : x[2] # "feePool"
      BY DEF RegistrySingles, Names, Each3
    <3> QED BY <3>1
  <2>2. \A x \in ModuleSetters : x[1] = "jr" => x = <<"jr", "feePool">>
    BY DEF ModuleSetters
  <2> QED BY <1>2, <2>1, <2>2
<1>6. k \in Excused \/ AcceptsJR(ch, k, after)
  <2>1. k \in PercentagesJR => k \in Excused
    BY DEF Excused, OrderBlind
  <2>2. k \in Unacceptable(cfg) => k \in Excused
    BY UnacceptableIsExcused
  <2>3. k = K("jr", "treasury") /\ cfg[k] = Signer => k \in Unacceptable(cfg)
    BY <1>1 DEF Unacceptable
  <2>4. k = TaxPolicyKey /\ cfg[k] \notin Exempt => k \in Unacceptable(cfg)
    BY <1>1 DEF Unacceptable
  <2> QED BY <1>4, <2>1, <2>2, <2>3, <2>4 DEF AcceptsJR, K, TaxPolicyKey
<1>7. c.fn \in Excused \/ Accepts(ch, c)
  BY <1>2, <1>3, <1>5, <1>6, OtherContracts DEF Accepts, after
<1> QED BY <1>2, <1>3, <1>7, ForeignFit

LEMMA IncentivesFit ==
  ASSUME NEW ch, NEW cfg, NEW c, IncentivesCall(ch, cfg, c),
         DOMAIN ch = Keys, OwnerOf(ch, "pi") = Signer
  PROVE  Fit(ch, c)
<1>1. c.fn = K("pi", "modules") /\ DOMAIN c.set = PoolKeys
  BY DEF IncentivesCall, Joint
<1>2. c.fn[1] = "pi" /\ c.fn[2] = "modules" /\ "pi" \in DOMAIN Scalars
  BY <1>1 DEF K, Scalars
<1>3. Covers(c)
  <2>1. \A k \in Guarded \cup {K("sm", "slashing"), K("sm", "recommendations"), K("sm", "autoStake"),
                               K("re", "shares"), K("th", "bounds"), K("th", "integralBounds"), ModulesFn} :
          k[1] # "pi"
    BY PercentSetters DEF Guarded, ModuleSetters, K, TaxPolicyKey, ModulesFn, PoolTreasury
  <2> QED BY <1>2, <2>1 DEF Covers
<1>4. c.fn \notin ModuleSetters
  BY <1>2 DEF ModuleSetters
<1>5. Accepts(ch, c)
  BY <1>2, <1>4, OtherContracts DEF Accepts
<1> QED BY <1>1, <1>2, <1>3, <1>5, GroupsAreKeys, ForeignFit

LEMMA TaxFit ==
  ASSUME NEW ch, NEW cfg, NEW c, TaxCall(ch, cfg, c), OwnerOf(ch, "tp") = Signer
  PROVE  Fit(ch, c)
<1>1. c.fn[1] = "tp" /\ \A k \in DOMAIN c.set : k[1] = "tp"
  <2>1. ASSUME NEW k \in TaxSingles, c = Lone(cfg, k)
        PROVE  c.fn[1] = "tp" /\ \A x \in DOMAIN c.set : x[1] = "tp"
    <3>1. k[1] = "tp"
      BY SinglesOf
    <3>2. c.fn = k /\ c.set = Only(k, cfg[k])
      BY <2>1, LoneFields
    <3>3. DOMAIN c.set = {k}
      BY <3>2, OnlyFacts
    <3> QED BY <3>1, <3>2, <3>3
  <2>2. ASSUME NEW ks, ks \subseteq Texts \cap DOMAIN cfg, c = Policy([k \in ks |-> cfg[k]])
        PROVE  c.fn[1] = "tp" /\ \A x \in DOMAIN c.set : x[1] = "tp"
    <3>1. c.fn = K("tp", "policy") /\ DOMAIN c.set = ks
      BY <2>2 DEF Policy
    <3> QED BY <2>2, <3>1, GroupsAreKeys DEF K
  <2>3. ASSUME c = Policy(<<>>) PROVE c.fn[1] = "tp" /\ \A x \in DOMAIN c.set : x[1] = "tp"
    BY <2>3 DEF Policy, K
  <2> QED BY <2>1, <2>2, <2>3 DEF TaxCall
<1>2. \A k \in Guarded \cup {K("sm", "slashing"), K("sm", "recommendations"), K("sm", "autoStake"),
                             K("re", "shares"), K("th", "bounds"), K("th", "integralBounds"), ModulesFn} :
        k[1] # "tp"
  BY PercentSetters DEF Guarded, ModuleSetters, K, TaxPolicyKey, ModulesFn, PoolTreasury
<1>3. "tp" \in DOMAIN Scalars
  BY DEF Scalars
<1>4. Covers(c)
  BY <1>1, <1>2, <1>3 DEF Covers
<1>5. c.fn \notin ModuleSetters
  BY <1>1 DEF ModuleSetters
<1>6. Accepts(ch, c)
  BY <1>1, <1>5, OtherContracts DEF Accepts
<1> QED BY <1>1, <1>4, <1>6, ForeignFit

LEMMA PauseFit ==
  ASSUME NEW ch, NEW c, PauseCall(ch, Config("systemPause"), c), DOMAIN ch = Keys,
         ~SystemPauseRefuses(ch, Config("systemPause")), OwnerOf(ch, "sp") = Signer
  PROVE  Fit(ch, c)
<1> DEFINE cfg == Config("systemPause")
           after == Over(c.set, ch)
<1>1. c.fn = ModulesFn /\ DOMAIN c.set = PauseKeys /\ \A k \in PauseKeys : c.set[k] = cfg[k]
  BY DEF PauseCall, ModulesFn
<1>2. c.fn[1] = "sp" /\ "sp" \in DOMAIN Scalars /\ PauseKeys \subseteq Keys /\ \A k \in PauseKeys : k[1] = "sp"
  BY <1>1, GroupsAreKeys, FnNames DEF Scalars
<1>3. \A k \in PauseKeys : after[k] = cfg[k]
  <2> DEFINE f == c.set
  <2> HIDE DEF f, cfg
  <2> QED BY <1>1, <1>2, OverFacts DEF f
<1>4. AcceptsSP(ch, c.fn, after)
  <2> SUFFICES ASSUME NEW m \in PauseModules PROVE ch[<<"owner", m, after[<<"sp", m>>]>>] = Pause
    BY DEF AcceptsSP
  <2>1. <<"sp", m>> \in PauseKeys
    BY DEF PauseKeys
  <2>2. ch[<<"owner", m, cfg[<<"sp", m>>]>>] = Pause
    BY DEF SystemPauseRefuses, NotOwnedByPause, K
  <2> HIDE DEF cfg, after
  <2> QED BY <1>3, <2>1, <2>2
<1> HIDE DEF cfg, after
<1>5. Covers(c)
  <2>1. \A k \in Guarded \cup {K("sm", "slashing"), K("sm", "recommendations"), K("sm", "autoStake"),
                               K("re", "shares"), K("th", "bounds"), K("th", "integralBounds")} :
          k[1] # "sp"
    BY PercentSetters DEF Guarded, ModuleSetters, K, TaxPolicyKey, PoolTreasury
  <2> QED BY <1>1, <1>2, <2>1 DEF Covers
<1>6. c.fn \notin ModuleSetters
  BY <1>2 DEF ModuleSetters
<1>7. Accepts(ch, c)
  BY <1>2, <1>4, <1>6, OtherContracts DEF Accepts, after
<1> QED BY <1>1, <1>2, <1>5, <1>7, ForeignFit

LEMMA ThermoGuards ==
  \A k \in Guarded \cup {K("sm", "slashing"), K("sm", "recommendations"), K("sm", "autoStake"), ModulesFn} :
    k[1] \in {"re", "th"} => k \in {K("re", "kappa"), K("re", "temperature"), K("re", "treasury")}
BY PercentSetters DEF Guarded, ModuleSetters, K, TaxPolicyKey, ModulesFn, PoolTreasury

\* A call of the reward engine or the thermostat: what is left of the guards.
LEMMA ThermoAccepts ==
  ASSUME NEW ch, NEW c, c.fn[1] \in {"re", "th"}, OwnerOf(ch, c.fn[1]) = Signer,
         AcceptsRE(ch, c.fn, Over(c.set, ch)), AcceptsTH(ch, c.fn, Over(c.set, ch))
  PROVE  Accepts(ch, c)
<1>1. c.fn \notin ModuleSetters
  BY DEF ModuleSetters
<1> DEFINE after == Over(c.set, ch)
<1> HIDE DEF after
<1>2. AcceptsRE(ch, c.fn, after) /\ AcceptsTH(ch, c.fn, after)
  BY DEF after
<1>3. /\ AcceptsJR(ch, c.fn, after) /\ AcceptsSM(ch, c.fn, after) /\ AcceptsTreasury(ch, c.fn, after)
      /\ AcceptsFP(ch, c.fn, after) /\ AcceptsSP(ch, c.fn, after)
  BY OtherContracts
<1> QED BY <1>1, <1>2, <1>3 DEF Accepts, after

LEMMA ThermoSingleFit ==
  ASSUME NEW ch, "thermodynamics" \in DOMAIN files, NEW c,
         Single(ThermoSingles \ RoleTemps, ch, Config("thermodynamics"), c), DOMAIN ch = Keys,
         OwnerOf(ch, "re") = Signer, c.fn[1] = "re" \/ OwnerOf(ch, "th") = Signer
  PROVE  Fit(ch, c)
<1> DEFINE s == "thermodynamics"
           cfg == Config(s)
           keys == ThermoSingles \ RoleTemps
           after == Over(c.set, ch)
<1>1. PICK k \in keys : k \in DOMAIN cfg /\ c = Lone(cfg, k)
  BY DEF Single
<1>2. k \in Keys /\ k[1] \in {"re", "th"} /\ {"re", "th"} \subseteq DOMAIN Scalars
  BY SinglesAreKeys, SinglesOf DEF Scalars
<1>3. k = <<"th", "systemTemperature">> \/ k[1] = "re"
  BY DEF ThermoSingles, Names, Each3
<1> HIDE DEF keys
<1>4. Covers(c) /\ c.fn = k /\ DOMAIN c.set = {k}
  BY <1>1, <1>2, LoneCovers
<1>5. after[k] = cfg[k]
  BY <1>1, <1>2, LoneAfter
<1> HIDE DEF after
<1>6. ASSUME k \notin Excused PROVE AcceptsRE(ch, k, after) /\ AcceptsTH(ch, k, after)
  <2>1. K("th", "systemTemperature") \in Excused
    BY DEF Excused, OrderBlind
  <2>2. k[1] = "re"
    BY <1>3, <1>6, <2>1 DEF K
  <2>3. k \notin Unacceptable(cfg)
    BY <1>6, UnacceptableIsExcused
  <2>4. k \in {K("re", "kappa"), K("re", "temperature")} => cfg[k] # 0
    BY <1>1, <2>3 DEF Unacceptable
  <2>5. k = K("re", "treasury") => cfg[k] # Zero
    BY <1>1, <2>3 DEF Unacceptable
  <2>6. k \in {K("re", "kappa"), K("re", "temperature")} => cfg[k] \in Nat
    <3>1. {K("re", "kappa"), K("re", "temperature")} \subseteq Unsigned
      BY DEF Unsigned
    <3> QED BY <1>1, <3>1, ConfigNumbers
  <2>7. k[2] # "shares"
    BY <1>2, GroupNamesFacts DEF GroupNames
  <2> DEFINE v == cfg[k]
  <2> HIDE DEF v
  <2>8. k \in {<<"re", "kappa">>, <<"re", "temperature">>} => v > 0
    BY <2>4, <2>6 DEF K, v
  <2>9. AcceptsRE(ch, k, after)
    BY <1>5, <2>5, <2>7, <2>8 DEF AcceptsRE, K, v
  <2> QED BY <2>2, <2>9, OtherContracts
<1>7. c.fn \in Excused \/ Accepts(ch, c)
  BY <1>2, <1>4, <1>6, ThermoAccepts DEF after
<1> QED BY <1>2, <1>4, <1>7, ForeignFit

LEMMA RoleCallFit ==
  ASSUME NEW ch, NEW cfg, NEW c, NEW k \in RoleTemps, DOMAIN ch = Keys, OwnerOf(ch, "th") = Signer,
         c = Lone(cfg, k) \/ c = [fn |-> <<"th", "unset", k[3]>>, set |-> Only(k, 0)]
  PROVE  Fit(ch, c)
<1>1. k \in Keys /\ k[1] = "th" /\ "th" \in DOMAIN Scalars
  BY ListsAreKeys DEF RoleTemps, Scalars
<1>2. CASE c = Lone(cfg, k)
  <2>1. Covers(c) /\ c.fn = k /\ DOMAIN c.set = {k}
    BY <1>1, <1>2, LoneCovers
  <2>2. k \in Excused
    BY DEF Excused, OrderBlind, RoleTemps
  <2> QED BY <1>1, <2>1, <2>2, ForeignFit
<1>3. CASE c = [fn |-> <<"th", "unset", k[3]>>, set |-> Only(k, 0)]
  <2>1. c.fn = <<"th", "unset", k[3]>> /\ c.set = Only(k, 0)
    BY <1>3
  <2>2. c.fn[1] = "th" /\ c.fn[2] = "unset"
    BY <2>1
  <2>3. DOMAIN c.set = {k}
    BY <2>1, OnlyFacts
  <2>4. Covers(c)
    <3>1. c.fn \notin Guarded /\ c.fn # ModulesFn /\ c.fn # K("sm", "slashing")
          /\ c.fn # K("sm", "recommendations") /\ c.fn # K("sm", "autoStake")
      BY <2>2, ThermoGuards DEF K
    <3>2. c.fn # K("re", "shares") /\ c.fn # K("th", "bounds") /\ c.fn # K("th", "integralBounds")
      BY <2>2 DEF K
    <3> QED BY <1>1, <2>2, <3>1, <3>2 DEF Covers
  <2> DEFINE after == Over(c.set, ch)
  <2> HIDE DEF after
  <2>5. AcceptsTH(ch, c.fn, after)
    BY <2>2 DEF AcceptsTH
  <2>6. Accepts(ch, c)
    BY <2>2, <2>5, OtherContracts, ThermoAccepts DEF after
  <2> QED BY <1>1, <2>2, <2>3, <2>4, <2>6, ForeignFit
<1> QED BY <1>2, <1>3

LEMMA SharesFit ==
  ASSUME NEW ch, NEW cfg, NEW c, c = Joint(ch, cfg, K("re", "shares"), Shares),
         \E k \in Shares : Differs(ch, cfg, k), ~ThermodynamicsRefuses(ch, cfg),
         DOMAIN ch = Keys, OwnerOf(ch, "re") = Signer
  PROVE  Fit(ch, c)
<1> DEFINE after == Over(c.set, ch)
           f == Restrict(cfg, DOMAIN cfg \cap Shares)
           goal == Over(f, ch)
<1>1. /\ c.fn = K("re", "shares") /\ DOMAIN c.set = Shares
      /\ \A k \in Shares : after[k] = Target(ch, cfg, k)
  BY GroupsAreKeys, JointFacts
<1>2. \A k \in Shares : goal[k] = Target(ch, cfg, k)
  <2>1. DOMAIN f = DOMAIN cfg \cap Shares /\ \A k \in DOMAIN cfg \cap Shares : f[k] = cfg[k]
    BY DEF Restrict
  <2> HIDE DEF f
  <2>2. \A k \in Keys : goal[k] = IF k \in DOMAIN f THEN f[k] ELSE ch[k]
    BY DEF Over
  <2> HIDE DEF goal
  <2> QED BY <2>1, <2>2, GroupsAreKeys DEF Target
<1>3. SumShares(goal) = 100
  BY DEF ThermodynamicsRefuses
<1> HIDE DEF after, goal
<1>4. \A r \in Roles : after[<<"re", "share", r>>] = goal[<<"re", "share", r>>]
  BY <1>1, <1>2 DEF Shares
<1>5. SumShares(after) = 100
  <2>1. /\ after[<<"re", "share", "agent">>] = goal[<<"re", "share", "agent">>]
        /\ after[<<"re", "share", "validator">>] = goal[<<"re", "share", "validator">>]
        /\ after[<<"re", "share", "operator">>] = goal[<<"re", "share", "operator">>]
        /\ after[<<"re", "share", "employer">>] = goal[<<"re", "share", "employer">>]
    BY <1>4 DEF Roles
  <2> QED BY <1>3, <2>1 DEF SumShares
<1>6. c.fn[1] = "re" /\ c.fn[2] = "shares" /\ "re" \in DOMAIN Scalars
  BY <1>1 DEF K, Scalars
<1>7. Covers(c)
  <2>1. c.fn \notin Guarded /\ c.fn # ModulesFn /\ c.fn # K("sm", "slashing")
        /\ c.fn # K("sm", "recommendations") /\ c.fn # K("sm", "autoStake")
    BY <1>6, ThermoGuards DEF K
  <2>2. c.fn # K("th", "bounds") /\ c.fn # K("th", "integralBounds")
    BY <1>6 DEF K
  <2> QED BY <1>1, <1>6, <2>1, <2>2 DEF Covers
<1>8. AcceptsRE(ch, c.fn, after) /\ AcceptsTH(ch, c.fn, after)
  BY <1>5, <1>6, OtherContracts DEF AcceptsRE
<1>9. Accepts(ch, c)
  BY <1>6, <1>8, ThermoAccepts DEF after
<1> QED BY <1>1, <1>6, <1>7, <1>9, GroupsAreKeys, ForeignFit

LEMMA GroupFit ==
  ASSUME NEW ch, "thermodynamics" \in DOMAIN files, NEW g \in ThermoGroups,
         g.keys \subseteq DOMAIN Config("thermodynamics"),
         NEW c, c = Joint(ch, Config("thermodynamics"), g.fn, g.keys),
         DOMAIN ch = Keys, OwnerOf(ch, "th") = Signer
  PROVE  Fit(ch, c)
<1> DEFINE s == "thermodynamics"
           cfg == Config(s)
           fn == g.fn
           ks == g.keys
           after == Over(c.set, ch)
<1>1. fn[1] = "th" /\ ks \subseteq Keys /\ \A k \in ks : k[1] = "th"
  BY GroupsAreKeys
<1>2. \/ fn = K("th", "bounds") /\ ks = Bounds
      \/ fn = K("th", "integralBounds") /\ ks = IntegralBounds
      \/ fn[2] \in {"pid", "weights"}
  BY DEF ThermoGroups, K
<1>3. "th" \in DOMAIN Scalars
  BY DEF Scalars
<1>4. ks \subseteq DOMAIN cfg /\ c = Joint(ch, cfg, fn, ks)
  OBVIOUS
<1> HIDE DEF fn, ks
<1>5. /\ c.fn = fn /\ DOMAIN c.set = ks
      /\ \A k \in ks : after[k] = Target(ch, cfg, k)
  BY <1>1, <1>4, JointFacts
<1> HIDE DEF after
<1>6. \A k \in ks : after[k] = cfg[k]
  BY <1>4, <1>5 DEF Target
<1>7. fn[2] \in {"bounds", "integralBounds", "pid", "weights"}
  BY <1>2 DEF K
<1>8. Covers(c)
  <2>1. fn \notin Guarded /\ fn # ModulesFn /\ fn # K("sm", "slashing")
        /\ fn # K("sm", "recommendations") /\ fn # K("sm", "autoStake") /\ fn # K("re", "shares")
    BY <1>1, <1>7, ThermoGuards DEF K
  <2>2. /\ fn = K("th", "bounds") => ks = Bounds
        /\ fn = K("th", "integralBounds") => ks = IntegralBounds
    BY <1>2 DEF K
  <2> QED BY <1>1, <1>3, <1>5, <2>1, <2>2 DEF Covers
<1>9. ASSUME fn \notin Excused PROVE AcceptsTH(ch, fn, after)
  <2>1. fn \notin Unacceptable(cfg)
    BY <1>9, UnacceptableIsExcused
  <2>2. fn # <<"th", "systemTemperature">> /\ \A r \in Roles : fn # <<"th", "roleTemp", r>>
    <3>1. \A k \in Keys : k[2] \notin {"bounds", "integralBounds", "pid", "weights"}
      BY GroupNamesFacts DEF GroupNames
    <3>2. <<"th", "systemTemperature">>[2] = "systemTemperature"
          /\ \A r \in Roles : <<"th", "roleTemp", r>>[2] = "roleTemp"
      OBVIOUS
    <3> QED BY <1>7, <3>2
  <2>3. fn = K("th", "bounds") => after[<<"th", "minTemp">>] > 0
                                  /\ after[<<"th", "maxTemp">>] > after[<<"th", "minTemp">>]
    <3> SUFFICES ASSUME fn = K("th", "bounds")
                 PROVE  after[<<"th", "minTemp">>] > 0
                        /\ after[<<"th", "maxTemp">>] > after[<<"th", "minTemp">>]
      OBVIOUS
    <3> DEFINE min == cfg[K("th", "minTemp")]
               max == cfg[K("th", "maxTemp")]
    <3>1. ks = Bounds
      BY <1>2 DEF K
    <3>2. 0 < min /\ min < max
      BY <1>4, <2>1, <3>1 DEF Unacceptable
    <3>3. K("th", "minTemp") \in BigInts /\ K("th", "maxTemp") \in BigInts
      BY DEF BigInts, Scalars
    <3>4. {K("th", "minTemp"), K("th", "maxTemp")} \subseteq DOMAIN cfg
      BY <1>4, <3>1 DEF Bounds
    <3>5. min \in Int /\ max \in Int
      BY <3>3, <3>4, ConfigNumbers
    <3>6. after[<<"th", "minTemp">>] = min /\ after[<<"th", "maxTemp">>] = max
      BY <1>6, <3>1 DEF Bounds, K
    <3> HIDE DEF min, max
    <3>7. max > min /\ min > 0
      BY <3>2, <3>5
    <3> QED BY <3>6, <3>7
  <2>4. fn = K("th", "integralBounds") => after[<<"th", "integralMax">>] > after[<<"th", "integralMin">>]
    <3> SUFFICES ASSUME fn = K("th", "integralBounds")
                 PROVE  after[<<"th", "integralMax">>] > after[<<"th", "integralMin">>]
      OBVIOUS
    <3> DEFINE min == cfg[K("th", "integralMin")]
               max == cfg[K("th", "integralMax")]
    <3>1. ks = IntegralBounds
      BY <1>2 DEF K
    <3>2. ~(min >= max)
      BY <1>4, <2>1, <3>1 DEF Unacceptable
    <3>3. K("th", "integralMin") \in BigInts /\ K("th", "integralMax") \in BigInts
      BY DEF BigInts, Scalars
    <3>4. {K("th", "integralMin"), K("th", "integralMax")} \subseteq DOMAIN cfg
      BY <1>4, <3>1 DEF IntegralBounds
    <3>5. min \in Int /\ max \in Int
      BY <3>3, <3>4, ConfigNumbers
    <3>6. after[<<"th", "integralMin">>] = min /\ after[<<"th", "integralMax">>] = max
      BY <1>6, <3>1 DEF IntegralBounds, K
    <3> HIDE DEF min, max
    <3>7. max > min
      BY <3>2, <3>5
    <3> QED BY <3>6, <3>7
  <2> QED BY <2>2, <2>3, <2>4 DEF AcceptsTH, K
<1>10. c.fn \in Excused \/ Accepts(ch, c)
  BY <1>1, <1>5, <1>9, OtherContracts, ThermoAccepts DEF after
<1> QED BY <1>1, <1>5, <1>8, <1>10, ForeignFit

LEMMA ThermoFit ==
  ASSUME NEW ch, "thermodynamics" \in DOMAIN files, NEW c,
         ThermoCall(ch, Config("thermodynamics"), c),
         ~ThermodynamicsRefuses(ch, Config("thermodynamics")), DOMAIN ch = Keys,
         OwnerOf(ch, "re") = Signer, c.fn[1] = "re" \/ OwnerOf(ch, "th") = Signer
  PROVE  Fit(ch, c)
<1> DEFINE cfg == Config("thermodynamics")
<1>1. CASE Single(ThermoSingles \ RoleTemps, ch, cfg, c)
  BY <1>1, ThermoSingleFit
<1>2. CASE \E k \in RoleTemps : k \in DOMAIN cfg /\ cfg[k] # Unset /\ c = Lone(cfg, k)
  <2>1. PICK k \in RoleTemps : c = Lone(cfg, k)
    BY <1>2
  <2>2. c.fn = k /\ k[1] = "th"
    BY <2>1, LoneFields DEF RoleTemps
  <2> QED BY <2>1, <2>2, RoleCallFit
<1>3. CASE \E k \in RoleTemps : k \in DOMAIN cfg /\ c = [fn |-> <<"th", "unset", k[3]>>, set |-> Only(k, 0)]
  <2>1. PICK k \in RoleTemps : c = [fn |-> <<"th", "unset", k[3]>>, set |-> Only(k, 0)]
    BY <1>3
  <2>2. c.fn[1] = "th"
    BY <2>1
  <2> QED BY <2>1, <2>2, RoleCallFit
<1>4. CASE c = Joint(ch, cfg, K("re", "shares"), Shares) /\ \E k \in Shares : Differs(ch, cfg, k)
  BY <1>4, SharesFit
<1>5. CASE \E g \in ThermoGroups : g.keys \subseteq DOMAIN cfg /\ c = Joint(ch, cfg, g.fn, g.keys)
  <2>1. PICK g \in ThermoGroups : g.keys \subseteq DOMAIN cfg /\ c = Joint(ch, cfg, g.fn, g.keys)
    BY <1>5
  <2>2. c.fn[1] = "th"
    BY <2>1, GroupsAreKeys DEF Joint
  <2> QED BY <2>1, <2>2, GroupFit
<1> QED BY <1>1, <1>2, <1>3, <1>4, <1>5 DEF ThermoCall

\* The numbers the stake manager's file asks for.
LEMMA StakeGoals ==
  ASSUME NEW ch, Deployed(ch)
  PROVE  /\ \A k \in Numbers \ {K("sm", "agiTypes")} :
              Goal(ch, k) \in Nat /\ (k \in DOMAIN StakeFile => StakeFile[k] \in Nat)
         /\ Goal(ch, K("sm", "increasePct")) <= 100 /\ Goal(ch, K("sm", "decreasePct")) <= 100
         /\ \A k \in Recommendable : Target(ch, Recommended(StakeFile), k) \in Nat
<1> DEFINE s == "stakeManager"
           cfg == Config(s)
<1>0. s # "economics" /\ StakeFile = cfg
  BY DEF StakeFile
<1>1. \A k \in Numbers : k # K("sm", "agiTypes") => k \in Percents \cup Amounts
  BY DEF Numbers, Percents, Amounts, PercentagesSM, K
<1> HIDE DEF s
<1>2. \A k \in Percents : k \in DOMAIN cfg => cfg[k] \in 0 .. 100
  BY <1>0, ConfigNumbers
<1>3. \A k \in Amounts : k \in DOMAIN cfg => cfg[k] \in Nat
  BY <1>0, ConfigNumbers
<1> HIDE DEF cfg
<1>4. ASSUME NEW k \in Numbers, k # K("sm", "agiTypes")
      PROVE  Goal(ch, k) \in Nat /\ (k \in DOMAIN StakeFile => StakeFile[k] \in Nat)
  <2>1. k \in DOMAIN cfg => cfg[k] \in Nat
    BY <1>1, <1>2, <1>3, <1>4
  <2>2. ch[k] \in Nat
    BY DEF Deployed
  <2> QED BY <1>0, <2>1, <2>2 DEF Goal, Target
<1>5. ASSUME NEW k \in {K("sm", "increasePct"), K("sm", "decreasePct")}
      PROVE  Goal(ch, k) <= 100
  <2>1. k \in Percents
    BY DEF Percents
  <2>2. k \in DOMAIN cfg => cfg[k] <= 100
    BY <1>2, <2>1
  <2>3. ch[k] <= 100
    BY DEF Deployed
  <2> QED BY <1>0, <2>2, <2>3 DEF Goal, Target
<1>6. ASSUME NEW k \in Recommendable PROVE Target(ch, Recommended(StakeFile), k) \in Nat
  <2> DEFINE rec == Recommended(cfg)
  <2>1. K("sm", "recMin") \in Amounts /\ K("sm", "recMax") \in Amounts /\ k \in Numbers
    BY DEF Amounts, Recommendable, Numbers
  <2>2. k \in DOMAIN rec => \E m \in {K("sm", "recMin"), K("sm", "recMax")} :
                              m \in DOMAIN cfg /\ rec[k] = cfg[m]
    BY DEF Recommended
  <2> HIDE DEF rec
  <2>3. k \in DOMAIN rec => rec[k] \in Nat
    BY <1>3, <2>1, <2>2
  <2>4. ch[k] \in Nat
    BY <2>1 DEF Deployed
  <2>5. Target(ch, rec, k) \in Nat
    BY <2>3, <2>4 DEF Target
  <2> QED BY <1>0, <2>5 DEF rec
<1> QED BY <1>4, <1>5, <1>6

\* A call of the stake manager: what is left of the conditions.
LEMMA StakeFits ==
  ASSUME NEW ch, NEW c, Covers(c), c.fn[1] = "sm", OwnerOf(ch, "sm") = Signer,
         \A k \in DOMAIN c.set : k[1] = "sm" /\ k # K("sm", "agiTypes"),
         \A k \in DOMAIN c.set \cap Numbers : c.set[k] \in Nat,
         \A k \in DOMAIN c.set \cap {K("sm", "increasePct"), K("sm", "decreasePct")} : c.set[k] <= 100,
         c.fn \in PercentagesSM \cup Excused \/ Accepts(ch, c),
         \A k \in DOMAIN c.set \cap PercentagesSM :
           c.fn = k /\ k \in DOMAIN StakeFile /\ c.set[k] = StakeFile[k],
         c.fn \in PercentagesSM => (\A k \in PercentagesSM : Goal(ch, k) \in Nat) /\ GoalSum(ch) <= 100
  PROVE  Fit(ch, c)
<1>1. DOMAIN c.set \cap Fixed = {}
  BY DEF Fixed, K
<1>2. PoolTreasury[1] = "fp" /\ TreasuryEntry[1] = "fp"
  BY DEF PoolTreasury, TreasuryEntry, K
<1>3. c.fn # PoolTreasury /\ c.fn # TreasuryEntry /\ TreasuryEntry \notin DOMAIN c.set
  BY <1>2
<1> QED BY <1>1, <1>3 DEF Fit

LEMMA StakeAccepts ==
  ASSUME NEW ch, NEW c, c.fn[1] = "sm", OwnerOf(ch, "sm") = Signer, c.fn # K("sm", "treasury"),
         c.fn \in ModuleSetters => Over(c.set, ch)[c.fn] \in Version2,
         AcceptsSM(ch, c.fn, Over(c.set, ch))
  PROVE  Accepts(ch, c)
<1> DEFINE after == Over(c.set, ch)
<1> HIDE DEF after
<1>1. AcceptsSM(ch, c.fn, after) /\ (c.fn \in ModuleSetters => after[c.fn] \in Version2)
  BY DEF after
<1>2. /\ AcceptsJR(ch, c.fn, after) /\ AcceptsFP(ch, c.fn, after) /\ AcceptsRE(ch, c.fn, after)
      /\ AcceptsTH(ch, c.fn, after) /\ AcceptsSP(ch, c.fn, after)
  BY OtherContracts
<1>3. AcceptsTreasury(ch, c.fn, after)
  <2>1. c.fn # <<"sm", "treasury">> /\ c.fn # <<"fp", "treasury">>
    BY DEF K
  <2> QED BY <2>1 DEF AcceptsTreasury
<1> QED BY <1>1, <1>2, <1>3 DEF Accepts, after

\* Group setters of the stake manager write what they are named for.
LEMMA StakeGroupCovers ==
  ASSUME NEW c, \/ c.fn = K("sm", "recommendations") /\ DOMAIN c.set = Recommendable
                \/ c.fn = K("sm", "slashing") /\ DOMAIN c.set = SlashKeys
                \/ c.fn = K("sm", "autoStake") /\ DOMAIN c.set = AutoStake
  PROVE  /\ Covers(c) /\ c.fn[1] = "sm" /\ c.fn[2] \in {"recommendations", "slashing", "autoStake"}
         /\ c.fn \notin PercentagesSM \cup ModuleSetters /\ c.fn # K("sm", "treasury")
<1>1. c.fn[1] = "sm" /\ c.fn[2] \in {"recommendations", "slashing", "autoStake"}
  BY DEF K
<1>2. \A k \in Guarded \cup {K("sm", "treasury")} : k[2] \notin {"recommendations", "slashing", "autoStake"}
  BY PercentSetters DEF Guarded, ModuleSetters, K, TaxPolicyKey, PoolTreasury
<1>3. c.fn \notin Guarded /\ c.fn # K("sm", "treasury")
  BY <1>1, <1>2
<1>4. c.fn # ModulesFn /\ c.fn # K("re", "shares") /\ c.fn # K("th", "bounds")
      /\ c.fn # K("th", "integralBounds")
  BY <1>1 DEF K, ModulesFn
<1>5. /\ c.fn = K("sm", "slashing") => SlashKeys \subseteq DOMAIN c.set
      /\ c.fn = K("sm", "recommendations") => Recommendable \subseteq DOMAIN c.set
      /\ c.fn = K("sm", "autoStake") => AutoStake \subseteq DOMAIN c.set
  BY DEF K
<1>6. "sm" \in DOMAIN Scalars
  BY DEF Scalars
<1>7. Covers(c)
  BY <1>1, <1>3, <1>4, <1>5, <1>6 DEF Covers
<1>8. c.fn \notin PercentagesSM \cup ModuleSetters
  BY <1>3 DEF Guarded
<1> QED BY <1>1, <1>3, <1>7, <1>8

LEMMA StakeSum ==
  ASSUME NEW ch, Deployed(ch), ~StakeManagerRefuses(ch, StakeFile)
  PROVE  (\A k \in PercentagesSM : Goal(ch, k) \in Nat) /\ GoalSum(ch) <= 100
<1>1. ~(GoalSum(ch) > 100)
  BY DEF StakeManagerRefuses, GoalSum, Goal
<1>2. \A k \in PercentagesSM : Goal(ch, k) \in Nat
  <2>1. \A k \in PercentagesSM : k # K("sm", "agiTypes")
    BY DEF PercentagesSM, K
  <2> QED BY <2>1, NumbersAreKeys, StakeGoals
<1>3. GoalSum(ch) \in Nat
  <2> DEFINE a == Goal(ch, K("sm", "feePct"))
             b == Goal(ch, K("sm", "burnPct"))
             d == Goal(ch, K("sm", "validatorRewardPct"))
  <2>1. a \in Nat /\ b \in Nat /\ d \in Nat
    BY <1>2 DEF PercentagesSM, K
  <2>2. GoalSum(ch) = a + b + d
    BY DEF GoalSum
  <2> HIDE DEF a, b, d
  <2> QED BY <2>1, <2>2
<1> DEFINE n == GoalSum(ch)
<1>4. n \in Nat /\ ~(n > 100)
  BY <1>1, <1>3
<1> HIDE DEF n
<1>5. n <= 100
  BY <1>4
<1> QED BY <1>2, <1>5 DEF n

LEMMA StakeSingleFit ==
  ASSUME NEW ch, "stakeManager" \in DOMAIN files, NEW c, Single(StakeSingles, ch, StakeFile, c),
         c.fn \in Range(StakeModules) => StakeFile[c.fn] # Zero,
         c.fn = K("sm", "minStake") => c \in Range(StakeLimitsPlan(ch, StakeFile)),
         ~StakeManagerRefuses(ch, StakeFile), Deployed(ch), DOMAIN ch = Keys,
         OwnerOf(ch, "sm") = Signer
  PROVE  Fit(ch, c)
<1> DEFINE after == Over(c.set, ch)
<1>1. PICK k \in StakeSingles : k \in DOMAIN StakeFile /\ c = Lone(StakeFile, k) /\ StakeFile[k] # ch[k]
  BY DEF Single
<1>2. k \in Keys /\ k[1] = "sm" /\ "sm" \in DOMAIN Scalars
  BY SinglesAreKeys, SinglesOf DEF Scalars
<1>3. Covers(c) /\ c.fn = k /\ DOMAIN c.set = {k} /\ c.set[k] = StakeFile[k]
  BY <1>1, <1>2, LoneCovers
<1>4. after[k] = StakeFile[k]
  BY <1>1, <1>2, LoneAfter
<1> HIDE DEF after
<1>5. k[2] \notin {"agiTypes", "increasePct", "decreasePct", "slashing", "recommendations", "autoStake"}
  <2>1. \A x \in StakeSingles : x[2] \notin {"agiTypes", "increasePct", "decreasePct"}
    BY DEF StakeSingles, Names, Each3
  <2>2. k[2] \notin {"slashing", "recommendations", "autoStake"}
    BY <1>2, GroupNamesFacts DEF GroupNames
  <2> QED BY <2>1, <2>2
<1>6. k # K("sm", "agiTypes") /\ k # K("sm", "increasePct") /\ k # K("sm", "decreasePct")
  BY <1>5 DEF K
<1>7. k \in Numbers => StakeFile[k] \in Nat
  BY <1>1, <1>6, StakeGoals
<1>8. Differs(ch, StakeFile, k) /\ Target(ch, StakeFile, k) = StakeFile[k]
  BY <1>1 DEF Differs, Target
<1> DEFINE v == StakeFile[k]
<1>9. k \in ModuleSetters => v \in Version2
  <2>1. k \in ModuleSetters => k \in ToSet(StakeModules)
    <3> SUFFICES ASSUME k \in ModuleSetters PROVE k \in ToSet(StakeModules)
      OBVIOUS
    <3> DEFINE ns == <<"jobRegistry", "disputeModule", "validationModule", "feePool">>
    <3>1. PICK n \in {ns[i] : i \in DOMAIN ns} : k = <<"sm", n>>
      <4>1. k \in {<<"sm", "jobRegistry">>, <<"sm", "disputeModule">>, <<"sm", "validationModule">>,
                   <<"sm", "feePool">>}
        BY <1>2 DEF ModuleSetters
      <4>2. ns[1] = "jobRegistry" /\ ns[2] = "disputeModule" /\ ns[3] = "validationModule"
            /\ ns[4] = "feePool" /\ DOMAIN ns = 1 .. 4
        OBVIOUS
      <4> HIDE DEF ns
      <4> QED BY <4>1, <4>2
    <3>2. PICK i \in DOMAIN ns : n = ns[i]
      BY <3>1
    <3>3. i \in DOMAIN StakeModules /\ StakeModules[i] = k
      BY <3>1, <3>2 DEF StakeModules, Named
    <3> QED BY <3>3 DEF ToSet
  <2>2. k \in Range(StakeModules) <=> k \in ToSet(StakeModules)
    BY RangeIsToSet
  <2>3. k \in ToSet(StakeModules) => v \in Version2 \cup {Zero}
    BY <1>1 DEF StakeManagerRefuses
  <2> QED BY <1>3, <2>1, <2>2, <2>3
<1>10. k = K("sm", "minStake") => v > 0
  <2> SUFFICES ASSUME k = K("sm", "minStake") PROVE v > 0
    OBVIOUS
  <2>1. c \in ToSet(StakeLimitsPlan(ch, StakeFile))
    BY <1>3, RangeIsToSet
  <2>2. ~(c.set[c.fn] <= 0)
    BY <1>3, <2>1 DEF StakeManagerRefuses
  <2>3. v \in Nat
    BY <1>7 DEF Numbers
  <2>4. ~(v <= 0)
    BY <1>3, <2>2
  <2> HIDE DEF v
  <2> QED BY <2>3, <2>4
<1>11. k = K("sm", "unbondingPeriod") => v > 0
  <2> SUFFICES ASSUME k = K("sm", "unbondingPeriod") PROVE v > 0
    OBVIOUS
  <2>1. ~(v <= 0)
    BY <1>8 DEF StakeManagerRefuses
  <2>2. v \in Nat
    <3>1. k[2] = "unbondingPeriod"
      BY DEF K
    <3> QED BY <1>1, <3>1, ConfigNumbers DEF StakeFile
  <2> HIDE DEF v
  <2> QED BY <2>1, <2>2
<1>12. k = K("sm", "maxAGITypes") => v \in ch[K("sm", "agiTypes")] .. 50
  <2> SUFFICES ASSUME k = K("sm", "maxAGITypes") PROVE v \in ch[K("sm", "agiTypes")] .. 50
    OBVIOUS
  <2> DEFINE types == ch[K("sm", "agiTypes")]
  <2>1. v \in {n \in 1 .. 50 : n >= types}
    BY <1>1, <1>8 DEF StakeManagerRefuses
  <2>2. types \in Nat
    BY DEF Deployed, Numbers
  <2> HIDE DEF v, types
  <2>3. v \in types .. 50
    BY <2>1, <2>2
  <2> QED BY <2>3 DEF types
<1>13. k = K("sm", "maxTotalPayoutPct") => v \in 100 .. 200
  BY <1>1, <1>8 DEF StakeManagerRefuses
<1> HIDE DEF v
<1>14. after[k] = v
  BY <1>4 DEF v
<1>15. k \notin PercentagesSM => AcceptsSM(ch, k, after)
  BY <1>5, <1>10, <1>11, <1>12, <1>13, <1>14 DEF AcceptsSM, K
<1>16. k = K("sm", "treasury") => k \in Excused
  BY DEF Excused, OrderBlind
<1>17. c.fn \in PercentagesSM \cup Excused \/ Accepts(ch, c)
  BY <1>2, <1>3, <1>9, <1>14, <1>15, <1>16, StakeAccepts DEF after
<1>18. (\A x \in PercentagesSM : Goal(ch, x) \in Nat) /\ GoalSum(ch) <= 100
  BY StakeSum
<1>19. \A x \in DOMAIN c.set : x = k
  BY <1>3
<1>20. \A x \in DOMAIN c.set \cap {K("sm", "increasePct"), K("sm", "decreasePct")} : c.set[x] <= 100
  BY <1>6, <1>19
<1>21. \A x \in DOMAIN c.set \cap Numbers : c.set[x] \in Nat
  BY <1>3, <1>7, <1>19
<1>22. \A x \in DOMAIN c.set \cap PercentagesSM :
         c.fn = x /\ x \in DOMAIN StakeFile /\ c.set[x] = StakeFile[x]
  BY <1>1, <1>3, <1>19
<1>23. \A x \in DOMAIN c.set : x[1] = "sm" /\ x # K("sm", "agiTypes")
  BY <1>2, <1>6, <1>19
<1>24. c.fn[1] = "sm"
  BY <1>2, <1>3
<1> QED BY <1>3, <1>17, <1>18, <1>20, <1>21, <1>22, <1>23, <1>24, StakeFits

LEMMA RecommendingFit ==
  ASSUME NEW ch, NEW c, Recommending(ch, StakeFile, c), ~StakeManagerRefuses(ch, StakeFile),
         Deployed(ch), DOMAIN ch = Keys, OwnerOf(ch, "sm") = Signer
  PROVE  Fit(ch, c)
<1> DEFINE after == Over(c.set, ch)
           rec == Recommended(StakeFile)
           fn == K("sm", "recommendations")
           min == Target(ch, rec, K("sm", "minStake"))
           max == Target(ch, rec, K("sm", "maxStake"))
<1>1. c = Joint(ch, rec, fn, Recommendable) /\ DOMAIN rec # {}
  BY DEF Recommending
<1>2. ~(min <= 0) /\ ~(max # 0 /\ max < min)
  BY <1>1 DEF StakeManagerRefuses
<1>3. \A k \in Recommendable : Target(ch, rec, k) \in Nat
  BY StakeGoals
<1> HIDE DEF rec, fn
<1>4. /\ c.fn = fn /\ DOMAIN c.set = Recommendable
      /\ \A k \in Recommendable : c.set[k] = Target(ch, rec, k) /\ after[k] = Target(ch, rec, k)
  BY <1>1, GroupsAreKeys, JointFacts
<1> HIDE DEF after
<1>5. min \in Nat /\ max \in Nat /\ after[<<"sm", "minStake">>] = min /\ after[<<"sm", "maxStake">>] = max
  BY <1>3, <1>4 DEF Recommendable, K
<1> HIDE DEF min, max
<1>6. min > 0 /\ (max = 0 \/ max >= min)
  BY <1>2, <1>5
<1>7. /\ Covers(c) /\ c.fn[1] = "sm" /\ c.fn[2] \in {"recommendations", "slashing", "autoStake"}
      /\ c.fn \notin PercentagesSM \cup ModuleSetters /\ c.fn # K("sm", "treasury")
  BY <1>4, StakeGroupCovers DEF fn
<1>8. AcceptsSM(ch, c.fn, after)
  BY <1>4, <1>5, <1>6, <1>7 DEF AcceptsSM, fn, K
<1>9. Accepts(ch, c)
  BY <1>7, <1>8, StakeAccepts DEF after
<1>10. \A k \in DOMAIN c.set : k[1] = "sm" /\ k[2] \in {"minStake", "maxStake"} /\ c.set[k] \in Nat
  BY <1>3, <1>4 DEF Recommendable, K
<1>11. \A k \in DOMAIN c.set : k \notin PercentagesSM /\ k # K("sm", "agiTypes")
                               /\ k # K("sm", "increasePct") /\ k # K("sm", "decreasePct")
  BY <1>10, PercentSetters DEF K
<1> QED BY <1>7, <1>9, <1>10, <1>11, StakeFits

LEMMA SlashFit ==
  ASSUME NEW ch, NEW c, c = Joint(ch, StakeFile, K("sm", "slashing"), SlashKeys),
         SlashKeys \cap DOMAIN StakeFile # {}, ~StakeManagerRefuses(ch, StakeFile),
         Deployed(ch), DOMAIN ch = Keys, OwnerOf(ch, "sm") = Signer
  PROVE  Fit(ch, c)
<1> DEFINE after == Over(c.set, ch)
           fn == K("sm", "slashing")
           a == Target(ch, StakeFile, K("sm", "employerSlashPct"))
           b == Target(ch, StakeFile, K("sm", "treasurySlashPct"))
<1>1. ~(a + b > 100)
  BY DEF StakeManagerRefuses, SlashKeys
<1>2. \A k \in SlashKeys : k[1] = "sm" /\ k[2] \in {"employerSlashPct", "treasurySlashPct"} /\ k \in Numbers
  BY DEF SlashKeys, Numbers, K
<1>3. \A k \in SlashKeys : k \notin PercentagesSM /\ k # K("sm", "agiTypes")
                           /\ k # K("sm", "increasePct") /\ k # K("sm", "decreasePct")
  BY <1>2, PercentSetters DEF K
<1>4. \A k \in SlashKeys : Target(ch, StakeFile, k) \in Nat
  BY <1>2, <1>3, StakeGoals DEF Goal
<1> HIDE DEF fn
<1>5. /\ c.fn = fn /\ DOMAIN c.set = SlashKeys
      /\ \A k \in SlashKeys : c.set[k] = Target(ch, StakeFile, k) /\ after[k] = Target(ch, StakeFile, k)
  BY GroupsAreKeys, JointFacts DEF fn
<1> HIDE DEF after
<1>6. /\ a \in Nat /\ b \in Nat
      /\ after[<<"sm", "employerSlashPct">>] = a /\ after[<<"sm", "treasurySlashPct">>] = b
  BY <1>4, <1>5 DEF SlashKeys, K
<1> HIDE DEF a, b
<1>7. a + b <= 100
  BY <1>1, <1>6
<1>8. /\ Covers(c) /\ c.fn[1] = "sm" /\ c.fn[2] \in {"recommendations", "slashing", "autoStake"}
      /\ c.fn \notin PercentagesSM \cup ModuleSetters /\ c.fn # K("sm", "treasury")
  BY <1>5, StakeGroupCovers DEF fn
<1>9. AcceptsSM(ch, c.fn, after)
  BY <1>5, <1>6, <1>7, <1>8 DEF AcceptsSM, SumSlash, fn, K
<1>10. Accepts(ch, c)
  BY <1>8, <1>9, StakeAccepts DEF after
<1> QED BY <1>2, <1>3, <1>4, <1>5, <1>8, <1>10, StakeFits

LEMMA AutoStakeFit ==
  ASSUME NEW ch, NEW c, c = Joint(ch, StakeFile, K("sm", "autoStake"), AutoStake),
         Deployed(ch), DOMAIN ch = Keys, OwnerOf(ch, "sm") = Signer
  PROVE  Fit(ch, c)
<1> DEFINE after == Over(c.set, ch)
           fn == K("sm", "autoStake")
<1>1. \A k \in AutoStake :
        /\ k[1] = "sm"
        /\ k[2] \notin {"feePct", "burnPct", "validatorRewardPct", "agiTypes"}
        /\ k \in Numbers => k \in {K("sm", "increasePct"), K("sm", "decreasePct")}
  BY DEF AutoStake, Numbers, K
<1>2. \A k \in AutoStake : k \notin PercentagesSM /\ k # K("sm", "agiTypes")
  BY <1>1, PercentSetters DEF K
<1> HIDE DEF fn
<1>3. /\ c.fn = fn /\ DOMAIN c.set = AutoStake
      /\ \A k \in AutoStake : c.set[k] = Goal(ch, k) /\ after[k] = Goal(ch, k)
  BY GroupsAreKeys, JointFacts DEF fn, Goal
<1> HIDE DEF after
<1>4. \A k \in {K("sm", "increasePct"), K("sm", "decreasePct")} :
        k \in AutoStake /\ Goal(ch, k) <= 100 /\ (k \in Numbers => Goal(ch, k) \in Nat)
  <2>1. \A k \in {K("sm", "increasePct"), K("sm", "decreasePct")} : k \in AutoStake
    BY DEF AutoStake
  <2>2. \A k \in {K("sm", "increasePct"), K("sm", "decreasePct")} : k # K("sm", "agiTypes")
    BY DEF K
  <2> QED BY <2>1, <2>2, StakeGoals
<1>5. after[<<"sm", "increasePct">>] <= 100 /\ after[<<"sm", "decreasePct">>] <= 100
  <2>1. /\ K("sm", "increasePct") \in AutoStake /\ K("sm", "decreasePct") \in AutoStake
        /\ Goal(ch, K("sm", "increasePct")) <= 100 /\ Goal(ch, K("sm", "decreasePct")) <= 100
    BY <1>4
  <2>2. after[K("sm", "increasePct")] <= 100 /\ after[K("sm", "decreasePct")] <= 100
    BY <1>3, <2>1
  <2> QED BY <2>2 DEF K
<1>6. /\ Covers(c) /\ c.fn[1] = "sm" /\ c.fn[2] \in {"recommendations", "slashing", "autoStake"}
      /\ c.fn \notin PercentagesSM \cup ModuleSetters /\ c.fn # K("sm", "treasury")
  BY <1>3, StakeGroupCovers DEF fn
<1>7. AcceptsSM(ch, c.fn, after)
  BY <1>3, <1>5, <1>6 DEF AcceptsSM, fn, K
<1>8. Accepts(ch, c)
  BY <1>6, <1>7, StakeAccepts DEF after
<1>9. \A k \in DOMAIN c.set \cap Numbers : c.set[k] \in Nat
  BY <1>1, <1>3, <1>4
<1>10. \A k \in DOMAIN c.set \cap {K("sm", "increasePct"), K("sm", "decreasePct")} : c.set[k] <= 100
  BY <1>3, <1>4
<1>11. \A k \in DOMAIN c.set : k[1] = "sm" /\ k # K("sm", "agiTypes") /\ k \notin PercentagesSM
  BY <1>1, <1>2, <1>3
<1> QED BY <1>6, <1>8, <1>9, <1>10, <1>11, StakeFits

LEMMA StakeFit ==
  ASSUME NEW ch, "stakeManager" \in DOMAIN files, NEW c, StakeCall(ch, StakeFile, c),
         c.fn = K("sm", "minStake") => c \in Range(StakeLimitsPlan(ch, StakeFile)),
         ~StakeManagerRefuses(ch, StakeFile), Deployed(ch), DOMAIN ch = Keys,
         OwnerOf(ch, "sm") = Signer
  PROVE  Fit(ch, c)
BY StakeSingleFit, RecommendingFit, SlashFit, AutoStakeFit DEF StakeCall

\* The treasury of the pool's file is an account, and not the pool's owner.
LEMMA PoolTreasuryFacts ==
  ASSUME NEW ch, FilesOK, "feePool" \in DOMAIN files, PoolTreasury \in DOMAIN PoolFile,
         ~FeePoolRefuses(ch, PoolFile), OwnerOf(ch, "fp") = Signer
  PROVE  /\ PoolFile[PoolTreasury] \in Members \cup {Zero} /\ PoolFile[PoolTreasury] # Signer
         /\ PoolFile[PoolTreasury] # Zero => TreasuryGiven
<1> DEFINE s == "feePool"
           t == PoolTreasury
           v == Given(files[s], t)
           w == PoolFile[t]
<1>1. w = EnsureAddress(v) /\ w # Throw
  <2>1. PoolTreasury \in DOMAIN Config(s)
    BY DEF PoolFile
  <2>2. Config(s)[t] = Read(s, files[s], t) /\ Config(s)[t] \notin {Skip, Throw}
    BY <2>1, ConfigFacts
  <2>3. ReadOwn(files[s], t) = EnsureAddress(v)
    BY TreasuryReading DEF PoolTreasury
  <2> QED BY <2>2, <2>3 DEF Read, PoolFile
<1>2. v \in Members \cup {Zero, Signer, Null, Empty, Blank, Junk}
  BY FilesFacts DEF PoolTreasury
<1>3. w # Signer
  BY DEF FeePoolRefuses, PoolTreasury
<1>4. w \in Members \cup {Zero}
  <2> HIDE DEF v, w
  <2>1. \/ EnsureAddress(v) = Zero
        \/ EnsureAddress(v) = Throw
        \/ EnsureAddress(v) = v /\ v \notin {Null, Empty, Blank, Junk}
    BY DEF EnsureAddress
  <2> QED BY <1>1, <1>2, <1>3, <2>1
<1>5. w # Zero => TreasuryGiven
  BY <1>4 DEF TreasuryGiven
<1> QED BY <1>3, <1>4, <1>5

\* A call of the pool: what is left of the conditions.
LEMMA PoolFits ==
  ASSUME NEW ch, NEW c, Covers(c), c.fn[1] = "fp", OwnerOf(ch, "fp") = Signer,
         \A k \in DOMAIN c.set : k[1] = "fp",
         c.fn = PoolTreasury \/ Accepts(ch, c),
         c.fn = PoolTreasury => /\ "feePool" \in DOMAIN files /\ PoolTreasury \in DOMAIN PoolFile
                                /\ c.set[PoolTreasury] = PoolFile[PoolTreasury]
                                /\ c.set[PoolTreasury] \in Members \cup {Zero}
                                /\ c.set[PoolTreasury] # Signer,
         TreasuryGiven => /\ c.fn = TreasuryEntry => TreasuryEntry \in DOMAIN c.set
                          /\ TreasuryEntry \in DOMAIN c.set => c.set[TreasuryEntry] = TRUE
  PROVE  Fit(ch, c)
<1>1. DOMAIN c.set \cap Fixed = {}
  BY DEF Fixed, K
<1>2. DOMAIN c.set \cap Numbers = {} /\ DOMAIN c.set \cap PercentagesSM = {}
      /\ DOMAIN c.set \cap {K("sm", "increasePct"), K("sm", "decreasePct")} = {}
  BY NumbersAreKeys
<1>3. c.fn \notin PercentagesSM
  BY PercentSetters
<1> QED BY <1>1, <1>2, <1>3 DEF Fit

LEMMA PoolAccepts ==
  ASSUME NEW ch, NEW c, c.fn[1] = "fp", OwnerOf(ch, "fp") = Signer, c.fn # PoolTreasury,
         c.fn \in ModuleSetters => Over(c.set, ch)[c.fn] \in Version2,
         AcceptsFP(ch, c.fn, Over(c.set, ch))
  PROVE  Accepts(ch, c)
<1> DEFINE after == Over(c.set, ch)
<1> HIDE DEF after
<1>1. AcceptsFP(ch, c.fn, after) /\ (c.fn \in ModuleSetters => after[c.fn] \in Version2)
  BY DEF after
<1>2. /\ AcceptsJR(ch, c.fn, after) /\ AcceptsSM(ch, c.fn, after) /\ AcceptsRE(ch, c.fn, after)
      /\ AcceptsTH(ch, c.fn, after) /\ AcceptsSP(ch, c.fn, after)
  BY OtherContracts
<1>3. AcceptsTreasury(ch, c.fn, after)
  <2>1. c.fn # <<"sm", "treasury">> /\ c.fn # <<"fp", "treasury">>
    BY DEF K, PoolTreasury
  <2> QED BY <2>1 DEF AcceptsTreasury
<1> QED BY <1>1, <1>2, <1>3 DEF Accepts, after

LEMMA PoolSingleFit ==
  ASSUME NEW ch, FilesOK, "feePool" \in DOMAIN files, NEW c, Single(PoolSingles, ch, PoolFile, c),
         c.fn \in FeePoolAddresses => PoolFile[c.fn] # Zero,
         ~FeePoolRefuses(ch, PoolFile), DOMAIN ch = Keys, OwnerOf(ch, "fp") = Signer
  PROVE  Fit(ch, c)
<1> DEFINE after == Over(c.set, ch)
<1>1. PICK k \in PoolSingles : k \in DOMAIN PoolFile /\ c = Lone(PoolFile, k) /\ PoolFile[k] # ch[k]
  BY DEF Single
<1>2. k \in Keys /\ k[1] = "fp" /\ "fp" \in DOMAIN Scalars
  BY SinglesAreKeys, SinglesOf DEF Scalars
<1>3. Covers(c) /\ c.fn = k /\ DOMAIN c.set = {k} /\ c.set[k] = PoolFile[k]
  BY <1>1, <1>2, LoneCovers
<1>4. after[k] = PoolFile[k]
  BY <1>1, <1>2, LoneAfter
<1> HIDE DEF after
<1> DEFINE v == PoolFile[k]
<1>5. k \in FeePoolAddresses => v # Zero /\ v # ch[k]
  BY <1>1, <1>3
<1>6. k \in ModuleSetters => v \in Version2
  <2>1. k \in ModuleSetters => k = K("fp", "stakeManager")
    BY <1>2 DEF ModuleSetters, K
  <2>2. k = K("fp", "stakeManager") => v \in Version2
    BY <1>1, <1>5 DEF FeePoolRefuses, FeePoolAddresses
  <2> QED BY <2>1, <2>2
<1>7. k = K("fp", "taxPolicy") => v \in Exempt
  BY <1>1, <1>5 DEF FeePoolRefuses, FeePoolAddresses
<1>8. k = K("fp", "governance") => v # Zero
  BY <1>5 DEF FeePoolAddresses
<1>9. k = K("fp", "burnPct") => v <= 100
  <2>1. K("fp", "burnPct") \in Percents
    BY DEF Percents
  <2>2. k \in Percents => v \in 0 .. 100
    BY <1>1, ConfigNumbers DEF PoolFile
  <2> QED BY <2>1, <2>2
<1>10. after[k] = v
  BY <1>4
<1>11. k = PoolTreasury => /\ PoolTreasury \in DOMAIN PoolFile
                           /\ c.set[PoolTreasury] = PoolFile[PoolTreasury]
                           /\ c.set[PoolTreasury] \in Members \cup {Zero}
                           /\ c.set[PoolTreasury] # Signer
  BY <1>1, <1>3, PoolTreasuryFacts
<1>12. TreasuryGiven /\ k = TreasuryEntry => v = TRUE
  BY <1>1, EntryIsAllowed
<1> HIDE DEF v
<1>13. AcceptsFP(ch, k, after)
  BY <1>7, <1>8, <1>9, <1>10 DEF AcceptsFP, K
<1>14. c.fn = PoolTreasury \/ Accepts(ch, c)
  BY <1>2, <1>3, <1>6, <1>10, <1>13, PoolAccepts DEF after
<1>15. c.set[k] = v
  BY <1>3 DEF v
<1>16. TreasuryGiven => /\ c.fn = TreasuryEntry => TreasuryEntry \in DOMAIN c.set
                        /\ TreasuryEntry \in DOMAIN c.set => c.set[TreasuryEntry] = TRUE
  BY <1>3, <1>12, <1>15
<1>17. c.fn[1] = "fp" /\ \A x \in DOMAIN c.set : x[1] = "fp"
  BY <1>2, <1>3
<1> QED BY <1>3, <1>11, <1>14, <1>16, <1>17, PoolFits

LEMMA PoolFit ==
  ASSUME NEW ch, FilesOK, "feePool" \in DOMAIN files, NEW c, PoolCall(ch, PoolFile, c),
         ~FeePoolRefuses(ch, PoolFile), DOMAIN ch = Keys, OwnerOf(ch, "fp") = Signer
  PROVE  Fit(ch, c)
<1> DEFINE t == PoolTreasury
           a == <<"fp", "allow", PoolFile[t]>>
<1>1. CASE Single(PoolSingles, ch, PoolFile, c) /\ (c.fn \in FeePoolAddresses => PoolFile[c.fn] # Zero)
  BY <1>1, PoolSingleFit
<1>2. CASE t \in DOMAIN PoolFile /\ PoolFile[t] # Zero /\ c = [fn |-> a, set |-> Only(a, TRUE)]
  <2>1. a = TreasuryEntry
    BY DEF TreasuryEntry
  <2>2. c.fn = a /\ c.set = Only(a, TRUE)
    BY <1>2
  <2>3. a[1] = "fp" /\ a[2] = "allow"
    OBVIOUS
  <2> HIDE DEF a
  <2>4. DOMAIN c.set = {a} /\ c.set[a] = TRUE
    <3>1. DOMAIN Only(a, TRUE) = {a} /\ Only(a, TRUE)[a] = TRUE
      BY OnlyFacts
    <3> QED BY <2>2, <3>1
  <2>5. \A k \in Guarded \cup {K("sm", "slashing"), K("sm", "recommendations"), K("sm", "autoStake"),
                               K("re", "shares"), K("th", "bounds"), K("th", "integralBounds"), ModulesFn} :
          k[2] # "allow"
    BY PercentSetters DEF Guarded, ModuleSetters, K, TaxPolicyKey, ModulesFn, PoolTreasury
  <2>6. "fp" \in DOMAIN Scalars
    BY DEF Scalars
  <2>7. Covers(c)
    BY <2>2, <2>3, <2>5, <2>6 DEF Covers
  <2> DEFINE after == Over(c.set, ch)
  <2> HIDE DEF after
  <2>8. AcceptsFP(ch, c.fn, after) /\ c.fn \notin ModuleSetters /\ c.fn # PoolTreasury
    BY <2>2, <2>3, <2>5 DEF AcceptsFP, Guarded
  <2>9. Accepts(ch, c)
    BY <2>2, <2>3, <2>8, PoolAccepts DEF after
  <2> QED BY <2>1, <2>2, <2>3, <2>4, <2>7, <2>8, <2>9, PoolFits
<1> QED BY <1>1, <1>2 DEF PoolCall, PoolTreasury

LEMMA PlannedFit ==
  ASSUME FilesOK, NEW s \in DOMAIN files, s # "economics", NEW ch, NEW c,
         ScriptCall(s, ch, Config(s), c),
         s = "stakeManager" /\ c.fn = K("sm", "minStake") => c \in Range(StakeLimitsPlan(ch, StakeFile)),
         ~NotOwner(s, ch, Config(s)), ~Refuses(s, ch, Config(s)), Deployed(ch), DOMAIN ch = Keys
  PROVE  Fit(ch, c)
<1>1. s \in Scripts
  BY FilesFacts
<1>2. \A x \in Contracts(s, Config(s)) : OwnerOf(ch, x) = Signer
  BY DEF NotOwner
<1>3. CASE s = "jobRegistry"
  <2>1. OwnerOf(ch, "jr") = Signer
    BY <1>2, <1>3 DEF Contracts
  <2> QED BY <1>3, <2>1, RegistryFit DEF ScriptCall
<1>4. CASE s = "stakeManager"
  <2>1. OwnerOf(ch, "sm") = Signer
    BY <1>2, <1>4 DEF Contracts
  <2>2. StakeCall(ch, StakeFile, c) /\ ~StakeManagerRefuses(ch, StakeFile)
    BY <1>4 DEF ScriptCall, Refuses, StakeFile
  <2> QED BY <1>4, <2>1, <2>2, StakeFit
<1>5. CASE s = "feePool"
  <2>1. OwnerOf(ch, "fp") = Signer
    BY <1>2, <1>5 DEF Contracts
  <2>2. PoolCall(ch, PoolFile, c) /\ ~FeePoolRefuses(ch, PoolFile)
    BY <1>5 DEF ScriptCall, Refuses, PoolFile
  <2> QED BY <1>5, <2>1, <2>2, PoolFit
<1>6. CASE s = "incentives"
  <2>1. OwnerOf(ch, "pi") = Signer
    BY <1>2, <1>6 DEF Contracts
  <2> QED BY <1>6, <2>1, IncentivesFit DEF ScriptCall
<1>7. CASE s = "taxPolicy"
  <2>1. OwnerOf(ch, "tp") = Signer
    BY <1>2, <1>7 DEF Contracts
  <2> QED BY <1>7, <2>1, TaxFit DEF ScriptCall
<1>8. CASE s = "thermodynamics"
  <2>1. ThermoPlanned(ch, Config("thermodynamics"), c) /\ ~ThermodynamicsRefuses(ch, Config("thermodynamics"))
    BY <1>8 DEF ScriptCall, Refuses
  <2>2. OwnerOf(ch, "re") = Signer /\ (c.fn[1] = "re" \/ OwnerOf(ch, "th") = Signer)
    BY <1>2, <1>8, <2>1 DEF Contracts, ThermoPlanned
  <2> QED BY <1>8, <2>1, <2>2, ThermoFit DEF ThermoPlanned
<1>9. CASE s = "systemPause"
  <2>1. OwnerOf(ch, "sp") = Signer
    BY <1>2, <1>9 DEF Contracts
  <2>2. PauseCall(ch, Config("systemPause"), c) /\ ~SystemPauseRefuses(ch, Config("systemPause"))
    BY <1>9 DEF ScriptCall, Refuses
  <2> QED BY <1>9, <2>1, <2>2, PauseFit
<1> QED BY <1>1, <1>3, <1>4, <1>5, <1>6, <1>7, <1>8, <1>9, ScriptNames

\* Calls of the other scripts set neither a percentage nor the pool's treasury.
LEMMA ForeignCalls ==
  ASSUME NEW ch, NEW cfg, NEW c,
         \/ RegistryCall(ch, cfg, c)
         \/ IncentivesCall(ch, cfg, c)
         \/ TaxCall(ch, cfg, c)
         \/ ThermoCall(ch, cfg, c)
         \/ PauseCall(ch, cfg, c)
  PROVE  c.fn \notin PercentagesSM /\ c.fn # PoolTreasury
<1>1. c.fn[1] \notin {"sm", "fp"}
  <2>1. CASE RegistryCall(ch, cfg, c)
    BY <2>1, LoneFields, SinglesOf DEF RegistryCall, Single
  <2>2. CASE IncentivesCall(ch, cfg, c)
    <3>1. c.fn = K("pi", "modules")
      BY <2>2 DEF IncentivesCall, Joint
    <3> QED BY <3>1 DEF K
  <2>3. CASE TaxCall(ch, cfg, c)
    <3>1. (\E k \in TaxSingles : c = Lone(cfg, k)) => c.fn[1] = "tp"
      BY LoneFields, SinglesOf
    <3>2. (\E set : c = Policy(set)) => c.fn[1] = "tp"
      BY DEF Policy, K
    <3>3. (\E k \in TaxSingles : c = Lone(cfg, k)) \/ \E set : c = Policy(set)
      BY <2>3 DEF TaxCall
    <3> QED BY <3>1, <3>2, <3>3
  <2>4. CASE ThermoCall(ch, cfg, c)
    <3>1. Single(ThermoSingles \ RoleTemps, ch, cfg, c) => c.fn[1] \in {"re", "th"}
      BY LoneFields, SinglesOf DEF Single
    <3>2. (\E k \in RoleTemps : c = Lone(cfg, k)) => c.fn[1] = "th"
      <4>1. \A k \in RoleTemps : k[1] = "th"
        BY DEF RoleTemps
      <4> QED BY <4>1, LoneFields
    <3>3. (\E k \in RoleTemps : c = [fn |-> <<"th", "unset", k[3]>>, set |-> Only(k, 0)]) => c.fn[1] = "th"
      OBVIOUS
    <3>4. c = Joint(ch, cfg, K("re", "shares"), Shares) => c.fn[1] = "re"
      BY DEF Joint, K
    <3>5. (\E g \in ThermoGroups : c = Joint(ch, cfg, g.fn, g.keys)) => c.fn[1] = "th"
      BY GroupsAreKeys DEF Joint
    <3> QED BY <2>4, <3>1, <3>2, <3>3, <3>4, <3>5 DEF ThermoCall
  <2>5. CASE PauseCall(ch, cfg, c)
    BY <2>5 DEF PauseCall, K
  <2> QED BY <2>1, <2>2, <2>3, <2>4, <2>5
<1>2. PoolTreasury[1] = "fp"
  BY DEF PoolTreasury, K
<1> QED BY <1>1, <1>2, PercentSetters

LEMMA PlanOrdered ==
  ASSUME NEW s \in Scripts, s # "economics", NEW ch, NEW history,
         ~Refuses(s, ch, Config(s)), Deployed(ch)
  PROVE  Ordered(ch, Plan(s, ch, Config(s), history))
<1> DEFINE cfg == Config(s)
           p == Plan(s, ch, cfg, history)
<1>1. CASE s = "stakeManager"
  <2>1. p = StakeManagerPlan(ch, StakeFile)
    BY <1>1 DEF Plan, StakeFile
  <2>2. \A k \in PercentagesSM : Goal(ch, k) \in Nat /\ ch[k] \in Nat
    <3>1. \A k \in PercentagesSM : k \in Numbers /\ k # K("sm", "agiTypes")
      BY NumbersAreKeys DEF PercentagesSM, K
    <3> QED BY <3>1, StakeGoals DEF Deployed
  <2>3. Ordered(ch, StakePercentPlan(ch, StakeFile))
    BY <2>2, PercentPlanOrdered
  <2>4. Ordered(ch, StakeManagerPlan(ch, StakeFile))
    BY <2>3, StakePlanOrdered
  <2> QED BY <2>1, <2>4
<1>2. CASE s = "feePool"
  <2>1. p = FeePoolAllowlist(ch, PoolFile) \o FeePoolPlan(ch, PoolFile) \o FeePoolRewarders(ch, PoolFile)
    BY <1>2 DEF Plan, PoolFile
  <2>2. ~FeePoolRefuses(ch, PoolFile)
    BY <1>2 DEF Refuses, PoolFile
  <2> QED BY <2>1, <2>2, PoolPlanOrdered
<1>3. CASE s \notin {"stakeManager", "feePool"}
  <2>1. \A c \in Range(p) : ScriptCall(s, ch, cfg, c)
    BY PlanFacts
  <2> HIDE DEF p, cfg
  <2>2. \A c \in Range(p) : c.fn \notin PercentagesSM /\ c.fn # PoolTreasury
    <3> SUFFICES ASSUME NEW c \in Range(p) PROVE c.fn \notin PercentagesSM /\ c.fn # PoolTreasury
      OBVIOUS
    <3>1. \/ RegistryCall(ch, cfg, c)
          \/ IncentivesCall(ch, cfg, c)
          \/ TaxCall(ch, cfg, c)
          \/ ThermoCall(ch, cfg, c)
          \/ PauseCall(ch, cfg, c)
      BY <1>3, <2>1, ScriptNames DEF ScriptCall, ThermoPlanned
    <3> QED BY <3>1, ForeignCalls
  <2>3. Ordered(ch, p)
    BY <2>2, PlainIsOrdered
  <2> QED BY <2>3 DEF p, cfg
<1> QED BY <1>1, <1>2, <1>3

-----------------------------------------------------------------------------
(* The invariant: what is planned or on its way is fit, and in an order in   *)
(* which nothing is refused that the plan did not leave to chance.           *)

CarefulAt(ch, p, m, w) ==
  /\ Deployed(ch)
  /\ \A c \in Range(p) \cup Range(m) : Fit(ch, c)
  /\ Ordered(ch, m)
  /\ Backed(ch, Fns(m), p)
  /\ ~w => Ordered(ch, p)

Careful ==
  Undisturbed => (refused # <<>> => refused \in Excused) /\ CarefulAt(chain, plan, mempool, waiting)

LEMMA NoCalls == ASSUME NEW ch, NEW F PROVE Backed(ch, F, <<>>) /\ Fns(<<>>) = {}
BY DEF Backed, Fns

\* A script that has begun.
LEMMA CarefulBegin ==
  ASSUME FilesOK, NEW s \in DOMAIN files, s # "economics", NEW ch, NEW history, NEW q, NEW m, NEW w,
         ~NotOwner(s, ch, Config(s)), ~Refuses(s, ch, Config(s)), DOMAIN ch = Keys, CarefulAt(ch, q, m, w)
  PROVE  CarefulAt(ch, Plan(s, ch, Config(s), history), m, FALSE)
<1> DEFINE p == Plan(s, ch, Config(s), history)
<1>1. s \in Scripts
  BY FilesFacts
<1>2. Deployed(ch)
  BY DEF CarefulAt
<1>3. \A c \in Range(p) : ScriptCall(s, ch, Config(s), c)
  BY <1>1, PlanFacts
<1>4. Ordered(ch, p)
  BY <1>1, <1>2, PlanOrdered
<1>5. ASSUME s = "stakeManager", NEW c \in Range(p), c.fn = K("sm", "minStake")
      PROVE  c \in Range(StakeLimitsPlan(ch, StakeFile))
  <2>1. p = StakeManagerPlan(ch, StakeFile)
    BY <1>5 DEF Plan, StakeFile
  <2>2. \A k \in PercentagesSM : Goal(ch, k) \in Nat /\ ch[k] \in Nat
    <3>1. \A k \in PercentagesSM : k \in Numbers /\ k # K("sm", "agiTypes")
      BY NumbersAreKeys DEF PercentagesSM, K
    <3> QED BY <1>2, <3>1, StakeGoals DEF Deployed
  <2>3. Ordered(ch, StakePercentPlan(ch, StakeFile))
    BY <2>2, PercentPlanOrdered
  <2>4. c \in Range(StakeManagerPlan(ch, StakeFile))
    BY <1>5, <2>1
  <2> QED BY <1>5, <2>3, <2>4, StakePlanOrdered
<1> HIDE DEF p
<1>6. \A c \in Range(p) : Fit(ch, c)
  BY <1>2, <1>3, <1>5, PlannedFit
<1>7. Backed(ch, Fns(m), p)
  BY <1>4, BackedMore DEF Ordered
<1>8. CarefulAt(ch, p, m, FALSE)
  BY <1>2, <1>4, <1>6, <1>7 DEF CarefulAt
<1> QED BY <1>8 DEF p

\* A process that has ended.
LEMMA CarefulEnd ==
  ASSUME NEW ch, NEW p, NEW m, NEW w, NEW v, CarefulAt(ch, p, m, w)
  PROVE  CarefulAt(ch, <<>>, m, v)
<1>1. Range(<<>>) = {}
  BY EmptyIsSeq
<1> QED BY <1>1, NoCalls DEF CarefulAt, Ordered

\* A transaction that is sent.
LEMMA CarefulSend ==
  ASSUME NEW ch, DOMAIN ch = Keys, NEW p, NEW m, IsSeq(p), IsSeq(m), p # <<>>,
         CarefulAt(ch, p, m, FALSE), \A c \in Range(p) \cup Range(m) : Sound(c)
  PROVE  /\ CarefulAt(ch, Tail(p), Append(m, Head(p)), TRUE)
         /\ Accepts(ch, Head(p)) \/ Head(p).fn \in Excused
<1> DEFINE x == Head(p)
           rest == Tail(p)
           more == Append(m, x)
<1>1. /\ Deployed(ch) /\ Ordered(ch, m) /\ Backed(ch, Fns(m), p) /\ Ordered(ch, p)
      /\ \A c \in Range(p) \cup Range(m) : Fit(ch, c)
  BY DEF CarefulAt
<1>2. x \in Range(p) /\ Range(p) = {x} \cup Range(rest)
  BY TailFacts
<1>3. Needs(ch, x) = {}
  <2> DEFINE none == {}
  <2>1. Backed(ch, none, p)
    BY <1>1 DEF Ordered
  <2> HIDE DEF none
  <2>2. Needs(ch, x) \subseteq none
    BY <2>1, BackedTail
  <2> QED BY <2>2 DEF none
<1>4. Backed(ch, Fns(m) \cup {x.fn}, rest)
  BY <1>1, BackedTail
<1> HIDE DEF x, rest
<1>5. IsSeq(more) /\ Range(more) = Range(m) \cup {x}
  BY AppendFacts
<1>6. Backed(ch, {}, more) /\ Fns(more) = Fns(m) \cup {x.fn}
  <2>1. Backed(ch, {}, m) /\ Needs(ch, x) \subseteq {}
    BY <1>1, <1>3 DEF Ordered
  <2> QED BY <2>1, BackedAppend
<1>7. Accepts(ch, x) \/ x.fn \in Excused
  BY <1>1, <1>2, <1>3, Accepted
<1> HIDE DEF more
<1>8. \A c \in Range(rest) \cup Range(more) : Fit(ch, c)
  BY <1>1, <1>2, <1>5
<1>9. CarefulAt(ch, rest, more, TRUE)
  BY <1>1, <1>4, <1>6, <1>8 DEF CarefulAt, Ordered
<1> QED BY <1>7, <1>9 DEF x, rest, more

\* A transaction that is mined.
LEMMA CarefulMine ==
  ASSUME NEW ch, DOMAIN ch = Keys, NEW p, NEW m, NEW w, IsSeq(p), IsSeq(m), m # <<>>,
         CarefulAt(ch, p, m, w), \A c \in Range(p) \cup Range(m) : Sound(c),
         NEW next, next = IF Accepts(ch, Head(m)) THEN Effect(ch, Head(m)) ELSE ch
  PROVE  /\ CarefulAt(next, p, Tail(m), w)
         /\ Accepts(ch, Head(m)) \/ Head(m).fn \in Excused
<1> DEFINE x == Head(m)
           rest == Tail(m)
           f == x.fn
<1>1. /\ Deployed(ch) /\ Ordered(ch, m) /\ Backed(ch, Fns(m), p) /\ (~w => Ordered(ch, p))
      /\ \A c \in Range(p) \cup Range(m) : Fit(ch, c)
  BY DEF CarefulAt
<1>2. x \in Range(m) /\ IsSeq(rest) /\ Range(m) = {x} \cup Range(rest)
  BY TailFacts
<1>3. Sound(x) /\ Fit(ch, x)
  BY <1>1, <1>2
<1>4. /\ Needs(ch, x) \subseteq {} /\ Backed(ch, {} \cup {f}, rest)
      /\ Fns(m) = Fns(rest) \cup {f}
  <2> DEFINE none == {}
  <2>1. Backed(ch, none, m)
    BY <1>1 DEF Ordered
  <2> HIDE DEF none
  <2>2. /\ Needs(ch, x) \subseteq none /\ Backed(ch, none \cup {f}, rest)
        /\ Fns(m) = Fns(rest) \cup {f}
    BY <2>1, BackedTail
  <2> QED BY <2>2 DEF none
<1> HIDE DEF x, rest
<1>5. Accepts(ch, x) \/ f \in Excused
  <2>1. Needs(ch, x) = {}
    BY <1>4
  <2> QED BY <1>1, <1>3, <2>1, Accepted
<1>6. next = IF Accepts(ch, x) THEN Effect(ch, x) ELSE ch
  BY DEF x
<1>7. \A c \in Range(p) \cup Range(rest) : Sound(c) /\ Fit(ch, c)
  BY <1>1, <1>2
<1>8. \A c \in Range(p) \cup Range(rest) : Fit(next, c) /\ Needs(next, c) \subseteq Needs(ch, c) \ {f}
  <2> SUFFICES ASSUME NEW c \in Range(p) \cup Range(rest)
               PROVE  Fit(next, c) /\ Needs(next, c) \subseteq Needs(ch, c) \ {f}
    OBVIOUS
  <2>1. CASE Accepts(ch, x)
    <3>1. next = Effect(ch, x)
      BY <1>6, <2>1
    <3>2. Kept(ch, x, next)
      BY <1>3, <3>1, EffectKeeps
    <3>3. Fit(next, c)
      BY <1>7, <3>2, FitStays DEF Kept
    <3>4. Needs(next, c) \subseteq Needs(ch, c) \ {f}
      BY <1>1, <1>3, <1>7, <3>1, NeedsShrink
    <3> QED BY <3>3, <3>4
  <2>2. CASE ~Accepts(ch, x)
    <3>1. next = ch
      BY <1>6, <2>2
    <3>2. f \notin Needs(ch, c)
      BY <1>1, <1>3, <1>7, <2>2, NeededIsAccepted
    <3> QED BY <1>7, <3>1, <3>2
  <2> QED BY <2>1, <2>2
<1>9. Deployed(next)
  BY <1>1, <1>3, <1>6, DeployedStays
<1> HIDE DEF f
<1>10. Backed(next, {}, rest)
  BY <1>2, <1>4, <1>8, BackedLater
<1>11. Backed(next, Fns(rest), p)
  <2>1. Backed(ch, Fns(rest) \cup {f}, p)
    BY <1>1, <1>4
  <2> QED BY <1>8, <2>1, BackedLater
<1>12. ~w => Backed(next, {}, p)
  <2> SUFFICES ASSUME ~w PROVE Backed(next, {}, p)
    OBVIOUS
  <2>1. Backed(ch, {} \cup {f}, p)
    <3>1. Backed(ch, {}, p)
      BY <1>1 DEF Ordered
    <3> QED BY <3>1, BackedMore
  <2> QED BY <1>8, <2>1, BackedLater
<1>13. CarefulAt(next, p, rest, w)
  BY <1>8, <1>9, <1>10, <1>11, <1>12 DEF CarefulAt, Ordered
<1> QED BY <1>5, <1>13 DEF x, rest, f

\* What the files ask for decides what is careful.
LEMMA FilesDecideCare ==
  ASSUME files' = files
  PROVE  /\ StakeFile' = StakeFile /\ PoolFile' = PoolFile /\ Excused' = Excused
         /\ TreasuryEntry' = TreasuryEntry /\ TreasuryGiven' = TreasuryGiven
<1>1. StakeFile' = StakeFile /\ PoolFile' = PoolFile
  BY DEF StakeFile, PoolFile, Config
<1>2. Excused' = Excused
  BY DEF Excused, Config
<1>3. TreasuryEntry' = TreasuryEntry
  BY <1>1 DEF TreasuryEntry
<1>4. TreasuryGiven' = TreasuryGiven
  BY <1>1 DEF TreasuryGiven
<1> QED BY <1>1, <1>2, <1>3, <1>4

LEMMA FitNext ==
  ASSUME files' = files, NEW c, Fit(chain', c)
  PROVE  Fit(chain, c)'
<1>1. /\ StakeFile' = StakeFile /\ PoolFile' = PoolFile /\ Excused' = Excused
      /\ TreasuryEntry' = TreasuryEntry /\ TreasuryGiven' = TreasuryGiven
  BY FilesDecideCare
<1>2. \A k \in PercentagesSM : Goal(chain, k)' = Goal(chain', k)
  BY <1>1 DEF Goal
<1>3. GoalSum(chain)' = GoalSum(chain')
  BY <1>1 DEF GoalSum, Goal
<1> QED BY <1>1, <1>2, <1>3 DEF Fit

LEMMA BackedNext ==
  ASSUME files' = files, NEW F
  PROVE  /\ Backed(chain', F, plan') => Backed(chain, F, plan)'
         /\ Backed(chain', F, mempool') => Backed(chain, F, mempool)'
<1>1. TreasuryEntry' = TreasuryEntry /\ TreasuryGiven' = TreasuryGiven /\ StakeFile' = StakeFile
  BY FilesDecideCare
<1> QED BY <1>1 DEF Backed, Needs, Rises, Falls, Goal

LEMMA CarefulNext ==
  ASSUME files' = files, CarefulAt(chain', plan', mempool', waiting')
  PROVE  CarefulAt(chain, plan, mempool, waiting)'
<1>1. TreasuryEntry' = TreasuryEntry /\ TreasuryGiven' = TreasuryGiven /\ StakeFile' = StakeFile
  BY FilesDecideCare
<1>2. Deployed(chain')
  BY DEF CarefulAt
<1>3. \A c \in Range(plan') \cup Range(mempool') : Fit(chain, c)'
  BY FitNext DEF CarefulAt
<1>4. Ordered(chain, mempool)' /\ (~waiting' => Ordered(chain, plan)')
  <2> DEFINE none == {}
  <2>1. Backed(chain', none, mempool') /\ (~waiting' => Backed(chain', none, plan'))
    BY DEF CarefulAt, Ordered
  <2> HIDE DEF none
  <2>2. Backed(chain, none, mempool)' /\ (~waiting' => Backed(chain, none, plan)')
    BY <2>1, BackedNext
  <2> QED BY <2>2 DEF Ordered, none
<1>5. Backed(chain, Fns(mempool), plan)'
  BY <1>1 DEF CarefulAt, Backed, Needs, Rises, Falls, Goal, Fns
<1>6. Deployed(chain)'
  BY <1>2 DEF Deployed, SumSM
<1>7. \A c \in Range(plan)' \cup Range(mempool)' : Fit(chain, c)'
  BY <1>3 DEF Range
<1> QED BY <1>4, <1>5, <1>6, <1>7 DEF CarefulAt

LEMMA CarefulStep ==
  ASSUME files' = files, meddled' = meddled,
         Undisturbed => /\ refused' # <<>> => refused' \in Excused
                        /\ CarefulAt(chain', plan', mempool', waiting')
  PROVE  Careful'
<1>1. Undisturbed' = Undisturbed
  BY DEF Undisturbed
<1>2. Excused' = Excused
  BY FilesDecideCare
<1>3. CarefulAt(chain', plan', mempool', waiting') => CarefulAt(chain, plan, mempool, waiting)'
  BY CarefulNext
<1> QED BY <1>1, <1>2, <1>3 DEF Careful

LEMMA CarefulInit == Init => Careful
<1> SUFFICES ASSUME Init PROVE Careful
  OBVIOUS
<1>1. PICK setup \in Setups : chain = setup.chain
  BY DEF Init
<1>2. Deployed(chain)
  BY <1>1, SetupAssumption
<1>3. plan = <<>> /\ mempool = <<>> /\ refused = <<>>
  BY DEF Init
<1>4. CarefulAt(chain, <<>>, <<>>, waiting)
  BY <1>2, EmptyIsSeq, NoCalls DEF CarefulAt, Ordered
<1> QED BY <1>3, <1>4 DEF Careful

LEMMA BeginKeepsCare ==
  ASSUME Inv, Careful, NEW s \in DOMAIN files, NEW rest, Begin(s, rest)
  PROVE  Careful'
<1>1. /\ chain' = chain /\ files' = files /\ mempool' = mempool /\ meddled' = meddled /\ refused' = <<>>
  BY DEF Begin
<1>2. FilesOK /\ DOMAIN chain = Keys
  BY DEF Inv, Shape
<1>3. ASSUME Undisturbed PROVE CarefulAt(chain', plan', mempool', waiting')
  <2>1. CarefulAt(chain, plan, mempool, waiting)
    BY <1>3 DEF Careful
  <2>2. CASE NotOwner(s, chain, Config(s)) \/ Unreadable(s, files[s]) \/ Refuses(s, chain, Config(s))
    <3>1. plan' = <<>> /\ waiting' = FALSE
      BY <2>2 DEF Begin, Fail
    <3> QED BY <1>1, <2>1, <3>1, CarefulEnd
  <2>3. CASE ~(NotOwner(s, chain, Config(s)) \/ Unreadable(s, files[s]) \/ Refuses(s, chain, Config(s)))
    <3>1. PICK history \in BOOLEAN : plan' = Plan(s, chain, Config(s), history)
      BY <2>3 DEF Begin
    <3>2. waiting' = FALSE
      BY <2>3 DEF Begin
    <3>3. s # "economics"
      BY <1>3 DEF Undisturbed
    <3> DEFINE p == Plan(s, chain, Config(s), history)
    <3>4. CarefulAt(chain, p, mempool, FALSE)
      BY <1>2, <2>1, <2>3, <3>3, CarefulBegin
    <3> HIDE DEF p
    <3>5. plan' = p
      BY <3>1 DEF p
    <3> QED BY <1>1, <3>2, <3>4, <3>5
  <2> QED BY <2>2, <2>3
<1> QED BY <1>1, <1>3, CarefulStep

LEMMA SendKeepsCare == ASSUME Inv, Careful, Send PROVE Careful'
<1>1. /\ plan # <<>> /\ waiting = FALSE
      /\ chain' = chain /\ files' = files /\ meddled' = meddled
  BY DEF Send, Inv, Shape
<1>2. /\ IsSeq(plan) /\ IsSeq(mempool) /\ DOMAIN chain = Keys
      /\ \A c \in Range(plan) \cup Range(mempool) : Sound(c)
  BY DEF Inv, Shape, Harmless, Pending
<1>3. ASSUME Undisturbed
      PROVE  /\ refused' # <<>> => refused' \in Excused
             /\ CarefulAt(chain', plan', mempool', waiting')
  <2> DEFINE x == Head(plan)
  <2>1. CarefulAt(chain, plan, mempool, FALSE) /\ (refused # <<>> => refused \in Excused)
    BY <1>1, <1>3 DEF Careful
  <2>2. /\ CarefulAt(chain, Tail(plan), Append(mempool, x), TRUE)
        /\ Accepts(chain, x) \/ x.fn \in Excused
    BY <1>1, <1>2, <2>1, CarefulSend
  <2>3. CASE Accepts(chain, x)
    <3>1. mempool' = Append(mempool, x) /\ plan' = Tail(plan) /\ waiting' = TRUE /\ refused' = refused
      BY <2>3 DEF Send
    <3> QED BY <1>1, <2>1, <2>2, <3>1
  <2>4. CASE ~Accepts(chain, x)
    <3>1. refused' = x.fn /\ plan' = <<>> /\ waiting' = FALSE /\ mempool' = mempool
      BY <2>4 DEF Send, Fail
    <3>2. CarefulAt(chain, <<>>, mempool, FALSE)
      BY <2>1, CarefulEnd
    <3> QED BY <1>1, <2>2, <2>4, <3>1, <3>2
  <2> QED BY <2>3, <2>4
<1> QED BY <1>1, <1>3, CarefulStep

LEMMA MineKeepsCare == ASSUME Inv, Careful, Mine PROVE Careful'
<1> DEFINE x == Head(mempool)
           rest == Tail(mempool)
           heard == waiting /\ Len(mempool) = 1
<1>1. /\ mempool # <<>> /\ mempool' = rest /\ files' = files /\ meddled' = meddled
      /\ chain' = IF Accepts(chain, x) THEN Effect(chain, x) ELSE chain
      /\ refused' = IF Accepts(chain, x) THEN refused ELSE x.fn
  BY DEF Mine
<1>2. /\ IsSeq(plan) /\ IsSeq(mempool) /\ DOMAIN chain = Keys
      /\ \A c \in Range(plan) \cup Range(mempool) : Sound(c)
  BY DEF Inv, Shape, Harmless, Pending
<1>3. \/ plan' = <<>>
      \/ heard /\ waiting' = FALSE /\ plan' = plan
      \/ waiting' = waiting /\ plan' = plan
  BY DEF Mine, Fail
<1>4. heard => rest = <<>>
  BY <1>1, <1>2, TailFacts
<1>5. ASSUME Undisturbed
      PROVE  /\ refused' # <<>> => refused' \in Excused
             /\ CarefulAt(chain', plan', mempool', waiting')
  <2>1. CarefulAt(chain, plan, mempool, waiting) /\ (refused # <<>> => refused \in Excused)
    BY <1>5 DEF Careful
  <2>2. CarefulAt(chain', plan, rest, waiting) /\ (Accepts(chain, x) \/ x.fn \in Excused)
    <3> DEFINE next == chain'
    <3>1. next = IF Accepts(chain, x) THEN Effect(chain, x) ELSE chain
      BY <1>1
    <3> HIDE DEF next
    <3>2. CarefulAt(next, plan, rest, waiting) /\ (Accepts(chain, x) \/ x.fn \in Excused)
      BY <1>1, <1>2, <2>1, <3>1, CarefulMine
    <3> QED BY <3>2 DEF next
  <2>3. refused' # <<>> => refused' \in Excused
    BY <1>1, <2>1, <2>2
  <2> HIDE DEF rest, heard
  <2>4. CASE plan' = <<>>
    <3>1. CarefulAt(chain', <<>>, rest, waiting')
      BY <2>2, CarefulEnd
    <3> QED BY <1>1, <2>3, <2>4, <3>1
  <2>5. CASE waiting' = waiting /\ plan' = plan
    BY <1>1, <2>2, <2>3, <2>5
  <2>6. CASE heard /\ waiting' = FALSE /\ plan' = plan
    <3>1. rest = <<>>
      BY <1>4, <2>6
    <3>2. Ordered(chain', plan)
      <4>1. Backed(chain', Fns(rest), plan)
        BY <2>2 DEF CarefulAt
      <4>2. Fns(rest) = {}
        BY <3>1, NoCalls
      <4> QED BY <4>1, <4>2 DEF Ordered
    <3>3. CarefulAt(chain', plan, rest, FALSE)
      BY <2>2, <3>2 DEF CarefulAt
    <3> QED BY <1>1, <2>3, <2>6, <3>3
  <2> QED BY <1>3, <2>4, <2>5, <2>6
<1> QED BY <1>1, <1>5, CarefulStep

LEMMA FinishKeepsCare == ASSUME Careful, Finish PROVE Careful'
<1>1. UNCHANGED <<chain, files, plan, waiting, mempool, refused, meddled>>
  BY DEF Finish
<1>2. Undisturbed => /\ refused' # <<>> => refused' \in Excused
                     /\ CarefulAt(chain', plan', mempool', waiting')
  BY <1>1 DEF Careful
<1> QED BY <1>1, <1>2, CarefulStep

LEMMA KillKeepsCare == ASSUME Careful, Kill PROVE Careful'
<1>1. plan' = <<>> /\ waiting' = FALSE /\ UNCHANGED <<chain, files, mempool, refused, meddled>>
  BY DEF Kill
<1>2. ASSUME Undisturbed
      PROVE  /\ refused' # <<>> => refused' \in Excused
             /\ CarefulAt(chain', plan', mempool', waiting')
  <2>1. CarefulAt(chain, plan, mempool, waiting) /\ (refused # <<>> => refused \in Excused)
    BY <1>2 DEF Careful
  <2>2. CarefulAt(chain, <<>>, mempool, FALSE)
    BY <2>1, CarefulEnd
  <2> QED BY <1>1, <2>1, <2>2
<1> QED BY <1>1, <1>2, CarefulStep

\* Once others have changed the chain, nothing is said.
LEMMA MeddledKeepsCare == ASSUME meddled' # {} PROVE Careful'
BY DEF Careful, Undisturbed

LEMMA NextKeepsCare == Inv /\ Careful /\ [Next]_vars => Careful'
<1> SUFFICES ASSUME Inv, Careful, [Next]_vars PROVE Careful'
  OBVIOUS
<1>1. CASE \E s \in DOMAIN files : Launch(s)
  BY <1>1, BeginKeepsCare DEF Launch
<1>2. CASE \E names \in SUBSET (DOMAIN files \cap ToSet(Modules)) : ApplyConfig(names)
  <2>1. PICK names \in SUBSET (DOMAIN files \cap ToSet(Modules)) : ApplyConfig(names)
    BY <1>2
  <2> DEFINE selected == Among(Modules, names)
  <2>2. selected # <<>> /\ Begin(Head(selected), Tail(selected))
    BY <2>1 DEF ApplyConfig
  <2>3. IsSeq(Modules)
    <3>1. Modules \in Seq({"jobRegistry", "stakeManager", "feePool", "incentives", "taxPolicy"})
      BY DEF Modules
    <3> QED BY <3>1, SeqIsSeq
  <2>4. IsSeq(selected) /\ Range(selected) \subseteq names
    BY <2>3, AmongFacts
  <2> HIDE DEF selected
  <2>5. Head(selected) \in DOMAIN files
    BY <2>2, <2>4, TailFacts
  <2> QED BY <2>2, <2>5, BeginKeepsCare
<1>3. CASE NextModule
  <2>1. queue # <<>> /\ Begin(Head(queue), Tail(queue))
    BY <1>3 DEF NextModule
  <2>2. Head(queue) \in DOMAIN files
    BY <2>1, TailFacts DEF Inv, Shape
  <2> QED BY <2>1, <2>2, BeginKeepsCare
<1>4. CASE Send
  BY <1>4, SendKeepsCare
<1>5. CASE Mine
  BY <1>5, MineKeepsCare
<1>6. CASE Finish
  BY <1>6, FinishKeepsCare
<1>7. CASE Kill
  BY <1>7, KillKeepsCare
<1>8. CASE Tune
  BY <1>8, MeddledKeepsCare DEF Tune
<1>9. CASE HandOver
  BY <1>9, MeddledKeepsCare DEF HandOver
<1>10. CASE UNCHANGED vars
  <2>1. UNCHANGED <<chain, files, plan, waiting, mempool, refused, meddled>>
    BY <1>10 DEF vars
  <2>2. Undisturbed => /\ refused' # <<>> => refused' \in Excused
                       /\ CarefulAt(chain', plan', mempool', waiting')
    BY <2>1 DEF Careful
  <2> QED BY <2>1, <2>2, CarefulStep
<1> QED BY <1>1, <1>2, <1>3, <1>4, <1>5, <1>6, <1>7, <1>8, <1>9, <1>10 DEF Next

\* Unless others change the chain, a transaction is refused only by a setter whose
\* limits the scripts leave to it, or whose call the plans do not order: what the
\* scripts check before the first transaction still holds when the last is mined,
\* whatever runs are killed in between.
THEOREM RefusalsAreForOrder == Spec => []RefusedOnlyForOrder
<1>1. Init => Inv /\ Careful
  BY InitInv, CarefulInit
<1>2. Inv /\ Careful /\ [Next]_vars => (Inv /\ Careful)'
  BY NextKeepsInv, NextKeepsCare
<1>3. Inv /\ Careful => RefusedOnlyForOrder
  BY DEF Careful, Undisturbed, Excused, RefusedOnlyForOrder
<1> QED BY <1>1, <1>2, <1>3, PTL DEF Spec
=============================================================================
