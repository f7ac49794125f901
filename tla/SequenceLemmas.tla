---------------------------- MODULE SequenceLemmas ----------------------------
(***************************************************************************)
(* What FlattenSeq of the community modules computes, for sequences of any *)
(* length.  Induction is by a least counterexample: the numbers below and  *)
(* the order on them are well founded.                                     *)
(***************************************************************************)
EXTENDS Naturals, SequencesExt, WellFoundedInduction, TLAPS

\* A set of numbers that is not empty has a least member.
LEMMA LeastNumber ==
    ASSUME NEW T \in SUBSET Nat, T # {}
    PROVE  \E m \in T : \A k \in T : m <= k
<1> DEFINE R == OpToRel(<, Nat)
<1>1. \E m \in T : \A k \in T : <<k, m>> \notin R
  <2>1. IsWellFoundedOn(R, Nat)
    BY NatLessThanWellFounded
  <2> HIDE DEF R
  <2>2. QED
    BY <2>1, WFMin
<1>2. \A k, m \in Nat : <<k, m>> \notin R => ~ (k < m)
  BY Zenon DEF OpToRel
<1> HIDE DEF R
<1>3. PICK m \in T : \A k \in T : <<k, m>> \notin R
  BY <1>1
<1>4. \A k \in T : ~ (k < m)
  BY <1>2, <1>3
<1>5. QED
  BY <1>4

\* Induction, for a property given as the set of numbers that have it.
LEMMA SetInduction ==
    ASSUME NEW S, 0 \in S, \A n \in Nat : n \in S => n + 1 \in S
    PROVE  \A n \in Nat : n \in S
<1> SUFFICES ASSUME Nat \ S # {} PROVE FALSE
  OBVIOUS
<1>1. PICK m \in Nat \ S : \A k \in Nat \ S : m <= k
  BY LeastNumber
<1>2. m # 0 /\ m - 1 \in Nat
  BY <1>1
<1>3. m - 1 \in S
  BY <1>1, <1>2
<1>4. (m - 1) + 1 = m
  BY <1>1
<1>5. QED
  BY <1>1, <1>2, <1>3, <1>4

-----------------------------------------------------------------------------
(* FlattenSeq *)

\* f gathers the first n sequences of ss, one by one.
Gathers(f, ss, n) ==
    f = [i \in 1..n |-> IF i = 1 THEN ss[i] ELSE f[i - 1] \o ss[i]]

LEMMA FlattenIsGathered ==
    ASSUME NEW ss, NEW A, ss \in Seq(Seq(A)), ss # <<>>
    PROVE  FlattenSeq(ss) = (CHOOSE f : Gathers(f, ss, Len(ss)))[Len(ss)]
<1>1. Len(ss) # 0
  OBVIOUS
<1>2. QED
  BY <1>1, Zenon DEF FlattenSeq, Gathers

\* There is such an f for every n: one more sequence is appended to the last.
LEMMA GathersExists ==
    ASSUME NEW ss
    PROVE  \A n \in Nat : \E f : Gathers(f, ss, n)
<1> DEFINE S == {n \in Nat : \E f : Gathers(f, ss, n)}
<1>1. 0 \in S
  <2>1. Gathers([i \in 1..0 |-> <<>>], ss, 0)
    BY DEF Gathers
  <2> QED
    BY <2>1
<1>2. ASSUME NEW n \in Nat, n \in S PROVE n + 1 \in S
  <2>1. PICK f : Gathers(f, ss, n)
    BY <1>2
  <2> DEFINE g == [i \in 1..(n + 1) |->
                     IF i = n + 1 THEN (IF i = 1 THEN ss[i] ELSE f[n] \o ss[i]) ELSE f[i]]
  <2>2. ASSUME NEW i \in 1..(n + 1)
        PROVE  g[i] = IF i = 1 THEN ss[i] ELSE g[i - 1] \o ss[i]
    <3>1. CASE i = n + 1
      <4>1. i # 1 => i - 1 \in 1..(n + 1) /\ i - 1 = n /\ n # n + 1
        BY <3>1
      <4>2. i # 1 => g[i - 1] = f[n]
        BY <4>1
      <4> QED
        BY <3>1, <4>2
    <3>2. CASE i # n + 1
      <4>1. i \in 1..n /\ g[i] = f[i]
        BY <3>2
      <4>2. f[i] = IF i = 1 THEN ss[i] ELSE f[i - 1] \o ss[i]
        BY <2>1, <4>1 DEF Gathers
      <4>3. i # 1 => i - 1 \in 1..(n + 1) /\ i - 1 # n + 1
        BY <4>1
      <4>4. i # 1 => g[i - 1] = f[i - 1]
        BY <4>3
      <4> QED
        BY <4>1, <4>2, <4>4
    <3> QED
      BY <3>1, <3>2
  <2>3. Gathers(g, ss, n + 1)
    <3> HIDE DEF g
    <3>1. g = [i \in 1..(n + 1) |-> g[i]]
      BY DEF g
    <3>2. [i \in 1..(n + 1) |-> g[i]] =
          [i \in 1..(n + 1) |-> IF i = 1 THEN ss[i] ELSE g[i - 1] \o ss[i]]
      BY <2>2
    <3> QED
      BY <3>1, <3>2 DEF Gathers
  <2> HIDE DEF g
  <2> QED
    BY <2>3
<1> HIDE DEF S
<1>3. \A n \in Nat : n \in S
  BY <1>1, <1>2, SetInduction
<1> QED
  BY <1>3 DEF S

\* FlattenSeq by its equations: g[i] is what the first i sequences give.
LEMMA FlattenBySteps ==
    ASSUME NEW A, NEW ss \in Seq(Seq(A)), ss # <<>>
    PROVE  \E g : /\ FlattenSeq(ss) = g[Len(ss)]
                  /\ g[1] = ss[1]
                  /\ \A n \in 1..Len(ss) :
                        n + 1 \in 1..Len(ss) => g[n + 1] = g[n] \o ss[n + 1]
<1> DEFINE g == CHOOSE f : Gathers(f, ss, Len(ss))
<1>1. Len(ss) \in Nat /\ 1 \in 1..Len(ss)
  OBVIOUS
<1>2. Gathers(g, ss, Len(ss))
  <2>1. \E f : Gathers(f, ss, Len(ss))
    BY <1>1, GathersExists
  <2> QED
    BY <2>1, Zenon
<1>3. FlattenSeq(ss) = g[Len(ss)]
  BY FlattenIsGathered
<1> HIDE DEF g
<1>4. \A i \in 1..Len(ss) : g[i] = IF i = 1 THEN ss[i] ELSE g[i - 1] \o ss[i]
  BY <1>2 DEF Gathers
<1>5. g[1] = ss[1]
  BY <1>1, <1>4
<1>6. ASSUME NEW n \in 1..Len(ss), n + 1 \in 1..Len(ss)
      PROVE  g[n + 1] = g[n] \o ss[n + 1]
  <2>1. n + 1 # 1 /\ (n + 1) - 1 = n
    OBVIOUS
  <2> QED
    BY <1>4, <1>6, <2>1
<1> QED
  BY <1>3, <1>5, <1>6

LEMMA FlattenEmpty == FlattenSeq(<<>>) = <<>>
BY Zenon DEF FlattenSeq

LEMMA ConcatFacts ==
    ASSUME NEW A, NEW s \in Seq(A), NEW t \in Seq(A)
    PROVE  /\ s \o t \in Seq(A) /\ Len(s \o t) = Len(s) + Len(t)
           /\ \A i \in 1..Len(s) : (s \o t)[i] = s[i]
           /\ \A i \in 1..Len(t) : (s \o t)[Len(s) + i] = t[i]
<1>1. s \o t \in Seq(A) /\ Len(s \o t) = Len(s) + Len(t)
  OBVIOUS
<1>2. ASSUME NEW i \in 1..Len(s) PROVE (s \o t)[i] = s[i]
  BY <1>1
<1>3. ASSUME NEW i \in 1..Len(t) PROVE (s \o t)[Len(s) + i] = t[i]
  BY <1>1
<1> QED
  BY <1>1, <1>2, <1>3

LEMMA ToSetConcat ==
    ASSUME NEW A, NEW s \in Seq(A), NEW t \in Seq(A)
    PROVE  ToSet(s \o t) = ToSet(s) \cup ToSet(t)
<1>1. s \o t \in Seq(A) /\ Len(s \o t) = Len(s) + Len(t)
  OBVIOUS
<1>2. ASSUME NEW i \in 1..Len(s) PROVE (s \o t)[i] = s[i] /\ i \in 1..Len(s \o t)
  BY <1>1
<1>3. ASSUME NEW i \in 1..Len(t)
      PROVE  (s \o t)[Len(s) + i] = t[i] /\ Len(s) + i \in 1..Len(s \o t)
  BY <1>1
<1>4. ASSUME NEW i \in 1..Len(s \o t), i \notin 1..Len(s)
      PROVE  (s \o t)[i] = t[i - Len(s)] /\ i - Len(s) \in 1..Len(t)
  BY <1>1, <1>4
<1>5. /\ ToSet(s) = {s[i] : i \in 1..Len(s)}
      /\ ToSet(t) = {t[i] : i \in 1..Len(t)}
      /\ ToSet(s \o t) = {(s \o t)[i] : i \in 1..Len(s \o t)}
  BY <1>1 DEF ToSet
<1>6. ToSet(s) \subseteq ToSet(s \o t)
  BY <1>2, <1>5
<1>7. ToSet(t) \subseteq ToSet(s \o t)
  BY <1>3, <1>5
<1>8. ToSet(s \o t) \subseteq ToSet(s) \cup ToSet(t)
  <2> SUFFICES ASSUME NEW i \in 1..Len(s \o t)
               PROVE  (s \o t)[i] \in ToSet(s) \cup ToSet(t)
    BY <1>5
  <2>1. CASE i \in 1..Len(s)
    BY <1>2, <1>5, <2>1
  <2>2. CASE i \notin 1..Len(s)
    BY <1>4, <1>5, <2>2
  <2> QED
    BY <2>1, <2>2
<1> QED
  BY <1>6, <1>7, <1>8

\* Flattening gives a sequence, with the members of all sequences and no other.
LEMMA FlattenMembers ==
    ASSUME NEW A, NEW ss \in Seq(Seq(A))
    PROVE  /\ FlattenSeq(ss) \in Seq(A)
           /\ ToSet(FlattenSeq(ss)) = UNION {ToSet(ss[k]) : k \in 1..Len(ss)}
<1>1. CASE ss = <<>>
  <2>1. FlattenSeq(ss) = <<>> /\ 1..Len(ss) = {}
    BY <1>1, FlattenEmpty
  <2> QED
    BY <2>1 DEF ToSet
<1>2. CASE ss # <<>>
  <2>1. PICK g : /\ FlattenSeq(ss) = g[Len(ss)]
                 /\ g[1] = ss[1]
                 /\ \A n \in 1..Len(ss) :
                       n + 1 \in 1..Len(ss) => g[n + 1] = g[n] \o ss[n + 1]
    BY <1>2, FlattenBySteps
  <2>2. Len(ss) \in Nat /\ 1 \in 1..Len(ss) /\ \A i \in 1..Len(ss) : ss[i] \in Seq(A)
    BY <1>2
  <2> DEFINE U(i) == UNION {ToSet(ss[k]) : k \in 1..i}
             S == {i \in Nat : i \in 1..Len(ss) => g[i] \in Seq(A) /\ ToSet(g[i]) = U(i)}
  <2>3. 0 \in S
    OBVIOUS
  <2>4. ASSUME NEW n \in Nat, n \in S PROVE n + 1 \in S
    <3> SUFFICES ASSUME n + 1 \in 1..Len(ss)
                 PROVE  g[n + 1] \in Seq(A) /\ ToSet(g[n + 1]) = U(n + 1)
      OBVIOUS
    <3>1. CASE n = 0
      <4>1. g[n + 1] = ss[1] /\ 1..(n + 1) = {1}
        BY <2>1, <3>1
      <4> QED
        BY <2>2, <4>1
    <3>2. CASE n # 0
      <4>1. n \in 1..Len(ss)
        BY <3>2
      <4>2. g[n] \in Seq(A) /\ ToSet(g[n]) = U(n)
        BY <2>4, <4>1
      <4>3. g[n + 1] = g[n] \o ss[n + 1]
        BY <2>1, <4>1
      <4>4. ss[n + 1] \in Seq(A)
        BY <2>2
      <4>5. ToSet(g[n + 1]) = ToSet(g[n]) \cup ToSet(ss[n + 1])
        BY <4>2, <4>3, <4>4, ToSetConcat
      <4>6. 1..(n + 1) = 1..n \cup {n + 1}
        OBVIOUS
      <4>7. U(n + 1) = U(n) \cup ToSet(ss[n + 1])
        BY <4>6, Zenon
      <4> QED
        BY <4>2, <4>3, <4>4, <4>5, <4>7
    <3> QED
      BY <3>1, <3>2
  <2>5. \A n \in Nat : n \in S
    <3> HIDE DEF S
    <3> QED
      BY <2>3, <2>4, SetInduction
  <2>6. g[Len(ss)] \in Seq(A) /\ ToSet(g[Len(ss)]) = U(Len(ss))
    <3> HIDE DEF S
    <3>1. Len(ss) \in 1..Len(ss)
      BY <2>2
    <3>2. Len(ss) \in S
      BY <2>2, <2>5
    <3> QED
      BY <3>1, <3>2 DEF S
  <2> QED
    BY <2>1, <2>6
<1> QED
  BY <1>1, <1>2

\* A sequence of one member appends that member.
LEMMA AppendedOne ==
    ASSUME NEW A, NEW s \in Seq(A), NEW t \in Seq(A)
    PROVE  Len(t) = 1 =>
             /\ s \o t \in Seq(A) /\ Len(s \o t) = Len(s) + 1
             /\ \A k \in 1..Len(s) : (s \o t)[k] = s[k]
             /\ (s \o t)[Len(s) + 1] = t[1]
<1>1. /\ s \o t \in Seq(A) /\ Len(s \o t) = Len(s) + Len(t)
      /\ \A i \in 1..Len(s) : (s \o t)[i] = s[i]
      /\ \A i \in 1..Len(t) : (s \o t)[Len(s) + i] = t[i]
  BY ConcatFacts
<1>2. Len(t) = 1 => 1 \in 1..Len(t)
  OBVIOUS
<1> QED
  BY <1>1, <1>2, Zenon

\* Sequences of one member each are flattened member by member.
LEMMA FlattenSingletons ==
    ASSUME NEW A, NEW ss \in Seq(Seq(A)), \A i \in 1..Len(ss) : Len(ss[i]) = 1
    PROVE  /\ FlattenSeq(ss) \in Seq(A)
           /\ Len(FlattenSeq(ss)) = Len(ss)
           /\ \A i \in 1..Len(ss) : FlattenSeq(ss)[i] = ss[i][1]
<1>0. FlattenSeq(ss) \in Seq(A)
  BY FlattenMembers
<1>1. CASE ss = <<>>
  BY <1>0, <1>1, FlattenEmpty
<1>2. CASE ss # <<>>
  <2>1. PICK g : /\ FlattenSeq(ss) = g[Len(ss)]
                 /\ g[1] = ss[1]
                 /\ \A n \in 1..Len(ss) :
                       n + 1 \in 1..Len(ss) => g[n + 1] = g[n] \o ss[n + 1]
    BY <1>2, FlattenBySteps
  <2>2. Len(ss) \in Nat /\ 1 \in 1..Len(ss)
        /\ \A i \in 1..Len(ss) : ss[i] \in Seq(A) /\ Len(ss[i]) = 1
    BY <1>2
  <2> DEFINE P(i) == /\ g[i] \in Seq(A) /\ Len(g[i]) = i
                     /\ \A k \in 1..i : g[i][k] = ss[k][1]
             S == {i \in Nat : i \in 1..Len(ss) => P(i)}
  <2>3. 0 \in S
    OBVIOUS
  <2>4. ASSUME NEW n \in Nat, n \in S PROVE n + 1 \in S
    <3> HIDE DEF P
    <3> SUFFICES ASSUME n + 1 \in 1..Len(ss) PROVE P(n + 1)
      OBVIOUS
    <3>1. CASE n = 0
      <4>1. g[n + 1] = ss[1] /\ 1..(n + 1) = {1}
        BY <2>1, <3>1
      <4> QED
        BY <2>2, <3>1, <4>1 DEF P
    <3>2. CASE n # 0
      <4>1. n \in 1..Len(ss)
        BY <3>2
      <4>2. P(n)
        BY <2>4, <4>1
      <4>3. g[n + 1] = g[n] \o ss[n + 1]
        BY <2>1, <4>1
      <4>4. ss[n + 1] \in Seq(A) /\ Len(ss[n + 1]) = 1
        BY <2>2
      <4>5. g[n] \in Seq(A) /\ Len(g[n]) = n /\ \A k \in 1..n : g[n][k] = ss[k][1]
        BY <4>2 DEF P
      <4>6. /\ g[n + 1] \in Seq(A) /\ Len(g[n + 1]) = n + 1
            /\ \A k \in 1..n : g[n + 1][k] = g[n][k]
            /\ g[n + 1][n + 1] = ss[n + 1][1]
        <5>1. /\ g[n] \o ss[n + 1] \in Seq(A) /\ Len(g[n] \o ss[n + 1]) = Len(g[n]) + 1
              /\ \A k \in 1..Len(g[n]) : (g[n] \o ss[n + 1])[k] = g[n][k]
              /\ (g[n] \o ss[n + 1])[Len(g[n]) + 1] = ss[n + 1][1]
          BY <4>4, <4>5, AppendedOne
        <5> QED
          BY <4>3, <4>5, <5>1
      <4>7. \A k \in 1..(n + 1) : k \in 1..n \/ k = n + 1
        OBVIOUS
      <4> QED
        BY <4>5, <4>6, <4>7 DEF P
    <3> QED
      BY <3>1, <3>2
  <2>5. \A n \in Nat : n \in S
    <3> HIDE DEF S
    <3> QED
      BY <2>3, <2>4, SetInduction
  <2>6. P(Len(ss))
    <3> HIDE DEF S
    <3>1. Len(ss) \in 1..Len(ss)
      BY <2>2
    <3>2. Len(ss) \in S
      BY <2>2, <2>5
    <3> QED
      BY <3>1, <3>2 DEF S
  <2> QED
    BY <1>0, <2>1, <2>6
<1> QED
  BY <1>1, <1>2

\* One sequence alone is flattened to itself.
LEMMA FlattenOne ==
    ASSUME NEW A, NEW s \in Seq(A), NEW ss \in Seq(Seq(A)), Len(ss) = 1, ss[1] = s
    PROVE  FlattenSeq(ss) = s
<1>1. ss # <<>>
  <2> SUFFICES ASSUME ss = <<>> PROVE FALSE
    OBVIOUS
  <2>1. Len(ss) = 0
    OBVIOUS
  <2> QED
    BY <2>1
<1>2. PICK g : FlattenSeq(ss) = g[Len(ss)] /\ g[1] = ss[1]
  BY <1>1, FlattenBySteps
<1> QED
  BY <1>2
===============================================================================
