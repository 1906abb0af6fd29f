---------------------------- MODULE SequenceLemmas ----------------------------
(***************************************************************************)
(* What queues and stacks need of sequences: taking the head, putting at   *)
(* the end, moving from one queue to the next, and taking an element out.  *)
(***************************************************************************)
EXTENDS Integers, Sequences, SequencesExt, SequenceTheorems, FiniteSetTheorems, WellFoundedInduction, TLAPS

LEMMA ConcatAppend ==
  ASSUME NEW S, NEW s \in Seq(S), NEW t \in Seq(S), NEW x \in S
  PROVE  s \o Append(t, x) = Append(s \o t, x)
<1>1. s \o t \in Seq(S) /\ <<x>> \in Seq(S)
  BY ConcatProperties
<1>2. Append(t, x) = t \o <<x>> /\ Append(s \o t, x) = (s \o t) \o <<x>>
  BY <1>1, AppendIsConcat
<1> QED
  BY <1>1, <1>2, ConcatAssociative

LEMMA HeadAndTail ==
  ASSUME NEW S, NEW s \in Seq(S), s # <<>>
  PROVE  s = <<Head(s)>> \o Tail(s)
<1>1. /\ Head(s) \in S /\ Tail(s) \in Seq(S) /\ Len(Tail(s)) = Len(s) - 1
      /\ \A i \in 1 .. Len(Tail(s)) : Tail(s)[i] = s[i + 1]
  BY HeadTailProperties
<1>2. <<Head(s)>> \in Seq(S) /\ Len(<<Head(s)>>) = 1 /\ <<Head(s)>>[1] = Head(s) /\ Head(s) = s[1]
  BY <1>1
<1>3. /\ <<Head(s)>> \o Tail(s) \in Seq(S) /\ Len(<<Head(s)>> \o Tail(s)) = Len(s)
      /\ \A i \in 1 .. Len(s) : (<<Head(s)>> \o Tail(s))[i] = IF i <= 1 THEN Head(s) ELSE Tail(s)[i - 1]
  BY <1>1, <1>2, ConcatProperties
<1>4. \A i \in 1 .. Len(s) : (<<Head(s)>> \o Tail(s))[i] = s[i]
  BY <1>1, <1>2, <1>3
<1> QED
  BY <1>3, <1>4, SeqEqual

LEMMA ConcatMove ==
  ASSUME NEW S, NEW s \in Seq(S), NEW t \in Seq(S), t # <<>>
  PROVE  Append(s, Head(t)) \o Tail(t) = s \o t
<1>1. Head(t) \in S /\ Tail(t) \in Seq(S) /\ <<Head(t)>> \in Seq(S)
  BY HeadTailProperties
<1>2. Append(s, Head(t)) = s \o <<Head(t)>>
  BY <1>1, AppendIsConcat
<1>3. (s \o <<Head(t)>>) \o Tail(t) = s \o (<<Head(t)>> \o Tail(t))
  BY <1>1, ConcatAssociative
<1> QED
  BY <1>2, <1>3, HeadAndTail

LEMMA ConcatTail ==
  ASSUME NEW S, NEW s \in Seq(S), NEW t \in Seq(S), s # <<>>
  PROVE  s \o t # <<>> /\ Head(s \o t) = Head(s) /\ Tail(s) \o t = Tail(s \o t)
<1>1. Head(s) \in S /\ Tail(s) \in Seq(S) /\ <<Head(s)>> \in Seq(S) /\ Tail(s) \o t \in Seq(S)
  BY HeadTailProperties, ConcatProperties
<1>2. s \o t = <<Head(s)>> \o (Tail(s) \o t)
  BY <1>1, HeadAndTail, ConcatAssociative
<1> DEFINE u == Tail(s) \o t
<1>3. u \in Seq(S) /\ s \o t = <<Head(s)>> \o u
  BY <1>1, <1>2
<1> HIDE DEF u
<1>4. <<Head(s)>> \o u # <<>> /\ Head(<<Head(s)>> \o u) = Head(s) /\ Tail(<<Head(s)>> \o u) = u
  BY <1>1, <1>3
<1> QED
  BY <1>3, <1>4 DEF u

LEMMA ElementsOfAppend ==
  ASSUME NEW S, NEW s \in Seq(S), NEW x \in S
  PROVE  ToSet(Append(s, x)) = ToSet(s) \cup {x}
  BY AppendProperties DEF ToSet

LEMMA ElementsOfTail ==
  ASSUME NEW S, NEW s \in Seq(S), s # <<>>
  PROVE  ToSet(s) = {Head(s)} \cup ToSet(Tail(s))
<1> DEFINE t == Tail(s)
<1>1. s = <<Head(s)>> \o t /\ t \in Seq(S) /\ Head(s) \in S
  BY HeadAndTail, HeadTailProperties
<1>2. ToSet(<<Head(s)>>) = {Head(s)} /\ <<Head(s)>> \in Seq(S)
  <2>1. DOMAIN <<Head(s)>> = {1} /\ <<Head(s)>>[1] = Head(s)
    OBVIOUS
  <2> QED
    BY <1>1, <2>1 DEF ToSet
<1> HIDE DEF t
<1>3. ToSet(<<Head(s)>> \o t) = ToSet(<<Head(s)>>) \cup ToSet(t)
  <2>1. Range(<<Head(s)>> \o t) = Range(<<Head(s)>>) \cup Range(t)
    BY <1>1, <1>2, RangeConcatenation
  <2> QED
    BY <2>1 DEF ToSet, Range
<1> QED
  BY <1>1, <1>2, <1>3 DEF t

LEMMA ElementsOfConcat ==
  ASSUME NEW S, NEW s \in Seq(S), NEW t \in Seq(S)
  PROVE  ToSet(s \o t) = ToSet(s) \cup ToSet(t)
<1>1. Range(s \o t) = Range(s) \cup Range(t)
  BY RangeConcatenation
<1> QED
  BY <1>1 DEF Range, ToSet

\* Sequences in which nothing occurs twice.
LEMMA InjectiveAppend ==
  ASSUME NEW S, NEW s \in Seq(S), IsInjective(s), NEW x \in S, x \notin ToSet(s)
  PROVE  IsInjective(Append(s, x))
<1>1. \A i \in DOMAIN s : s[i] # x
  BY DEF ToSet
<1> QED
  BY <1>1 DEF IsInjective

LEMMA InjectiveTail ==
  ASSUME NEW S, NEW s \in Seq(S), IsInjective(s), s # <<>>
  PROVE  IsInjective(Tail(s)) /\ Head(s) \notin ToSet(Tail(s))
<1>1. IsInjective(Tail(s))
  BY DEF IsInjective
<1>2. \A i \in DOMAIN Tail(s) : Tail(s)[i] # Head(s)
  BY DEF IsInjective
<1> QED
  BY <1>1, <1>2 DEF ToSet

LEMMA InjectiveConcat ==
  ASSUME NEW S, NEW s \in Seq(S), NEW t \in Seq(S), IsInjective(s), IsInjective(t), ToSet(s) \cap ToSet(t) = {}
  PROVE  IsInjective(s \o t)
<1>1. \A i \in DOMAIN s, j \in DOMAIN t : s[i] # t[j]
  BY DEF ToSet
<1> QED
  BY <1>1 DEF IsInjective

LEMMA InjectiveLength ==
  ASSUME NEW S, IsFiniteSet(S), NEW s \in Seq(S), IsInjective(s)
  PROVE  Len(s) <= Cardinality(S)
<1>1. s \in Injection(1 .. Len(s), S) /\ Len(s) \in Nat
  BY DEF Injection, IsInjective
<1>2. Cardinality(1 .. Len(s)) <= Cardinality(S)
  BY <1>1, FS_Injection
<1>3. Cardinality(1 .. Len(s)) = IF 1 > Len(s) THEN 0 ELSE Len(s) - 1 + 1
  BY <1>1, FS_Interval
<1>4. Cardinality(S) \in Nat
  BY FS_CardinalityType
<1> QED
  BY <1>1, <1>2, <1>3, <1>4

\* What is left of a sequence when an element is taken out.
LEMMA RemoveAtProperties ==
  ASSUME NEW S, NEW s \in Seq(S), NEW k \in DOMAIN s
  PROVE  /\ RemoveAt(s, k) \in Seq(S) /\ Len(RemoveAt(s, k)) = Len(s) - 1
         /\ \A j \in DOMAIN RemoveAt(s, k) : /\ j \in DOMAIN s /\ j + 1 \in DOMAIN s
                                             /\ RemoveAt(s, k)[j] = IF j < k THEN s[j] ELSE s[j + 1]
<1> DEFINE a == SubSeq(s, 1, k - 1)
           b == SubSeq(s, k + 1, Len(s))
<1>1. Len(s) \in Nat /\ k \in 1 .. Len(s) /\ \A i \in 1 .. Len(s) : s[i] \in S
  OBVIOUS
<1>2. a \in Seq(S) /\ Len(a) = k - 1 /\ \A i \in 1 .. k - 1 : a[i] = s[i]
  <2>1. \A i \in 1 .. k - 1 : s[i] \in S
    BY <1>1
  <2>2. /\ a \in Seq(S) /\ Len(a) = IF 1 <= k - 1 THEN k - 1 - 1 + 1 ELSE 0
        /\ \A i \in 1 .. k - 1 - 1 + 1 : a[i] = s[1 + i - 1]
    BY <1>1, <2>1, SubSeqProperties
  <2> HIDE DEF a
  <2> QED
    BY <1>1, <2>2
<1>3. b \in Seq(S) /\ Len(b) = Len(s) - k /\ \A i \in 1 .. Len(s) - k : b[i] = s[k + i]
  <2>1. \A i \in k + 1 .. Len(s) : s[i] \in S
    BY <1>1
  <2>2. /\ b \in Seq(S) /\ Len(b) = IF k + 1 <= Len(s) THEN Len(s) - (k + 1) + 1 ELSE 0
        /\ \A i \in 1 .. Len(s) - (k + 1) + 1 : b[i] = s[k + 1 + i - 1]
    BY <1>1, <2>1, SubSeqProperties
  <2> HIDE DEF b
  <2> QED
    BY <1>1, <2>2
<1>4. RemoveAt(s, k) = a \o b
  BY DEF RemoveAt
<1> HIDE DEF a, b
<1> DEFINE r == a \o b
<1>5. /\ r \in Seq(S) /\ Len(r) = Len(s) - 1
      /\ \A i \in 1 .. Len(s) - 1 : r[i] = IF i <= k - 1 THEN a[i] ELSE b[i - (k - 1)]
  <2>1. /\ r \in Seq(S) /\ Len(r) = Len(a) + Len(b)
        /\ \A i \in 1 .. Len(a) + Len(b) : r[i] = IF i <= Len(a) THEN a[i] ELSE b[i - Len(a)]
    BY <1>2, <1>3, ConcatProperties
  <2>2. Len(a) + Len(b) = Len(s) - 1 /\ Len(a) = k - 1
    BY <1>1, <1>2, <1>3
  <2> HIDE DEF r
  <2> QED
    BY <2>1, <2>2
<1> HIDE DEF r
<1>6. \A i \in 1 .. Len(s) - 1 : r[i] = IF i < k THEN s[i] ELSE s[i + 1]
  <2> SUFFICES ASSUME NEW i \in 1 .. Len(s) - 1
               PROVE  r[i] = IF i < k THEN s[i] ELSE s[i + 1]
    OBVIOUS
  <2>1. ASSUME i < k PROVE r[i] = s[i]
    <3>1. i \in 1 .. k - 1 /\ i <= k - 1
      BY <2>1, <1>1
    <3> QED
      BY <3>1, <1>2, <1>5
  <2>2. ASSUME ~(i < k) PROVE r[i] = s[i + 1]
    <3>1. i - (k - 1) \in 1 .. Len(s) - k /\ k + (i - (k - 1)) = i + 1
      BY <2>2, <1>1
    <3>2. r[i] = b[i - (k - 1)]
      BY <2>2, <1>1, <1>5
    <3> QED
      BY <3>1, <3>2, <1>3
  <2> QED
    BY <2>1, <2>2
<1>7. DOMAIN r = 1 .. Len(s) - 1
  BY <1>5
<1>8. \A i \in 1 .. Len(s) - 1 : i \in DOMAIN s /\ i + 1 \in DOMAIN s
  BY <1>1
<1>9. RemoveAt(s, k) = r
  BY <1>4 DEF r
<1> QED
  BY <1>5, <1>6, <1>7, <1>8, <1>9

\* The first occurrence of an element is an occurrence.
LEMMA RemoveFirstRemoves ==
  ASSUME NEW S, NEW s \in Seq(S), NEW e
  PROVE  \/ RemoveFirst(s, e) = s
         \/ \E k \in DOMAIN s : s[k] = e /\ RemoveFirst(s, e) = RemoveAt(s, k)
<1> DEFINE I == {i \in 1 .. Len(s) : s[i] = e}
<1>1. CASE I # {}
  <2> DEFINE R == {ss \in Nat \X Nat : ss[1] < ss[2]}
  <2>1. IsWellFoundedOn(R, Nat)
    BY NatLessThanWellFounded DEF OpToRel
  <2>2. I \subseteq Nat
    OBVIOUS
  <2>3. \E x \in I : \A y \in I : ~(<<y, x>> \in R)
    <3> HIDE DEF R, I
    <3> QED
      BY <1>1, <2>1, <2>2, WFMin
  <2>4. \E x \in I : \A y \in I : x =< y
    <3>1. \A x, y \in Nat : y < x => <<y, x>> \in R
      OBVIOUS
    <3>2. \A x, y \in Nat : y < x \/ x =< y
      OBVIOUS
    <3> HIDE DEF R, I
    <3> QED
      BY <2>2, <2>3, <3>1, <3>2
  <2> DEFINE k == CHOOSE x \in I : \A y \in I : x =< y
  <2>5. k \in I
    BY <2>4
  <2>6. RemoveFirst(s, e) = RemoveAt(s, k)
    BY <1>1 DEF RemoveFirst, SelectInSeq, Min
  <2> HIDE DEF k
  <2> QED
    BY <2>5, <2>6
<1>2. CASE I = {}
  BY <1>2 DEF RemoveFirst
<1> QED
  BY <1>1, <1>2
=============================================================================
