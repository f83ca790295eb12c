---------------------------- MODULE SequenceFacts ----------------------------
(***************************************************************************)
(* Lemmas about lists without repetitions, for the lists of the sensor in  *)
(* FogBookings and of ping_network in Validator.                           *)
(***************************************************************************)
EXTENDS Integers, SequencesExt, SequenceTheorems, TLAPS

(* Taking one element out of a sequence.                                   *)
LEMMA RemoveAtFacts ==
  ASSUME NEW S, NEW s \in Seq(S), NEW k \in DOMAIN s
  PROVE  /\ RemoveAt(s, k) \in Seq(S)
         /\ Len(RemoveAt(s, k)) = Len(s) - 1
         /\ \A i \in DOMAIN RemoveAt(s, k) :
               RemoveAt(s, k)[i] = IF i < k THEN s[i] ELSE s[i + 1]
<1>. DEFINE a == SubSeq(s, 1, k - 1)
            c == SubSeq(s, k + 1, Len(s))
<1>1. k \in 1..Len(s) /\ Len(s) \in Nat /\ \A i \in 1..Len(s) : s[i] \in S
  OBVIOUS
<1>2. a \in Seq(S) /\ Len(a) = k - 1 /\ \A i \in 1..(k - 1) : a[i] = s[i]
  BY <1>1, SubSeqProperties
<1>3. c \in Seq(S) /\ Len(c) = Len(s) - k /\ \A i \in 1..(Len(s) - k) : c[i] = s[k + i]
  BY <1>1, SubSeqProperties
<1>4. RemoveAt(s, k) = a \o c
  BY DEF RemoveAt
<1>. HIDE DEF a, c
<1>5. /\ a \o c \in Seq(S) /\ Len(a \o c) = Len(a) + Len(c)
      /\ \A i \in 1..Len(a) + Len(c) : (a \o c)[i] = IF i <= Len(a) THEN a[i] ELSE c[i - Len(a)]
  BY <1>2, <1>3, ConcatProperties
<1>6. DOMAIN (a \o c) = 1..(Len(s) - 1)
  BY <1>1, <1>2, <1>3, <1>5
<1>7. ASSUME NEW i \in 1..(Len(s) - 1)
      PROVE  (a \o c)[i] = IF i < k THEN s[i] ELSE s[i + 1]
  <2>1. i \in 1..(Len(a) + Len(c)) /\ i \in Nat /\ k \in Nat
    BY <1>1, <1>2, <1>3, <1>7
  <2>2. (a \o c)[i] = IF i <= Len(a) THEN a[i] ELSE c[i - Len(a)]
    BY <1>5, <2>1
  <2>3. CASE i < k
    <3>1. i <= Len(a) /\ i \in 1..(k - 1)
      BY <1>2, <2>1, <2>3, <1>7
    <3>. QED BY <3>1, <2>2, <2>3, <1>2
  <2>4. CASE ~(i < k)
    <3>1. ~(i <= Len(a)) /\ i - (k - 1) \in 1..(Len(s) - k) /\ k + (i - (k - 1)) = i + 1
      BY <1>1, <1>2, <2>1, <2>4, <1>7
    <3>2. c[i - (k - 1)] = s[i + 1]
      BY <3>1, <1>3
    <3>. QED BY <3>1, <3>2, <2>2, <2>4, <1>2
  <2>. QED BY <2>3, <2>4
<1>8. a \o c \in Seq(S) /\ Len(a \o c) = Len(s) - 1
  BY <1>1, <1>2, <1>3, <1>5
<1>. QED BY <1>4, <1>6, <1>7, <1>8

(* What is left when an element that is there once has been taken out.     *)
LEMMA RemoveOnce ==
  ASSUME NEW S, NEW s \in Seq(S), IsInjective(s), NEW k \in DOMAIN s
  PROVE  /\ IsInjective(RemoveAt(s, k))
         /\ \A x : (\E i \in DOMAIN RemoveAt(s, k) : RemoveAt(s, k)[i] = x)
                     <=> x # s[k] /\ \E i \in DOMAIN s : s[i] = x
<1>. DEFINE r == RemoveAt(s, k)
<1>1. /\ r \in Seq(S) /\ Len(r) = Len(s) - 1 /\ k \in 1..Len(s) /\ Len(s) \in Nat
      /\ DOMAIN r = 1..(Len(s) - 1) /\ DOMAIN s = 1..Len(s)
      /\ \A i \in DOMAIN r : r[i] = IF i < k THEN s[i] ELSE s[i + 1]
  BY RemoveAtFacts
<1>. HIDE DEF r
<1>2. \A i, j \in DOMAIN s : s[i] = s[j] => i = j
  BY DEF IsInjective
<1>3. ASSUME NEW i \in DOMAIN r, NEW j \in DOMAIN r, r[i] = r[j] PROVE i = j
  BY <1>1, <1>2, <1>3
<1>4. ASSUME NEW i \in DOMAIN r
      PROVE  r[i] # s[k] /\ \E j \in DOMAIN s : s[j] = r[i]
  BY <1>1, <1>2
<1>5. ASSUME NEW i \in DOMAIN s, s[i] # s[k]
      PROVE  \E j \in DOMAIN r : r[j] = s[i]
  <2>1. CASE i < k
    BY <1>1, <2>1
  <2>2. CASE i > k
    <3>1. i - 1 \in DOMAIN r /\ r[i - 1] = s[i]
      BY <1>1, <2>2
    <3>. QED BY <3>1
  <2>. QED BY <1>1, <1>5, <2>1, <2>2
<1>6. IsInjective(r)
  BY <1>3 DEF IsInjective
<1>7. \A x : (\E i \in DOMAIN r : r[i] = x) <=> x # s[k] /\ \E i \in DOMAIN s : s[i] = x
  BY <1>4, <1>5
<1>. QED BY <1>6, <1>7 DEF r

(* What follows the first element.                                         *)
LEMMA TailOnce ==
  ASSUME NEW S, NEW s \in Seq(S), IsInjective(s), s # <<>>
  PROVE  /\ Tail(s) \in Seq(S)
         /\ IsInjective(Tail(s))
         /\ ToSet(Tail(s)) \subseteq ToSet(s) \ {Head(s)}
         /\ Head(s) \in ToSet(s)
<1>1. /\ Tail(s) \in Seq(S) /\ Len(Tail(s)) = Len(s) - 1 /\ Len(s) \in Nat
      /\ \A i \in 1..Len(Tail(s)) : Tail(s)[i] = s[i + 1]
  BY HeadTailProperties
<1>2. DOMAIN Tail(s) = 1..Len(s) - 1 /\ DOMAIN s = 1..Len(s)
  BY <1>1
<1>3. \A i, j \in DOMAIN s : s[i] = s[j] => i = j
  BY DEF IsInjective
<1>4. ASSUME NEW i \in DOMAIN Tail(s)
      PROVE  i \in Int /\ i + 1 \in DOMAIN s /\ Tail(s)[i] = s[i + 1]
  BY <1>1, <1>2
<1>5. ASSUME NEW i \in DOMAIN Tail(s), NEW j \in DOMAIN Tail(s), Tail(s)[i] = Tail(s)[j]
      PROVE  i = j
  <2>1. i \in Int /\ i + 1 \in DOMAIN s /\ Tail(s)[i] = s[i + 1]
    BY <1>4
  <2>2. j \in Int /\ j + 1 \in DOMAIN s /\ Tail(s)[j] = s[j + 1]
    BY <1>4
  <2>3. i + 1 = j + 1
    BY <2>1, <2>2, <1>3, <1>5, Zenon
  <2>. QED BY <2>1, <2>2, <2>3
<1>6. IsInjective(Tail(s))
  BY <1>5 DEF IsInjective
<1>7. Head(s) = s[1] /\ 1 \in DOMAIN s
  BY <1>1, <1>2
<1>8. ASSUME NEW i \in DOMAIN Tail(s)
      PROVE  Tail(s)[i] \in ToSet(s) /\ Tail(s)[i] # Head(s)
  <2>1. i \in Int /\ i >= 1 /\ i + 1 \in DOMAIN s /\ Tail(s)[i] = s[i + 1]
    BY <1>2, <1>4
  <2>2. i + 1 # 1
    BY <2>1
  <2>3. s[i + 1] # s[1]
    BY <1>3, <1>7, <2>1, <2>2, Zenon
  <2>. QED BY <1>7, <2>1, <2>3, Zenon DEF ToSet
<1>9. ToSet(Tail(s)) \subseteq ToSet(s) \ {Head(s)}
  BY <1>8, Zenon DEF ToSet
<1>10. Head(s) \in ToSet(s)
  BY <1>7, Zenon DEF ToSet
<1>. QED BY <1>1, <1>6, <1>9, <1>10

(* An element more.                                                        *)
LEMMA AppendOnce ==
  ASSUME NEW S, NEW s \in Seq(S), IsInjective(s), NEW a \in S, a \notin ToSet(s)
  PROVE  /\ Append(s, a) \in Seq(S) /\ Len(Append(s, a)) = Len(s) + 1
         /\ IsInjective(Append(s, a))
         /\ ToSet(Append(s, a)) = ToSet(s) \cup {a}
<1>. DEFINE r == Append(s, a)
<1>1. /\ r \in Seq(S) /\ Len(r) = Len(s) + 1 /\ Len(s) \in Nat
      /\ \A i \in 1..Len(s) : r[i] = s[i]
      /\ r[Len(s) + 1] = a
  BY AppendProperties
<1>2. DOMAIN r = 1..Len(s) + 1 /\ DOMAIN s = 1..Len(s)
  BY <1>1
<1>. HIDE DEF r
<1>3. \A i, j \in DOMAIN s : s[i] = s[j] => i = j
  BY DEF IsInjective
<1>4. \A i \in DOMAIN s : s[i] # a
  BY DEF ToSet
<1>5. \A i \in DOMAIN r : i \in DOMAIN s \/ i = Len(s) + 1
  BY <1>1, <1>2
<1>6. \A i \in DOMAIN s : i \in DOMAIN r /\ r[i] = s[i]
  BY <1>1, <1>2
<1>7. Len(s) + 1 \in DOMAIN r
  BY <1>1, <1>2
<1>8. IsInjective(r)
  BY <1>1, <1>3, <1>4, <1>5, <1>6, Zenon DEF IsInjective
<1>9. ToSet(r) = ToSet(s) \cup {a}
  BY <1>1, <1>5, <1>6, <1>7, Zenon DEF ToSet
<1>. QED BY <1>1, <1>8, <1>9 DEF r
=============================================================================
