-------------------------- MODULE Validator_proofs --------------------------
(***************************************************************************)
(* Proofs about Validator and HardwareTest for any network of up to 254    *)
(* addresses, any nodes, number of passes and attempts.                    *)
(***************************************************************************)
EXTENDS Validator, SequenceFacts, FiniteSetTheorems, TLAPS

(* Addresses as text.  Numbers of the same length compare as their texts.  *)
LEMMA LastDigit ==
  ASSUME NEW q \in Int, NEW r \in 0..9
  PROVE  (10 * q + r) % 10 = r /\ (10 * q + r) \div 10 = q
OBVIOUS

LEMMA TwoDigits ==
  ASSUME NEW n \in 10..99
  PROVE  \E q \in 1..9, r \in 0..9 : n \div 10 = q /\ n % 10 = r /\ n = 10 * q + r
<1>1. PICK q \in 1..9 : n \div 10 = q /\ n - 10 * q \in 0..9
  OBVIOUS
<1>2. PICK r \in 0..9 : n = 10 * q + r
  BY <1>1
<1>3. (10 * q + r) % 10 = r
  BY LastDigit
<1>4. n % 10 = r
  BY <1>2, <1>3, Zenon
<1>. QED BY <1>1, <1>2, <1>4, Zenon

LEMMA ThreeDigits ==
  ASSUME NEW n \in 100..254
  PROVE  \E x \in 1..2, y, r \in 0..9 :
            n \div 100 = x /\ (n \div 10) % 10 = y /\ n % 10 = r /\ n = 100 * x + 10 * y + r
<1>1. PICK x \in 1..2, m \in 10..25 : /\ n \div 100 = x /\ n \div 10 = m
                                      /\ n - 10 * m \in 0..9 /\ m - 10 * x \in 0..9
  OBVIOUS
<1>2. PICK y \in 0..9, r \in 0..9 : m = 10 * x + y /\ n = 10 * m + r
  BY <1>1
<1>3. (10 * m + r) % 10 = r /\ (10 * x + y) % 10 = y
  BY LastDigit
<1>4. n % 10 = r /\ m % 10 = y
  BY <1>2, <1>3, Zenon
<1>5. n = 100 * x + 10 * y + r
  BY <1>2
<1>6. (n \div 10) % 10 = y
  BY <1>1, <1>4, Zenon
<1>7. n \div 100 = x /\ (n \div 10) % 10 = y /\ n % 10 = r /\ n = 100 * x + 10 * y + r
  BY <1>1, <1>4, <1>5, <1>6, Zenon
<1>. QED BY <1>7, SMTT(30)

LEMMA DigitsFacts ==
  ASSUME NEW n \in 1..254
  PROVE  /\ Digits(n) \in Seq(Int)
         /\ \/ Len(Digits(n)) = 1 /\ n = Digits(n)[1]
            \/ /\ Len(Digits(n)) = 2
               /\ \E x \in 1..9, y \in 0..9 : Digits(n)[1] = x /\ Digits(n)[2] = y /\ n = 10 * x + y
            \/ /\ Len(Digits(n)) = 3
               /\ \E x \in 1..2, y, z \in 0..9 : /\ Digits(n)[1] = x /\ Digits(n)[2] = y /\ Digits(n)[3] = z
                                                 /\ n = 100 * x + 10 * y + z
<1>1. CASE n < 10
  <2>1. Digits(n) = <<n>>
    BY <1>1 DEF Digits
  <2>2. <<n>> \in Seq(Int) /\ Len(<<n>>) = 1 /\ <<n>>[1] = n
    OBVIOUS
  <2>. QED BY <2>1, <2>2
<1>2. CASE n \in 10..99
  <2>1. PICK a \in 1..9, b \in 0..9 : Digits(n) = <<a, b>> /\ n = 10 * a + b
    BY <1>2, TwoDigits DEF Digits
  <2>2. <<a, b>> \in Seq(Int) /\ Len(<<a, b>>) = 2 /\ <<a, b>>[1] = a /\ <<a, b>>[2] = b
    OBVIOUS
  <2>. QED BY <2>1, <2>2
<1>3. CASE n \in 100..254
  <2>1. PICK a \in 1..2, b, c \in 0..9 : Digits(n) = <<a, b, c>> /\ n = 100 * a + 10 * b + c
    BY <1>3, ThreeDigits DEF Digits
  <2>2. /\ <<a, b, c>> \in Seq(Int) /\ Len(<<a, b, c>>) = 3
        /\ <<a, b, c>>[1] = a /\ <<a, b, c>>[2] = b /\ <<a, b, c>>[3] = c
    OBVIOUS
  <2>. QED BY <2>1, <2>2
<1>. QED BY <1>1, <1>2, <1>3

LEMMA BeforeSame ==
  ASSUME NEW s \in Seq(Int), NEW t \in Seq(Int), Len(s) = Len(t)
  PROVE  Before(s, t) <=> \E i \in 1..Len(s) : s[i] < t[i] /\ \A j \in 1..i - 1 : s[j] = t[j]
<1>1. SubSeq(s, 1, Len(s)) = s /\ SubSeq(t, 1, Len(t)) = t
  BY SubSeqFull
<1>2. ~IsStrictPrefix(s, t)
  BY <1>1 DEF IsStrictPrefix, IsPrefix
<1>3. DOMAIN s \cap DOMAIN t = 1..Len(s)
  OBVIOUS
<1>. QED BY <1>2, <1>3 DEF Before

LEMMA OneDigitText ==
  ASSUME NEW n \in 1..254, Len(Digits(n)) = 1
  PROVE  Digits(n)[1] = n
<1>1. Len(Digits(n)) # 2 /\ Len(Digits(n)) # 3
  OBVIOUS
<1>. QED BY <1>1, DigitsFacts, Zenon

LEMMA TwoDigitsText ==
  ASSUME NEW n \in 1..254, Len(Digits(n)) = 2
  PROVE  \E x \in 1..9, y \in 0..9 : Digits(n)[1] = x /\ Digits(n)[2] = y /\ n = 10 * x + y
<1>1. Len(Digits(n)) # 1 /\ Len(Digits(n)) # 3
  OBVIOUS
<1>. QED BY <1>1, DigitsFacts, Zenon

LEMMA ThreeDigitsText ==
  ASSUME NEW n \in 1..254, Len(Digits(n)) = 3
  PROVE  \E x \in 1..2, y, z \in 0..9 :
            /\ Digits(n)[1] = x /\ Digits(n)[2] = y /\ Digits(n)[3] = z
            /\ n = 100 * x + 10 * y + z
<1>1. Len(Digits(n)) # 1 /\ Len(Digits(n)) # 2
  OBVIOUS
<1>. QED BY <1>1, DigitsFacts, Zenon

LEMMA DigitsOrder ==
  ASSUME NEW m \in 1..254, NEW n \in 1..254, Len(Digits(m)) = Len(Digits(n))
  PROVE  /\ Before(Digits(m), Digits(n)) <=> m < n
         /\ Digits(m) = Digits(n) <=> m = n
<1>. DEFINE s == Digits(m)
            t == Digits(n)
<1>0. s \in Seq(Int) /\ t \in Seq(Int) /\ Len(s) = Len(t) /\ Len(s) \in {1, 2, 3}
  <2>1. Digits(m) \in Seq(Int) /\ Digits(n) \in Seq(Int)
    BY DigitsFacts
  <2>2. Len(Digits(m)) = 1 \/ Len(Digits(m)) = 2 \/ Len(Digits(m)) = 3
    BY DigitsFacts, Zenon
  <2>. QED BY <2>1, <2>2
<1>1. Before(s, t) <=> \E i \in 1..Len(s) : s[i] < t[i] /\ \A j \in 1..i - 1 : s[j] = t[j]
  BY <1>0, BeforeSame
<1>2. CASE Len(s) = 1
  <2>1. s[1] = m /\ t[1] = n
    BY <1>0, <1>2, OneDigitText
  <2>2. Before(s, t) <=> m < n
    BY <1>1, <1>2, <2>1
  <2>. QED BY <2>1, <2>2
<1>3. CASE Len(s) = 2
  <2>1. PICK a \in 1..9, b \in 0..9 : s[1] = a /\ s[2] = b /\ m = 10 * a + b
    BY <1>0, <1>3, TwoDigitsText, Zenon
  <2>2. PICK c \in 1..9, d \in 0..9 : t[1] = c /\ t[2] = d /\ n = 10 * c + d
    BY <1>0, <1>3, TwoDigitsText, Zenon
  <2>. HIDE DEF s, t
  <2>3. Before(s, t) <=> a < c \/ (a = c /\ b < d)
    <3>1. ASSUME a < c PROVE Before(s, t)
      BY <1>1, <1>3, <2>1, <2>2, <3>1
    <3>2. ASSUME a = c, b < d PROVE Before(s, t)
      BY <1>1, <1>3, <2>1, <2>2, <3>2
    <3>3. ASSUME Before(s, t) PROVE a < c \/ (a = c /\ b < d)
      <4>1. PICK i \in 1..2 : s[i] < t[i] /\ \A j \in 1..i - 1 : s[j] = t[j]
        BY <1>1, <1>3, <3>3
      <4>. QED BY <2>1, <2>2, <4>1
    <3>. QED BY <3>1, <3>2, <3>3
  <2>4. (a < c \/ (a = c /\ b < d)) <=> m < n
    BY <2>1, <2>2
  <2>5. s = t => m = n
    BY <2>1, <2>2
  <2>. QED BY <2>3, <2>4, <2>5 DEF s, t
<1>4. CASE Len(s) = 3
  <2>1. PICK a \in 1..2, b, e \in 0..9 : s[1] = a /\ s[2] = b /\ s[3] = e /\ m = 100 * a + 10 * b + e
    BY <1>0, <1>4, ThreeDigitsText, Zenon
  <2>2. PICK c \in 1..2, d, f \in 0..9 : t[1] = c /\ t[2] = d /\ t[3] = f /\ n = 100 * c + 10 * d + f
    BY <1>0, <1>4, ThreeDigitsText, Zenon
  <2>. HIDE DEF s, t
  <2>3. Before(s, t) <=> a < c \/ (a = c /\ b < d) \/ (a = c /\ b = d /\ e < f)
    <3>1. ASSUME a < c PROVE Before(s, t)
      BY <1>1, <1>4, <2>1, <2>2, <3>1
    <3>2. ASSUME a = c, b < d PROVE Before(s, t)
      BY <1>1, <1>4, <2>1, <2>2, <3>2
    <3>3. ASSUME a = c, b = d, e < f PROVE Before(s, t)
      <4>1. \A j \in 1..2 : s[j] = t[j]
        BY <2>1, <2>2, <3>3
      <4>. QED BY <1>1, <1>4, <2>1, <2>2, <3>3, <4>1
    <3>4. ASSUME Before(s, t) PROVE a < c \/ (a = c /\ b < d) \/ (a = c /\ b = d /\ e < f)
      <4>1. PICK i \in 1..3 : s[i] < t[i] /\ \A j \in 1..i - 1 : s[j] = t[j]
        BY <1>1, <1>4, <3>4
      <4>. QED BY <2>1, <2>2, <4>1
    <3>. QED BY <3>1, <3>2, <3>3, <3>4
  <2>4. (a < c \/ (a = c /\ b < d) \/ (a = c /\ b = d /\ e < f)) <=> m < n
    BY <2>1, <2>2
  <2>5. s = t => m = n
    BY <2>1, <2>2
  <2>. QED BY <2>3, <2>4, <2>5 DEF s, t
<1>. QED BY <1>0, <1>2, <1>3, <1>4

-----------------------------------------------------------------------------
(* The usable range: its addresses ascend, and the server's is not there.  *)

Ascending(s) == \A i, j \in DOMAIN s : i < j => s[i] < s[j]

LEMMA AddressBound ==
  ASSUME NEW a \in Addresses
  PROVE  a \in 1..254 /\ a \in Int
<1>1. Top \in 1..254
  BY ValidatorAssumption
<1>. QED BY <1>1 DEF Addresses

LEMMA AtMost == \A x, y \in Int : (x < y => x <= y) /\ (~(x < y) => y <= x)
OBVIOUS

LEMMA AscendingOnce ==
  ASSUME NEW s \in Seq(Addresses), Ascending(s)
  PROVE  IsInjective(s)
<1>1. \A i \in DOMAIN s : i \in Int /\ s[i] \in Int
  BY ValidatorAssumption DEF Addresses
<1>2. ASSUME NEW i \in DOMAIN s, NEW j \in DOMAIN s, s[i] = s[j] PROVE i = j
  <2>1. i \in Int /\ j \in Int /\ s[i] \in Int /\ s[j] \in Int
    BY <1>1
  <2>2. (i < j => s[i] < s[j]) /\ (j < i => s[j] < s[i])
    BY DEF Ascending
  <2>. QED BY <2>1, <2>2, <1>2
<1>. QED BY <1>2 DEF IsInjective

LEMMA Hosts ==
  ASSUME NEW hosts, hosts = RemoveAt([i \in Addresses |-> i], Installer)
  PROVE  /\ hosts \in Seq(Addresses)
         /\ Ascending(hosts)
         /\ ToSet(hosts) = Addresses \ {Installer}
<1>. DEFINE all == [i \in Addresses |-> i]
<1>1. all \in Seq(Addresses) /\ DOMAIN all = 1..Top /\ Len(all) = Top
      /\ \A i \in DOMAIN all : all[i] = i
  BY ValidatorAssumption DEF Addresses
<1>2. Installer \in DOMAIN all /\ Installer \in Int /\ Top \in Int
  BY ValidatorAssumption DEF Addresses
<1>. HIDE DEF all
<1>3. /\ hosts \in Seq(Addresses) /\ Len(hosts) = Top - 1
      /\ \A i \in DOMAIN hosts : hosts[i] = IF i < Installer THEN all[i] ELSE all[i + 1]
  BY <1>1, <1>2, RemoveAtFacts, ZenonT(60) DEF all
<1>4. DOMAIN hosts = 1..Top - 1
  BY <1>2, <1>3
<1>5. ASSUME NEW i \in DOMAIN hosts
      PROVE  i \in Int /\ hosts[i] = IF i < Installer THEN i ELSE i + 1
  <2>1. i \in DOMAIN all /\ i + 1 \in DOMAIN all /\ i \in Int
    BY <1>1, <1>2, <1>4
  <2>2. all[i] = i /\ all[i + 1] = i + 1
    BY <1>1, <2>1
  <2>. QED BY <1>3, <2>1, <2>2
<1>6. Ascending(hosts)
  <2>. SUFFICES ASSUME NEW i \in DOMAIN hosts, NEW j \in DOMAIN hosts, i < j
                PROVE  hosts[i] < hosts[j]
    BY DEF Ascending
  <2>. QED BY <1>2, <1>5
<1>7. IsInjective(all)
  BY <1>1, Zenon DEF IsInjective
<1>8. \A x : (\E i \in DOMAIN hosts : hosts[i] = x)
                <=> x # all[Installer] /\ \E i \in DOMAIN all : all[i] = x
  <2>1. hosts = RemoveAt(all, Installer)
    BY DEF all
  <2>2. \A x : (\E i \in DOMAIN RemoveAt(all, Installer) : RemoveAt(all, Installer)[i] = x)
                  <=> x # all[Installer] /\ \E i \in DOMAIN all : all[i] = x
    BY <1>1, <1>2, <1>7, RemoveOnce
  <2>. QED BY <2>1, <2>2
<1>9. ToSet(hosts) = Addresses \ {Installer}
  <2>1. all[Installer] = Installer /\ DOMAIN all = Addresses
    BY <1>1, <1>2 DEF Addresses
  <2>2. \A x : (\E i \in DOMAIN all : all[i] = x) <=> x \in Addresses
    BY <1>1, <2>1, Zenon
  <2>3. \A x : x \in ToSet(hosts) <=> \E i \in DOMAIN hosts : hosts[i] = x
    BY Zenon DEF ToSet
  <2>4. \A x : x \in ToSet(hosts) <=> x # Installer /\ x \in Addresses
    BY <1>8, <2>1, <2>2, <2>3, ZenonT(60)
  <2>. QED BY <2>4
<1>. QED BY <1>3, <1>6, <1>9

(* A slice of the list keeps its order; cut at the place of an address, it *)
(* keeps the ones from that address on, or up to it.                       *)
LEMMA Cut ==
  ASSUME NEW s \in Seq(Addresses), Ascending(s), NEW k \in DOMAIN s
  PROVE  /\ SubSeq(s, k, Len(s)) \in Seq(Addresses) /\ Ascending(SubSeq(s, k, Len(s)))
         /\ ToSet(SubSeq(s, k, Len(s))) = {a \in ToSet(s) : a >= s[k]}
         /\ SubSeq(s, 1, k) \in Seq(Addresses) /\ Ascending(SubSeq(s, 1, k))
         /\ ToSet(SubSeq(s, 1, k)) = {a \in ToSet(s) : a <= s[k]}
<1>. DEFINE u == SubSeq(s, k, Len(s))
            v == SubSeq(s, 1, k)
<1>1. Len(s) \in Nat /\ DOMAIN s = 1..Len(s) /\ k \in 1..Len(s)
  OBVIOUS
<1>2. \A i \in DOMAIN s : i \in Int /\ s[i] \in Int /\ s[i] \in Addresses
  BY ValidatorAssumption DEF Addresses
<1>3. \A i, j \in DOMAIN s : i < j => s[i] < s[j]
  BY DEF Ascending
<1>4. u \in Seq(Addresses) /\ Len(u) = Len(s) - k + 1
      /\ \A i \in 1..Len(s) - k + 1 : u[i] = s[k + i - 1]
  BY <1>1, <1>2, SubSeqProperties
<1>5. v \in Seq(Addresses) /\ Len(v) = k /\ \A i \in 1..k : v[i] = s[i]
  <2>1. k \in Int /\ 1 <= k /\ \A i \in 1..k : s[i] \in Addresses
    BY <1>1, <1>2
  <2>2. v \in Seq(Addresses) /\ Len(v) = (IF 1 <= k THEN k - 1 + 1 ELSE 0)
        /\ \A i \in 1..k - 1 + 1 : v[i] = s[1 + i - 1]
    BY <2>1, SubSeqProperties
  <2>. QED BY <2>1, <2>2
<1>. HIDE DEF u, v
<1>6. DOMAIN u = 1..Len(s) - k + 1 /\ DOMAIN v = 1..k
  BY <1>1, <1>4, <1>5
<1>7. ASSUME NEW i \in DOMAIN u
      PROVE  i \in Int /\ k + i - 1 \in DOMAIN s /\ k + i - 1 >= k /\ u[i] = s[k + i - 1]
  BY <1>1, <1>4, <1>6
<1>8. ASSUME NEW i \in DOMAIN v
      PROVE  i \in Int /\ i \in DOMAIN s /\ i <= k /\ v[i] = s[i]
  BY <1>1, <1>5, <1>6
<1>9. Ascending(u)
  <2>. SUFFICES ASSUME NEW i \in DOMAIN u, NEW j \in DOMAIN u, i < j PROVE u[i] < u[j]
    BY DEF Ascending
  <2>1. i \in Int /\ k + i - 1 \in DOMAIN s /\ u[i] = s[k + i - 1]
    BY <1>7
  <2>2. j \in Int /\ k + j - 1 \in DOMAIN s /\ u[j] = s[k + j - 1]
    BY <1>7
  <2>3. k + i - 1 < k + j - 1
    BY <1>1, <2>1, <2>2
  <2>. QED BY <1>3, <2>1, <2>2, <2>3
<1>10. Ascending(v)
  BY <1>3, <1>8 DEF Ascending
<1>11. ASSUME NEW i \in DOMAIN s
       PROVE  (s[i] >= s[k] <=> i >= k) /\ (s[i] <= s[k] <=> i <= k)
  <2>1. i \in Int /\ k \in Int /\ s[i] \in Int /\ s[k] \in Int
    BY <1>2
  <2>2. (i < k => s[i] < s[k]) /\ (k < i => s[k] < s[i])
    BY <1>3
  <2>3. CASE i = k
    BY <2>1, <2>3
  <2>. QED BY <2>1, <2>2, <2>3
<1>12. ToSet(u) = {a \in ToSet(s) : a >= s[k]}
  <2>1. ASSUME NEW i \in DOMAIN u PROVE u[i] \in {a \in ToSet(s) : a >= s[k]}
    <3>1. k + i - 1 \in DOMAIN s /\ k + i - 1 >= k /\ u[i] = s[k + i - 1]
      BY <1>7
    <3>2. s[k + i - 1] >= s[k] /\ s[k + i - 1] \in ToSet(s)
      BY <3>1, <1>11 DEF ToSet
    <3>. QED BY <3>1, <3>2
  <2>2. ASSUME NEW i \in DOMAIN s, s[i] >= s[k] PROVE s[i] \in ToSet(u)
    <3>1. i \in Int /\ i >= k
      BY <1>2, <1>11, <2>2
    <3>2. i - k + 1 \in DOMAIN u /\ k + (i - k + 1) - 1 = i
      BY <1>1, <1>6, <3>1
    <3>3. u[i - k + 1] = s[i]
      BY <1>7, <3>2
    <3>. QED BY <3>2, <3>3 DEF ToSet
  <2>. QED BY <2>1, <2>2, Zenon DEF ToSet
<1>13. ToSet(v) = {a \in ToSet(s) : a <= s[k]}
  <2>1. ASSUME NEW i \in DOMAIN v PROVE v[i] \in {a \in ToSet(s) : a <= s[k]}
    <3>1. i \in DOMAIN s /\ i <= k /\ v[i] = s[i]
      BY <1>8
    <3>2. s[i] <= s[k] /\ s[i] \in ToSet(s)
      BY <3>1, <1>11 DEF ToSet
    <3>. QED BY <3>1, <3>2
  <2>2. ASSUME NEW i \in DOMAIN s, s[i] <= s[k] PROVE s[i] \in ToSet(v)
    <3>1. i \in DOMAIN v
      BY <1>1, <1>2, <1>6, <1>11, <2>2
    <3>. QED BY <1>8, <3>1 DEF ToSet
  <2>. QED BY <2>1, <2>2, Zenon DEF ToSet
<1>. QED BY <1>4, <1>5, <1>9, <1>10, <1>12, <1>13 DEF u, v

LEMMA CutAtEnds ==
  ASSUME NEW s \in Seq(Addresses), Ascending(s), NEW t
  PROVE  /\ FromMinimum(s, t) \in Seq(Addresses) /\ Ascending(FromMinimum(s, t))
         /\ ToSet(FromMinimum(s, t)) \subseteq ToSet(s)
         /\ UpToMaximum(s, t) \in Seq(Addresses) /\ Ascending(UpToMaximum(s, t))
         /\ ToSet(UpToMaximum(s, t)) \subseteq ToSet(s)
<1>1. CASE Places(s, t) = {}
  BY <1>1 DEF FromMinimum, UpToMaximum
<1>2. CASE Places(s, t) # {}
  <2>. DEFINE k == CHOOSE i \in Places(s, t) : TRUE
  <2>1. k \in Places(s, t)
    BY <1>2, Zenon
  <2>2. k \in DOMAIN s
    BY <2>1, Zenon DEF Places
  <2>3. FromMinimum(s, t) = SubSeq(s, k, Len(s)) /\ UpToMaximum(s, t) = SubSeq(s, 1, k)
    BY <1>2 DEF FromMinimum, UpToMaximum
  <2>. HIDE DEF k
  <2>. QED BY <2>2, <2>3, Cut
<1>. QED BY <1>1, <1>2

(* An address that is in the list is where it is cut.                      *)
LEMMA CutAtAddress ==
  ASSUME NEW s \in Seq(Addresses), Ascending(s), NEW a \in ToSet(s), NEW t, t = Text(a, FALSE)
  PROVE  /\ ToSet(FromMinimum(s, t)) = {b \in ToSet(s) : b >= a}
         /\ ToSet(UpToMaximum(s, t)) = {b \in ToSet(s) : b <= a}
<1>. DEFINE k == CHOOSE i \in Places(s, t) : TRUE
<1>1. PICK i \in DOMAIN s : s[i] = a
  BY Zenon DEF ToSet
<1>2. i \in Places(s, t)
  BY <1>1, Zenon DEF Places
<1>3. k \in Places(s, t)
  BY <1>2, Zenon
<1>4. k \in DOMAIN s /\ Text(s[k], FALSE) = t
  BY <1>3, Zenon DEF Places
<1>5. FromMinimum(s, t) = SubSeq(s, k, Len(s)) /\ UpToMaximum(s, t) = SubSeq(s, 1, k)
  BY <1>2 DEF FromMinimum, UpToMaximum
<1>. HIDE DEF k
<1>6. s[k] = a
  <2>1. Digits(s[k]) = Digits(a)
    BY <1>4, Zenon DEF Text
  <2>2. s[k] \in Addresses /\ a \in Addresses
    BY <1>1, <1>4
  <2>3. s[k] \in 1..254 /\ a \in 1..254
    BY <2>2, AddressBound
  <2>. QED BY <2>1, <2>3, DigitsOrder
<1>. QED BY <1>4, <1>5, <1>6, Cut

LEMMA UsableRange ==
  ASSUME NEW c \in Config
  PROVE  /\ gen_ip_range(c) \in Seq(Addresses) /\ IsInjective(gen_ip_range(c))
         /\ Installer \notin ToSet(gen_ip_range(c))
<1>. DEFINE hosts == RemoveAt([i \in Addresses |-> i], Installer)
            low == FromMinimum(hosts, Minimum(c))
<1>1. hosts \in Seq(Addresses) /\ Ascending(hosts) /\ ToSet(hosts) = Addresses \ {Installer}
  BY Hosts
<1>2. gen_ip_range(c) = UpToMaximum(low, Maximum(c))
  BY DEF gen_ip_range
<1>. HIDE DEF hosts
<1>3. low \in Seq(Addresses) /\ Ascending(low) /\ ToSet(low) \subseteq ToSet(hosts)
  BY <1>1, CutAtEnds
<1>. HIDE DEF low
<1>4. /\ gen_ip_range(c) \in Seq(Addresses) /\ Ascending(gen_ip_range(c))
      /\ ToSet(gen_ip_range(c)) \subseteq ToSet(low)
  BY <1>2, <1>3, CutAtEnds
<1>5. IsInjective(gen_ip_range(c))
  BY <1>4, AscendingOnce
<1>. QED BY <1>1, <1>3, <1>4, <1>5

(* Ends of equal length that are usable themselves bound the range.        *)
LEMMA PlainRange ==
  ASSUME NEW c \in Config, Plain(c), NEW a \in ToSet(gen_ip_range(c))
  PROVE  /\ c.first <= a \/ c.second <= a
         /\ a <= c.first \/ a <= c.second
<1>. DEFINE hosts == RemoveAt([i \in Addresses |-> i], Installer)
            low == FromMinimum(hosts, Minimum(c))
<1>1. hosts \in Seq(Addresses) /\ Ascending(hosts) /\ ToSet(hosts) = Addresses \ {Installer}
  BY Hosts
<1>2. gen_ip_range(c) = UpToMaximum(low, Maximum(c))
  BY DEF gen_ip_range
<1>. HIDE DEF hosts
<1>3. low \in Seq(Addresses) /\ Ascending(low)
  BY <1>1, CutAtEnds
<1>4. /\ c.first \in Addresses \ {Installer} /\ c.second \in Addresses \ {Installer}
      /\ Len(Digits(c.first)) = Len(Digits(c.second)) /\ c.spaced = FALSE
  BY ValidatorAssumption DEF Config, Plain
<1>5. /\ c.first \in 1..254 /\ c.second \in 1..254
      /\ c.first \in Int /\ c.second \in Int
  BY <1>4, AddressBound
<1>6. /\ Text(c.first, FALSE) = Digits(c.first) /\ Text(c.second, FALSE) = Digits(c.second)
      /\ Text(c.second, c.spaced) = Digits(c.second)
  BY <1>4 DEF Text
<1>7. Before(Digits(c.second), Digits(c.first)) <=> c.second < c.first
  BY <1>4, <1>5, DigitsOrder
<1>8. PICK p \in {c.first, c.second}, q \in {c.first, c.second} :
         Minimum(c) = Text(p, FALSE) /\ Maximum(c) = Text(q, FALSE) /\ p <= q
  <2>1. CASE c.second < c.first
    <3>1. Minimum(c) = Text(c.second, FALSE) /\ Maximum(c) = Text(c.first, FALSE)
      BY <1>6, <1>7, <2>1, Zenon DEF Minimum, Maximum
    <3>2. c.second <= c.first
      BY <1>5, <2>1, AtMost, Zenon
    <3>. QED BY <3>1, <3>2, Zenon
  <2>2. CASE ~(c.second < c.first)
    <3>1. Minimum(c) = Text(c.first, FALSE) /\ Maximum(c) = Text(c.second, FALSE)
      BY <1>6, <1>7, <2>2, Zenon DEF Minimum, Maximum
    <3>2. c.first <= c.second
      BY <1>5, <2>2, AtMost, Zenon
    <3>. QED BY <3>1, <3>2, Zenon
  <2>. QED BY <2>1, <2>2
<1>9. p \in ToSet(hosts) /\ q \in ToSet(hosts) /\ p \in Int /\ q \in Int
  <2>1. \A e \in {c.first, c.second} : e \in ToSet(hosts) /\ e \in Int
    BY <1>1, <1>4, <1>5
  <2>. QED BY <2>1, <1>8, Zenon
<1>10. ToSet(low) = {b \in ToSet(hosts) : b >= p}
  BY <1>1, <1>8, <1>9, CutAtAddress, ZenonT(60)
<1>11. q \in ToSet(low)
  BY <1>8, <1>9, <1>10
<1>. HIDE DEF low
<1>12. ToSet(gen_ip_range(c)) = {b \in ToSet(low) : b <= q}
  <2>1. ToSet(UpToMaximum(low, Text(q, FALSE))) = {b \in ToSet(low) : b <= q}
    BY <1>3, <1>11, CutAtAddress
  <2>2. gen_ip_range(c) = UpToMaximum(low, Text(q, FALSE))
    BY <1>2, <1>8
  <2>. QED BY <2>1, <2>2
<1>13. a >= p /\ a <= q
  BY <1>10, <1>12
<1>14. p = c.first \/ p = c.second
  BY <1>8
<1>15. q = c.first \/ q = c.second
  BY <1>8
<1>. QED BY <1>13, <1>14, <1>15

-----------------------------------------------------------------------------
(* The hardware test.                                                      *)

LEMMA ThreeOf ==
  ASSUME NEW S, IsFiniteSet(S), NEW l \in S
  PROVE  Cardinality(S) >= 3 <=> \E j, k \in S : Cardinality({j, k, l}) = 3
<1>1. ASSUME NEW j \in S, NEW k \in S, Cardinality({j, k, l}) = 3 PROVE Cardinality(S) >= 3
  <2>1. {j, k, l} \subseteq S
    OBVIOUS
  <2>2. Cardinality({j, k, l}) <= Cardinality(S) /\ Cardinality(S) \in Nat
    BY <2>1, FS_Subset, FS_CardinalityType
  <2>. QED BY <1>1, <2>2
<1>2. ASSUME Cardinality(S) >= 3 PROVE \E j, k \in S : Cardinality({j, k, l}) = 3
  <2>1. IsFiniteSet(S \ {l}) /\ Cardinality(S \ {l}) = Cardinality(S) - 1 /\ Cardinality(S) \in Nat
    BY FS_RemoveElement, FS_CardinalityType
  <2>2. PICK k : k \in S \ {l}
    BY <1>2, <2>1, FS_EmptySet
  <2>3. IsFiniteSet((S \ {l}) \ {k}) /\ Cardinality((S \ {l}) \ {k}) = Cardinality(S \ {l}) - 1
    BY <2>1, <2>2, FS_RemoveElement
  <2>4. PICK j : j \in (S \ {l}) \ {k}
    BY <1>2, <2>1, <2>3, FS_EmptySet
  <2>5. IsFiniteSet({l}) /\ Cardinality({l}) = 1
    BY FS_Singleton
  <2>6. IsFiniteSet({l} \cup {k}) /\ Cardinality({l} \cup {k}) = 2
    BY <2>2, <2>5, FS_AddElement
  <2>7. Cardinality(({l} \cup {k}) \cup {j}) = 3
    BY <2>2, <2>4, <2>6, FS_AddElement
  <2>8. ({l} \cup {k}) \cup {j} = {j, k, l}
    OBVIOUS
  <2>. QED BY <2>2, <2>4, <2>7, <2>8, Zenon
<1>. QED BY <1>1, <1>2

LEMMA Thresholds ==
  ASSUME NEW x \in Int
  PROVE  /\ Suffices(x, MIN_CPUFREQ, 5) <=> x >= 1710
         /\ Suffices(x, MIN_SSDSIZE, 10) <=> x >= 90
         /\ x < MIN_MEMSIZE \div 2 => ~Suffices(x, MIN_MEMSIZE, 5)
BY DEF Suffices, approxsize, MIN_CPUFREQ, MIN_SSDSIZE, MIN_MEMSIZE

LEMMA Verdict ==
  ASSUME NEW m, Machine(m), m.memory < MIN_MEMSIZE \div 2
  PROVE  /\ Meets(m) <=> hardware_test(m) = Tests \ {"memory"}
         /\ "memory" \notin hardware_test(m)
<1>1. /\ m.bitsize \in Nat /\ m.cores \in Nat /\ m.mhz \in Nat /\ m.memory \in Nat
      /\ \A i \in 0 .. m.cores - 1 : m.max[i] \in Int
  BY DEF Machine
<1>2. m.disks \in Seq(Disk)
  BY DEF Machine
<1>3. Probed(m) \subseteq 1 .. Len(m.disks) /\ Len(m.disks) \in Nat
  BY <1>2 DEF Probed
<1>4. IsFiniteSet(Probed(m))
  <2>1. IsFiniteSet(1 .. Len(m.disks))
    BY <1>3, FS_Interval
  <2>. QED BY <1>3, <2>1, FS_Subset
<1>5. \A k \in Probed(m) : m.disks[k].size \in Int
  <2>1. \A k \in Probed(m) : m.disks[k] \in Disk
    BY <1>2, <1>3
  <2>2. \A d \in Disk : d.size \in Int
    BY DEF Disk, Unread
  <2>. QED BY <2>1, <2>2
<1>6. ~Suffices(m.memory, MIN_MEMSIZE, 5)
  BY <1>1, Thresholds
<1>7. \A i \in 0 .. m.cores - 1 : Frequency(m, i) \in Int
  BY <1>1 DEF Frequency
<1>8. \A i \in 0 .. m.cores - 1 : Suffices(Frequency(m, i), MIN_CPUFREQ, 5) <=> Frequency(m, i) >= 1710
  BY <1>7, Thresholds
<1>9. \A k \in Probed(m) : Suffices(m.disks[k].size, MIN_SSDSIZE, 10) <=> m.disks[k].size >= 90
  BY <1>5, Thresholds
<1>10. (Cardinality(Probed(m)) >= 3 /\ \E k \in Probed(m) : Ssd(m, k))
         <=> \E j, k, l \in Probed(m) : Cardinality({j, k, l}) = 3 /\ Ssd(m, l)
  BY <1>4, ThreeOf
<1>. DEFINE fast == \A i \in 0 .. m.cores - 1 : Frequency(m, i) >= 1710
            large == \A k \in Probed(m) : m.disks[k].size >= 90
            three == \E j, k, l \in Probed(m) : Cardinality({j, k, l}) = 3 /\ Ssd(m, l)
<1>11. /\ "architecture" \in hardware_test(m) <=> m.bitsize >= 63
       /\ "corecount" \in hardware_test(m) <=> m.cores >= 4
       /\ "cpu" \in hardware_test(m) <=> fast
       /\ "memory" \in hardware_test(m) <=> FALSE
       /\ "disk" \in hardware_test(m) <=> large
       /\ "diskcount" \in hardware_test(m) <=> three
  <2>1. "architecture" \in hardware_test(m) <=> m.bitsize >= 63
    BY DEF hardware_test, cpu, memory, storage
  <2>2. "corecount" \in hardware_test(m) <=> m.cores >= 4
    BY <1>1 DEF hardware_test, cpu, memory, storage, MIN_CORECOUNT
  <2>3. "cpu" \in hardware_test(m) <=> fast
    BY <1>8 DEF hardware_test, cpu, memory, storage
  <2>4. "memory" \notin hardware_test(m)
    BY <1>6 DEF hardware_test, cpu, memory, storage
  <2>5. "disk" \in hardware_test(m) <=> large
    BY <1>9 DEF hardware_test, cpu, memory, storage
  <2>6. "diskcount" \in hardware_test(m) <=> three
    BY <1>10 DEF hardware_test, cpu, memory, storage
  <2>. QED BY <2>1, <2>2, <2>3, <2>4, <2>5, <2>6
<1>. HIDE DEF fast, large, three
<1>12. hardware_test(m) \subseteq Tests
  BY DEF hardware_test, cpu, memory, storage, Tests
<1>13. hardware_test(m) = Tests \ {"memory"}
          <=> {"architecture", "corecount", "cpu", "disk", "diskcount"} \subseteq hardware_test(m)
  BY <1>11, <1>12 DEF Tests
<1>14. Meets(m) <=> {"architecture", "corecount", "cpu", "disk", "diskcount"} \subseteq hardware_test(m)
  <2>1. Meets(m) <=>
          m.bitsize >= 63 /\ m.cores >= 4 /\ fast /\ large /\ three
    BY DEF Meets, fast, large, three
  <2>2. Meets(m) <=>
          /\ "architecture" \in hardware_test(m) /\ "corecount" \in hardware_test(m)
          /\ "cpu" \in hardware_test(m) /\ "disk" \in hardware_test(m)
          /\ "diskcount" \in hardware_test(m)
    BY <1>11, <2>1, Zenon
  <2>. QED BY <2>2
<1>. QED BY <1>11, <1>13, <1>14

-----------------------------------------------------------------------------
(* Type correctness.                                                       *)

LEMMA ReportTypes ==
  ASSUME NEW a \in Machines
  PROVE  Report[a] \subseteq Tests
BY DEF Report, hardware_test, cpu, memory, storage, Tests

LEMMA ResultType ==
  ASSUME NEW a \in Machines, NEW r \in 1 .. Attempts, NEW whole \in BOOLEAN
  PROVE  [from |-> a, run |-> r, whole |-> whole, passed |-> Report[a]] \in Results
BY ReportTypes, ValidatorAssumption DEF Results

LEMMA TypeInit == Init => TypeOK
<1>. SUFFICES ASSUME Init PROVE TypeOK
  OBVIOUS
<1>1. Foreign \subseteq Addresses /\ Passes \in Nat /\ Attempts \in Nat /\ MaxTrouble \in Nat
  BY ValidatorAssumption
<1>2. <<>> \in Seq(Addresses) /\ <<>> \in Seq(Results)
  OBVIOUS
<1>3. tries \in [Addresses -> 0 .. Attempts]
  BY <1>1 DEF Init
<1>4. todo \in Seq(Addresses) /\ left \in Seq(Addresses) /\ alive \in Seq(Addresses)
  BY <1>2 DEF Init
<1>5. logs_q \in Seq(Results) /\ logged \in Seq(Results) /\ conns \subseteq Results
  BY <1>2 DEF Init
<1>6. up \subseteq Addresses /\ pass \in 0 .. Passes /\ trouble \in 0 .. MaxTrouble
  BY <1>1 DEF Init
<1>7. /\ config \in Config /\ listening \in BOOLEAN
      /\ stage \in {"dhcp", "power", "ping", "wait", "check", "done", "halted"}
  BY DEF Init
<1>. QED BY <1>3, <1>4, <1>5, <1>6, <1>7 DEF TypeOK

LEMMA TypeStep ==
  ASSUME TypeOK, [Next]_vars
  PROVE  TypeOK'
<1>0. Passes \in Nat \ {0} /\ Attempts \in Nat \ {0} /\ MaxTrouble \in Nat
      /\ Machines \subseteq Addresses
  BY ValidatorAssumption
<1>t. ASSUME Trouble PROVE trouble' \in 0 .. MaxTrouble
  BY <1>0, <1>t DEF Trouble, TypeOK
<1>1. CASE StartServers
  BY <1>1, <1>t DEF StartServers, StartReceiver, TypeOK
<1>2. CASE Halt
  BY <1>2, <1>t DEF Halt, TypeOK
<1>3. CASE PowerOn
  <2>1. config \in Config
    BY DEF TypeOK
  <2>2. gen_ip_range(config) \in Seq(Addresses)
    BY <2>1, UsableRange
  <2>. QED BY <1>0, <1>3, <2>2 DEF PowerOn, TypeOK
<1>4. CASE Ping
  <2>1. todo \in Seq(Addresses) /\ todo # <<>>
    BY <1>4 DEF Ping, TypeOK
  <2>2. Head(todo) \in Addresses /\ Tail(todo) \in Seq(Addresses)
    BY <2>1, HeadTailProperties
  <2>3. left' \in Seq(Addresses)
    BY <1>4, RemoveAtFacts DEF Ping, TypeOK
  <2>4. alive' \in Seq(Addresses)
    <3>1. alive' = alive \/ alive' = Append(alive, Head(todo))
      BY <1>4 DEF Ping
    <3>2. alive \in Seq(Addresses)
      BY DEF TypeOK
    <3>. QED BY <2>2, <3>1, <3>2
  <2>5. trouble' \in 0 .. MaxTrouble
    BY <1>4, <1>t DEF Ping, TypeOK
  <2>6. todo' \in Seq(Addresses)
    BY <1>4, <2>2 DEF Ping
  <2>. QED BY <1>4, <2>3, <2>4, <2>5, <2>6 DEF Ping, TypeOK
<1>5. CASE EndPass
  <2>1. tries' \in [Addresses -> 0 .. Attempts]
    <3>1. tries' = tries \/ tries' = [a \in Addresses |-> IF a \in ToSet(alive) THEN Attempts ELSE 0]
      BY <1>5 DEF EndPass
    <3>2. tries \in [Addresses -> 0 .. Attempts]
      BY DEF TypeOK
    <3>3. \A a \in Addresses : (IF a \in ToSet(alive) THEN Attempts ELSE 0) \in 0 .. Attempts
      BY <1>0
    <3>. QED BY <3>1, <3>2, <3>3
  <2>2. pass' \in 0 .. Passes
    BY <1>0, <1>5 DEF EndPass, TypeOK
  <2>. QED BY <1>5, <2>1, <2>2 DEF EndPass, TypeOK
<1>6. CASE LogResult
  BY <1>6 DEF LogResult, TypeOK
<1>7. CASE CheckQueue
  BY <1>7 DEF CheckQueue, TypeOK
<1>8. ASSUME NEW a \in Machines, Boot(a) PROVE TypeOK'
  BY <1>0, <1>8 DEF Boot, TypeOK
<1>9. ASSUME NEW a \in Addresses, RunTest(a) PROVE TypeOK'
  <2>1. a \in Machines /\ tries[a] \in 1 .. Attempts
    BY <1>0, <1>9 DEF RunTest, TypeOK
  <2>2. tries' \in [Addresses -> 0 .. Attempts]
    BY <1>0, <1>9, <2>1 DEF RunTest, TypeOK
  <2>3. conns' \subseteq Results
    <3>1. PICK whole \in BOOLEAN : Send(a, whole)
      BY <1>9 DEF RunTest
    <3>2. [from |-> a, run |-> tries[a], whole |-> whole, passed |-> Report[a]] \in Results
      BY <2>1, ResultType
    <3>. QED BY <3>1, <3>2 DEF Send, TypeOK
  <2>4. trouble' \in 0 .. MaxTrouble
    BY <1>9, <1>t DEF RunTest, TypeOK
  <2>. QED BY <1>9, <2>2, <2>3, <2>4 DEF RunTest, TypeOK
<1>10. ASSUME NEW a \in Addresses, FailTest(a) PROVE TypeOK'
  <2>1. tries' \in [Addresses -> 0 .. Attempts]
    BY <1>0, <1>10 DEF FailTest, TypeOK
  <2>2. trouble' \in 0 .. MaxTrouble
    BY <1>10, <1>t DEF FailTest, TypeOK
  <2>. QED BY <1>10, <2>1, <2>2 DEF FailTest, TypeOK
<1>11. ASSUME NEW c \in conns, ReadMessage(c) PROVE TypeOK'
  <2>1. c \in Results /\ logs_q \in Seq(Results)
    BY <1>11 DEF TypeOK
  <2>2. logs_q' \in Seq(Results)
    BY <1>11, <2>1 DEF ReadMessage
  <2>. QED BY <1>11, <2>2 DEF ReadMessage, TypeOK
<1>12. CASE UNCHANGED vars
  BY <1>12 DEF vars, TypeOK
<1>. QED BY <1>1, <1>2, <1>3, <1>4, <1>5, <1>6, <1>7, <1>8, <1>9, <1>10, <1>11, <1>12
            DEF Next, MainStep

-----------------------------------------------------------------------------
(* What ping_network has found.                                            *)

LEMMA PingInit == Init => InvPing
BY ValidatorAssumption DEF Init, InvPing, IsInjective, ToSet, Config

LEMMA PingStep ==
  ASSUME TypeOK, InvPing, [Next]_vars
  PROVE  InvPing'
<1>0. /\ config \in Config /\ todo \in Seq(Addresses) /\ left \in Seq(Addresses)
      /\ alive \in Seq(Addresses)
  BY DEF TypeOK
<1>n. config.nodes \in Int /\ Len(alive) \in Nat
  BY <1>0, ValidatorAssumption DEF Config
<1>1. CASE stage \in {"dhcp", "power"} /\ stage' \in {"dhcp", "power", "halted"}
           /\ UNCHANGED <<config, todo, left, alive>>
  BY <1>1 DEF InvPing
<1>2. CASE stage' = stage /\ UNCHANGED <<config, todo, left, alive>>
  BY <1>2 DEF InvPing
<1>3. CASE PowerOn
  <2>1. stage = "power" /\ alive = <<>> /\ alive' = alive /\ stage' = "ping" /\ config' = config
        /\ left' = gen_ip_range(config) /\ todo' = gen_ip_range(config)
    BY <1>3 DEF PowerOn, InvPing
  <2>2. IsInjective(gen_ip_range(config))
    BY <1>0, UsableRange
  <2>3. ToSet(alive) = {} /\ IsInjective(alive) /\ Len(alive) = 0
    BY <2>1 DEF ToSet, IsInjective
  <2>4. Usable(config)' = ToSet(gen_ip_range(config))
    BY <2>1 DEF Usable
  <2>. QED BY <2>1, <2>2, <2>3, <2>4 DEF InvPing
<1>4. CASE Ping
  <2>. DEFINE a == Head(todo)
  <2>1. stage = "ping" /\ stage' = "ping" /\ config' = config /\ todo # <<>>
    BY <1>4 DEF Ping
  <2>2. /\ IsInjective(left) /\ IsInjective(todo) /\ IsInjective(alive)
        /\ ToSet(todo) \subseteq ToSet(left) /\ ToSet(alive) \cap ToSet(left) = {}
        /\ ToSet(alive) \cup ToSet(left) \subseteq Usable(config)
        /\ Len(alive) < config.nodes \/ Len(alive) = 0
    BY <2>1 DEF InvPing
  <2>3. /\ Tail(todo) \in Seq(Addresses) /\ IsInjective(Tail(todo))
        /\ ToSet(Tail(todo)) \subseteq ToSet(todo) \ {a} /\ a \in ToSet(todo)
    BY <1>0, <2>1, <2>2, TailOnce
  <2>4. todo' = (IF Len(alive') >= config.nodes THEN <<>> ELSE Tail(todo))
    BY <1>4 DEF Ping, Enough
  <2>5. a \in Addresses /\ a \notin ToSet(alive)
    BY <1>0, <2>1, <2>2, <2>3
  <2>. HIDE DEF a
  <2>6. IsInjective(todo') /\ ToSet(todo') \subseteq ToSet(todo) \ {a}
    <3>1. IsInjective(<<>>) /\ ToSet(<<>>) = {}
      BY DEF IsInjective, ToSet
    <3>. QED BY <2>3, <2>4, <3>1
  <2>7. CASE UNCHANGED <<left, alive>>
    BY <1>n, <2>1, <2>2, <2>4, <2>6, <2>7 DEF InvPing, Usable
  <2>8. CASE (\E k \in DOMAIN left : left[k] = a /\ left' = RemoveAt(left, k))
             /\ alive' = Append(alive, a)
    <3>1. PICK k \in DOMAIN left : left[k] = a /\ left' = RemoveAt(left, k)
      BY <2>8
    <3>2. /\ IsInjective(left')
          /\ \A x : (\E i \in DOMAIN left' : left'[i] = x) <=> x # a /\ \E i \in DOMAIN left : left[i] = x
      <4>1. /\ IsInjective(RemoveAt(left, k))
            /\ \A x : (\E i \in DOMAIN RemoveAt(left, k) : RemoveAt(left, k)[i] = x)
                         <=> x # left[k] /\ \E i \in DOMAIN left : left[i] = x
        BY <1>0, <2>2, RemoveOnce
      <4>. QED BY <3>1, <4>1
    <3>3. ToSet(left') = ToSet(left) \ {a}
      BY <3>2, Zenon DEF ToSet
    <3>4. /\ Len(alive') = Len(alive) + 1 /\ IsInjective(alive')
          /\ ToSet(alive') = ToSet(alive) \cup {a}
      BY <1>0, <2>2, <2>5, <2>8, AppendOnce
    <3>5. a \in ToSet(left)
      BY <2>2, <2>3
    <3>6. Len(alive') <= config.nodes \/ Len(alive') <= 1
      BY <1>n, <2>2, <3>4
    <3>7. todo' # <<>> => Len(alive') < config.nodes
      BY <1>n, <2>4, <3>4
    <3>8. ToSet(todo') \subseteq ToSet(left') /\ ToSet(alive') \cap ToSet(left') = {}
          /\ ToSet(alive') \cup ToSet(left') \subseteq Usable(config)
      BY <2>2, <2>6, <3>3, <3>4, <3>5
    <3>. QED BY <2>1, <2>6, <3>2, <3>4, <3>6, <3>7, <3>8 DEF InvPing, Usable
  <2>. QED BY <1>4, <2>7, <2>8 DEF Ping, a
<1>5. CASE EndPass
  <2>1. stage = "ping" /\ UNCHANGED <<config, left, alive>> /\ stage' \in {"ping", "wait"}
    BY <1>5 DEF EndPass
  <2>2. CASE stage' = "wait" /\ UNCHANGED todo
    BY <2>1, <2>2 DEF InvPing, Usable
  <2>3. CASE todo' = left /\ ~(Len(alive) >= config.nodes)
    BY <1>n, <2>1, <2>3 DEF InvPing, Usable
  <2>. QED BY <1>5, <2>1, <2>2, <2>3 DEF EndPass, Enough
<1>6. CASE stage' \notin {"dhcp", "power", "ping"} /\ UNCHANGED <<config, todo, left, alive>>
  BY <1>6 DEF InvPing, Usable
<1>7. ASSUME StartServers \/ Halt
      PROVE  stage \in {"dhcp", "power"} /\ stage' \in {"dhcp", "power", "halted"}
             /\ UNCHANGED <<config, todo, left, alive>>
  BY <1>7 DEF StartServers, Halt
<1>8. ASSUME LogResult \/ CheckQueue
      PROVE  stage' \notin {"dhcp", "power", "ping"} /\ UNCHANGED <<config, todo, left, alive>>
  BY <1>8 DEF LogResult, CheckQueue
<1>9. ASSUME \/ \E a \in Machines : Boot(a)
             \/ \E a \in Addresses : RunTest(a) \/ FailTest(a)
             \/ \E c \in conns : ReadMessage(c)
             \/ UNCHANGED vars
      PROVE  stage' = stage /\ UNCHANGED <<config, todo, left, alive>>
  BY <1>9 DEF Boot, RunTest, FailTest, ReadMessage, vars
<1>. QED BY <1>1, <1>2, <1>3, <1>4, <1>5, <1>6, <1>7, <1>8, <1>9 DEF Next, MainStep

-----------------------------------------------------------------------------
(* The results of the runs.                                                *)

LEMMA ReceivedFacts ==
  ASSUME TypeOK
  PROVE  Received \in Seq(Results)
BY DEF TypeOK, Received

(* The main thread moves a result from the queue to the log.               *)
LEMMA LogKeeps ==
  ASSUME TypeOK, LogResult
  PROVE  Received' = Received
<1>1. logged \in Seq(Results) /\ logs_q \in Seq(Results) /\ logs_q # <<>>
  BY DEF TypeOK, LogResult
<1>2. Head(logs_q) \in Results /\ Tail(logs_q) \in Seq(Results)
  BY <1>1, HeadTailProperties
<1>3. <<Head(logs_q)>> \in Seq(Results) /\ logs_q = <<Head(logs_q)>> \o Tail(logs_q)
  BY <1>1, <1>2
<1>4. Append(logged, Head(logs_q)) = logged \o <<Head(logs_q)>>
  BY <1>1, <1>2, AppendIsConcat
<1>5. (logged \o <<Head(logs_q)>>) \o Tail(logs_q) = logged \o (<<Head(logs_q)>> \o Tail(logs_q))
  BY <1>1, <1>2, <1>3, ConcatAssociative
<1>6. Received' = Append(logged, Head(logs_q)) \o Tail(logs_q)
  BY DEF LogResult, Received
<1>. QED BY <1>3, <1>4, <1>5, <1>6, Zenon DEF Received

(* A reader thread adds the result of its connection at the end.           *)
LEMMA ReadAdds ==
  ASSUME TypeOK, NEW c \in conns, ReadMessage(c)
  PROVE  \/ Received' = Received
         \/ Received' = Append(Received, c)
<1>1. logged \in Seq(Results) /\ logs_q \in Seq(Results) /\ c \in Results /\ logged' = logged
  BY DEF TypeOK, ReadMessage
<1>2. logs_q' = logs_q \/ logs_q' = Append(logs_q, c)
  BY DEF ReadMessage
<1>3. CASE logs_q' = logs_q
  BY <1>1, <1>3 DEF Received
<1>4. CASE logs_q' = Append(logs_q, c)
  <2>1. Append(logs_q, c) = logs_q \o <<c>> /\ <<c>> \in Seq(Results)
    BY <1>1, AppendIsConcat
  <2>2. (logged \o logs_q) \o <<c>> = logged \o (logs_q \o <<c>>)
    BY <1>1, <2>1, ConcatAssociative
  <2>3. (logged \o logs_q) \in Seq(Results)
    BY <1>1
  <2>4. Append(logged \o logs_q, c) = (logged \o logs_q) \o <<c>>
    BY <1>1, <2>3, AppendIsConcat
  <2>. QED BY <1>1, <1>4, <2>1, <2>2, <2>4, Zenon DEF Received
<1>. QED BY <1>2, <1>3, <1>4

(* What the node sends is right about the machine.                         *)
LEMMA SendsVerdict ==
  ASSUME NEW a \in Machines, NEW c, c.from = a, c.passed = Report[a]
  PROVE  VerdictRight(c)
<1>1. Machine(Hardware[a]) /\ Hardware[a].memory < MIN_MEMSIZE \div 2
  BY ValidatorAssumption
<1>2. Meets(Hardware[a]) <=> hardware_test(Hardware[a]) = Tests \ {"memory"}
  BY <1>1, Verdict
<1>3. "memory" \notin hardware_test(Hardware[a])
  BY <1>1, Verdict
<1>4. Report[a] = hardware_test(Hardware[a])
  BY DEF Report
<1>5. a \in Sound <=> Meets(Hardware[a])
  BY DEF Sound
<1>. QED BY <1>2, <1>3, <1>4, <1>5, Zenon DEF VerdictRight

LEMMA RunsInit == Init => InvRuns
<1>. SUFFICES ASSUME Init PROVE InvRuns
  OBVIOUS
<1>1. conns = {} /\ Received = <<>> /\ \A a \in Addresses : tries[a] = 0
  BY DEF Init, Received
<1>. QED BY <1>1 DEF InvRuns

(* Nothing sent is withdrawn when more is found or fewer runs are left.    *)
LEMMA SentStays ==
  ASSUME NEW c \in Results, Sent(c), ToSet(alive) \subseteq ToSet(alive'),
         tries \in [Addresses -> Int], tries' \in [Addresses -> Int],
         \A a \in Addresses : tries'[a] <= tries[a]
  PROVE  Sent(c)'
<1>1. c.from \in Addresses /\ c.run \in Int
  BY ValidatorAssumption DEF Results
<1>2. tries[c.from] \in Int /\ tries'[c.from] \in Int /\ tries'[c.from] <= tries[c.from]
  BY <1>1
<1>3. c.run > tries'[c.from]
  BY <1>1, <1>2 DEF Sent
<1>. QED BY <1>3 DEF Sent, VerdictRight

LEMMA RunsStep ==
  ASSUME TypeOK, TypeOK', InvPing, InvRuns, [Next]_vars
  PROVE  InvRuns'
<1>0. /\ tries \in [Addresses -> 0 .. Attempts] /\ conns \subseteq Results
      /\ Received \in Seq(Results) /\ Attempts \in Nat /\ Machines \subseteq Addresses
      /\ alive \in Seq(Addresses)
  BY ReceivedFacts, ValidatorAssumption DEF TypeOK
<1>i. \A a \in Addresses : tries[a] \in Int
  BY <1>0
<1>r. \A i \in DOMAIN Received : Received[i] \in Results
  BY <1>0
<1>1. CASE /\ stage \in {"dhcp", "power", "ping", "halted"}
           /\ UNCHANGED <<conns, logged, logs_q>>
           /\ \/ stage' \in {"dhcp", "power", "ping", "halted"} /\ UNCHANGED tries
              \/ /\ stage' \notin {"dhcp", "power", "ping", "halted"} /\ UNCHANGED alive
                 /\ tries' = [a \in Addresses |-> IF a \in ToSet(alive) THEN Attempts ELSE 0]
  <2>1. conns' = {} /\ Received' = <<>> /\ \A a \in Addresses : tries[a] = 0
    BY <1>1 DEF InvRuns, Received
  <2>2. \A a \in Addresses : tries'[a] > 0 => a \in ToSet(alive')
    BY <1>1, <2>1 DEF InvRuns
  <2>3. stage' \in {"dhcp", "power", "ping", "halted"} => \A a \in Addresses : tries'[a] = 0
    BY <1>1, <2>1
  <2>. QED BY <2>1, <2>2, <2>3 DEF InvRuns
<1>2. CASE /\ UNCHANGED <<tries, alive, conns>> /\ Received' = Received
           /\ stage' = stage \/ stage' \notin {"dhcp", "power", "ping", "halted"}
  <2>1. \A c : Sent(c)' <=> Sent(c)
    BY <1>2 DEF Sent, VerdictRight
  <2>. QED BY <1>2, <2>1 DEF InvRuns, Run
<1>3. ASSUME NEW b \in Addresses, RunTest(b) PROVE InvRuns'
  <2>1. PICK whole \in BOOLEAN : Send(b, whole)
    BY <1>3 DEF RunTest
  <2>2. /\ tries' = [tries EXCEPT ![b] = @ - 1] /\ tries[b] > 0 /\ b \in Machines \ Broken
        /\ UNCHANGED <<stage, alive, logged, logs_q>>
    BY <1>3 DEF RunTest
  <2>3. PICK n : n = [from |-> b, run |-> tries[b], whole |-> whole, passed |-> Report[b]]
    OBVIOUS
  <2>4. conns' = conns \cup {n} /\ n.from = b /\ n.run = tries[b] /\ n.passed = Report[b]
    BY <2>1, <2>3 DEF Send
  <2>5. tries'[b] = tries[b] - 1 /\ tries[b] \in Int
        /\ \A a \in Addresses : tries'[a] \in Int /\ tries'[a] <= tries[a]
    BY <1>0, <1>i, <2>2
  <2>6. b \in ToSet(alive) /\ stage \notin {"dhcp", "power", "ping", "halted"}
    BY <1>i, <2>2 DEF InvRuns
  <2>7. Sent(n)'
    <3>1. n.run > tries'[n.from]
      BY <2>4, <2>5
    <3>2. VerdictRight(n)
      BY <2>2, <2>4, SendsVerdict
    <3>3. n.from \in ToSet(alive') \cap (Machines \ Broken)
      BY <2>2, <2>4, <2>6
    <3>. QED BY <3>1, <3>2, <3>3 DEF Sent, VerdictRight
  <2>8. tries \in [Addresses -> Int] /\ tries' \in [Addresses -> Int]
    BY <1>0, SMTT(30) DEF TypeOK
  <2>9. \A c \in Results : Sent(c) => Sent(c)'
    BY <2>2, <2>5, <2>8, SentStays
  <2>10. ASSUME NEW c \in Results, Sent(c) PROVE Run(c) # Run(n)
    <3>1. c.run > tries[c.from]
      BY <2>10 DEF Sent
    <3>2. Run(n) = <<b, tries[b]>>
      BY <2>4 DEF Run
    <3>3. ~(tries[b] > tries[b])
      BY <2>5
    <3>. QED BY <3>1, <3>2, <3>3 DEF Run
  <2>11. Received' = Received
    BY <2>2 DEF Received
  <2>12. \A c \in conns : Sent(c)' /\ Run(c) # Run(n)
    BY <1>0, <2>9, <2>10 DEF InvRuns
  <2>13. \A i \in DOMAIN Received : Sent(Received[i])' /\ Run(Received[i]) # Run(n)
    BY <1>r, <2>9, <2>10, <2>11 DEF InvRuns
  <2>14. \A a \in Addresses : tries'[a] > 0 => a \in ToSet(alive')
    BY <1>i, <2>2, <2>5 DEF InvRuns
  <2>15. \A c, d \in conns' : c # d => Run(c) # Run(d)
    <3>1. \A c, d \in conns : c # d => Run(c) # Run(d)
      BY DEF InvRuns
    <3>. QED BY <2>4, <2>12, <3>1, Zenon
  <2>16. \A c \in conns' : \A i \in DOMAIN Received : Run(c) # Run(Received[i])
    <3>1. \A c \in conns : \A i \in DOMAIN Received : Run(c) # Run(Received[i])
      BY DEF InvRuns
    <3>. QED BY <2>4, <2>13, <3>1, Zenon
  <2>17. \A c \in conns' : Sent(c)'
    BY <2>4, <2>7, <2>12
  <2>. QED BY <2>2, <2>6, <2>11, <2>13, <2>14, <2>15, <2>16, <2>17 DEF InvRuns
<1>4. ASSUME NEW b \in Addresses, FailTest(b) PROVE InvRuns'
  <2>2. /\ tries' = [tries EXCEPT ![b] = @ - 1] /\ tries[b] > 0
        /\ UNCHANGED <<stage, alive, conns, logged, logs_q>>
    BY <1>4 DEF FailTest
  <2>5. \A a \in Addresses : tries'[a] \in Int /\ tries'[a] <= tries[a]
    BY <1>0, <1>i, <2>2
  <2>6. stage \notin {"dhcp", "power", "ping", "halted"}
    BY <1>i, <2>2 DEF InvRuns
  <2>8. tries \in [Addresses -> Int] /\ tries' \in [Addresses -> Int]
    BY <1>0, SMTT(30) DEF TypeOK
  <2>9. \A c \in Results : Sent(c) => Sent(c)'
    BY <2>2, <2>5, <2>8, SentStays
  <2>11. Received' = Received
    BY <2>2 DEF Received
  <2>12. \A c \in conns : Sent(c)'
    BY <1>0, <2>9 DEF InvRuns
  <2>13. \A i \in DOMAIN Received : Sent(Received[i])'
    BY <1>r, <2>9, <2>11 DEF InvRuns
  <2>14. \A a \in Addresses : tries'[a] > 0 => a \in ToSet(alive')
    BY <1>i, <2>2, <2>5 DEF InvRuns
  <2>. QED BY <2>2, <2>6, <2>11, <2>12, <2>13, <2>14 DEF InvRuns
<1>5. ASSUME NEW c \in conns, ReadMessage(c) PROVE InvRuns'
  <2>1. conns' = conns \ {c} /\ UNCHANGED <<stage, alive, tries>> /\ conns # {}
    BY <1>5 DEF ReadMessage
  <2>2. stage \notin {"dhcp", "power", "ping", "halted"}
    BY <2>1 DEF InvRuns
  <2>3. \A d : Sent(d)' <=> Sent(d)
    BY <2>1 DEF Sent, VerdictRight
  <2>4. CASE Received' = Received
    BY <2>1, <2>2, <2>3, <2>4 DEF InvRuns, Run
  <2>5. CASE Received' = Append(Received, c)
    <3>. DEFINE r == Append(Received, c)
    <3>1. /\ Len(r) = Len(Received) + 1 /\ Len(Received) \in Nat /\ r \in Seq(Results)
          /\ \A i \in 1 .. Len(Received) : r[i] = Received[i]
          /\ r[Len(Received) + 1] = c
      BY <1>0, AppendProperties
    <3>. HIDE DEF r
    <3>2. \A i \in DOMAIN r : \/ i \in DOMAIN Received /\ r[i] = Received[i]
                              \/ i = Len(Received) + 1 /\ r[i] = c
      BY <1>0, <3>1
    <3>3. /\ Sent(c)
          /\ \A i \in DOMAIN Received : Sent(Received[i]) /\ Run(c) # Run(Received[i])
          /\ \A i, j \in DOMAIN Received : i # j => Run(Received[i]) # Run(Received[j])
      BY DEF InvRuns
    <3>4. \A i \in DOMAIN r : Sent(r[i])
      BY <3>2, <3>3, Zenon
    <3>5. \A i, j \in DOMAIN r : i # j => Run(r[i]) # Run(r[j])
      BY <3>2, <3>3, Zenon
    <3>6. \A d \in conns \ {c} : Run(d) # Run(c)
      BY DEF InvRuns
    <3>7. \A d \in conns : \A i \in DOMAIN Received : Run(d) # Run(Received[i])
      BY DEF InvRuns
    <3>8. \A d \in conns \ {c} : \A i \in DOMAIN r : Run(d) # Run(r[i])
      BY <3>2, <3>6, <3>7, Zenon
    <3>9. \A i \in DOMAIN Received' : Sent(Received[i])'
      BY <2>3, <2>5, <3>4 DEF r
    <3>10. Received' = r
      BY <2>5 DEF r
    <3>. QED BY <2>1, <2>2, <2>3, <3>5, <3>8, <3>9, <3>10 DEF InvRuns
  <2>. QED BY <1>5, <2>4, <2>5, ReadAdds
<1>6. ASSUME StartServers \/ Halt \/ PowerOn \/ Ping
      PROVE  /\ stage \in {"dhcp", "power", "ping", "halted"}
             /\ stage' \in {"dhcp", "power", "ping", "halted"}
             /\ UNCHANGED <<conns, logged, logs_q, tries>>
  BY <1>6 DEF StartServers, Halt, PowerOn, Ping
<1>7. CASE EndPass
  <2>1. CASE stage' = "wait" /\ tries' = [a \in Addresses |-> IF a \in ToSet(alive) THEN Attempts ELSE 0]
    BY <1>1, <1>7, <2>1 DEF EndPass
  <2>2. CASE UNCHANGED <<stage, tries>>
    BY <1>1, <1>7, <2>2 DEF EndPass
  <2>. QED BY <1>7, <2>1, <2>2 DEF EndPass
<1>8. CASE LogResult
  BY <1>2, <1>8, LogKeeps DEF LogResult
<1>9. CASE CheckQueue
  BY <1>2, <1>9 DEF CheckQueue, Received
<1>10. ASSUME NEW a \in Machines, Boot(a) PROVE InvRuns'
  BY <1>2, <1>10 DEF Boot, Received
<1>11. CASE UNCHANGED vars
  BY <1>2, <1>11 DEF vars, Received
<1>. QED BY <1>1, <1>3, <1>4, <1>5, <1>6, <1>7, <1>8, <1>9, <1>10, <1>11 DEF Next, MainStep

-----------------------------------------------------------------------------
(* The theorems.                                                           *)

(* The inductive invariant: the types, what ping_network has found and the *)
(* results of the runs (server.py, receiver.py, main of                    *)
(* pharos-validator-server).                                               *)
THEOREM ValidatorInvariant == Spec => []IInv
<1>1. Init => IInv
  BY TypeInit, PingInit, RunsInit DEF IInv
<1>2. IInv /\ [Next]_vars => IInv'
  BY TypeStep, PingStep, RunsStep DEF IInv
<1>. QED BY <1>1, <1>2, PTL DEF Spec

(* Every variable has the type the code gives it.                          *)
THEOREM ValidatorTypes == Spec => []TypeOK
<1>1. IInv => TypeOK
  BY DEF IInv
<1>. QED BY <1>1, ValidatorInvariant, PTL

(* ping_network finds an address once, never the server's, no more than    *)
(* there are nodes (or one), and for ends that compare as text the way     *)
(* they do as numbers only addresses between them: server.py, util.py.     *)
THEOREM AskedArePinged == Spec => []PingedAsAsked
<1>1. IInv => PingedAsAsked
  <2>. SUFFICES ASSUME IInv PROVE PingedAsAsked
    OBVIOUS
  <2>1. config \in Config
    BY DEF IInv, TypeOK
  <2>2. /\ Len(alive) <= config.nodes \/ Len(alive) <= 1
        /\ IsInjective(alive) /\ ToSet(alive) \subseteq ToSet(gen_ip_range(config))
    BY DEF IInv, InvPing, Usable
  <2>3. Installer \notin ToSet(alive)
    BY <2>1, <2>2, UsableRange
  <2>4. ASSUME Plain(config), NEW a \in ToSet(alive)
        PROVE  /\ config.first <= a \/ config.second <= a
               /\ a <= config.first \/ a <= config.second
    BY <2>1, <2>2, <2>4, PlainRange
  <2>. QED BY <2>2, <2>3, <2>4 DEF PingedAsAsked
<1>. QED BY <1>1, ValidatorInvariant, PTL

(* What the server has received comes from a run it made on a machine it   *)
(* found, once for each run, and is right about the machine: receiver.py,  *)
(* the ssh threads of server.py, probe.py and evaluate.py.                 *)
THEOREM ReceivedAreRuns == Spec => []ResultsOfRuns
<1>1. IInv => ResultsOfRuns
  <2>. SUFFICES ASSUME IInv PROVE ResultsOfRuns
    OBVIOUS
  <2>1. InvRuns
    BY DEF IInv
  <2>2. \A c \in ToSet(Received) \cup conns : Sent(c)
    BY <2>1, Zenon DEF InvRuns, ToSet
  <2>3. conns \cap ToSet(Received) = {}
    BY <2>1, Zenon DEF InvRuns, ToSet
  <2>. QED BY <2>1, <2>2, <2>3 DEF InvRuns, ResultsOfRuns
<1>. QED BY <1>1, ValidatorInvariant, PTL
=============================================================================
