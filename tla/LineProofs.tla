----------------------------- MODULE LineProofs -----------------------------
(***************************************************************************)
(* Lines lose their head, get a newcomer, or are left from the middle:     *)
(* nobody gets in twice, and everybody else stays.                         *)
(***************************************************************************)
EXTENDS Line, SequenceTheorems, FiniteSetTheorems, TLAPS

(* A line without its head, with a newcomer, and without one that left.    *)
LEMMA LineTail ==
  ASSUME NEW S, NEW s \in Seq(S), s # <<>>,
         \A i, j \in 1 .. Len(s) : s[i] = s[j] => i = j
  PROVE  /\ Tail(s) \in Seq(S)
         /\ \A i \in 1 .. Len(Tail(s)) : \E k \in 1 .. Len(s) : Tail(s)[i] = s[k]
         /\ \A i \in 1 .. Len(Tail(s)) : Tail(s)[i] # Head(s)
         /\ \A i, j \in 1 .. Len(Tail(s)) : Tail(s)[i] = Tail(s)[j] => i = j
<1>1. /\ Tail(s) \in Seq(S) /\ Len(Tail(s)) = Len(s) - 1 /\ Len(s) \in Nat
      /\ \A i \in 1 .. Len(Tail(s)) : Tail(s)[i] = s[i + 1]
  BY HeadTailProperties, LenProperties
<1>2. Head(s) = s[1]
  BY HeadTailProperties
<1>3. QED  BY <1>1, <1>2

LEMMA LineAppend ==
  ASSUME NEW S, NEW s \in Seq(S), NEW t \in S,
         \A i, j \in 1 .. Len(s) : s[i] = s[j] => i = j,
         \A i \in 1 .. Len(s) : s[i] # t
  PROVE  /\ Append(s, t) \in Seq(S)
         /\ \A i \in 1 .. Len(Append(s, t)) :
              Append(s, t)[i] = t \/ \E k \in 1 .. Len(s) : Append(s, t)[i] = s[k]
         /\ \A i, j \in 1 .. Len(Append(s, t)) : Append(s, t)[i] = Append(s, t)[j] => i = j
<1>1. /\ Append(s, t) \in Seq(S) /\ Len(Append(s, t)) = Len(s) + 1 /\ Len(s) \in Nat
      /\ \A i \in 1 .. Len(s) : Append(s, t)[i] = s[i]
      /\ Append(s, t)[Len(s) + 1] = t
  BY AppendProperties, LenProperties
<1>2. QED  BY <1>1

LEMMA LineWithout ==
  ASSUME NEW S, NEW s \in Seq(S), NEW t,
         \A i, j \in 1 .. Len(s) : s[i] = s[j] => i = j
  PROVE  /\ Without(s, t) \in Seq(S)
         /\ \A i \in 1 .. Len(Without(s, t)) :
              \E k \in 1 .. Len(s) : Without(s, t)[i] = s[k]
         /\ \A i \in 1 .. Len(Without(s, t)) : Without(s, t)[i] # t
         /\ \A i, j \in 1 .. Len(Without(s, t)) :
              Without(s, t)[i] = Without(s, t)[j] => i = j
         /\ s # <<>> /\ Head(s) # t
              => Without(s, t) # <<>> /\ Head(Without(s, t)) = Head(s)
<1>1. DOMAIN s = 1 .. Len(s) /\ Len(s) \in Nat
  BY LenProperties
<1>2. CASE ~\E i \in DOMAIN s : s[i] = t
  BY <1>1, <1>2 DEF Without
<1>3. CASE \E i \in DOMAIN s : s[i] = t
  <2> DEFINE k == CHOOSE i \in DOMAIN s : s[i] = t
             a == SubSeq(s, 1, k - 1)
             b == SubSeq(s, k + 1, Len(s))
  <2>1. k \in 1 .. Len(s) /\ s[k] = t /\ Without(s, t) = a \o b
    BY <1>1, <1>3 DEF Without
  <2> HIDE DEF k
  <2>0. Len(s) \in Int /\ k \in Int /\ 1 <= k /\ k <= Len(s)
    BY <1>1, <2>1
  <2>2. a \in Seq(S) /\ Len(a) = k - 1 /\ \A i \in 1 .. k - 1 : a[i] = s[i]
    <3>1. \A i \in 1 .. k - 1 : s[i] \in S
      BY <1>1, <2>1, ElementOfSeq
    <3>2. 1 \in Int /\ k - 1 \in Int
      BY <1>1, <2>1
    <3>3. a \in Seq(S) /\ Len(a) = (IF 1 <= k - 1 THEN k - 1 - 1 + 1 ELSE 0)
          /\ \A i \in 1 .. k - 1 - 1 + 1 : a[i] = s[1 + i - 1]
      BY <3>1, <3>2, SubSeqProperties
    <3>4. QED  BY <1>1, <2>1, <3>3
  <2>3. b \in Seq(S) /\ Len(b) = Len(s) - k /\ \A i \in 1 .. Len(s) - k : b[i] = s[k + i]
    <3>1. \A i \in k + 1 .. Len(s) : s[i] \in S
      BY <1>1, <2>1, ElementOfSeq
    <3>2. k + 1 \in Int /\ Len(s) \in Int
      BY <1>1, <2>1
    <3>3. b \in Seq(S)
          /\ Len(b) = (IF k + 1 <= Len(s) THEN Len(s) - (k + 1) + 1 ELSE 0)
          /\ \A i \in 1 .. Len(s) - (k + 1) + 1 : b[i] = s[k + 1 + i - 1]
      BY <3>1, <3>2, SubSeqProperties
    <3> HIDE DEF b
    <3>4. Len(s) - (k + 1) + 1 = Len(s) - k /\ (k + 1 > Len(s) => Len(s) - k = 0)
      BY <2>0
    <3>5. Len(b) = Len(s) - k
      <4>1. CASE k + 1 <= Len(s)
        BY <3>3, <3>4, <4>1
      <4>2. CASE ~(k + 1 <= Len(s))
        <5>1. Len(s) - k = 0
          BY <2>0, <4>2
        <5>2. QED  BY <3>3, <4>2, <5>1
      <4>3. QED  BY <4>1, <4>2
    <3>6. ASSUME NEW i \in 1 .. Len(s) - k PROVE b[i] = s[k + i]
      <4>1. k + 1 + i - 1 = k + i
        BY <2>0
      <4>2. QED  BY <3>3, <3>4, <4>1
    <3>7. QED  BY <3>3, <3>5, <3>6
  <2> HIDE DEF a, b
  <2>4. /\ a \o b \in Seq(S) /\ Len(a \o b) = Len(s) - 1
        /\ \A i \in 1 .. Len(s) - 1 : (a \o b)[i] = IF i < k THEN s[i] ELSE s[i + 1]
    <3>1. /\ a \o b \in Seq(S) /\ Len(a \o b) = Len(a) + Len(b)
          /\ \A i \in 1 .. Len(a) + Len(b) :
               (a \o b)[i] = IF i <= Len(a) THEN a[i] ELSE b[i - Len(a)]
      BY <2>2, <2>3, ConcatProperties
    <3>2. Len(a) + Len(b) = Len(s) - 1 /\ Len(a) = k - 1
      BY <2>0, <2>2, <2>3
    <3>3. ASSUME NEW i \in 1 .. Len(s) - 1
          PROVE  (a \o b)[i] = IF i < k THEN s[i] ELSE s[i + 1]
      <4>1. CASE i < k
        BY <2>0, <2>2, <3>1, <3>2, <4>1
      <4>2. CASE ~(i < k)
        <5>1. i - (k - 1) \in 1 .. Len(s) - k /\ k + (i - (k - 1)) = i + 1 /\ ~(i <= k - 1)
          BY <2>0, <4>2
        <5>2. (a \o b)[i] = b[i - (k - 1)]
          BY <3>1, <3>2, <5>1
        <5>3. b[i - (k - 1)] = s[i + 1]
          BY <2>0, <2>3, <4>2, <5>1
        <5>4. QED  BY <4>2, <5>2, <5>3
      <4>3. QED  BY <4>1, <4>2
    <3>4. QED  BY <3>1, <3>2, <3>3
  <2> DEFINE w == Without(s, t)
             from(i) == IF i < k THEN i ELSE i + 1
  <2>5. /\ w \in Seq(S) /\ Len(w) = Len(s) - 1
        /\ \A i \in 1 .. Len(w) : w[i] = s[from(i)] /\ from(i) \in 1 .. Len(s) /\ from(i) # k
    BY <1>1, <2>1, <2>4
  <2>6. \A i, j \in 1 .. Len(w) : from(i) = from(j) => i = j
    BY <1>1, <2>1, <2>5
  <2> HIDE DEF w, from
  <2>7. \A i \in 1 .. Len(w) : w[i] # t
    BY <2>1, <2>5
  <2>8. \A i, j \in 1 .. Len(w) : w[i] = w[j] => i = j
    BY <2>5, <2>6
  <2>9. s # <<>> /\ Head(s) # t => w # <<>> /\ Head(w) = Head(s)
    <3> SUFFICES ASSUME s # <<>>, Head(s) # t PROVE w # <<>> /\ Head(w) = Head(s)
      OBVIOUS
    <3>1. k # 1 /\ Len(w) \in Nat /\ Len(w) >= 1
      BY <2>0, <2>1, <2>5, HeadTailProperties
    <3>2. w # <<>> /\ Head(w) = w[1] /\ Head(s) = s[1] /\ 1 \in 1 .. Len(w)
      BY <2>5, <3>1, HeadTailProperties, EmptySeq
    <3>3. from(1) = 1
      BY <2>0, <3>1 DEF from
    <3>4. QED  BY <2>5, <3>2, <3>3
  <2>10. QED  BY <2>5, <2>7, <2>8, <2>9 DEF w
<1>4. QED  BY <1>2, <1>3

(* A line is no longer than there are callers. *)
LEMMA LineBound ==
  ASSUME NEW S, IsFiniteSet(S), NEW s \in Seq(S),
         \A i, j \in 1 .. Len(s) : s[i] = s[j] => i = j
  PROVE  Len(s) <= Cardinality(S)
<1>1. Len(s) \in Nat /\ DOMAIN s = 1 .. Len(s) /\ \A i \in 1 .. Len(s) : s[i] \in S
  BY LenProperties, ElementOfSeq
<1>2. s \in [1 .. Len(s) -> S]
  BY <1>1
<1>3. s \in Injection(1 .. Len(s), S)
  BY <1>2 DEF Injection, IsInjective
<1>4. Cardinality(1 .. Len(s)) <= Cardinality(S)
  BY <1>3, FS_Injection
<1>5. Cardinality(1 .. Len(s)) = Len(s)
  <2>1. 1 \in Int /\ Len(s) \in Int
    BY <1>1
  <2>2. Cardinality(1 .. Len(s)) = IF 1 > Len(s) THEN 0 ELSE Len(s) - 1 + 1
    BY <2>1, FS_Interval
  <2>3. QED  BY <1>1, <2>2
<1>6. QED  BY <1>4, <1>5

=============================================================================
