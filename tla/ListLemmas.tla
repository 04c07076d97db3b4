----------------------------- MODULE ListLemmas -----------------------------
(***************************************************************************)
(* What the list operations of the event managers (std::list::insert,      *)
(* erase, pop_back after std::find) do to a list without duplicates: its   *)
(* type, its elements, and the order of the ones that stay.                *)
(***************************************************************************)
EXTENDS Integers, Sequences, SequencesExt, SequenceTheorems, WellFoundedInduction, TLAPS

Distinct(s) == \A i, j \in DOMAIN s : s[i] = s[j] => i = j

\* Element a of s does not come after element b.
NotAfter(s, a, b) == \E i, j \in DOMAIN s : i <= j /\ s[i] = a /\ s[j] = b

\* The elements that s and t share are in the same order in both.
SameOrder(s, t) ==
  \A a, b \in ToSet(s) \cap ToSet(t) : NotAfter(s, a, b) => NotAfter(t, a, b)

\* The elements of s have descending keys.
Descending(s, key) == \A i, j \in DOMAIN s : i < j => key[s[i]] >= key[s[j]]

-----------------------------------------------------------------------------
\* A search that succeeds somewhere has a first place to succeed.
LEMMA LeastNatural ==
  ASSUME NEW T, T \subseteq Nat, T # {}
  PROVE  \E m \in T : \A k \in T : m <= k
<1>1. PICK m \in T : \A k \in T : ~ (<<k, m>> \in OpToRel(<, Nat))
  BY NatLessThanWellFounded, WFMin
<1>2. \A k \in T : ~ (k < m)
  BY <1>1 DEF OpToRel
<1>3. QED
  BY <1>2

\* Element by element, what inserting e at position p leads to.
LEMMA InsertAtElements ==
  ASSUME NEW S, NEW s \in Seq(S), NEW e \in S, NEW p \in 1 .. Len(s) + 1
  PROVE  /\ InsertAt(s, p, e) \in Seq(S)
         /\ Len(InsertAt(s, p, e)) = Len(s) + 1
         /\ \A i \in 1 .. Len(s) + 1 :
              InsertAt(s, p, e)[i] = IF i < p THEN s[i] ELSE IF i = p THEN e ELSE s[i - 1]
<1> DEFINE a == SubSeq(s, 1, p - 1)
           b == SubSeq(s, p, Len(s))
           c == <<e>>
<1>1. Len(s) \in Nat /\ s \in [1 .. Len(s) -> S]
  BY LenProperties
<1>2. /\ a \in Seq(S) /\ Len(a) = p - 1
      /\ \A i \in 1 .. p - 1 : a[i] = s[i]
  <2>1. \A i \in 1 .. p - 1 : s[i] \in S
    BY <1>1
  <2>2. /\ a \in Seq(S) /\ Len(a) = IF 1 <= p - 1 THEN (p - 1) - 1 + 1 ELSE 0
        /\ \A i \in 1 .. (p - 1) - 1 + 1 : a[i] = s[1 + i - 1]
    BY <1>1, <2>1, SubSeqProperties
  <2>3. QED
    BY <1>1, <2>2
<1>3. /\ b \in Seq(S) /\ Len(b) = Len(s) - p + 1
      /\ \A i \in 1 .. Len(s) - p + 1 : b[i] = s[p + i - 1]
  <2>1. \A i \in p .. Len(s) : s[i] \in S
    BY <1>1
  <2>2. /\ b \in Seq(S) /\ Len(b) = IF p <= Len(s) THEN Len(s) - p + 1 ELSE 0
        /\ \A i \in 1 .. Len(s) - p + 1 : b[i] = s[p + i - 1]
    BY <1>1, <2>1, SubSeqProperties
  <2>3. QED
    BY <1>1, <2>2
<1>4. c \in Seq(S) /\ Len(c) = 1 /\ c[1] = e
  OBVIOUS
<1> HIDE DEF a, b, c
<1>5. /\ a \o c \in Seq(S) /\ Len(a \o c) = p
      /\ \A i \in 1 .. p : (a \o c)[i] = IF i < p THEN s[i] ELSE e
  <2>1. /\ a \o c \in Seq(S) /\ Len(a \o c) = Len(a) + Len(c)
        /\ \A i \in 1 .. Len(a) + Len(c) :
             (a \o c)[i] = IF i <= Len(a) THEN a[i] ELSE c[i - Len(a)]
    BY <1>2, <1>4, ConcatProperties
  <2>2. QED
    BY <1>1, <1>2, <1>4, <2>1
<1>6. /\ (a \o c) \o b \in Seq(S) /\ Len((a \o c) \o b) = Len(a \o c) + Len(b)
      /\ \A i \in 1 .. Len(a \o c) + Len(b) :
           ((a \o c) \o b)[i] = IF i <= Len(a \o c) THEN (a \o c)[i] ELSE b[i - Len(a \o c)]
  <2> DEFINE ac == a \o c
  <2>1. ac \in Seq(S) /\ b \in Seq(S)
    BY <1>3, <1>5
  <2> HIDE DEF ac
  <2>2. /\ ac \o b \in Seq(S) /\ Len(ac \o b) = Len(ac) + Len(b)
        /\ \A i \in 1 .. Len(ac) + Len(b) :
             (ac \o b)[i] = IF i <= Len(ac) THEN ac[i] ELSE b[i - Len(ac)]
    BY <2>1, ConcatProperties
  <2>3. QED
    BY <2>2 DEF ac
<1>7. InsertAt(s, p, e) = (a \o c) \o b
  BY DEF InsertAt, a, b, c
<1>8. \A i \in 1 .. Len(s) + 1 :
        ((a \o c) \o b)[i] = IF i < p THEN s[i] ELSE IF i = p THEN e ELSE s[i - 1]
  BY <1>1, <1>3, <1>5, <1>6
<1>9. QED
  BY <1>1, <1>3, <1>5, <1>6, <1>7, <1>8

\* Element by element, what removing the one at position p leads to.
LEMMA RemoveAtElements ==
  ASSUME NEW S, NEW s \in Seq(S), NEW p \in 1 .. Len(s)
  PROVE  /\ RemoveAt(s, p) \in Seq(S)
         /\ Len(RemoveAt(s, p)) = Len(s) - 1
         /\ \A i \in 1 .. Len(s) - 1 :
              RemoveAt(s, p)[i] = IF i < p THEN s[i] ELSE s[i + 1]
<1> DEFINE a == SubSeq(s, 1, p - 1)
           b == SubSeq(s, p + 1, Len(s))
<1>1. Len(s) \in Nat /\ s \in [1 .. Len(s) -> S]
  BY LenProperties
<1>2. /\ a \in Seq(S) /\ Len(a) = p - 1
      /\ \A i \in 1 .. p - 1 : a[i] = s[i]
  <2>1. \A i \in 1 .. p - 1 : s[i] \in S
    BY <1>1
  <2>2. /\ a \in Seq(S) /\ Len(a) = IF 1 <= p - 1 THEN (p - 1) - 1 + 1 ELSE 0
        /\ \A i \in 1 .. (p - 1) - 1 + 1 : a[i] = s[1 + i - 1]
    BY <1>1, <2>1, SubSeqProperties
  <2>3. QED
    BY <1>1, <2>2
<1>3. /\ b \in Seq(S) /\ Len(b) = Len(s) - p
      /\ \A i \in 1 .. Len(s) - p : b[i] = s[p + i]
  <2>1. \A i \in p + 1 .. Len(s) : s[i] \in S
    BY <1>1
  <2>2. /\ b \in Seq(S) /\ Len(b) = IF p + 1 <= Len(s) THEN Len(s) - (p + 1) + 1 ELSE 0
        /\ \A i \in 1 .. Len(s) - (p + 1) + 1 : b[i] = s[(p + 1) + i - 1]
    BY <1>1, <2>1, SubSeqProperties
  <2>3. \A i \in 1 .. Len(s) - p : i \in 1 .. Len(s) - (p + 1) + 1 /\ (p + 1) + i - 1 = p + i
    BY <1>1
  <2>4. Len(b) = Len(s) - p
    <3>1. Len(b) = IF p + 1 <= Len(s) THEN Len(s) - (p + 1) + 1 ELSE 0
      BY <2>2
    <3>2. Len(s) \in Nat
      BY <1>1
    <3>3. QED
      BY <3>1, <3>2
  <2>5. \A i \in 1 .. Len(s) - p : b[i] = s[p + i]
    <3>1. TAKE i \in 1 .. Len(s) - p
    <3>2. b[i] = s[(p + 1) + i - 1]
      BY <2>2, <2>3
    <3>3. QED
      BY <2>3, <3>2
  <2>6. QED
    BY <2>2, <2>4, <2>5
<1> HIDE DEF a, b
<1>4. /\ a \o b \in Seq(S) /\ Len(a \o b) = Len(a) + Len(b)
      /\ \A i \in 1 .. Len(a) + Len(b) : (a \o b)[i] = IF i <= Len(a) THEN a[i] ELSE b[i - Len(a)]
  BY <1>2, <1>3, ConcatProperties
<1>5. RemoveAt(s, p) = a \o b
  BY DEF RemoveAt, a, b
<1>6. Len(a \o b) = Len(s) - 1
  BY <1>1, <1>2, <1>3, <1>4
<1>7. \A i \in 1 .. Len(s) - 1 : (a \o b)[i] = IF i < p THEN s[i] ELSE s[i + 1]
  <2>1. SUFFICES ASSUME NEW i \in 1 .. Len(s) - 1
                 PROVE  (a \o b)[i] = IF i < p THEN s[i] ELSE s[i + 1]
    OBVIOUS
  <2>2. (a \o b)[i] = IF i <= Len(a) THEN a[i] ELSE b[i - Len(a)]
    BY <1>4, <1>6
  <2>3. CASE i < p
    BY <1>1, <1>2, <2>2, <2>3
  <2>4. CASE ~ (i < p)
    <3>1. i - Len(a) \in 1 .. Len(s) - p /\ p + (i - Len(a)) = i + 1 /\ ~ (i <= Len(a))
      BY <1>1, <1>2, <2>4
    <3>2. b[i - Len(a)] = s[i + 1]
      BY <1>3, <3>1
    <3>3. QED
      BY <2>2, <2>4, <3>1, <3>2
  <2>5. QED
    BY <2>3, <2>4
<1>8. QED
  BY <1>4, <1>5, <1>6, <1>7

-----------------------------------------------------------------------------
\* Removing an element, whether or not it is there and how often.
LEMMA RemoveFirstType ==
  ASSUME NEW S, NEW s \in Seq(S), NEW e
  PROVE  RemoveFirst(s, e) \in Seq(S)
<1>1. Len(s) \in Nat
  BY LenProperties
<1>2. CASE \E i \in 1 .. Len(s) : s[i] = e
  <2> DEFINE T == {i \in 1 .. Len(s) : s[i] = e}
  <2>1. T \subseteq Nat /\ T # {}
    BY <1>1, <1>2
  <2> HIDE DEF T
  <2>2. \E m \in T : \A k \in T : m <= k
    BY <2>1, LeastNatural
  <2>3. Min(T) \in 1 .. Len(s)
    BY <2>2 DEF Min, T
  <2>4. SelectInSeq(s, LAMBDA v : v = e) = Min(T)
    BY <1>2 DEF SelectInSeq, T
  <2>5. RemoveFirst(s, e) = RemoveAt(s, Min(T))
    BY <1>2, <2>4 DEF RemoveFirst
  <2>6. QED
    BY <2>3, <2>5, RemoveAtElements
<1>3. CASE ~ \E i \in 1 .. Len(s) : s[i] = e
  BY <1>3 DEF RemoveFirst
<1>4. QED
  BY <1>2, <1>3

\* Inserting an element that is not there yet.
LEMMA InsertNew ==
  ASSUME NEW S, NEW s \in Seq(S), NEW e \in S, NEW p \in 1 .. Len(s) + 1,
         Distinct(s), e \notin ToSet(s)
  PROVE  /\ InsertAt(s, p, e) \in Seq(S)
         /\ ToSet(InsertAt(s, p, e)) = ToSet(s) \cup {e}
         /\ Distinct(InsertAt(s, p, e))
<1> DEFINE t == InsertAt(s, p, e)
<1>1. /\ Len(s) \in Nat /\ DOMAIN s = 1 .. Len(s)
      /\ t \in Seq(S) /\ DOMAIN t = 1 .. Len(s) + 1
      /\ \A i \in 1 .. Len(s) + 1 :
           t[i] = IF i < p THEN s[i] ELSE IF i = p THEN e ELSE s[i - 1]
  BY InsertAtElements, LenProperties
<1> HIDE DEF t
<1>2. \A i \in 1 .. Len(s) : s[i] # e
  BY <1>1 DEF ToSet
<1>3. Distinct(t)
  <2>1. SUFFICES ASSUME NEW i \in 1 .. Len(s) + 1, NEW j \in 1 .. Len(s) + 1, i < j
                 PROVE  t[i] # t[j]
    BY <1>1 DEF Distinct
  <2>2. \A k, m \in 1 .. Len(s) : s[k] = s[m] => k = m
    BY <1>1 DEF Distinct
  <2>3. CASE j < p
    BY <1>1, <2>1, <2>2, <2>3
  <2>4. CASE j = p
    BY <1>1, <1>2, <2>1, <2>4
  <2>5. CASE j > p /\ i < p
    <3>1. t[i] = s[i] /\ t[j] = s[j - 1] /\ i \in 1 .. Len(s) /\ j - 1 \in 1 .. Len(s) /\ i # j - 1
      BY <1>1, <2>1, <2>5
    <3>2. QED
      BY <2>2, <3>1
  <2>6. CASE j > p /\ i = p
    <3>1. t[i] = e /\ t[j] = s[j - 1] /\ j - 1 \in 1 .. Len(s)
      BY <1>1, <2>1, <2>6
    <3>2. QED
      BY <1>2, <3>1
  <2>7. CASE j > p /\ i > p
    <3>1. /\ t[i] = s[i - 1] /\ t[j] = s[j - 1]
          /\ i - 1 \in 1 .. Len(s) /\ j - 1 \in 1 .. Len(s) /\ i - 1 # j - 1
      BY <1>1, <2>1, <2>7
    <3>2. QED
      BY <2>2, <3>1
  <2>8. QED
    BY <1>1, <2>3, <2>4, <2>5, <2>6, <2>7
<1>4. ToSet(t) = ToSet(s) \cup {e}
  <2>1. \A i \in 1 .. Len(s) + 1 : t[i] \in ToSet(s) \cup {e}
    BY <1>1 DEF ToSet
  <2>2. \A i \in 1 .. Len(s) : s[i] \in ToSet(t)
    <3>1. TAKE i \in 1 .. Len(s)
    <3>2. CASE i < p
      BY <1>1, <3>2 DEF ToSet
    <3>3. CASE i >= p
      <4>1. i + 1 \in 1 .. Len(s) + 1 /\ t[i + 1] = s[i]
        BY <1>1, <3>3
      <4>2. QED
        BY <1>1, <4>1 DEF ToSet
    <3>4. QED
      BY <1>1, <3>2, <3>3
  <2>3. e \in ToSet(t)
    BY <1>1 DEF ToSet
  <2>4. QED
    BY <1>1, <2>1, <2>2, <2>3 DEF ToSet
<1>5. QED
  BY <1>1, <1>3, <1>4 DEF t

\* Removing one of several distinct elements.
LEMMA RemoveFirstDistinct ==
  ASSUME NEW S, NEW s \in Seq(S), NEW e, Distinct(s)
  PROVE  /\ RemoveFirst(s, e) \in Seq(S)
         /\ ToSet(RemoveFirst(s, e)) = ToSet(s) \ {e}
         /\ Distinct(RemoveFirst(s, e))
         /\ \A key : Descending(s, key) => Descending(RemoveFirst(s, e), key)
<1>1. Len(s) \in Nat /\ DOMAIN s = 1 .. Len(s)
  BY LenProperties
<1>2. CASE \E i \in 1 .. Len(s) : s[i] = e
  <2>1. PICK p \in 1 .. Len(s) : s[p] = e
    BY <1>2
  <2>2. SelectInSeq(s, LAMBDA v : v = e) = p
    <3>1. {k \in 1 .. Len(s) : s[k] = e} = {p}
      BY <1>1, <2>1 DEF Distinct
    <3>2. QED
      BY <3>1 DEF SelectInSeq, Min
  <2> DEFINE t == RemoveAt(s, p)
  <2>3. RemoveFirst(s, e) = t
    BY <1>2, <2>2 DEF RemoveFirst
  <2>4. /\ t \in Seq(S) /\ DOMAIN t = 1 .. Len(s) - 1
        /\ \A i \in 1 .. Len(s) - 1 : t[i] = IF i < p THEN s[i] ELSE s[i + 1]
    BY RemoveAtElements, LenProperties
  <2> HIDE DEF t
  <2> DEFINE from(i) == IF i < p THEN i ELSE i + 1
  <2>a. /\ \A i \in 1 .. Len(s) - 1 : from(i) \in 1 .. Len(s) /\ t[i] = s[from(i)]
        /\ \A i, j \in 1 .. Len(s) - 1 : i < j => from(i) < from(j)
    BY <1>1, <2>1, <2>4
  <2> HIDE DEF from
  <2>5. Distinct(t)
    <3>1. SUFFICES ASSUME NEW i \in 1 .. Len(s) - 1, NEW j \in 1 .. Len(s) - 1, i < j
                   PROVE  t[i] # t[j]
      BY <1>1, <2>4 DEF Distinct
    <3>2. from(i) < from(j) /\ from(i) \in 1 .. Len(s) /\ from(j) \in 1 .. Len(s)
      BY <2>a, <3>1
    <3>3. from(i) # from(j)
      BY <1>1, <3>2
    <3>4. QED
      BY <1>1, <2>a, <3>2, <3>3 DEF Distinct
  <2>6. ToSet(t) = ToSet(s) \ {e}
    <3>1. \A i \in 1 .. Len(s) - 1 : t[i] \in ToSet(s) \ {e}
      BY <1>1, <2>1, <2>4 DEF ToSet, Distinct
    <3>2. \A i \in 1 .. Len(s) : s[i] # e => s[i] \in ToSet(t)
      <4>1. SUFFICES ASSUME NEW i \in 1 .. Len(s), s[i] # e
                     PROVE  s[i] \in ToSet(t)
        OBVIOUS
      <4>2. CASE i < p
        BY <1>1, <2>1, <2>4, <4>2 DEF ToSet
      <4>3. CASE i > p
        <5>1. i - 1 \in 1 .. Len(s) - 1 /\ t[i - 1] = s[i]
          BY <1>1, <2>1, <2>4, <4>3
        <5>2. QED
          BY <2>4, <5>1 DEF ToSet
      <4>4. QED
        BY <1>1, <2>1, <4>1, <4>2, <4>3
    <3>3. QED
      BY <1>1, <2>4, <3>1, <3>2 DEF ToSet
  <2>7. ASSUME NEW key, Descending(s, key)
        PROVE  Descending(t, key)
    <3>1. SUFFICES ASSUME NEW i \in 1 .. Len(s) - 1, NEW j \in 1 .. Len(s) - 1, i < j
                   PROVE  key[t[i]] >= key[t[j]]
      BY <2>4 DEF Descending
    <3>2. from(i) < from(j) /\ from(i) \in 1 .. Len(s) /\ from(j) \in 1 .. Len(s)
      BY <2>a, <3>1
    <3>3. QED
      BY <1>1, <2>a, <2>7, <3>2 DEF Descending
  <2>8. QED
    BY <2>3, <2>4, <2>5, <2>6, <2>7
<1>3. CASE ~ \E i \in 1 .. Len(s) : s[i] = e
  BY <1>1, <1>3 DEF RemoveFirst, ToSet
<1>4. QED
  BY <1>2, <1>3

\* Removing the last element.
LEMMA FrontType ==
  ASSUME NEW S, NEW s \in Seq(S), s # <<>>
  PROVE  Front(s) \in Seq(S)
<1>1. Len(s) \in Nat \ {0} /\ s \in [1 .. Len(s) -> S]
  BY LenProperties, EmptySeq
<1>2. \A i \in 1 .. Len(s) - 1 : s[i] \in S
  BY <1>1
<1>3. QED
  BY <1>1, <1>2, SubSeqProperties DEF Front

\* Removing the last one of several distinct elements.
LEMMA FrontDistinct ==
  ASSUME NEW S, NEW s \in Seq(S), s # <<>>, Distinct(s)
  PROVE  /\ Last(s) \in S /\ Last(s) \in ToSet(s)
         /\ Front(s) \in Seq(S)
         /\ ToSet(Front(s)) = ToSet(s) \ {Last(s)}
         /\ Distinct(Front(s))
         /\ \A key : Descending(s, key) => Descending(Front(s), key)
<1>1. Len(s) \in Nat \ {0} /\ DOMAIN s = 1 .. Len(s) /\ s \in [1 .. Len(s) -> S]
  BY LenProperties, EmptySeq
<1>2. /\ Front(s) \in Seq(S) /\ DOMAIN Front(s) = 1 .. Len(s) - 1
      /\ \A i \in 1 .. Len(s) - 1 : Front(s)[i] = s[i]
  <2>1. \A i \in 1 .. Len(s) - 1 : s[i] \in S
    BY <1>1
  <2>2. /\ Front(s) \in Seq(S)
        /\ Len(Front(s)) = IF 1 <= Len(s) - 1 THEN (Len(s) - 1) - 1 + 1 ELSE 0
        /\ \A i \in 1 .. (Len(s) - 1) - 1 + 1 : Front(s)[i] = s[1 + i - 1]
    BY <1>1, <2>1, SubSeqProperties DEF Front
  <2>3. Len(Front(s)) = Len(s) - 1
    <3>1. Len(Front(s)) = IF 1 <= Len(s) - 1 THEN (Len(s) - 1) - 1 + 1 ELSE 0
      BY <2>2
    <3>2. Len(s) \in Nat \ {0}
      BY <1>1
    <3> DEFINE n == Len(s)
               m == Len(Front(s))
    <3>3. n \in Nat \ {0} /\ m = IF 1 <= n - 1 THEN (n - 1) - 1 + 1 ELSE 0
      BY <3>1, <3>2
    <3> HIDE DEF n, m
    <3>4. m = n - 1
      BY <3>3
    <3>5. QED
      BY <3>4 DEF n, m
  <2>4. DOMAIN Front(s) = 1 .. Len(s) - 1
    BY <2>2, <2>3, LenProperties
  <2>5. \A i \in 1 .. Len(s) - 1 : Front(s)[i] = s[i]
    <3>1. \A i \in 1 .. Len(s) - 1 : i \in 1 .. (Len(s) - 1) - 1 + 1 /\ 1 + i - 1 = i
      BY <1>1
    <3>2. QED
      BY <2>2, <3>1
  <2>6. QED
    BY <2>2, <2>4, <2>5
<1>3. Last(s) = s[Len(s)]
  BY DEF Last
<1>4. ToSet(Front(s)) = ToSet(s) \ {Last(s)}
  BY <1>1, <1>2, <1>3 DEF ToSet, Distinct
<1>5. ASSUME NEW key, Descending(s, key)
      PROVE  Descending(Front(s), key)
  BY <1>1, <1>2, <1>5 DEF Descending
<1>6. QED
  BY <1>1, <1>2, <1>3, <1>4, <1>5 DEF ToSet, Distinct

-----------------------------------------------------------------------------
(***************************************************************************)
(* The order of the elements of a list without duplicates.                 *)
(***************************************************************************)

\* A list from which only elements were taken away has kept the order of the
\* others, if it is descending wherever the list was.
LEMMA DescendingKeepsOrder ==
  ASSUME NEW S, NEW s \in Seq(S), NEW t \in Seq(S), Distinct(s), ToSet(t) \subseteq ToSet(s),
         \A key : Descending(s, key) => Descending(t, key)
  PROVE  SameOrder(s, t)
<1>1. Len(s) \in Nat /\ DOMAIN s = 1 .. Len(s) /\ DOMAIN t = 1 .. Len(t) /\ Len(t) \in Nat
  BY LenProperties
<1> DEFINE key == [x \in ToSet(s) |-> - (CHOOSE i \in DOMAIN s : s[i] = x)]
<1>2. \A i \in DOMAIN s : key[s[i]] = -i
  <2>1. TAKE i \in DOMAIN s
  <2>2. (CHOOSE k \in DOMAIN s : s[k] = s[i]) = i
    BY DEF Distinct
  <2>3. QED
    BY <2>2 DEF ToSet
<1> HIDE DEF key
<1>3. Descending(s, key)
  BY <1>1, <1>2 DEF Descending
<1>4. Descending(t, key)
  BY <1>3
<1>5. SUFFICES ASSUME NEW a \in ToSet(t), NEW b \in ToSet(t), NotAfter(s, a, b)
               PROVE  NotAfter(t, a, b)
  BY DEF SameOrder
<1>6. PICK i \in DOMAIN s, j \in DOMAIN s : i <= j /\ s[i] = a /\ s[j] = b
  BY <1>5 DEF NotAfter
<1>7. PICK m \in DOMAIN t, n \in DOMAIN t : t[m] = a /\ t[n] = b
  BY <1>5 DEF ToSet
<1>8. CASE m <= n
  BY <1>7, <1>8 DEF NotAfter
<1>9. CASE n < m
  <2>1. key[b] >= key[a] /\ key[a] = -i /\ key[b] = -j
    BY <1>2, <1>4, <1>6, <1>7, <1>9 DEF Descending
  <2>2. a = b
    BY <1>1, <1>6, <2>1
  <2>3. QED
    BY <1>1, <1>7, <2>2 DEF NotAfter
<1>10. QED
  BY <1>1, <1>8, <1>9

LEMMA RemoveFirstOrder ==
  ASSUME NEW S, NEW s \in Seq(S), NEW e, Distinct(s)
  PROVE  SameOrder(s, RemoveFirst(s, e))
<1>1. /\ RemoveFirst(s, e) \in Seq(S) /\ ToSet(RemoveFirst(s, e)) = ToSet(s) \ {e}
      /\ \A key : Descending(s, key) => Descending(RemoveFirst(s, e), key)
  BY RemoveFirstDistinct
<1>2. QED
  BY <1>1, DescendingKeepsOrder

\* Appending an element that is not there yet.
LEMMA AppendNew ==
  ASSUME NEW S, NEW s \in Seq(S), NEW e \in S, Distinct(s), e \notin ToSet(s)
  PROVE  /\ Append(s, e) \in Seq(S)
         /\ ToSet(Append(s, e)) = ToSet(s) \cup {e}
         /\ Distinct(Append(s, e))
         /\ SameOrder(s, Append(s, e))
<1> DEFINE t == Append(s, e)
<1>1. /\ Len(s) \in Nat /\ DOMAIN s = 1 .. Len(s)
      /\ t \in Seq(S) /\ DOMAIN t = 1 .. Len(s) + 1
      /\ \A i \in 1 .. Len(s) : t[i] = s[i]
      /\ t[Len(s) + 1] = e
  BY AppendProperties, LenProperties
<1> HIDE DEF t
<1>2. \A i \in 1 .. Len(s) : s[i] # e
  BY <1>1 DEF ToSet
<1>3. \A i \in 1 .. Len(s) + 1 : i \in 1 .. Len(s) \/ i = Len(s) + 1
  BY <1>1
<1>4. ToSet(t) = ToSet(s) \cup {e}
  BY <1>1, <1>3 DEF ToSet
<1>5. Distinct(t)
  BY <1>1, <1>2, <1>3 DEF Distinct
<1>6. SameOrder(s, t)
  <2>1. SUFFICES ASSUME NEW a, NEW b, NotAfter(s, a, b)
                 PROVE  NotAfter(t, a, b)
    BY DEF SameOrder
  <2>2. PICK i \in DOMAIN s, j \in DOMAIN s : i <= j /\ s[i] = a /\ s[j] = b
    BY <2>1 DEF NotAfter
  <2>3. i \in DOMAIN t /\ j \in DOMAIN t /\ t[i] = a /\ t[j] = b
    BY <1>1, <2>2
  <2>4. QED
    BY <2>2, <2>3 DEF NotAfter
<1>7. QED
  BY <1>1, <1>4, <1>5, <1>6 DEF t

\* Changes one after the other, the first of which only takes elements away.
LEMMA SameOrderTwice ==
  ASSUME NEW s, NEW t, NEW u, SameOrder(s, t), SameOrder(t, u),
         ToSet(u) \subseteq ToSet(t)
  PROVE  SameOrder(s, u)
BY DEF SameOrder

\* The first element of a list is not after any other.
LEMMA HeadNotAfter ==
  ASSUME NEW S, NEW s \in Seq(S), s # <<>>, NEW b \in ToSet(s)
  PROVE  Head(s) \in ToSet(s) /\ NotAfter(s, Head(s), b)
<1>1. Len(s) \in Nat \ {0} /\ DOMAIN s = 1 .. Len(s) /\ Head(s) = s[1]
  BY LenProperties, EmptySeq, HeadTailProperties
<1>2. QED
  BY <1>1 DEF NotAfter, ToSet

-----------------------------------------------------------------------------
(***************************************************************************)
(* Folds over the places of a list.                                        *)
(***************************************************************************)

\* What holds at first and goes on from one number to the next holds up to n.
LEMMA StepByStep ==
  ASSUME NEW n \in Nat, NEW S, 0 \in S, \A i \in 1 .. n : i - 1 \in S => i \in S
  PROVE  \A i \in 0 .. n : i \in S
<1> DEFINE T == {i \in 0 .. n : i \notin S}
<1>1. SUFFICES ASSUME T # {} PROVE FALSE
  OBVIOUS
<1>2. PICK m \in T : \A k \in T : m <= k
  <2>1. T \subseteq Nat
    OBVIOUS
  <2> HIDE DEF T
  <2>2. QED
    BY <1>1, <2>1, LeastNatural
<1>3. m \in 1 .. n /\ m - 1 \in 0 .. n /\ ~ (m <= m - 1)
  BY <1>2
<1>4. m - 1 \in S
  BY <1>2, <1>3
<1>5. QED
  BY <1>2, <1>3, <1>4

LEMMA LastOfSet ==
  ASSUME NEW m \in Nat, NEW s, s \subseteq 1 .. m + 1, m + 1 \in s
  PROVE  Max (s) = m + 1 /\ s \ {m + 1} \subseteq 1 .. m
<1>1. \A x \in s : m + 1 >= x /\ x \in Nat
  OBVIOUS
<1>2. Max (s) \in s /\ \A y \in s : Max (s) >= y
  BY <1>1 DEF Max
<1>3. Max (s) = m + 1
  <2> DEFINE x == Max (s)
  <2>1. x \in Nat /\ m + 1 >= x /\ x >= m + 1
    BY <1>1, <1>2
  <2> HIDE DEF x
  <2>2. x = m + 1
    BY <2>1
  <2>3. QED
    BY <2>2 DEF x
<1>4. \A x \in 1 .. m + 1 : x # m + 1 => x \in 1 .. m
  OBVIOUS
<1>5. QED
  BY <1>3, <1>4

\* The operator Max of a set of numbers up to n.
LEMMA MaxInRange ==
  ASSUME NEW n \in Nat, NEW s \in SUBSET (1 .. n), s # {}
  PROVE  Max (s) \in s
<1> DEFINE T == {i \in Nat : \A x \in s : x <= i}
<1>1. T \subseteq Nat /\ n \in T
  OBVIOUS
<1>2. PICK m \in T : \A k \in T : m <= k
  <2> HIDE DEF T
  <2>1. QED
    BY <1>1, LeastNatural
<1>3. m \in s
  <2>1. SUFFICES ASSUME m \notin s PROVE FALSE
    OBVIOUS
  <2>2. PICK x \in s : x \in 1 .. n
    OBVIOUS
  <2>3. m \in Nat /\ x <= m /\ x \in Nat /\ x > 0
    BY <1>2, <2>2
  <2>4. m - 1 \in T
    <3>1. \A y \in s : y \in Nat /\ y <= m /\ y # m
      BY <1>2, <2>1
    <3>2. QED
      BY <2>3, <3>1
  <2>5. QED
    BY <1>2, <2>3, <2>4
<1>4. \A y \in s : m >= y
  BY <1>2
<1>5. QED
  BY <1>3, <1>4 DEF Max

\* The numbers up to i, taken away one by one from above.
LEMMA FirstNumbers ==
  ASSUME NEW i \in Nat \ {0}
  PROVE  Max (1 .. i) = i /\ (1 .. i) \ {i} = 1 .. i - 1 /\ 1 .. i # {}
<1> DEFINE k == i - 1
<1>1. k \in Nat /\ i = k + 1 /\ i \in 1 .. i /\ 1 .. i \subseteq 1 .. k + 1 /\ k + 1 \in 1 .. i
  OBVIOUS
<1>2. (1 .. i) \ {i} = 1 .. i - 1
  OBVIOUS
<1> HIDE DEF k
<1>3. Max (1 .. i) = k + 1
  BY <1>1, LastOfSet
<1>4. 1 .. i # {}
  BY <1>1
<1>5. Max (1 .. i) = i
  BY <1>1, <1>3
<1>6. QED
  BY <1>2, <1>4, <1>5

\* g is what folding with the step F comes to for each set of numbers up to n.
IsFold (g, n, base, F) ==
  \A s \in SUBSET (1 .. n) : g[s] = IF s = {} THEN base ELSE F[<<Max (s), g[s \ {Max (s)}]>>]

\* There is such a function if the steps stay within a set A.
LEMMA FoldGoesOn ==
  ASSUME NEW n \in Nat, NEW A, NEW base \in A, NEW F \in [(1 .. n) \X A -> A]
  PROVE  /\ \E g \in [SUBSET (1 .. n) -> A] : IsFold (g, n, base, F)
         /\ \A s \in SUBSET (1 .. n) : s # {} => Max (s) \in 1 .. n /\ s \ {Max (s)} \in SUBSET (1 .. n)
<1> DEFINE P == {m \in 0 .. n : \E g \in [SUBSET (1 .. m) -> A] : IsFold (g, m, base, F)}
<1>1. 0 \in P
  <2> DEFINE g == [s \in SUBSET (1 .. 0) |-> base]
  <2>1. \A s \in SUBSET (1 .. 0) : s = {}
    OBVIOUS
  <2>2. g \in [SUBSET (1 .. 0) -> A] /\ \A s \in SUBSET (1 .. 0) : g[s] = base
    OBVIOUS
  <2> HIDE DEF g
  <2>3. 0 \in 0 .. n
    OBVIOUS
  <2>4. IsFold (g, 0, base, F)
    BY <2>1, <2>2 DEF IsFold
  <2>5. QED
    BY <2>2, <2>3, <2>4
<1>2. ASSUME NEW m \in 1 .. n, m - 1 \in P
      PROVE  m \in P
  <2>1. m - 1 \in Nat /\ (m - 1) + 1 = m /\ m - 1 \in 0 .. n /\ m \in 0 .. n
    OBVIOUS
  <2>2. PICK g \in [SUBSET (1 .. m - 1) -> A] : IsFold (g, m - 1, base, F)
    BY <1>2, <2>1
  <2> DEFINE h == [s \in SUBSET (1 .. m) |-> IF m \in s THEN F[<<m, g[s \ {m}]>>] ELSE g[s]]
  <2>3. \A s \in SUBSET (1 .. m) : IF m \in s THEN Max (s) = m /\ s \ {m} \in SUBSET (1 .. m - 1) ELSE s \in SUBSET (1 .. m - 1)
    <3>1. ASSUME NEW s \in SUBSET (1 .. m), m \in s
          PROVE  Max (s) = m /\ s \ {m} \in SUBSET (1 .. m - 1)
      <4> DEFINE k == m - 1
      <4>1. k \in Nat /\ m = k + 1
        BY <2>1
      <4> HIDE DEF k
      <4>2. Max (s) = m /\ s \ {m} \subseteq 1 .. k
        BY <3>1, <4>1, LastOfSet
      <4>3. QED
        BY <4>2 DEF k
    <3>2. \A x \in 1 .. m : x # m => x \in 1 .. m - 1
      OBVIOUS
    <3>3. ASSUME NEW s \in SUBSET (1 .. m), m \notin s
          PROVE  s \in SUBSET (1 .. m - 1)
      BY <3>2, <3>3
    <3>4. QED
      BY <3>1, <3>3
  <2>4. h \in [SUBSET (1 .. m) -> A]
    <3>1. \A x \in A : F[<<m, x>>] \in A
      OBVIOUS
    <3>2. \A s \in SUBSET (1 .. m) : IF m \in s THEN F[<<m, g[s \ {m}]>>] \in A ELSE g[s] \in A
      BY <2>3, <3>1
    <3>3. QED
      BY <3>2
  <2>5. \A s \in SUBSET (1 .. m - 1) : s \in SUBSET (1 .. m) /\ m \notin s
    <3>1. \A x \in 1 .. m - 1 : x \in 1 .. m /\ x # m
      OBVIOUS
    <3>2. QED
      BY <3>1
  <2>6. \A s \in SUBSET (1 .. m - 1) : h[s] = g[s]
    BY <2>5
  <2>7. ASSUME NEW s \in SUBSET (1 .. m)
        PROVE  h[s] = IF s = {} THEN base ELSE F[<<Max (s), h[s \ {Max (s)}]>>]
    <3>1. CASE m \in s
      <4>1. h[s] = F[<<m, g[s \ {m}]>>] /\ Max (s) = m /\ s \ {m} \in SUBSET (1 .. m - 1)
        BY <2>3, <3>1
      <4>2. h[s \ {m}] = g[s \ {m}]
        BY <2>6, <4>1
      <4> HIDE DEF h
      <4>3. QED
        BY <3>1, <4>1, <4>2
    <3>2. CASE m \notin s
      <4>1. s \in SUBSET (1 .. m - 1)
        BY <2>3, <3>2
      <4>2. s \ {Max (s)} \in SUBSET (1 .. m - 1)
        BY <4>1
      <4> HIDE DEF h
      <4>3. QED
        BY <2>2, <2>6, <4>1, <4>2 DEF IsFold
    <3>3. QED
      BY <3>1, <3>2
  <2> HIDE DEF h
  <2>8. IsFold (h, m, base, F)
    BY <2>7 DEF IsFold
  <2>9. QED
    BY <2>1, <2>4, <2>8
<1>3. \A m \in 0 .. n : m \in P
  <2> HIDE DEF P
  <2>1. QED
    BY <1>1, <1>2, StepByStep
<1>4. n \in 0 .. n
  OBVIOUS
<1>5. \A s \in SUBSET (1 .. n) : s # {} => Max (s) \in 1 .. n /\ s \ {Max (s)} \in SUBSET (1 .. n)
  BY MaxInRange
<1>6. QED
  BY <1>3, <1>4, <1>5

\* What is known of an iterated fold: its equation, where the value before is in A.
Iterates (iter, n, A, base, F) ==
  /\ iter[{}] = base
  /\ \A s \in SUBSET (1 .. n) : s # {} /\ iter[s \ {Max (s)}] \in A =>
       iter[s] = F[<<Max (s), iter[s \ {Max (s)}]>>]

\* h goes from the base through the steps of F.
IsRun (h, n, base, F) == h[0] = base /\ \A i \in 1 .. n : h[i] = F[<<i, h[i - 1]>>]

\* The folds of the first i numbers make a run.
LEMMA FoldRuns ==
  ASSUME NEW n \in Nat, NEW A, NEW base \in A, NEW F \in [(1 .. n) \X A -> A], NEW iter,
         Iterates (iter, n, A, base, F)
  PROVE  \E h \in [0 .. n -> A] : h[n] = iter[1 .. n] /\ IsRun (h, n, base, F)
<1> DEFINE T == {i \in 0 .. n : iter[1 .. i] \in A}
           h == [i \in 0 .. n |-> iter[1 .. i]]
<1>1. iter[1 .. 0] = base /\ n \in 0 .. n /\ 0 \in 0 .. n
  <2>1. 1 .. 0 = {}
    OBVIOUS
  <2>2. QED
    BY <2>1 DEF Iterates
<1>2. ASSUME NEW i \in 1 .. n, iter[1 .. i - 1] \in A
      PROVE  iter[1 .. i] = F[<<i, iter[1 .. i - 1]>>] /\ iter[1 .. i] \in A
  <2>1. i \in Nat \ {0} /\ 1 .. i \in SUBSET (1 .. n)
    OBVIOUS
  <2>2. Max (1 .. i) = i /\ (1 .. i) \ {i} = 1 .. i - 1 /\ 1 .. i # {}
    BY <2>1, FirstNumbers
  <2>3. iter[1 .. i] = F[<<i, iter[1 .. i - 1]>>]
    BY <1>2, <2>1, <2>2 DEF Iterates
  <2>4. QED
    BY <1>2, <2>3
<1>3. \A i \in 0 .. n : i \in T
  <2>1. 0 \in T /\ \A i \in 1 .. n : i - 1 \in T => i \in T
    <3>1. \A i \in 1 .. n : i - 1 \in 0 .. n /\ i \in 0 .. n
      OBVIOUS
    <3>2. QED
      BY <1>1, <1>2, <3>1
  <2> HIDE DEF T
  <2>2. QED
    BY <2>1, StepByStep
<1>4. \A i \in 0 .. n : h[i] = iter[1 .. i] /\ h[i] \in A
  BY <1>3
<1>5. h \in [0 .. n -> A]
  BY <1>3
<1> HIDE DEF h
<1>6. \A i \in 1 .. n : h[i] = F[<<i, h[i - 1]>>]
  <2>1. \A i \in 1 .. n : i - 1 \in 0 .. n /\ i \in 0 .. n
    OBVIOUS
  <2>2. QED
    BY <1>2, <1>4, <2>1
<1>7. QED
  BY <1>1, <1>4, <1>5, <1>6 DEF IsRun

=============================================================================
